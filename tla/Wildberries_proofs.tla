------------------------- MODULE Wildberries_proofs -------------------------
(***************************************************************************)
(* Proofs about the components of the Wildberries side: WbLimiter, for any *)
(* callers, slots, gaps and penalties; WbCards, for any number of cards,   *)
(* listings and refusals and any complaints; WbStocks, for any fleets,     *)
(* boxes and jobs; WbCatalog, for any entries, files and calls; WbPhotos,  *)
(* for any albums and slots; WbSizes, for any number of options and        *)
(* barcodes; WbMapper, for any brand directory; and about MCWildberries,   *)
(* where they stand side by side.                                          *)
(***************************************************************************)
EXTENDS MCWildberries, Lists_proofs, FiniteSetTheorems, SequenceTheorems, WellFoundedInduction, TLAPS

-----------------------------------------------------------------------------
(* WbLimiter: callers, slots and start times.                              *)

Calls == [pc : {"arriving", "waiting", "woken", "sleeping", "fetching", "backoff", "falling", "ended"},
          kind : {"request", "media", "sdk"}, write : BOOLEAN, attempt : Nat, wait : Nat]
Gap(c) == MinInterval * Weight(c)

\* Those who have a slot, and those told to look for one.
Holders == {c \in Caller : caller[c].pc \in {"sleeping", "fetching", "backoff"}}
Awake == {c \in Caller : CallerAt(c, "woken")}

\* The slots taken are those of the callers past the gate.
SlotsCounted == active = Cardinality(Holders)

\* The queue holds callers that wait, each once.
Lined ==
  /\ \A i \in 1..Len(waiters) : CallerAt(waiters[i], "waiting")
  /\ \A i, j \in 1..Len(waiters) : waiters[i] = waiters[j] => i = j

\* A sleeper's start is to come, and its gap is within the lead.
Behind == \A c \in Caller : CallerAt(c, "sleeping") => 1 <= caller[c].wait /\ caller[c].wait + Gap(c) <= lead

\* That no one is stranded needs that the woken caller was a waiting one
\* (Lined), and that a slot given back was taken (SlotsCounted); that starts
\* are spaced needs that the lead is behind every sleeper (Behind).
LimiterInv == LimiterTypeOK /\ SlotsCounted /\ Lined /\ NoneStranded /\ StartsSpaced /\ Behind

-----------------------------------------------------------------------------
\* A caller's gap is a number.
LEMMA GapType == \A c \in Caller : Weight(c) \in {1, 2} /\ Gap(c) \in Nat
BY LimiterAssumptions DEF Weight, Gap

\* Gaps vanish together, when MinInterval is 0.
LEMMA GapZero == \A c, d \in Caller : Gap(c) = 0 => Gap(d) = 0
<1>1. MinInterval \in Nat /\ \A c \in Caller : Weight(c) \in {1, 2}
  BY LimiterAssumptions, GapType
<1>2. \A c \in Caller : Gap(c) = MinInterval \/ Gap(c) = MinInterval + MinInterval
  BY <1>1 DEF Gap
<1> QED BY <1>1, <1>2

\* Holders and awake callers are finitely many, with or without one of them.
LEMMA Counting ==
  /\ Cardinality(Holders) \in Nat /\ Cardinality(Awake) \in Nat
  /\ \A c \in Caller :
       /\ Cardinality(Holders \ {c}) \in Nat
       /\ Cardinality(Holders \cup {c}) = IF c \in Holders THEN Cardinality(Holders) ELSE Cardinality(Holders) + 1
       /\ Cardinality(Holders \ {c}) = IF c \in Holders THEN Cardinality(Holders) - 1 ELSE Cardinality(Holders)
       /\ Cardinality(Awake \cup {c}) = IF c \in Awake THEN Cardinality(Awake) ELSE Cardinality(Awake) + 1
       /\ Cardinality(Awake \ {c}) = IF c \in Awake THEN Cardinality(Awake) - 1 ELSE Cardinality(Awake)
<1>1. IsFiniteSet(Holders) /\ IsFiniteSet(Awake)
  BY FS_Subset, LimiterAssumptions DEF Holders, Awake
<1> QED BY <1>1, FS_CardinalityType, FS_AddElement, FS_RemoveElement

\* A start taken after the others.
LEMMA LeadGrows ==
  ASSUME LimiterTypeOK, NEW c \in Caller
  PROVE  NextLead(c) \in Nat /\ NextLead(c) >= lead + Gap(c)
<1>1. lead \in Nat /\ penalty \in Nat /\ MinInterval \in Nat
  BY LimiterAssumptions DEF LimiterTypeOK
<1>2. CASE Weight(c) = 1
  BY <1>1, <1>2 DEF NextLead, Gap
<1>3. CASE Weight(c) = 2
  BY <1>1, <1>3 DEF NextLead, Gap
<1> QED BY <1>2, <1>3, GapType

-----------------------------------------------------------------------------
\* A caller that keeps its slot, or stays without one, changes nothing for the others.
LEMMA KeepStep ==
  ASSUME LimiterInv, NEW c \in Caller, NEW call \in Calls,
         caller' = [caller EXCEPT ![c] = call], call.write = caller[c].write,
         \/ caller[c].pc \in {"fetching", "backoff"} /\ call.pc \in {"fetching", "backoff"}
         \/ caller[c].pc = "falling" /\ call.pc = "arriving",
         UNCHANGED <<active, lead, waiters, owed>>, penalty' \in 0..MaxPenalty
  PROVE  LimiterInv'
<1>1. LimiterTypeOK'
  BY DEF LimiterInv, LimiterTypeOK, Calls
<1>2. \A d \in Caller : /\ d # c => caller'[d] = caller[d]
                        /\ caller'[c] = call
                        /\ caller'[d].write = caller[d].write
  BY DEF LimiterInv, LimiterTypeOK
<1>3. Holders' = Holders /\ Awake' = Awake
  BY <1>2 DEF Holders, Awake, CallerAt
<1>4. SlotsCounted' /\ NoneStranded'
  BY <1>3 DEF SlotsCounted, NoneStranded, LimiterInv, Awake
<1>5. Lined'
  BY <1>2, ElementOfSeq DEF Lined, LimiterInv, CallerAt, LimiterTypeOK
<1>6. \A d \in Caller : Weight(d)' = Weight(d) /\ Gap(d)' = Gap(d)
  BY <1>2 DEF Weight, Gap
<1>7. \A d \in Caller : CallerAt(d, "sleeping")' => d # c /\ CallerAt(d, "sleeping") /\ caller'[d].wait = caller[d].wait
  BY <1>2 DEF CallerAt
<1>8. StartsSpaced' /\ Behind'
  BY <1>6, <1>7 DEF StartsSpaced, Behind, LimiterInv, Gap
<1> QED BY <1>1, <1>4, <1>5, <1>8 DEF LimiterInv

\* A slot given back, and the first waiter woken.
LEMMA ReleaseStep ==
  ASSUME LimiterInv, NEW c \in Caller, CallerAt(c, "fetching"), NEW end \in {"ended", "falling"},
         Release(c, end), UNCHANGED <<lead, owed>>, penalty' \in 0..MaxPenalty
  PROVE  LimiterInv'
<1> DEFINE head == Head(waiters)
<1>1. c \in Holders /\ active >= 1 /\ active - 1 = Cardinality(Holders \ {c})
  <2>1. c \in Holders
    BY DEF Holders, CallerAt
  <2>2. active = Cardinality(Holders)
    BY DEF LimiterInv, SlotsCounted
  <2>3. /\ Cardinality(Holders) \in Nat /\ Cardinality(Holders \ {c}) \in Nat
        /\ Cardinality(Holders \ {c}) = Cardinality(Holders) - 1
    BY <2>1, Counting
  <2> QED BY <2>1, <2>2, <2>3
<1>2. /\ waiters \in Seq(Caller)
      /\ waiters # <<>> => head = waiters[1] /\ CallerAt(head, "waiting") /\ head \in Caller /\ head # c
  BY HeadTailProperties, LenProperties, EmptySeq DEF LimiterInv, LimiterTypeOK, Lined, CallerAt
<1>3. \A d \in Caller :
        /\ d = c => caller'[d] = [caller[d] EXCEPT !.pc = end]
        /\ waiters # <<>> /\ d = head => caller'[d] = [caller[d] EXCEPT !.pc = "woken"]
        /\ d # c /\ (waiters # <<>> => d # head) => caller'[d] = caller[d]
  BY <1>2 DEF Release, Woken
<1>4. \A d \in Caller :
        /\ caller[d] \in Calls
        /\ caller'[d].write = caller[d].write /\ caller'[d].wait = caller[d].wait
        /\ caller'[d].pc = IF d = c THEN end ELSE IF waiters # <<>> /\ d = head THEN "woken" ELSE caller[d].pc
        /\ caller'[d] \in Calls
  <2>1. \A d \in Caller : caller[d] \in Calls
    BY DEF Calls, LimiterInv, LimiterTypeOK
  <2> SUFFICES ASSUME NEW d \in Caller
               PROVE  /\ caller[d] \in Calls
                      /\ caller'[d].write = caller[d].write /\ caller'[d].wait = caller[d].wait
                      /\ caller'[d].pc = IF d = c THEN end ELSE IF waiters # <<>> /\ d = head THEN "woken" ELSE caller[d].pc
                      /\ caller'[d] \in Calls
    OBVIOUS
  <2>2. CASE d = c
    BY <1>3, <2>1, <2>2 DEF Calls
  <2>3. CASE waiters # <<>> /\ d = head
    BY <1>2, <1>3, <2>1, <2>3 DEF Calls
  <2>4. CASE d # c /\ ~(waiters # <<>> /\ d = head)
    BY <1>3, <2>1, <2>4
  <2> QED BY <2>2, <2>3, <2>4
<1>5. caller' \in [Caller -> Calls]
  BY <1>4 DEF Release
<1>6. active' = active - 1 /\ waiters' = IF waiters = <<>> THEN waiters ELSE Tail(waiters)
  BY DEF Release, Woken
<1>7. LimiterTypeOK'
  <2>1. active' \in 0..MaxConcurrent
    BY <1>1, <1>6, LimiterAssumptions DEF LimiterInv, LimiterTypeOK
  <2>2. waiters' \in Seq(Caller)
    BY <1>2, <1>6, HeadTailProperties
  <2> QED BY <1>5, <2>1, <2>2 DEF LimiterInv, LimiterTypeOK, Calls
<1>8. SlotsCounted'
  <2>1. Holders' = Holders \ {c}
    BY <1>2, <1>4 DEF Holders, CallerAt
  <2> QED BY <1>1, <1>6, <2>1 DEF SlotsCounted
<1>9. NoneStranded'
  <2>1. CASE waiters = <<>>
    BY <1>6, <2>1 DEF NoneStranded
  <2>2. CASE waiters # <<>>
    <3>1. Awake' = Awake \cup {head} /\ head \notin Awake
      BY <1>2, <1>4, <2>2 DEF Awake, CallerAt
    <3>2. Cardinality(Awake') = Cardinality(Awake) + 1
      BY <1>2, <2>2, <3>1, Counting
    <3>3. active + Cardinality(Awake) >= MaxConcurrent
      BY <2>2 DEF LimiterInv, NoneStranded, Awake
    <3>4. active' + Cardinality(Awake') >= MaxConcurrent
      BY <1>1, <1>6, <3>2, <3>3, Counting, LimiterAssumptions, SMTT(30) DEF LimiterInv, LimiterTypeOK
    <3> QED BY <3>4 DEF NoneStranded, Awake
  <2> QED BY <2>1, <2>2
<1>10. Lined'
  <2>1. CASE waiters = <<>>
    BY <1>6, <2>1, EmptySeq DEF Lined
  <2>2. CASE waiters # <<>>
    <3>1. /\ Len(waiters') = Len(waiters) - 1 /\ Len(waiters) \in Nat
          /\ \A i \in 1..Len(waiters') : waiters'[i] = waiters[i + 1]
      BY <1>2, <1>6, <2>2, HeadTailProperties, LenProperties
    <3>2. \A i \in 1..Len(waiters') : /\ i + 1 \in 1..Len(waiters) /\ 1 \in 1..Len(waiters)
                                      /\ i + 1 # 1
      BY <3>1
    <3>3. \A i \in 1..Len(waiters') : /\ waiters'[i] \in Caller /\ waiters'[i] # head
                                      /\ CallerAt(waiters'[i], "waiting")
      BY <1>2, <2>2, <3>1, <3>2, ElementOfSeq DEF Lined, LimiterInv
    <3>4. \A i \in 1..Len(waiters') : caller'[waiters'[i]].pc = "waiting"
      BY <1>2, <1>4, <2>2, <3>3 DEF CallerAt
    <3>5. \A i, j \in 1..Len(waiters') : waiters'[i] = waiters'[j] => i = j
      BY <3>1, <3>2 DEF Lined, LimiterInv
    <3> QED BY <3>4, <3>5 DEF Lined, CallerAt
  <2> QED BY <2>1, <2>2
<1>11. \A d \in Caller : Weight(d)' = Weight(d) /\ Gap(d)' = Gap(d)
  BY <1>4 DEF Weight, Gap
<1>12. \A d \in Caller : CallerAt(d, "sleeping")' => CallerAt(d, "sleeping") /\ caller'[d].wait = caller[d].wait
  BY <1>4 DEF CallerAt
<1>13. StartsSpaced' /\ Behind'
  BY <1>11, <1>12 DEF StartsSpaced, Behind, LimiterInv, Gap
<1> QED BY <1>7, <1>8, <1>9, <1>10, <1>13 DEF LimiterInv

\* A call between two tries.
LEMMA BackOff ==
  ASSUME NEW s \in Calls, NEW n \in Nat
  PROVE  LET t == [s EXCEPT !.attempt = n, !.pc = "backoff"]
         IN  t \in Calls /\ t.write = s.write /\ t.pc = "backoff"
BY DEF Calls

\* A try that fails is tried again in its slot, or gives it back.
LEMMA TryAgainStep ==
  ASSUME LimiterInv, NEW c \in Caller, CallerAt(c, "fetching"), TryAgain(c),
         UNCHANGED <<lead, owed>>, penalty' \in 0..MaxPenalty
  PROVE  LimiterInv'
<1>1. CASE caller' = Again(c) /\ UNCHANGED <<active, waiters>>
  <2> DEFINE call == [caller[c] EXCEPT !.attempt = @ + 1, !.pc = "backoff"]
  <2>1. caller[c] \in Calls
    BY DEF LimiterInv, LimiterTypeOK, Calls
  <2>2. /\ call \in Calls /\ call.write = caller[c].write /\ call.pc = "backoff"
        /\ caller[c].pc = "fetching"
    <3>1. caller[c].attempt + 1 \in Nat
      BY <2>1 DEF Calls
    <3> QED BY <2>1, <3>1, BackOff DEF CallerAt
  <2>3. caller' = [caller EXCEPT ![c] = call]
    BY <1>1 DEF Again, LimiterInv, LimiterTypeOK
  <2> HIDE DEF call
  <2> QED BY <1>1, <2>2, <2>3, KeepStep
<1>2. CASE Release(c, "ended")
  BY <1>2, ReleaseStep
<1> QED BY <1>1, <1>2 DEF TryAgain

-----------------------------------------------------------------------------
\* Behind a full house a caller joins the queue.
LEMMA QueueStep ==
  ASSUME LimiterInv, NEW c \in Caller, CallerAt(c, "arriving") \/ CallerAt(c, "woken"), Full,
         Acquire(c), UNCHANGED penalty
  PROVE  LimiterInv'
<1>1. /\ waiters' = Append(waiters, c) /\ UNCHANGED <<active, lead, owed>>
      /\ caller' = [caller EXCEPT ![c].pc = "waiting"]
  BY DEF Acquire, Now
<1>2. waiters \in Seq(Caller) /\ Len(waiters) \in Nat
  BY LenProperties DEF LimiterInv, LimiterTypeOK
<1>3. /\ waiters' \in Seq(Caller) /\ Len(waiters') = Len(waiters) + 1
      /\ \A i \in 1..Len(waiters') : waiters'[i] = IF i = Len(waiters) + 1 THEN c ELSE waiters[i]
  BY <1>1, <1>2, AppendProperties
<1>4. \A d \in Caller : /\ d # c => caller'[d] = caller[d]
                        /\ caller'[c].pc = "waiting"
                        /\ caller'[d].write = caller[d].write /\ caller'[d].wait = caller[d].wait
  BY <1>1 DEF LimiterInv, LimiterTypeOK
<1>5. LimiterTypeOK'
  BY <1>1, <1>3 DEF LimiterInv, LimiterTypeOK
<1>6. SlotsCounted'
  <2>1. Holders' = Holders
    BY <1>4 DEF Holders, CallerAt
  <2> QED BY <1>1, <2>1 DEF SlotsCounted, LimiterInv
<1>7. NoneStranded'
  <2>1. active >= MaxConcurrent /\ active \in Nat /\ MaxConcurrent \in Nat
    BY LimiterAssumptions DEF Full, LimiterInv, LimiterTypeOK
  <2>2. Awake' = Awake \ {c}
    BY <1>4 DEF Awake, CallerAt
  <2>3. Cardinality(Awake') \in Nat
    BY <2>2, FS_RemoveElement, FS_CardinalityType, FS_Subset, LimiterAssumptions DEF Awake
  <2>4. active' + Cardinality(Awake') >= MaxConcurrent
    BY <1>1, <2>1, <2>3
  <2> QED BY <2>4 DEF NoneStranded, Awake
<1>8. Lined'
  <2>1. \A i \in 1..Len(waiters) : waiters[i] \in Caller /\ CallerAt(waiters[i], "waiting") /\ waiters[i] # c
    BY <1>2, ElementOfSeq DEF LimiterInv, Lined, CallerAt
  <2>2. \A i \in 1..Len(waiters') : i = Len(waiters) + 1 \/ i \in 1..Len(waiters)
    BY <1>2, <1>3
  <2>3. \A i \in 1..Len(waiters') : caller'[waiters'[i]].pc = "waiting"
    BY <1>3, <1>4, <2>1, <2>2 DEF CallerAt
  <2>4. \A i, j \in 1..Len(waiters') : waiters'[i] = waiters'[j] => i = j
    BY <1>3, <2>1, <2>2 DEF LimiterInv, Lined
  <2> QED BY <2>3, <2>4 DEF Lined, CallerAt
<1>9. \A d \in Caller : Weight(d)' = Weight(d) /\ Gap(d)' = Gap(d)
  BY <1>4 DEF Weight, Gap
<1>10. \A d \in Caller : CallerAt(d, "sleeping")' => CallerAt(d, "sleeping") /\ caller'[d].wait = caller[d].wait
  BY <1>4 DEF CallerAt
<1>11. StartsSpaced' /\ Behind'
  BY <1>1, <1>9, <1>10 DEF StartsSpaced, Behind, LimiterInv, Gap
<1> QED BY <1>5, <1>6, <1>7, <1>8, <1>11 DEF LimiterInv

\* Otherwise it takes a slot, and a start behind everyone's gap.
LEMMA TakeStep ==
  ASSUME LimiterInv, NEW c \in Caller, CallerAt(c, "arriving") \/ CallerAt(c, "woken"), ~Full,
         Acquire(c), UNCHANGED penalty
  PROVE  LimiterInv'
<1>1. active' = active + 1 /\ lead' = NextLead(c) /\ UNCHANGED waiters
  BY DEF Acquire
<1>2. /\ active \in Nat /\ active < MaxConcurrent /\ MaxConcurrent \in Nat
      /\ lead \in Nat /\ owed \in Nat /\ lead' \in Nat /\ lead' >= lead + Gap(c) /\ Gap(c) \in Nat
      /\ \A d \in Caller : caller[d].wait \in Nat /\ Gap(d) \in Nat
  BY <1>1, LeadGrows, GapType, LimiterAssumptions, SMTT(30) DEF Full, LimiterInv, LimiterTypeOK
<1>3. \/ lead = 0 /\ caller' = [caller EXCEPT ![c].pc = "fetching"] /\ owed' = Gap(c)
      \/ lead # 0 /\ caller' = [caller EXCEPT ![c].pc = "sleeping", ![c].wait = lead] /\ owed' = owed
  BY DEF Acquire, Now, Started, Gap
<1>4. \A d \in Caller : /\ d # c => caller'[d] = caller[d]
                        /\ caller'[c].pc \in {"fetching", "sleeping"}
                        /\ caller'[d].write = caller[d].write
                        /\ CallerAt(c, "sleeping")' => lead # 0 /\ caller'[c].wait = lead
  BY <1>3 DEF LimiterInv, LimiterTypeOK, CallerAt
<1>5. LimiterTypeOK'
  <2>1. caller \in [Caller -> Calls]
    BY DEF LimiterInv, LimiterTypeOK, Calls
  <2>2. caller' \in [Caller -> Calls]
    BY <1>2, <1>3, <2>1 DEF Calls
  <2>3. active' \in 0..MaxConcurrent /\ owed' \in Nat
    BY <1>1, <1>2, <1>3
  <2> QED BY <1>1, <1>2, <2>2, <2>3 DEF LimiterInv, LimiterTypeOK, Calls
<1>6. SlotsCounted'
  <2>1. Holders' = Holders \cup {c} /\ c \notin Holders
    BY <1>4 DEF Holders, CallerAt
  <2>2. active = Cardinality(Holders)
    BY DEF LimiterInv, SlotsCounted
  <2>3. Cardinality(Holders') = Cardinality(Holders) + 1
    BY <2>1, Counting
  <2> QED BY <1>1, <2>2, <2>3 DEF SlotsCounted
<1>7. NoneStranded'
  <2>1. Awake' = Awake \ {c}
    BY <1>4 DEF Awake, CallerAt
  <2>2. Cardinality(Awake) \in Nat /\ Cardinality(Awake') \in Nat /\ Cardinality(Awake') >= Cardinality(Awake) - 1
    <3>1. Cardinality(Awake \ {c}) = IF c \in Awake THEN Cardinality(Awake) - 1 ELSE Cardinality(Awake)
      BY Counting
    <3>2. Cardinality(Awake \ {c}) \in Nat
      BY FS_RemoveElement, FS_CardinalityType, FS_Subset, LimiterAssumptions DEF Awake
    <3>3. Cardinality(Awake) \in Nat
      BY Counting
    <3> QED BY <2>1, <3>1, <3>2, <3>3
  <2>3. waiters # <<>> => active + Cardinality(Awake) >= MaxConcurrent
    BY DEF LimiterInv, NoneStranded, Awake
  <2>4. waiters' # <<>> => active' + Cardinality(Awake') >= MaxConcurrent
    BY <1>1, <1>2, <2>2, <2>3
  <2> QED BY <2>4 DEF NoneStranded, Awake
<1>8. Lined'
  <2>1. \A i \in 1..Len(waiters) : waiters[i] \in Caller /\ CallerAt(waiters[i], "waiting") /\ waiters[i] # c
    BY ElementOfSeq DEF LimiterInv, LimiterTypeOK, Lined, CallerAt
  <2> QED BY <1>1, <1>4, <2>1 DEF LimiterInv, Lined, CallerAt
<1>9. \A d \in Caller : Weight(d)' = Weight(d) /\ Gap(d)' = Gap(d)
  BY <1>4 DEF Weight, Gap
<1>10. owed <= lead /\ \A d \in Caller : CallerAt(d, "sleeping") =>
         /\ 1 <= caller[d].wait /\ caller[d].wait + Gap(d) <= lead
         /\ owed <= caller[d].wait
  BY DEF LimiterInv, StartsSpaced, Behind
<1>11. \A d \in Caller : CallerAt(d, "sleeping")' =>
         \/ d = c /\ lead # 0 /\ caller'[d].wait = lead
         \/ d # c /\ CallerAt(d, "sleeping") /\ caller'[d].wait = caller[d].wait
  BY <1>4 DEF CallerAt
<1>12. lead = 0 => \A d \in Caller : ~CallerAt(d, "sleeping")
  BY <1>2, <1>10
<1>13. Behind'
  <2>1. \A d \in Caller : CallerAt(d, "sleeping")' => 1 <= caller'[d].wait /\ caller'[d].wait + Gap(d) <= lead'
    BY <1>2, <1>10, <1>11
  <2> QED BY <1>9, <2>1 DEF Behind
<1>14. StartsSpaced'
  <2>1. owed' <= lead'
    BY <1>2, <1>3, <1>10
  <2>2. \A d \in Caller : CallerAt(d, "sleeping")' => owed' <= caller'[d].wait
    BY <1>2, <1>3, <1>10, <1>11, <1>12
  <2>3. \A d, e \in Caller : (CallerAt(d, "sleeping") /\ CallerAt(e, "sleeping") /\ d # e
            /\ caller[d].wait <= caller[e].wait) => caller[d].wait + Gap(d) <= caller[e].wait
    BY DEF LimiterInv, StartsSpaced, Gap
  <2>4. \A d, e \in Caller : (CallerAt(d, "sleeping")' /\ CallerAt(e, "sleeping")' /\ d # e
            /\ caller'[d].wait <= caller'[e].wait) => caller'[d].wait + Gap(d) <= caller'[e].wait
    <3> SUFFICES ASSUME NEW d \in Caller, NEW e \in Caller, CallerAt(d, "sleeping")',
                        CallerAt(e, "sleeping")', d # e, caller'[d].wait <= caller'[e].wait
                 PROVE  caller'[d].wait + Gap(d) <= caller'[e].wait
      OBVIOUS
    <3>1. CASE d = c
      <4>1. CallerAt(e, "sleeping") /\ caller'[e].wait = caller[e].wait /\ caller'[d].wait = lead
        BY <1>11, <3>1
      <4>2. caller[e].wait + Gap(e) <= lead /\ lead <= caller[e].wait
        BY <1>10, <4>1
      <4>3. Gap(e) = 0 /\ Gap(d) = 0
        <5>1. Gap(e) = 0
          BY <1>2, <4>2
        <5> QED BY <5>1, GapZero
      <4> QED BY <1>2, <4>1, <4>2, <4>3
    <3>2. CASE e = c
      BY <1>2, <1>10, <1>11, <3>2
    <3>3. CASE d # c /\ e # c
      BY <1>11, <2>3, <3>3
    <3> QED BY <3>1, <3>2, <3>3
  <2> QED BY <1>9, <2>1, <2>2, <2>4 DEF StartsSpaced, Gap
<1> QED BY <1>5, <1>6, <1>7, <1>8, <1>13, <1>14 DEF LimiterInv

\* A caller is queued or takes a slot.
LEMMA AcquireStep ==
  ASSUME LimiterInv, NEW c \in Caller, CallerAt(c, "arriving") \/ CallerAt(c, "woken"),
         Acquire(c), UNCHANGED penalty
  PROVE  LimiterInv'
BY QueueStep, TakeStep

-----------------------------------------------------------------------------
\* What time makes of a call that is due, and of a sleeper.
LEMMA Begun ==
  ASSUME NEW s \in Calls
  PROVE  LET t == [s EXCEPT !.pc = "fetching", !.wait = 0]
         IN  t \in Calls /\ t.write = s.write /\ t.pc = "fetching"
BY DEF Calls

\* A sleeper that waits less is the same call.
LEMMA Shortened ==
  ASSUME NEW s \in Calls, NEW n \in Nat
  PROVE  LET t == [s EXCEPT !.wait = n]
         IN  t \in Calls /\ t.write = s.write /\ t.pc = s.pc /\ t.wait = n
BY DEF Calls

\* Time passes: those due start, the others come closer, all by as much as the lead.
LEMMA TickStep == ASSUME LimiterInv, Tick PROVE LimiterInv'
<1>1. /\ lead \in Nat /\ lead > 0 /\ lead' = lead - 1 /\ UNCHANGED <<active, penalty, waiters>>
      /\ owed \in Nat
  BY DEF Tick, LimiterInv, LimiterTypeOK
<1>2. caller \in [Caller -> Calls] /\ \A d \in Caller : caller[d].wait \in Nat /\ Gap(d) \in Nat
  BY GapType DEF LimiterInv, LimiterTypeOK, Calls
<1>3. /\ owed <= lead
      /\ \A d \in Caller : CallerAt(d, "sleeping") =>
           1 <= caller[d].wait /\ caller[d].wait + Gap(d) <= lead /\ owed <= caller[d].wait
      /\ \A d, e \in Caller : (CallerAt(d, "sleeping") /\ CallerAt(e, "sleeping") /\ d # e
            /\ caller[d].wait <= caller[e].wait) => caller[d].wait + Gap(d) <= caller[e].wait
  BY DEF LimiterInv, StartsSpaced, Behind, Gap
<1>4. \A d \in Caller :
        /\ Due(d) => caller'[d] = [caller[d] EXCEPT !.pc = "fetching", !.wait = 0]
        /\ ~Due(d) /\ CallerAt(d, "sleeping") => caller'[d] = [caller[d] EXCEPT !.wait = @ - 1]
        /\ ~CallerAt(d, "sleeping") => caller'[d] = caller[d]
  BY DEF Tick, Due
<1>5. \A d \in Caller :
        /\ caller'[d] \in Calls /\ caller'[d].write = caller[d].write
        /\ caller'[d].pc = IF Due(d) THEN "fetching" ELSE caller[d].pc
        /\ ~Due(d) /\ CallerAt(d, "sleeping") => caller'[d].wait = caller[d].wait - 1 /\ caller[d].wait >= 2
  <2> SUFFICES ASSUME NEW d \in Caller
               PROVE  /\ caller'[d] \in Calls /\ caller'[d].write = caller[d].write
                      /\ caller'[d].pc = IF Due(d) THEN "fetching" ELSE caller[d].pc
                      /\ ~Due(d) /\ CallerAt(d, "sleeping") => caller'[d].wait = caller[d].wait - 1 /\ caller[d].wait >= 2
    OBVIOUS
  <2>1. CASE Due(d)
    <3>1. caller[d] \in Calls /\ caller'[d] = [caller[d] EXCEPT !.pc = "fetching", !.wait = 0]
      BY <1>2, <1>4, <2>1
    <3>2. /\ caller'[d] \in Calls /\ caller'[d].write = caller[d].write
          /\ caller'[d].pc = "fetching"
      BY <3>1, Begun
    <3> QED BY <2>1, <3>2
  <2>2. CASE ~Due(d) /\ CallerAt(d, "sleeping")
    <3>1. caller[d].wait >= 2 /\ caller[d].wait - 1 \in Nat
      BY <1>2, <1>3, <2>2 DEF Due
    <3>2. /\ caller'[d] \in Calls /\ caller'[d].write = caller[d].write
          /\ caller'[d].pc = caller[d].pc /\ caller'[d].wait = caller[d].wait - 1
      <4>1. caller[d] \in Calls /\ caller'[d] = [caller[d] EXCEPT !.wait = caller[d].wait - 1]
        BY <1>2, <1>4, <2>2
      <4> QED BY <3>1, <4>1, Shortened
    <3> QED BY <2>2, <3>1, <3>2
  <2>3. CASE ~CallerAt(d, "sleeping")
    BY <1>2, <1>4, <2>3 DEF Due
  <2> QED BY <2>1, <2>2, <2>3
<1>6. \/ \E d \in Caller : Due(d) /\ owed' = Gap(d)
      \/ (\A d \in Caller : ~Due(d)) /\ owed' = IF owed = 0 THEN 0 ELSE owed - 1
  BY DEF Tick, Started, Gap
<1>7. LimiterTypeOK'
  <2>1. caller' \in [Caller -> Calls]
    BY <1>5 DEF Tick
  <2>2. owed' \in Nat
    BY <1>1, <1>2, <1>6
  <2> QED BY <1>1, <2>1, <2>2 DEF LimiterInv, LimiterTypeOK, Calls
<1>8. Holders' = Holders /\ Awake' = Awake
  BY <1>5 DEF Holders, Awake, CallerAt, Due
<1>9. SlotsCounted' /\ NoneStranded'
  BY <1>1, <1>8 DEF SlotsCounted, NoneStranded, LimiterInv, Awake
<1>10. Lined'
  <2>1. \A i \in 1..Len(waiters) : waiters[i] \in Caller /\ CallerAt(waiters[i], "waiting")
    BY ElementOfSeq DEF LimiterInv, LimiterTypeOK, Lined
  <2> QED BY <1>1, <1>5, <2>1 DEF LimiterInv, Lined, CallerAt, Due
<1>11. \A d \in Caller : Weight(d)' = Weight(d) /\ Gap(d)' = Gap(d)
  BY <1>5 DEF Weight, Gap
<1>12. \A d \in Caller : CallerAt(d, "sleeping")' =>
         ~Due(d) /\ CallerAt(d, "sleeping") /\ caller'[d].wait = caller[d].wait - 1 /\ caller[d].wait >= 2
  BY <1>5 DEF CallerAt
<1>13. Behind'
  <2>1. \A d \in Caller : CallerAt(d, "sleeping")' => 1 <= caller'[d].wait /\ caller'[d].wait + Gap(d) <= lead'
    BY <1>1, <1>2, <1>3, <1>12
  <2> QED BY <1>11, <2>1 DEF Behind
<1>14. StartsSpaced'
  <2>1. owed' <= lead' /\ \A d \in Caller : CallerAt(d, "sleeping")' => owed' <= caller'[d].wait
    <3>1. CASE \E d \in Caller : Due(d) /\ owed' = Gap(d)
      <4>1. PICK e \in Caller : Due(e) /\ owed' = Gap(e)
        BY <3>1
      <4>2. CallerAt(e, "sleeping") /\ caller[e].wait = 1
        BY <4>1 DEF Due
      <4>3. owed' <= lead'
        BY <1>1, <1>2, <1>3, <4>1, <4>2
      <4>4. \A d \in Caller : CallerAt(d, "sleeping")' => d # e /\ caller[e].wait <= caller[d].wait
        BY <1>2, <1>12, <4>1, <4>2
      <4>5. \A d \in Caller : CallerAt(d, "sleeping")' => 1 + Gap(e) <= caller[d].wait
        BY <1>3, <1>12, <4>2, <4>4
      <4> QED BY <1>2, <1>12, <4>1, <4>3, <4>5
    <3>2. CASE owed' = IF owed = 0 THEN 0 ELSE owed - 1
      BY <1>1, <1>2, <1>3, <1>12, <3>2
    <3> QED BY <1>6, <3>1, <3>2
  <2>2. \A d, e \in Caller : (CallerAt(d, "sleeping")' /\ CallerAt(e, "sleeping")' /\ d # e
            /\ caller'[d].wait <= caller'[e].wait) => caller'[d].wait + Gap(d) <= caller'[e].wait
    BY <1>2, <1>3, <1>12
  <2> QED BY <1>11, <2>1, <2>2 DEF StartsSpaced, Gap
<1> QED BY <1>7, <1>9, <1>10, <1>13, <1>14 DEF LimiterInv

-----------------------------------------------------------------------------
\* penalty' stays in its range, whatever the answer.
LEMMA PenaltyStep ==
  ASSUME LimiterTypeOK
  PROVE  /\ UNCHANGED penalty => penalty' \in 0..MaxPenalty
         /\ NotifyOk => penalty' \in 0..MaxPenalty
         /\ penalty' = Least(MaxPenalty, penalty * 2 + MinInterval + ThrottleStep) => penalty' \in 0..MaxPenalty
BY LimiterAssumptions DEF LimiterTypeOK, NotifyOk, Least

\* The SDK's call is over, and the fallback asks for a slot of its own.
LEMMA FallBackStep == ASSUME LimiterInv, NEW c \in Caller, FallBack(c) PROVE LimiterInv'
<1> DEFINE call == [caller[c] EXCEPT !.pc = "arriving", !.kind = "request", !.attempt = 0]
<1>1. caller[c] \in Calls /\ penalty \in 0..MaxPenalty
  BY DEF LimiterInv, LimiterTypeOK, Calls
<1>2. call \in Calls /\ call.write = caller[c].write /\ call.pc = "arriving" /\ caller[c].pc = "falling"
  BY <1>1 DEF Calls, FallBack, CallerAt
<1>3. caller' = [caller EXCEPT ![c] = call] /\ UNCHANGED <<active, lead, penalty, waiters, owed>>
  BY DEF FallBack, LimiterInv, LimiterTypeOK
<1> HIDE DEF call
<1> QED BY <1>1, <1>2, <1>3, KeepStep

\* The next try is made in the slot of the last.
LEMMA RetriesStep == ASSUME LimiterInv, NEW c \in Caller, Retries(c) PROVE LimiterInv'
<1> DEFINE call == [caller[c] EXCEPT !.pc = "fetching"]
<1>1. caller[c] \in Calls /\ penalty \in 0..MaxPenalty
  BY DEF LimiterInv, LimiterTypeOK, Calls
<1>2. call \in Calls /\ call.write = caller[c].write /\ call.pc = "fetching" /\ caller[c].pc = "backoff"
  BY <1>1 DEF Calls, Retries, CallerAt
<1>3. caller' = [caller EXCEPT ![c] = call] /\ UNCHANGED <<active, lead, penalty, waiters, owed>>
  BY DEF Retries, Now, LimiterInv, LimiterTypeOK
<1> HIDE DEF call
<1> QED BY <1>1, <1>2, <1>3, KeepStep

\* Every step keeps the invariant.
LEMMA LimiterStep == LimiterInv /\ [LimiterNext]_limiterVars => LimiterInv'
<1> SUFFICES ASSUME LimiterInv, [LimiterNext]_limiterVars PROVE LimiterInv'
  OBVIOUS
<1> USE DEF LimiterInv
<1>1. CASE Tick
  BY <1>1, TickStep
<1>2. ASSUME NEW c \in Caller, Arrive(c) PROVE LimiterInv'
  BY <1>2, AcquireStep DEF Arrive
<1>3. ASSUME NEW c \in Caller, Wakes(c) PROVE LimiterInv'
  BY <1>3, AcquireStep DEF Wakes
<1>4. ASSUME NEW c \in Caller, Throttled(c) PROVE LimiterInv'
  BY <1>4, TryAgainStep, PenaltyStep DEF Throttled
<1>5. ASSUME NEW c \in Caller, ServerError(c) PROVE LimiterInv'
  <2>1. penalty' \in 0..MaxPenalty
    BY <1>5, PenaltyStep DEF ServerError
  <2> QED BY <1>5, <2>1, TryAgainStep, ReleaseStep DEF ServerError
<1>6. ASSUME NEW c \in Caller, NetworkError(c) PROVE LimiterInv'
  <2>1. penalty' \in 0..MaxPenalty
    BY <1>6, PenaltyStep DEF NetworkError
  <2>2. caller[c].kind \in {"request", "media", "sdk"}
    BY DEF LimiterTypeOK
  <2>3. CASE caller[c].kind = "request"
    BY <1>6, <2>1, <2>3, TryAgainStep DEF NetworkError
  <2>4. CASE caller[c].kind = "media"
    BY <1>6, <2>1, <2>4, ReleaseStep DEF NetworkError
  <2>5. CASE caller[c].kind = "sdk"
    BY <1>6, <2>1, <2>5, ReleaseStep DEF NetworkError
  <2> QED BY <2>2, <2>3, <2>4, <2>5
<1>7. ASSUME NEW c \in Caller, NEW refused \in BOOLEAN, Answered(c, refused) PROVE LimiterInv'
  <2>1. penalty' \in 0..MaxPenalty
    BY <1>7, PenaltyStep DEF Answered
  <2> QED BY <1>7, <2>1, ReleaseStep DEF Answered
<1>8. ASSUME NEW c \in Caller, FallBack(c) PROVE LimiterInv'
  BY <1>8, FallBackStep
<1>9. ASSUME NEW c \in Caller, Retries(c) PROVE LimiterInv'
  BY <1>9, RetriesStep
<1>10. CASE UNCHANGED limiterVars
  BY <1>10 DEF limiterVars, LimiterTypeOK, SlotsCounted, Lined, NoneStranded, StartsSpaced, Behind,
     Holders, CallerAt, Weight, Gap
<1> QED BY <1>1, <1>2, <1>3, <1>4, <1>5, <1>6, <1>7, <1>8, <1>9, <1>10 DEF LimiterNext

\* Nobody has called yet.
LEMMA LimiterStart == LimiterInit => LimiterInv
<1> SUFFICES ASSUME LimiterInit PROVE LimiterInv
  OBVIOUS
<1>1. caller \in [Caller -> Calls] /\ \A c \in Caller : caller[c].pc = "arriving"
  BY DEF LimiterInit, Calls
<1>2. LimiterTypeOK
  BY <1>1, LimiterAssumptions, EmptySeq DEF LimiterInit, LimiterTypeOK, Calls
<1>3. SlotsCounted
  <2>1. Holders = {}
    BY <1>1 DEF Holders
  <2> QED BY <2>1, FS_EmptySet DEF SlotsCounted, LimiterInit
<1>4. Lined /\ NoneStranded
  BY EmptySeq DEF Lined, NoneStranded, LimiterInit
<1>5. StartsSpaced /\ Behind
  BY <1>1 DEF StartsSpaced, Behind, LimiterInit, CallerAt
<1> QED BY <1>2, <1>3, <1>4, <1>5 DEF LimiterInv

\* Slots, start times, penalty, queue and calls keep their types; the slots taken
\* are never more than there are.
THEOREM LimiterTypeCorrect == LimiterSpec => []LimiterTypeOK
<1>1. LimiterInv => LimiterTypeOK
  BY DEF LimiterInv
<1> QED BY <1>1, LimiterStart, LimiterStep, PTL DEF LimiterSpec

\* For any number of callers of a token: no caller sleeps in the queue while slots
\* stand empty, and first tries keep their gap, whatever is refused, retried or
\* lost (wb-rate-limiter.ts 66-84).
THEOREM CallersKeepTurns == LimiterSpec => []TurnsKept
<1>1. LimiterInv => TurnsKept
  BY DEF LimiterInv, TurnsKept
<1> QED BY <1>1, LimiterStart, LimiterStep, PTL DEF LimiterSpec

-----------------------------------------------------------------------------
(* WbCards: the cards of one product in one shop.                          *)

\* Where a card may be, how far a listing may have come, and the listings there may be.
Places == {"none", "queued", "live", "trash"}
Steps == {"none", "known", "find", "trash", "prepare", "errors", "push", "update", "confirm",
          "refused", "recreate", "done", "failed"}
Listings ==
  [pc : Steps, keys : SUBSET LookupKeys, skip : BOOLEAN, conflict : BOOLEAN, existing : 0..MaxCards,
   attempt : 0..3, poll : 0..2, errors : SUBSET Complaints, seen : 0..MaxCards, returned : 0..MaxCards,
   sized : BOOLEAN, dropped : BOOLEAN, clipped : BOOLEAN, generic : BOOLEAN]

\* The types, and what Wildberries queues: uploads, made under the primary code.
CardTypes ==
  /\ cards \in [Nm -> [key : LookupKeys, place : Places, sized : BOOLEAN]]
  /\ \A n \in Nm : cards[n].place = "queued" => cards[n].key = "primary"
  /\ wbErrors \subseteq Complaints /\ errorCache \in (SUBSET Complaints) \cup {NotCached}
  /\ nmKnown \in 0..MaxCards /\ unsure \in BOOLEAN /\ listings \in 0..MaxListings /\ refusals \in 0..MaxRefusals
  /\ listing \in Listings
  /\ At("failed") \/ listing.attempt <= 2

\* A card for sale.
Live(n) == cards[n].place = "live"

\* The card a listing works on is for sale, and so is the one it saw last.
HoldsLiveCard ==
  /\ At("none") => listing.existing = 0
  /\ listing.existing # 0 => Live(listing.existing)
  /\ At("refused") /\ listing.seen # 0 => Live(listing.seen)
  /\ At("done") /\ listing.returned # 0 => Live(listing.returned)
  /\ (At("errors") \/ At("update")) => listing.existing # 0

\* What a listing may be sure of when nothing failed unseen: no two cards stand; a
\* look-up that skips a vendor code has found it free; the trash is searched when no
\* card stands; one without a card to update leaves none under the legacy code.
KnowsCards ==
  /\ \A m, n \in Standing : m = n
  /\ At("known") => listing.keys = LookupKeys /\ ~listing.skip
  /\ At("find") /\ "primary" \notin listing.keys => \A n \in Standing : cards[n].key = "legacy"
  /\ At("find") => "legacy" \in listing.keys
  /\ At("find") /\ listing.skip => listing.keys = LookupKeys
  /\ At("trash") => Standing = {}
  /\ At("prepare") /\ listing.existing = 0 => Standing = {}
  /\ listing.pc \in {"push", "confirm", "refused", "recreate"} /\ listing.existing = 0 =>
       \A n \in Standing : cards[n].key = "primary"

\* The invariant of the proofs.
CardInv == CardTypes /\ HoldsLiveCard /\ (unsure \/ KnowsCards)

-----------------------------------------------------------------------------
\* There are cards, numbered from 1.
LEMMA Numbers == MaxCards \in Nat \ {0} /\ Nm = 1..MaxCards /\ 0 \notin Nm /\ MaxListings \in Nat /\ MaxRefusals \in Nat
BY CardAssumptions DEF Nm

\* What a choice among cards gives.
LEMMA Chosen ==
  ASSUME NEW S \in SUBSET Nm
  PROVE  SomeOf(S) \in 0..MaxCards /\ (SomeOf(S) = 0 <=> S = {}) /\ (S # {} => SomeOf(S) \in S)
<1>1. CASE S = {}
  BY <1>1, Numbers DEF SomeOf
<1>2. CASE S # {}
  <2>1. SomeOf(S) \in S
    BY <1>2 DEF SomeOf
  <2>2. SomeOf(S) \in Nm
    BY <2>1
  <2>3. SomeOf(S) \in 0..MaxCards /\ SomeOf(S) # 0
    BY <2>2, Numbers
  <2> QED BY <1>2, <2>1, <2>3
<1> QED BY <1>1, <1>2

\* What a look at the cards of some vendor codes gives.
LEMMA Looked ==
  ASSUME CardTypes, NEW place \in Places, NEW keys \in SUBSET LookupKeys, NEW nm, nm = FirstIn(place, keys)
  PROVE  /\ nm \in 0..MaxCards
         /\ nm # 0 => nm \in Nm /\ cards[nm].place = place /\ cards[nm].key \in keys
         /\ nm = 0 => \A n \in Nm : ~(cards[n].place = place /\ cards[n].key \in keys)
<1> DEFINE P == SomeOf(In(place, "primary"))   L == SomeOf(In(place, "legacy"))
<1>1. nm = IF (IF "primary" \in keys THEN P ELSE 0) # 0 THEN (IF "primary" \in keys THEN P ELSE 0)
           ELSE (IF "legacy" \in keys THEN L ELSE 0)
  BY DEF FirstIn
<1>2. In(place, "primary") \in SUBSET Nm /\ In(place, "legacy") \in SUBSET Nm
  BY DEF In
<1>3. /\ P \in 0..MaxCards /\ (P = 0 <=> In(place, "primary") = {}) /\ (P # 0 => P \in In(place, "primary"))
      /\ L \in 0..MaxCards /\ (L = 0 <=> In(place, "legacy") = {}) /\ (L # 0 => L \in In(place, "legacy"))
  BY <1>2, Chosen
<1>4. \A n \in Nm : cards[n].key \in {"primary", "legacy"}
  BY DEF CardTypes, LookupKeys
<1> HIDE DEF P, L
<1>5. nm \in 0..MaxCards
  BY <1>1, <1>3, Numbers
<1>6. CASE nm = 0
  <2>1. ("primary" \in keys => In(place, "primary") = {}) /\ ("legacy" \in keys => In(place, "legacy") = {})
    BY <1>1, <1>3, <1>6
  <2> QED BY <1>4, <1>5, <1>6, <2>1 DEF In
<1>7. CASE nm # 0
  <2>1. ("primary" \in keys /\ nm \in In(place, "primary")) \/ ("legacy" \in keys /\ nm \in In(place, "legacy"))
    BY <1>1, <1>3, <1>7
  <2> QED BY <1>5, <1>7, <2>1 DEF In
<1> QED BY <1>6, <1>7

\* Some updates of a listing that keep its type.
LEMMA ListingUpdates ==
  ASSUME listing \in Listings
  PROVE  /\ NoListing \in Listings /\ NoListing.attempt = 0 /\ NoListing.existing = 0 /\ NoListing.pc = "none"
         /\ Fails \in Listings /\ Fails.pc = "failed" /\ Fails.existing = listing.existing
         /\ \A nm \in 0..MaxCards : /\ Resolved(nm) \in Listings /\ (Resolved(nm).attempt = listing.attempt)
                                    /\ Resolved(nm).pc \in {"prepare", "update", "failed"}
                                    /\ Resolved(nm).pc = "update" => nm # 0
                                    /\ Resolved(nm).pc = "failed" \/ Resolved(nm).existing = nm
                                    /\ Resolved(nm).pc = "failed" => Resolved(nm).existing = listing.existing
         /\ \A step \in Steps : LET l == [listing EXCEPT !.pc = step] IN
              l \in Listings /\ l.attempt = listing.attempt /\ l.pc = step /\ l.existing = listing.existing
<1>1. NoListing \in Listings /\ NoListing.attempt = 0 /\ NoListing.existing = 0 /\ NoListing.pc = "none"
  BY Numbers DEF NoListing, Listings, Steps
<1>2. \A step \in Steps : LET l == [listing EXCEPT !.pc = step] IN
        l \in Listings /\ l.attempt = listing.attempt /\ l.pc = step /\ l.existing = listing.existing
  BY DEF Listings
<1>3. Fails \in Listings /\ Fails.pc = "failed" /\ Fails.existing = listing.existing /\ Fails.attempt = listing.attempt
  BY <1>2 DEF Fails, Steps
<1>4. ASSUME NEW nm \in 0..MaxCards, NEW step \in Steps
      PROVE  LET l == [listing EXCEPT !.pc = step, !.existing = nm] IN
             l \in Listings /\ l.attempt = listing.attempt /\ l.pc = step /\ l.existing = nm
  BY DEF Listings
<1>5. ASSUME NEW nm \in 0..MaxCards
      PROVE  /\ Resolved(nm) \in Listings /\ (Resolved(nm).attempt = listing.attempt)
             /\ Resolved(nm).pc \in {"prepare", "update", "failed"}
             /\ Resolved(nm).pc = "update" => nm # 0
             /\ Resolved(nm).pc = "failed" \/ Resolved(nm).existing = nm
             /\ Resolved(nm).pc = "failed" => Resolved(nm).existing = listing.existing
  <2>1. CASE ~listing.conflict
    <3> DEFINE l == [listing EXCEPT !.pc = "prepare", !.existing = nm]
    <3>1. Resolved(nm) = l
      BY <2>1 DEF Resolved
    <3>2. l \in Listings /\ l.attempt = listing.attempt /\ l.pc = "prepare" /\ l.existing = nm
      BY <1>4 DEF Steps
    <3> HIDE DEF l
    <3> QED BY <3>1, <3>2
  <2>2. CASE listing.conflict /\ nm = 0
    <3>1. Resolved(nm) = Fails
      BY <2>2 DEF Resolved
    <3> QED BY <1>3, <3>1
  <2>3. CASE listing.conflict /\ nm # 0
    <3> DEFINE l == [listing EXCEPT !.pc = "update", !.existing = nm]
    <3>1. Resolved(nm) = l
      BY <2>3 DEF Resolved
    <3>2. l \in Listings /\ l.attempt = listing.attempt /\ l.pc = "update" /\ l.existing = nm
      BY <1>4 DEF Steps
    <3> HIDE DEF l
    <3> QED BY <2>3, <3>1, <3>2
  <2> QED BY <2>1, <2>2, <2>3
<1> QED BY <1>1, <1>2, <1>3, <1>5

\* Updates of more fields that keep a listing's type.
LEMMA MoreUpdates ==
  ASSUME listing \in Listings
  PROVE  /\ \A l : l = [listing EXCEPT !.pc = "confirm", !.poll = 0] =>
              l \in Listings /\ l.attempt = listing.attempt /\ l.pc = "confirm" /\ l.existing = listing.existing
         /\ \A l : l = [listing EXCEPT !.pc = "push", !.existing = 0] =>
              l \in Listings /\ l.attempt = listing.attempt /\ l.pc = "push" /\ l.existing = 0
         /\ \A l : l = [listing EXCEPT !.pc = "find", !.keys = LookupKeys, !.skip = FALSE, !.conflict = TRUE] =>
              /\ l \in Listings /\ l.attempt = listing.attempt /\ l.pc = "find" /\ l.existing = listing.existing
              /\ l.keys = LookupKeys /\ ~l.skip
<1>1. ASSUME NEW poll \in 0..2, NEW l, l = [listing EXCEPT !.pc = "confirm", !.poll = poll]
      PROVE  l \in Listings /\ l.attempt = listing.attempt /\ l.pc = "confirm" /\ l.existing = listing.existing
  BY <1>1 DEF Listings, Steps
<1>2. ASSUME NEW nm \in 0..MaxCards, NEW l, l = [listing EXCEPT !.pc = "push", !.existing = nm]
      PROVE  l \in Listings /\ l.attempt = listing.attempt /\ l.pc = "push" /\ l.existing = nm
  BY <1>2 DEF Listings, Steps
<1>3. ASSUME NEW l, l = [listing EXCEPT !.pc = "find", !.keys = LookupKeys, !.skip = FALSE, !.conflict = TRUE]
      PROVE  /\ l \in Listings /\ l.attempt = listing.attempt /\ l.pc = "find" /\ l.existing = listing.existing
             /\ l.keys = LookupKeys /\ ~l.skip
  BY <1>3 DEF Listings, Steps
<1>4. 0 \in 0..2 /\ 0 \in 0..MaxCards
  BY Numbers
<1> QED BY <1>1, <1>2, <1>3, <1>4

\* There is a least number among some cards.
LEMMA SmallestOf ==
  ASSUME NEW S \in SUBSET Nm, S # {}
  PROVE  \E n \in S : \A k \in S : n <= k
<1>0. \A n \in S : n \in Nat
  BY Numbers
<1>1. PICK n \in S : \A k \in S : <<k, n>> \notin OpToRel(<, Nat)
  BY <1>0, NatLessThanWellFounded, WFMin
<1>2. ASSUME NEW k \in S PROVE n <= k
  <2>1. k \in Nat /\ n \in Nat
    BY <1>0
  <2>2. ~(k < n)
    BY <1>1, <2>1 DEF OpToRel
  <2> QED BY <2>1, <2>2
<1> QED BY <1>2

\* Cards that stand are queued or for sale, under one of two vendor codes.
LEMMA StandingIs ==
  ASSUME CardTypes
  PROVE  /\ \A n : n \in Standing <=> n \in Nm /\ (cards[n].place = "queued" \/ Live(n))
         /\ \A n \in Nm : cards[n].key \in {"primary", "legacy"} /\ (Live(n) <=> cards[n].place = "live")
         /\ \A place, key, n : n \in In(place, key) <=> n \in Nm /\ cards[n].place = place /\ cards[n].key = key
         /\ (\A n \in Nm : cards'[n] = cards[n]) => Standing' = Standing
BY DEF CardTypes, Standing, Live, In, LookupKeys

\* A search ends with the card it found, or with none.
LEMMA SearchEnds ==
  ASSUME CardInv, listing.pc # "failed", NEW nm \in 0..MaxCards, listing' = Resolved(nm),
         UNCHANGED <<wbErrors, errorCache, refusals, nmKnown, listings>>,
         cards' \in [Nm -> [key : LookupKeys, place : Places, sized : BOOLEAN]],
         \A n \in Nm : cards'[n].place = "queued" => cards'[n].key = "primary",
         unsure' \in BOOLEAN, unsure => unsure', \A n \in Nm : Live(n) => Live(n)',
         nm # 0 => Live(nm)',
         ~unsure' => /\ \A m, n \in Standing' : m = n
                     /\ nm = 0 => Standing' = {}
  PROVE  CardInv'
<1>1. /\ CardTypes /\ HoldsLiveCard /\ listing \in Listings /\ listing.existing \in 0..MaxCards /\ listing.attempt <= 2
  BY DEF CardInv, CardTypes, Listings, At
<1>2. /\ listing' \in Listings /\ listing'.attempt = listing.attempt /\ listing'.pc \in {"prepare", "update", "failed"}
      /\ listing'.pc = "update" => nm # 0
      /\ listing'.pc = "failed" \/ listing'.existing = nm
      /\ listing'.pc = "failed" => listing'.existing = listing.existing
  BY <1>1, ListingUpdates
<1>3. CardTypes'
  BY <1>1, <1>2 DEF CardTypes, At
<1>4. HoldsLiveCard'
  BY <1>1, <1>2, Numbers DEF HoldsLiveCard, At
<1>5. unsure' \/ KnowsCards'
  BY <1>2 DEF KnowsCards, At
<1> QED BY <1>3, <1>4, <1>5 DEF CardInv

\* A listing begins and looks for the card its row knows.
LEMMA SearchStep ==
  ASSUME CardInv, (\E sized \in BOOLEAN : ListProduct(sized)) \/ (\E answered \in BOOLEAN : FindKnown(answered))
                  \/ \E answered \in SUBSET LookupKeys : FindAll(answered)
  PROVE  CardInv'
<1>0. /\ CardTypes /\ HoldsLiveCard /\ (unsure \/ KnowsCards) /\ listing \in Listings
      /\ listing.keys \in SUBSET LookupKeys /\ listing.skip \in BOOLEAN
      /\ cards \in [Nm -> [key : LookupKeys, place : Places, sized : BOOLEAN]] /\ unsure \in BOOLEAN
      /\ \A n \in Nm : cards[n].place = "queued" => cards[n].key = "primary"
  BY DEF CardInv, CardTypes, Listings
<1>1. UNCHANGED <<cards, wbErrors, errorCache, refusals, nmKnown>>
  BY DEF ListProduct, FindKnown, FindAll, world
<1>2. Standing' = Standing /\ \A n \in Nm : Live(n)' <=> Live(n)
  BY <1>0, <1>1, StandingIs DEF Live
<1>3. ASSUME NEW sized \in BOOLEAN, ListProduct(sized) PROVE CardInv'
  <2>1. PICK step \in {"known", "find"}, skip \in BOOLEAN :
          /\ listing' = [NoListing EXCEPT !.pc = step, !.keys = LookupKeys, !.skip = skip, !.sized = sized]
          /\ step = "known" => ~skip
    BY <1>3 DEF ListProduct, Go
  <2>2. /\ listing' \in Listings /\ listing'.attempt = 0 /\ listing'.existing = 0 /\ listing'.keys = LookupKeys
        /\ listing'.pc = step /\ listing'.skip = skip
    <3>1. NoListing \in Listings /\ NoListing.attempt = 0 /\ NoListing.existing = 0
      BY <1>0, ListingUpdates
    <3> QED BY <2>1, <3>1 DEF Listings, Steps
  <2>3. unsure' = unsure /\ listings' \in 0..MaxListings
    <3>1. listings \in 0..MaxListings /\ listings < MaxListings /\ listings' = listings + 1 /\ unsure' = unsure
      BY <1>0, <1>3 DEF ListProduct, CardTypes
    <3> QED BY <3>1, Numbers
  <2>4. CardTypes'
    BY <1>0, <1>1, <2>2, <2>3 DEF CardTypes
  <2>5. HoldsLiveCard'
    BY <2>1, <2>2 DEF HoldsLiveCard, At
  <2>6. unsure' \/ KnowsCards'
    BY <1>0, <1>1, <1>2, <2>1, <2>2, <2>3 DEF KnowsCards, At, LookupKeys
  <2> QED BY <2>4, <2>5, <2>6 DEF CardInv
<1>4. ASSUME NEW answered \in BOOLEAN, FindKnown(answered) PROVE CardInv'
  <2> DEFINE standing == In("live", "primary")
  <2>1. /\ listing.pc = "known" /\ unsure' = (unsure \/ ~answered \/ In("queued", "primary") # {})
        /\ UNCHANGED listings
    BY <1>4 DEF FindKnown, At
  <2>2. unsure' \in BOOLEAN /\ (unsure => unsure')
    BY <1>0, <2>1
  <2>3. CASE answered /\ standing # {}
    <3>1. PICK nm \in standing : listing' = Resolved(nm)
      <4>1. SomeOf(standing) \in standing
        BY <2>3, Chosen DEF In
      <4> QED BY <1>4, <2>3, <4>1 DEF FindKnown, Go
    <3>2. nm \in 0..MaxCards /\ Live(nm)' /\ nm # 0
      BY <1>0, <1>2, StandingIs, Numbers
    <3>3. ~unsure' => \A m, n \in Standing' : m = n
      BY <1>0, <1>2, <2>1 DEF KnowsCards
    <3> QED BY <1>0, <1>1, <1>2, <2>1, <2>2, <3>1, <3>2, <3>3, SearchEnds
  <2>4. CASE ~(answered /\ standing # {})
    <3>1. listing' = [listing EXCEPT !.pc = "find", !.keys = @ \ {"primary"}]
      BY <1>4, <2>4 DEF FindKnown, Go
    <3>2. /\ listing' \in Listings /\ listing'.attempt = listing.attempt /\ listing'.existing = listing.existing
          /\ listing'.keys = listing.keys \ {"primary"} /\ listing'.pc = "find" /\ listing'.skip = listing.skip
      BY <1>0, <3>1 DEF Listings, Steps
    <3>3. CardTypes'
      BY <1>0, <1>1, <2>1, <2>2, <3>2 DEF CardTypes, At
    <3>4. HoldsLiveCard'
      BY <1>0, <1>1, <1>2, <3>2 DEF HoldsLiveCard, At, Live
    <3>5. ASSUME ~unsure' PROVE KnowsCards'
      <4>1. standing = {} /\ In("queued", "primary") = {} /\ KnowsCards
        BY <1>0, <2>1, <2>4, <3>5
      <4>2. \A n \in Standing : cards[n].key = "legacy"
        BY <1>0, <4>1, StandingIs
      <4> QED BY <1>1, <1>2, <2>1, <3>2, <4>1, <4>2 DEF KnowsCards, At, LookupKeys
    <3> QED BY <3>3, <3>4, <3>5 DEF CardInv
  <2> QED BY <2>3, <2>4
<1>5. ASSUME NEW answered \in SUBSET LookupKeys, FindAll(answered) PROVE CardInv'
  <2>1. PICK hit : hit = FirstIn("live", answered)
    OBVIOUS
  <2>2. /\ listing.pc = "find" /\ answered \subseteq listing.keys /\ UNCHANGED listings
        /\ unsure' = (unsure \/ answered # listing.keys \/ In("queued", "primary") # {})
        /\ listing' = IF hit # 0 THEN Resolved(hit) ELSE IF listing.skip THEN Resolved(0)
                      ELSE [listing EXCEPT !.pc = "trash"]
    BY <1>5, <2>1 DEF FindAll, At, Go
  <2>3. unsure' \in BOOLEAN /\ (unsure => unsure')
    BY <1>0, <2>2
  <2>4. /\ hit \in 0..MaxCards
        /\ hit # 0 => Live(hit)
        /\ hit = 0 => \A n \in Nm : ~(cards[n].place = "live" /\ cards[n].key \in answered)
    BY <1>0, <2>1, Looked DEF Places, Live
  <2>5. ~unsure' => \A m, n \in Standing' : m = n
    BY <1>0, <1>2, <2>2 DEF KnowsCards
  <2>6. ASSUME ~unsure', hit = 0 PROVE Standing = {}
    <3>1. KnowsCards /\ answered = listing.keys /\ In("queued", "primary") = {} /\ "legacy" \in listing.keys
      BY <1>0, <2>2, <2>6 DEF KnowsCards, At
    <3> SUFFICES ASSUME NEW n \in Standing PROVE FALSE
      OBVIOUS
    <3>2. n \in Nm /\ cards[n].key \in {"primary", "legacy"} /\ (cards[n].place = "live" \/ cards[n].place = "queued")
      BY <1>0, StandingIs
    <3>3. ~(cards[n].place = "live" /\ cards[n].key \in listing.keys)
      BY <2>4, <2>6, <3>1, <3>2
    <3>4. ~(cards[n].place = "queued" /\ cards[n].key = "primary")
      BY <1>0, <3>1, <3>2, StandingIs
    <3>5. cards[n].place = "live" /\ (cards[n].key = "legacy" \/ "primary" \in listing.keys)
      BY <1>0, <2>2, <3>1, <3>2, <3>4 DEF KnowsCards, At
    <3> QED BY <3>1, <3>2, <3>3, <3>5
  <2>7. CASE hit # 0 \/ listing.skip
    <3>1. PICK nm \in {0, hit} : listing' = Resolved(nm) /\ (nm = 0 => hit = 0)
      BY <2>2, <2>7
    <3>2. nm \in 0..MaxCards /\ (nm # 0 => Live(nm)')
      BY <1>2, <2>4, Numbers
    <3> QED BY <1>0, <1>1, <1>2, <2>2, <2>3, <2>5, <2>6, <3>1, <3>2, SearchEnds
  <2>8. CASE hit = 0 /\ ~listing.skip
    <3>1. listing' = [listing EXCEPT !.pc = "trash"]
      BY <2>2, <2>8
    <3>2. /\ listing' \in Listings /\ listing'.attempt = listing.attempt /\ listing'.existing = listing.existing
          /\ listing'.pc = "trash"
      BY <1>0, <3>1 DEF Listings, Steps
    <3>3. CardTypes'
      BY <1>0, <1>1, <2>2, <2>3, <3>2 DEF CardTypes, At
    <3>4. HoldsLiveCard'
      BY <1>0, <1>1, <1>2, <3>2 DEF HoldsLiveCard, At, Live
    <3>5. ~unsure' => KnowsCards'
      BY <1>2, <2>5, <2>6, <2>8, <3>2 DEF KnowsCards, At
    <3> QED BY <3>3, <3>4, <3>5 DEF CardInv
  <2> QED BY <2>7, <2>8
<1> QED BY <1>3, <1>4, <1>5

\* The trash is searched, a draft may be dropped, the card is updated or uploaded.
LEMMA WriteStep ==
  ASSUME CardInv, FindTrash \/ Prepare \/ (\E answered \in BOOLEAN : DropBrokenDraft(answered)) \/ Throws \/ Update
                  \/ \E lost \in BOOLEAN : Upload(lost)
  PROVE  CardInv'
<1>0. /\ CardTypes /\ HoldsLiveCard /\ (unsure \/ KnowsCards) /\ listing \in Listings /\ listing.existing \in 0..MaxCards
      /\ listing.seen \in 0..MaxCards /\ listing.returned \in 0..MaxCards /\ listing.sized \in BOOLEAN
      /\ cards \in [Nm -> [key : LookupKeys, place : Places, sized : BOOLEAN]] /\ unsure \in BOOLEAN
      /\ \A n \in Nm : cards[n].place = "queued" => cards[n].key = "primary"
  BY DEF CardInv, CardTypes, Listings
<1>a. errorCache \in (SUBSET Complaints) \cup {NotCached} /\ ListErrors \in SUBSET Complaints
  <2>1. errorCache \in (SUBSET Complaints) \cup {NotCached} /\ wbErrors \in SUBSET Complaints
    BY <1>0 DEF CardTypes
  <2> QED BY <2>1 DEF ListErrors
<1>1. UNCHANGED <<wbErrors, refusals, nmKnown, unsure, listings>>
  BY DEF FindTrash, Prepare, DropBrokenDraft, Throws, Update, Upload, world
<1>2. ASSUME UNCHANGED cards PROVE Standing' = Standing /\ \A n \in Nm : Live(n)' <=> Live(n)
  BY <1>0, <1>2, StandingIs DEF Live
\* A step that only says where to go on.
<1>3. ASSUME NEW step \in Steps, listing.pc # "failed", listing' = [listing EXCEPT !.pc = step], UNCHANGED <<cards, errorCache>>,
             \/ step = "failed"
             \/ At("prepare") /\ step = IF listing.existing = 0 THEN "push" ELSE "errors"
      PROVE  CardInv'
  <2>1. /\ listing' \in Listings /\ listing'.attempt = listing.attempt /\ listing'.existing = listing.existing
        /\ listing'.pc = step
    BY <1>0, <1>3, ListingUpdates
  <2>2. CardTypes'
    BY <1>0, <1>1, <1>3, <2>1 DEF CardTypes, At
  <2>3. HoldsLiveCard'
    BY <1>0, <1>2, <1>3, <2>1, Numbers DEF HoldsLiveCard, At
  <2>4. unsure' \/ KnowsCards'
    BY <1>0, <1>1, <1>2, <1>3, <2>1 DEF KnowsCards, At
  <2> QED BY <2>2, <2>3, <2>4 DEF CardInv
<1>4. CASE Prepare
  BY <1>3, <1>4 DEF Prepare, At, Go, world, Steps
<1>5. CASE Throws
  BY <1>3, <1>5 DEF Throws, At, Go, Fails, world, Steps
<1>6. CASE FindTrash
  <2>1. PICK nm : nm = FirstIn("trash", LookupKeys)
    OBVIOUS
  <2>2. /\ nm \in 0..MaxCards /\ (nm # 0 => nm \in Nm /\ cards[nm].place = "trash")
    BY <1>0, <2>1, Looked DEF Places
  <2>3. listing.pc = "trash" /\ UNCHANGED errorCache
    BY <1>6 DEF FindTrash, At
  <2>4. CASE nm = 0 /\ listing' = Resolved(0) /\ UNCHANGED cards
    <3>1. ~unsure' => Standing' = {}
      BY <1>0, <1>1, <1>2, <2>3, <2>4 DEF KnowsCards, At
    <3> QED BY <1>0, <1>1, <1>2, <2>3, <2>4, <3>1, Numbers, SearchEnds
  <2>5. CASE listing' = Fails /\ UNCHANGED cards
    BY <1>3, <2>3, <2>5 DEF Fails, Steps
  <2>6. CASE nm # 0 /\ cards' = [cards EXCEPT ![nm].place = "live"] /\ listing' = Resolved(nm)
    <3>1. /\ cards' \in [Nm -> [key : LookupKeys, place : Places, sized : BOOLEAN]] /\ Live(nm)'
          /\ \A n \in Nm \ {nm} : cards'[n] = cards[n]
          /\ \A n \in Nm : Live(n) => Live(n)'
      BY <1>0, <2>2, <2>6 DEF Places, Live
    <3>2. \A n \in Nm : cards'[n].place = "queued" => cards'[n].key = "primary"
      BY <1>0, <2>2, <3>1 DEF Live
    <3>3. ~unsure' => Standing = {}
      BY <1>0, <1>1, <2>3 DEF KnowsCards, At
    <3>4. ~unsure' => \A n \in Standing' : n = nm
      BY <2>2, <3>1, <3>3 DEF Standing
    <3>5. ~unsure' => \A m, n \in Standing' : m = n
      BY <3>4
    <3> QED BY <1>0, <1>1, <2>2, <2>3, <2>6, <3>1, <3>2, <3>5, SearchEnds
  <2> QED BY <1>6, <2>1, <2>4, <2>5, <2>6 DEF FindTrash, Go
<1>7. CASE Update
  <2>1. /\ listing.existing # 0 /\ listing.existing \in Nm /\ (At("update") \/ At("push"))
    BY <1>0, <1>7, Numbers DEF Update, HoldsLiveCard
  <2>2. /\ cards' = [cards EXCEPT ![listing.existing].sized = listing.sized]
        /\ listing' = [listing EXCEPT !.pc = "confirm", !.poll = 0] /\ errorCache' = NotCached
    BY <1>7 DEF Update, Go
  <2>3. /\ cards' \in [Nm -> [key : LookupKeys, place : Places, sized : BOOLEAN]]
        /\ \A n \in Nm : cards'[n].place = cards[n].place /\ cards'[n].key = cards[n].key
    BY <1>0, <2>1, <2>2
  <2>4. /\ listing' \in Listings /\ listing'.attempt = listing.attempt /\ listing'.existing = listing.existing
        /\ listing'.pc = "confirm"
    BY <1>0, <2>2, MoreUpdates
  <2>5. CardTypes'
    BY <1>0, <1>1, <2>1, <2>2, <2>3, <2>4 DEF CardTypes, At
  <2>6. HoldsLiveCard'
    BY <1>0, <2>1, <2>3, <2>4 DEF HoldsLiveCard, At, Live
  <2>7. Standing' = Standing
    BY <2>3 DEF Standing
  <2>8. unsure' \/ KnowsCards'
    BY <1>0, <1>1, <2>1, <2>4, <2>7 DEF KnowsCards, At
  <2> QED BY <2>5, <2>6, <2>8 DEF CardInv
<1>8. ASSUME NEW answered \in BOOLEAN, DropBrokenDraft(answered) PROVE CardInv'
  <2>1. listing.pc = "errors" /\ listing.existing \in Nm /\ Live(listing.existing)
    BY <1>0, <1>8, Numbers DEF DropBrokenDraft, HoldsLiveCard, At
  <2>2. \/ /\ cards' = [cards EXCEPT ![listing.existing].place = "trash"] /\ errorCache' = NotCached
           /\ listing' = [listing EXCEPT !.pc = "push", !.existing = 0]
        \/ /\ UNCHANGED cards /\ errorCache' \in {errorCache, ListErrors}
           /\ listing' = [listing EXCEPT !.pc = "push"]
    BY <1>8 DEF DropBrokenDraft, Go, Trash
  <2>3. CASE /\ cards' = [cards EXCEPT ![listing.existing].place = "trash"] /\ errorCache' = NotCached
             /\ listing' = [listing EXCEPT !.pc = "push", !.existing = 0]
    <3>1. /\ cards' \in [Nm -> [key : LookupKeys, place : Places, sized : BOOLEAN]]
          /\ cards'[listing.existing].place = "trash" /\ \A n \in Nm \ {listing.existing} : cards'[n] = cards[n]
      BY <1>0, <2>1, <2>3 DEF Places
    <3>2. /\ listing' \in Listings /\ listing'.attempt = listing.attempt /\ listing'.existing = 0
          /\ listing'.pc = "push"
      BY <1>0, <2>3, MoreUpdates
    <3>3. CardTypes'
      BY <1>0, <1>1, <2>1, <2>3, <3>1, <3>2 DEF CardTypes, At
    <3>4. HoldsLiveCard'
      BY <3>2 DEF HoldsLiveCard, At
    <3>5. ~unsure' => Standing' = {}
      <4>1. ~unsure => \A n \in Standing : n = listing.existing
        BY <1>0, <2>1, StandingIs DEF KnowsCards
      <4> QED BY <1>1, <2>1, <3>1, <4>1 DEF Standing
    <3>6. unsure' \/ KnowsCards'
      BY <3>2, <3>5 DEF KnowsCards, At
    <3> QED BY <3>3, <3>4, <3>6 DEF CardInv
  <2>4. CASE /\ UNCHANGED cards /\ errorCache' \in {errorCache, ListErrors}
             /\ listing' = [listing EXCEPT !.pc = "push"]
    <3>1. /\ listing' \in Listings /\ listing'.attempt = listing.attempt /\ listing'.existing = listing.existing
          /\ listing'.pc = "push"
      BY <1>0, <2>4, ListingUpdates DEF Steps
    <3>2. CardTypes'
      BY <1>0, <1>1, <1>a, <2>1, <2>4, <3>1 DEF CardTypes, At
    <3>3. HoldsLiveCard'
      BY <1>0, <1>2, <2>1, <2>4, <3>1 DEF HoldsLiveCard, At
    <3>4. unsure' \/ KnowsCards'
      BY <1>0, <1>1, <1>2, <2>1, <2>4, <3>1, Numbers DEF KnowsCards, At
    <3> QED BY <3>2, <3>3, <3>4 DEF CardInv
  <2> QED BY <2>2, <2>3, <2>4
<1>9. ASSUME NEW lost \in BOOLEAN, Upload(lost) PROVE CardInv'
  <2> DEFINE conflicting == [listing EXCEPT !.pc = "find", !.keys = LookupKeys, !.skip = FALSE, !.conflict = TRUE]
  <2>1. listing.pc = "push" /\ listing.existing = 0
    BY <1>9 DEF Upload, At
  <2>2. /\ conflicting \in Listings /\ conflicting.attempt = listing.attempt /\ conflicting.existing = 0
        /\ conflicting.pc = "find" /\ conflicting.keys = LookupKeys /\ ~conflicting.skip
    BY <1>0, <2>1, MoreUpdates
  <2> DEFINE asked == [listing EXCEPT !.pc = "confirm", !.poll = 0]
  <2>3. /\ asked \in Listings /\ asked.attempt = listing.attempt /\ asked.existing = 0 /\ asked.pc = "confirm"
    BY <1>0, <2>1, MoreUpdates
  <2>4. CASE Taken
    <3>1. listing' = conflicting /\ UNCHANGED <<cards, errorCache>>
      BY <1>9, <2>4 DEF Upload, Go
    <3> HIDE DEF conflicting
    <3>2. CardTypes'
      BY <1>0, <1>1, <2>1, <2>2, <3>1 DEF CardTypes, At
    <3>3. HoldsLiveCard'
      BY <2>2, <3>1 DEF HoldsLiveCard, At
    <3>4. unsure' \/ KnowsCards'
      BY <1>0, <1>1, <1>2, <2>2, <3>1 DEF KnowsCards, At, LookupKeys
    <3> QED BY <3>2, <3>3, <3>4 DEF CardInv
  <2>5. CASE ~Taken
    <3>1. PICK nm \in Nm : cards' = [cards EXCEPT ![nm] = [key |-> "primary", place |-> "queued", sized |-> listing.sized]]
      <4>1. \E nm \in Unmade : \A k \in Unmade : nm <= k
        <5>1. Unmade # {} /\ Unmade \subseteq Nm
          BY <1>9, <2>5 DEF Upload, Unmade
        <5> QED BY <5>1, SmallestOf
      <4>2. (CHOOSE n \in Unmade : \A k \in Unmade : n <= k) \in Nm
        BY <4>1 DEF Unmade
      <4> QED BY <1>9, <2>5, <4>2 DEF Upload
    <3>2. /\ listing' \in {conflicting, asked} /\ errorCache' \in {errorCache, NotCached}
      BY <1>9, <2>5 DEF Upload, Go
    <3> HIDE DEF conflicting, asked
    <3>3. /\ cards' \in [Nm -> [key : LookupKeys, place : Places, sized : BOOLEAN]]
          /\ cards'[nm].place = "queued" /\ cards'[nm].key = "primary" /\ \A n \in Nm \ {nm} : cards'[n] = cards[n]
      BY <1>0, <3>1 DEF Places, LookupKeys
    <3>4. CardTypes'
      BY <1>0, <1>1, <2>1, <2>2, <2>3, <3>2, <3>3 DEF CardTypes, At
    <3>5. HoldsLiveCard'
      BY <2>2, <2>3, <3>2 DEF HoldsLiveCard, At
    <3>6. ASSUME ~unsure' PROVE KnowsCards'
      <4>1. \A n \in Standing : cards[n].key = "primary"
        BY <1>0, <1>1, <2>1, <3>6 DEF KnowsCards, At
      <4>2. Standing = {}
        BY <1>0, <2>5, <4>1, StandingIs DEF Taken
      <4>3. Standing' = {nm}
        BY <3>3, <4>2 DEF Standing
      <4> QED BY <2>2, <2>3, <3>2, <3>3, <4>3 DEF KnowsCards, At, LookupKeys
    <3> QED BY <3>4, <3>5, <3>6 DEF CardInv
  <2> QED BY <2>4, <2>5
<1> QED BY <1>4, <1>5, <1>6, <1>7, <1>8, <1>9

\* A poll of the new card, a repair, and the end of the listing.
LEMMA PollStep ==
  ASSUME CardInv, (\E e, c \in BOOLEAN : Confirm(e, c) \/ TrashDraft(e, c)) \/ PlanRepair \/ EndListing
  PROVE  CardInv'
<1>0. /\ CardTypes /\ HoldsLiveCard /\ (unsure \/ KnowsCards) /\ listing \in Listings /\ listing.existing \in 0..MaxCards
      /\ listing.seen \in 0..MaxCards /\ listing.returned \in 0..MaxCards /\ listing.poll \in 0..2 /\ listing.attempt \in 0..3
      /\ listing.errors \in SUBSET Complaints
      /\ cards \in [Nm -> [key : LookupKeys, place : Places, sized : BOOLEAN]] /\ unsure \in BOOLEAN
  BY DEF CardInv, CardTypes, Listings
<1>1. errorCache \in (SUBSET Complaints) \cup {NotCached} /\ ListErrors \in SUBSET Complaints
  <2>1. errorCache \in (SUBSET Complaints) \cup {NotCached} /\ wbErrors \in SUBSET Complaints
    BY <1>0 DEF CardTypes
  <2> QED BY <2>1 DEF ListErrors
<1>2. ASSUME UNCHANGED cards PROVE Standing' = Standing /\ \A n \in Nm : Live(n)' <=> Live(n)
  BY <1>0, <1>2, StandingIs DEF Live
<1>3. ASSUME NEW e \in BOOLEAN, NEW c \in BOOLEAN, Confirm(e, c) PROVE CardInv'
  <2>1. PICK errors \in SUBSET Complaints, number \in 0..MaxCards :
          /\ errors = IF e /\ listing.poll < 2 THEN ListErrors ELSE {}
          /\ number = IF c THEN SomeOf(In("live", "primary")) ELSE 0
          /\ number # 0 => Live(number)
    <3>1. In("live", "primary") \in SUBSET Nm /\ \A n \in In("live", "primary") : Live(n)
      BY DEF In, Live
    <3> DEFINE number == IF c THEN SomeOf(In("live", "primary")) ELSE 0
               errors == IF e /\ listing.poll < 2 THEN ListErrors ELSE {}
    <3>2. number \in 0..MaxCards /\ (number # 0 => Live(number))
      BY <3>1, Chosen, Numbers
    <3>3. errors \in SUBSET Complaints
      BY <1>1
    <3> QED BY <3>2, <3>3
  <2> DEFINE polled == [listing EXCEPT !.errors = errors, !.seen = number]
  <2>2. /\ polled \in Listings /\ polled.existing = listing.existing /\ polled.attempt = listing.attempt
        /\ polled.seen = number /\ polled.pc = listing.pc /\ polled.poll = listing.poll
    BY <1>0 DEF Listings
  <2>3. /\ listing.pc = "confirm" /\ UNCHANGED <<cards, wbErrors, refusals, nmKnown, unsure, listings>>
        /\ errorCache' \in {errorCache, ListErrors}
        /\ listing' = IF errors # {} THEN [polled EXCEPT !.pc = "refused"]
                      ELSE IF number # 0 \/ listing.poll = 2
                      THEN [polled EXCEPT !.pc = "done", !.returned = IF number # 0 THEN number ELSE listing.existing]
                      ELSE [polled EXCEPT !.poll = @ + 1]
    BY <1>3, <2>1 DEF Confirm, At, Go
  <2> HIDE DEF polled
  <2>4. /\ listing' \in Listings /\ listing'.existing = listing.existing /\ listing'.attempt = listing.attempt
        /\ listing'.pc \in {"refused", "done", "confirm"} /\ listing'.seen = number
        /\ listing'.pc = "done" => listing'.returned \in {number, listing.existing}
    <3>1. CASE errors # {}
      <4>1. listing' = [polled EXCEPT !.pc = "refused"]
        BY <2>3, <3>1
      <4> QED BY <2>2, <4>1 DEF Listings, Steps
    <3>2. CASE errors = {} /\ (number # 0 \/ listing.poll = 2)
      <4>1. PICK nm \in {number, listing.existing} : listing' = [polled EXCEPT !.pc = "done", !.returned = nm]
        BY <2>3, <3>2
      <4>2. nm \in 0..MaxCards
        BY <1>0, <2>1
      <4> QED BY <2>2, <4>1, <4>2 DEF Listings, Steps
    <3>3. CASE errors = {} /\ ~(number # 0 \/ listing.poll = 2)
      <4>1. PICK poll \in 0..2 : listing' = [polled EXCEPT !.poll = poll]
        BY <1>0, <2>2, <2>3, <3>3
      <4> QED BY <2>2, <2>3, <4>1 DEF Listings, Steps
    <3> QED BY <3>1, <3>2, <3>3
  <2>5. CardTypes'
    BY <1>0, <1>1, <2>3, <2>4 DEF CardTypes, At
  <2>6. HoldsLiveCard'
    BY <1>0, <1>2, <2>1, <2>3, <2>4, Numbers DEF HoldsLiveCard, At
  <2>7. unsure' \/ KnowsCards'
    BY <1>0, <1>2, <2>3, <2>4 DEF KnowsCards, At
  <2> QED BY <2>5, <2>6, <2>7 DEF CardInv
<1>4. CASE PlanRepair
  <2>1. /\ listing.pc = "refused" /\ UNCHANGED <<cards, wbErrors, errorCache, refusals, nmKnown, unsure, listings>>
        /\ \/ listing' = [listing EXCEPT !.pc = "done", !.returned = listing.seen] /\ listing.seen # 0
           \/ listing' = Fails
           \/ Repairs # {} /\ listing' = [(CHOOSE r \in Repairs : TRUE) EXCEPT !.pc = "recreate"]
    BY <1>4 DEF PlanRepair, At, Go, world
  <2>2. CASE listing' = [listing EXCEPT !.pc = "done", !.returned = listing.seen]
    <3>1. /\ listing' \in Listings /\ listing'.existing = listing.existing /\ listing'.attempt = listing.attempt
          /\ listing'.pc = "done" /\ listing'.returned = listing.seen
      BY <1>0, <2>2 DEF Listings, Steps
    <3>2. CardTypes'
      BY <1>0, <2>1, <3>1 DEF CardTypes, At
    <3>3. HoldsLiveCard'
      BY <1>0, <1>2, <2>1, <3>1, Numbers DEF HoldsLiveCard, At
    <3>4. unsure' \/ KnowsCards'
      BY <1>0, <1>2, <2>1, <3>1 DEF KnowsCards, At
    <3> QED BY <3>2, <3>3, <3>4 DEF CardInv
  <2>3. ASSUME NEW l, l \in Listings, l.existing = listing.existing, l.attempt = listing.attempt,
               l.pc \in {"recreate", "failed"}, listing' = l
        PROVE  CardInv'
    <3>1. CardTypes'
      BY <1>0, <2>1, <2>3 DEF CardTypes, At
    <3>2. HoldsLiveCard'
      BY <1>0, <1>2, <2>1, <2>3, Numbers DEF HoldsLiveCard, At
    <3>3. unsure' \/ KnowsCards'
      BY <1>0, <1>2, <2>1, <2>3 DEF KnowsCards, At
    <3> QED BY <3>1, <3>2, <3>3 DEF CardInv
  <2>4. CASE listing' = Fails
    <3>1. Fails.attempt = listing.attempt
      BY <1>0 DEF Fails, Listings
    <3> QED BY <1>0, <2>3, <2>4, <3>1, ListingUpdates
  <2>5. CASE Repairs # {} /\ listing' = [(CHOOSE r \in Repairs : TRUE) EXCEPT !.pc = "recreate"]
    <3>1. PICK r \in Repairs : listing' = [r EXCEPT !.pc = "recreate"]
      BY <2>5
    <3>2. r \in Listings /\ r.existing = listing.existing /\ r.attempt = listing.attempt
      <4>1. \/ r = [listing EXCEPT !.sized = FALSE] \/ r = [listing EXCEPT !.sized = TRUE]
            \/ r = [listing EXCEPT !.dropped = TRUE] \/ r = [listing EXCEPT !.clipped = TRUE]
            \/ r = [listing EXCEPT !.generic = TRUE]
        BY <3>1 DEF Repairs
      <4> QED BY <1>0, <4>1 DEF Listings
    <3>3. /\ listing' \in Listings /\ listing'.existing = listing.existing /\ listing'.attempt = listing.attempt
          /\ listing'.pc = "recreate"
      BY <3>1, <3>2 DEF Listings, Steps
    <3> QED BY <2>3, <3>3
  <2> QED BY <2>1, <2>2, <2>4, <2>5
<1>5. ASSUME NEW found \in BOOLEAN, NEW deleted \in BOOLEAN, TrashDraft(found, deleted) PROVE CardInv'
  <2>1. PICK number \in 0..MaxCards :
          /\ cards' = IF number # 0 /\ deleted THEN Trash(number) ELSE cards
          /\ errorCache' = IF number # 0 /\ deleted THEN NotCached ELSE errorCache
          /\ listing.existing # 0 => number = listing.existing
    <3> DEFINE number == IF listing.existing # 0 THEN listing.existing
                       ELSE IF found THEN SomeOf(In("live", "primary")) ELSE 0
    <3>1. In("live", "primary") \in SUBSET Nm
      BY DEF In
    <3>2. number \in 0..MaxCards
      BY <1>0, <3>1, Chosen, Numbers
    <3>3. /\ cards' = IF number # 0 /\ deleted THEN Trash(number) ELSE cards
          /\ errorCache' = IF number # 0 /\ deleted THEN NotCached ELSE errorCache
      BY <1>5 DEF TrashDraft
    <3> QED BY <3>2, <3>3
  <2>2. /\ listing.pc = "recreate" /\ listing' = Recreated /\ unsure' = (unsure \/ ~found \/ ~deleted)
        /\ UNCHANGED <<wbErrors, refusals, nmKnown, listings>>
    BY <1>5 DEF TrashDraft, At, Go
  <2>3. listing.attempt \in 0..2
    BY <1>0, <2>2 DEF CardTypes, At
  <2>4. /\ listing' \in Listings /\ listing'.existing = 0 /\ listing'.attempt = listing.attempt + 1
        /\ listing'.pc = IF listing.attempt = 2 THEN "failed" ELSE "push"
    <3>1. PICK attempt \in 0..3, step \in {"failed", "push"}, nm \in 0..MaxCards :
            /\ listing' = [[listing EXCEPT !.attempt = attempt, !.pc = step] EXCEPT !.existing = nm]
            /\ attempt = listing.attempt + 1 /\ nm = 0 /\ step = IF listing.attempt = 2 THEN "failed" ELSE "push"
      <4>1. listing' = [[listing EXCEPT !.attempt = listing.attempt + 1, !.pc = IF listing.attempt = 2 THEN "failed" ELSE "push"] EXCEPT !.existing = 0]
        BY <1>0, <2>2 DEF Recreated, Remade, Listings
      <4>2. listing.attempt + 1 \in 0..3 /\ 0 \in 0..MaxCards /\ (IF listing.attempt = 2 THEN "failed" ELSE "push") \in {"failed", "push"}
        BY <2>3, Numbers
      <4> QED BY <4>1, <4>2
    <3> DEFINE l == [listing EXCEPT !.attempt = attempt, !.pc = step]
    <3>2. l \in Listings /\ l.attempt = attempt /\ l.pc = step
      BY <1>0 DEF Listings, Steps
    <3>3. listing' = [l EXCEPT !.existing = nm]
      BY <3>1
    <3> HIDE DEF l
    <3>4. listing' \in Listings /\ listing'.attempt = attempt /\ listing'.pc = step /\ listing'.existing = nm
      BY <3>2, <3>3 DEF Listings
    <3> QED BY <3>1, <3>4
  <2>5. /\ cards' \in [Nm -> [key : LookupKeys, place : Places, sized : BOOLEAN]]
        /\ \A n \in Nm : /\ cards'[n].key = cards[n].key
                         /\ cards'[n] = cards[n] \/ cards'[n].place = "trash"
        /\ number # 0 /\ deleted => cards'[number].place = "trash" /\ number \in Nm
    <3>1. CASE number # 0 /\ deleted
      <4>1. number \in Nm /\ cards' = [cards EXCEPT ![number].place = "trash"]
        BY <2>1, <3>1, Numbers DEF Trash
      <4> QED BY <1>0, <4>1 DEF Places
    <3>2. CASE ~(number # 0 /\ deleted)
      BY <1>0, <2>1, <3>2
    <3> QED BY <3>1, <3>2
  <2>6. CardTypes'
    <3>1. \A n \in Nm : cards'[n].place = "queued" => cards'[n].key = "primary"
      BY <1>0, <2>5 DEF CardTypes
    <3>2. errorCache' \in (SUBSET Complaints) \cup {NotCached} /\ unsure' \in BOOLEAN
      BY <1>1, <2>1, <2>2
    <3>3. listing'.pc = "failed" \/ listing'.attempt <= 2
      BY <2>3, <2>4
    <3> QED BY <1>0, <2>2, <2>4, <2>5, <3>1, <3>2, <3>3 DEF CardTypes, At
  <2>7. HoldsLiveCard'
    BY <2>4 DEF HoldsLiveCard, At
  <2>8. ASSUME ~unsure' PROVE KnowsCards'
    <3>1. ~unsure /\ found /\ deleted /\ KnowsCards
      BY <1>0, <2>2, <2>8
    <3>2. Standing' \subseteq Standing
      BY <2>5 DEF Standing
    <3>3. \A n \in Standing' : cards'[n].key = "primary"
      <4>1. CASE listing.existing = 0
        BY <2>2, <2>5, <3>1, <3>2, <4>1 DEF KnowsCards, At, Standing
      <4>2. CASE listing.existing # 0
        <5>1. number = listing.existing /\ Live(number) /\ number \in Nm /\ cards'[number].place = "trash"
          BY <1>0, <2>1, <2>5, <3>1, <4>2 DEF HoldsLiveCard
        <5>2. number \in Standing /\ number \notin Standing'
          BY <5>1 DEF Standing, Live
        <5>3. Standing' = {}
          BY <3>1, <3>2, <5>2 DEF KnowsCards
        <5> QED BY <5>3
      <4> QED BY <4>1, <4>2
    <3> QED BY <2>4, <3>1, <3>2, <3>3 DEF KnowsCards, At
  <2> QED BY <2>6, <2>7, <2>8 DEF CardInv
<1>6. CASE EndListing
  <2>1. /\ listing' = NoListing /\ nmKnown' \in {nmKnown, listing.returned}
        /\ UNCHANGED <<cards, wbErrors, errorCache, refusals, unsure, listings>>
    BY <1>6 DEF EndListing, Go, world
  <2>2. NoListing \in Listings /\ NoListing.attempt = 0 /\ NoListing.existing = 0 /\ NoListing.pc = "none"
    BY <1>0, ListingUpdates
  <2>3. CardTypes'
    BY <1>0, <2>1, <2>2 DEF CardTypes, At
  <2>4. HoldsLiveCard'
    BY <2>1, <2>2 DEF HoldsLiveCard, At
  <2>5. unsure' \/ KnowsCards'
    BY <1>0, <1>2, <2>1, <2>2 DEF KnowsCards, At
  <2> QED BY <2>3, <2>4, <2>5 DEF CardInv
<1> QED BY <1>3, <1>4, <1>5, <1>6

\* What Wildberries does, and the product's being taken off the shelf.
LEMMA WorldStep ==
  ASSUME CardInv, \/ Unlist \/ ForgetErrors \/ ExpireErrors
                  \/ \E n \in Nm : Make(n) \/ \E why \in Complaints, place \in {"none", "live"} : Refuse(n, why, place)
  PROVE  CardInv'
<1>0. /\ CardTypes /\ HoldsLiveCard /\ (unsure \/ KnowsCards) /\ listing \in Listings /\ listing.existing \in 0..MaxCards
      /\ listing.seen \in 0..MaxCards /\ listing.returned \in 0..MaxCards
      /\ cards \in [Nm -> [key : LookupKeys, place : Places, sized : BOOLEAN]]
      /\ \A n \in Nm : cards[n].place = "queued" => cards[n].key = "primary"
  BY DEF CardInv, CardTypes, Listings
<1>1. UNCHANGED <<listing, nmKnown, unsure, listings>>
  BY DEF Unlist, ForgetErrors, ExpireErrors, Make, Refuse
\* It is enough that cards for sale stay so and that none stands anew.
<1>2. ASSUME NEW n \in Nm, NEW place \in Places, cards' = [cards EXCEPT ![n].place = place],
             n \in Standing, place # "queued", listing.pc = "none" \/ (Live(n) => place = "live")
      PROVE  /\ cards' \in [Nm -> [key : LookupKeys, place : Places, sized : BOOLEAN]]
             /\ \A m \in Nm : cards'[m].place = "queued" => cards'[m].key = "primary"
             /\ HoldsLiveCard' /\ (unsure' \/ KnowsCards')
  <2>1. /\ cards' \in [Nm -> [key : LookupKeys, place : Places, sized : BOOLEAN]]
        /\ \A m \in Nm : cards'[m].key = cards[m].key
        /\ \A m \in Nm \ {n} : cards'[m] = cards[m]
        /\ cards'[n].place = place
    BY <1>0, <1>2
  <2>2. \A m \in Nm : cards'[m].place = "queued" => cards'[m].key = "primary"
    BY <1>0, <1>2, <2>1
  <2>3. HoldsLiveCard'
    <3>1. CASE listing.pc = "none"
      BY <1>0, <1>1, <3>1 DEF HoldsLiveCard, At
    <3>2. CASE Live(n) => place = "live"
      <4>1. \A m \in Nm : Live(m) => Live(m)'
        BY <2>1, <3>2 DEF Live
      <4> QED BY <1>0, <1>1, <4>1, Numbers DEF HoldsLiveCard, At
    <3> QED BY <1>2, <3>1, <3>2
  <2>4. Standing' \subseteq Standing
    BY <1>2, <2>1 DEF Standing
  <2>5. ASSUME ~unsure' PROVE KnowsCards'
    <3>1. KnowsCards /\ \A m \in Standing' : m \in Standing /\ m \in Nm /\ cards'[m].key = cards[m].key
      BY <1>0, <1>1, <2>1, <2>4, <2>5 DEF Standing
    <3> QED BY <1>1, <3>1 DEF KnowsCards, At
  <2> QED BY <2>1, <2>2, <2>3, <2>5
<1>3. errorCache \in (SUBSET Complaints) \cup {NotCached} /\ wbErrors \in SUBSET Complaints /\ refusals \in 0..MaxRefusals
  BY <1>0 DEF CardTypes
<1>4. CASE Unlist
  <2>1. /\ listing.pc = "none" /\ nmKnown \in Nm /\ Live(nmKnown) /\ UNCHANGED <<wbErrors, refusals>>
        /\ cards' = [cards EXCEPT ![nmKnown].place = "trash"] /\ errorCache' = NotCached
    BY <1>0, <1>4, Numbers DEF Unlist, At, Trash, Live, CardTypes
  <2>2. nmKnown \in Standing
    BY <2>1 DEF Standing, Live
  <2>3. /\ cards' \in [Nm -> [key : LookupKeys, place : Places, sized : BOOLEAN]]
        /\ \A m \in Nm : cards'[m].place = "queued" => cards'[m].key = "primary"
        /\ HoldsLiveCard' /\ (unsure' \/ KnowsCards')
    BY <1>2, <2>1, <2>2 DEF Places
  <2> QED BY <1>0, <1>1, <2>1, <2>3 DEF CardInv, CardTypes, At
<1>5. ASSUME NEW n \in Nm, Make(n) PROVE CardInv'
  <2>1. /\ cards[n].place = "queued" /\ cards' = [cards EXCEPT ![n].place = "live"] /\ UNCHANGED <<wbErrors, refusals, errorCache>>
    BY <1>5 DEF Make
  <2>2. n \in Standing
    BY <2>1 DEF Standing
  <2>3. /\ cards' \in [Nm -> [key : LookupKeys, place : Places, sized : BOOLEAN]]
        /\ \A m \in Nm : cards'[m].place = "queued" => cards'[m].key = "primary"
        /\ HoldsLiveCard' /\ (unsure' \/ KnowsCards')
    BY <1>2, <2>1, <2>2 DEF Places
  <2> QED BY <1>0, <1>1, <2>1, <2>3 DEF CardInv, CardTypes, At
<1>6. ASSUME NEW n \in Nm, NEW why \in Complaints, NEW place \in {"none", "live"}, Refuse(n, why, place) PROVE CardInv'
  <2>1. /\ refusals < MaxRefusals /\ refusals' = refusals + 1 /\ cards[n].place \in {"queued", "live"}
        /\ cards[n].place = "live" => place = "live"
        /\ cards' = [cards EXCEPT ![n].place = place] /\ wbErrors' = wbErrors \cup {why} /\ UNCHANGED errorCache
    BY <1>6 DEF Refuse
  <2>2. n \in Standing /\ (Live(n) => place = "live")
    BY <2>1 DEF Standing, Live
  <2>3. /\ cards' \in [Nm -> [key : LookupKeys, place : Places, sized : BOOLEAN]]
        /\ \A m \in Nm : cards'[m].place = "queued" => cards'[m].key = "primary"
        /\ HoldsLiveCard' /\ (unsure' \/ KnowsCards')
    BY <1>2, <2>1, <2>2 DEF Places
  <2>4. refusals' \in 0..MaxRefusals /\ wbErrors' \subseteq Complaints
    BY <1>3, <2>1, Numbers
  <2> QED BY <1>0, <1>1, <2>1, <2>3, <2>4 DEF CardInv, CardTypes, At
<1>7. CASE ForgetErrors \/ ExpireErrors
  <2>1. UNCHANGED <<cards, refusals>> /\ errorCache' \in {errorCache, NotCached} /\ wbErrors' \in {wbErrors, {}}
    BY <1>7 DEF ForgetErrors, ExpireErrors
  <2>2. Standing' = Standing /\ \A n \in Nm : Live(n)' <=> Live(n)
    BY <1>0, <2>1, StandingIs DEF Live
  <2>3. CardTypes'
    BY <1>0, <1>1, <1>3, <2>1 DEF CardTypes, At
  <2>4. HoldsLiveCard'
    BY <1>0, <1>1, <2>2, Numbers DEF HoldsLiveCard, At
  <2>5. unsure' \/ KnowsCards'
    BY <1>0, <1>1, <2>1, <2>2 DEF KnowsCards, At
  <2> QED BY <2>3, <2>4, <2>5 DEF CardInv
<1> QED BY <1>4, <1>5, <1>6, <1>7

-----------------------------------------------------------------------------
\* The invariant of the proofs: types, the card in hand is for sale, and what a
\* listing may be sure of.
THEOREM CardInvariant == CardSpec => []CardInv
<1>1. CardInit => CardInv
  <2> SUFFICES ASSUME CardInit PROVE CardInv
    OBVIOUS
  <2>1. PICK first \in {NoCard} \cup [key : {"primary", "legacy"}, place : {"live", "trash"}, sized : BOOLEAN] :
          /\ cards = [n \in Nm |-> IF n = 1 THEN first ELSE NoCard]
          /\ nmKnown \in IF first = NoCard THEN {0} ELSE {0, 1}
    BY DEF CardInit
  <2>2. /\ wbErrors = {} /\ errorCache = NotCached /\ listing = NoListing
        /\ unsure = FALSE /\ listings = 0 /\ refusals = 0
    BY DEF CardInit
  <2>3. NoCard \in [key : LookupKeys, place : Places, sized : BOOLEAN] /\ NoCard.place = "none"
    BY DEF NoCard, LookupKeys, Places
  <2>4. first \in [key : LookupKeys, place : Places, sized : BOOLEAN] /\ first.place # "queued"
    BY <2>1, <2>3 DEF LookupKeys, Places
  <2>5. /\ cards \in [Nm -> [key : LookupKeys, place : Places, sized : BOOLEAN]]
        /\ \A n \in Nm : cards[n].place # "queued"
        /\ \A n \in Nm : n # 1 => cards[n].place = "none"
    BY <2>1, <2>3, <2>4
  <2>6. NoListing \in Listings /\ NoListing.attempt = 0 /\ NoListing.existing = 0 /\ NoListing.pc = "none"
    BY Numbers DEF NoListing, Listings, Steps
  <2>7. nmKnown \in 0..MaxCards
    BY <2>1, Numbers
  <2>8. CardTypes
    <3>1. /\ wbErrors \subseteq Complaints /\ errorCache \in (SUBSET Complaints) \cup {NotCached}
          /\ unsure \in BOOLEAN
      BY <2>2
    <3>2. listings \in 0..MaxListings /\ refusals \in 0..MaxRefusals
      BY <2>2, Numbers
    <3>3. listing \in Listings /\ listing.attempt <= 2
      BY <2>2, <2>6
    <3> QED BY <2>5, <2>7, <3>1, <3>2, <3>3 DEF CardTypes
  <2>9. HoldsLiveCard
    BY <2>2, <2>6 DEF HoldsLiveCard, At
  <2>10. KnowsCards
    BY <2>2, <2>5, <2>6 DEF KnowsCards, At, Standing
  <2> QED BY <2>8, <2>9, <2>10 DEF CardInv
<1>2. CardInv /\ [CardNext]_cardVars => CardInv'
  <2> SUFFICES ASSUME CardInv, [CardNext]_cardVars PROVE CardInv'
    OBVIOUS
  <2>1. CASE UNCHANGED cardVars
    BY <2>1 DEF cardVars, CardInv, CardTypes, HoldsLiveCard, KnowsCards, At, Live, Standing
  <2>2. CASE \/ \E sized \in BOOLEAN : ListProduct(sized)
             \/ \E answered \in BOOLEAN : FindKnown(answered)
             \/ \E answered \in SUBSET LookupKeys : FindAll(answered)
    BY <2>2, SearchStep
  <2>3. CASE \/ FindTrash \/ Prepare \/ Throws \/ Update
             \/ \E answered \in BOOLEAN : DropBrokenDraft(answered)
             \/ \E lost \in BOOLEAN : Upload(lost)
    BY <2>3, WriteStep
  <2>4. CASE (\E e, c \in BOOLEAN : Confirm(e, c) \/ TrashDraft(e, c)) \/ PlanRepair \/ EndListing
    BY <2>4, PollStep
  <2>5. CASE \/ Unlist \/ ForgetErrors \/ ExpireErrors
             \/ \E n \in Nm : Make(n) \/ \E why \in Complaints, place \in {"none", "live"} : Refuse(n, why, place)
    BY <2>5, WorldStep
  <2> QED BY <2>1, <2>2, <2>3, <2>4, <2>5 DEF CardNext
<1> QED BY <1>1, <1>2, PTL DEF CardSpec

\* The types of the cards and of the listing at work (WbListingAdapter).
THEOREM CardTypesCorrect == CardSpec => []CardTypeOK
<1>1. CardInv => CardTypeOK
  BY DEF CardInv, CardTypes, CardTypeOK, Listings, Steps, Places, LookupKeys
<1> QED BY <1>1, CardInvariant, PTL

\* A listing leaves one card for sale, the one it reports, through conflicts,
\* repairs and lost answers (WbListingAdapter.listProduct).
THEOREM OneCardStands == CardSpec => []OneCard
<1>1. CardInv => OneCard
  <2> SUFFICES ASSUME CardInv PROVE OneCard
    OBVIOUS
  <2>1. ReturnsLiveCard
    BY DEF CardInv, HoldsLiveCard, ReturnsLiveCard, Live, At
  <2>2. ASSUME ~unsure PROVE Cardinality(Standing) <= 1
    <3>1. \A m, n \in Standing : m = n
      BY <2>2 DEF CardInv, KnowsCards
    <3>2. CASE Standing = {}
      BY <3>2, FS_EmptySet
    <3>3. CASE Standing # {}
      <4>1. PICK n : Standing = {n}
        BY <3>1, <3>3
      <4> QED BY <4>1, FS_Singleton
    <3> QED BY <3>2, <3>3
  <2> QED BY <2>1, <2>2 DEF OneCard, AtMostOneStands
<1> QED BY <1>1, CardInvariant, PTL

-----------------------------------------------------------------------------
(* WbStocks: jobs that place their stock, for any fleets, boxes and jobs.  *)

\* The first number that is not zero, of a sequence that may have none.
LEMMA FirstSetType ==
  ASSUME NEW S, 0 \in S, NEW s \in Seq(S)
  PROVE  FirstSet(s) \in S
<1> DEFINE set == {i \in DOMAIN s : s[i] # 0}
<1>1. CASE set = {}
  BY <1>1 DEF FirstSet
<1>2. CASE set # {}
  <2>1. set \in SUBSET Nat /\ \A i \in 1..Len(s) : s[i] \in S
    OBVIOUS
  <2>2. PICK n \in set : \A k \in set : <<k, n>> \notin OpToRel(<, Nat)
    BY <1>2, <2>1, NatLessThanWellFounded, WFMin
  <2>3. ASSUME NEW k \in 1..(n - 1) PROVE s[k] = 0
    <3>0. Len(s) \in Nat /\ n \in 1..Len(s) /\ k \in 1..(n - 1)
      <4>1. DOMAIN s = 1..Len(s) /\ Len(s) \in Nat
        OBVIOUS
      <4>2. n \in DOMAIN s
        OBVIOUS
      <4> QED BY <4>1, <4>2
    <3>1. n \in 1..Len(s) /\ k \in 1..Len(s) /\ k < n /\ k \in Nat /\ n \in Nat
      BY <3>0
    <3>2. k \notin set
      BY <3>1, <2>2 DEF OpToRel
    <3> QED BY <3>1, <3>2
  <2> DEFINE IsFirst(i) == s[i] # 0 /\ \A k \in 1..(i - 1) : s[k] = 0
  <2>4. n \in DOMAIN s /\ IsFirst(n)
    BY <2>2, <2>3
  <2>5. (CHOOSE i \in DOMAIN s : IsFirst(i)) \in DOMAIN s
    BY <2>4
  <2>6. FirstSet(s) = s[CHOOSE i \in DOMAIN s : IsFirst(i)]
    BY <1>2 DEF FirstSet
  <2> HIDE DEF IsFirst
  <2> QED BY <2>1, <2>5, <2>6
<1> QED BY <1>1, <1>2

-----------------------------------------------------------------------------
\* Scores are numbers, so of two warehouses one is ahead of the other.
LEMMA AheadOrders ==
  ASSUME NEW needed, NEW preferred, NEW ids \in SUBSET Nat
  PROVE  \A a, b, c \in ids :
           /\ ~Ahead(a, a, needed, preferred)
           /\ a # b => Ahead(a, b, needed, preferred) \/ Ahead(b, a, needed, preferred)
           /\ Ahead(a, b, needed, preferred) /\ Ahead(b, c, needed, preferred) => Ahead(a, c, needed, preferred)
<1>1. \A a \in ids : Score(a, needed, preferred) \in Int
  BY DEF Score
<1>2. ids \subseteq Int
  OBVIOUS
<1> QED BY <1>1, <1>2 DEF Ahead

\* A ranking lists what it ranks, each once.
LEMMA RankLists ==
  ASSUME NEW ids \in SUBSET Nat, IsFiniteSet(ids), NEW needed, NEW preferred
  PROVE  LET s == Rank(ids, needed, preferred) IN
         /\ s \in Seq(ids) /\ Len(s) = Cardinality(ids)
         /\ \A i, k \in 1..Len(s) : s[i] = s[k] => i = k
         /\ \A id \in ids : \E i \in 1..Len(s) : s[i] = id
<1> DEFINE n == Cardinality(ids)
           InFront(id) == {o \in ids : Ahead(o, id, needed, preferred)}
           Turn(id) == Cardinality(InFront(id)) + 1
           place == [id \in ids |-> Turn(id)]
           s == Rank(ids, needed, preferred)
<1>1. n \in Nat
  BY FS_CardinalityType
<1>2. \A id \in ids : IsFiniteSet(InFront(id)) /\ Cardinality(InFront(id)) \in Nat
  BY FS_Subset, FS_CardinalityType
<1>3. ASSUME NEW id \in ids PROVE Cardinality(InFront(id)) <= n - 1
  <2>1. id \notin InFront(id)
    BY AheadOrders
  <2>2. InFront(id) \in SUBSET (ids \ {id})
    BY <2>1
  <2>3. IsFiniteSet(ids \ {id}) /\ Cardinality(ids \ {id}) = n - 1
    BY FS_RemoveElement
  <2> QED BY <2>2, <2>3, FS_Subset
<1>4. ASSUME NEW a \in ids, NEW b \in ids, Ahead(a, b, needed, preferred)
      PROVE  Cardinality(InFront(a)) < Cardinality(InFront(b))
  <2>1. a \notin InFront(a) /\ InFront(a) \cup {a} \in SUBSET InFront(b)
    BY <1>4, AheadOrders
  <2>2. Cardinality(InFront(a) \cup {a}) = Cardinality(InFront(a)) + 1
    BY <2>1, <1>2, FS_AddElement
  <2>3. Cardinality(InFront(a) \cup {a}) <= Cardinality(InFront(b))
    BY <2>1, <1>2, FS_Subset
  <2> QED BY <2>2, <2>3, <1>2
<1>5. \A id \in ids : Turn(id) \in 1..n
  BY <1>1, <1>2, <1>3
<1>6. \A a, b \in ids : Turn(a) = Turn(b) => a = b
  <2> SUFFICES ASSUME NEW a \in ids, NEW b \in ids, a # b PROVE Turn(a) # Turn(b)
    OBVIOUS
  <2>1. Ahead(a, b, needed, preferred) \/ Ahead(b, a, needed, preferred)
    BY AheadOrders
  <2>2. Cardinality(InFront(a)) # Cardinality(InFront(b))
    BY <2>1, <1>4, <1>2
  <2> QED BY <2>2, <1>2
<1> HIDE DEF Turn
<1>7. place \in Injection(ids, 1..n)
  BY <1>5, <1>6 DEF Injection, IsInjective
<1>8. place \in Surjection(ids, 1..n)
  <2>1. IsFiniteSet(1..n) /\ Cardinality(1..n) = n
    BY <1>1, FS_Interval
  <2> QED BY <1>7, <2>1, FS_Injection
<1>9. \A k \in 1..n : \E id \in ids : Turn(id) = k
  BY <1>8 DEF Surjection
<1>10. s = [k \in 1..n |-> CHOOSE id \in ids : Cardinality(InFront(id)) = k - 1]
  BY DEF Rank
<1>11. \A k \in 1..n : s[k] \in ids /\ Cardinality(InFront(s[k])) = k - 1
  <2> SUFFICES ASSUME NEW k \in 1..n PROVE s[k] \in ids /\ Cardinality(InFront(s[k])) = k - 1
    OBVIOUS
  <2>1. PICK id \in ids : Turn(id) = k
    BY <1>9
  <2>2. Cardinality(InFront(id)) = k - 1
    BY <2>1, <1>2 DEF Turn
  <2>3. s[k] = CHOOSE x \in ids : Cardinality(InFront(x)) = k - 1
    BY <1>10
  <2> QED BY <2>2, <2>3
<1> HIDE DEF s, InFront
<1>12. s \in [1..n -> ids]
  BY <1>10, <1>11
<1>13. s \in Seq(ids) /\ Len(s) = n
  BY <1>12, <1>1
<1>14. \A i, k \in 1..n : s[i] = s[k] => i = k
  BY <1>11, <1>1
<1>15. ASSUME NEW id \in ids PROVE \E i \in 1..n : s[i] = id
  <2>1. Turn(id) \in 1..n /\ Turn(s[Turn(id)]) = Turn(id)
    BY <1>5, <1>11, <1>2 DEF Turn
  <2> QED BY <2>1, <1>6, <1>11
<1> QED BY <1>13, <1>14, <1>15 DEF s

-----------------------------------------------------------------------------
ReadExtras == {<<>>} \cup Extras
Stockers ==
  [pc : {"idle", "put", "remember", "write", "failed"}, cargo : 0..3, preferred : WarehouseIds,
   listed : SUBSET WarehouseIds, candidates : Seq(WarehouseIds), index : Nat,
   tried : SUBSET WarehouseIds, attempt : 0..3, read : ReadExtras]

StockTypes ==
  /\ fleet \in Fleets /\ extra \in Extras /\ stocked \in 0..MaxStocked
  /\ brandEdit = <<>> \/ \E read \in Extras : brandEdit = <<read>>
  /\ stocker \in [Stocker -> Stockers]

\* A job about to offer its stock: it has been to those before the one at hand,
\* which with those to come, each once, make up the list.
Offering(job) ==
  /\ job.index \in 1..Len(job.candidates)
  /\ \A i, k \in 1..Len(job.candidates) : job.candidates[i] = job.candidates[k] => i = k
  /\ \A w \in job.tried : \E i \in 1..(job.index - 1) : job.candidates[i] = w
  /\ \A i \in 1..(job.index - 1) : job.candidates[i] \in job.tried
  /\ \A w \in job.listed : \E i \in 1..Len(job.candidates) : job.candidates[i] = w

\* SyncFindsWarehouse needs it: of a list whose order changes under way it says
\* that no warehouse is lost or met twice.
JobInv(job) ==
  /\ job.pc = "put" => Offering(job)
  /\ job.pc \in {"remember", "write"} => job.index \in 1..Len(job.candidates)
  /\ job.pc = "failed" => job.listed \subseteq job.tried
  /\ job.pc \in {"idle", "failed"} => job.index \in 1..(Len(job.candidates) + 1)
  /\ job.listed \subseteq DOMAIN fleet
  /\ job.read \in Extras \/ job.pc # "write"

StockInv == StockTypes /\ \A j \in Stocker : JobInv(stocker[j])

\* Warehouse ids are numbers, and so are those a shop remembers.
LEMMA IdsAreNumbers ==
  /\ WarehouseIds \subseteq Nat /\ 0 \in WarehouseIds /\ EnvWarehouse \in WarehouseIds
  /\ \A f \in Fleets : DOMAIN f \subseteq WarehouseIds /\ DOMAIN f \subseteq Nat /\ IsFiniteSet(DOMAIN f)
<1>1. ASSUME NEW f \in Fleets PROVE DOMAIN f \subseteq WarehouseIds /\ DOMAIN f \subseteq Nat /\ IsFiniteSet(DOMAIN f)
  <2>1. DOMAIN f \in {DOMAIN g : g \in Fleets}
    OBVIOUS
  <2> QED BY <2>1, StockAssumptions DEF WarehouseIds
<1>2. 0 \in WarehouseIds /\ EnvWarehouse \in WarehouseIds
  BY DEF WarehouseIds
<1>3. ASSUME NEW w \in WarehouseIds PROVE w \in Nat
  <2>1. CASE w \in {EnvWarehouse, 0}
    BY <2>1, StockAssumptions
  <2>2. CASE w \in UNION {DOMAIN f : f \in Fleets}
    <3>1. PICK f \in Fleets : w \in DOMAIN f
      BY <2>2
    <3> QED BY <3>1, <1>1
  <2> QED BY <2>1, <2>2 DEF WarehouseIds
<1> QED BY <1>1, <1>2, <1>3

LEMMA PreferredType ==
  ASSUME StockTypes, NEW cargo \in 0..3
  PROVE  ResolvePreferred(cargo) \in WarehouseIds
<1>1. extra.warehouse \in WarehouseIds /\ \A i \in 1..3 : extra.byType[i] \in WarehouseIds
  BY DEF StockTypes, Extras
<1>2. extra.byType \in Seq(WarehouseIds)
  <2>1. extra.byType \in [1..3 -> WarehouseIds] /\ 3 \in Nat
    BY DEF StockTypes, Extras
  <2> QED BY <2>1, SeqDef
<1>3. <<EnvWarehouse, extra.warehouse>> \in Seq(WarehouseIds)
  BY <1>1, IdsAreNumbers
<1> DEFINE tail == CASE cargo \in {2, 3} -> <<extra.byType[2], extra.byType[3]>>
                     [] cargo = 1        -> <<extra.byType[1]>>
                     [] OTHER            -> extra.byType
<1>4. tail \in Seq(WarehouseIds)
  <2>1. <<extra.byType[2], extra.byType[3]>> \in Seq(WarehouseIds) /\ <<extra.byType[1]>> \in Seq(WarehouseIds)
    BY <1>1
  <2>2. CASE cargo \in {2, 3}
    BY <2>1, <2>2
  <2>3. CASE cargo = 1
    BY <2>1, <2>3
  <2>4. CASE cargo = 0
    BY <1>2, <2>4
  <2> QED BY <2>2, <2>3, <2>4
<1> HIDE DEF tail
<1>5. <<EnvWarehouse, extra.warehouse>> \o tail \in Seq(WarehouseIds)
  BY <1>3, <1>4
<1>6. ResolvePreferred(cargo) = FirstSet(<<EnvWarehouse, extra.warehouse>> \o tail)
  BY DEF ResolvePreferred, tail
<1> QED BY <1>5, <1>6, FirstSetType, IdsAreNumbers

LEMMA NextExtraType ==
  ASSUME NEW read \in Extras, NEW id \in WarehouseIds, NEW cargo \in 0..3
  PROVE  NextShopWarehouseExtra(read, id, cargo) \in Extras
<1>1. read.warehouse \in WarehouseIds /\ read.byType \in [1..3 -> WarehouseIds] /\ read.brand \in BOOLEAN
  BY DEF Extras
<1>2. FirstSet(<<read.warehouse, id>>) \in WarehouseIds
  <2>1. <<read.warehouse, id>> \in Seq(WarehouseIds)
    BY <1>1
  <2> QED BY <2>1, IdsAreNumbers, FirstSetType
<1>3. (IF cargo = 0 THEN read.byType ELSE [read.byType EXCEPT ![cargo] = id]) \in [1..3 -> WarehouseIds]
  BY <1>1
<1> QED BY <1>1, <1>2, <1>3 DEF NextShopWarehouseExtra, Extras

-----------------------------------------------------------------------------
\* A step that changes one job keeps the others.
LEMMA OneJob ==
  ASSUME StockInv, NEW j \in Stocker, NEW job \in Stockers, Step(j, job), JobInv(job),
         UNCHANGED fleet, extra' \in Extras, stocked' \in 0..MaxStocked, UNCHANGED brandEdit
  PROVE  StockInv'
<1>1. stocker' \in [Stocker -> Stockers]
  BY DEF Step, StockInv, StockTypes
<1>2. ASSUME NEW k \in Stocker PROVE JobInv(stocker[k])'
  <2>1. CASE k = j
    BY <2>1 DEF StockInv, StockTypes, Step, JobInv, Offering
  <2>2. CASE k # j
    BY <2>2 DEF StockInv, StockTypes, Step, JobInv, Offering
  <2> QED BY <2>1, <2>2
<1> QED BY <1>1, <1>2 DEF StockInv, StockTypes

LEMMA SetStocksStep ==
  ASSUME StockInv, NEW j \in Stocker, NEW box \in Boxes, NEW listed \in {DOMAIN fleet, {}},
         SetStocks(j, box, listed)
  PROVE  StockInv'
<1> DEFINE cargo == InferWbCargoType(box)
           preferred == ResolvePreferred(cargo)
           needed == IF cargo = 0 THEN <<>> ELSE <<cargo>>
           ranked == Rank(listed, needed, preferred)
           candidates == IF ranked = <<>> /\ preferred # 0 THEN <<preferred>> ELSE ranked
           job == [NoStocker EXCEPT !.pc = IF candidates = <<>> THEN "failed" ELSE "put",
                                    !.cargo = cargo, !.preferred = preferred, !.listed = listed,
                                    !.candidates = candidates]
<1>1. cargo \in 0..3
  BY DEF InferWbCargoType
<1>2. preferred \in WarehouseIds
  BY <1>1, PreferredType DEF StockInv
<1>3. listed \subseteq DOMAIN fleet /\ listed \subseteq WarehouseIds /\ listed \in SUBSET Nat /\ IsFiniteSet(listed)
  BY IdsAreNumbers, FS_EmptySet DEF StockInv, StockTypes
<1> HIDE DEF cargo, preferred, needed
<1>4. /\ ranked \in Seq(listed) /\ \A i, k \in 1..Len(ranked) : ranked[i] = ranked[k] => i = k
      /\ \A w \in listed : \E i \in 1..Len(ranked) : ranked[i] = w
  BY <1>3, RankLists
<1> HIDE DEF ranked
<1>5. ranked \in Seq(WarehouseIds)
  BY <1>3, <1>4, SeqMonotonic
<1>6. /\ candidates \in Seq(WarehouseIds)
      /\ \A i, k \in 1..Len(candidates) : candidates[i] = candidates[k] => i = k
      /\ \A w \in listed : \E i \in 1..Len(candidates) : candidates[i] = w
  <2>1. CASE ranked = <<>> /\ preferred # 0
    BY <2>1, <1>2, <1>4
  <2>2. CASE ~(ranked = <<>> /\ preferred # 0)
    BY <2>2, <1>4, <1>5
  <2> QED BY <2>1, <2>2
<1> HIDE DEF candidates
<1>7. /\ job.pc = (IF candidates = <<>> THEN "failed" ELSE "put") /\ job.index = 1 /\ job.tried = {}
      /\ job.listed = listed /\ job.candidates = candidates
  BY DEF NoStocker
<1>8. job \in Stockers
  <2>1. NoStocker \in Stockers
    <3>1. <<>> \in ReadExtras /\ <<>> \in Seq(WarehouseIds)
      BY DEF ReadExtras
    <3> QED BY <3>1, IdsAreNumbers DEF NoStocker, Stockers
  <2>2. (IF candidates = <<>> THEN "failed" ELSE "put") \in {"idle", "put", "remember", "write", "failed"}
    OBVIOUS
  <2> QED BY <2>1, <2>2, <1>1, <1>2, <1>3, <1>6 DEF Stockers
<1> HIDE DEF job
<1>9. JobInv(job)
  <2>1. CASE candidates = <<>>
    <3>1. listed = {}
      BY <2>1, <1>6
    <3> QED BY <2>1, <3>1, <1>3, <1>7 DEF JobInv
  <2>2. CASE candidates # <<>>
    <3>1. Len(candidates) \in Nat /\ Len(candidates) >= 1
      BY <2>2, <1>6
    <3> QED BY <2>2, <3>1, <1>3, <1>6, <1>7 DEF JobInv, Offering
  <2> QED BY <2>1, <2>2
<1>10. Step(j, job) /\ UNCHANGED <<fleet, extra, brandEdit>> /\ stocked' \in 0..MaxStocked
  BY StockAssumptions DEF SetStocks, job, candidates, ranked, needed, preferred, cargo, StockInv, StockTypes
<1> QED BY <1>8, <1>9, <1>10, OneJob DEF StockInv, StockTypes

\* The next candidate is one the job has not been to; past the last, it has been to all.
LEMMA MovesOn ==
  ASSUME NEW job \in Stockers, job.pc = "put", JobInv(job)
  PROVE  NextWarehouse(job) \in Stockers /\ JobInv(NextWarehouse(job))
<1> DEFINE n == job.index
           here == job.candidates[n]
           moved == [job EXCEPT !.index = @ + 1, !.tried = @ \cup {here}, !.attempt = 0]
           next == NextWarehouse(job)
<1>1. Offering(job) /\ n \in 1..Len(job.candidates) /\ n \in Nat /\ Len(job.candidates) \in Nat
  BY DEF JobInv, Offering, Stockers
<1>2. here \in WarehouseIds
  BY <1>1 DEF Stockers
<1>3. /\ next.index = n + 1 /\ next.tried = job.tried \cup {here} /\ next.listed = job.listed
      /\ next.candidates = job.candidates /\ next \in Stockers
      /\ next.pc = IF n + 1 > Len(job.candidates) THEN "failed" ELSE "put"
  <2>1. next = IF n + 1 > Len(job.candidates) THEN [moved EXCEPT !.pc = "failed"] ELSE moved
    BY DEF NextWarehouse, Stockers
  <2>2. /\ moved \in Stockers /\ moved.index = n + 1 /\ moved.tried = job.tried \cup {here}
        /\ moved.listed = job.listed /\ moved.candidates = job.candidates /\ moved.pc = "put"
    <3>1. job \in Stockers /\ job.tried \cup {here} \in SUBSET WarehouseIds /\ n + 1 \in Nat /\ 0 \in 0..3
      BY <1>1, <1>2 DEF Stockers
    <3> HIDE DEF here
    <3> QED BY <3>1 DEF Stockers
  <2> HIDE DEF moved, next, here
  <2> QED BY <2>1, <2>2 DEF Stockers
<1> HIDE DEF next, here
<1>4. /\ \A w \in next.tried : \E i \in 1..(next.index - 1) : next.candidates[i] = w
      /\ \A i \in 1..(next.index - 1) : next.candidates[i] \in next.tried
  <2>1. n \in 1..n /\ 1..(n - 1) \subseteq 1..n /\ 1..n \subseteq 1..(n - 1) \cup {n} /\ (n + 1) - 1 = n
    BY <1>1
  <2>2. \A w \in next.tried : \E i \in 1..n : next.candidates[i] = w
    BY <2>1, <1>1, <1>3 DEF Offering, here
  <2>3. \A i \in 1..n : next.candidates[i] \in next.tried
    BY <2>1, <1>1, <1>3 DEF Offering, here
  <2> QED BY <2>1, <2>2, <2>3, <1>3
<1>5. CASE n + 1 > Len(job.candidates)
  <2>0. n = Len(job.candidates) /\ next.index - 1 = n
    BY <1>1, <1>3, <1>5
  <2>1. next.listed \subseteq next.tried
    BY <2>0, <1>1, <1>3, <1>4 DEF Offering
  <2> QED BY <2>1, <1>1, <1>3, <1>5 DEF JobInv, next
<1>6. CASE ~(n + 1 > Len(job.candidates))
  BY <1>1, <1>3, <1>4, <1>6 DEF JobInv, Offering, next
<1> QED BY <1>3, <1>5, <1>6 DEF next

\* A new ranking of what is left leaves the list complete and without repetition.
LEMMA RerankKeeps ==
  ASSUME NEW job \in Stockers, job.pc = "put", JobInv(job), NEW required,
         fleet \in Fleets
  PROVE  LET next == Reranked(job, required) IN
         /\ next \in Stockers /\ next.pc = "put" /\ JobInv(next)
         /\ next.index = job.index /\ next.tried = job.tried /\ next.listed = job.listed
         /\ next.candidates[job.index] = job.candidates[job.index]
<1> DEFINE n == job.index
           C == job.candidates
           left == job.listed \ (job.tried \cup {C[n]})
           ranked == Rank(left, required, 0)
           head == SubSeq(C, 1, n)
           D == head \o ranked
           next == Reranked(job, required)
<1>1. Offering(job) /\ n \in 1..Len(C) /\ n \in Nat /\ Len(C) \in Nat /\ C \in Seq(WarehouseIds)
  BY DEF JobInv, Offering, Stockers
<1>2. left \subseteq WarehouseIds /\ left \in SUBSET Nat /\ IsFiniteSet(left)
  <2>1. left \in SUBSET (DOMAIN fleet)
    BY DEF JobInv
  <2> QED BY <2>1, IdsAreNumbers, FS_Subset
<1> HIDE DEF left
<1>3. /\ ranked \in Seq(left) /\ \A i, k \in 1..Len(ranked) : ranked[i] = ranked[k] => i = k
      /\ \A w \in left : \E i \in 1..Len(ranked) : ranked[i] = w
  BY <1>2, RankLists
<1> HIDE DEF ranked
<1>4. ranked \in Seq(WarehouseIds) /\ Len(ranked) \in Nat /\ \A i \in 1..Len(ranked) : ranked[i] \in left
  <2>1. ranked \in Seq(WarehouseIds)
    BY <1>2, <1>3, SeqMonotonic
  <2>2. Len(ranked) \in Nat /\ \A i \in 1..Len(ranked) : ranked[i] \in left
    BY <1>3
  <2> QED BY <2>1, <2>2
<1>5. head \in Seq(WarehouseIds) /\ Len(head) = n /\ \A i \in 1..n : head[i] = C[i]
  BY <1>1
<1> HIDE DEF head, C
<1>6. /\ D \in Seq(WarehouseIds) /\ Len(D) = n + Len(ranked)
      /\ \A i \in 1..n : D[i] = C[i]
      /\ \A i \in 1..Len(ranked) : D[n + i] = ranked[i]
  <2>1. D \in Seq(WarehouseIds) /\ Len(D) = Len(head) + Len(ranked)
    BY <1>4, <1>5
  <2>2. \A i \in 1..Len(head) + Len(ranked) : D[i] = IF i <= Len(head) THEN head[i] ELSE ranked[i - Len(head)]
    BY <1>4, <1>5
  <2>3. ASSUME NEW i \in 1..n PROVE D[i] = C[i]
    BY <2>2, <1>1, <1>4, <1>5
  <2>4. ASSUME NEW i \in 1..Len(ranked) PROVE D[n + i] = ranked[i]
    <3>1. n + i \in 1..n + Len(ranked) /\ ~(n + i <= n) /\ (n + i) - n = i
      BY <1>1, <1>4
    <3> QED BY <3>1, <2>2, <1>5
  <2> QED BY <2>1, <2>3, <2>4, <1>5
<1> HIDE DEF D
<1>7. \A i \in 1..n : C[i] \in job.tried \cup {C[n]}
  BY <1>1 DEF Offering, C
<1>8. \A i \in 1..n : C[i] \notin left
  BY <1>7 DEF left
<1>9. \A k \in 1..Len(D) : k \in 1..n \/ \E i \in 1..Len(ranked) : k = n + i
  <2> SUFFICES ASSUME NEW k \in 1..Len(D), k \notin 1..n PROVE \E i \in 1..Len(ranked) : k = n + i
    OBVIOUS
  <2>1. k - n \in 1..Len(ranked) /\ k = n + (k - n)
    BY <1>1, <1>4, <1>6
  <2> QED BY <2>1
<1>10. ASSUME NEW i \in 1..Len(D), NEW k \in 1..Len(D), D[i] = D[k] PROVE i = k
  <2>1. CASE i \in 1..n /\ k \in 1..n
    <3>1. C[i] = C[k]
      BY <2>1, <1>10, <1>6
    <3>2. i \in 1..Len(C) /\ k \in 1..Len(C)
      BY <2>1, <1>1
    <3> QED BY <3>1, <3>2, <1>1 DEF Offering, C
  <2>2. CASE i \notin 1..n /\ k \notin 1..n
    <3>1. PICK x, y \in 1..Len(ranked) : i = n + x /\ k = n + y
      BY <2>2, <1>9
    <3>2. ranked[x] = ranked[y]
      BY <3>1, <1>10, <1>6
    <3> QED BY <3>1, <3>2, <1>3
  <2>3. CASE i \in 1..n /\ k \notin 1..n
    <3>1. PICK y \in 1..Len(ranked) : k = n + y
      BY <2>3, <1>9
    <3> QED BY <2>3, <3>1, <1>10, <1>6, <1>4, <1>8
  <2>4. CASE i \notin 1..n /\ k \in 1..n
    <3>1. PICK x \in 1..Len(ranked) : i = n + x
      BY <2>4, <1>9
    <3> QED BY <2>4, <3>1, <1>10, <1>6, <1>4, <1>8
  <2> QED BY <2>1, <2>2, <2>3, <2>4
<1>11. ASSUME NEW w \in job.listed PROVE \E i \in 1..Len(D) : D[i] = w
  <2>1. CASE w \in left
    <3>1. PICK i \in 1..Len(ranked) : ranked[i] = w
      BY <2>1, <1>3
    <3>2. n + i \in 1..Len(D) /\ D[n + i] = w
      BY <3>1, <1>1, <1>4, <1>6
    <3> QED BY <3>2
  <2>2. CASE w \notin left
    <3>1. PICK i \in 1..n : C[i] = w
      <4>1. w = C[n] \/ w \in job.tried
        BY <2>2, <1>11 DEF left
      <4>2. n \in 1..n /\ 1..(n - 1) \subseteq 1..n
        BY <1>1
      <4> QED BY <4>1, <4>2, <1>1 DEF Offering, C
    <3>2. i \in 1..Len(D) /\ D[i] = w
      BY <3>1, <1>1, <1>4, <1>6
    <3> QED BY <3>2
  <2> QED BY <2>1, <2>2
<1>12. /\ next \in Stockers /\ next.pc = "put" /\ next.candidates = D
       /\ next.index = n /\ next.tried = job.tried /\ next.listed = job.listed
  <2>1. next = [job EXCEPT !.candidates = D]
    BY DEF Reranked, D, head, ranked, left, C
  <2> QED BY <2>1, <1>6 DEF Stockers
<1> HIDE DEF next
<1>13. n \in 1..Len(D) /\ 1..(n - 1) \subseteq 1..n /\ n \in 1..n
  BY <1>1, <1>4, <1>6
<1>14. /\ \A w \in next.tried : \E i \in 1..(next.index - 1) : next.candidates[i] = w
       /\ \A i \in 1..(next.index - 1) : next.candidates[i] \in next.tried
  <2>1. \A i \in 1..(n - 1) : D[i] = job.candidates[i]
    BY <1>6, <1>13 DEF C
  <2>2. /\ \A w \in job.tried : \E i \in 1..(n - 1) : job.candidates[i] = w
        /\ \A i \in 1..(n - 1) : job.candidates[i] \in job.tried
    BY <1>1 DEF Offering
  <2>3. /\ \A w \in job.tried : \E i \in 1..(n - 1) : D[i] = w
        /\ \A i \in 1..(n - 1) : D[i] \in job.tried
    BY <2>1, <2>2
  <2> QED BY <2>3, <1>12
<1>15. Offering(next)
  BY <1>10, <1>11, <1>12, <1>13, <1>14 DEF Offering
<1>16. JobInv(next)
  BY <1>12, <1>15 DEF JobInv
<1> QED BY <1>6, <1>12, <1>13, <1>16 DEF next, C

LEMMA PutStep ==
  ASSUME StockInv, NEW j \in Stocker,
         PutOk(j) \/ (\E required : PutRestricted(j, required))
           \/ \E busy \in BOOLEAN : PutFails(j, busy)
  PROVE  StockInv'
<1> DEFINE job == stocker[j]
<1>1. /\ job \in Stockers /\ job.pc = "put" /\ JobInv(job) /\ fleet \in Fleets
      /\ UNCHANGED <<fleet, extra, brandEdit, stocked>> /\ extra' \in Extras /\ stocked' \in 0..MaxStocked
  BY DEF PutOk, PutRestricted, PutFails, StockerAt, StockInv, StockTypes
<1> SUFFICES \E next \in Stockers : Step(j, next) /\ JobInv(next)
  BY <1>1, OneJob
<1>2. Offering(job)
  BY <1>1 DEF JobInv
<1>3. CASE PutOk(j)
  <2> DEFINE next == [job EXCEPT !.pc = "remember"]
  <2>1. next \in Stockers /\ Step(j, next)
    BY <1>1, <1>3 DEF PutOk, Stockers
  <2>2. JobInv(next)
    BY <1>1, <1>2 DEF JobInv, Offering, Stockers
  <2> QED BY <2>1, <2>2
<1>4. ASSUME NEW required, PutRestricted(j, required)
      PROVE  \E next \in Stockers : Step(j, next) /\ JobInv(next)
  <2> DEFINE reranked == Reranked(job, required)
             here == job.candidates[job.index]
  <2>1. /\ reranked \in Stockers /\ reranked.pc = "put" /\ JobInv(reranked)
        /\ reranked.index = job.index /\ reranked.candidates[job.index] = here
    BY <1>1, RerankKeeps
  <2>2. Step(j, IF job.index >= Len(reranked.candidates)
                THEN [reranked EXCEPT !.pc = "failed", !.tried = @ \cup {here}]
                ELSE [reranked EXCEPT !.index = @ + 1, !.tried = @ \cup {here}, !.attempt = 0])
    BY <1>4 DEF PutRestricted
  <2> HIDE DEF reranked
  <2>3. Offering(reranked)
    BY <2>1 DEF JobInv
  <2>4. CASE job.index >= Len(reranked.candidates)
    <3> DEFINE next == [reranked EXCEPT !.pc = "failed", !.tried = @ \cup {here}]
    <3>1. here \in WarehouseIds
      BY <1>1, <1>2 DEF Offering, Stockers
    <3>2. reranked.tried \cup {here} \in SUBSET WarehouseIds
      BY <2>1, <3>1 DEF Stockers
    <3> HIDE DEF here
    <3>3. /\ next \in Stockers /\ next.pc = "failed" /\ next.listed = reranked.listed
          /\ next.tried = reranked.tried \cup {here} /\ next.index = job.index /\ next.candidates = reranked.candidates
      BY <2>1, <3>2 DEF Stockers
    <3>4. /\ Len(reranked.candidates) = job.index /\ job.index \in Nat
          /\ 1..job.index = 1..(job.index - 1) \cup {job.index}
      BY <2>1, <2>3, <2>4, <1>1 DEF Offering, Stockers
    <3>5. next.listed \subseteq next.tried
      BY <2>1, <2>3, <3>3, <3>4 DEF Offering
    <3>6. JobInv(next)
      <4>1. job.index \in 1..(Len(reranked.candidates) + 1)
        BY <2>1, <2>3, <3>4 DEF Offering
      <4> HIDE DEF next
      <4> QED BY <4>1, <3>3, <3>5, <2>1 DEF JobInv
    <3> QED BY <2>2, <2>4, <3>3, <3>6
  <2>5. CASE ~(job.index >= Len(reranked.candidates))
    <3>1. Len(reranked.candidates) \in Nat /\ job.index \in Nat
      BY <2>1, <1>1 DEF Stockers
    <3>2. NextWarehouse(reranked) = [reranked EXCEPT !.index = @ + 1, !.tried = @ \cup {here}, !.attempt = 0]
      BY <2>1, <2>5, <3>1 DEF NextWarehouse, Stockers
    <3> QED BY <2>1, <2>2, <2>5, <3>2, MovesOn
  <2> QED BY <2>4, <2>5
<1>5. ASSUME NEW busy \in BOOLEAN, PutFails(j, busy)
      PROVE  \E next \in Stockers : Step(j, next) /\ JobInv(next)
  <2>1. CASE job.attempt < (IF busy THEN 3 ELSE 1)
    <3> DEFINE next == [job EXCEPT !.attempt = @ + 1]
    <3>1. job.attempt + 1 \in 0..3
      BY <2>1, <1>1 DEF Stockers
    <3>2. next \in Stockers /\ Step(j, next)
      BY <2>1, <3>1, <1>1, <1>5 DEF PutFails, Stockers
    <3>3. JobInv(next)
      BY <1>1, <1>2 DEF JobInv, Offering, Stockers
    <3> QED BY <3>2, <3>3
  <2>2. CASE ~(job.attempt < (IF busy THEN 3 ELSE 1))
    <3>1. Step(j, NextWarehouse(job))
      BY <2>2, <1>5 DEF PutFails
    <3> QED BY <3>1, <1>1, MovesOn
  <2> QED BY <2>1, <2>2
<1> QED BY <1>3, <1>4, <1>5

LEMMA RememberStep ==
  ASSUME StockInv, NEW j \in Stocker, RememberWarehouse(j) \/ RememberWrites(j) \/ StockWarning(j)
  PROVE  StockInv'
<1> DEFINE job == stocker[j]
<1>1. job \in Stockers /\ JobInv(job)
  BY DEF StockInv, StockTypes
<1>2. UNCHANGED <<fleet, brandEdit, stocked>> /\ stocked' \in 0..MaxStocked
  BY DEF RememberWarehouse, RememberWrites, StockWarning, StockInv, StockTypes
<1>3. NoStocker \in Stockers /\ JobInv(NoStocker)
  <2>1. <<>> \in ReadExtras /\ <<>> \in Seq(WarehouseIds)
    BY DEF ReadExtras
  <2>2. NoStocker \in Stockers
    BY <2>1, IdsAreNumbers DEF NoStocker, Stockers
  <2> QED BY <2>2 DEF NoStocker, JobInv
<1>4. CASE RememberWarehouse(j)
  <2> DEFINE next == [job EXCEPT !.pc = "write", !.read = extra]
  <2>1. extra \in Extras /\ extra \in ReadExtras /\ UNCHANGED extra /\ job.pc = "remember"
    BY <1>4 DEF RememberWarehouse, StockerAt, StockInv, StockTypes, ReadExtras
  <2>2. next \in Stockers /\ Step(j, next)
    BY <1>1, <1>4, <2>1 DEF RememberWarehouse, Stockers
  <2>3. JobInv(next)
    BY <1>1, <2>1 DEF JobInv, Stockers
  <2> QED BY <1>2, <2>1, <2>2, <2>3, OneJob
<1>5. CASE RememberWrites(j)
  <2>1. job.read \in Extras /\ job.index \in 1..Len(job.candidates) /\ job.cargo \in 0..3
    BY <1>1, <1>5 DEF RememberWrites, StockerAt, JobInv, Stockers
  <2>2. job.candidates[job.index] \in WarehouseIds
    BY <1>1, <2>1 DEF Stockers
  <2>3. extra' \in Extras
    BY <1>5, <2>1, <2>2, NextExtraType DEF RememberWrites, StockInv, StockTypes
  <2> QED BY <1>2, <1>3, <1>5, <2>3, OneJob DEF RememberWrites
<1>6. CASE StockWarning(j)
  <2>1. extra' \in Extras /\ Step(j, NoStocker)
    BY <1>6 DEF StockWarning, StockInv, StockTypes
  <2> QED BY <1>2, <1>3, <2>1, OneJob
<1> QED BY <1>4, <1>5, <1>6

LEMMA BrandStep ==
  ASSUME StockInv, BrandRead \/ \E brand \in BOOLEAN : BrandWrite(brand)
  PROVE  StockInv'
<1>1. UNCHANGED <<fleet, stocker, stocked>>
  BY DEF BrandRead, BrandWrite
<1>2. extra' \in Extras /\ (brandEdit' = <<>> \/ \E read \in Extras : brandEdit' = <<read>>)
  <2>1. CASE BrandRead
    BY <2>1 DEF BrandRead, StockInv, StockTypes
  <2>2. CASE \E brand \in BOOLEAN : BrandWrite(brand)
    <3>1. PICK brand \in BOOLEAN : BrandWrite(brand)
      BY <2>2
    <3>2. PICK read \in Extras : brandEdit = <<read>>
      BY <3>1 DEF BrandWrite, StockInv, StockTypes
    <3>3. brandEdit[1] = read
      BY <3>2
    <3>4. [read EXCEPT !.brand = brand] \in Extras
      BY DEF Extras
    <3> QED BY <3>1, <3>3, <3>4 DEF BrandWrite
  <2> QED BY <2>1, <2>2
<1>3. StockTypes'
  BY <1>1, <1>2 DEF StockInv, StockTypes
<1>4. ASSUME NEW j \in Stocker PROVE JobInv(stocker[j])'
  <2>1. JobInv(stocker[j]) /\ stocker'[j] = stocker[j] /\ fleet' = fleet
    BY <1>1 DEF StockInv
  <2> QED BY <2>1 DEF JobInv, Offering
<1> QED BY <1>3, <1>4 DEF StockInv

\* The inductive invariant of the jobs that place stock.
LEMMA StockInvariant == StockSpec => []StockInv
<1>1. StockInit => StockInv
  <2> SUFFICES ASSUME StockInit PROVE StockInv
    OBVIOUS
  <2>1. NoStocker \in Stockers
    <3>1. <<>> \in ReadExtras /\ <<>> \in Seq(WarehouseIds)
      BY DEF ReadExtras
    <3> QED BY <3>1, IdsAreNumbers DEF NoStocker, Stockers
  <2>2. JobInv(NoStocker)
    BY DEF NoStocker, JobInv
  <2>3. extra \in Extras
    <3>1. <<0, 0, 0>> \in [1..3 -> WarehouseIds]
      BY IdsAreNumbers
    <3> QED BY <3>1, IdsAreNumbers DEF StockInit, Extras
  <2> QED BY <2>1, <2>2, <2>3, StockAssumptions DEF StockInit, StockInv, StockTypes
<1>2. StockInv /\ [StockNext]_stockVars => StockInv'
  <2> SUFFICES ASSUME StockInv, [StockNext]_stockVars PROVE StockInv'
    OBVIOUS
  <2>1. CASE UNCHANGED stockVars
    BY <2>1 DEF stockVars, StockInv, StockTypes, JobInv, Offering
  <2>2. CASE \E j \in Stocker : \E box \in Boxes, listed \in {DOMAIN fleet, {}} : SetStocks(j, box, listed)
    BY <2>2, SetStocksStep
  <2>3. CASE \E j \in Stocker : \/ PutOk(j) \/ \E required : PutRestricted(j, required)
                               \/ \E busy \in BOOLEAN : PutFails(j, busy)
    BY <2>3, PutStep
  <2>4. CASE \E j \in Stocker : RememberWarehouse(j) \/ RememberWrites(j) \/ StockWarning(j)
    BY <2>4, RememberStep
  <2>5. CASE BrandRead \/ \E brand \in BOOLEAN : BrandWrite(brand)
    BY <2>5, BrandStep
  <2> QED BY <2>1, <2>2, <2>3, <2>4, <2>5 DEF StockNext
<1> QED BY <1>1, <1>2, PTL DEF StockSpec

\* The types of the jobs, the shop's extra and its warehouses.
THEOREM StockTypesCorrect == StockSpec => []StockTypeOK
<1>1. StockInv => StockTypeOK
  <2> SUFFICES ASSUME StockInv, NEW j \in Stocker
               PROVE  /\ StockTypes
                      /\ stocker[j].index \in 1..(Len(stocker[j].candidates) + 1)
                      /\ stocker[j] \in Stockers
    BY DEF StockTypeOK, StockTypes, StockInv, Stockers, ReadExtras
  <2>1. stocker[j] \in Stockers /\ JobInv(stocker[j]) /\ StockTypes
    BY DEF StockInv, StockTypes
  <2>2. Len(stocker[j].candidates) \in Nat
    BY <2>1 DEF Stockers
  <2>3. stocker[j].index \in 1..(Len(stocker[j].candidates) + 1)
    <3>1. 1..Len(stocker[j].candidates) \subseteq 1..(Len(stocker[j].candidates) + 1)
      BY <2>2
    <3>2. stocker[j].pc \in {"idle", "put", "remember", "write", "failed"}
      BY <2>1 DEF Stockers
    <3> QED BY <3>1, <3>2, <2>1 DEF JobInv, Offering
  <2> QED BY <2>1, <2>3
<1> QED BY <1>1, StockInvariant, PTL

\* A listing's stock fails only after every warehouse refused it, each once
\* (WbListingAdapter.setStocks).
THEOREM StockFindsWarehouse == StockSpec => []SyncFindsWarehouse
<1>1. StockInv => SyncFindsWarehouse
  <2> SUFFICES ASSUME StockInv, NEW j \in Stocker
               PROVE  /\ stocker[j].pc = "failed" => stocker[j].listed \subseteq stocker[j].tried
                      /\ stocker[j].pc = "put" => stocker[j].candidates[stocker[j].index] \notin stocker[j].tried
    BY DEF SyncFindsWarehouse
  <2> DEFINE job == stocker[j]
  <2>1. JobInv(job) /\ job \in Stockers
    BY DEF StockInv, StockTypes
  <2> HIDE DEF job
  <2>2. ASSUME job.pc = "put", job.candidates[job.index] \in job.tried PROVE FALSE
    <3>1. PICK i \in 1..(job.index - 1) : job.candidates[i] = job.candidates[job.index]
      BY <2>1, <2>2 DEF JobInv, Offering
    <3>2. i \in 1..Len(job.candidates) /\ i # job.index /\ job.index \in 1..Len(job.candidates)
      BY <2>1, <2>2, <3>1 DEF JobInv, Offering, Stockers
    <3> QED BY <2>1, <2>2, <3>1, <3>2 DEF JobInv, Offering
  <2> QED BY <2>1, <2>2 DEF JobInv, job
<1> QED BY <1>1, StockInvariant, PTL

-----------------------------------------------------------------------------
(* WbCatalog: calls that merge into one load, for any entries and calls.   *)

Ages == {"none", "old", "fresh"}
LoaderSteps == {"idle", "memory", "disk", "backfill", "waiting", "loading", "storing", "settling"}
Loaders == [pc : LoaderSteps, entry : Entry \cup {NoEntry}, second : BOOLEAN, read : Ages]

\* CatalogTypeOK without what it says of recent.
CatalogTypes ==
  /\ memory \in [Entry -> Ages] /\ disk \in [Entry -> Ages]
  /\ inflight \in [Entry -> Loader \cup {NoEntry}] /\ loader \in [Loader -> Loaders]
  /\ \A c \in Loader : loader[c].pc # "idle" => loader[c].entry \in Entry

\* The call whose turn it is to load, from its registration to its settling.
Owns(c) ==
  /\ loader[c].pc \in {"memory", "disk", "backfill", "loading", "storing", "settling"}
  /\ loader[c].second

\* Whoever owns a load is registered, nobody else is, and only an owner loads.
Registered ==
  /\ \A c \in Loader : Owns(c) => inflight[loader[c].entry] = c
  /\ \A e \in Entry : inflight[e] # NoEntry => Owns(inflight[e]) /\ loader[inflight[e]].entry = e
  /\ \A c \in Loader : loader[c].pc \in {"loading", "storing", "settling"} => loader[c].second

\* An owner past its second look at memory found nothing there, and what came
\* since came from a file.
SecondLook ==
  \A c \in Loader : Owns(c) /\ loader[c].pc \in {"disk", "backfill"} =>
    (memory[loader[c].entry] = "fresh" => loader[c].entry \in filled)

\* LoadedOnce speaks of one step: it needs that a registered call is the only one
\* to load (Registered), and that its second look still stands (SecondLook).
CatalogInv == CatalogTypes /\ Registered /\ SecondLook

-----------------------------------------------------------------------------
\* What the step after a read leaves of the call that read.
LEMMA ReadGoesOn ==
  ASSUME CatalogInv, NEW c \in Loader, NEW age \in Ages, AfterRead(c, age),
         loader[c].pc \in {"memory", "disk", "backfill"}
  PROVE  /\ loader' \in [Loader -> Loaders] /\ inflight' \in [Entry -> Loader \cup {NoEntry}]
         /\ \A d \in Loader \ {c} : loader'[d] = loader[d]
         /\ loader'[c].entry = loader[c].entry
         /\ \/ /\ loader'[c].second = loader[c].second /\ UNCHANGED inflight
               /\ \/ loader[c].second /\ loader'[c].pc = "settling" /\ age = "fresh"
                  \/ loader[c].second /\ loader'[c].pc = "loading" /\ age # "fresh"
                  \/ ~loader[c].second /\ loader'[c].pc \in {"idle", "waiting"}
            \/ /\ ~loader[c].second /\ loader'[c].second /\ loader'[c].pc = "memory"
               /\ inflight[loader[c].entry] = NoEntry
               /\ inflight' = [inflight EXCEPT ![loader[c].entry] = c]
BY DEF CatalogInv, CatalogTypes, Loaders, LoaderSteps, AfterRead, LoaderTo, Ages

LEMMA ReadRegisters ==
  ASSUME CatalogInv, NEW c \in Loader, NEW age \in Ages, AfterRead(c, age),
         loader[c].pc \in {"memory", "disk", "backfill"}
  PROVE  /\ Registered'
         /\ \A d \in Loader : loader'[d].pc # "idle" => loader'[d].entry \in Entry
         /\ \A d \in Loader : Owns(d)' /\ loader'[d].pc \in {"disk", "backfill"} =>
              d # c /\ Owns(d) /\ loader'[d] = loader[d]
<1> DEFINE e == loader[c].entry
<1>1. e \in Entry /\ NoEntry \notin Loader
  BY CatalogAssumptions DEF CatalogInv, CatalogTypes
<1> HIDE DEF e
<1>2. \A d \in Loader \ {c} : loader'[d] = loader[d] /\ (Owns(d)' <=> Owns(d))
  BY ReadGoesOn DEF Owns
<1>3. loader'[c].entry = e /\ (Owns(c)' <=> loader'[c].second)
  BY ReadGoesOn DEF e, Owns
<1>4. \A d \in Loader : loader'[d].entry = loader[d].entry /\ loader[d].entry \in Entry \cup {NoEntry}
  BY <1>1, <1>2, <1>3 DEF e, CatalogInv, CatalogTypes, Loaders
<1>5. \A d \in Loader : loader'[d].pc # "idle" => loader'[d].entry \in Entry
  BY <1>1, <1>2, <1>3, <1>4 DEF CatalogInv, CatalogTypes
<1>6. Registered'
  <2>1. CASE UNCHANGED inflight /\ loader'[c].second = loader[c].second
    BY <2>1, <1>1, <1>2, <1>3, <1>4, ReadGoesOn DEF CatalogInv, CatalogTypes, Registered, Owns, e
  <2>2. CASE /\ ~loader[c].second /\ loader'[c].second /\ loader'[c].pc = "memory"
             /\ inflight[e] = NoEntry /\ inflight' = [inflight EXCEPT ![e] = c]
    BY <2>2, <1>1, <1>2, <1>3, <1>4 DEF CatalogInv, CatalogTypes, Registered, Owns
  <2> QED BY <2>1, <2>2, ReadGoesOn DEF e
<1>7. loader'[c].pc \notin {"disk", "backfill"}
  BY ReadGoesOn
<1> QED BY <1>2, <1>5, <1>6, <1>7

\* What a write to memory changes: the entry written, and what it evicts.
LEMMA WrittenMemory ==
  ASSUME CatalogTypes, NEW e \in Entry, NEW age \in Ages, MemoryWrite(e, age)
  PROVE  /\ memory' \in [Entry -> Ages]
         /\ \A x \in Entry : memory'[x] = "fresh" => x = e \/ memory[x] = "fresh"
BY DEF CatalogTypes, MemoryWrite, Ages

-----------------------------------------------------------------------------
LEMMA CallStep ==
  ASSUME CatalogInv, NEW c \in Loader, NEW e \in Entry, LoadCatalogValue(c, e)
  PROVE  CatalogInv'
BY CatalogAssumptions
   DEF CatalogInv, CatalogTypes, Registered, SecondLook, Owns, Loaders, LoaderSteps, Ages, LoadCatalogValue, LoaderAt

LEMMA ReadMemoryStep ==
  ASSUME CatalogInv, NEW c \in Loader, ReadMemory(c)
  PROVE  CatalogInv'
<1> DEFINE e == loader[c].entry
<1>1. e \in Entry /\ memory[e] \in Ages /\ loader[c].pc = "memory"
  BY DEF CatalogInv, CatalogTypes, ReadMemory, LoaderAt
<1> HIDE DEF e
<1>2. UNCHANGED <<memory, disk, filled>>
  BY DEF ReadMemory
<1>3. CASE memory[e] = "none" /\ LoaderTo(c, "disk") /\ UNCHANGED inflight
  <2>1. loader' = [loader EXCEPT ![c].pc = "disk"]
    BY <1>3 DEF LoaderTo
  <2> QED BY <2>1, <1>1, <1>2, <1>3
          DEF CatalogInv, CatalogTypes, Registered, SecondLook, Owns, Loaders, LoaderSteps, e
<1>4. CASE AfterRead(c, memory[e])
  <2>1. CatalogTypes'
    BY <1>1, <1>2, <1>4, ReadGoesOn, ReadRegisters DEF CatalogInv, CatalogTypes
  <2>2. SecondLook'
    BY <1>1, <1>2, <1>4, ReadRegisters DEF CatalogInv, SecondLook
  <2> QED BY <2>1, <2>2, <1>1, <1>4, ReadRegisters DEF CatalogInv
<1> QED BY <1>3, <1>4 DEF ReadMemory, NextRead, e

LEMMA ReadDiskStep ==
  ASSUME CatalogInv, NEW c \in Loader, ReadDisk(c)
  PROVE  CatalogInv'
<1> DEFINE e == loader[c].entry
<1>1. e \in Entry /\ disk[e] \in Ages /\ loader[c].pc = "disk"
  BY DEF CatalogInv, CatalogTypes, ReadDisk, LoaderAt
<1>2. UNCHANGED <<memory, disk, filled>>
  BY DEF ReadDisk
<1>3. CASE loader' = [loader EXCEPT ![c].pc = "backfill", ![c].read = disk[e]] /\ UNCHANGED inflight
  <2>1. CatalogTypes'
    BY <1>1, <1>2, <1>3 DEF CatalogInv, CatalogTypes, Loaders, LoaderSteps
  <2>2. \A d \in Loader : /\ loader'[d].entry = loader[d].entry /\ loader'[d].second = loader[d].second
                          /\ (Owns(d)' <=> Owns(d)) /\ (d # c => loader'[d] = loader[d])
                          /\ loader'[d].pc \in {"loading", "storing", "settling"} => loader'[d] = loader[d]
    BY <1>1, <1>3 DEF CatalogInv, CatalogTypes, Loaders, Owns
  <2>3. Registered'
    BY <2>2, <1>3 DEF CatalogInv, CatalogTypes, Registered
  <2>4. SecondLook'
    BY <2>2, <1>1, <1>2 DEF CatalogInv, SecondLook
  <2> QED BY <2>1, <2>3, <2>4 DEF CatalogInv
<1>4. CASE AfterRead(c, "none")
  <2>0. "none" \in Ages
    BY DEF Ages
  <2>1. CatalogTypes'
    BY <1>1, <1>2, <1>4, <2>0, ReadGoesOn, ReadRegisters DEF CatalogInv, CatalogTypes
  <2>2. SecondLook'
    BY <1>1, <1>2, <1>4, <2>0, ReadRegisters DEF CatalogInv, SecondLook
  <2> QED BY <2>1, <2>2, <2>0, <1>1, <1>4, ReadRegisters DEF CatalogInv
<1> QED BY <1>3, <1>4 DEF ReadDisk, NextRead

LEMMA BackFillStep ==
  ASSUME CatalogInv, NEW c \in Loader, BackFill(c)
  PROVE  CatalogInv'
<1> DEFINE e == loader[c].entry
           age == loader[c].read
<1>1. e \in Entry /\ age \in Ages /\ loader[c].pc = "backfill"
  BY DEF CatalogInv, CatalogTypes, Loaders, BackFill, LoaderAt
<1>2. MemoryWrite(e, age) /\ AfterRead(c, age) /\ filled' = filled \cup {e} /\ UNCHANGED disk
  BY DEF BackFill, NextRead
<1> HIDE DEF e, age
<1>3. memory' \in [Entry -> Ages] /\ \A x \in Entry : memory'[x] = "fresh" => x = e \/ memory[x] = "fresh"
  BY <1>1, <1>2, WrittenMemory DEF CatalogInv
<1>4. CatalogTypes'
  BY <1>1, <1>2, <1>3, ReadGoesOn, ReadRegisters DEF CatalogInv, CatalogTypes
<1>5. SecondLook'
  <2> SUFFICES ASSUME NEW d \in Loader, Owns(d)', loader'[d].pc \in {"disk", "backfill"},
                      memory'[loader'[d].entry] = "fresh"
               PROVE  loader'[d].entry \in filled'
    BY DEF SecondLook
  <2>1. Owns(d) /\ loader'[d] = loader[d] /\ loader[d].entry \in Entry
    BY <1>1, <1>2, ReadRegisters DEF CatalogInv, CatalogTypes
  <2> QED BY <2>1, <1>2, <1>3 DEF CatalogInv, SecondLook
<1> QED BY <1>1, <1>2, <1>4, <1>5, ReadRegisters DEF CatalogInv

LEMMA LoadOkStep ==
  ASSUME CatalogInv, NEW c \in Loader, LoadOk(c)
  PROVE  CatalogInv'
<1> DEFINE e == loader[c].entry
<1>1. e \in Entry /\ loader[c].pc = "loading" /\ Owns(c)
  BY DEF CatalogInv, CatalogTypes, Registered, Owns, LoadOk, LoaderAt
<1>2. MemoryWrite(e, "fresh") /\ loader' = [loader EXCEPT ![c].pc = "storing"]
      /\ filled' = filled \ {e} /\ UNCHANGED <<disk, inflight>>
  BY DEF LoadOk, LoaderTo
<1> HIDE DEF e
<1>3. memory' \in [Entry -> Ages] /\ \A x \in Entry : memory'[x] = "fresh" => x = e \/ memory[x] = "fresh"
  BY <1>1, <1>2, WrittenMemory DEF CatalogInv, Ages
<1>4. CatalogTypes'
  BY <1>1, <1>2, <1>3 DEF CatalogInv, CatalogTypes, Loaders, LoaderSteps
<1>5. \A d \in Loader : loader'[d].entry = loader[d].entry /\ loader'[d].second = loader[d].second
                        /\ (Owns(d)' <=> Owns(d)) /\ (d # c => loader'[d] = loader[d])
  BY <1>1, <1>2 DEF Owns, CatalogInv, CatalogTypes, Loaders
<1>6. Registered'
  BY <1>1, <1>2, <1>5 DEF CatalogInv, CatalogTypes, Registered
<1>7. SecondLook'
  <2> SUFFICES ASSUME NEW d \in Loader, Owns(d)', loader'[d].pc \in {"disk", "backfill"},
                      memory'[loader'[d].entry] = "fresh"
               PROVE  loader'[d].entry \in filled'
    BY DEF SecondLook
  <2>1. d # c
    BY <1>1, <1>2 DEF CatalogInv, CatalogTypes, Loaders
  <2>2. Owns(d) /\ loader'[d] = loader[d] /\ loader[d].entry \in Entry
    BY <2>1, <1>5 DEF CatalogInv, CatalogTypes, Owns
  <2>3. loader[d].entry # e
    BY <2>1, <2>2, <1>1 DEF CatalogInv, Registered, e
  <2> QED BY <2>2, <2>3, <1>2, <1>3 DEF CatalogInv, SecondLook
<1> QED BY <1>4, <1>6, <1>7 DEF CatalogInv

LEMMA StoreStep ==
  ASSUME CatalogInv, NEW c \in Loader, NEW written \in BOOLEAN, Store(c, written)
  PROVE  CatalogInv'
BY DEF CatalogInv, CatalogTypes, Registered, SecondLook, Owns, Loaders, LoaderSteps, Ages, Store, LoaderAt, LoaderTo

LEMMA SettleStep ==
  ASSUME CatalogInv, NEW c \in Loader, Settle(c)
  PROVE  CatalogInv'
<1> DEFINE e == loader[c].entry
<1>1. e \in Entry /\ Owns(c) /\ inflight[e] = c /\ NoEntry \notin Loader
  BY CatalogAssumptions DEF CatalogInv, CatalogTypes, Registered, Owns, Settle, LoaderAt
<1>2. /\ inflight' = [inflight EXCEPT ![e] = NoEntry] /\ UNCHANGED <<memory, disk, filled>>
      /\ loader' = [d \in Loader |->
           IF d = c \/ (loader[d].pc = "waiting" /\ loader[d].entry = e)
           THEN [loader[d] EXCEPT !.pc = "idle"] ELSE loader[d]]
  BY DEF Settle, LoaderAt
<1> HIDE DEF e
<1>3. CatalogTypes'
  BY <1>1, <1>2 DEF CatalogInv, CatalogTypes, Loaders, LoaderSteps
<1>4. \A d \in Loader : loader'[d].entry = loader[d].entry /\ (Owns(d)' <=> Owns(d) /\ d # c)
                        /\ (loader'[d].pc # "idle" => loader'[d] = loader[d])
  BY <1>2 DEF Owns, CatalogInv, CatalogTypes, Loaders
<1>5. \A d \in Loader : Owns(d) /\ d # c => loader[d].entry # e /\ loader'[d] = loader[d]
  BY <1>1, <1>2 DEF Owns, CatalogInv, Registered
<1>6. Registered'
  <2>1. \A d \in Loader : Owns(d)' => inflight'[loader'[d].entry] = d
    BY <1>1, <1>2, <1>4, <1>5 DEF CatalogInv, CatalogTypes, Registered, Owns
  <2>2. \A x \in Entry : inflight'[x] # NoEntry =>
          Owns(inflight[x])' /\ loader'[inflight'[x]].entry = x
    <3> SUFFICES ASSUME NEW x \in Entry, inflight'[x] # NoEntry
                 PROVE  Owns(inflight[x])' /\ loader'[inflight'[x]].entry = x
      OBVIOUS
    <3>1. x # e /\ inflight'[x] = inflight[x] /\ inflight[x] \in Loader
      BY <1>1, <1>2 DEF CatalogInv, CatalogTypes
    <3>2. Owns(inflight[x]) /\ loader[inflight[x]].entry = x
      BY <3>1 DEF CatalogInv, Registered
    <3>3. inflight[x] # c
      BY <3>1, <3>2 DEF e
    <3>4. loader'[inflight[x]] = loader[inflight[x]]
      BY <3>1, <3>2, <3>3, <1>5
    <3> QED BY <3>1, <3>2, <3>4 DEF Owns
  <2>3. \A d \in Loader : loader'[d].pc \in {"loading", "storing", "settling"} => loader'[d].second
    BY <1>4 DEF CatalogInv, Registered
  <2> QED BY <2>1, <2>2, <2>3 DEF Registered
<1>7. SecondLook'
  BY <1>2, <1>4, <1>5 DEF CatalogInv, SecondLook, Owns
<1> QED BY <1>3, <1>6, <1>7 DEF CatalogInv

LEMMA ElsewhereStep ==
  ASSUME CatalogInv, NEW e \in Entry, OtherProcess(e) \/ SweepRead(e) \/ SweepUnlink(e)
  PROVE  CatalogInv'
<1>1. UNCHANGED <<memory, inflight, loader, filled>> /\ disk' \in [Entry -> Ages]
  BY DEF OtherProcess, SweepRead, SweepUnlink, CatalogInv, CatalogTypes, Ages
<1> QED BY <1>1 DEF CatalogInv, CatalogTypes, Registered, SecondLook, Owns

LEMMA ExpireStep ==
  ASSUME CatalogInv, NEW e \in Entry, Expire(e)
  PROVE  CatalogInv'
<1>1. UNCHANGED <<inflight, filled>> /\ memory' \in [Entry -> Ages] /\ disk' \in [Entry -> Ages]
  BY DEF Expire, CatalogInv, CatalogTypes, Ages
<1>2. \A x \in Entry : memory'[x] = "fresh" => memory[x] = "fresh"
  BY DEF Expire, CatalogInv, CatalogTypes
<1>3. loader' \in [Loader -> Loaders]
  BY DEF Expire, CatalogInv, CatalogTypes, Loaders, Ages
<1>4. \A d \in Loader : /\ loader'[d].pc = loader[d].pc /\ loader'[d].entry = loader[d].entry
                        /\ loader'[d].second = loader[d].second
  BY DEF Expire, CatalogInv, CatalogTypes, Loaders
<1> QED BY <1>1, <1>2, <1>3, <1>4 DEF CatalogInv, CatalogTypes, Registered, SecondLook, Owns

\* The inductive invariant of the catalogue's loads.
LEMMA CatalogInvariant == CatalogSpec => []CatalogInv
<1>1. CatalogInit => CatalogInv
  BY CatalogAssumptions
     DEF CatalogInit, CatalogInv, CatalogTypes, Registered, SecondLook, Owns, Loaders, LoaderSteps, Ages
<1>2. CatalogInv /\ [CatalogNext]_catalogVars => CatalogInv'
  <2> SUFFICES ASSUME CatalogInv, [CatalogNext]_catalogVars PROVE CatalogInv'
    OBVIOUS
  <2>1. CASE UNCHANGED catalogVars
    BY <2>1 DEF catalogVars, CatalogInv, CatalogTypes, Registered, SecondLook, Owns
  <2>2. CASE \E c \in Loader : \E e \in Entry : LoadCatalogValue(c, e)
    BY <2>2, CallStep
  <2>3. CASE \E c \in Loader : ReadMemory(c) \/ ReadDisk(c) \/ BackFill(c)
    BY <2>3, ReadMemoryStep, ReadDiskStep, BackFillStep
  <2>4. CASE \E c \in Loader : LoadOk(c) \/ Settle(c) \/ \E written \in BOOLEAN : Store(c, written)
    BY <2>4, LoadOkStep, SettleStep, StoreStep
  <2>5. CASE \E e \in Entry : Expire(e) \/ OtherProcess(e) \/ SweepRead(e) \/ SweepUnlink(e)
    BY <2>5, ExpireStep, ElsewhereStep
  <2> QED BY <2>1, <2>2, <2>3, <2>4, <2>5 DEF CatalogNext
<1> QED BY <1>1, <1>2, PTL DEF CatalogSpec

\* What memory's two parts say: the order of use lists what memory holds, each entry
\* once, and is no longer than it may be but for what is pinned.
MemoryInv ==
  /\ recent \in Seq(Entry) /\ IsInjective(recent)
  /\ ToSet(recent) = {x \in Entry : memory[x] # "none"}
  /\ Len(recent) <= MaxEntries \/ ToSet(recent) \subseteq Pinned
  /\ \A c \in Loader : loader[c].pc = "backfill" => loader[c].read # "none"
  /\ doomed \cup filled \subseteq Entry /\ loads \in 0..MaxLoads

\* What is used moves to the end of the order.
LEMMA UsedLast ==
  ASSUME NEW s \in Seq(Entry), IsInjective(s), NEW e \in Entry
  PROVE  LET t == Append(Without(s, e), e) IN
         t \in Seq(Entry) /\ IsInjective(t) /\ ToSet(t) = ToSet(s) \cup {e}
<1> DEFINE P == {i \in DOMAIN s : s[i] # e}
           w == Without(s, e)
           t == Append(w, e)
<1>1. w \in Seq(Entry) /\ IsInjective(w) /\ ToSet(w) = {s[i] : i \in P}
  BY SublistKeeps DEF Without
<1>2. ToSet(w) = ToSet(s) \ {e}
  BY <1>1 DEF ToSet
<1> HIDE DEF w
<1>3. /\ t \in Seq(Entry) /\ Len(w) \in Nat /\ Len(t) = Len(w) + 1 /\ t[Len(w) + 1] = e
      /\ DOMAIN w = 1..Len(w) /\ DOMAIN t = 1..(Len(w) + 1) /\ \A i \in 1..Len(w) : t[i] = w[i]
  BY <1>1
<1> HIDE DEF t
<1>4. \A i \in 1..Len(w) : t[i] \in ToSet(w) /\ t[i] # e
  BY <1>2, <1>3 DEF ToSet
<1>5. IsInjective(t)
  <2> SUFFICES ASSUME NEW i \in 1..(Len(w) + 1), NEW k \in 1..(Len(w) + 1), t[i] = t[k] PROVE i = k
    BY <1>3 DEF IsInjective
  <2>1. CASE i \in 1..Len(w) /\ k \in 1..Len(w)
    BY <1>1, <1>3, <2>1 DEF IsInjective
  <2>2. CASE i = Len(w) + 1 \/ k = Len(w) + 1
    BY <1>3, <1>4, <2>2
  <2> QED BY <1>3, <2>1, <2>2
<1>6. ToSet(t) = ToSet(w) \cup {e}
  <2>1. ToSet(t) \subseteq ToSet(w) \cup {e}
    BY <1>3, <1>4 DEF ToSet
  <2>2. ToSet(w) \cup {e} \subseteq ToSet(t)
    BY <1>3 DEF ToSet
  <2> QED BY <2>1, <2>2
<1> QED BY <1>2, <1>3, <1>5, <1>6 DEF t, w

\* A write evicts from the least recently used on until memory fits, or until only
\* what is pinned is left.
LEMMA EvictedFits ==
  ASSUME NEW s \in Seq(Entry), IsInjective(s)
  PROVE  LET kept == Sublist(s, {i \in DOMAIN s : s[i] \notin Evicted(s)}) IN
         /\ kept \in Seq(Entry) /\ IsInjective(kept) /\ ToSet(kept) = ToSet(s) \ Evicted(s)
         /\ Len(kept) <= MaxEntries \/ ToSet(kept) \subseteq Pinned
<1> DEFINE over == IF Len(s) > MaxEntries THEN Len(s) - MaxEntries ELSE 0
           loose == Sublist(s, {i \in DOMAIN s : s[i] \notin Pinned})
           n == IF over < Len(loose) THEN over ELSE Len(loose)
           cut == SubSeq(loose, 1, n)
           gone == Evicted(s)
           kept == Sublist(s, {i \in DOMAIN s : s[i] \notin gone})
<1>1. loose \in Seq(Entry) /\ IsInjective(loose) /\ ToSet(loose) = ToSet(s) \ Pinned
  <2>1. {i \in DOMAIN s : s[i] \notin Pinned} \in SUBSET (DOMAIN s)
    OBVIOUS
  <2>2. /\ loose \in Seq(Entry) /\ IsInjective(loose)
        /\ ToSet(loose) = {s[i] : i \in {k \in DOMAIN s : s[k] \notin Pinned}}
    BY <2>1, SublistKeeps
  <2> QED BY <2>2 DEF ToSet
<1>2. kept \in Seq(Entry) /\ IsInjective(kept) /\ ToSet(kept) = ToSet(s) \ gone
  <2> HIDE DEF gone
  <2>1. {i \in DOMAIN s : s[i] \notin gone} \in SUBSET (DOMAIN s)
    OBVIOUS
  <2>2. kept \in Seq(Entry) /\ IsInjective(kept) /\ ToSet(kept) = {s[i] : i \in {k \in DOMAIN s : s[k] \notin gone}}
    BY <2>1, SublistKeeps
  <2> QED BY <2>2 DEF ToSet
<1>3. gone = ToSet(cut)
  BY DEF Evicted
<1>4. MaxEntries \in Nat /\ Len(s) \in Nat
  BY CatalogAssumptions
<1>5. over \in Nat /\ Len(s) - over <= MaxEntries
  BY <1>4
<1> HIDE DEF over, loose, gone, kept
<1>6. n \in Nat /\ n <= Len(loose) /\ Len(loose) \in Nat
  BY <1>1, <1>5
<1>7. /\ cut \in Seq(Entry) /\ Len(cut) = n /\ DOMAIN loose = 1..Len(loose) /\ DOMAIN cut = 1..n
      /\ \A i \in 1..n : cut[i] = loose[i]
  BY <1>1, <1>6
<1> HIDE DEF n, cut
<1>8. IsInjective(cut) /\ ToSet(cut) \subseteq ToSet(s)
  <2>1. ASSUME NEW i \in 1..n, NEW k \in 1..n, cut[i] = cut[k] PROVE i = k
    <3>1. i \in 1..Len(loose) /\ k \in 1..Len(loose) /\ loose[i] = loose[k]
      BY <1>6, <1>7, <2>1
    <3> QED BY <1>1, <1>7, <3>1 DEF IsInjective
  <2>2. ASSUME NEW i \in 1..n PROVE cut[i] \in ToSet(s)
    <3>1. i \in DOMAIN loose /\ cut[i] = loose[i]
      BY <1>6, <1>7
    <3>2. cut[i] \in ToSet(loose)
      BY <3>1 DEF ToSet
    <3> QED BY <1>1, <3>2
  <2>3. IsInjective(cut)
    BY <1>7, <2>1 DEF IsInjective
  <2>4. ToSet(cut) \subseteq ToSet(s)
    BY <1>7, <2>2 DEF ToSet
  <2> QED BY <2>3, <2>4
<1>9. CASE n = over
  <2>1. Cardinality(gone) = over /\ IsFiniteSet(gone)
    BY <1>3, <1>7, <1>8, <1>9, DistinctCount
  <2>2. Cardinality(ToSet(s)) = Len(s) /\ IsFiniteSet(ToSet(s))
    BY DistinctCount
  <2>3. Cardinality(ToSet(kept)) = Len(kept) /\ IsFiniteSet(ToSet(kept))
    BY <1>2, DistinctCount
  <2>4. Cardinality(ToSet(kept) \cup gone) = Cardinality(ToSet(kept)) + Cardinality(gone) - Cardinality(ToSet(kept) \cap gone)
    BY <2>1, <2>3, FS_Union
  <2>5. ToSet(kept) \cup gone = ToSet(s) /\ ToSet(kept) \cap gone = {}
    BY <1>2, <1>3, <1>8
  <2>6. Len(s) = Len(kept) + over /\ Len(kept) \in Nat
    <3>1. Cardinality(ToSet(kept) \cap gone) = 0
      BY <2>5, FS_EmptySet
    <3>2. Len(kept) \in Nat
      BY <1>2
    <3>3. Len(s) = Len(kept) + over - 0
      BY <2>1, <2>2, <2>3, <2>4, <2>5, <3>1
    <3> QED BY <1>5, <3>2, <3>3
  <2> QED BY <1>2, <1>4, <1>5, <2>6 DEF gone, kept
<1>10. CASE n = Len(loose)
  <2>1. ToSet(cut) = ToSet(loose)
    BY <1>7, <1>10 DEF ToSet
  <2> QED BY <1>1, <1>2, <1>3, <2>1 DEF gone, kept
<1> QED BY <1>9, <1>10 DEF n

\* A write keeps memory's two parts together and within their bound.
LEMMA MemoryFits ==
  ASSUME CatalogTypes, MemoryInv, NEW e \in Entry, NEW age \in Ages \ {"none"}, MemoryWrite(e, age)
  PROVE  /\ recent' \in Seq(Entry) /\ IsInjective(recent')
         /\ ToSet(recent') = {x \in Entry : memory'[x] # "none"}
         /\ Len(recent') <= MaxEntries \/ ToSet(recent') \subseteq Pinned
<1> DEFINE written == Append(Without(recent, e), e)
           gone == Evicted(written)
<1>1. written \in Seq(Entry) /\ IsInjective(written) /\ ToSet(written) = ToSet(recent) \cup {e}
  BY UsedLast DEF MemoryInv
<1>2. /\ recent' = Sublist(written, {i \in DOMAIN written : written[i] \notin gone})
      /\ memory' = [x \in Entry |-> IF x \in gone THEN "none" ELSE IF x = e THEN age ELSE memory[x]]
  BY DEF MemoryWrite
<1> HIDE DEF written
<1>3. /\ recent' \in Seq(Entry) /\ IsInjective(recent') /\ ToSet(recent') = ToSet(written) \ gone
      /\ Len(recent') <= MaxEntries \/ ToSet(recent') \subseteq Pinned
  BY <1>1, <1>2, EvictedFits
<1> HIDE DEF gone
<1>4. {x \in Entry : memory'[x] # "none"} = ({x \in Entry : memory[x] # "none"} \cup {e}) \ gone
  BY <1>2
<1> QED BY <1>1, <1>3, <1>4 DEF MemoryInv

LEMMA MemoryStep == CatalogInv /\ MemoryInv /\ [CatalogNext]_catalogVars => MemoryInv'
<1> SUFFICES ASSUME CatalogInv, MemoryInv, [CatalogNext]_catalogVars PROVE MemoryInv'
  OBVIOUS
<1>0. /\ memory \in [Entry -> Ages] /\ loader \in [Loader -> Loaders] /\ MaxLoads \in Nat
      /\ \A c \in Loader : loader[c].pc # "idle" => loader[c].entry \in Entry
  BY CatalogAssumptions DEF CatalogInv, CatalogTypes
<1>1. ASSUME NEW c \in Loader, NEW age \in Ages, AfterRead(c, age), loader[c].pc \in {"memory", "disk", "backfill"}
      PROVE  \A d \in Loader : loader'[d].pc = "backfill" => loader'[d].read # "none"
  <2>1. (\A d \in Loader \ {c} : loader'[d] = loader[d]) /\ loader'[c].pc # "backfill"
    BY <1>1, ReadGoesOn
  <2> QED BY <2>1 DEF MemoryInv
<1>2. ASSUME NEW c \in Loader, NEW e \in Entry, LoadCatalogValue(c, e) PROVE MemoryInv'
  <2>1. UNCHANGED <<recent, memory, doomed, filled>> /\ loads' \in 0..MaxLoads
        /\ loader' = [loader EXCEPT ![c] = [pc |-> "memory", entry |-> e, second |-> FALSE, read |-> "none"]]
    BY <1>0, <1>2 DEF LoadCatalogValue, MemoryInv
  <2>2. \A d \in Loader : loader'[d].pc = "backfill" => loader'[d].read # "none"
    BY <1>0, <2>1 DEF MemoryInv
  <2> QED BY <2>1, <2>2 DEF MemoryInv
<1>3. ASSUME NEW c \in Loader, ReadMemory(c) PROVE MemoryInv'
  <2> DEFINE e == loader[c].entry
  <2>1. e \in Entry /\ memory[e] \in Ages /\ loader[c].pc = "memory" /\ UNCHANGED <<memory, doomed, loads, filled>>
    BY <1>0, <1>3 DEF ReadMemory, LoaderAt
  <2> HIDE DEF e
  <2>2. CASE memory[e] = "none" /\ loader' = [loader EXCEPT ![c].pc = "disk"] /\ UNCHANGED recent
    <3>1. \A d \in Loader : loader'[d].pc = "backfill" => loader'[d].read # "none"
      BY <1>0, <2>2 DEF MemoryInv, Loaders
    <3> QED BY <2>1, <2>2, <3>1 DEF MemoryInv
  <2>3. CASE memory[e] # "none" /\ recent' = Append(Without(recent, e), e) /\ AfterRead(c, memory[e])
    <3>1. recent' \in Seq(Entry) /\ IsInjective(recent') /\ ToSet(recent') = ToSet(recent) \cup {e}
      BY <2>1, <2>3, UsedLast DEF MemoryInv
    <3>2. ToSet(recent') = ToSet(recent)
      BY <2>1, <2>3, <3>1 DEF MemoryInv
    <3>3. Len(recent') = Len(recent)
      BY <3>1, <3>2, DistinctCount DEF MemoryInv
    <3>4. \A d \in Loader : loader'[d].pc = "backfill" => loader'[d].read # "none"
      BY <1>1, <2>1, <2>3
    <3> QED BY <2>1, <3>1, <3>2, <3>3, <3>4 DEF MemoryInv
  <2> QED BY <1>3, <2>2, <2>3 DEF ReadMemory, NextRead, LoaderTo, e
<1>4. ASSUME NEW c \in Loader, ReadDisk(c) PROVE MemoryInv'
  <2>1. loader[c].pc = "disk" /\ "none" \in Ages /\ UNCHANGED <<recent, memory, doomed, loads, filled>>
    BY <1>4 DEF ReadDisk, LoaderAt, Ages
  <2>2. \A d \in Loader : loader'[d].pc = "backfill" => loader'[d].read # "none"
    <3>1. CASE AfterRead(c, "none")
      BY <1>1, <2>1, <3>1
    <3>2. CASE /\ disk[loader[c].entry] # "none"
               /\ loader' = [loader EXCEPT ![c].pc = "backfill", ![c].read = disk[loader[c].entry]]
      BY <1>0, <3>2 DEF MemoryInv, Loaders
    <3> QED BY <1>4, <3>1, <3>2 DEF ReadDisk, NextRead
  <2> QED BY <2>1, <2>2 DEF MemoryInv
<1>5. ASSUME NEW c \in Loader, BackFill(c) PROVE MemoryInv'
  <2>1. /\ loader[c].entry \in Entry /\ loader[c].read \in Ages \ {"none"} /\ loader[c].pc = "backfill"
        /\ MemoryWrite(loader[c].entry, loader[c].read) /\ AfterRead(c, loader[c].read)
        /\ filled' = filled \cup {loader[c].entry} /\ UNCHANGED <<doomed, loads>>
    BY <1>0, <1>5 DEF BackFill, LoaderAt, NextRead, MemoryInv, Loaders
  <2>2. \A d \in Loader : loader'[d].pc = "backfill" => loader'[d].read # "none"
    BY <1>1, <2>1
  <2> QED BY <2>1, <2>2, MemoryFits DEF MemoryInv, CatalogInv
<1>6. ASSUME NEW c \in Loader, LoadOk(c) PROVE MemoryInv'
  <2>1. /\ loader[c].entry \in Entry /\ MemoryWrite(loader[c].entry, "fresh") /\ "fresh" \in Ages \ {"none"}
        /\ loader' = [loader EXCEPT ![c].pc = "storing"]
        /\ filled' = filled \ {loader[c].entry} /\ UNCHANGED <<doomed, loads>>
    BY <1>0, <1>6 DEF LoadOk, LoaderAt, LoaderTo, Ages
  <2>2. \A d \in Loader : loader'[d].pc = "backfill" => loader'[d].read # "none"
    BY <1>0, <2>1 DEF MemoryInv, Loaders
  <2> QED BY <2>1, <2>2, MemoryFits DEF MemoryInv, CatalogInv
<1>7. ASSUME NEW c \in Loader, Settle(c) \/ \E written \in BOOLEAN : Store(c, written) PROVE MemoryInv'
  <2>1. UNCHANGED <<recent, memory, doomed, loads, filled>>
    BY <1>7 DEF Settle, Store
  <2>2. \A d \in Loader : loader'[d].pc = "backfill" => loader'[d].read # "none"
    BY <1>0, <1>7 DEF Settle, Store, LoaderAt, LoaderTo, MemoryInv, Loaders
  <2> QED BY <2>1, <2>2 DEF MemoryInv
<1>8. ASSUME NEW e \in Entry, Expire(e) PROVE MemoryInv'
  <2>1. UNCHANGED <<recent, doomed, filled>> /\ loads' \in 0..MaxLoads
    BY <1>0, <1>8 DEF Expire, MemoryInv
  <2>2. \A x \in Entry : memory'[x] # "none" <=> memory[x] # "none"
    BY <1>0, <1>8 DEF Expire
  <2>3. \A d \in Loader : loader'[d].pc = "backfill" => loader'[d].read # "none"
    BY <1>0, <1>8 DEF Expire, MemoryInv, Loaders
  <2> QED BY <2>1, <2>2, <2>3 DEF MemoryInv
<1>9. ASSUME NEW e \in Entry, OtherProcess(e) \/ SweepRead(e) \/ SweepUnlink(e) PROVE MemoryInv'
  <2>1. UNCHANGED <<recent, memory, loader, filled>> /\ doomed' \subseteq Entry /\ loads' \in 0..MaxLoads
    BY <1>0, <1>9 DEF OtherProcess, SweepRead, SweepUnlink, MemoryInv
  <2> QED BY <2>1 DEF MemoryInv
<1>10. CASE UNCHANGED catalogVars
  BY <1>10 DEF catalogVars, MemoryInv
<1> QED BY <1>2, <1>3, <1>4, <1>5, <1>6, <1>7, <1>8, <1>9, <1>10 DEF CatalogNext

\* Memory holds what its order of use lists, each entry once, and never more than it
\* may but for what is pinned, for any entries, calls and bound (MemoryWbCatalogStore).
THEOREM MemoryKeepsBound == CatalogSpec => []CatalogTypeOK
<1>1. CatalogInit => MemoryInv
  <2> SUFFICES ASSUME CatalogInit PROVE MemoryInv
    OBVIOUS
  <2>1. recent \in Seq(Entry) /\ Len(recent) = 0 /\ DOMAIN recent = {} /\ MaxEntries \in Nat /\ MaxLoads \in Nat
    BY CatalogAssumptions DEF CatalogInit
  <2> QED BY <2>1 DEF CatalogInit, MemoryInv, ToSet, IsInjective
<1>2. CatalogInv /\ MemoryInv => CatalogTypeOK
  BY DEF CatalogInv, CatalogTypes, MemoryInv, CatalogTypeOK, Ages, Loaders, LoaderSteps
<1> QED BY <1>1, <1>2, MemoryStep, CatalogInvariant, PTL DEF CatalogSpec

\* Only the owner of a load begins it, alone, and not for what a load just brought.
LEMMA LoadBegins ==
  ASSUME CatalogInv, [CatalogNext]_catalogVars, NEW c \in Loader,
         ~LoaderAt(c, "loading"), loader'[c].pc = "loading"
  PROVE  LET e == loader[c].entry IN
         /\ Loading(e) = {} /\ inflight'[e] = c /\ (memory[e] = "fresh" => e \in filled)
<1> DEFINE e == loader[c].entry
<1>1. PICK age \in Ages :
        /\ AfterRead(c, age) /\ loader[c].pc \in {"memory", "disk", "backfill"}
        /\ loader[c].pc = "memory" => age = memory[e]
  <2>1. ~UNCHANGED catalogVars
    BY DEF catalogVars, LoaderAt
  <2>2. CatalogTypes
    BY DEF CatalogInv
  <2>3. ASSUME NEW d \in Loader, NEW x \in Entry, LoadCatalogValue(d, x) PROVE FALSE
    BY <2>2, <2>3 DEF LoadCatalogValue, LoaderAt, CatalogTypes, Loaders
  <2>4. ASSUME NEW d \in Loader, NEW written \in BOOLEAN, LoadOk(d) \/ Settle(d) \/ Store(d, written) PROVE FALSE
    BY <2>2, <2>4 DEF LoadOk, Settle, Store, LoaderAt, LoaderTo, CatalogTypes, Loaders
  <2>5. ASSUME NEW x \in Entry, Expire(x) \/ OtherProcess(x) \/ SweepRead(x) \/ SweepUnlink(x) PROVE FALSE
    BY <2>2, <2>5 DEF Expire, OtherProcess, SweepRead, SweepUnlink, LoaderAt, CatalogTypes, Loaders
  <2>6. PICK d \in Loader : ReadMemory(d) \/ ReadDisk(d) \/ BackFill(d)
    BY <2>1, <2>3, <2>4, <2>5 DEF CatalogNext
  <2>7. PICK age \in Ages :
          /\ AfterRead(d, age) /\ loader[d].pc \in {"memory", "disk", "backfill"}
          /\ loader[d].pc = "memory" => age = memory[loader[d].entry]
    <3>1. CASE ReadMemory(d)
      <4>1. ~LoaderTo(d, "disk")
        BY <2>2 DEF LoaderTo, LoaderAt, CatalogTypes, Loaders
      <4>2. loader[d].pc = "memory" /\ loader[d].entry \in Entry
        BY <2>2, <3>1 DEF ReadMemory, LoaderAt, CatalogTypes
      <4> QED BY <4>1, <4>2, <3>1, <2>2 DEF ReadMemory, NextRead, CatalogTypes
    <3>2. CASE ReadDisk(d)
      <4>1. loader' # [loader EXCEPT ![d].pc = "backfill", ![d].read = disk[loader[d].entry]]
        BY <2>2 DEF LoaderAt, CatalogTypes, Loaders
      <4> QED BY <4>1, <3>2 DEF ReadDisk, NextRead, LoaderAt, Ages
    <3>3. CASE BackFill(d)
      BY <2>2, <3>3 DEF BackFill, NextRead, LoaderAt, CatalogTypes, Loaders
    <3> QED BY <2>6, <3>1, <3>2, <3>3
  <2>8. d = c
    BY <2>7, ReadGoesOn DEF LoaderAt
  <2> QED BY <2>7, <2>8
<1>2. Owns(c) /\ age # "fresh" /\ UNCHANGED inflight
  BY <1>1, ReadGoesOn DEF Owns
<1>3. inflight[e] = c
  BY <1>2 DEF CatalogInv, Registered
<1>4. Loading(e) = {}
  BY <1>1, <1>3 DEF Loading, CatalogInv, Registered, Owns
<1>5. memory[e] = "fresh" => e \in filled
  BY <1>1, <1>2 DEF CatalogInv, SecondLook
<1> QED BY <1>2, <1>3, <1>4, <1>5

\* Concurrent misses call upstream once, and a call does not load what a load
\* before it brought (loadCatalogValue).
THEOREM MissesLoadOnce == CatalogSpec => LoadedOnce
<1>1. CatalogInv /\ [CatalogNext]_catalogVars =>
        [\A c \in Loader : (~LoaderAt(c, "loading") /\ loader'[c].pc = "loading") =>
           LET e == loader[c].entry IN
           /\ Loading(e) = {} /\ inflight'[e] = c
           /\ memory[e] = "fresh" => e \in filled]_catalogVars
  BY LoadBegins
<1> QED BY <1>1, CatalogInvariant, PTL DEF CatalogSpec, LoadedOnce

-----------------------------------------------------------------------------
(* WbPhotos, for any albums.                                               *)

\* GalleryInOrder is inductive once it is known that a listing uploads no more
\* than it has.
GalleryInv ==
  /\ PhotoTypeOK /\ GalleryInOrder
  /\ mediaStage = "upload" => at <= Len(valid) + 1

\* Photographs are numbers, and no slot that has one is empty.
LEMMA PhotoNumbers == Photo \subseteq Nat \ {0} /\ MaxPhotos \in Nat \ {0} /\ MaxUploads \in Nat \ {0} /\ MaxMediaRuns \in Nat
<1>1. ASSUME NEW a \in Albums, NEW l \in Range(a.main \o a.images \o a.options) PROVE l.photo \in Nat \ {0}
  <2>1. a.main \in Seq(Links) /\ a.images \in Seq(Links) /\ a.options \in Seq(Links)
    BY PhotoAssumption
  <2> DEFINE all == a.main \o a.images \o a.options
  <2>2. all \in Seq(Links) /\ l \in Range(all)
    BY <2>1
  <2> HIDE DEF all
  <2>3. l \in Links
    BY <2>2 DEF Range
  <2> QED BY <2>3 DEF Links
<1>2. {MaxPhotos, MaxUploads, MaxMediaRuns} \subseteq Nat \ {0}
  BY PhotoAssumption
<1> QED BY <1>1, <1>2 DEF Photo

\* What a listing is to upload: photographs of the product, each once.
LEMMA AlbumPhotos ==
  ASSUME NEW album \in Albums
  PROVE  LET photos == FirstOf(CollectImageUrls(album)) IN
         photos \in Seq(Photo) /\ Len(photos) <= MaxPhotos /\ IsInjective(photos)
<1> DEFINE links == DraftImageUrls(album)
           P == {i \in DOMAIN links : links[i].https}
           web == WebLinks(links)
           numbers == [i \in DOMAIN web |-> web[i].photo]
           all == CollectImageUrls(album)
           n == IF Len(all) < MaxPhotos THEN Len(all) ELSE MaxPhotos
           L == Range(album.main \o album.images \o album.options)
<1>1. links \in Seq(L)
  <2>1. album.main \in Seq(Links) /\ album.images \in Seq(Links) /\ album.options \in Seq(Links)
    BY PhotoAssumption
  <2>2. links \in Seq(Links) /\ L = Range(links)
    BY <2>1 DEF DraftImageUrls
  <2> HIDE DEF links, L
  <2>3. links \in [1..Len(links) -> L] /\ Len(links) \in Nat
    BY <2>2 DEF Range
  <2> QED BY <2>3
<1>2. web \in Seq(L)
  <2>1. P \in SUBSET (DOMAIN links) /\ web = Sublist(links, P)
    BY DEF WebLinks
  <2> HIDE DEF web, P, links, L
  <2> QED BY <1>1, <2>1, SublistIs
<1>3. \A l \in L : l.photo \in Photo
  BY DEF Photo
<1>4. numbers \in Seq(Photo)
  <2> HIDE DEF web, L
  <2>1. DOMAIN web = 1..Len(web) /\ Len(web) \in Nat /\ \A i \in DOMAIN web : web[i] \in L
    BY <1>2
  <2>2. numbers \in [1..Len(web) -> Photo]
    BY <2>1, <1>3
  <2> QED BY <2>1, <2>2
<1>5. all = Joined(<<>>, numbers)
  BY DEF CollectImageUrls
<1> HIDE DEF numbers
<1>6. all \in Seq(Photo) /\ IsInjective(all)
  <2> DEFINE none == <<>>
  <2>1. none \in Seq(Photo) /\ IsInjective(none)
    BY DEF IsInjective
  <2> HIDE DEF none
  <2>2. Joined(none, numbers) \in Seq(Photo) /\ IsInjective(Joined(none, numbers))
    BY <2>1, <1>4, JoinedIs
  <2> QED BY <2>2, <1>5 DEF none
<1> HIDE DEF all
<1>7. n \in 0..Len(all) /\ n <= MaxPhotos /\ Len(all) \in Nat /\ DOMAIN all = 1..Len(all)
  BY <1>6, PhotoNumbers
<1>8. FirstOf(all) = [i \in 1..n |-> all[i]]
  BY <1>6, <1>7 DEF FirstOf
<1> HIDE DEF n
<1>9. FirstOf(all) \in [1..n -> Photo]
  BY <1>6, <1>7, <1>8
<1>10. FirstOf(all) \in Seq(Photo) /\ Len(FirstOf(all)) = n
  BY <1>7, <1>9
<1>11. IsInjective(FirstOf(all))
  BY <1>6, <1>7, <1>8 DEF IsInjective
<1> QED BY <1>7, <1>10, <1>11 DEF all

\* The place of a photograph of a listing that has each once.
LEMMA PlaceOf ==
  ASSUME PhotoTypeOK, NEW i \in 1..Len(valid)
  PROVE  Place(valid[i]) = i /\ valid[i] \in Range(valid) /\ valid[i] \in Photo
<1>1. valid \in Seq(Photo) /\ IsInjective(valid) /\ DOMAIN valid = 1..Len(valid)
  BY DEF PhotoTypeOK
<1>2. \A k \in 1..Len(valid) : valid[k] = valid[i] => k = i
  BY <1>1 DEF IsInjective
<1> QED BY <1>1, <1>2 DEF Place, Range

\* A photograph put into the slot after those that succeeded.
LEMMA UploadStep ==
  ASSUME GalleryInv, mediaStage = "upload", at \in arrived,
         card' = [card EXCEPT ![PhotoNumber(uploaded, at)] = valid[at]], at' = at + 1, uploads' = 0,
         uploaded' \in {uploaded, uploaded + 1}, UNCHANGED <<valid, arrived, mediaStage, mediaRuns>>
  PROVE  GalleryInv'
<1>1. /\ card \in [Slot -> Photo \cup {0}] /\ valid \in Seq(Photo) /\ Len(valid) <= MaxPhotos
      /\ at \in Nat \ {0} /\ at <= Len(valid) /\ uploaded \in 0..(at - 1) /\ Len(valid) \in Nat
      /\ at \in 1..Len(valid) /\ uploaded + 1 \in Slot
  <2>1. valid \in Seq(Photo) /\ Len(valid) \in Nat /\ Len(valid) <= MaxPhotos /\ at \in 1..Len(valid) /\ uploaded \in 0..(at - 1)
    BY DEF GalleryInv, PhotoTypeOK
  <2> QED BY <2>1, PhotoNumbers DEF GalleryInv, PhotoTypeOK, Slot
<1>2. card' = [card EXCEPT ![uploaded + 1] = valid[at]]
  BY DEF PhotoNumber, NextSlot
<1>3. valid[at] \in Photo /\ valid[at] # 0 /\ Place(valid[at]) = at /\ valid[at] \in Range(valid)
  BY <1>1, PlaceOf, PhotoNumbers DEF GalleryInv
<1>4. /\ \A s \in Slot \ {1} : card[s] # 0 => card[s - 1] # 0
      /\ \A s \in 1..uploaded : /\ card[s] \in Range(valid)
                                /\ s < uploaded => Place(card[s]) < Place(card[s + 1])
                                /\ s = uploaded => Place(card[s]) < at
  BY DEF GalleryInv, GalleryInOrder
<1>5. \A s \in 1..uploaded : card[s] # 0
  <2>1. \A p \in Range(valid) : p # 0
    BY <1>1, PhotoNumbers DEF Range
  <2> QED BY <1>4, <2>1
<1>6. card' \in [Slot -> Photo \cup {0}]
  BY <1>1, <1>2, <1>3
<1>7. \A s \in Slot : card'[s] = IF s = uploaded + 1 THEN valid[at] ELSE card[s]
  BY <1>1, <1>2
<1>8. \A s \in Slot \ {1} : card'[s] # 0 => card'[s - 1] # 0
  <2> SUFFICES ASSUME NEW s \in Slot \ {1}, card'[s] # 0 PROVE card'[s - 1] # 0
    OBVIOUS
  <2>1. s \in Nat /\ s > 1 /\ s - 1 \in Slot
    BY PhotoNumbers DEF Slot
  <2>2. CASE s = uploaded + 1
    <3>1. s - 1 \in 1..uploaded /\ s - 1 # uploaded + 1
      BY <1>1, <2>1, <2>2
    <3> QED BY <3>1, <2>1, <1>5, <1>7
  <2>3. CASE s # uploaded + 1
    BY <2>1, <2>3, <1>3, <1>4, <1>7
  <2> QED BY <2>2, <2>3
<1>9. (\A s \in 1..uploaded : /\ card[s] \in Range(valid)
                              /\ s < uploaded => Place(card[s]) < Place(card[s + 1])
                              /\ s = uploaded => Place(card[s]) < at)'
  <2> SUFFICES ASSUME NEW s \in 1..(uploaded')
               PROVE  /\ card'[s] \in Range(valid)
                      /\ s < uploaded' => Place(card'[s]) < Place(card'[s + 1])
                      /\ s = uploaded' => Place(card'[s]) < at + 1
    <3>1. \A p : Place(p)' = Place(p)
      BY DEF Place
    <3>2. Range(valid)' = Range(valid)
      BY DEF Range
    <3> QED BY <3>1, <3>2
  <2>0. s \in Nat /\ s >= 1 /\ s <= uploaded + 1 /\ s \in Slot /\ uploaded \in Nat
    BY <1>1, PhotoNumbers DEF Slot
  <2>1. CASE s = uploaded + 1
    BY <2>0, <2>1, <1>1, <1>3, <1>7
  <2>2. CASE s < uploaded
    <3>1. s + 1 \in Slot /\ s + 1 # uploaded + 1 /\ s \in 1..uploaded
      BY <2>0, <2>2, <1>1, PhotoNumbers DEF Slot
    <3> QED BY <3>1, <2>0, <2>2, <1>1, <1>4, <1>7
  <2>3. CASE s = uploaded
    <3>1. s + 1 = uploaded + 1 /\ s \in 1..uploaded /\ s # uploaded + 1
      BY <2>0, <2>3
    <3>2. card'[s] = card[s] /\ card'[s + 1] = valid[at] /\ card[s] \in Range(valid) /\ Place(card[s]) < at
      BY <3>1, <2>0, <2>3, <1>1, <1>4, <1>7
    <3>3. Place(card[s]) \in Nat
      <4>1. PICK i \in 1..Len(valid) : valid[i] = card[s]
        BY <3>2, <1>1 DEF Range
      <4>2. Place(valid[i]) = i
        BY <1>1, PlaceOf DEF GalleryInv
      <4> QED BY <4>1, <4>2
    <3>4. Place(valid[at]) = at
      BY <1>3
    <3>5. at \in Nat
      BY <1>1
    <3> HIDE DEF Place
    <3>6. Place(card'[s]) < Place(card'[s + 1])
      BY <3>2, <3>3, <3>4, <3>5
    <3> QED BY <2>0, <2>3, <3>2, <3>3, <3>5, <3>6
  <2> QED BY <2>0, <2>1, <2>2, <2>3
<1>10. PhotoTypeOK'
  <2>1. at' \in 1..(MaxPhotos + 1) /\ uploaded' \in 0..(at' - 1)
    BY <1>1, PhotoNumbers
  <2>2. 0 \in 0..(MaxUploads - 1)
    BY PhotoNumbers
  <2> QED BY <1>6, <2>1, <2>2 DEF GalleryInv, PhotoTypeOK, Slot
<1>11. at' <= Len(valid') + 1
  BY <1>1
<1> QED BY <1>8, <1>9, <1>10, <1>11 DEF GalleryInv, GalleryInOrder, Slot

\* A photograph passed over, or tried again.
LEMMA SkipStep ==
  ASSUME GalleryInv, UNCHANGED <<card, valid, arrived, uploaded, mediaStage, mediaRuns>>,
         at <= Len(valid), at' = at \/ at' = at + 1, uploads' \in 0..(MaxUploads - 1)
  PROVE  GalleryInv'
<1>1. /\ PhotoTypeOK /\ GalleryInOrder /\ Len(valid) \in Nat /\ Len(valid) <= MaxPhotos 
      /\ at \in Nat \ {0} /\ at' \in Nat \ {0} /\ at <= at' /\ at' <= Len(valid) + 1 /\ uploaded \in 0..(at - 1)
  BY PhotoNumbers DEF GalleryInv, PhotoTypeOK
<1>2. PhotoTypeOK'
  <2>1. at' <= MaxPhotos + 1
    BY <1>1, PhotoNumbers
  <2>2. uploaded \in Nat /\ uploaded <= at - 1 /\ uploaded' = uploaded
    BY <1>1
  <2>3. uploaded' \in 0..(at' - 1)
    <3>1. \A a, b \in Int, u \in Nat : u <= a - 1 /\ a <= b => u \in 0..(b - 1)
      OBVIOUS
    <3>2. at \in Int /\ at' \in Int /\ at <= at'
      BY <1>1
    <3> QED BY <3>1, <3>2, <2>2
  <2>4. at' \in 1..(MaxPhotos + 1)
    BY <1>1, <2>1, PhotoNumbers
  <2> QED BY <1>1, <2>3, <2>4 DEF PhotoTypeOK, Slot
<1>3. \A s \in 1..uploaded : Place(card[s]) \in Nat \/ mediaStage # "upload"
  <2> SUFFICES ASSUME NEW s \in 1..uploaded, mediaStage = "upload" PROVE Place(card[s]) \in Nat
    OBVIOUS
  <2>1. card[s] \in Range(valid) /\ DOMAIN valid = 1..Len(valid)
    BY <1>1 DEF GalleryInOrder, PhotoTypeOK
  <2>2. PICK i \in 1..Len(valid) : valid[i] = card[s]
    BY <2>1 DEF Range
  <2> QED BY <1>1, <2>2, PlaceOf
<1>4. GalleryInOrder'
  <2>1. \A p : Place(p)' = Place(p)
    BY DEF Place
  <2>2. Range(valid)' = Range(valid)
    BY DEF Range
  <2> QED BY <1>1, <1>3, <2>1, <2>2 DEF GalleryInOrder, Slot
<1> QED BY <1>1, <1>2, <1>4 DEF GalleryInv

LEMMA GalleryStep == GalleryInv /\ [PhotosNext]_photoVars => GalleryInv'
<1> SUFFICES ASSUME GalleryInv, [PhotosNext]_photoVars PROVE GalleryInv'
  OBVIOUS
<1> USE PhotoNumbers
<1>0. PhotoTypeOK /\ GalleryInOrder /\ (mediaStage = "upload" => at <= Len(valid) + 1)
      /\ Len(valid) \in Nat /\ DOMAIN valid = 1..Len(valid)
  BY DEF GalleryInv, PhotoTypeOK
<1>1. ASSUME NEW album \in Albums, BeginMedia(album) PROVE GalleryInv'
  <2> DEFINE photos == FirstOf(CollectImageUrls(album))
  <2>1. photos \in Seq(Photo) /\ Len(photos) <= MaxPhotos /\ IsInjective(photos)
    BY AlbumPhotos
  <2>2. /\ valid' = photos /\ arrived' \in SUBSET (1..Len(photos)) /\ UNCHANGED card
        /\ at' = 1 /\ uploaded' = 0 /\ uploads' = 0 /\ mediaRuns' = mediaRuns + 1 /\ mediaRuns < MaxMediaRuns
        /\ mediaStage' \in {"warned", "upload"}
    BY <1>1 DEF BeginMedia
  <2> HIDE DEF photos
  <2>3. PhotoTypeOK'
    BY <1>0, <2>1, <2>2 DEF PhotoTypeOK, Slot
  <2>4. GalleryInOrder'
    BY <1>0, <2>2 DEF GalleryInOrder, Slot
  <2>5. at' <= Len(valid') + 1
    BY <2>1, <2>2
  <2> QED BY <2>3, <2>4, <2>5 DEF GalleryInv
<1>2. ASSUME SkipMissing PROVE GalleryInv'
  <2>1. at <= Len(valid) /\ at' = at + 1 /\ UNCHANGED <<card, valid, arrived, uploaded, uploads, mediaStage, mediaRuns>>
    BY <1>2 DEF SkipMissing
  <2>2. uploads' \in 0..(MaxUploads - 1)
    BY <1>0, <2>1 DEF PhotoTypeOK
  <2> QED BY <2>1, <2>2, SkipStep
<1>3. ASSUME UploadThrottled PROVE GalleryInv'
  <2>1. at \in 1..Len(valid) /\ mediaStage = "upload" /\ UNCHANGED <<card, valid, arrived, uploaded, mediaStage, mediaRuns>>
    BY <1>0, <1>3 DEF UploadThrottled, PhotoTypeOK
  <2>2. \/ uploads' = uploads + 1 /\ uploads + 1 < MaxUploads /\ at' = at
        \/ uploads' = 0 /\ at' = at + 1
    BY <1>3 DEF UploadThrottled
  <2>3. uploads' \in 0..(MaxUploads - 1) /\ at <= Len(valid)
    BY <1>0, <2>1, <2>2 DEF PhotoTypeOK
  <2> QED BY <2>1, <2>2, <2>3, SkipStep
<1>4. ASSUME UploadDone PROVE GalleryInv'
  BY <1>4, UploadStep DEF UploadDone
<1>5. ASSUME NEW kept \in BOOLEAN, UploadFails(kept) PROVE GalleryInv'
  <2>1. CASE kept
    BY <1>5, <2>1, UploadStep DEF UploadFails
  <2>2. CASE ~kept
    <3>1. at \in 1..Len(valid) /\ at' = at + 1 /\ uploads' = 0 /\ UNCHANGED <<card, valid, arrived, uploaded, mediaStage, mediaRuns>>
      BY <1>0, <1>5, <2>2 DEF UploadFails, PhotoTypeOK
    <3> QED BY <1>0, <3>1, SkipStep
  <2> QED BY <2>1, <2>2
<1>6. ASSUME MediaEnds PROVE GalleryInv'
  BY <1>0, <1>6 DEF MediaEnds, GalleryInv, PhotoTypeOK, GalleryInOrder, Slot
<1>7. ASSUME NEW kept \in BOOLEAN, NEW answered \in BOOLEAN, SaveByUrl(kept, answered) PROVE GalleryInv'
  <2>1. mediaStage' \in {"saved", "warned"} /\ UNCHANGED <<valid, arrived, at, uploaded, uploads, mediaRuns>>
    BY <1>7 DEF SaveByUrl
  <2>2. CASE ~kept
    BY <1>0, <1>7, <2>1, <2>2 DEF SaveByUrl, GalleryInv, PhotoTypeOK, GalleryInOrder, Slot
  <2>3. CASE kept
    <3>1. card' = [s \in Slot |-> IF s <= Len(valid) THEN valid[s] ELSE 0]
      BY <1>7, <2>3 DEF SaveByUrl
    <3>2. \A i \in 1..Len(valid) : valid[i] \in Photo /\ valid[i] # 0
      BY <1>0 DEF PhotoTypeOK
    <3>3. card' \in [Slot -> Photo \cup {0}]
      BY <1>0, <3>1, <3>2 DEF Slot
    <3>4. \A s \in Slot \ {1} : card'[s] # 0 => card'[s - 1] # 0
      BY <1>0, <3>1, <3>2 DEF Slot
    <3>5. PhotoTypeOK'
      BY <1>0, <2>1, <3>3 DEF PhotoTypeOK, Slot
    <3>6. GalleryInOrder'
      BY <2>1, <3>4 DEF GalleryInOrder, Slot
    <3> QED BY <2>1, <3>5, <3>6 DEF GalleryInv
  <2> QED BY <2>2, <2>3
<1>8. CASE UNCHANGED photoVars
  BY <1>0, <1>8 DEF photoVars, GalleryInv, PhotoTypeOK, GalleryInOrder, Slot, Place
<1> QED BY <1>1, <1>2, <1>3, <1>4, <1>5, <1>6, <1>7, <1>8 DEF PhotosNext

LEMMA GalleryStart == PhotosInit => GalleryInv
<1> SUFFICES ASSUME PhotosInit PROVE GalleryInv
  OBVIOUS
<1>1. <<>> \in Seq(Photo) /\ IsInjective(<<>>) /\ Len(<<>>) = 0
  BY DEF IsInjective
<1>2. PhotoTypeOK
  BY <1>1, PhotoNumbers DEF PhotosInit, PhotoTypeOK, Slot
<1>3. GalleryInOrder
  BY PhotoNumbers DEF PhotosInit, GalleryInOrder, Slot
<1> QED BY <1>2, <1>3 DEF GalleryInv, PhotosInit

\* The slots of the card and the uploads keep their types.
THEOREM PhotoTypesCorrect == PhotosSpec => []PhotoTypeOK
<1>1. GalleryInv => PhotoTypeOK
  BY DEF GalleryInv
<1> QED BY <1>1, GalleryStart, GalleryStep, PTL DEF PhotosSpec

\* The card has no empty slot before a filled one, and a listing's photographs
\* stand in its order, whatever was refused, throttled or lost.
THEOREM GalleryStaysInOrder == PhotosSpec => []GalleryInOrder
<1>1. GalleryInv => GalleryInOrder
  BY DEF GalleryInv
<1> QED BY <1>1, GalleryStart, GalleryStep, PTL DEF PhotosSpec

-----------------------------------------------------------------------------
(* WbSizes, for any number of options and barcodes.                        *)

CardSizeRecords == [tech : Labels, barcode : Int, chrt : Int]

\* Two sizes of a card share a label or a barcode only where it is known to be marred.
Apart(a, b, m) ==
  /\ a.tech = b.tech => "labels" \in m
  /\ a.barcode = b.barcode => a.tech = b.tech \/ "barcodes" \in m

\* A list of sizes with their barcodes out of those given.
Sound(list, n, m) ==
  /\ list \in Seq(CardSizeRecords)
  /\ \A i \in DOMAIN list : /\ list[i].barcode \in -1..n /\ list[i].chrt \in 1..n
                            /\ list[i].barcode = NoBarcode => "barcodes" \in m
  /\ \A i, k \in DOMAIN list : i # k => Apart(list[i], list[k], m)

\* That a new barcode is new needs that those in use are among those given.
SizesInv ==
  given \in 0..MaxBarcodes /\ marred \subseteq {"labels", "barcodes"} /\ Sound(sizes, given, marred)

\* How many of a set of numbers there are up to one of them.
LEMMA CountGrows ==
  ASSUME NEW A, NEW k \in Nat, k \in A
  PROVE  /\ Cardinality({j \in 1..k : j \in A}) \in Nat
         /\ k # 0 => Cardinality({j \in 1..k : j \in A}) \in 1..k
         /\ \A i \in Nat : i < k => /\ Cardinality({j \in 1..i : j \in A}) \in Nat
                                    /\ Cardinality({j \in 1..i : j \in A}) < Cardinality({j \in 1..k : j \in A})
<1> DEFINE UpTo(i) == {j \in 1..i : j \in A}
<1>1. \A i \in Nat : IsFiniteSet(UpTo(i)) /\ Cardinality(UpTo(i)) \in Nat /\ Cardinality(UpTo(i)) <= i
  <2> SUFFICES ASSUME NEW i \in Nat
               PROVE IsFiniteSet(UpTo(i)) /\ Cardinality(UpTo(i)) \in Nat /\ Cardinality(UpTo(i)) <= i
    OBVIOUS
  <2>1. IsFiniteSet(1..i) /\ Cardinality(1..i) = i
    BY FS_Interval
  <2>2. UpTo(i) \in SUBSET (1..i)
    OBVIOUS
  <2> QED BY <2>1, <2>2, FS_Subset, FS_CardinalityType
<1>2. k # 0 => k \in UpTo(k)
  OBVIOUS
<1>3. k # 0 => Cardinality(UpTo(k)) >= 1
  <2>1. Cardinality(UpTo(k)) = 0 <=> UpTo(k) = {}
    BY <1>1, FS_EmptySet
  <2> QED BY <1>1, <1>2, <2>1
<1>4. ASSUME NEW i \in Nat, i < k PROVE Cardinality(UpTo(i)) < Cardinality(UpTo(k))
  <2>1. UpTo(i) \cup {k} \in SUBSET UpTo(k) /\ k \notin UpTo(i)
    BY <1>4
  <2>2. Cardinality(UpTo(i) \cup {k}) = Cardinality(UpTo(i)) + 1
    BY <2>1, <1>1, FS_AddElement
  <2>3. Cardinality(UpTo(i) \cup {k}) <= Cardinality(UpTo(k))
    BY <2>1, <1>1, FS_Subset
  <2> QED BY <1>1, <2>2, <2>3
<1> HIDE DEF UpTo
<1>5. k # 0 => Cardinality(UpTo(k)) \in 1..k
  BY <1>1, <1>3
<1> QED BY <1>1, <1>4, <1>5 DEF UpTo

\* The sizes wanted of a draft: at least one, each with a label.
LEMMA WantedIs ==
  ASSUME NEW options, NEW n \in 1..MaxOptions, options \in [1..n -> Texts], NEW sized \in BOOLEAN
  PROVE  LET wanted == WantedSizes([options |-> options], sized) IN
         wanted \in Seq(Labels) /\ Len(wanted) \in Nat \ {0}
<1> DEFINE wanted == WantedSizes([options |-> options], sized)
<1>0. MaxOptions \in Nat /\ n \in Nat /\ n >= 1 /\ DOMAIN options = 1..n /\ \A i \in 1..n : options[i] \in Texts
  BY SizeAssumptions
<1>1. CASE ~sized
  <2>1. wanted = <<Plain>>
    BY <1>1 DEF WantedSizes
  <2>2. Plain \in Labels
    BY DEF Plain, Labels, Bases
  <2> HIDE DEF wanted
  <2>3. wanted \in Seq(Labels) /\ Len(wanted) = 1
    BY <2>1, <2>2
  <2>4. wanted \in Seq(Labels) /\ Len(wanted) \in Nat \ {0}
    BY <2>3
  <2> QED BY <2>4 DEF wanted
<1>2. CASE sized
  <2>1. wanted = [i \in 1..n |-> TechSize(options, i)]
    BY <1>0, <1>2 DEF WantedSizes
  <2>2. ASSUME NEW i \in 1..n PROVE TechSize(options, i) \in Labels
    <3> DEFINE A == {k \in 1..n : Base(options[k]) = Base(options[i])}
    <3>1. i \in Nat /\ i # 0 /\ i \in A
      BY <1>0
    <3>2. {k \in 1..i : Base(options[k]) = Base(options[i])} = {k \in 1..i : k \in A}
      BY <1>0
    <3> HIDE DEF A
    <3>3. Cardinality({k \in 1..i : k \in A}) \in 1..i
      BY <3>1, CountGrows
    <3>4. TimesMet(options, i) \in 1..i
      BY <3>2, <3>3 DEF TimesMet
    <3>5. Base(options[i]) \in Bases
      BY <1>0 DEF Base, Bases
    <3>6. TimesMet(options, i) = 1 \/ <<Base(options[i]), TimesMet(options, i)>> \in Bases \X (2..MaxOptions)
      BY <1>0, <3>4, <3>5
    <3> QED BY <3>5, <3>6 DEF TechSize, Labels
  <2> HIDE DEF wanted
  <2>3. wanted \in [1..n -> Labels]
    BY <2>1, <2>2
  <2> QED BY <1>0, <2>3 DEF wanted
<1> QED BY <1>1, <1>2

\* The number of a wanted size the card does not have is its own, among those asked for.
LEMMA MissingNumbers ==
  ASSUME NEW wanted \in Seq(Labels), NEW list, Len(wanted) \in Nat \ {0}
  PROVE  /\ CountMissing(wanted, list) \in Nat
         /\ \A i \in 1..Len(wanted) : wanted[i] \notin Techs(list) =>
              /\ MissingBefore(wanted, list, i) \in 1..CountMissing(wanted, list)
              /\ \A k \in 1..Len(wanted) : wanted[k] \notin Techs(list) /\ i < k =>
                   MissingBefore(wanted, list, i) < MissingBefore(wanted, list, k)
<1> DEFINE n == Len(wanted)
           A == {k \in 1..n : wanted[k] \notin Techs(list)}
           UpTo(i) == {j \in 1..i : j \in A}
<1>1. \A i \in 1..n : MissingBefore(wanted, list, i) = Cardinality(UpTo(i))
  <2> SUFFICES ASSUME NEW i \in 1..n PROVE {k \in 1..i : wanted[k] \notin Techs(list)} = UpTo(i)
    BY DEF MissingBefore
  <2>1. \A k \in 1..i : k \in 1..n
    OBVIOUS
  <2> QED BY <2>1
<1>2. n \in 1..n /\ CountMissing(wanted, list) = Cardinality(UpTo(n))
  BY <1>1 DEF CountMissing
<1> HIDE DEF A
<1>3. \A i \in 0..n : IsFiniteSet(UpTo(i)) /\ Cardinality(UpTo(i)) \in Nat
  <2> SUFFICES ASSUME NEW i \in 0..n PROVE IsFiniteSet(UpTo(i)) /\ Cardinality(UpTo(i)) \in Nat
    OBVIOUS
  <2>1. IsFiniteSet(1..i) /\ UpTo(i) \in SUBSET (1..i)
    BY FS_Interval
  <2> QED BY <2>1, FS_Subset, FS_CardinalityType
<1>4. ASSUME NEW i \in 1..n, i \in A PROVE Cardinality(UpTo(i)) \in 1..Cardinality(UpTo(n))
  <2>1. i \in Nat /\ i # 0 /\ n \in Nat
    OBVIOUS
  <2>2. Cardinality(UpTo(i)) >= 1
    <3>1. Cardinality({j \in 1..i : j \in A}) \in 1..i
      BY <2>1, <1>4, CountGrows
    <3> QED BY <2>1, <3>1
  <2>3. UpTo(i) \in SUBSET UpTo(n)
    BY <2>1
  <2>4. Cardinality(UpTo(i)) <= Cardinality(UpTo(n))
    BY <2>3, <1>3, FS_Subset
  <2> HIDE DEF UpTo, n
  <2>5. Cardinality(UpTo(i)) \in Nat /\ Cardinality(UpTo(n)) \in Nat
    <3>1. i \in 0..n /\ n \in 0..n
      BY <2>1
    <3> QED BY <3>1, <1>3
  <2> QED BY <2>2, <2>4, <2>5
<1>5. ASSUME NEW i \in 1..n, NEW k \in 1..n, k \in A, i < k
      PROVE  Cardinality(UpTo(i)) < Cardinality(UpTo(k))
  <2>1. i \in Nat /\ k \in Nat
    OBVIOUS
  <2> QED BY <2>1, <1>5, CountGrows
<1>6. \A i \in 1..n : wanted[i] \notin Techs(list) <=> i \in A
  BY DEF A
<1> HIDE DEF UpTo
<1> QED BY <1>1, <1>2, <1>3, <1>4, <1>5, <1>6

\* A listing that sends one label twice is on record.
LEMMA ClashIs ==
  ASSUME NEW wanted
  PROVE  /\ Clash(wanted) \subseteq {"labels"}
         /\ \A i, k \in DOMAIN wanted : i # k /\ wanted[i] = wanted[k] => "labels" \in Clash(wanted)
BY DEF Clash

\* A card made of the wanted sizes.
LEMMA MappedIs ==
  ASSUME NEW wanted \in Seq(Labels), given \in Nat
  PROVE  Sound(MapWbSizes(wanted), given + Len(wanted), Clash(wanted))
<1> DEFINE made == MapWbSizes(wanted)
           n == Len(wanted)
<1>1. DOMAIN wanted = 1..n /\ n \in Nat /\ \A i \in 1..n : wanted[i] \in Labels
  OBVIOUS
<1>2. made = [i \in 1..n |-> [tech |-> wanted[i], barcode |-> given + i, chrt |-> given + i]]
  BY <1>1 DEF MapWbSizes, NewSize
<1> HIDE DEF made, n
<1>3. \A i \in 1..n : /\ given + i \in Nat /\ given + i \in 1..(given + n) /\ given + i # NoBarcode
                      /\ made[i].tech = wanted[i] /\ made[i].barcode = given + i /\ made[i].chrt = given + i
  BY <1>1, <1>2 DEF NoBarcode
<1>4. made \in [1..n -> CardSizeRecords]
  BY <1>1, <1>2, <1>3 DEF CardSizeRecords
<1>5. made \in Seq(CardSizeRecords) /\ DOMAIN made = 1..n
  BY <1>1, <1>4
<1>6. ASSUME NEW i \in 1..n, NEW k \in 1..n, i # k PROVE Apart(made[i], made[k], Clash(wanted))
  <2>1. made[i].barcode # made[k].barcode
    BY <1>1, <1>3, <1>6
  <2>2. made[i].tech = made[k].tech => "labels" \in Clash(wanted)
    BY <1>1, <1>3, <1>6, ClashIs
  <2> QED BY <2>1, <2>2 DEF Apart
<1>7. \A i \in 1..n : made[i].barcode \in -1..(given + n) /\ made[i].chrt \in 1..(given + n) /\ made[i].barcode # NoBarcode
  BY <1>1, <1>3
<1> QED BY <1>5, <1>6, <1>7 DEF Sound, made, n

\* The card's own size of a label is one of its sizes.
LEMMA OwnIs ==
  ASSUME NEW list \in Seq(CardSizeRecords), NEW tech \in Techs(list)
  PROVE  \E k \in DOMAIN list : Own(list, tech) = list[k] /\ list[k].tech = tech
<1> DEFINE P == {k \in DOMAIN list : list[k].tech = tech}
           those == Sublist(list, P)
           c == Cardinality(P)
<1>1. P \in SUBSET (DOMAIN list) /\ P # {} /\ \A k \in P : k \in DOMAIN list /\ list[k].tech = tech
  BY DEF Techs
<1>2. Own(list, tech) = those[Len(those)]
  BY DEF Own, Last
<1> HIDE DEF P
<1>3. IsFiniteSet(P) /\ Len(those) = c /\ \A m \in 1..c : NthOf(P, m) \in P /\ those[m] = list[NthOf(P, m)]
  BY <1>1, SublistIs
<1>4. c \in Nat /\ c # 0
  BY <1>1, <1>3, FS_CardinalityType, FS_EmptySet
<1> HIDE DEF those, c
<1>5. c \in 1..c
  BY <1>4
<1> QED BY <1>1, <1>2, <1>3, <1>5

\* What stands in for a missing barcode is one of the card's or none.
LEMMA PositionalIs ==
  ASSUME NEW list \in Seq(CardSizeRecords), NEW n \in Nat, NEW i \in Nat \ {0},
         \A k \in DOMAIN list : list[k].barcode \in -1..n
  PROVE  Positional(list, i) \in -1..n
<1> DEFINE P == {k \in DOMAIN list : list[k].barcode # NoBarcode}
           held == Sublist(list, P)
           c == Cardinality(P)
<1>1. P \in SUBSET (DOMAIN list)
  OBVIOUS
<1>2. Positional(list, i) = IF i <= Len(held) THEN held[i].barcode
                            ELSE IF i > Len(held) + 1 /\ held # <<>> THEN held[1].barcode ELSE 0
  BY DEF Positional
<1> HIDE DEF P
<1>3. /\ IsFiniteSet(P) /\ held \in Seq(CardSizeRecords) /\ Len(held) = c
      /\ \A m \in 1..c : NthOf(P, m) \in P /\ held[m] = list[NthOf(P, m)]
  BY <1>1, SublistIs
<1>4. c \in Nat
  BY <1>3, FS_CardinalityType
<1> HIDE DEF held, c
<1>5. \A m \in 1..c : held[m].barcode \in -1..n
  BY <1>1, <1>3
<1>6. held # <<>> => 1 \in 1..c
  BY <1>3, <1>4
<1>7. i <= Len(held) => i \in 1..c
  BY <1>3, <1>4
<1> QED BY <1>2, <1>5, <1>6, <1>7

\* A size merged has the label wanted, and what the card had with it or new numbers.
LEMMA MergedIs ==
  ASSUME NEW wanted \in Seq(Labels), Len(wanted) \in Nat \ {0}, given \in Nat, NEW list, NEW m, Sound(list, given, m),
         NEW i \in 1..Len(wanted)
  PROVE  LET size == Merged(wanted, list, i)
             asked == CountMissing(wanted, list)
         IN /\ size \in CardSizeRecords /\ size.tech = wanted[i] /\ asked \in Nat
            /\ size.barcode \in -1..(given + asked) /\ size.chrt \in 1..(given + asked)
            /\ size.barcode = NoBarcode => "barcodes" \in m
            /\ wanted[i] \in Techs(list) /\ "barcodes" \notin m => \E k \in DOMAIN list : size = list[k]
            /\ wanted[i] \notin Techs(list) => size.barcode = given + MissingBefore(wanted, list, i)
<1> DEFINE size == Merged(wanted, list, i)
           asked == CountMissing(wanted, list)
           nr == MissingBefore(wanted, list, i)
<1>1. asked \in Nat /\ (wanted[i] \notin Techs(list) => nr \in 1..asked) /\ wanted[i] \in Labels
  BY MissingNumbers
<1>2. /\ list \in Seq(CardSizeRecords) /\ i \in Nat \ {0}
      /\ \A k \in DOMAIN list : /\ list[k] \in CardSizeRecords /\ list[k].barcode \in -1..given /\ list[k].chrt \in 1..given
                                /\ list[k].barcode = NoBarcode => "barcodes" \in m
  BY DEF Sound
<1>3. CASE wanted[i] \in Techs(list)
  <2> DEFINE own == Own(list, wanted[i])
  <2>1. PICK k \in DOMAIN list : own = list[k] /\ list[k].tech = wanted[i]
    BY <1>2, <1>3, OwnIs
  <2>2. size = Kept(list, wanted[i], i)
    BY <1>3 DEF Merged
  <2> HIDE DEF size, asked
  <2>3. CASE own.barcode # NoBarcode
    <3>1. size = list[k]
      BY <2>1, <2>2, <2>3 DEF Kept
    <3>2. list[k] \in CardSizeRecords /\ list[k].barcode \in -1..given /\ list[k].chrt \in 1..given
      BY <1>2
    <3>3. size.barcode \in -1..(given + asked) /\ size.chrt \in 1..(given + asked)
      BY <1>1, <3>1, <3>2
    <3>4. size \in CardSizeRecords /\ size.tech = wanted[i] /\ size.barcode # NoBarcode /\ size = list[k]
      BY <2>1, <2>3, <3>1, <3>2
    <3>5. asked \in Nat
      BY <1>1
    <3> QED BY <1>3, <3>3, <3>4, <3>5 DEF size, asked
  <2>4. CASE own.barcode = NoBarcode
    <3> DEFINE instead == Positional(list, i)
    <3>1. instead \in -1..given
      <4>1. /\ list \in Seq(CardSizeRecords) /\ i \in Nat \ {0} /\ given \in Nat
            /\ \A j \in DOMAIN list : list[j].barcode \in -1..given
        BY <1>2
      <4> QED BY <4>1, PositionalIs
    <3>2. size = [list[k] EXCEPT !.barcode = instead]
      BY <2>1, <2>2, <2>4 DEF Kept
    <3> HIDE DEF instead
    <3>3. list[k] \in [tech : Labels, barcode : Int, chrt : Int] /\ list[k].chrt \in 1..given /\ "barcodes" \in m
      <4>1. list[k] \in CardSizeRecords /\ list[k].chrt \in 1..given
        BY <1>2
      <4>2. "barcodes" \in m
        BY <1>2, <2>1, <2>4
      <4> QED BY <4>1, <4>2 DEF CardSizeRecords
    <3>4. size \in CardSizeRecords /\ size.tech = wanted[i] /\ size.barcode = instead /\ size.chrt = list[k].chrt
      BY <2>1, <3>1, <3>2, <3>3 DEF CardSizeRecords
    <3>5. size.barcode \in -1..(given + asked) /\ size.chrt \in 1..(given + asked)
      BY <1>1, <3>1, <3>3, <3>4
    <3> QED BY <1>1, <1>3, <3>3, <3>4, <3>5 DEF size, asked
  <2> QED BY <2>3, <2>4
<1>4. CASE wanted[i] \notin Techs(list)
  <2>1. size = [tech |-> wanted[i], barcode |-> given + nr, chrt |-> given + nr]
    BY <1>4 DEF Merged, NewSize
  <2> HIDE DEF size, asked, nr
  <2>2. given + nr \in 1..(given + asked) /\ given + nr \in Nat /\ given + nr # NoBarcode
    BY <1>1, <1>4 DEF NoBarcode
  <2>3. size.barcode \in -1..(given + asked) /\ size.chrt \in 1..(given + asked) /\ size.barcode # NoBarcode
    BY <1>1, <2>1, <2>2
  <2>4. size \in CardSizeRecords /\ size.tech = wanted[i] /\ size.barcode = given + nr
    BY <1>1, <2>1, <2>2 DEF CardSizeRecords
  <2> QED BY <1>1, <1>4, <2>3, <2>4 DEF size, asked, nr
<1> QED BY <1>3, <1>4

\* The wanted sizes with those the card has besides share labels and barcodes
\* only where a label is wanted twice or the card was marred before.
LEMMA MergeIs ==
  ASSUME NEW wanted \in Seq(Labels), Len(wanted) \in Nat \ {0}, given \in Nat, NEW list, NEW m, Sound(list, given, m)
  PROVE  /\ Sound(MergeWbCardSizes(wanted, list), given + CountMissing(wanted, list), m \cup Clash(wanted))
         /\ Len(MergeWbCardSizes(wanted, list)) \in Nat \ {0}
<1> DEFINE n == Len(wanted)
           asked == CountMissing(wanted, list)
           known == m \cup Clash(wanted)
           P == {k \in DOMAIN list : list[k].tech \notin ToSet(wanted)}
           front == [i \in 1..n |-> Merged(wanted, list, i)]
           back == Sublist(list, P)
           merged == MergeWbCardSizes(wanted, list)
           Fits(size) == /\ size.barcode \in -1..(given + asked) /\ size.chrt \in 1..(given + asked)
                         /\ size.barcode = NoBarcode => "barcodes" \in known
           Differ(a, b) == Apart(a, b, known)
<1>1. /\ n \in Nat \ {0} /\ DOMAIN wanted = 1..n /\ list \in Seq(CardSizeRecords)
      /\ P \in SUBSET (DOMAIN list) /\ DOMAIN list = 1..Len(list) /\ Len(list) \in Nat
      /\ \A i \in DOMAIN list : /\ list[i].barcode \in -1..given /\ list[i].chrt \in 1..given
                                /\ list[i].barcode = NoBarcode => "barcodes" \in m
      /\ \A i, k \in DOMAIN list : i # k => Apart(list[i], list[k], m)
  BY DEF Sound
<1>2. \A k \in P : \A i \in 1..n : list[k].tech # wanted[i]
  BY <1>1 DEF ToSet
<1>3. merged = front \o back
  BY <1>1 DEF MergeWbCardSizes
<1>4. asked \in Nat /\ \A i \in 1..n : wanted[i] \notin Techs(list) =>
        /\ MissingBefore(wanted, list, i) \in 1..asked
        /\ \A k \in 1..n : wanted[k] \notin Techs(list) /\ i < k =>
             MissingBefore(wanted, list, i) < MissingBefore(wanted, list, k)
  BY MissingNumbers
<1>20. \A i, k \in DOMAIN list : i # k => Differ(list[i], list[k])
  BY <1>1 DEF Apart
<1>21. \A i, k \in 1..n : i # k /\ wanted[i] = wanted[k] => "labels" \in known
  BY <1>1, ClashIs
<1>5. \A i \in 1..n :
        /\ front[i] \in CardSizeRecords /\ front[i].tech = wanted[i] /\ Fits(front[i])
        /\ wanted[i] \in Techs(list) /\ "barcodes" \notin m => \E k \in DOMAIN list : front[i] = list[k]
        /\ wanted[i] \notin Techs(list) => front[i].barcode = given + MissingBefore(wanted, list, i)
  <2> SUFFICES ASSUME NEW i \in 1..n
               PROVE  /\ front[i] \in CardSizeRecords /\ front[i].tech = wanted[i] /\ Fits(front[i])
                      /\ wanted[i] \in Techs(list) /\ "barcodes" \notin m => \E k \in DOMAIN list : front[i] = list[k]
                      /\ wanted[i] \notin Techs(list) => front[i].barcode = given + MissingBefore(wanted, list, i)
    OBVIOUS
  <2>1. front[i] = Merged(wanted, list, i)
    OBVIOUS
  <2> HIDE DEF front
  <2> QED BY <2>1, MergedIs
<1> HIDE DEF P, known
<1>22. m \subseteq known
  BY DEF known
<1>6. /\ back \in Seq(CardSizeRecords) /\ Len(back) = Cardinality(P) /\ Cardinality(P) \in Nat
      /\ \A o \in 1..Cardinality(P) : NthOf(P, o) \in P /\ back[o] = list[NthOf(P, o)]
      /\ \A l, o \in 1..Cardinality(P) : l < o => NthOf(P, l) < NthOf(P, o)
  <2>0. list \in Seq(CardSizeRecords) /\ P \in SUBSET (DOMAIN list)
    BY <1>1
  <2>1. IsFiniteSet(P)
    BY <2>0, SublistIs
  <2>2. Cardinality(P) \in Nat
    BY <2>1, FS_CardinalityType
  <2>3. back \in Seq(CardSizeRecords) /\ Len(back) = Cardinality(P)
    BY <2>0, SublistIs
  <2>4. \A o \in 1..Cardinality(P) : NthOf(P, o) \in P /\ back[o] = list[NthOf(P, o)]
    BY <2>0, SublistIs
  <2>5. \A l, o \in 1..Cardinality(P) : l < o => NthOf(P, l) < NthOf(P, o)
    BY <2>0, SublistIs
  <2> QED BY <2>2, <2>3, <2>4, <2>5
<1> DEFINE c == Cardinality(P)
<1>7. \A i, k \in 1..n : i < k => Differ(front[i], front[k])
  <2> SUFFICES ASSUME NEW i \in 1..n, NEW k \in 1..n, i < k PROVE Differ(front[i], front[k])
    OBVIOUS
  <2> HIDE DEF front
  <2>1. front[i].tech = front[k].tech => "labels" \in known
    BY <1>1, <1>5, <1>21
  <2>2. "barcodes" \notin m => (front[i].barcode = front[k].barcode => front[i].tech = front[k].tech \/ "barcodes" \in known)
    <3> SUFFICES ASSUME "barcodes" \notin m, front[i].tech # front[k].tech, "barcodes" \notin known
                 PROVE  front[i].barcode # front[k].barcode
      OBVIOUS
    <3>1. CASE wanted[i] \in Techs(list) /\ wanted[k] \in Techs(list)
      <4>1. PICK x \in DOMAIN list : front[i] = list[x]
        BY <1>5, <3>1
      <4>2. PICK y \in DOMAIN list : front[k] = list[y]
        BY <1>5, <3>1
      <4>3. x # y
        BY <4>1, <4>2
      <4> QED BY <4>1, <4>2, <4>3, <1>20 DEF Apart
    <3>2. CASE wanted[i] \in Techs(list) /\ wanted[k] \notin Techs(list)
      <4>0. PICK x \in DOMAIN list : front[i] = list[x]
        BY <1>5, <3>2
      <4>1. front[i].barcode \in -1..given
        BY <1>1, <4>0
      <4>2. front[k].barcode = given + MissingBefore(wanted, list, k) /\ MissingBefore(wanted, list, k) \in 1..asked
        BY <1>4, <1>5, <3>2
      <4> QED BY <1>4, <4>1, <4>2
    <3>3. CASE wanted[i] \notin Techs(list) /\ wanted[k] \in Techs(list)
      <4>0. PICK x \in DOMAIN list : front[k] = list[x]
        BY <1>5, <3>3
      <4>1. front[k].barcode \in -1..given
        BY <1>1, <4>0
      <4>2. front[i].barcode = given + MissingBefore(wanted, list, i) /\ MissingBefore(wanted, list, i) \in 1..asked
        BY <1>4, <1>5, <3>3
      <4> QED BY <1>4, <4>1, <4>2
    <3>4. CASE wanted[i] \notin Techs(list) /\ wanted[k] \notin Techs(list)
      <4> DEFINE x == MissingBefore(wanted, list, i)
                 y == MissingBefore(wanted, list, k)
      <4>1. x \in Nat /\ y \in Nat /\ x < y /\ front[i].barcode = given + x /\ front[k].barcode = given + y
        BY <1>4, <1>5, <3>4
      <4> HIDE DEF x, y
      <4> QED BY <4>1
    <3> QED BY <3>1, <3>2, <3>3, <3>4
  <2>3. "barcodes" \in m => "barcodes" \in known
    BY <1>22
  <2> QED BY <2>1, <2>2, <2>3 DEF Apart
<1>8. \A l, q \in 1..c : l < q => Differ(back[l], back[q])
  <2> SUFFICES ASSUME NEW l \in 1..c, NEW q \in 1..c, l < q PROVE Differ(back[l], back[q])
    OBVIOUS
  <2> DEFINE x == NthOf(P, l)
             y == NthOf(P, q)
  <2>1. x \in P /\ y \in P /\ x < y /\ back[l] = list[x] /\ back[q] = list[y]
    BY <1>6
  <2> HIDE DEF x, y, back, Differ
  <2>2. x \in DOMAIN list /\ y \in DOMAIN list /\ x # y
    BY <1>1, <2>1
  <2> QED BY <1>20, <2>1, <2>2
<1>9. \A i \in 1..n, q \in 1..c : Differ(front[i], back[q])
  <2> SUFFICES ASSUME NEW i \in 1..n, NEW q \in 1..c PROVE Differ(front[i], back[q])
    OBVIOUS
  <2> DEFINE y == NthOf(P, q)
  <2>1. y \in P /\ y \in DOMAIN list /\ back[q] = list[y]
    BY <1>1, <1>6
  <2> HIDE DEF y, back, front
  <2>2. front[i].tech = wanted[i] /\ list[y].tech # wanted[i]
    BY <1>2, <1>5, <2>1
  <2>3. CASE wanted[i] \in Techs(list) /\ "barcodes" \notin m
    <3>1. PICK k \in DOMAIN list : front[i] = list[k]
      BY <1>5, <2>3
    <3>2. k # y
      BY <2>2, <3>1
    <3> QED BY <1>20, <2>1, <3>1, <3>2
  <2>4. CASE wanted[i] \notin Techs(list)
    <3> DEFINE x == MissingBefore(wanted, list, i)
    <3>1. x \in 1..asked /\ front[i].barcode = given + x /\ list[y].barcode \in -1..given
      <4>1. list[y].barcode \in -1..given
        BY <1>1, <2>1
      <4>2. x \in 1..asked /\ front[i].barcode = given + x
        BY <1>4, <1>5, <2>4
      <4> QED BY <4>1, <4>2
    <3> HIDE DEF x
    <3>2. front[i].barcode # list[y].barcode
      BY <1>4, <3>1
    <3> QED BY <2>1, <2>2, <3>2 DEF Apart
  <2>5. CASE "barcodes" \in m
    BY <1>22, <2>1, <2>2, <2>5 DEF Apart
  <2> QED BY <2>3, <2>4, <2>5
<1>10. \A q \in 1..c : Fits(back[q])
  <2> SUFFICES ASSUME NEW q \in 1..c PROVE Fits(back[q])
    OBVIOUS
  <2>1. PICK y \in DOMAIN list : back[q] = list[y]
    BY <1>1, <1>6
  <2> HIDE DEF back
  <2>2. /\ back[q].barcode \in -1..given /\ back[q].chrt \in 1..given
        /\ back[q].barcode = NoBarcode => "barcodes" \in known
    <3>1. /\ list[y].barcode \in -1..given /\ list[y].chrt \in 1..given
          /\ list[y].barcode = NoBarcode => "barcodes" \in m
      BY <1>1
    <3> QED BY <1>22, <2>1, <3>1
  <2> QED BY <1>4, <2>2
<1>11. front \in Seq(CardSizeRecords) /\ Len(front) = n
  <2>1. front \in [1..n -> CardSizeRecords]
    BY <1>5
  <2> QED BY <1>1, <2>1
<1> HIDE DEF front, back, merged, Differ, Fits, n, c
<1>12. /\ front \o back \in Seq(CardSizeRecords) /\ Len(front \o back) = n + c
       /\ \A i \in 1..(n + c) : (front \o back)[i] = IF i <= n THEN front[i] ELSE back[i - n]
  <2>1. n \in Nat /\ c \in Nat /\ back \in Seq(CardSizeRecords) /\ Len(back) = c
    BY <1>1, <1>6 DEF c, n
  <2>2. front \o back \in Seq(CardSizeRecords)
    BY <2>1, <1>11
  <2>3. Len(front \o back) = n + c
    BY <2>1, <1>11
  <2>4. \A i \in 1..(n + c) : (front \o back)[i] = IF i <= n THEN front[i] ELSE back[i - n]
    BY <2>1, <2>3, <1>11, SMTT(30)
  <2> QED BY <2>2, <2>3, <2>4
<1>13. /\ merged \in Seq(CardSizeRecords) /\ Len(merged) = n + c /\ DOMAIN merged = 1..(n + c)
       /\ \A i \in 1..n : merged[i] = front[i]
       /\ \A i \in 1..(n + c) : i <= n \/ \E q \in 1..c : i = n + q /\ merged[i] = back[q]
  <2>0. n \in Nat /\ c \in Nat
    BY <1>1, <1>6 DEF c
  <2>1. merged \in Seq(CardSizeRecords) /\ Len(merged) = n + c
    BY <1>3, <1>12
  <2>2. DOMAIN merged = 1..(n + c)
    BY <2>1
  <2>3. \A i \in 1..n : merged[i] = front[i]
    BY <2>0, <1>3, <1>12
  <2>4. ASSUME NEW i \in 1..(n + c), ~(i <= n) PROVE \E q \in 1..c : i = n + q /\ merged[i] = back[q]
    <3>1. i - n \in 1..c /\ i = n + (i - n)
      BY <2>0, <2>4
    <3>2. merged[i] = back[i - n]
      BY <2>4, <1>3, <1>12
    <3> QED BY <3>1, <3>2
  <2> QED BY <2>1, <2>2, <2>3, <2>4
<1>14. \A i \in DOMAIN merged : Fits(merged[i])
  <2> SUFFICES ASSUME NEW i \in DOMAIN merged PROVE Fits(merged[i])
    OBVIOUS
  <2>1. CASE i <= n
    <3>1. i \in 1..n
      BY <1>1, <1>6, <1>13, <2>1 DEF c
    <3> QED BY <3>1, <1>5, <1>13
  <2>2. CASE ~(i <= n)
    BY <1>10, <1>13, <2>2
  <2> QED BY <2>1, <2>2
<1>15. \A i, k \in DOMAIN merged : i < k => Differ(merged[i], merged[k])
  <2> SUFFICES ASSUME NEW i \in DOMAIN merged, NEW k \in DOMAIN merged, i < k PROVE Differ(merged[i], merged[k])
    OBVIOUS
  <2>0. n \in Nat /\ c \in Nat /\ i \in 1..(n + c) /\ k \in 1..(n + c)
    BY <1>1, <1>6, <1>13 DEF c
  <2>1. CASE k <= n
    <3>1. i \in 1..n /\ k \in 1..n
      BY <2>0, <2>1
    <3> QED BY <3>1, <1>7, <1>13
  <2>2. CASE i <= n /\ ~(k <= n)
    <3>1. i \in 1..n /\ merged[i] = front[i]
      BY <2>0, <2>2, <1>13
    <3>2. PICK q \in 1..c : merged[k] = back[q]
      BY <2>0, <2>2, <1>13
    <3> QED BY <3>1, <3>2, <1>9
  <2>3. CASE ~(i <= n) /\ ~(k <= n)
    <3>1. PICK l \in 1..c : i = n + l /\ merged[i] = back[l]
      BY <2>0, <2>3, <1>13
    <3>2. PICK q \in 1..c : k = n + q /\ merged[k] = back[q]
      BY <2>0, <2>3, <1>13
    <3>3. l < q
      BY <2>0, <3>1, <3>2
    <3> QED BY <3>1, <3>2, <3>3, <1>8
  <2> QED BY <2>1, <2>2, <2>3, <2>0
<1>16. \A i, k \in DOMAIN merged : i # k => Differ(merged[i], merged[k])
  <2> SUFFICES ASSUME NEW i \in DOMAIN merged, NEW k \in DOMAIN merged, i # k PROVE Differ(merged[i], merged[k])
    OBVIOUS
  <2>1. i \in Int /\ k \in Int
    BY <1>13
  <2>2. CASE i < k
    BY <2>2, <1>15
  <2>3. CASE k < i
    <3>1. Differ(merged[k], merged[i])
      BY <2>3, <1>15
    <3> QED BY <3>1 DEF Differ, Apart
  <2> QED BY <2>1, <2>2, <2>3
<1>17. n + c \in Nat \ {0}
  BY <1>1, <1>6 DEF c
<1>18. \A i \in DOMAIN merged : /\ merged[i].barcode \in -1..(given + asked) /\ merged[i].chrt \in 1..(given + asked)
                                /\ merged[i].barcode = NoBarcode => "barcodes" \in known
  BY <1>14 DEF Fits
<1>19. \A i, k \in DOMAIN merged : i # k => Apart(merged[i], merged[k], known)
  BY <1>16 DEF Differ
<1> HIDE DEF asked
<1>23. Sound(merged, given + asked, known)
  BY <1>13, <1>18, <1>19 DEF Sound
<1>24. Len(merged) \in Nat \ {0}
  BY <1>13, <1>17
<1> QED BY <1>23, <1>24 DEF merged, asked, known

\* What is written of an update keeps only the first size of one without sizes.
LEMMA FirstSize ==
  ASSUME NEW list, NEW n \in Nat, NEW m, Sound(list, n, m), Len(list) \in Nat \ {0}
  PROVE  Sound(SubSeq(list, 1, 1), n, m)
<1> DEFINE first == SubSeq(list, 1, 1)
<1>0. list \in Seq(CardSizeRecords) /\ 1 \in DOMAIN list
  BY DEF Sound
<1>1. /\ list \in Seq(CardSizeRecords) /\ 1 \in DOMAIN list /\ list[1].barcode \in -1..n /\ list[1].chrt \in 1..n
      /\ list[1].barcode = NoBarcode => "barcodes" \in m
  BY <1>0 DEF Sound
<1>2. 1 \in 1..(Len(list) + 1) /\ 1 \in 0..Len(list)
  BY <1>1
<1>3. /\ first \in Seq(CardSizeRecords) /\ Len(first) = 1
      /\ \A i \in 1..1 : first[i] = list[i]
  BY <1>1, <1>2, SubSeqProperties
<1> HIDE DEF first
<1>4. first \in Seq(CardSizeRecords) /\ DOMAIN first = {1} /\ first[1] = list[1]
  BY <1>3
<1> QED BY <1>1, <1>4 DEF Sound, first

LEMMA EmptySound == ASSUME NEW n \in Nat, NEW m PROVE Sound(<<>>, n, m)
<1>1. <<>> \in Seq(CardSizeRecords) /\ DOMAIN <<>> = {}
  OBVIOUS
<1> QED BY <1>1 DEF Sound

\* Labels and barcodes stay apart in every step of a card.
LEMMA SizesStep == SizesInv /\ [SizesNext]_sizeVars => SizesInv'
<1> SUFFICES ASSUME SizesInv, [SizesNext]_sizeVars PROVE SizesInv'
  OBVIOUS
<1>0. /\ given \in Nat /\ given \in 0..MaxBarcodes /\ MaxBarcodes \in Nat
      /\ Sound(sizes, given, marred) /\ sizes \in Seq(CardSizeRecords) /\ marred \subseteq {"labels", "barcodes"}
  BY SizeAssumptions DEF SizesInv, Sound
<1>1. ASSUME NEW push \in Pushes
      PROVE  push.wanted \in Seq(Labels) /\ Len(push.wanted) \in Nat \ {0}
  <2>0. PICK draft \in ProductDrafts, subject \in WbSubjects, hint \in {"plain", "none"}, repaired \in BOOLEAN :
          push = Push(draft, ResolveWbSizedFlag(hint, subject, draft) # repaired)
    BY DEF Pushes
  <2> DEFINE sized == ResolveWbSizedFlag(hint, subject, draft) # repaired
  <2>1. sized \in BOOLEAN /\ push.wanted = WantedSizes([options |-> draft.options], sized)
    BY <2>0 DEF Push, WantedSizes
  <2> HIDE DEF sized
  <2>2. draft.options \in UNION {[1..n -> Texts] : n \in 1..MaxOptions}
    BY DEF ProductDrafts
  <2>3. PICK n \in 1..MaxOptions : draft.options \in [1..n -> Texts]
    BY <2>2
  <2> QED BY <2>1, <2>3, WantedIs
<1>2. ASSUME NEW push \in Pushes, UploadSizes(push.wanted) PROVE SizesInv'
  <2> DEFINE wanted == push.wanted
  <2>1. wanted \in Seq(Labels) /\ Len(wanted) \in Nat \ {0}
    BY <1>1
  <2>2. /\ given + Len(wanted) <= MaxBarcodes /\ sizes' = MapWbSizes(wanted) /\ given' = given + Len(wanted)
        /\ marred' = Clash(wanted)
    BY <1>2 DEF UploadSizes
  <2> HIDE DEF wanted
  <2>3. Sound(sizes', given', marred') /\ marred' \subseteq {"labels", "barcodes"}
    BY <1>0, <2>1, <2>2, MappedIs, ClashIs
  <2>4. given' \in 0..MaxBarcodes
    BY <1>0, <2>1, <2>2
  <2> QED BY <2>3, <2>4 DEF SizesInv, Sound
<1>3. ASSUME NEW push \in Pushes, UpdateSizes(push.wanted, push.sized) PROVE SizesInv'
  <2> DEFINE wanted == push.wanted
             merged == MergeWbCardSizes(wanted, sizes)
             asked == CountMissing(wanted, sizes)
  <2>1. wanted \in Seq(Labels) /\ Len(wanted) \in Nat \ {0}
    BY <1>1
  <2>2. /\ given + asked <= MaxBarcodes /\ given' = given + asked /\ marred' = marred \cup Clash(wanted)
        /\ sizes' = IF push.sized THEN merged ELSE SubSeq(merged, 1, 1)
    BY <1>3 DEF UpdateSizes
  <2> HIDE DEF wanted
  <2>3. asked \in Nat
    BY <2>1, MissingNumbers
  <2>4. Sound(merged, given + asked, marred') /\ Len(merged) \in Nat \ {0}
    BY <1>0, <2>1, <2>2, MergeIs
  <2> HIDE DEF merged, asked
  <2>5. Sound(SubSeq(merged, 1, 1), given + asked, marred')
    BY <1>0, <2>3, <2>4, FirstSize
  <2>6. Sound(sizes', given', marred')
    BY <2>2, <2>4, <2>5
  <2>7. given' \in 0..MaxBarcodes
    BY <1>0, <2>2, <2>3
  <2>8. marred' \subseteq {"labels", "barcodes"}
    BY <1>0, <2>2, ClashIs
  <2> QED BY <2>6, <2>7, <2>8 DEF SizesInv, Sound
<1>4. ASSUME NEW i \in DOMAIN sizes, BarcodeMissing(i) PROVE SizesInv'
  <2>1. /\ sizes' = [sizes EXCEPT ![i].barcode = NoBarcode] /\ given' = given
        /\ marred' = marred \cup {"barcodes"}
    BY <1>4 DEF BarcodeMissing
  <2>2. /\ sizes \in Seq(CardSizeRecords)
        /\ \A k \in DOMAIN sizes : /\ sizes[k] \in CardSizeRecords /\ sizes[k].barcode \in -1..given /\ sizes[k].chrt \in 1..given
        /\ \A j, k \in DOMAIN sizes : j # k => (sizes[j].tech = sizes[k].tech => "labels" \in marred)
    <3>1. /\ \A k \in DOMAIN sizes : sizes[k].barcode \in -1..given /\ sizes[k].chrt \in 1..given
          /\ \A j, k \in DOMAIN sizes : j # k => Apart(sizes[j], sizes[k], marred)
      BY <1>0 DEF Sound
    <3>2. \A k \in DOMAIN sizes : sizes[k] \in CardSizeRecords
      BY <1>0
    <3> QED BY <1>0, <3>1, <3>2 DEF Apart
  <2>3. [sizes[i] EXCEPT !.barcode = NoBarcode] \in CardSizeRecords
    BY <2>2 DEF CardSizeRecords, NoBarcode
  <2>4. sizes' \in Seq(CardSizeRecords) /\ DOMAIN sizes' = DOMAIN sizes
    BY <2>1, <2>2, <2>3
  <2>5. \A k \in DOMAIN sizes : /\ sizes'[k].tech = sizes[k].tech /\ sizes'[k].chrt = sizes[k].chrt
                                /\ sizes'[k].barcode = NoBarcode \/ sizes'[k].barcode = sizes[k].barcode
    BY <2>1, <2>2 DEF CardSizeRecords
  <2>6. \A k \in DOMAIN sizes' : /\ sizes'[k].barcode \in -1..given' /\ sizes'[k].chrt \in 1..given'
                                 /\ sizes'[k].barcode = NoBarcode => "barcodes" \in marred'
    BY <1>0, <2>1, <2>2, <2>4, <2>5 DEF NoBarcode
  <2>7. \A j, k \in DOMAIN sizes' : j # k => Apart(sizes'[j], sizes'[k], marred')
    BY <2>1, <2>2, <2>4, <2>5 DEF Apart
  <2>8. Sound(sizes', given', marred')
    BY <2>4, <2>6, <2>7 DEF Sound
  <2> QED BY <1>0, <2>1, <2>8 DEF SizesInv, Sound
<1>5. ASSUME TrashSizes PROVE SizesInv'
  <2>1. sizes' = <<>> /\ given' = given /\ marred' = {}
    BY <1>5 DEF TrashSizes
  <2>2. Sound(<<>>, given, {})
    BY EmptySound, <1>0
  <2> QED BY <1>0, <2>1, <2>2 DEF SizesInv, Sound
<1>6. CASE UNCHANGED sizeVars
  BY <1>6 DEF sizeVars, SizesInv, Sound
<1> QED BY <1>2, <1>3, <1>4, <1>5, <1>6 DEF SizesNext

LEMMA SizesStart == SizesInit => SizesInv
BY SizeAssumptions, EmptySound DEF SizesInit, SizesInv

\* Labels, barcodes and size ids keep their types.
THEOREM SizeTypesCorrect == SizesSpec => []SizesTypeOK
<1>1. SizesInv => SizesTypeOK
  <2> SUFFICES ASSUME SizesInv
               PROVE  /\ \A i \in DOMAIN sizes : /\ sizes[i].tech \in Labels /\ sizes[i].chrt \in 1..MaxBarcodes
                                                 /\ sizes[i].barcode \in -1..MaxBarcodes
                      /\ given \in 0..MaxBarcodes /\ marred \subseteq {"labels", "barcodes"}
    BY DEF SizesTypeOK
  <2>1. /\ \A i \in DOMAIN sizes : /\ sizes[i] \in CardSizeRecords /\ sizes[i].barcode \in -1..given
                                   /\ sizes[i].chrt \in 1..given
        /\ given \in 0..MaxBarcodes /\ MaxBarcodes \in Nat
    <3>1. Sound(sizes, given, marred) /\ given \in 0..MaxBarcodes /\ MaxBarcodes \in Nat
      BY SizeAssumptions DEF SizesInv
    <3>2. /\ sizes \in Seq(CardSizeRecords)
          /\ \A i \in DOMAIN sizes : sizes[i].barcode \in -1..given /\ sizes[i].chrt \in 1..given
      BY <3>1 DEF Sound
    <3> QED BY <3>1, <3>2
  <2>2. ASSUME NEW i \in DOMAIN sizes
        PROVE  sizes[i].tech \in Labels /\ sizes[i].chrt \in 1..MaxBarcodes /\ sizes[i].barcode \in -1..MaxBarcodes
    <3>1. sizes[i] \in CardSizeRecords /\ sizes[i].barcode \in -1..given /\ sizes[i].chrt \in 1..given
      BY <2>1
    <3> QED BY <2>1, <3>1 DEF CardSizeRecords
  <2> QED BY <2>1, <2>2 DEF SizesInv
<1> QED BY <1>1, SizesStart, SizesStep, PTL DEF SizesSpec

\* The sizes of a card share a label or a barcode only as CardSizes says, whatever
\* the numbered labels are, through any uploads, updates, repairs and deletions.
THEOREM CardSizesStay == SizesSpec => []CardSizes
<1>1. SizesInv => CardSizes
  BY DEF SizesInv, Sound, Apart, CardSizes
<1> QED BY <1>1, SizesStart, SizesStep, PTL DEF SizesSpec

-----------------------------------------------------------------------------
(* WbMapper, for any brand directory, cap and lengths of names.             *)

\* A brand is picked of a directory that holds brands of Wildberries only.
MapperInv == MapperTypeOK /\ ValuesAccepted

\* A directory cut down holds nothing it did not hold before.
LEMMA CompactIs ==
  ASSUME NEW keep
  PROVE  ToSet(CompactWbBrandDirectory(BrandDirectory, keep)) \subseteq ToSet(BrandDirectory)
<1> DEFINE names == BrandDirectory
           S == ToSet(names)
           Those(name) == Sublist(names, {i \in DOMAIN names : names[i] = name})
           chosen == Those(Generic) \o Those(keep)
           first == Joined(<<>>, chosen)
           all == Joined(first, names)
           m == Greater(Len(first), Lesser(BrandCap, Len(all)))
<1>1. names \in Seq(S) /\ BrandCap \in Nat
  BY MapperAssumptions
<1>2. \A name : Those(name) \in Seq(S)
  <2> SUFFICES ASSUME NEW name PROVE Those(name) \in Seq(S)
    OBVIOUS
  <2> DEFINE P == {i \in DOMAIN names : names[i] = name}
  <2>1. P \in SUBSET (DOMAIN names)
    OBVIOUS
  <2> HIDE DEF P, S
  <2>2. Sublist(names, P) \in Seq(S)
    BY <1>1, <2>1, SublistIs
  <2> QED BY <2>2 DEF P
<1> HIDE DEF Those, S
<1>3. chosen \in Seq(S) /\ <<>> \in Seq(S)
  BY <1>2
<1> HIDE DEF chosen
<1>4. first \in Seq(S)
  BY <1>3, JoinedIs
<1> HIDE DEF first
<1>5. all \in Seq(S) /\ Len(all) >= Len(first)
  <2>1. /\ all \in Seq(S) /\ Len(all) = Len(first) + Cardinality(NewPlaces(first, names))
        /\ Cardinality(NewPlaces(first, names)) \in Nat
    BY <1>1, <1>4, JoinedIs
  <2> QED BY <2>1, <1>4
<1> HIDE DEF all
<1>6. m \in Nat /\ m <= Len(all)
  BY <1>1, <1>4, <1>5 DEF Greater, Lesser
<1> HIDE DEF m
<1>7. SubSeq(all, 1, m) \in Seq(S)
  <2>1. 1 \in Int /\ m \in Int /\ \A i \in 1..m : all[i] \in S
    BY <1>5, <1>6
  <2> QED BY <2>1, SubSeqProperties
<1>8. CompactWbBrandDirectory(names, keep) = SubSeq(all, 1, m)
  BY DEF CompactWbBrandDirectory, Those, chosen, first, all, m
<1>9. ToSet(SubSeq(all, 1, m)) \subseteq S
  BY <1>7 DEF ToSet
<1> QED BY <1>8, <1>9 DEF S

\* A brand sent is one of the directory, the shop's own or a generic one.
LEMMA BrandSent ==
  ASSUME MapperTypeOK, NEW crawled, NEW answered \in BOOLEAN, ListBrand(crawled, answered)
  PROVE  MapperTypeOK' /\ ValuesAccepted'
<1> DEFINE directory == LoadSubjectBrands(crawled, answered)
           read == IF LooksUp(crawled) THEN directory ELSE <<>>
           brand == ResolveWbBrand(crawled, read)
<1>1. brands' = (IF LooksUp(crawled) THEN directory ELSE brands) /\ sent' = [brand |-> brand]
  BY DEF ListBrand
<1>2. ToSet(<<>>) = {} /\ NoBrand \notin ToSet(BrandDirectory) /\ NoBrand # Generic
  BY MapperAssumptions DEF ToSet
<1>3. ToSet(directory) \subseteq ToSet(BrandDirectory) \cup {NoBrand, Generic}
  BY <1>2, CompactIs DEF MapperTypeOK, LoadSubjectBrands
<1>4. MapperTypeOK'
  BY <1>1, <1>3 DEF MapperTypeOK
<1> HIDE DEF directory
<1>5. brand \in (ToSet(BrandDirectory) \cup {Generic, ShopBrand}) \ {NoBrand}
  <2>1. CASE ShopBrand # NoBrand
    BY <2>1 DEF ResolveWbBrand
  <2>2. CASE ShopBrand = NoBrand /\ LooksUp(crawled)
    <3>1. crawled # NoBrand /\ (crawled \in ToSet(directory) => crawled \in ToSet(BrandDirectory) \cup {Generic})
      BY <2>2, <1>3 DEF LooksUp
    <3> QED BY <2>2, <3>1, <1>2 DEF ResolveWbBrand
  <2>3. CASE ShopBrand = NoBrand /\ ~LooksUp(crawled)
    <3>1. brand = Generic
      BY <2>3, <1>2 DEF ResolveWbBrand
    <3> QED BY <3>1, <1>2
  <2> QED BY <2>1, <2>2, <2>3
<1> HIDE DEF brand
<1>6. DOMAIN sent' = {"brand"} /\ sent'.brand = brand
  BY <1>1
<1>7. ValuesAccepted'
  BY <1>5, <1>6 DEF ValuesAccepted, BrandAccepted
<1> QED BY <1>4, <1>7

\* No collected value of an enumeration, and nothing required left out unnoticed.
LEMMA CharacteristicSent ==
  ASSUME NEW group \in Groups, NEW value \in {"none", "raw"}, NEW directory \in DirectoryKinds,
         NEW required \in BOOLEAN, NEW skipped \in BOOLEAN
  PROVE  LET c == MapWbCharacteristic(group, value, directory, required, skipped) IN
         /\ (c.group \in {"color", "gender", "country", "season"} /\ c.directory # "empty") => c.value # "raw"
         /\ (c.required /\ ~c.passed) => c.missing = (c.value = "none")
<1> DEFINE found == CharacteristicValue(group, value, directory, required)
           passed == skipped \/ group = "size"
           c == MapWbCharacteristic(group, value, directory, required, skipped)
<1>1. c = [group |-> group, directory |-> directory, required |-> required,
           value |-> IF passed THEN "none" ELSE found,
           missing |-> ~passed /\ required /\ found = "none", passed |-> passed]
  BY DEF MapWbCharacteristic
<1>2. group \in {"color", "gender", "country", "season"} /\ directory # "empty" => found # "raw"
  <2>1. \A fallbacks \in BOOLEAN : directory # "empty" => PickDirectoryValue(value, directory, fallbacks) # "raw"
    BY DEF PickDirectoryValue, DirectoryKinds
  <2>2. CASE group = "color"
    <3>1. found = ResolveWbColorValue(value, directory, required)
      BY <2>2 DEF CharacteristicValue
    <3> QED BY <2>1, <3>1 DEF ResolveWbColorValue
  <2>3. CASE group = "gender" \/ group = "season"
    <3>1. found = PickDirectoryValue(value, directory, required)
      BY <2>3 DEF CharacteristicValue
    <3> QED BY <2>1, <3>1
  <2>4. CASE group = "country"
    <3>1. found = PickDirectoryValue(value, directory, TRUE)
      BY <2>4 DEF CharacteristicValue
    <3> QED BY <2>1, <3>1
  <2> QED BY <2>2, <2>3, <2>4
<1> HIDE DEF found
<1>3. /\ c.group = group /\ c.directory = directory /\ c.required = required /\ c.passed = passed
      /\ c.value = (IF passed THEN "none" ELSE found)
      /\ c.missing = (~passed /\ required /\ found = "none")
  BY <1>1
<1> HIDE DEF c
<1>4. (c.group \in {"color", "gender", "country", "season"} /\ c.directory # "empty") => c.value # "raw"
  BY <1>2, <1>3
<1>5. (c.required /\ ~c.passed) => c.missing = (c.value = "none")
  BY <1>3
<1> QED BY <1>4, <1>5 DEF c

\* How good a subject is: the same name scores 124 for the first query, and no
\* other meeting that much unless it outranks.
LEMMA ScoreIs ==
  ASSUME NEW meeting \in Meetings
  PROVE  /\ SubjectScore(meeting, 0) \in Nat /\ SubjectScore(meeting, 1) \in Nat
         /\ meeting.kind = "same" => SubjectScore(meeting, 0) = 124
         /\ SubjectScore(meeting, 0) >= 124 => meeting.kind = "same" \/ Outranks(meeting)
         /\ SubjectScore(meeting, 1) >= 124 => Outranks(meeting)
<1>1. Greater(0, 24 - 0 * 6) = 24 /\ Greater(0, 24 - 1 * 6) = 18
  BY DEF Greater
<1>2. CASE meeting.kind = "same"
  BY <1>1, <1>2 DEF SubjectScore
<1>3. CASE meeting.kind = "within"
  <2>1. meeting.n \in Nat
    BY <1>3, MapperAssumptions DEF Meetings
  <2> QED BY <1>1, <1>3, <2>1 DEF SubjectScore, Outranks
<1>4. CASE meeting.kind = "withinLonger"
  <2>1. meeting.n \in Nat
    BY <1>4, MapperAssumptions DEF Meetings
  <2> QED BY <1>1, <1>4, <2>1 DEF SubjectScore, Outranks
<1>5. CASE meeting.kind = "words"
  <2>1. meeting.n \in Nat
    BY <1>5, MapperAssumptions DEF Meetings
  <2> QED BY <1>1, <1>5, <2>1 DEF SubjectScore, Outranks
<1>6. CASE meeting.kind = "stem"
  BY <1>1, <1>6 DEF SubjectScore
<1>7. CASE meeting.kind = "apart"
  BY <1>1, <1>7 DEF SubjectScore
<1> QED BY <1>2, <1>3, <1>4, <1>5, <1>6, <1>7 DEF Meetings

\* A subject named like the first query is picked, or one that outranks it.
LEMMA SubjectPicked ==
  ASSUME NEW meetings \in [1..2 -> [1..2 -> Meetings]], NEW s \in DOMAIN meetings, meetings[s][1].kind = "same"
  PROVE  LET subject == PickWbSubject(meetings) IN
         /\ subject # 0
         /\ meetings[subject][1].kind = "same" \/ \E q \in DOMAIN meetings[subject] : Outranks(meetings[subject][q])
<1> DEFINE Scores(k) == {SubjectScore(meetings[k][q], q - 1) : q \in DOMAIN meetings[k]}
           Best(k) == CHOOSE n \in Scores(k) :
                        \A q \in DOMAIN meetings[k] : SubjectScore(meetings[k][q], q - 1) <= n
           best == {k \in DOMAIN meetings : \A l \in DOMAIN meetings : Best(l) <= Best(k)}
           first == CHOOSE k \in best : \A l \in best : k <= l
           Good(k) == meetings[k][1].kind = "same" \/ \E q \in DOMAIN meetings[k] : Outranks(meetings[k][q])
<1>1. DOMAIN meetings = {1, 2} /\ \A k \in {1, 2} : DOMAIN meetings[k] = {1, 2} /\ \A q \in {1, 2} : meetings[k][q] \in Meetings
  OBVIOUS
<1>2. ASSUME NEW k \in {1, 2}
      PROVE  /\ Best(k) \in Nat /\ (Best(k) >= 124 => Good(k))
             /\ meetings[k][1].kind = "same" => Best(k) >= 124
  <2> DEFINE a == SubjectScore(meetings[k][1], 0)
             b == SubjectScore(meetings[k][2], 1)
  <2>1. /\ a \in Nat /\ b \in Nat /\ (a >= 124 => Good(k)) /\ (b >= 124 => Good(k))
        /\ meetings[k][1].kind = "same" => a = 124
    BY <1>1, ScoreIs
  <2>2. SubjectScore(meetings[k][1], 1 - 1) = a /\ SubjectScore(meetings[k][2], 2 - 1) = b
    OBVIOUS
  <2> HIDE DEF a, b, Good
  <2>3. Scores(k) = {a, b}
    BY <1>1, <2>2
  <2>4. \A n : (\A q \in DOMAIN meetings[k] : SubjectScore(meetings[k][q], q - 1) <= n) <=> a <= n /\ b <= n
    BY <1>1, <2>2
  <2>5. Best(k) = CHOOSE n \in {a, b} : a <= n /\ b <= n
    BY <2>3, <2>4
  <2> HIDE DEF Best, Scores
  <2>6. \E n \in {a, b} : a <= n /\ b <= n
    BY <2>1
  <2>7. Best(k) \in {a, b} /\ a <= Best(k) /\ b <= Best(k)
    BY <2>5, <2>6
  <2> QED BY <2>1, <2>7
<1> HIDE DEF Best, Good
<1>3. s \in {1, 2} /\ Best(s) >= 124 /\ Best(1) \in Nat /\ Best(2) \in Nat
  BY <1>1, <1>2
<1>4. first \in best
  <2>1. best \in SUBSET {1, 2} /\ best # {}
    BY <1>1, <1>3
  <2>2. \E k \in best : \A l \in best : k <= l
    BY <2>1
  <2> HIDE DEF best
  <2> QED BY <2>2
<1>5. Best(first) >= 124 /\ first \in {1, 2} /\ Best(first) \in Nat
  <2>1. first \in {1, 2} /\ Best(s) <= Best(first)
    BY <1>1, <1>3, <1>4
  <2> HIDE DEF first
  <2> QED BY <1>3, <2>1
<1>6. PickWbSubject(meetings) = IF Best(first) >= 25 THEN first ELSE 0
  BY DEF PickWbSubject, Best
<1> HIDE DEF first
<1>7. PickWbSubject(meetings) = first
  BY <1>5, <1>6
<1>8. Good(first) /\ first # 0
  BY <1>2, <1>5
<1> QED BY <1>7, <1>8 DEF Good

\* A description within its limit, or 80 if that is more, whatever its length was.
LEMMA DescriptionIs ==
  ASSUME NEW length \in {120, 900, 1600, 2400}, NEW limit \in {40, 100, 1000, 2000}
  PROVE  /\ DescriptionLength(length, limit) \in 40..1900
         /\ DescriptionLength(length, limit) <= Greater(80, limit)
<1> DEFINE max == Greater(80, Lesser(limit, 1900))
           least == Lesser(1000, (max * 6) \div 10)
           more == (Greater(0, least - length) + Filler - 1) \div Filler
           reached == length + Filler * more
<1>1. max \in 80..1900 /\ max <= Greater(80, limit) /\ Greater(80, limit) \in Nat
  BY DEF Greater, Lesser
<1> HIDE DEF max
<1>2. least \in 0..1000
  BY <1>1 DEF Lesser
<1> HIDE DEF least
<1>3. Greater(0, least - length) \in Nat
  BY <1>2 DEF Greater
<1>4. more \in Nat
  BY <1>3 DEF Filler
<1> HIDE DEF more
<1>5. reached \in Nat /\ reached >= 120
  BY <1>4 DEF Filler
<1>6. DescriptionLength(length, limit) = Lesser(reached, max)
  BY DEF DescriptionLength, max, least, more
<1> HIDE DEF reached
<1> QED BY <1>1, <1>5, <1>6 DEF Lesser

LEMMA MapperStart == MapperInit => MapperInv
<1> SUFFICES ASSUME MapperInit PROVE MapperInv
  OBVIOUS
<1>1. brands = <<NoBrand>> /\ sent = [nothing |-> TRUE]
  BY DEF MapperInit, NotRead, Undecided
<1>2. MapperTypeOK
  BY <1>1 DEF MapperTypeOK, ToSet
<1>3. DOMAIN sent = {"nothing"}
  BY <1>1
<1> QED BY <1>2, <1>3 DEF MapperInv, ValuesAccepted

LEMMA MapperStep == MapperInv /\ [MapperNext]_mapperVars => MapperInv'
<1> SUFFICES ASSUME MapperInv, [MapperNext]_mapperVars PROVE MapperInv'
  OBVIOUS
<1>1. ASSUME NEW crawled, NEW answered \in BOOLEAN, ListBrand(crawled, answered) PROVE MapperInv'
  BY <1>1, BrandSent DEF MapperInv
<1>2. ASSUME ForgetBrands PROVE MapperInv'
  <2>1. brands' = <<NoBrand>> /\ sent' = sent
    BY <1>2 DEF ForgetBrands, NotRead
  <2>2. MapperTypeOK'
    BY <2>1 DEF MapperTypeOK, ToSet
  <2>3. ValuesAccepted'
    BY <2>1 DEF MapperInv, ValuesAccepted, BrandAccepted, CharacteristicAccepted, SubjectNamed, DescriptionFits
  <2> QED BY <2>2, <2>3 DEF MapperInv
<1>3. ASSUME UNCHANGED brands PROVE MapperTypeOK'
  BY <1>3 DEF MapperInv, MapperTypeOK
<1>4. ASSUME Pushed PROVE MapperInv'
  <2>1. UNCHANGED brands /\ sent' = [nothing |-> TRUE]
    BY <1>4 DEF Pushed, Undecided
  <2>2. DOMAIN sent' = {"nothing"}
    BY <2>1
  <2> QED BY <1>3, <2>1, <2>2 DEF MapperInv, ValuesAccepted
<1>5. ASSUME NEW group \in Groups, NEW value \in {"none", "raw"}, NEW directory \in DirectoryKinds,
             NEW required \in BOOLEAN, NEW skipped \in BOOLEAN,
             ListCharacteristic(group, value, directory, required, skipped)
      PROVE  MapperInv'
  <2> DEFINE c == MapWbCharacteristic(group, value, directory, required, skipped)
  <2>1. UNCHANGED brands /\ sent' = [characteristic |-> c]
    BY <1>5 DEF ListCharacteristic
  <2>2. /\ (c.group \in {"color", "gender", "country", "season"} /\ c.directory # "empty") => c.value # "raw"
        /\ (c.required /\ ~c.passed) => c.missing = (c.value = "none")
    BY CharacteristicSent
  <2> HIDE DEF c
  <2>3. DOMAIN sent' = {"characteristic"} /\ sent'.characteristic = c
    BY <2>1
  <2> QED BY <1>3, <2>1, <2>2, <2>3 DEF MapperInv, ValuesAccepted, CharacteristicAccepted
<1>6. ASSUME NEW meetings \in [1..2 -> [1..2 -> Meetings]], ListSubject(meetings) PROVE MapperInv'
  <2> DEFINE subject == PickWbSubject(meetings)
  <2>1. UNCHANGED brands /\ sent' = [subject |-> subject, meetings |-> meetings]
    BY <1>6 DEF ListSubject
  <2>2. (\E s \in DOMAIN meetings : meetings[s][1].kind = "same") =>
          /\ subject # 0
          /\ meetings[subject][1].kind = "same" \/ \E q \in DOMAIN meetings[subject] : Outranks(meetings[subject][q])
    BY SubjectPicked
  <2> HIDE DEF subject
  <2>3. DOMAIN sent' = {"subject", "meetings"} /\ sent'.subject = subject /\ sent'.meetings = meetings
    BY <2>1
  <2>4. SubjectNamed'
    BY <2>2, <2>3 DEF SubjectNamed
  <2> QED BY <1>3, <2>1, <2>3, <2>4 DEF MapperInv, ValuesAccepted
<1>7. ASSUME NEW length \in {120, 900, 1600, 2400}, NEW limit \in {40, 100, 1000, 2000}, ListDescription(length, limit)
      PROVE  MapperInv'
  <2> DEFINE described == DescriptionLength(length, limit)
  <2>1. UNCHANGED brands /\ sent' = [description |-> described, limit |-> limit]
    BY <1>7 DEF ListDescription
  <2>2. described \in 40..1900 /\ described <= Greater(80, limit)
    BY DescriptionIs
  <2> HIDE DEF described
  <2>3. DOMAIN sent' = {"description", "limit"} /\ sent'.description = described /\ sent'.limit = limit
    BY <2>1
  <2> QED BY <1>3, <2>1, <2>2, <2>3 DEF MapperInv, ValuesAccepted, DescriptionFits
<1>8. CASE UNCHANGED mapperVars
  BY <1>8 DEF mapperVars, MapperInv, MapperTypeOK, ValuesAccepted, BrandAccepted, CharacteristicAccepted,
              SubjectNamed, DescriptionFits
<1> QED BY <1>1, <1>2, <1>4, <1>5, <1>6, <1>7, <1>8 DEF MapperNext

\* What is sent is what Wildberries takes: a brand it knows, no collected value of
\* an enumeration, the category named like the first query or one that scores as
\* high by a long match, whatever the lengths, and a description that fits.
THEOREM ValuesStayAccepted == MapperSpec => []ValuesAccepted
<1>1. MapperInv => ValuesAccepted
  BY DEF MapperInv
<1> QED BY <1>1, MapperStart, MapperStep, PTL DEF MapperSpec

\* What the mapper sends and remembers keeps its type, whatever is listed (WbMapper).
THEOREM MapperTypesCorrect == MapperSpec => []MapperTypeOK
<1>1. MapperInv => MapperTypeOK
  BY DEF MapperInv
<1> QED BY <1>1, MapperStart, MapperStep, PTL DEF MapperSpec

-----------------------------------------------------------------------------
(* MCWildberries, where these parts are checked side by side.              *)

partVars == <<part, stockVars, limiterVars, catalogVars, cardVars, sizeVars, mapperVars, photoVars>>

\* A step of one part leaves every other part alone.
LEMMA PartsApart ==
  ASSUME [Next]_partVars
  PROVE  /\ part' = part
         /\ [StockNext]_stockVars /\ [LimiterNext]_limiterVars /\ [CatalogNext]_catalogVars
         /\ [CardNext]_cardVars /\ [SizesNext]_sizeVars /\ [MapperNext]_mapperVars /\ [PhotosNext]_photoVars
BY DEF Next, partVars

\* Side by side each part is itself: what is proved of it holds in the run.
LEMMA PartsHold ==
  Spec => StockSpec /\ LimiterSpec /\ CatalogSpec /\ CardSpec /\ SizesSpec /\ MapperSpec /\ PhotosSpec
<1>1. Init => StockInit /\ LimiterInit /\ CatalogInit /\ CardInit /\ SizesInit /\ MapperInit /\ PhotosInit
  BY DEF Init
<1>2. [Next]_partVars =>
         /\ [StockNext]_stockVars /\ [LimiterNext]_limiterVars /\ [CatalogNext]_catalogVars
         /\ [CardNext]_cardVars /\ [SizesNext]_sizeVars /\ [MapperNext]_mapperVars /\ [PhotosNext]_photoVars
  BY PartsApart
<1> QED BY <1>1, <1>2, PTL DEF Spec, partVars, StockSpec, LimiterSpec, CatalogSpec, CardSpec, SizesSpec,
        MapperSpec, PhotosSpec

\* Every variable of every part stays in its type, whichever part is at work and for any
\* constants: each operation of seven components writes what its readers expect.
THEOREM WildberriesTypesCorrect == Spec => []TypesOK
<1>1. StockTypeOK /\ LimiterTypeOK /\ CatalogTypeOK /\ CardTypeOK /\ SizesTypeOK /\ MapperTypeOK /\ PhotoTypeOK
      => TypesOK
  BY DEF TypesOK
<1> QED BY <1>1, PartsHold, StockTypesCorrect, LimiterTypeCorrect, MemoryKeepsBound, CardTypesCorrect,
        SizeTypesCorrect, MapperTypesCorrect, PhotoTypesCorrect, PTL
=============================================================================
