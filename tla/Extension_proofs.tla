-------------------------- MODULE Extension_proofs --------------------------
(***************************************************************************)
(* Proofs about four parts of the collector extension that share no state: *)
(* its polling (CollectorPolling), where a product's measures come from    *)
(* (HarvestMeasures), the deliveries it asks for (HarvestWidgets), and the *)
(* links it reads of a listing (ListingHarvest); and about MCPlatform,     *)
(* where these and the components of Platform_proofs stand side by side.   *)
(***************************************************************************)
EXTENDS MCPlatform, Platform_proofs, Lists_proofs

-----------------------------------------------------------------------------
(* CollectorPolling, for any polls, tabs and items.                        *)

Places == {"off", "sweep", "swept", "claim", "second", "run"}

PollRows == [at : Places, loop : BOOLEAN, latest : BOOLEAN, overrun : BOOLEAN]

\* What the lock and the loop are made of.
LockTyped ==
  /\ poll \in [Poll -> PollRows]
  /\ loops \in Nat

\* One poll has the latest number, and it works.
OneLatest ==
  \A p \in Poll : poll[p].latest => /\ Active(p)
                                    /\ \A q \in Poll : poll[q].latest => p = q

\* A poll that is not running belongs to no loop.
OffApart == \A p \in Poll : poll[p].at = "off" => ~poll[p].loop

\* A worker that is still starting polls nothing.
StartsQuiet == startup # "up" => ~polling

\* Who works and was not overrun has the lock, and nobody has a later number.
HasLock ==
  \A p \in Poll : Active(p) /\ ~poll[p].overrun => busy /\ \A q \in Poll : poll[q].latest => q = p

\* LockMatchesPoll needs OneLatest, or a poll that leaves could free the lock under
\* another with the same number; OneAtWork needs HasLock, as a lock found free must
\* have no poll at work; LoopSurvives needs StartsQuiet, as a worker that resumes
\* without the saved flag starts no loop.
LockInv ==
  /\ LockTyped /\ OneLatest /\ OffApart /\ LockMatchesPoll
  /\ HasLock /\ OneAtWork /\ LoopSurvives /\ StartsQuiet

lockVars == <<poll, busy, polling, loops, starting, startup>>

-----------------------------------------------------------------------------
\* What a poll that takes the lock makes of the polls.
LEMMA EnterIs ==
  ASSUME LockTyped, NEW p \in Poll, NEW loop \in BOOLEAN, NEW force \in BOOLEAN, Enter(p, loop, force)
  PROVE  /\ poll' \in [Poll -> PollRows]
         /\ poll'[p].at = "claim" /\ poll'[p].loop = loop /\ poll'[p].latest /\ ~poll'[p].overrun
         /\ \A q \in Poll : q # p =>
              /\ poll'[q].at = poll[q].at /\ poll'[q].loop = poll[q].loop /\ ~poll'[q].latest
              /\ poll'[q].overrun = (poll[q].overrun \/ (force /\ Active(q)))
<1>1. [at |-> "claim", loop |-> loop, latest |-> TRUE, overrun |-> FALSE] \in PollRows
  BY DEF PollRows, Places
<1>2. \A q \in Poll : /\ Active(q) \in BOOLEAN
                      /\ poll[q] \in PollRows
  BY DEF Active, LockTyped
<1>3. \A q \in Poll : [poll[q] EXCEPT !.latest = FALSE, !.overrun = @ \/ (force /\ Active(q))] \in PollRows
  BY <1>2 DEF PollRows
<1>4. poll' = [q \in Poll |->
        IF q = p THEN [at |-> "claim", loop |-> loop, latest |-> TRUE, overrun |-> FALSE]
        ELSE [poll[q] EXCEPT !.latest = FALSE, !.overrun = @ \/ (force /\ Active(q))]]
  BY DEF Enter
<1>5. poll' \in [Poll -> PollRows]
  BY <1>1, <1>3, <1>4
<1>6. \A q \in Poll : q # p => poll'[q] = [poll[q] EXCEPT !.latest = FALSE, !.overrun = @ \/ (force /\ Active(q))]
  BY <1>4
<1>7. \A q \in Poll : q # p =>
        /\ poll'[q].at = poll[q].at /\ poll'[q].loop = poll[q].loop /\ ~poll'[q].latest
        /\ poll'[q].overrun = (poll[q].overrun \/ (force /\ Active(q)))
  BY <1>2, <1>6 DEF PollRows
<1> QED BY <1>4, <1>5, <1>7

\* A poll takes the lock, free or over whoever has it; the others are outdated.
LEMMA EnterKeeps ==
  ASSUME LockInv, NEW p \in Poll, NEW loop \in BOOLEAN, NEW force \in BOOLEAN, Enter(p, loop, force),
         force \/ ~busy, UNCHANGED <<polling, starting, startup>>,
         \/ loops' = loops /\ (poll[p].loop => loop)
         \/ loops > 0 /\ loops' = loops - 1 /\ loop
  PROVE  LockInv'
<1>1. /\ poll' \in [Poll -> PollRows]
      /\ poll'[p].at = "claim" /\ poll'[p].loop = loop /\ poll'[p].latest /\ ~poll'[p].overrun
      /\ \A q \in Poll : q # p =>
           /\ poll'[q].at = poll[q].at /\ poll'[q].loop = poll[q].loop /\ ~poll'[q].latest
           /\ poll'[q].overrun = (poll[q].overrun \/ (force /\ Active(q)))
  BY EnterIs DEF LockInv
<1>2. LockTyped'
  BY <1>1 DEF LockInv, LockTyped
<1>3. OneLatest' /\ OffApart'
  BY <1>1 DEF OneLatest, Active, OffApart, LockInv
<1>4. LockMatchesPoll'
  BY <1>1 DEF LockMatchesPoll, Active, Enter
<1>5. \A q \in Poll : q # p /\ (Active(q))' => poll'[q].overrun
  BY <1>1 DEF LockInv, HasLock, Active
<1>6. HasLock' /\ OneAtWork'
  BY <1>1, <1>5 DEF HasLock, OneAtWork, Enter
<1>7. LoopSurvives'
  BY <1>1 DEF LoopSurvives, LockInv, LockTyped
<1> QED BY <1>2, <1>3, <1>4, <1>6, <1>7 DEF LockInv, StartsQuiet

\* What a poll that finds the lock stuck makes of the polls: none has the latest number.
LEMMA SweepIs ==
  ASSUME LockTyped, NEW p \in Poll, NEW loop \in BOOLEAN,
         poll' = Latest(p, [at |-> "sweep", loop |-> loop, latest |-> FALSE, overrun |-> FALSE])
  PROVE  /\ poll' \in [Poll -> PollRows]
         /\ poll'[p].at = "sweep" /\ poll'[p].loop = loop /\ ~poll'[p].latest /\ ~poll'[p].overrun
         /\ \A q \in Poll : q # p =>
              /\ poll'[q].at = poll[q].at /\ poll'[q].loop = poll[q].loop /\ ~poll'[q].latest
              /\ poll'[q].overrun = poll[q].overrun
<1>1. [at |-> "sweep", loop |-> loop, latest |-> FALSE, overrun |-> FALSE] \in PollRows
  BY DEF PollRows, Places
<1>2. \A q \in Poll : [poll[q] EXCEPT !.latest = FALSE] \in PollRows
  BY DEF LockTyped, PollRows
<1>3. poll' \in [Poll -> PollRows]
  BY <1>1, <1>2 DEF Latest
<1>4. \A q \in Poll : q # p => poll'[q] = [poll[q] EXCEPT !.latest = FALSE]
  BY DEF Latest
<1> QED BY <1>3, <1>4 DEF Latest, LockTyped, PollRows

\* A poll starts: with a free lock it takes it; with a stuck one whoever had it is
\* outdated, and the sweep begins.
LEMMA PollOnceKeeps ==
  ASSUME LockInv, NEW p \in Poll, NEW loop \in BOOLEAN, PollOnce(p, loop),
         \/ loops' = loops /\ ~loop
         \/ loops > 0 /\ loops' = loops - 1 /\ loop
  PROVE  LockInv'
<1>1. poll[p].at = "off" /\ ~poll[p].loop /\ UNCHANGED <<polling, starting, startup>>
  BY DEF PollOnce, OffApart, LockInv
<1>2. CASE ~busy /\ Enter(p, loop, FALSE)
  BY <1>1, <1>2, EnterKeeps
<1>3. CASE busy /\ poll' = Latest(p, [at |-> "sweep", loop |-> loop, latest |-> FALSE, overrun |-> FALSE]) /\ busy' = busy
  <2>1. /\ poll' \in [Poll -> PollRows]
        /\ poll'[p].at = "sweep" /\ poll'[p].loop = loop /\ ~poll'[p].latest /\ ~poll'[p].overrun
        /\ \A q \in Poll : q # p =>
             /\ poll'[q].at = poll[q].at /\ poll'[q].loop = poll[q].loop /\ ~poll'[q].latest
             /\ poll'[q].overrun = poll[q].overrun
    BY <1>3, SweepIs DEF LockInv
  <2>2. LockTyped'
    BY <2>1 DEF LockInv, LockTyped
  <2>3. /\ \A q \in Poll : ~poll'[q].latest
        /\ poll'[p].at = "sweep" /\ poll'[p].loop = loop
    BY <2>1
  <2>4. OneLatest' /\ OffApart'
    BY <2>1, <2>3 DEF OneLatest, OffApart, LockInv
  <2>5. LockMatchesPoll'
    BY <2>3 DEF LockMatchesPoll
  <2>6. \A q \in Poll : (Active(q))' => Active(q) /\ poll'[q].overrun = poll[q].overrun
    BY <2>1, <2>3 DEF Active
  <2>7. HasLock' /\ OneAtWork'
    BY <1>3, <2>3, <2>6 DEF HasLock, OneAtWork, LockInv
  <2>8. LoopSurvives'
    BY <1>1, <2>1, <2>3 DEF LoopSurvives, LockInv, LockTyped
  <2> QED BY <1>1, <2>2, <2>4, <2>5, <2>7, <2>8 DEF LockInv, StartsQuiet
<1> QED BY <1>2, <1>3 DEF PollOnce

\* A poll leaves: the latest frees the lock, a loop's arms the next turn.
LEMMA LeaveKeeps == ASSUME LockInv, NEW p \in Poll, LeavePoll(p), Active(p) PROVE LockInv'
<1>1. \A q \in Poll : /\ q # p => poll'[q] = poll[q]
                      /\ poll'[p].at = "off" /\ ~poll'[p].latest /\ ~poll'[p].loop
  BY DEF LeavePoll, NoPoll, LockInv, LockTyped
<1>2. LockTyped'
  <2>1. NoPoll \in PollRows
    BY DEF NoPoll, PollRows, Places
  <2>2. poll' \in [Poll -> PollRows]
    BY <2>1 DEF LeavePoll, LockInv, LockTyped
  <2>3. loops' \in Nat
    BY DEF LeavePoll, LockInv, LockTyped
  <2> QED BY <2>2, <2>3 DEF LeavePoll, LockInv, LockTyped
<1>3. OneLatest' /\ OffApart'
  BY <1>1 DEF OneLatest, LockInv, Active, OffApart
<1>4. LockMatchesPoll' /\ HasLock'
  <2>1. CASE poll[p].latest
    <3>1. busy' = FALSE /\ \A q \in Poll \ {p} : ~poll[q].latest
      BY <2>1 DEF LeavePoll, LockInv, OneLatest
    <3>2. \A q \in Poll : Active(q) /\ ~poll[q].overrun => q = p
      BY <2>1 DEF LockInv, HasLock
    <3> QED BY <1>1, <3>1, <3>2 DEF LockMatchesPoll, HasLock, Active
  <2>2. CASE ~poll[p].latest
    <3>1. busy' = busy
      BY <2>2 DEF LeavePoll
    <3> QED BY <1>1, <2>2, <3>1 DEF LockMatchesPoll, HasLock, LockInv, Active
  <2> QED BY <2>1, <2>2
<1>5. OneAtWork'
  BY <1>1 DEF OneAtWork, LockInv, Active
<1>6. LoopSurvives'
  BY <1>1 DEF LoopSurvives, LeavePoll, LockInv, LockTyped
<1> QED BY <1>2, <1>3, <1>4, <1>5, <1>6 DEF LockInv, StartsQuiet, LeavePoll

\* A poll goes on with its work, or with its sweep.
LEMMA PollGoesOn ==
  ASSUME LockInv, NEW p \in Poll, NEW at \in Places, poll' = [poll EXCEPT ![p].at = at],
         \/ Active(p) /\ at \in {"second", "run"}
         \/ poll[p].at = "sweep" /\ at = "swept",
         UNCHANGED <<busy, polling, loops, starting, startup>>
  PROVE  LockInv'
<1>1. \A q \in Poll : /\ q # p => poll'[q] = poll[q]
                      /\ poll'[p].at = at /\ poll'[p].latest = poll[p].latest /\ poll'[p].loop = poll[p].loop
                      /\ poll'[p].overrun = poll[p].overrun
  BY DEF LockInv, LockTyped, PollRows
<1>2. LockTyped'
  BY DEF LockInv, LockTyped, PollRows
<1>3. OneLatest' /\ OffApart'
  BY <1>1 DEF OneLatest, LockInv, Active, OffApart
<1>4. LockMatchesPoll'
  BY <1>1 DEF LockMatchesPoll, LockInv, OneLatest, Active
<1>5. HasLock' /\ OneAtWork'
  BY <1>1 DEF HasLock, OneAtWork, LockInv, Active
<1>6. LoopSurvives'
  BY <1>1 DEF LoopSurvives, LockInv
<1> QED BY <1>2, <1>3, <1>4, <1>5, <1>6 DEF LockInv, StartsQuiet

\* What does not touch the lock, the loop or the polls.
LEMMA LockUnchanged == LockInv /\ UNCHANGED lockVars => LockInv'
BY DEF LockInv, LockTyped, OneLatest, OffApart, LockMatchesPoll,
        HasLock, OneAtWork, LoopSurvives, StartsQuiet, Active, lockVars

\* A new loop, or the end of one that is not wanted.
LEMMA LoopsChange ==
  ASSUME LockInv, UNCHANGED <<poll, busy>>,
         \/ loops' = loops + 1 /\ startup' = "up"
         \/ loops > 0 /\ loops' = loops - 1 /\ ~polling /\ polling' = polling /\ startup' = startup
         \/ polling' = FALSE /\ loops' = loops
         \/ loops' = loops /\ starting' # "no" /\ startup' = "up"
         \/ ~polling /\ polling' = polling /\ loops' = loops
  PROVE  LockInv'
<1>1. LockTyped' /\ OneLatest' /\ OffApart' /\ LockMatchesPoll' /\ HasLock' /\ OneAtWork'
  BY DEF LockInv, LockTyped, OneLatest, OffApart, LockMatchesPoll, HasLock, OneAtWork, Active
<1>2. LoopSurvives' /\ StartsQuiet'
  BY DEF LoopSurvives, StartsQuiet, LockInv, LockTyped
<1> QED BY <1>1, <1>2 DEF LockInv

\* The worker dies: no poll and no loop is left, and the next one is quiet.
LEMMA DieKeeps == ASSUME LockInv, Die PROVE LockInv'
<1>1. \A p \in Poll : poll'[p] = NoPoll
  BY DEF Die
<1>2. poll' \in [Poll -> PollRows]
  BY DEF Die, NoPoll, PollRows, Places
<1> QED BY <1>1, <1>2 DEF Die, NoPoll, LockInv, LockTyped, OneLatest, OffApart, LockMatchesPoll,
        HasLock, OneAtWork, LoopSurvives, StartsQuiet, Active

\* Every step keeps lock and loop.
LEMMA LockStep == LockInv /\ [PollingNext]_pollVars => LockInv'
<1> SUFFICES ASSUME LockInv, [PollingNext]_pollVars PROVE LockInv'
  OBVIOUS
<1>1. ASSUME NEW p \in Poll, LoopTurn(p) PROVE LockInv'
  BY <1>1, PollOnceKeeps DEF LoopTurn
<1>2. ASSUME NEW p \in Poll, AlarmFires(p) PROVE LockInv'
  BY <1>2, PollOnceKeeps DEF AlarmFires
<1>3. ASSUME NEW p \in Poll, Sweep(p) PROVE LockInv'
  BY <1>3, PollGoesOn DEF Sweep, Places
<1>4. ASSUME NEW p \in Poll, Unlock(p) PROVE LockInv'
  <2>1. poll[p].loop \in BOOLEAN
    BY DEF LockInv, LockTyped, PollRows
  <2> QED BY <1>4, <2>1, EnterKeeps DEF Unlock
<1>5. ASSUME NEW p \in Poll, Claim(p) PROVE LockInv'
  BY <1>5, LeaveKeeps, PollGoesOn DEF Claim, Run, Active, Places
<1>6. ASSUME NEW p \in Poll, ClaimSecond(p) PROVE LockInv'
  BY <1>6, LeaveKeeps, PollGoesOn DEF ClaimSecond, Run, Active, Places
<1>7. ASSUME NEW p \in Poll, Done(p) PROVE LockInv'
  BY <1>7, LeaveKeeps DEF Done, Active
<1>8. ASSUME NEW p \in Poll, NEW s \in Slot,
             TakeSecond(p) \/ Open(p, s) \/ Note(p, s) \/ Close(p, s) \/ Drop(p, s) \/ Answer(p, s)
      PROVE  LockInv'
  BY <1>8, LockUnchanged DEF TakeSecond, Open, Note, Close, Drop, Answer, Move, lockVars
<1>9. CASE StuckNow \/ LoopFails \/ UNCHANGED pollVars
  BY <1>9, LockUnchanged DEF StuckNow, LoopFails, pollVars, lockVars
<1>10. CASE LoopEnds \/ Stop \/ Start
  BY <1>10, LoopsChange DEF LoopEnds, Stop, Start
<1>11. CASE StartSweeps
  <2>1. UNCHANGED <<poll, busy, polling, loops, startup>> /\ starting' = "swept"
    BY <1>11 DEF StartSweeps
  <2> QED BY <1>11, <2>1 DEF StartSweeps, LockInv, LockTyped, OneLatest, OffApart, LockMatchesPoll,
        HasLock, OneAtWork, LoopSurvives, StartsQuiet, Active
<1>12. CASE Started
  <2>1. UNCHANGED <<poll, busy, polling, startup>> /\ loops' = loops + 1
    BY <1>12 DEF Started
  <2> QED BY <2>1 DEF LockInv, LockTyped, OneLatest, OffApart, LockMatchesPoll,
        HasLock, OneAtWork, LoopSurvives, StartsQuiet, Active
<1>13. CASE Startup
  <2>1. UNCHANGED <<poll, busy, polling, loops>> /\ ~polling
    BY <1>13 DEF Startup, LockInv, StartsQuiet
  <2> QED BY <2>1, LoopsChange
<1>14. CASE Resume
  <2>1. UNCHANGED <<poll, busy>> /\ startup' = "up" /\ ~polling
    BY <1>14 DEF Resume, LockInv, StartsQuiet
  <2> QED BY <1>14, <2>1, LoopsChange DEF Resume
<1>15. CASE Die
  BY <1>15, DieKeeps
<1> QED BY <1>1, <1>2, <1>3, <1>4, <1>5, <1>6, <1>7, <1>8, <1>9, <1>10, <1>11, <1>12, <1>13, <1>14, <1>15
        DEF PollingNext, Slot

-----------------------------------------------------------------------------
\* What a slot holds: nothing, an item to open or to answer, an item whose tab
\* is being listed, read or unlisted, or an item that waits for the first slot.
Fresh == [at : {"open", "answer"}, item : Item]
Tabbed == [at : {"note", "page", "drop"}, item : Item, tab : Tab, ids : SUBSET Tab]
Waiting == [at : {"wait"}, item : Item, next : Fresh]
JobRows == {NoJob} \cup Fresh \cup Tabbed \cup Waiting

JobTyped == listed \subseteq Tab /\ forgotten \subseteq Item /\ job \in [Poll -> [Slot -> JobRows]]

\* A poll that has not claimed yet works on nothing; one that claimed once has
\* its first slot filled and its second one free.
SlotsFree ==
  \A p \in Poll :
    /\ poll[p].at \in {"off", "sweep", "swept", "claim"} => \A s \in Slot : job[p][s] = NoJob
    /\ poll[p].at = "second" => job[p][1] # NoJob /\ job[p][2] = NoJob

\* The item that follows the first one is the one that was claimed.
SameNext ==
  \A p \in Poll, s \in Slot : job[p][s].at = "wait" => job[p][s].next.item = job[p][s].item

\* ItemsAnswered, slot by slot.
InSlot(i) == \E p \in Poll, s \in Slot : job[p][s] # NoJob /\ job[p][s].item = i
Due == owed \ forgotten
DueInSlots == \A i \in Due : InSlot(i)

\* A claim overwrites slots and a poll that leaves clears them: SlotsFree says that
\* no item is lost by it but the one a failed second claim forgets.
WorkInv == LockTyped /\ JobTyped /\ SlotsFree /\ SameNext /\ DueInSlots

\* The set of worked-on items, read as a quantifier.
LEMMA DueIsAnswered == DueInSlots => ItemsAnswered
<1> SUFFICES ASSUME DueInSlots, NEW i \in owed \ forgotten
             PROVE  i \in {job[w[1]][w[2]].item : w \in {v \in Poll \X Slot : job[v[1]][v[2]] # NoJob}}
  BY DEF ItemsAnswered
<1>1. PICK p \in Poll, s \in Slot : job[p][s] # NoJob /\ job[p][s].item = i
  BY DEF DueInSlots, Due, InSlot
<1>2. <<p, s>> \in Poll \X Slot /\ <<p, s>>[1] = p /\ <<p, s>>[2] = s
  OBVIOUS
<1>3. <<p, s>> \in {v \in Poll \X Slot : job[v[1]][v[2]] # NoJob}
  BY <1>1, <1>2
<1> QED BY <1>1, <1>2, <1>3

\* A new job is one of the rows, holds its item, and is some work.
LEMMA JobsRow ==
  ASSUME NEW i \in Item, NEW k \in Kinds
  PROVE  Jobs(i, k) \in Fresh /\ Jobs(i, k) \in JobRows /\ Jobs(i, k) # NoJob /\ Jobs(i, k).item = i
         /\ Jobs(i, k).at # "wait"
BY DEF Jobs, Fresh, JobRows, NoJob, Kinds

\* The polls move and no slot changes: nobody starts to claim with work in hand.
LEMMA WorkUnchanged ==
  ASSUME WorkInv, LockTyped', UNCHANGED <<job, owed, forgotten>>, listed' = listed \/ listed' = {},
         \A p \in Poll : \/ poll'[p].at = poll[p].at
                         \/ poll[p].at \in {"off", "sweep", "swept"} /\ poll'[p].at # "second"
  PROVE  WorkInv'
<1>1. JobTyped' /\ SameNext'
  BY DEF WorkInv, JobTyped, SameNext
<1>2. SlotsFree'
  BY DEF WorkInv, SlotsFree, JobTyped
<1>3. DueInSlots'
  BY DEF WorkInv, DueInSlots, InSlot, Due
<1> QED BY <1>1, <1>2, <1>3 DEF WorkInv

\* One slot changes, and its item goes on or has been answered.
LEMMA MoveKeeps ==
  ASSUME WorkInv, NEW p \in Poll, NEW s \in Slot, NEW new \in JobRows,
         job' = [job EXCEPT ![p][s] = new], new.at # "wait", poll[p].at = "run",
         UNCHANGED <<poll, loops>>, listed' \subseteq Tab,
         forgotten' = forgotten,
         \/ owed' = owed /\ new # NoJob /\ new.item = job[p][s].item
         \/ owed' = owed \ {job[p][s].item}
  PROVE  WorkInv'
<1>1. JobTyped' /\ LockTyped'
  BY DEF WorkInv, JobTyped, LockTyped
<1>2. /\ job'[p][s] = new
      /\ \A q \in Poll, r \in Slot : q # p \/ r # s => job'[q][r] = job[q][r]
  BY DEF WorkInv, JobTyped
<1>3. SlotsFree' /\ SameNext'
  BY <1>2 DEF WorkInv, SlotsFree, SameNext
<1>4. DueInSlots'
  <2> SUFFICES ASSUME NEW i \in Due' PROVE InSlot(i)'
    BY DEF DueInSlots
  <2>1. PICK q \in Poll, r \in Slot : job[q][r] # NoJob /\ job[q][r].item = i
    BY DEF WorkInv, DueInSlots, InSlot, Due
  <2>2. \/ q # p \/ r # s
        \/ new # NoJob /\ new.item = job[p][s].item
    BY <2>1 DEF Due
  <2> QED BY <1>2, <2>1, <2>2 DEF InSlot
<1> QED BY <1>1, <1>3, <1>4 DEF WorkInv

\* A poll takes work: its slots were free, and what it took is in them.
LEMMA TakeKeeps ==
  ASSUME WorkInv, LockTyped', NEW p \in Poll, listed' = listed,
         job' \in [Poll -> [Slot -> JobRows]],
         forgotten' \subseteq forgotten,
         \A q \in Poll : q # p => poll'[q] = poll[q] /\ job'[q] = job[q],
         poll'[p].at = "run" \/ (poll'[p].at = "second" /\ job'[p][1] # NoJob /\ job'[p][2] = NoJob),
         \A s \in Slot : job'[p][s].at = "wait" => job'[p][s].next.item = job'[p][s].item,
         \A s \in Slot : job[p][s] # NoJob => job'[p][s] # NoJob /\ job'[p][s].item = job[p][s].item,
         \A i \in Due' \ Due : \E s \in Slot : job'[p][s] # NoJob /\ job'[p][s].item = i
  PROVE  WorkInv'
<1>1. JobTyped'
  BY DEF WorkInv, JobTyped
<1>2. SlotsFree' /\ SameNext'
  BY DEF WorkInv, SlotsFree, SameNext
<1>3. DueInSlots'
  <2> SUFFICES ASSUME NEW i \in Due' PROVE InSlot(i)'
    BY DEF DueInSlots
  <2>1. CASE i \notin Due
    BY <2>1 DEF InSlot
  <2>2. CASE i \in Due
    <3>1. PICK q \in Poll, r \in Slot : job[q][r] # NoJob /\ job[q][r].item = i
      BY <2>2 DEF WorkInv, DueInSlots, InSlot
    <3> QED BY <3>1 DEF InSlot
  <2> QED BY <2>1, <2>2
<1> QED BY <1>1, <1>2, <1>3 DEF WorkInv

\* A poll leaves with nothing in hand but items it gives up.
LEMMA LeaveWork ==
  ASSUME WorkInv, LockTyped', NEW p \in Poll, LeavePoll(p), forgotten' \subseteq Item, Due' \subseteq Due,
         \A s \in Slot : job[p][s] # NoJob => job[p][s].item \notin Due'
  PROVE  WorkInv'
<1>1. NoJob \in JobRows
  BY DEF JobRows
<1>2. \A q \in Poll, s \in Slot : job'[q][s] = IF q = p THEN NoJob ELSE job[q][s]
  BY DEF LeavePoll, WorkInv, JobTyped
<1>3. JobTyped'
  BY <1>1 DEF LeavePoll, WorkInv, JobTyped
<1>4. \A q \in Poll : poll'[q] = IF q = p THEN NoPoll ELSE poll[q]
  BY DEF LeavePoll, WorkInv, LockTyped
<1>5. SlotsFree' /\ SameNext'
  BY <1>2, <1>4 DEF WorkInv, SlotsFree, SameNext, NoJob, NoPoll, Slot
<1>6. DueInSlots'
  <2> SUFFICES ASSUME NEW i \in Due' PROVE InSlot(i)'
    BY DEF DueInSlots
  <2>1. PICK q \in Poll, r \in Slot : job[q][r] # NoJob /\ job[q][r].item = i
    BY DEF WorkInv, DueInSlots, InSlot, Due
  <2> QED BY <1>2, <2>1 DEF InSlot
<1> QED BY <1>3, <1>5, <1>6 DEF WorkInv

\* A poll starts or is found stuck: no slot changes.
LEMMA PollOnceWork ==
  ASSUME WorkInv, LockTyped', NEW p \in Poll, NEW loop \in BOOLEAN, PollOnce(p, loop)
  PROVE  WorkInv'
<1>1. poll[p].at = "off" /\ LockTyped /\ UNCHANGED <<job, listed, owed, forgotten>>
  BY DEF PollOnce, WorkInv
<1>2. poll'[p].at \in {"claim", "sweep"} /\ \A q \in Poll : q # p => poll'[q].at = poll[q].at
  <2>1. CASE Enter(p, loop, FALSE)
    BY <1>1, <2>1, EnterIs
  <2>2. CASE poll' = Latest(p, [at |-> "sweep", loop |-> loop, latest |-> FALSE, overrun |-> FALSE])
    BY <1>1, <2>2, SweepIs
  <2> QED BY <2>1, <2>2 DEF PollOnce
<1> QED BY <1>1, <1>2, WorkUnchanged

\* The first claim fills an empty slot, or the poll leaves as it came.
LEMMA ClaimWork == ASSUME WorkInv, LockTyped', NEW p \in Poll, Claim(p) PROVE WorkInv'
<1>1. poll[p].at = "claim" /\ \A s \in Slot : job[p][s] = NoJob
  BY DEF Claim, WorkInv, SlotsFree
<1>2. CASE LeavePoll(p) /\ UNCHANGED <<owed, forgotten>>
  BY <1>1, <1>2, LeaveWork DEF Due, WorkInv, JobTyped
<1>3. CASE ~(LeavePoll(p) /\ UNCHANGED <<owed, forgotten>>)
  <2>1. PICK i \in Item, k \in Kinds :
          /\ Promise(i)
          /\ IF k = "product"
             THEN /\ poll' = [poll EXCEPT ![p].at = "second"]
                  /\ job' = [job EXCEPT ![p][1] = Jobs(i, k)]
             ELSE Run(p, Jobs(i, k), NoJob)
          /\ listed' = listed
    BY <1>3 DEF Claim, Offered, WorkInv, JobTyped
  <2>2. Jobs(i, k) \in JobRows /\ Jobs(i, k) # NoJob /\ Jobs(i, k).item = i /\ Jobs(i, k).at # "wait"
    BY JobsRow
  <2>3. NoJob \in JobRows /\ NoJob.at # "wait"
    BY DEF JobRows, NoJob
  <2>4. /\ job' \in [Poll -> [Slot -> JobRows]]
        /\ \A q \in Poll : q # p => job'[q] = job[q]
        /\ job'[p][1] = Jobs(i, k) /\ job'[p][2] = NoJob
    BY <1>1, <2>1, <2>2, <2>3 DEF Run, WorkInv, JobTyped, Slot
  <2>5. /\ \A q \in Poll : q # p => poll'[q] = poll[q]
        /\ poll'[p].at \in {"second", "run"}
    BY <2>1 DEF Run, WorkInv, LockTyped, PollRows
  <2>6. \A s \in Slot : job'[p][s].at # "wait"
    BY <2>2, <2>3, <2>4 DEF Slot
  <2>7. \A j \in Due' \ Due : \E s \in Slot : job'[p][s] # NoJob /\ job'[p][s].item = j
    BY <2>1, <2>2, <2>4 DEF Slot, Due, Promise
  <2>8. forgotten' \subseteq forgotten /\ listed' = listed /\ job'[p][1] # NoJob
    BY <2>1, <2>2, <2>4 DEF Promise
  <2> QED BY <1>1, <2>4, <2>5, <2>6, <2>7, <2>8, TakeKeeps
<1> QED BY <1>2, <1>3

\* The second claim fills the second slot, leaves it free, or gives the first up.
LEMMA ClaimSecondWork == ASSUME WorkInv, LockTyped', NEW p \in Poll, ClaimSecond(p) PROVE WorkInv'
<1>1. /\ poll[p].at = "second" /\ job[p][1] # NoJob /\ job[p][2] = NoJob
      /\ job[p] \in [Slot -> JobRows]
  BY DEF ClaimSecond, WorkInv, SlotsFree, JobTyped
<1>2. CASE LeavePoll(p) /\ forgotten' = forgotten \cup {job[p][1].item} /\ owed' = owed
  <2>1. job[p][1].item \in Item
    BY <1>1 DEF JobRows, Fresh, Tabbed, Waiting, Slot
  <2>2. forgotten' \subseteq Item
    BY <1>2, <2>1 DEF WorkInv, JobTyped
  <2>3. Due' \subseteq Due /\ job[p][1].item \notin Due'
    BY <1>2 DEF Due
  <2> QED BY <1>1, <1>2, <2>2, <2>3, LeaveWork DEF Slot
<1>3. ASSUME NEW second \in JobRows, Run(p, job[p][1], second), listed' = listed,
             second.at = "wait" => second.next.item = second.item,
             forgotten' \subseteq forgotten, \A j \in Due' \ Due : second # NoJob /\ second.item = j
      PROVE  WorkInv'
  <2>1. /\ job' \in [Poll -> [Slot -> JobRows]]
        /\ \A q \in Poll : q # p => job'[q] = job[q]
        /\ job'[p][1] = job[p][1] /\ job'[p][2] = second
    BY <1>1, <1>3 DEF Run, WorkInv, JobTyped, Slot
  <2>2. /\ \A q \in Poll : q # p => poll'[q] = poll[q]
        /\ poll'[p].at = "run"
    BY <1>3 DEF Run, WorkInv, LockTyped, PollRows
  <2>3. /\ \A s \in Slot : job'[p][s].at = "wait" => job'[p][s].next.item = job'[p][s].item
        /\ \A s \in Slot : job[p][s] # NoJob => job'[p][s] # NoJob /\ job'[p][s].item = job[p][s].item
    BY <1>1, <1>3, <2>1 DEF Slot, WorkInv, SameNext
  <2>4. \A j \in Due' \ Due : \E s \in Slot : job'[p][s] # NoJob /\ job'[p][s].item = j
    BY <1>3, <2>1 DEF Slot
  <2>5. listed' = listed /\ forgotten' \subseteq forgotten
    BY <1>3
  <2> QED BY <2>1, <2>2, <2>3, <2>4, <2>5, TakeKeeps
<1>4. CASE Run(p, job[p][1], NoJob) /\ UNCHANGED <<owed, forgotten>> /\ listed' = listed
  <2>1. NoJob \in JobRows /\ NoJob.at # "wait"
    BY DEF JobRows, NoJob
  <2> QED BY <1>3, <1>4, <2>1 DEF Due
<1>5. ASSUME NEW i \in Item, NEW k \in Kinds, Promise(i), listed' = listed,
             Run(p, job[p][1], IF k = "product" THEN Jobs(i, k)
                               ELSE [at |-> "wait", item |-> i, next |-> Jobs(i, k)])
      PROVE  WorkInv'
  <2>1. Jobs(i, k) \in Fresh /\ Jobs(i, k) \in JobRows /\ Jobs(i, k) # NoJob /\ Jobs(i, k).item = i
        /\ Jobs(i, k).at # "wait"
    BY JobsRow
  <2>2. forgotten' \subseteq forgotten /\ \A j \in Due' \ Due : i = j
    BY <1>5 DEF Promise, Due
  <2>3. CASE k = "product"
    BY <1>3, <1>5, <2>1, <2>2, <2>3
  <2>4. CASE k # "product"
    <3> DEFINE second == [at |-> "wait", item |-> i, next |-> Jobs(i, k)]
    <3>1. second \in JobRows /\ second # NoJob /\ second.item = i /\ second.next.item = i
      BY <2>1 DEF JobRows, Waiting, NoJob
    <3>2. Run(p, job[p][1], second)
      BY <1>5, <2>4
    <3> HIDE DEF second
    <3> QED BY <1>3, <1>5, <2>2, <3>1, <3>2
  <2> QED BY <2>3, <2>4
<1> QED BY <1>2, <1>4, <1>5 DEF ClaimSecond, Offered, WorkInv, JobTyped

\* A step of a slot that opens, lists, reads, closes or unlists a tab, or answers.
LEMMA SlotWork ==
  ASSUME WorkInv, NEW p \in Poll, NEW s \in Slot,
         Open(p, s) \/ Note(p, s) \/ Close(p, s) \/ Drop(p, s) \/ Answer(p, s)
  PROVE  WorkInv'
<1>1. job[p][s] \in JobRows /\ poll[p].at = "run" /\ listed \subseteq Tab
  BY DEF Open, Note, Close, Drop, Answer, At, WorkInv, JobTyped
<1>2. UNCHANGED <<poll, loops, forgotten>>
  BY DEF Open, Note, Close, Drop, Answer, Move
<1>3. CASE Open(p, s)
  <2>1. job[p][s] \in Fresh
    BY <1>1, <1>3 DEF Open, At, JobRows, Fresh, Tabbed, Waiting, NoJob
  <2>2. CASE /\ Move(p, s, [at |-> "answer", item |-> job[p][s].item])
             /\ UNCHANGED <<open, listed, owed, forgotten>>
    <3>1. [at |-> "answer", item |-> job[p][s].item] \in JobRows \ {NoJob}
      BY <2>1 DEF JobRows, Fresh, NoJob
    <3> QED BY <1>1, <1>2, <2>2, <3>1, MoveKeeps DEF Move
  <2>3. ASSUME NEW t \in FreeTab, owed' = owed, listed' = listed,
               Move(p, s, [at |-> "note", item |-> job[p][s].item, tab |-> t, ids |-> listed])
        PROVE  WorkInv'
    <3>1. [at |-> "note", item |-> job[p][s].item, tab |-> t, ids |-> listed] \in JobRows \ {NoJob}
      BY <1>1, <2>1, <2>3 DEF JobRows, Fresh, Tabbed, NoJob, FreeTab
    <3> QED BY <1>1, <1>2, <2>3, <3>1, MoveKeeps DEF Move
  <2> QED BY <1>3, <2>2, <2>3 DEF Open
<1>4. CASE Note(p, s) \/ Close(p, s) \/ Drop(p, s)
  <2>1. job[p][s] \in Tabbed
    BY <1>1, <1>4 DEF Note, Close, Drop, At, JobRows, Fresh, Tabbed, Waiting, NoJob
  <2>2. PICK new \in JobRows \ {NoJob} :
          new.at # "wait" /\ new.item = job[p][s].item /\ job' = [job EXCEPT ![p][s] = new]
    <3>1. CASE Note(p, s)
      <4>1. [job[p][s] EXCEPT !.at = "page", !.ids = {}] \in JobRows \ {NoJob}
        BY <2>1 DEF JobRows, Tabbed, NoJob
      <4> QED BY <2>1, <3>1, <4>1 DEF Note, Move, Tabbed
    <3>2. CASE Close(p, s)
      <4>1. [job[p][s] EXCEPT !.at = "drop", !.ids = listed] \in JobRows \ {NoJob}
        BY <1>1, <2>1 DEF JobRows, Tabbed, NoJob
      <4> QED BY <2>1, <3>2, <4>1 DEF Close, Move, Tabbed
    <3>3. CASE Drop(p, s)
      <4>1. [at |-> "answer", item |-> job[p][s].item] \in JobRows \ {NoJob}
        BY <2>1 DEF JobRows, Fresh, Tabbed, NoJob
      <4> QED BY <3>3, <4>1 DEF Drop, Move
    <3> QED BY <1>4, <3>1, <3>2, <3>3
  <2>3. owed' = owed /\ listed' \subseteq Tab
    BY <1>1, <1>4, <2>1 DEF Note, Close, Drop, Tabbed
  <2> QED BY <1>1, <1>2, <2>2, <2>3, MoveKeeps
<1>5. CASE Answer(p, s)
  <2>1. NoJob \in JobRows /\ NoJob.at # "wait"
    BY DEF JobRows, NoJob
  <2> QED BY <1>1, <1>2, <1>5, <2>1, MoveKeeps DEF Answer, Move
<1> QED BY <1>3, <1>4, <1>5

\* The item that waited takes its turn.
LEMMA SecondWork == ASSUME WorkInv, NEW p \in Poll, TakeSecond(p) PROVE WorkInv'
<1>1. job[p][2] \in Waiting /\ poll[p].at = "run" /\ job[p][2].next.item = job[p][2].item
  BY DEF TakeSecond, At, WorkInv, JobTyped, JobRows, Fresh, Tabbed, NoJob, Slot, SameNext
<1>2. job[p][2].next \in JobRows \ {NoJob} /\ job[p][2].next.at # "wait"
  BY <1>1 DEF Waiting, JobRows, Fresh, NoJob
<1>3. UNCHANGED <<poll, loops, listed, owed, forgotten>> /\ listed \subseteq Tab
  BY DEF TakeSecond, Move, WorkInv, JobTyped
<1>4. job' = [job EXCEPT ![p][2] = job[p][2].next] /\ 2 \in Slot
  BY DEF TakeSecond, Move, Slot
<1> QED BY <1>1, <1>2, <1>3, <1>4, MoveKeeps

\* Every step keeps the items in their slots.
LEMMA SlotsStep == ASSUME WorkInv, LockInv', [PollingNext]_pollVars PROVE WorkInv'
<1>0. LockTyped'
  BY DEF LockInv
<1>1. ASSUME NEW p \in Poll, LoopTurn(p) \/ AlarmFires(p) PROVE WorkInv'
  BY <1>0, <1>1, PollOnceWork DEF LoopTurn, AlarmFires
<1>2. ASSUME NEW p \in Poll, Sweep(p) PROVE WorkInv'
  <2>1. \A q \in Poll : poll'[q].at = poll[q].at \/ (poll[q].at = "sweep" /\ poll'[q].at = "swept")
    BY <1>2 DEF Sweep, WorkInv, LockTyped, PollRows
  <2> QED BY <1>0, <1>2, <2>1, WorkUnchanged DEF Sweep
<1>3. ASSUME NEW p \in Poll, Unlock(p) PROVE WorkInv'
  <2>1. poll[p].loop \in BOOLEAN /\ poll[p].at = "swept" /\ Enter(p, poll[p].loop, TRUE) /\ LockTyped
    BY <1>3 DEF Unlock, WorkInv, LockTyped, PollRows
  <2>2. poll'[p].at = "claim" /\ \A q \in Poll : q # p => poll'[q].at = poll[q].at
    BY <2>1, EnterIs
  <2>3. UNCHANGED <<job, owed, forgotten>> /\ listed' = {}
    BY <1>3 DEF Unlock
  <2> QED BY <1>0, <2>1, <2>2, <2>3, WorkUnchanged
<1>4. ASSUME NEW p \in Poll, Claim(p) \/ ClaimSecond(p) PROVE WorkInv'
  BY <1>0, <1>4, ClaimWork, ClaimSecondWork
<1>5. ASSUME NEW p \in Poll, NEW s \in Slot,
             Open(p, s) \/ Note(p, s) \/ Close(p, s) \/ Drop(p, s) \/ Answer(p, s)
      PROVE  WorkInv'
  BY <1>5, SlotWork
<1>6. ASSUME NEW p \in Poll, Done(p) PROVE WorkInv'
  BY <1>0, <1>6, LeaveWork DEF Done, Due, WorkInv, JobTyped
<1>7. CASE StuckNow \/ LoopFails \/ LoopEnds \/ Start \/ StartSweeps \/ Started \/ Stop \/ Startup \/ Resume
           \/ UNCHANGED pollVars
  <2>1. UNCHANGED <<poll, job, owed, forgotten>> /\ (listed' = listed \/ listed' = {})
    BY <1>7 DEF StuckNow, LoopFails, LoopEnds, Start, StartSweeps, Started, Stop, Startup, Resume, pollVars
  <2> QED BY <1>0, <2>1, WorkUnchanged
<1>8. CASE Die
  <2>1. NoJob \in JobRows /\ NoJob.at # "wait" /\ NoPoll.at = "off"
    BY DEF JobRows, NoJob, NoPoll
  <2>2. JobTyped'
    BY <1>8, <2>1 DEF Die, WorkInv, JobTyped
  <2>3. /\ \A p \in Poll : poll'[p] = NoPoll
        /\ \A p \in Poll, s \in Slot : job'[p][s] = NoJob
    BY <1>8 DEF Die
  <2>4. SlotsFree' /\ SameNext'
    BY <2>1, <2>3 DEF SlotsFree, SameNext, NoPoll, Slot
  <2>5. DueInSlots'
    BY <1>8 DEF Die, DueInSlots, Due
  <2> QED BY <1>0, <2>2, <2>4, <2>5 DEF WorkInv
<1>9. ASSUME NEW p \in Poll, TakeSecond(p) PROVE WorkInv'
  BY <1>9, SecondWork
<1> QED BY <1>1, <1>2, <1>3, <1>4, <1>5, <1>6, <1>7, <1>8, <1>9 DEF PollingNext

-----------------------------------------------------------------------------
\* The rest of the worker's state, and the bound on its timers: a poll of a loop keeps
\* the place of the timer it took.
Looping == {p \in Poll : poll[p].loop}
RestTyped ==
  /\ polling \in BOOLEAN /\ saved \in BOOLEAN /\ alarm \in BOOLEAN /\ busy \in BOOLEAN
  /\ clock \in {"unset", "recent", "stuck"}
  /\ startup \in {"read", "resume", "rest", "up"} /\ starting \in {"no", "sweep", "swept"}
  /\ open \subseteq Tab /\ owed \subseteq Item
TimersBound == loops + Cardinality(Looping) <= MaxLoops + Cardinality(Poll)

LEMMA LoopingFinite == IsFiniteSet(Looping) /\ Cardinality(Looping) \in Nat
                       /\ Cardinality(Looping) <= Cardinality(Poll) /\ Cardinality(Poll) \in Nat
BY PollingAssumptions, FS_Subset, FS_CardinalityType DEF Looping

LEMMA RestStep == LockTyped /\ JobTyped /\ RestTyped /\ [PollingNext]_pollVars => RestTyped'
<1> SUFFICES ASSUME LockTyped, forgotten \subseteq Item, RestTyped, [PollingNext]_pollVars PROVE RestTyped'
  BY DEF JobTyped
<1>1. ASSUME NEW p \in Poll, LoopTurn(p) \/ AlarmFires(p) \/ Sweep(p) \/ Unlock(p) \/ TakeSecond(p) PROVE RestTyped'
  BY <1>1 DEF LoopTurn, AlarmFires, PollOnce, Enter, Sweep, Unlock, TakeSecond, Move, RestTyped
<1>2. ASSUME NEW p \in Poll, Claim(p) PROVE RestTyped'
  <2>1. CASE LeavePoll(p) /\ UNCHANGED <<owed, forgotten>>
    BY <2>1 DEF LeavePoll, RestTyped
  <2>2. ASSUME NEW i \in Offered, Promise(i),
               UNCHANGED <<polling, saved, alarm, loops, busy, clock, startup, starting, open, listed>>
        PROVE  RestTyped'
    BY <2>2 DEF Offered, Promise, RestTyped
  <2> QED BY <1>2, <2>1, <2>2 DEF Claim
<1>3. ASSUME NEW p \in Poll, ClaimSecond(p) PROVE RestTyped'
  BY <1>3 DEF ClaimSecond, Run, LeavePoll, Offered, Promise, RestTyped
<1>4. ASSUME NEW p \in Poll, Done(p) PROVE RestTyped'
  BY <1>4 DEF Done, LeavePoll, RestTyped
<1>5. ASSUME NEW p \in Poll, NEW s \in Slot, Open(p, s) PROVE RestTyped'
  BY <1>5 DEF Open, FreeTab, Move, RestTyped
<1>6. ASSUME NEW p \in Poll, NEW s \in Slot, Note(p, s) \/ Close(p, s) \/ Drop(p, s) \/ Answer(p, s) PROVE RestTyped'
  BY <1>6 DEF Note, Close, Drop, Answer, Move, RestTyped
<1>7. CASE StuckNow \/ LoopFails \/ LoopEnds \/ Start \/ StartSweeps \/ Started \/ Stop \/ Die \/ Startup \/ Resume
           \/ UNCHANGED pollVars
  BY <1>7 DEF StuckNow, LoopFails, LoopEnds, Start, StartSweeps, Started, Stop, Die, Startup, Resume, pollVars, RestTyped
<1> QED BY <1>1, <1>2, <1>3, <1>4, <1>5, <1>6, <1>7 DEF PollingNext

\* A timer's turn becomes a poll of its loop ...
LEMMA TurnBound ==
  ASSUME LockInv, TimersBound, NEW p \in Poll, NEW loop \in BOOLEAN, PollOnce(p, loop),
         \/ loops' = loops /\ ~loop
         \/ loops > 0 /\ loops' = loops - 1 /\ loop
  PROVE  TimersBound'
<1>1. \A q \in Poll : poll'[q].loop = IF q = p THEN loop ELSE poll[q].loop
  <2>1. CASE Enter(p, loop, FALSE)
    BY <2>1, EnterIs DEF LockInv
  <2>2. CASE poll' = Latest(p, [at |-> "sweep", loop |-> loop, latest |-> FALSE, overrun |-> FALSE])
    BY <2>2, SweepIs DEF LockInv
  <2> QED BY <2>1, <2>2 DEF PollOnce
<1>2. p \notin Looping
  BY DEF PollOnce, LockInv, OffApart, Looping
<1>3. Looping' = IF loop THEN Looping \cup {p} ELSE Looping
  BY <1>1, <1>2 DEF Looping
<1>4. Cardinality(Looping \cup {p}) = Cardinality(Looping) + 1
  BY <1>2, LoopingFinite, FS_AddElement
<1>5. MaxLoops \in Nat /\ loops \in Nat
  BY PollingAssumptions DEF LockInv, LockTyped
<1> QED BY <1>3, <1>4, <1>5, LoopingFinite DEF TimersBound

\* ... and that poll, once it leaves, may become a timer again.
LEMMA LeaveBound == ASSUME LockInv, TimersBound, NEW p \in Poll, LeavePoll(p) PROVE TimersBound'
<1>1. \A q \in Poll : poll'[q].loop = IF q = p THEN FALSE ELSE poll[q].loop
  BY DEF LeavePoll, NoPoll, LockInv, LockTyped, PollRows
<1>2. Looping' = Looping \ {p}
  BY <1>1 DEF Looping
<1>3. Cardinality(Looping \ {p}) = IF p \in Looping THEN Cardinality(Looping) - 1 ELSE Cardinality(Looping)
  BY LoopingFinite, FS_RemoveElement
<1>4. loops' = loops \/ (loops' = loops + 1 /\ p \in Looping)
  BY DEF LeavePoll, Looping
<1>5. MaxLoops \in Nat /\ loops \in Nat
  BY PollingAssumptions DEF LockInv, LockTyped
<1> QED BY <1>2, <1>3, <1>4, <1>5, LoopingFinite DEF TimersBound

\* Steps that begin no loop's poll and arm no timer beyond the bound.
LEMMA OtherBound ==
  ASSUME LockInv, LockInv', TimersBound, \A q \in Poll : poll'[q].loop => poll[q].loop,
         loops' <= loops \/ loops' <= MaxLoops
  PROVE  TimersBound'
<1>1. Looping' \subseteq Looping
  BY DEF Looping
<1>2. Cardinality(Looping') <= Cardinality(Looping) /\ Cardinality(Looping') \in Nat
  BY <1>1, LoopingFinite, FS_Subset, FS_CardinalityType
<1>3. MaxLoops \in Nat /\ loops \in Nat /\ loops' \in Nat
  BY PollingAssumptions DEF LockInv, LockTyped
<1> QED BY <1>2, <1>3, LoopingFinite DEF TimersBound

LEMMA BoundStep == ASSUME LockInv, TimersBound, [PollingNext]_pollVars PROVE TimersBound'
<1>0. LockInv' /\ poll \in [Poll -> PollRows] /\ loops \in Nat /\ MaxLoops \in Nat
  BY LockStep, PollingAssumptions DEF LockInv, LockTyped
<1>1. ASSUME NEW p \in Poll, LoopTurn(p) \/ AlarmFires(p) PROVE TimersBound'
  BY <1>1, TurnBound DEF LoopTurn, AlarmFires
<1>2. ASSUME NEW p \in Poll, LeavePoll(p) PROVE TimersBound'
  BY <1>2, LeaveBound
<1>3. ASSUME NEW p \in Poll, Sweep(p) \/ Unlock(p) PROVE TimersBound'
  <2>1. \A q \in Poll : poll'[q].loop = poll[q].loop
    <3>1. CASE Sweep(p)
      BY <1>0, <3>1 DEF Sweep, PollRows
    <3>2. CASE Unlock(p)
      <4>1. poll[p].loop \in BOOLEAN /\ Enter(p, poll[p].loop, TRUE)
        BY <1>0, <3>2 DEF Unlock, PollRows
      <4> QED BY <4>1, EnterIs DEF LockInv
    <3> QED BY <1>3, <3>1, <3>2
  <2>2. loops' = loops
    BY <1>3 DEF Sweep, Unlock
  <2> QED BY <1>0, <2>1, <2>2, OtherBound
<1>4. ASSUME NEW p \in Poll, NEW at \in Places, poll' = [poll EXCEPT ![p].at = at], loops' = loops PROVE TimersBound'
  <2>1. \A q \in Poll : poll'[q].loop = poll[q].loop
    BY <1>0, <1>4 DEF PollRows
  <2> QED BY <1>0, <1>4, <2>1, OtherBound
<1>5. ASSUME NEW p \in Poll, Claim(p) \/ ClaimSecond(p) \/ Done(p) PROVE TimersBound'
  BY <1>2, <1>4, <1>5 DEF Claim, ClaimSecond, Done, Run, Places
<1>6. CASE UNCHANGED <<poll, loops>>
  BY <1>0, <1>6, OtherBound
<1>7. ASSUME NEW p \in Poll, NEW s \in Slot,
             TakeSecond(p) \/ Open(p, s) \/ Note(p, s) \/ Close(p, s) \/ Drop(p, s) \/ Answer(p, s)
      PROVE  TimersBound'
  BY <1>6, <1>7 DEF TakeSecond, Open, Note, Close, Drop, Answer, Move
<1>8. CASE StuckNow \/ LoopFails \/ Start \/ StartSweeps \/ Stop \/ Startup \/ UNCHANGED pollVars
  BY <1>6, <1>8 DEF StuckNow, LoopFails, Start, StartSweeps, Stop, Startup, pollVars
<1>9. CASE LoopEnds \/ Started \/ Resume
  <2>1. poll' = poll /\ (loops' <= loops \/ loops' <= MaxLoops)
    BY <1>0, <1>9 DEF LoopEnds, Started, Resume
  <2> QED BY <1>0, <2>1, OtherBound
<1>10. CASE Die
  <2>1. \A q \in Poll : ~poll'[q].loop
    BY <1>10 DEF Die, NoPoll
  <2>2. loops' <= MaxLoops
    BY <1>0, <1>10 DEF Die
  <2> QED BY <1>0, <2>1, <2>2, OtherBound
<1> QED BY <1>1, <1>3, <1>5, <1>7, <1>8, <1>9, <1>10 DEF PollingNext, Slot

\* The worker's variables keep their types, and its timers their bound, for any polls.
PollingInv == LockInv /\ WorkInv /\ RestTyped /\ TimersBound

LEMMA PollingStarts == PollingInit => PollingInv
<1> SUFFICES ASSUME PollingInit PROVE PollingInv
  OBVIOUS
<1>1. NoPoll \in PollRows /\ NoJob \in JobRows /\ NoJob.at # "wait"
  BY DEF NoPoll, PollRows, Places, NoJob, JobRows
<1>2. \A p \in Poll : poll[p] = NoPoll /\ \A s \in Slot : job[p][s] = NoJob
  BY DEF PollingInit
<1>3. LockTyped /\ JobTyped
  BY <1>1 DEF PollingInit, LockTyped, JobTyped
<1>4. OneLatest /\ OffApart /\ LockMatchesPoll /\ HasLock /\ OneAtWork /\ LoopSurvives /\ StartsQuiet
  BY <1>2 DEF PollingInit, NoPoll, OneLatest, OffApart, LockMatchesPoll,
        HasLock, OneAtWork, LoopSurvives, StartsQuiet, Active
<1>5. SlotsFree /\ SameNext /\ DueInSlots
  BY <1>1, <1>2 DEF PollingInit, NoPoll, SlotsFree, SameNext, DueInSlots, Due, Slot
<1>6. RestTyped
  BY DEF PollingInit, RestTyped
<1>7. TimersBound
  <2>1. loops = 0 /\ MaxLoops \in Nat
    BY PollingAssumptions DEF PollingInit
  <2> QED BY <2>1, LoopingFinite DEF TimersBound
<1> QED BY <1>3, <1>4, <1>5, <1>6, <1>7 DEF LockInv, WorkInv, PollingInv

LEMMA PollingStep == PollingInv /\ [PollingNext]_pollVars => PollingInv'
BY LockStep, SlotsStep, RestStep, BoundStep DEF PollingInv, LockInv, WorkInv

LEMMA PollingTyped == PollingInv => PollingTypeOK
<1> SUFFICES ASSUME PollingInv PROVE PollingTypeOK
  OBVIOUS
<1>1. loops \in 0..(MaxLoops + Cardinality(Poll))
  BY LoopingFinite, PollingAssumptions DEF PollingInv, TimersBound, LockInv, LockTyped
<1>2. \A p \in Poll, s \in Slot : job[p][s].at \in {"none", "wait", "open", "note", "page", "drop", "answer"}
  BY DEF PollingInv, WorkInv, JobTyped, JobRows, NoJob, Fresh, Tabbed, Waiting
<1>3. poll \in [Poll -> [at : {"off", "sweep", "swept", "claim", "second", "run"}, loop : BOOLEAN,
                          latest : BOOLEAN, overrun : BOOLEAN]]
  BY DEF PollingInv, LockInv, LockTyped, PollRows, Places
<1> QED BY <1>1, <1>2, <1>3 DEF PollingInv, RestTyped, WorkInv, JobTyped, PollingTypeOK

\* The lock is kept, two polls are at work only after one took the lock over, a loop
\* goes on, and no claimed item is dropped but the first one of a poll whose second
\* claim failed, however polls, the alarm, the popup and deaths of the worker
\* interleave (pollOnce, pollLoop).
THEOREM WorkerKeepsItsPromises == PollingSpec => []PollingHolds
<1>1. PollingInv => PollingHolds
  BY DueIsAnswered DEF PollingInv, LockInv, WorkInv, PollingHolds
<1> QED BY <1>1, PollingStarts, PollingStep, PTL DEF PollingSpec

\* Whatever polls, alarms, messages and deaths interleave, the worker's variables stay in
\* their types, and its armed timers within the loops begun and the polls (pollLoop).
THEOREM PollingTypesCorrect == PollingSpec => []PollingTypeOK
BY PollingStarts, PollingStep, PollingTyped, PTL DEF PollingSpec

-----------------------------------------------------------------------------
(* HarvestMeasures, whatever page and panel show.                          *)

\* Scores of what a source gives: guesses of the page stay below the panel's.
Measures == [from : Sources, score : {0, 1, 2, 3, 4, 10}]

\* What was read of the panel is in hand from the harvest on, and from the extraction
\* on it stands in the sheet.
PanelInHand ==
  /\ progress = "harvest" => best["parcel"].score \in {0, 1, 2}
  /\ progress # "harvest" /\ "measure" \in seen => dims["parcel"] = "panel"
  /\ progress = "merge" /\ "measure" \in shown => sheet["parcel"] = "panel"
  /\ progress = "seller" /\ "measure" \in shown /\ (seen = {} \/ "measure" \in seen) => sheet["parcel"] = "panel"

MeasureInv == MeasureTypeOK /\ PanelInHand /\ PanelWins

\* Whichever of two measures is the better, it is a measure.
LEMMA BetterTypes ==
  ASSUME NEW entry \in Measures, NEW from \in Sources, NEW score \in {1, 2, 10}
  PROVE  /\ Better(entry, from, score) \in Measures
         /\ entry.score \in {0, 1, 2} /\ score \in {1, 2} => Better(entry, from, score).score \in {0, 1, 2}
BY DEF Better, Measures

\* An object's measures join those found.
LEMMA ObjectTypes ==
  ASSUME NEW b \in [Scope -> Measures], NEW object \in Object
  PROVE  /\ Matched(Collected(b, object), object) \in [Scope -> Measures]
         /\ b["parcel"].score \in {0, 1, 2} => Matched(Collected(b, object), object)["parcel"].score \in {0, 1, 2}
<1>1. /\ ScopeOf(object) \in Scope /\ ScopeOf(object) \in Sources
      /\ (IF object.own THEN 2 ELSE 1) \in {1, 2} /\ "parcel" \in Scope
  BY DEF ScopeOf, Scope, Sources
<1> DEFINE c == Collected(b, object)
<1>2. c \in [Scope -> Measures] /\ (b["parcel"].score \in {0, 1, 2} => c["parcel"].score \in {0, 1, 2})
  <2>1. PICK score \in {1, 2} : score = IF object.own THEN 2 ELSE 1
    BY <1>1
  <2>2. PICK s \in Scope : s = ScopeOf(object) /\ s \in Sources
    BY <1>1
  <2>3. c = [b EXCEPT ![s] = Better(b[s], s, score)]
    BY <2>1, <2>2 DEF Collected
  <2>4. b[s] \in Measures /\ Better(b[s], s, score) \in Measures
        /\ (b[s].score \in {0, 1, 2} => Better(b[s], s, score).score \in {0, 1, 2})
    BY <2>2, BetterTypes
  <2> HIDE DEF c
  <2> QED BY <1>1, <2>3, <2>4
<1> HIDE DEF c
<1>3. CASE Matched(c, object) = c
  BY <1>2, <1>3 DEF c
<1>4. CASE Matched(c, object) # c
  <2>1. PICK s \in Sources : s = ScopeOf(object)
    BY <1>1
  <2>2. Matched(c, object) = [c EXCEPT !["parcel"] = Better(c["parcel"], s, 2)]
    BY <1>4, <2>1 DEF Matched
  <2>3. c["parcel"] \in Measures /\ Better(c["parcel"], s, 2) \in Measures
        /\ (c["parcel"].score \in {0, 1, 2} => Better(c["parcel"], s, 2).score \in {0, 1, 2})
    BY <1>1, <1>2, BetterTypes
  <2> QED BY <1>1, <1>2, <2>2, <2>3 DEF c
<1> QED BY <1>3, <1>4

\* A harvest that has met the panel's measure gives that, whatever else it found.
LEMMA HarvestTypes ==
  ASSUME NEW b \in [Scope -> Measures], NEW fields, NEW met
  PROVE  LET d == DimSpecs(WithRows(WithPanel(b, fields), met))
         IN /\ d \in [Scope -> Sources]
            /\ b["parcel"].score \in {0, 1, 2} /\ "measure" \in fields => d["parcel"] = "panel"
<1>1. Scope = {"goods", "parcel"} /\ Scope \subseteq Sources /\ "panel" \in Sources /\ "none" \in Sources
  BY DEF Scope, Sources
<1> DEFINE p == WithPanel(b, fields)
           r == WithRows(p, met)
<1>2. /\ p \in [Scope -> Measures]
      /\ b["parcel"].score \in {0, 1, 2} /\ "measure" \in fields => p["parcel"].from = "panel"
  <2>1. CASE "measure" \in fields
    <3>1. p = [b EXCEPT !["parcel"] = Better(b["parcel"], "panel", 10)]
      BY <2>1 DEF WithPanel
    <3>2. b["parcel"] \in Measures /\ Better(b["parcel"], "panel", 10) \in Measures
      BY <1>1, BetterTypes
    <3>3. b["parcel"].score \in {0, 1, 2} => Better(b["parcel"], "panel", 10).from = "panel"
      BY DEF Better
    <3> HIDE DEF p
    <3> QED BY <1>1, <3>1, <3>2, <3>3
  <2>2. CASE "measure" \notin fields
    BY <2>2 DEF WithPanel
  <2> QED BY <2>1, <2>2
<1> HIDE DEF p
<1>3. ASSUME NEW n \in Scope
      PROVE  /\ r[n] \in Measures
             /\ p[n].from # "none" => r[n] = p[n]
  BY <1>1, <1>2 DEF WithRows, Measures
<1>4. r \in [Scope -> Measures]
  BY <1>3 DEF WithRows
<1>5. p["parcel"].from = "panel" => r["parcel"].from = "panel"
  BY <1>1, <1>3
<1> HIDE DEF r
<1>6. DimSpecs(r) \in [Scope -> Sources] /\ (r["parcel"].from = "panel" => DimSpecs(r)["parcel"] = "panel")
  BY <1>1, <1>4 DEF DimSpecs, Measures
<1> QED BY <1>2, <1>5, <1>6 DEF r, p

\* Adding to specifications gives specifications, by name.
LEMMA FilledTypes ==
  ASSUME NEW list \in [Scope -> Sources], NEW more \in [Scope -> Sources], NEW fields
  PROVE  /\ Filled(list, more) \in [Scope -> Sources]
         /\ PanelOver(list, fields) \in [Scope -> Sources]
         /\ "measure" \in fields => PanelOver(list, fields)["parcel"] = "panel"
<1>1. Scope = {"goods", "parcel"} /\ "panel" \in Sources
  BY DEF Scope, Sources
<1> QED BY <1>1 DEF Filled, PanelOver

\* Every step of the harvest, the content script, the background script and the panel.
LEMMA MeasureStep == MeasureInv /\ [MeasureNext]_measureVars => MeasureInv'
<1> SUFFICES ASSUME MeasureInv, [MeasureNext]_measureVars PROVE MeasureInv'
  OBVIOUS
<1>0. /\ measure \in {"edges", "weight"} /\ panel \in SUBSET {"measure", "other"}
      /\ seen \in SUBSET {"measure", "other"} /\ shown \in SUBSET {"measure", "other"}
      /\ progress \in {"harvest", "extract", "merge", "seller", "done"} /\ attempt \in {1, 2}
      /\ best \in [Scope -> Measures] /\ rows \subseteq Scope
      /\ dims \in [Scope -> Sources] /\ sheet \in [Scope -> Sources] /\ PanelInHand /\ PanelWins
  BY DEF MeasureInv, MeasureTypeOK, Measures
<1> DEFINE Kept == /\ measure' \in {"edges", "weight"} /\ panel' \in SUBSET {"measure", "other"}
                   /\ seen' \in SUBSET {"measure", "other"} /\ shown' \in SUBSET {"measure", "other"}
                   /\ progress' \in {"harvest", "extract", "merge", "seller", "done"} /\ attempt' \in {1, 2}
                   /\ best' \in [Scope -> Measures] /\ rows' \subseteq Scope
                   /\ dims' \in [Scope -> Sources] /\ sheet' \in [Scope -> Sources] /\ PanelInHand' /\ PanelWins'
<1> SUFFICES Kept
  BY DEF MeasureInv, MeasureTypeOK, Measures
<1>n. NoSource \in [Scope -> Sources] /\ NoSource["parcel"] = "none" /\ "parcel" \in Scope
  BY DEF NoSource, Scope, Sources
<1>1. ASSUME NEW field \in {"measure", "other"}, PanelFills(field) PROVE Kept
  BY <1>0, <1>1 DEF PanelFills, PanelInHand, PanelWins
<1>2. ASSUME NEW object \in Object, IngestObject(object) PROVE Kept
  <2>1. best' \in [Scope -> Measures] /\ (best["parcel"].score \in {0, 1, 2} => best'["parcel"].score \in {0, 1, 2})
    BY <1>0, <1>2, ObjectTypes DEF IngestObject
  <2> QED BY <1>0, <1>2, <2>1 DEF IngestObject, PanelInHand, PanelWins
<1>3. ASSUME NEW n \in Scope, IngestRow(n) PROVE Kept
  BY <1>0, <1>3 DEF IngestRow, PanelInHand, PanelWins
<1>4. CASE HarvestEnds
  <2>1. dims' \in [Scope -> Sources] /\ ("measure" \in seen' => dims'["parcel"] = "panel")
    BY <1>0, <1>4, HarvestTypes DEF HarvestEnds, PanelInHand
  <2> QED BY <1>0, <1>4, <2>1 DEF HarvestEnds, PanelInHand, PanelWins
<1>5. CASE HarvestFails
  BY <1>0, <1>5, <1>n DEF HarvestFails, PanelInHand, PanelWins
<1>6. ASSUME NEW objects \in ObjectSpecs, NEW cells \in CellSpecs, Extract(objects, cells) PROVE Kept
  <2>1. objects \in [Scope -> Sources] /\ cells \in [Scope -> Sources]
    BY DEF ObjectSpecs, CellSpecs, Scope, Sources
  <2>2. Filled(objects, dims) \in [Scope -> Sources]
    BY <1>0, <2>1, FilledTypes
  <2>3. Filled(Filled(objects, dims), cells) \in [Scope -> Sources]
    BY <2>1, <2>2, FilledTypes
  <2>4. sheet' \in [Scope -> Sources] /\ ("measure" \in panel => sheet'["parcel"] = "panel")
    BY <1>6, <2>3, FilledTypes DEF Extract
  <2> QED BY <1>0, <1>6, <2>4 DEF Extract, PanelInHand, PanelWins
<1>7. CASE MergeHarvest
  <2>1. sheet' \in [Scope -> Sources] /\ sheet'["parcel"] \in {sheet["parcel"], dims["parcel"]}
        /\ (sheet["parcel"] # "none" /\ shown # {} /\ seen = {} => sheet'["parcel"] = sheet["parcel"])
    <3>1. PICK keep \in BOOLEAN : keep = (shown # {} /\ seen = {})
      OBVIOUS
    <3>2. sheet' = MergeDimSpecs(sheet, dims, keep)
      BY <1>7, <3>1 DEF MergeHarvest
    <3>3. dims \in [Scope -> Sources] /\ sheet \in [Scope -> Sources]
      BY <1>0
    <3> QED BY <3>1, <3>2, <3>3 DEF MergeDimSpecs, Scope
  <2> QED BY <1>0, <1>7, <2>1 DEF MergeHarvest, PanelInHand, PanelWins
<1>8. ASSUME NEW answer \in {"none", "seller"}, SellerInsight(answer) PROVE Kept
  <2>1. PICK more \in [Scope -> Sources] : more = [NoSource EXCEPT !["parcel"] = answer] /\ more["parcel"] = answer
    <3>1. [NoSource EXCEPT !["parcel"] = answer] \in [Scope -> Sources]
      BY <1>n DEF Sources
    <3>2. [NoSource EXCEPT !["parcel"] = answer]["parcel"] = answer
      BY <1>n
    <3> QED BY <3>1, <3>2
  <2>2. sheet' \in [Scope -> Sources] /\ sheet'["parcel"] \in {sheet["parcel"], answer}
        /\ (answer = "none" => sheet'["parcel"] = sheet["parcel"])
    <3>1. sheet' = MergeDimSpecs(sheet, more, FALSE) /\ sheet \in [Scope -> Sources]
      BY <1>0, <1>8, <2>1 DEF SellerInsight
    <3> QED BY <2>1, <3>1 DEF MergeDimSpecs, Scope
  <2> QED BY <1>0, <1>8, <2>2 DEF SellerInsight, PanelInHand, PanelWins
<1>9. CASE TryAgain
  <2>1. NoBest \in [Scope -> Measures] /\ NoBest["parcel"].score = 0
    BY DEF NoBest, Measures, Scope, Sources
  <2> QED BY <1>0, <1>9, <1>n, <2>1 DEF TryAgain, PanelInHand, PanelWins
<1>10. CASE UNCHANGED measureVars
  BY <1>0, <1>10 DEF measureVars, PanelInHand, PanelWins
<1> HIDE DEF Kept
<1> QED BY <1>1, <1>2, <1>3, <1>4, <1>5, <1>6, <1>7, <1>8, <1>9, <1>10 DEF MeasureNext

\* No panel, no harvest and no sheet at the start.
LEMMA MeasureStarts == MeasureInit => MeasureInv
<1>1. NoSource \in [Scope -> Sources] /\ NoBest \in [Scope -> Measures] /\ NoBest["parcel"].score = 0
  BY DEF NoSource, NoBest, Measures, Scope, Sources
<1> QED BY <1>1 DEF MeasureInit, MeasureInv, MeasureTypeOK, PanelInHand, PanelWins, Measures

\* What the panel shows of the parcel by the time the content script reads it is what
\* the product is sent with, or what the back office says, however the panel fills up
\* meanwhile (background.js 402-406, 452-472, ozon-harvest.js 1117-1146).
THEOREM PanelStands == MeasureSpec => []PanelWins
<1>1. MeasureInv => PanelWins
  BY DEF MeasureInv
<1> QED BY <1>1, MeasureStarts, MeasureStep, PTL DEF MeasureSpec

\* The variables of a collection's measures keep their types.
THEOREM MeasureTypesCorrect == MeasureSpec => []MeasureTypeOK
<1>1. MeasureInv => MeasureTypeOK
  BY DEF MeasureInv
<1> QED BY <1>1, MeasureStarts, MeasureStep, PTL DEF MeasureSpec

-----------------------------------------------------------------------------
(* HarvestWidgets, for any numbers, answers and bounds.                    *)

\* An entry of the queue.
Entries == [known : BOOLEAN, data : {"none", "own", "borrowed"}, important : BOOLEAN]

\* The delivery widgets that can be posted with asyncData.
Ready == {w \in RealDelivery : queue[w].data # "none"}

\* Data belongs to widgets that are queued, and what a layout gave is there.
WidgetInv ==
  /\ queue \in [Widget -> Entries]
  /\ \A w \in Widget : queue[w].data # "none" => queue[w].known
  /\ laid \cap RealDelivery \subseteq Ready
  /\ DeliveriesAsked

\* An entry is filled, never emptied, and one with data is a widget that is queued.
LEMMA RememberKeeps ==
  ASSUME NEW entry \in Entries, entry.data # "none" => entry.known,
         NEW data \in {"none", "own", "borrowed"}, NEW important \in BOOLEAN
  PROVE  /\ Remember(entry, data, important) \in Entries
         /\ Remember(entry, data, important).known
         /\ entry.data # "none" \/ (data # "none" /\ ~entry.known) => Remember(entry, data, important).data # "none"
         /\ data # "none" => Remember(entry, data, important).data # "none"
<1>1. Unknown \in Entries
  BY DEF Unknown, Entries
<1>2. CASE entry.known
  <2>1. Remember(entry, data, important) = [entry EXCEPT !.data = Fill(entry, data), !.important = @ \/ important]
    BY <1>2 DEF Remember
  <2>2. Fill(entry, data) \in {"none", "own", "borrowed"}
        /\ (entry.data # "none" => Fill(entry, data) = entry.data) /\ (entry.data = "none" => Fill(entry, data) = data)
    BY DEF Fill, Entries
  <2>3. PICK i \in BOOLEAN : i = (entry.important \/ important)
    BY DEF Entries
  <2>4. PICK d \in {"none", "own", "borrowed"} : d = Fill(entry, data)
    BY <2>2
  <2>5. Remember(entry, data, important) = [entry EXCEPT !.data = d, !.important = i]
    BY <2>1, <2>3, <2>4
  <2> QED BY <1>2, <2>2, <2>4, <2>5 DEF Entries
<1>3. CASE ~entry.known
  BY <1>3 DEF Remember, Entries
<1> QED BY <1>2, <1>3

\* An answer is taken without loss, and a layout's data is there afterwards.
LEMMA TakenKeeps ==
  ASSUME NEW q \in [Widget -> Entries], \A w \in Widget : q[w].data # "none" => q[w].known, NEW content
  PROVE  /\ Taken(q, content) \in [Widget -> Entries]
         /\ \A w \in Widget : Taken(q, content)[w].data # "none" => Taken(q, content)[w].known
         /\ \A w \in Widget : q[w].data # "none" => Taken(q, content)[w].data # "none"
         /\ \A node \in content.layout : node.data = "own" /\ node.widget \in Widget
              => Taken(q, content)[node.widget].data # "none"
<1> DEFINE layout == content.layout
           states == content.states
           a == TakeLayout(q, layout)
           b == TakeStates(a, states)
           c == Expand(b)
<1>1. ASSUME NEW w \in Widget
      PROVE  /\ a[w] \in Entries
             /\ a[w].data # "none" => a[w].known
             /\ q[w].data # "none" => a[w].data # "none"
             /\ \A node \in layout : node.data = "own" /\ w = node.widget => a[w].data # "none"
  <2>1. PICK nodes : nodes = {node \in layout : w \in IdsOf(node)}
    OBVIOUS
  <2>2. CASE nodes = {}
    <3>1. a[w] = q[w]
      BY <2>1, <2>2 DEF TakeLayout
    <3>2. \A node \in layout : w # node.widget
      BY <2>1, <2>2 DEF IdsOf
    <3> QED BY <3>1, <3>2
  <2>3. CASE nodes # {}
    <3>1. PICK data \in {"none", "own"} : data = IF \E node \in nodes : node.data = "own" THEN "own" ELSE "none"
      OBVIOUS
    <3>2. a[w] = Remember(q[w], data, TRUE)
      BY <2>1, <2>3, <3>1 DEF TakeLayout
    <3>3. \A node \in layout : node.data = "own" /\ w = node.widget => data = "own"
      BY <2>1, <3>1 DEF IdsOf
    <3>4. q[w] \in Entries /\ (q[w].data # "none" => q[w].known)
      OBVIOUS
    <3> HIDE DEF a, layout
    <3> QED BY <3>2, <3>3, <3>4, RememberKeeps
  <2> QED BY <2>2, <2>3
<1>2. a = [w \in Widget |-> a[w]]
  BY DEF TakeLayout
<1> HIDE DEF a
<1>3. ASSUME NEW w \in Widget
      PROVE  /\ b[w] \in Entries
             /\ b[w].data # "none" => b[w].known
             /\ a[w].data # "none" => b[w].data # "none"
  <2>1. b[w] = IF w \in states THEN Remember(a[w], "none", TRUE) ELSE a[w]
    BY DEF TakeStates
  <2>2. Remember(a[w], "none", TRUE) \in Entries /\ Remember(a[w], "none", TRUE).known
        /\ (a[w].data # "none" => Remember(a[w], "none", TRUE).data # "none")
    BY <1>1, RememberKeeps
  <2> HIDE DEF b
  <2> QED BY <1>1, <2>1, <2>2
<1>4. b = [w \in Widget |-> b[w]]
  BY DEF TakeStates
<1> HIDE DEF b
<1>5. ASSUME NEW w \in Widget
      PROVE  /\ c[w] \in Entries
             /\ c[w].data # "none" => c[w].known
             /\ b[w].data # "none" => c[w].data # "none"
  <2>1. PICK lent \in {"none", "borrowed"} :
             lent = IF \E d \in RealDelivery : b[d].known /\ b[d].data # "none" THEN "borrowed" ELSE "none"
    OBVIOUS
  <2>2. PICK real \in BOOLEAN : real = (w \in RealDelivery)
    <3>1. (w \in RealDelivery) \in BOOLEAN
      OBVIOUS
    <3> WITNESS (w \in RealDelivery) \in BOOLEAN
    <3> QED OBVIOUS
  <2>3. \/ c[w] = Remember(b[w], lent, real)
        \/ c[w] = [b[w] EXCEPT !.important = TRUE]
        \/ c[w] = b[w]
    BY <2>1, <2>2 DEF Expand
  <2>4. Remember(b[w], lent, real) \in Entries /\ Remember(b[w], lent, real).known
        /\ (b[w].data # "none" => Remember(b[w], lent, real).data # "none")
    BY <1>3, RememberKeeps
  <2>5. [b[w] EXCEPT !.important = TRUE] \in Entries /\ [b[w] EXCEPT !.important = TRUE].data = b[w].data
        /\ [b[w] EXCEPT !.important = TRUE].known = b[w].known
    BY <1>3 DEF Entries
  <2> HIDE DEF c
  <2> QED BY <1>3, <2>3, <2>4, <2>5
<1>6. c = [w \in Widget |-> c[w]]
  BY DEF Expand
<1> HIDE DEF c
<1>7. c = Taken(q, content)
  BY DEF Taken, a, b, c
<1>8. c \in [Widget -> Entries]
  BY <1>5, <1>6
<1>9. \A node \in layout : node.data = "own" /\ node.widget \in Widget => c[node.widget].data # "none"
  BY <1>1, <1>3, <1>5
<1> QED BY <1>1, <1>3, <1>5, <1>7, <1>8, <1>9

\* The queue has finitely many widgets.
LEMMA FiniteWidgets == IsFiniteSet(Widget) /\ RealDelivery \subseteq Widget
<1>1. IsFiniteSet({"delivery", "alias", "outOfStock", "sale"})
  <2>1. IsFiniteSet({"delivery"}) /\ IsFiniteSet({"outOfStock"})
    BY FS_Singleton
  <2>2. IsFiniteSet({"delivery"} \cup {"alias"}) /\ IsFiniteSet({"outOfStock"} \cup {"sale"})
    BY <2>1, FS_AddElement
  <2>3. IsFiniteSet(({"delivery"} \cup {"alias"}) \cup ({"outOfStock"} \cup {"sale"}))
    BY <2>2, FS_Union
  <2>4. {"delivery", "alias", "outOfStock", "sale"} = ({"delivery"} \cup {"alias"}) \cup ({"outOfStock"} \cup {"sale"})
    OBVIOUS
  <2> QED BY <2>3, <2>4
<1>2. IsFiniteSet(Widget)
  BY <1>1, WidgetAssumptions, FS_Product DEF Widget
<1> QED BY <1>2 DEF Widget, RealDelivery

\* The most pressing are chosen: if no more deliveries have data than may be posted,
\* all of them are.
LEMMA CutTakesReady ==
  ASSUME WidgetInv, CutBatch, Cardinality(Ready) <= MaxWidgets
  PROVE  asked' = Ready
<1>1. PICK cutFor \in SUBSET Wanted :
         /\ Cardinality(cutFor) = IF Cardinality(Wanted) < MaxWidgets THEN Cardinality(Wanted) ELSE MaxWidgets
         /\ \A w \in cutFor, other \in Wanted \ cutFor : Rank(w) >= Rank(other)
         /\ asked' = {w \in cutFor \cap RealDelivery : queue[w].data # "none"}
  BY DEF CutBatch
<1>2. Ready \subseteq Wanted /\ IsFiniteSet(Wanted) /\ IsFiniteSet(Ready)
  <2>1. Ready \subseteq Wanted
    BY FiniteWidgets DEF Ready, Wanted, WidgetInv
  <2>2. IsFiniteSet(Wanted)
    BY FiniteWidgets, FS_Subset DEF Wanted
  <2> QED BY <2>1, <2>2, FS_Subset
<1>3. /\ Cardinality(Ready) \in Nat /\ Cardinality(Wanted) \in Nat /\ MaxWidgets \in Nat
      /\ Cardinality(Ready) <= Cardinality(Wanted)
  BY <1>2, FS_CardinalityType, FS_Subset, WidgetAssumptions
<1>4. ASSUME NEW w \in Ready \ cutFor PROVE FALSE
  <2>1. Rank(w) = 7
    BY <1>4 DEF Rank, Ready
  <2>2. ASSUME NEW x \in cutFor PROVE x \in Ready \ {w}
    <3>1. Rank(x) >= 7
      BY <1>1, <1>2, <1>4, <2>1
    <3> QED BY <1>4, <3>1 DEF Rank, Ready
  <2>3. cutFor \subseteq Ready \ {w}
    BY <2>2
  <2>4. IsFiniteSet(Ready \ {w}) /\ Cardinality(Ready \ {w}) = Cardinality(Ready) - 1
    BY <1>2, <1>4, FS_RemoveElement
  <2>5. Cardinality(cutFor) <= Cardinality(Ready) - 1
    BY <2>3, <2>4, FS_Subset
  <2> QED BY <1>1, <1>3, <2>5
<1> QED BY <1>1, <1>2, <1>4 DEF Ready

LEMMA WidgetStep == WidgetInv /\ [WidgetNext]_widgetVars => WidgetInv'
<1> SUFFICES ASSUME WidgetInv, [WidgetNext]_widgetVars PROVE WidgetInv'
  OBVIOUS
<1>0. /\ queue \in [Widget -> Entries] /\ \A w \in Widget : queue[w].data # "none" => queue[w].known
      /\ laid \cap RealDelivery \subseteq Ready /\ DeliveriesAsked
  BY DEF WidgetInv
<1>1. ASSUME NEW content, queue' = Taken(queue, content)
      PROVE  /\ queue' \in [Widget -> Entries] /\ \A w \in Widget : queue'[w].data # "none" => queue'[w].known
             /\ Ready \subseteq Ready'
  <2>1. queue' \in [Widget -> Entries] /\ \A w \in Widget : queue'[w].data # "none" => queue'[w].known
    BY <1>0, <1>1, TakenKeeps
  <2>2. \A w \in Widget : queue[w].data # "none" => queue'[w].data # "none"
    BY <1>0, <1>1, TakenKeeps
  <2> QED BY <2>1, <2>2, FiniteWidgets DEF Ready
<1>2. ASSUME NEW content, IngestPage(content) PROVE WidgetInv'
  <2>1. laid' \cap RealDelivery \subseteq Ready'
    <3>1. ASSUME NEW w \in RealDelivery, w \in laid' PROVE w \in Ready'
      <4>1. CASE w \in laid
        BY <1>0, <1>1, <1>2, <3>1, <4>1 DEF IngestPage
      <4>2. CASE w \notin laid
        <5>1. PICK node \in content.layout : node.data = "own" /\ w = node.widget
          BY <1>2, <3>1, <4>2 DEF IngestPage
        <5>2. queue' = Taken(queue, content) /\ w \in Widget
          BY <1>2, FiniteWidgets DEF IngestPage
        <5>3. Taken(queue, content)[node.widget].data # "none"
          BY <1>0, <5>1, <5>2, TakenKeeps
        <5> QED BY <5>1, <5>2, <5>3 DEF Ready
      <4> QED BY <4>1, <4>2
    <3> QED BY <3>1
  <2>2. DeliveriesAsked'
    BY <1>2 DEF IngestPage, DeliveriesAsked
  <2> QED BY <1>1, <1>2, <2>1, <2>2 DEF WidgetInv, IngestPage
<1>3. CASE PageFails \/ UNCHANGED widgetVars \/ \E w \in Widget : PostFails(w)
  <2>1. UNCHANGED <<queue, laid, asked>> /\ (batch' # NotYet => batch # NotYet)
    BY <1>3 DEF PageFails, PostFails, widgetVars
  <2> QED BY <1>0, <2>1 DEF WidgetInv, Ready, DeliveriesAsked
<1>4. CASE CutBatch
  <2>1. UNCHANGED <<queue, laid>>
    BY <1>4 DEF CutBatch
  <2>2. ASSUME Cardinality(Ready) <= MaxWidgets PROVE laid' \cap RealDelivery \subseteq asked'
    BY <1>0, <1>4, <2>1, <2>2, CutTakesReady
  <2> QED BY <1>0, <2>1, <2>2 DEF WidgetInv, Ready, DeliveriesAsked
<1>5. ASSUME NEW w \in Widget, NEW content, PostAnswered(w, content) PROVE WidgetInv'
  <2>1. queue' = Taken(queue, content) /\ UNCHANGED <<laid, asked>> /\ batch # NotYet
    BY <1>5 DEF PostAnswered
  <2>2. Ready \subseteq Ready'
    BY <1>1, <2>1
  <2>3. ASSUME Cardinality(Ready') <= MaxWidgets PROVE laid' \cap RealDelivery \subseteq asked'
    <3>1. IsFiniteSet(Ready')
      BY FiniteWidgets, FS_Subset DEF Ready
    <3>2. Cardinality(Ready) <= Cardinality(Ready') /\ Cardinality(Ready) \in Nat /\ Cardinality(Ready') \in Nat
      BY <2>2, <3>1, FS_Subset, FS_CardinalityType
    <3>3. Cardinality(Ready) <= MaxWidgets
      BY <2>3, <3>2, WidgetAssumptions
    <3> QED BY <1>0, <2>1, <3>3 DEF DeliveriesAsked, Ready
  <2> QED BY <1>0, <1>1, <2>1, <2>2, <2>3 DEF WidgetInv, DeliveriesAsked, Ready
<1> QED BY <1>2, <1>3, <1>4, <1>5 DEF WidgetNext

\* The rest of the typing.
WidgetTyped ==
  /\ answers \in 0..MaxAnswers /\ (batch = NotYet \/ batch \subseteq Widget)
  /\ asked \subseteq RealDelivery /\ laid \subseteq Widget

LEMMA WidgetStarts == WidgetInit => WidgetInv /\ WidgetTyped
<1>1. WidgetInit => WidgetInv
  BY DEF WidgetInit, WidgetInv, Unknown, Entries, DeliveriesAsked, Widget, RealDelivery
<1>2. WidgetInit => WidgetTyped
  BY WidgetAssumptions DEF WidgetInit, WidgetTyped
<1> QED BY <1>1, <1>2

LEMMA WidgetTypedStep == WidgetTyped /\ [WidgetNext]_widgetVars => WidgetTyped'
<1> SUFFICES ASSUME WidgetTyped, [WidgetNext]_widgetVars PROVE WidgetTyped'
  OBVIOUS
<1>0. MaxAnswers \in Nat
  BY WidgetAssumptions
<1>1. ASSUME NEW content \in Contents, IngestPage(content) PROVE WidgetTyped'
  <2>1. content.layout \subseteq Node
    BY ContentsAssumption
  <2>2. \A node \in content.layout : node.widget \in Widget
    BY <2>1 DEF Node, Widget
  <2> QED BY <1>0, <1>1, <2>2 DEF IngestPage, WidgetTyped
<1>2. CASE PageFails
  BY <1>0, <1>2 DEF PageFails, WidgetTyped
<1>3. CASE CutBatch
  BY <1>3 DEF CutBatch, Wanted, WidgetTyped
<1>4. ASSUME NEW w \in Widget, PostFails(w) \/ \E content \in Contents : PostAnswered(w, content) PROVE WidgetTyped'
  BY <1>4 DEF PostFails, PostAnswered, WidgetTyped
<1>5. CASE UNCHANGED widgetVars
  BY <1>5 DEF widgetVars, WidgetTyped
<1> QED BY <1>1, <1>2, <1>3, <1>4, <1>5 DEF WidgetNext

LEMMA WidgetTypes == WidgetInv /\ WidgetTyped => WidgetTypeOK
BY DEF WidgetInv, WidgetTyped, WidgetTypeOK, Entries


\* Whatever came first, shell or layout, a delivery widget whose asyncData an answer
\* gave is posted with data, unless there are more of them than may be posted
\* (ozon-harvest.js 1050-1056, 1344-1363, 1381-1383).
THEOREM LaidIsAsked == WidgetSpec => []DeliveriesAsked
<1>1. WidgetInv => DeliveriesAsked
  BY DEF WidgetInv
<1> QED BY <1>1, WidgetStarts, WidgetStep, PTL DEF WidgetSpec

\* Queue, batch and history keep their types, for any numbers, answers and bounds (harvest).
THEOREM WidgetTypesCorrect == WidgetSpec => []WidgetTypeOK
BY WidgetStarts, WidgetStep, WidgetTypedStep, WidgetTypes, PTL DEF WidgetSpec

-----------------------------------------------------------------------------
(* ListingHarvest, for a listing of any length, mounted in parts of any    *)
(* size.                                                                   *)

\* The links are the listing's first ones; what is scrolled past and what was
\* asked of the paginator has been read, so that what is read next leaves no gap.
ListingInv ==
  /\ limit \in Limits /\ loaded \in 0..Tiles
  /\ scrolled \in 0..Bottom(loaded) /\ scrolled <= Len(links)
  /\ links = Ascending(1, Len(links)) /\ Len(links) \in 0..Tiles
  /\ cursor \in 0..Tiles /\ (cursor = 0 \/ limit <= Len(links) \/ (cursor - 1) * PageSize <= Len(links))
  /\ hops \in 0..MaxHops /\ stalls \in 0..MaxStalls /\ rounds \in 1..2
  /\ harvesting \in {"scan", "api", "scroll", "done"} \cup Ended
  /\ taken = Ascending(1, Len(taken)) /\ Len(taken) \in 0..Tiles /\ Len(taken) <= limit
  /\ harvesting \notin Ended => taken = <<>>

\* The numbers from one to another.
LEMMA AscendingIs ==
  ASSUME NEW a \in Nat, NEW b \in Nat
  PROVE  LET s == Ascending(a + 1, b) IN
         /\ s \in Seq(Nat \ {0}) /\ Len(s) = (IF b > a THEN b - a ELSE 0)
         /\ \A i \in 1..Len(s) : s[i] = a + i
<1> DEFINE n == IF b > a THEN b - a ELSE 0
           s == Ascending(a + 1, b)
<1>1. n \in Nat /\ 1..(b - (a + 1) + 1) = 1..n
  OBVIOUS
<1>2. s = [i \in 1..n |-> (a + 1) + i - 1]
  BY <1>1 DEF Ascending
<1> HIDE DEF s, n
<1>3. \A i \in 1..n : s[i] = a + i /\ a + i \in Nat \ {0}
  BY <1>1, <1>2
<1>4. s \in [1..n -> Nat \ {0}]
  BY <1>2, <1>3
<1>5. s \in Seq(Nat \ {0}) /\ Len(s) = n
  BY <1>1, <1>4
<1> QED BY <1>3, <1>5 DEF s, n

LEMMA FirstRanks ==
  ASSUME NEW n \in Nat
  PROVE  /\ Ascending(1, n) \in Seq(Nat \ {0}) /\ Len(Ascending(1, n)) = n
         /\ Ascending(1, n) = [i \in 1..n |-> i]
         /\ \A i \in 1..n : Ascending(1, n)[i] = i
<1>1. /\ Ascending(0 + 1, n) \in Seq(Nat \ {0}) /\ Len(Ascending(0 + 1, n)) = (IF n > 0 THEN n - 0 ELSE 0)
      /\ \A i \in 1..Len(Ascending(0 + 1, n)) : Ascending(0 + 1, n)[i] = 0 + i
  BY AscendingIs
<1>2. Ascending(1, n) = [i \in 1..n |-> i]
  BY DEF Ascending
<1> QED BY <1>1, <1>2

\* Links read from a listing that begin no later than where those so far end
\* join them without a gap.
LEMMA LinksJoin ==
  ASSUME NEW n \in Nat, NEW a \in Nat, NEW b \in Nat, a <= n,
         NEW more \in Seq(Nat \ {0}),
         \A i, k \in DOMAIN more : i <= k => more[i] <= more[k],
         ToSet(more) = (a + 1)..b
  PROVE  PushListingUrls(Ascending(1, n), more) = Ascending(1, IF b > n THEN b ELSE n)
<1> DEFINE list == Ascending(1, n)
           P == NewPlaces(list, more)
           c == Cardinality(P)
           back == Sublist(more, P)
           s == list \o back
           l == n + c
           max == IF b > n THEN b ELSE n
           N == Nat \ {0}
<1>1. /\ list \in Seq(N) /\ Len(list) = n /\ DOMAIN list = 1..n /\ \A i \in 1..n : list[i] = i
      /\ ToSet(list) = 1..n
  <2>1. list \in Seq(N) /\ Len(list) = n /\ \A i \in 1..n : list[i] = i
    BY FirstRanks
  <2> HIDE DEF list
  <2>2. DOMAIN list = 1..n
    BY <2>1
  <2>3. ToSet(list) = 1..n
    BY <2>1, <2>2 DEF ToSet
  <2> QED BY <2>1, <2>2, <2>3
<1> HIDE DEF list
<1>2. P \in SUBSET (DOMAIN more) /\ \A i \in P : more[i] \notin 1..n /\ \A k \in 1..(i - 1) : more[k] # more[i]
  BY <1>1 DEF NewPlaces
<1>3. /\ c \in Nat /\ Joined(list, more) = s /\ s \in Seq(N) /\ Len(s) = l
      /\ ToSet(s) = (1..n) \cup ((a + 1)..b)
  <2>1. Joined(list, more) = s
    BY DEF Joined
  <2> DEFINE j == Joined(list, more)
  <2>2. list \in Seq(N) /\ more \in Seq(N)
    BY <1>1
  <2> HIDE DEF s, N
  <2>3. /\ j \in Seq(N) /\ Len(j) = Len(list) + c /\ c \in Nat
        /\ ToSet(j) = ToSet(list) \cup ToSet(more)
    BY <2>2, JoinedIs
  <2> HIDE DEF j, c
  <2>4. j = s
    BY <2>1 DEF j
  <2>5. s \in Seq(N) /\ Len(s) = l /\ ToSet(s) = (1..n) \cup ((a + 1)..b)
    BY <1>1, <2>3, <2>4
  <2> QED BY <2>1, <2>3, <2>5
<1> HIDE DEF P
<1>4. /\ back \in Seq(N) /\ Len(back) = c
      /\ \A m \in 1..c : NthOf(P, m) \in P /\ back[m] = more[NthOf(P, m)]
      /\ \A j, m \in 1..c : j < m => NthOf(P, j) < NthOf(P, m)
  <2>1. back \in Seq(N) /\ Len(back) = c
    BY <1>2, SublistIs
  <2>2. \A m \in 1..c : NthOf(P, m) \in P /\ back[m] = more[NthOf(P, m)]
    BY <1>2, SublistIs
  <2>3. \A j, m \in 1..c : j < m => NthOf(P, j) < NthOf(P, m)
    BY <1>2, SublistIs
  <2> QED BY <2>1, <2>2, <2>3
<1>5. \A m \in 1..c : back[m] \in Nat /\ back[m] > n
  <2> SUFFICES ASSUME NEW m \in 1..c PROVE back[m] \in Nat /\ back[m] > n
    OBVIOUS
  <2> DEFINE x == NthOf(P, m)
  <2>1. x \in P /\ back[m] = more[x]
    BY <1>4
  <2> HIDE DEF x, back
  <2>2. more[x] \in Nat \ {0} /\ more[x] \notin 1..n
    BY <1>2, <2>1
  <2> QED BY <2>1, <2>2
<1>6. \A j, m \in 1..c : j < m => back[j] < back[m]
  <2> SUFFICES ASSUME NEW j \in 1..c, NEW m \in 1..c, j < m PROVE back[j] < back[m]
    OBVIOUS
  <2> DEFINE x == NthOf(P, j)
             y == NthOf(P, m)
  <2>1. x \in P /\ y \in P /\ x < y /\ back[j] = more[x] /\ back[m] = more[y]
    BY <1>4
  <2> HIDE DEF x, y, back
  <2>2. x \in DOMAIN more /\ y \in DOMAIN more /\ x \in 1..(y - 1) /\ x <= y
    BY <1>2, <2>1
  <2>3. more[x] <= more[y] /\ more[x] # more[y] /\ more[x] \in Nat /\ more[y] \in Nat
    BY <1>2, <2>1, <2>2
  <2> QED BY <2>1, <2>3
<1> HIDE DEF back, c
<1>7. /\ \A i \in 1..n : s[i] = i
      /\ \A i \in 1..l : i <= n \/ (i - n \in 1..c /\ s[i] = back[i - n])
  <2>1. l \in Nat /\ c \in Nat /\ list \in Seq(N) /\ back \in Seq(N) /\ Len(list) = n /\ Len(back) = c
    BY <1>1, <1>3, <1>4
  <2> HIDE DEF N
  <2>2. \A i \in 1..l : s[i] = IF i <= n THEN list[i] ELSE back[i - n]
    BY <2>1
  <2>3. \A i \in 1..n : i \in 1..l
    BY <2>1
  <2> HIDE DEF s
  <2>4. ASSUME NEW i \in 1..l, ~(i <= n) PROVE i - n \in 1..c /\ s[i] = back[i - n]
    BY <2>1, <2>2, <2>4
  <2> HIDE DEF l
  <2> QED BY <1>1, <2>2, <2>3, <2>4
<1> HIDE DEF s
<1>8. \A i, k \in 1..l : i < k => s[i] < s[k]
  <2> SUFFICES ASSUME NEW i \in 1..l, NEW k \in 1..l, i < k PROVE s[i] < s[k]
    OBVIOUS
  <2>0. l \in Nat /\ c \in Nat
    BY <1>3
  <2>1. CASE k <= n
    <3>1. i \in 1..n /\ k \in 1..n
      BY <2>0, <2>1
    <3> QED BY <3>1, <1>7
  <2>2. CASE i <= n /\ ~(k <= n)
    <3>1. s[i] = i
      BY <2>0, <2>2, <1>7
    <3>2. k - n \in 1..c /\ s[k] = back[k - n]
      BY <2>2, <1>7
    <3>3. s[k] > n /\ s[k] \in Nat
      BY <3>2, <1>5
    <3> QED BY <2>2, <3>1, <3>3
  <2>3. CASE ~(i <= n) /\ ~(k <= n)
    <3>1. i - n \in 1..c /\ k - n \in 1..c /\ s[i] = back[i - n] /\ s[k] = back[k - n]
      BY <2>3, <1>7
    <3>2. i - n < k - n
      BY <2>0
    <3> QED BY <3>1, <3>2, <1>6
  <2> QED BY <2>1, <2>2, <2>3, <2>0
<1>9. ToSet(s) = 1..max /\ max \in Nat
  BY <1>3
<1> HIDE DEF max, l
<1>10. l \in Nat /\ s \in [1..l -> N] /\ DOMAIN s = 1..l
  <2>1. l \in Nat
    BY <1>3 DEF l
  <2> QED BY <2>1, <1>3
<1>11. \A i \in 1..l : \A u \in 1..s[i] : \E k \in 1..l : s[k] = u
  <2> SUFFICES ASSUME NEW i \in 1..l, NEW u \in 1..s[i] PROVE \E k \in 1..l : s[k] = u
    OBVIOUS
  <2>1. s[i] \in 1..max
    BY <1>9, <1>10 DEF ToSet
  <2>2. u \in 1..max
    BY <1>9, <2>1
  <2>3. u \in ToSet(s)
    BY <1>9, <2>2
  <2> QED BY <1>10, <2>3 DEF ToSet
<1>12. \A i \in 1..l : s[i] = i
  BY <1>8, <1>10, <1>11, CountsFromOne
<1>13. ToSet(s) = 1..l
  BY <1>10, <1>12 DEF ToSet
<1>14. l = max
  BY <1>9, <1>10, <1>13
<1>15. s = [i \in 1..l |-> i]
  BY <1>10, <1>12
<1> QED BY <1>3, <1>9, <1>14, <1>15, FirstRanks DEF PushListingUrls, list, max

\* The first of the first.
LEMMA FirstOfRanks ==
  ASSUME NEW n \in Nat, NEW m \in Nat, m <= n
  PROVE  SubSeq(Ascending(1, n), 1, m) = Ascending(1, m)
<1> DEFINE s == Ascending(1, n)
           t == SubSeq(s, 1, m)
<1>1. s \in Seq(Nat \ {0}) /\ Len(s) = n /\ \A i \in 1..n : s[i] = i
  BY FirstRanks
<1> HIDE DEF s
<1>2. 1 \in Int /\ m \in Int /\ \A i \in 1..m : s[i] \in Nat \ {0}
  BY <1>1
<1>3. /\ t \in Seq(Nat \ {0}) /\ Len(t) = (IF 1 <= m THEN m - 1 + 1 ELSE 0)
      /\ \A i \in 1..(m - 1 + 1) : t[i] = s[1 + i - 1]
  BY <1>2, SubSeqProperties
<1> HIDE DEF t
<1>4. DOMAIN t = 1..m /\ \A i \in 1..m : t[i] = i
  BY <1>1, <1>3
<1>5. t = [i \in 1..m |-> i]
  BY <1>3, <1>4
<1> QED BY <1>5, FirstRanks DEF t, s

\* What is mounted around a place that has been read up to joins without a gap,
\* and reaches past what is scrolled over.
LEMMA ScanJoins ==
  ASSUME NEW n \in Nat, NEW have \in 0..Tiles, NEW above \in 0..Bottom(have), above <= n + Overscan, n <= Tiles
  PROVE  \E m \in n..Tiles : /\ ScanListingDom(Ascending(1, n), above, have) = Ascending(1, m)
                             /\ above <= m
<1> DEFINE first == IF above > Overscan THEN above - Overscan ELSE 0
           last == AtMost(above - Overscan + Mounted, have)
           tiles == Ascending(first + 1, last)
           dom == LinksInDom(above, have)
           m == IF last > n THEN last ELSE n
<1>1. /\ Tiles \in Nat /\ Overscan \in Nat /\ Mounted \in Nat /\ Overscan < Mounted /\ have \in Nat /\ have <= Tiles
      /\ Bottom(have) = IF have > Mounted THEN have - (Mounted - Overscan) ELSE 0
  BY ListingAssumption DEF Bottom
<1>2. above \in Nat /\ first \in Nat /\ first <= n /\ last \in Nat /\ last <= have
  BY <1>1 DEF AtMost
<1>3. above <= m /\ m \in n..Tiles
  <2>1. above = 0 \/ (have > Mounted /\ above <= have - (Mounted - Overscan))
    BY <1>1
  <2>2. above <= last
    BY <1>1, <2>1 DEF AtMost
  <2> QED BY <1>1, <1>2, <2>2
<1> HIDE DEF m
<1> DEFINE c == IF last > first THEN last - first ELSE 0
<1>4. tiles \in Seq(Nat \ {0}) /\ Len(tiles) = c /\ \A i \in 1..c : tiles[i] = first + i
  BY <1>2, AscendingIs
<1>5. c \in Nat /\ dom = [i \in 1..(2 * c) |-> tiles[(i + 1) \div 2]]
  BY <1>2, <1>4 DEF LinksInDom
<1> HIDE DEF dom, tiles
<1>6. \A i \in 1..(2 * c) : (i + 1) \div 2 \in 1..c
  BY <1>5
<1>7. \A i \in 1..(2 * c) : dom[i] = first + (i + 1) \div 2
  BY <1>4, <1>5, <1>6
<1>8. DOMAIN dom = 1..(2 * c) /\ dom \in Seq(Nat \ {0})
  <2>1. \A i \in 1..(2 * c) : dom[i] \in Nat \ {0}
    <3> SUFFICES ASSUME NEW i \in 1..(2 * c) PROVE dom[i] \in Nat \ {0}
      OBVIOUS
    <3>1. (i + 1) \div 2 \in 1..c /\ dom[i] = first + (i + 1) \div 2
      BY <1>6, <1>7
    <3> HIDE DEF c, first
    <3> QED BY <3>1, <1>2, <1>5
  <2>2. 2 * c \in Nat
    BY <1>5
  <2> HIDE DEF c
  <2>3. dom \in [1..(2 * c) -> Nat \ {0}]
    BY <2>1, <1>5
  <2> QED BY <2>2, <2>3
<1>9. \A i, k \in DOMAIN dom : i <= k => dom[i] <= dom[k]
  <2> SUFFICES ASSUME NEW i \in 1..(2 * c), NEW k \in 1..(2 * c), i <= k PROVE dom[i] <= dom[k]
    BY <1>8
  <2>1. (i + 1) \div 2 <= (k + 1) \div 2
    BY <1>5
  <2>2. (i + 1) \div 2 \in Int /\ (k + 1) \div 2 \in Int
    BY <1>5
  <2>3. dom[i] = first + (i + 1) \div 2 /\ dom[k] = first + (k + 1) \div 2
    BY <1>7
  <2> HIDE DEF first, c
  <2> QED BY <1>2, <2>1, <2>2, <2>3
<1>10. ToSet(dom) = (first + 1)..last
  <2>1. ASSUME NEW v \in ToSet(dom) PROVE v \in (first + 1)..last
    <3>1. PICK i \in 1..(2 * c) : v = dom[i]
      BY <1>8 DEF ToSet
    <3>2. (i + 1) \div 2 \in 1..c /\ v = first + (i + 1) \div 2
      BY <3>1, <1>6, <1>7
    <3> QED BY <3>2, <1>2
  <2>2. ASSUME NEW v \in (first + 1)..last PROVE v \in ToSet(dom)
    <3> DEFINE i == 2 * (v - first)
    <3>1. i \in 1..(2 * c) /\ (i + 1) \div 2 = v - first
      BY <1>2
    <3>2. dom[i] = v
      <4>1. dom[i] = first + (i + 1) \div 2
        BY <3>1, <1>7
      <4> QED BY <4>1, <3>1, <1>2
    <3> QED BY <3>1, <3>2, <1>8 DEF ToSet
  <2> QED BY <2>1, <2>2
<1> HIDE DEF first, last, c
<1>11. PushListingUrls(Ascending(1, n), dom) = Ascending(1, IF last > n THEN last ELSE n)
  BY <1>2, <1>8, <1>9, <1>10, LinksJoin
<1>12. ScanListingDom(Ascending(1, n), above, have) = Ascending(1, m)
  BY <1>11 DEF ScanListingDom, dom, m
<1> QED BY <1>3, <1>12
\* The next page asked for begins where the links end, or before.
LEMMA CursorStays ==
  ASSUME NEW n \in Nat, NEW m \in Nat, n <= m, limit \in Nat, cursor \in Nat, PageSize \in Nat,
         cursor = 0 \/ limit <= n \/ (cursor - 1) * PageSize <= n
  PROVE  cursor = 0 \/ limit <= m \/ (cursor - 1) * PageSize <= m
<1>1. cursor # 0 => (cursor - 1) * PageSize \in Int
  <2>1. cursor - 1 \in Int /\ PageSize \in Int
    OBVIOUS
  <2> QED BY <2>1
<1> QED BY <1>1

\* The same for a run of them.
LEMMA AscendingJoins ==
  ASSUME NEW n \in Nat, NEW a \in Nat, NEW b \in Nat, a <= n
  PROVE  PushListingUrls(Ascending(1, n), Ascending(a + 1, b)) = Ascending(1, IF b > n THEN b ELSE n)
<1> DEFINE s == Ascending(a + 1, b)
           l == IF b > a THEN b - a ELSE 0
<1>1. s \in Seq(Nat \ {0}) /\ Len(s) = l /\ l \in Nat /\ \A i \in 1..l : s[i] = a + i
  BY AscendingIs
<1> HIDE DEF s
<1>2. DOMAIN s = 1..l
  BY <1>1
<1>3. \A i, k \in DOMAIN s : i <= k => s[i] <= s[k]
  BY <1>1, <1>2
<1>4. ToSet(s) = (a + 1)..b
  <2>1. ASSUME NEW v \in (a + 1)..b PROVE v \in ToSet(s)
    <3>1. v - a \in 1..l /\ s[v - a] = v
      BY <1>1
    <3> QED BY <3>1, <1>2 DEF ToSet
  <2>2. ASSUME NEW v \in ToSet(s) PROVE v \in (a + 1)..b
    <3>1. PICK i \in 1..l : v = s[i]
      BY <1>2 DEF ToSet
    <3> QED BY <3>1, <1>1
  <2> QED BY <2>1, <2>2
<1>5. PushListingUrls(Ascending(1, n), s) = Ascending(1, IF b > n THEN b ELSE n)
  BY <1>1, <1>3, <1>4, LinksJoin
<1> QED BY <1>5 DEF s

LEMMA ListingStart == ListingInit => ListingInv
<1> SUFFICES ASSUME ListingInit PROVE ListingInv
  OBVIOUS
<1>1. /\ Tiles \in Nat /\ Overscan \in Nat /\ Mounted \in Nat /\ Overscan < Mounted /\ Tiles # 0
      /\ MaxHops \in Nat /\ MaxStalls \in Nat /\ PageSize \in Nat /\ Limits \subseteq Nat \ {0}
  BY ListingAssumption
<1>2. /\ limit \in Limits /\ loaded \in {0, AtMost(Mounted, Tiles)}
      /\ scrolled = 0 /\ links = <<>> /\ cursor = 1 /\ hops = 0 /\ stalls = 0
      /\ taken = <<>> /\ rounds = 1 /\ harvesting = "scan"
  BY DEF ListingInit
<1>3. Ascending(1, 0) = <<>> /\ Len(<<>>) = 0
  <2>1. Ascending(1, 0) \in Seq(Nat \ {0}) /\ Len(Ascending(1, 0)) = 0
    BY FirstRanks
  <2> QED BY <2>1, EmptySeq
<1>4. loaded \in 0..Tiles /\ Bottom(loaded) \in Nat
  BY <1>1, <1>2 DEF AtMost, Bottom
<1>5. (cursor - 1) * PageSize = 0
  BY <1>1, <1>2
<1> QED BY <1>1, <1>2, <1>3, <1>4, <1>5 DEF ListingInv

\* Every step reads on from what has been read.
LEMMA ListingStep == ListingInv /\ [ListingNext]_listingVars => ListingInv'
<1> SUFFICES ASSUME ListingInv, [ListingNext]_listingVars PROVE ListingInv'
  OBVIOUS
<1> DEFINE n == Len(links)
<1>0. /\ Tiles \in Nat /\ Overscan \in Nat /\ Mounted \in Nat /\ Overscan < Mounted /\ Tiles # 0
      /\ ScrollStep \in Nat /\ ScrollStep <= Overscan
      /\ MaxHops \in Nat /\ MaxStalls \in Nat /\ PageSize \in Nat \ {0} /\ Limits \subseteq Nat \ {0}
  BY ListingAssumption
<1>1. /\ limit \in Nat \ {0} /\ loaded \in 0..Tiles /\ n \in 0..Tiles /\ links = Ascending(1, n)
      /\ scrolled \in 0..Bottom(loaded) /\ scrolled <= n
  BY <1>0 DEF ListingInv
<1>2. \A have \in 0..Tiles : Bottom(have) \in 0..have
  BY <1>0 DEF Bottom
<1> HIDE DEF n
<1>3. ASSUME PageLoads PROVE ListingInv'
  <2>1. loaded' = AtMost(loaded + PageSize, Tiles)
        /\ UNCHANGED <<limit, scrolled, links, cursor, hops, stalls, taken, rounds, harvesting>>
    BY <1>3 DEF PageLoads
  <2>2. loaded' \in 0..Tiles /\ loaded' >= loaded
    BY <1>0, <1>1, <2>1 DEF AtMost
  <2>3. Bottom(loaded') \in Nat /\ Bottom(loaded) <= Bottom(loaded')
    <3>1. loaded \in Nat /\ loaded' \in Nat
      BY <1>0, <1>1, <2>2
    <3>2. \A x, y \in Nat : x <= y => Bottom(x) \in Nat /\ Bottom(y) \in Nat /\ Bottom(x) <= Bottom(y)
      BY <1>0 DEF Bottom
    <3> QED BY <2>2, <3>1, <3>2
  <2>4. scrolled' \in 0..Bottom(loaded')
    <3>1. scrolled \in Nat /\ scrolled <= Bottom(loaded) /\ Bottom(loaded) \in Nat
      BY <1>1, <1>2
    <3> QED BY <2>1, <2>3, <3>1
  <2> QED BY <2>1, <2>2, <2>4 DEF ListingInv
<1>4. ASSUME ScanFirst PROVE ListingInv'
  <2>1. /\ links' = ScanListingDom(links, scrolled, loaded) /\ harvesting = "scan"
        /\ harvesting' \in {"api", "done"}
        /\ UNCHANGED <<limit, loaded, scrolled, cursor, hops, stalls, taken, rounds>>
    BY <1>4 DEF ScanFirst
  <2>2. n \in Nat /\ n <= Tiles /\ scrolled <= n + Overscan
    BY <1>0, <1>1, <1>2
  <2>3. PICK m \in n..Tiles : ScanListingDom(Ascending(1, n), scrolled, loaded) = Ascending(1, m) /\ scrolled <= m
    BY <1>1, <2>2, ScanJoins
  <2>4. links' = Ascending(1, m) /\ m \in Nat
    BY <1>1, <2>1, <2>2, <2>3
  <2>5. Len(links') = m
    BY <2>4, FirstRanks
  <2> QED BY <1>0, <1>1, <2>1, <2>2, <2>3, <2>4, <2>5, CursorStays DEF ListingInv, Ended, n
<1>5. ASSUME ApiHop PROVE ListingInv'
  <2> DEFINE p == (cursor - 1) * PageSize
             b == AtMost(cursor * PageSize, Tiles)
             m == IF b > n THEN b ELSE n
             k == AtMost(limit, m)
  <2>1. /\ harvesting = "api" /\ n < limit /\ hops < MaxHops /\ cursor # 0
        /\ links' = PushBelowCap(links, ItemsOf(cursor))
        /\ cursor' = NextPage(cursor) /\ hops' = hops + 1
        /\ UNCHANGED <<limit, loaded, scrolled, stalls, taken, rounds, harvesting>>
    BY <1>5 DEF ApiHop, n
  <2>2. n \in Nat /\ p <= n /\ cursor \in Nat \ {0} /\ cursor <= Tiles
    BY <1>0, <1>1, <2>1 DEF ListingInv, n
  <2>3. p \in Nat /\ cursor * PageSize = p + PageSize /\ cursor <= cursor * PageSize
    <3>1. cursor - 1 \in Nat /\ PageSize \in Nat \ {0}
      BY <1>0, <2>2
    <3>2. p \in Nat
      BY <3>1
    <3>3. cursor * PageSize = p + PageSize
      BY <2>2, <3>1
    <3>4. cursor <= cursor * PageSize
      BY <2>2, <3>1
    <3> QED BY <3>2, <3>3, <3>4
  <2> HIDE DEF p
  <2>4. b \in Nat /\ b <= Tiles /\ (b = p + PageSize \/ b = Tiles)
    BY <1>0, <2>3 DEF AtMost
  <2>5. ItemsOf(cursor) = Ascending(p + 1, b)
    BY DEF ItemsOf, p
  <2> HIDE DEF b
  <2>6. PushListingUrls(Ascending(1, n), ItemsOf(cursor)) = Ascending(1, m)
    BY <2>2, <2>3, <2>4, <2>5, AscendingJoins
  <2>7. m \in Nat /\ n <= m /\ b <= m /\ m <= Tiles
    BY <1>0, <1>1, <2>2, <2>4
  <2> HIDE DEF m
  <2>8. k \in Nat /\ n <= k /\ k <= Tiles /\ k <= m /\ (limit <= k \/ k = m)
    BY <1>0, <1>1, <2>1, <2>7 DEF AtMost
  <2>9. Len(Ascending(1, m)) = m
    BY <2>7, FirstRanks
  <2>10. PushBelowCap(links, ItemsOf(cursor)) = SubSeq(Ascending(1, m), 1, k)
    BY <1>1, <2>6, <2>9 DEF PushBelowCap
  <2> HIDE DEF k
  <2>11. links' = Ascending(1, k) /\ Len(links') = k
    BY <2>1, <2>7, <2>8, <2>10, FirstOfRanks, FirstRanks
  <2>12. cursor' \in 0..Tiles /\ (cursor' = 0 \/ limit <= k \/ (cursor' - 1) * PageSize <= k)
    <3>1. CASE cursor * PageSize < Tiles
      <4>1. cursor' = cursor + 1 /\ cursor' - 1 = cursor
        BY <2>1, <2>2, <3>1 DEF NextPage
      <4>2. b = cursor * PageSize
        BY <1>0, <2>3, <3>1 DEF AtMost, b
      <4>3. limit <= k \/ cursor * PageSize <= k
        BY <2>3, <2>7, <2>8, <4>2
      <4>4. cursor + 1 \in 0..Tiles
        <5> DEFINE t == cursor * PageSize
        <5>1. t \in Nat /\ cursor <= t /\ t < Tiles
          BY <1>0, <2>2, <2>3, <3>1
        <5> HIDE DEF t
        <5> QED BY <1>0, <2>2, <5>1
      <4> QED BY <4>1, <4>3, <4>4
    <3>2. CASE ~(cursor * PageSize < Tiles)
      BY <1>0, <2>1, <3>2 DEF NextPage
    <3> QED BY <3>1, <3>2
  <2>13. hops' \in 0..MaxHops
    BY <1>0, <2>1 DEF ListingInv
  <2>14. /\ scrolled \in Nat /\ scrolled <= k
    BY <1>1, <1>2, <2>2, <2>8
  <2> QED BY <1>1, <2>1, <2>8, <2>11, <2>12, <2>13, <2>14 DEF ListingInv, Ended
<1>6. ASSUME ApiEnds \/ ScrollEnds PROVE ListingInv'
  BY <1>6 DEF ApiEnds, ScrollEnds, ListingInv, Ended
<1>7. ASSUME Scroll PROVE ListingInv'
  <2>1. /\ harvesting = "scroll" /\ stalls < MaxStalls
        /\ scrolled' = AtMost(scrolled + ScrollStep, Bottom(loaded))
        /\ links' = ScanListingDom(links, scrolled', loaded)
        /\ stalls' \in {0, stalls + 1}
        /\ UNCHANGED <<limit, loaded, cursor, hops, taken, rounds, harvesting>>
    BY <1>7 DEF Scroll, ScrollBy, ScrolledTo
  <2>2. n \in Nat /\ n <= Tiles /\ scrolled' \in 0..Bottom(loaded) /\ scrolled' <= n + Overscan
    <3>1. Bottom(loaded) \in Nat /\ scrolled \in Nat /\ scrolled <= Bottom(loaded)
      BY <1>1, <1>2
    <3> QED BY <1>0, <1>1, <2>1, <3>1 DEF AtMost
  <2>3. PICK m \in n..Tiles : ScanListingDom(Ascending(1, n), scrolled', loaded) = Ascending(1, m) /\ scrolled' <= m
    BY <1>1, <2>2, ScanJoins
  <2>4. links' = Ascending(1, m) /\ m \in Nat
    BY <1>1, <2>1, <2>2, <2>3
  <2>5. Len(links') = m
    BY <2>4, FirstRanks
  <2>6. stalls' \in 0..MaxStalls
    BY <1>0, <2>1 DEF ListingInv
  <2>7. limit \in Nat /\ cursor \in Nat /\ PageSize \in Nat /\ m \in 0..Tiles /\ n <= m
        /\ (cursor = 0 \/ limit <= n \/ (cursor - 1) * PageSize <= n)
    BY <1>0, <1>1, <2>2, <2>3 DEF ListingInv, n
  <2>8. cursor = 0 \/ limit <= m \/ (cursor - 1) * PageSize <= m
    BY <2>2, <2>4, <2>7, CursorStays
  <2> QED BY <1>1, <2>1, <2>2, <2>3, <2>4, <2>5, <2>6, <2>7, <2>8 DEF ListingInv, Ended
<1>8. ASSUME NEW challenge \in BOOLEAN, TakeLinks(challenge) PROVE ListingInv'
  <2> DEFINE m == AtMost(limit, n)
             page == SubSeq(links, 1, m)
             all == PushListingUrls(taken, page)
  <2>1. /\ harvesting = "done" /\ taken' = all
        /\ UNCHANGED <<limit, loaded, scrolled>>
        /\ \/ /\ all = <<>> /\ rounds' = 2 /\ harvesting' = "scan"
              /\ links' = <<>> /\ cursor' = 1 /\ hops' = 0 /\ stalls' = 0
           \/ harvesting' \in {"blocked", "listed"} /\ UNCHANGED <<rounds, links, cursor, hops, stalls>>
    BY <1>8 DEF TakeLinks, n
  <2>2. m \in Nat /\ m <= n /\ m <= limit /\ m <= Tiles /\ n \in Nat /\ (m = 0 => n = 0)
    BY <1>0, <1>1 DEF AtMost
  <2>3. page = Ascending(1, m)
    BY <1>1, <2>2, FirstOfRanks
  <2>4. taken = <<>> /\ <<>> = Ascending(1, 0)
    <3>1. taken = <<>>
      BY <2>1 DEF ListingInv, Ended
    <3>2. Ascending(1, 0) \in Seq(Nat \ {0}) /\ Len(Ascending(1, 0)) = 0
      BY FirstRanks
    <3> QED BY <3>1, <3>2, EmptySeq
  <2> HIDE DEF page, m
  <2>5. all = Ascending(1, m)
    <3>1. PushListingUrls(Ascending(1, 0), Ascending(0 + 1, m)) = Ascending(1, IF m > 0 THEN m ELSE 0)
      BY <2>2, AscendingJoins
    <3>2. (IF m > 0 THEN m ELSE 0) = m /\ 0 + 1 = 1
      BY <2>2
    <3> QED BY <2>3, <2>4, <3>1, <3>2
  <2>6. Len(all) = m /\ (all = <<>> => m = 0)
    <3>1. Len(all) = m
      BY <2>2, <2>5, FirstRanks
    <3> HIDE DEF all
    <3> QED BY <3>1
  <2> HIDE DEF all
  <2>7. taken' = Ascending(1, Len(taken')) /\ Len(taken') \in 0..Tiles /\ Len(taken') <= limit
    BY <1>0, <2>1, <2>2, <2>5, <2>6
  <2>8. CASE harvesting' = "scan" /\ all = <<>> /\ rounds' = 2 /\ links' = <<>> /\ cursor' = 1 /\ hops' = 0 /\ stalls' = 0
    <3>1. scrolled = 0
      BY <1>1, <1>2, <2>2, <2>6, <2>8
    <3>2. (cursor' - 1) * PageSize = 0 /\ Len(links') = 0 /\ cursor' \in 0..Tiles
      BY <1>0, <2>8
    <3>3. taken' = <<>>
      BY <2>1, <2>8
    <3>4. scrolled' \in 0..Bottom(loaded') /\ scrolled' <= Len(links')
      BY <1>1, <1>2, <2>1, <3>1, <3>2
    <3> QED BY <1>0, <1>1, <2>1, <2>4, <2>7, <2>8, <3>2, <3>3, <3>4 DEF ListingInv, Ended
  <2>9. CASE harvesting' \in {"blocked", "listed"} /\ UNCHANGED <<rounds, links, cursor, hops, stalls>>
    BY <1>1, <2>1, <2>7, <2>9 DEF ListingInv, Ended
  <2> QED BY <2>1, <2>8, <2>9
<1>9. ASSUME ListingTimeout PROVE ListingInv'
  BY <1>9 DEF ListingTimeout, ListingInv, Ended
<1>10. CASE UNCHANGED listingVars
  BY <1>10 DEF listingVars, ListingInv
<1> QED BY <1>3, <1>4, <1>5, <1>6, <1>7, <1>8, <1>9, <1>10 DEF ListingNext

\* What the content script keeps of a listing, through both harvests.
THEOREM ListingTypesCorrect == ListingSpec => []ListingTypeOK
<1>1. ListingInv => ListingTypeOK
  <2> SUFFICES ASSUME ListingInv PROVE ListingTypeOK
    OBVIOUS
  <2>1. Tiles \in Nat /\ Bottom(loaded) \in 0..loaded /\ loaded \in 0..Tiles
    BY ListingAssumption DEF ListingInv, Bottom
  <2>2. scrolled \in 0..Tiles
    BY <2>1 DEF ListingInv
  <2>3. ASSUME NEW s, s = Ascending(1, Len(s)), Len(s) \in 0..Tiles PROVE s \in Seq(Ranks) /\ IsInjective(s)
    <3> DEFINE n == Len(s)
    <3>1. n \in Nat /\ n <= Tiles
      BY <2>1, <2>3
    <3> HIDE DEF n
    <3>2. Ascending(1, n) = [i \in 1..n |-> i]
      BY <3>1, FirstRanks
    <3>3. [i \in 1..n |-> i] \in [1..n -> Ranks]
      BY <2>1, <3>1 DEF Ranks
    <3>4. s = [i \in 1..n |-> i]
      BY <2>3, <3>2 DEF n
    <3> QED BY <3>1, <3>3, <3>4 DEF IsInjective
  <2>4. links \in Seq(Ranks) /\ IsInjective(links)
    BY <2>3 DEF ListingInv
  <2>5. taken \in Seq(Ranks) /\ IsInjective(taken)
    BY <2>3 DEF ListingInv
  <2> QED BY <2>1, <2>2, <2>4, <2>5 DEF ListingInv, ListingTypeOK
<1> QED BY <1>1, ListingStart, ListingStep, PTL DEF ListingSpec

\* A TOP-N task is given the first products of the listing, none missing between
\* two, none twice and no more than the cap, whichever of the mounted tiles, the
\* paginator and the scrolling its links are from.
THEOREM TopOfListingKept == ListingSpec => []TopOfListing
<1>1. ListingInv => TopOfListing
  BY DEF ListingInv, TopOfListing
<1> QED BY <1>1, ListingStart, ListingStep, PTL DEF ListingSpec
-----------------------------------------------------------------------------
(* MCPlatform, where these parts and those of Platform_proofs are checked   *)
(* side by side.                                                           *)

partVars == <<part, selectionVars, orderVars, accountVars, mappingVars, packageVars, priceVars, pollVars, harvestVars>>

\* A step of one part leaves every other part alone.
LEMMA PartsApart ==
  ASSUME [Next]_partVars
  PROVE  /\ part' = part
         /\ [OrderNext]_orderVars /\ [AccountsNext]_accountVars /\ [MappingNext]_mappingVars
         /\ [PackageNext]_packageVars /\ [ShelfNext]_priceVars /\ [PollingNext]_pollVars
         /\ [WidgetNext]_widgetVars /\ [MeasureNext]_measureVars /\ [StockPageNext]_stockVars
         /\ [VariantsNext]_variantVars /\ [ListingNext]_listingVars /\ [SelectionNext]_selectionVars
BY DEF Next, partVars, harvestVars

\* Side by side each part is itself: what is proved of it holds in the run.
LEMMA PartsHold ==
  Spec => /\ OrderSpec /\ AccountsSpec /\ MappingSpec /\ PackageSpec /\ ShelfSpec /\ PollingSpec
          /\ WidgetSpec /\ MeasureSpec /\ StockPageSpec /\ VariantsSpec /\ ListingSpec /\ SelectionSpec
<1>1. Init => /\ OrderInit /\ AccountsInit /\ MappingInit /\ PackageInit /\ ShelfInit /\ PollingInit
              /\ WidgetInit /\ MeasureInit /\ StockPageInit /\ VariantsInit /\ ListingInit /\ SelectionInit
  BY DEF Init
<1>2. [Next]_partVars =>
         /\ [OrderNext]_orderVars /\ [AccountsNext]_accountVars /\ [MappingNext]_mappingVars
         /\ [PackageNext]_packageVars /\ [ShelfNext]_priceVars /\ [PollingNext]_pollVars
         /\ [WidgetNext]_widgetVars /\ [MeasureNext]_measureVars /\ [StockPageNext]_stockVars
         /\ [VariantsNext]_variantVars /\ [ListingNext]_listingVars /\ [SelectionNext]_selectionVars
  BY PartsApart
<1> QED BY <1>1, <1>2, PTL DEF Spec, partVars, OrderSpec, AccountsSpec, MappingSpec, PackageSpec, ShelfSpec,
        PollingSpec, WidgetSpec, MeasureSpec, StockPageSpec, VariantsSpec, ListingSpec, SelectionSpec

\* Every variable of every part stays in its type, whichever part is at work and for any
\* constants: each operation of twelve components writes what its readers expect.
THEOREM PlatformTypesCorrect == Spec => []TypesOK
<1>1. OrderTypeOK /\ AccountsTypeOK /\ MappingTypeOK /\ PackageTypeOK /\ PriceTypeOK /\ PollingTypeOK
      /\ WidgetTypeOK /\ MeasureTypeOK /\ StockPageTypeOK /\ VariantsTypeOK /\ ListingTypeOK /\ SelectionTypeOK
      => TypesOK
  BY DEF TypesOK
<1> QED BY <1>1, PartsHold, OrderTypesCorrect, AccountTypesCorrect, MappingTypeCorrect, PackageTypesCorrect,
        PriceTypesCorrect, PollingTypesCorrect, WidgetTypesCorrect, MeasureTypesCorrect, StockTypesCorrect,
        VariantTypesCorrect, ListingTypesCorrect, SelectionTypesCorrect, PTL
=============================================================================
