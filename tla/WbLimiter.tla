----------------------------- MODULE WbLimiter ------------------------------
(***************************************************************************)
(* Calls to the Wildberries API with one token: WbRateLimiter lets at most *)
(* MaxConcurrent of them run and spaces their starts, and                  *)
(* WbListingClient tries each one several times without giving its slot    *)
(* back (wb-rate-limiter.ts, wb-listing.client.ts).                        *)
(***************************************************************************)
EXTENDS Integers, Sequences, FiniteSets

CONSTANTS
  Caller,          \* calls made with the token
  MaxConcurrent,   \* slots
  MinInterval,     \* least gap between two starts; times are in one small unit
  ThrottleStep,    \* what a 429 adds to the gap besides doubling it (100 ms)
  OkStep,          \* what a success takes off it (the larger of 20 ms and half the gap)
  MaxPenalty,      \* most that 429s may add
  Attempts         \* tries of a call, by its kind; 8 for a request, 6 for the others

ASSUME LimiterAssumptions ==
  /\ IsFiniteSet(Caller) /\ MaxConcurrent \in Nat \ {0}
  /\ {MinInterval, ThrottleStep, OkStep, MaxPenalty} \subseteq Nat
  /\ Attempts \in [{"request", "media", "sdk"} -> Nat \ {0}]

VARIABLES
  active,       \* slots taken
  lead,         \* how far nextAt is ahead of the clock
  penalty,      \* penaltyMs
  waiters,      \* callers asleep, first in first out
  caller,       \* the calls
  owed          \* history: time until a start may follow the last one

limiterVars == <<active, lead, penalty, waiters, caller, owed>>

Least(a, b) == IF a < b THEN a ELSE b
Weight(c) == IF caller[c].write THEN 2 ELSE 1
CallerAt(c, step) == caller[c].pc = step
Now(c, step) == caller' = [caller EXCEPT ![c].pc = step]

\* A start follows the one before it by its gap, unless the gap is already over.
Started(c) == owed' = MinInterval * Weight(c)

NextLead(c) == lead + (MinInterval + penalty) * Weight(c)

\* Mutant: one call too many.
OverFull == active > MaxConcurrent
Full == active >= MaxConcurrent

\* acquire: behind a full house a caller joins the queue; otherwise it takes a
\* slot and a start time in one step, then sleeps until its start.
Acquire(c) ==
  IF Full
  THEN waiters' = Append(waiters, c) /\ Now(c, "waiting") /\ UNCHANGED <<active, lead, owed>>
  ELSE /\ active' = active + 1 /\ lead' = NextLead(c) /\ UNCHANGED waiters
       /\ IF lead = 0
          THEN Now(c, "fetching") /\ Started(c)
          ELSE caller' = [caller EXCEPT ![c].pc = "sleeping", ![c].wait = lead] /\ UNCHANGED owed

Arrive(c) == CallerAt(c, "arriving") /\ Acquire(c) /\ UNCHANGED penalty

\* A woken caller looks again: a newcomer may have taken the slot before it.
Wakes(c) ==
  /\ CallerAt(c, "woken") /\ Acquire(c) /\ UNCHANGED penalty

\* Mutant: a waiter is woken only when the house is empty.
WokenWhenEmpty == IF active > 1 THEN {} ELSE IF waiters = <<>> THEN {} ELSE {Head(waiters)}
\* release gives the slot back and wakes the first waiter.
Woken == IF waiters = <<>> THEN {} ELSE {Head(waiters)}
Release(c, end) ==
  LET woken == Woken IN
  /\ active' = active - 1
  /\ waiters' = IF woken = {} THEN waiters ELSE Tail(waiters)
  /\ caller' = [d \in Caller |-> IF d = c THEN [caller[d] EXCEPT !.pc = end]
                                 ELSE IF d \in woken THEN [caller[d] EXCEPT !.pc = "woken"]
                                 ELSE caller[d]]

Tries(c) == Attempts[caller[c].kind]
\* What an answer makes of a try: the call ends, or it sleeps and tries again.
Again(c) == [caller EXCEPT ![c].attempt = @ + 1, ![c].pc = "backoff"]
TryAgain(c) ==
  IF caller[c].attempt + 1 < Tries(c)
  THEN caller' = Again(c) /\ UNCHANGED <<active, waiters>>
  ELSE Release(c, "ended")

Throttled(c) ==
  /\ CallerAt(c, "fetching")
  /\ penalty' = Least(MaxPenalty, penalty * 2 + MinInterval + ThrottleStep)
  /\ TryAgain(c) /\ UNCHANGED <<lead, owed>>

NotifyOk == penalty' = IF penalty > OkStep THEN penalty - OkStep ELSE 0

\* Any other answer: a refusal too is notified as a success, except of an uploaded picture.
Answered(c, refused) ==
  /\ CallerAt(c, "fetching")
  /\ IF refused /\ caller[c].kind = "media" THEN UNCHANGED penalty ELSE NotifyOk
  /\ Release(c, "ended") /\ UNCHANGED <<lead, owed>>

\* A 5xx is tried again, except of an uploaded picture; a request has notified it as a success.
ServerError(c) ==
  /\ CallerAt(c, "fetching")
  /\ IF caller[c].kind = "request" THEN NotifyOk ELSE UNCHANGED penalty
  /\ IF caller[c].kind = "media" THEN Release(c, "ended") ELSE TryAgain(c)
  /\ UNCHANGED <<lead, owed>>

\* Without an answer a request is tried again, a picture fails, and an SDK call
\* gives its slot back and starts over as a request (sdkCall).
NetworkError(c) ==
  /\ CallerAt(c, "fetching")
  /\ CASE caller[c].kind = "request" -> TryAgain(c)
       [] caller[c].kind = "media"   -> Release(c, "ended")
       [] caller[c].kind = "sdk"     -> Release(c, "falling")
  /\ UNCHANGED <<lead, penalty, owed>>

FallBack(c) ==
  /\ CallerAt(c, "falling")
  /\ caller' = [caller EXCEPT ![c].pc = "arriving", ![c].kind = "request", ![c].attempt = 0]
  /\ UNCHANGED <<active, lead, penalty, waiters, owed>>

\* The sleep between two tries is long; it ends inside the slot, without a new start time.
Retries(c) ==
  /\ CallerAt(c, "backoff") /\ Now(c, "fetching")
  /\ UNCHANGED <<active, lead, penalty, waiters, owed>>

\* A unit of time passes; no start is overslept.
Due(c) == CallerAt(c, "sleeping") /\ caller[c].wait = 1
Tick ==
  /\ lead > 0 /\ lead' = lead - 1
  /\ caller' = [c \in Caller |->
       IF Due(c) THEN [caller[c] EXCEPT !.pc = "fetching", !.wait = 0]
       ELSE IF CallerAt(c, "sleeping") THEN [caller[c] EXCEPT !.wait = @ - 1] ELSE caller[c]]
  /\ IF \E c \in Caller : Due(c) THEN Started(CHOOSE c \in Caller : Due(c))
     ELSE owed' = IF owed = 0 THEN 0 ELSE owed - 1
  /\ UNCHANGED <<active, penalty, waiters>>

LimiterInit ==
  /\ active = 0 /\ lead = 0 /\ penalty = 0 /\ waiters = <<>> /\ owed = 0
  /\ caller \in [Caller -> [pc : {"arriving"}, kind : {"request", "media", "sdk"}, write : BOOLEAN,
                            attempt : {0}, wait : {0}]]
  /\ \A c \in Caller : caller[c].kind = "media" => caller[c].write

LimiterNext ==
  \/ Tick
  \/ \E c \in Caller :
       \/ Arrive(c) \/ Wakes(c) \/ Throttled(c) \/ ServerError(c) \/ NetworkError(c)
       \/ \E refused \in BOOLEAN : Answered(c, refused)
       \/ FallBack(c) \/ Retries(c)

LimiterSpec == LimiterInit /\ [][LimiterNext]_limiterVars

\* The variables stay in their types.
LimiterTypeOK ==
  /\ active \in 0..MaxConcurrent /\ lead \in Nat /\ penalty \in 0..MaxPenalty /\ owed \in Nat
  /\ waiters \in Seq(Caller)
  /\ caller \in [Caller -> [pc : {"arriving", "waiting", "woken", "sleeping", "fetching", "backoff",
                                  "falling", "ended"},
                            kind : {"request", "media", "sdk"}, write : BOOLEAN, attempt : Nat, wait : Nat]]

\* Nobody sleeps in the queue while slots stand empty: the slots taken and the
\* callers already woken fill the house (wb-rate-limiter.ts 66-84), although a
\* newcomer may take the slot a woken caller was meant for.
NoneStranded ==
  waiters # <<>> => active + Cardinality({c \in Caller : CallerAt(c, "woken")}) >= MaxConcurrent

\* First tries keep the gap: nobody is due, and no newcomer is let through,
\* before the time owed to the last start, and any two who sleep are due a gap
\* apart (wb-rate-limiter.ts 73-78), whatever order the slots are taken in.
StartsSpaced ==
  /\ owed <= lead
  /\ \A c \in Caller : CallerAt(c, "sleeping") =>
       /\ owed <= caller[c].wait
       /\ \A d \in Caller \ {c} : (CallerAt(d, "sleeping") /\ caller[c].wait <= caller[d].wait)
            => caller[c].wait + MinInterval * Weight(c) <= caller[d].wait

\* Callers keep their turns: none is left behind, and none starts too soon
\* (wb-rate-limiter.ts).
TurnsKept == NoneStranded /\ StartsSpaced
=============================================================================
