-------------------------- MODULE ShopListingLock --------------------------
(***************************************************************************)
(* The semaphore of one Wildberries shop: SlotCount keys in Redis, each    *)
(* naming the listing job that holds it until it is released or its time   *)
(* to live is over (ShopListingLock, RedisListingLockStore), and the       *)
(* worker that runs a job only with a key (WbListingProcessor).            *)
(*                                                                         *)
(* Every Redis command is a step.  A job's owner name is its id, so a job  *)
(* that is run again after a crash finds its own key and goes on.  There   *)
(* is no clock: a key may expire at any time, also under a running job;    *)
(* lapsed remembers the jobs that lost a key in that way.  Left out: a     *)
(* command that throws, or whose reply is lost, which leaves a key until   *)
(* it expires, as a crash does, though no process died.                    *)
(***************************************************************************)
EXTENDS Naturals, FiniteSets

CONSTANTS
  Job,          \* listing jobs of the shop, named by their ids
  Nobody,       \* the key does not exist
  SlotCount,    \* WB_LISTING_SHOP_CONCURRENCY
  Workers,      \* WB_LISTING_CONCURRENCY, the queue's concurrency
  MaxTries,     \* attempts of a job
  MaxCrashes    \* bound: crashes of the API process

ASSUME LockAssumptions ==
  /\ Nobody \notin Job /\ IsFiniteSet(Job)
  /\ SlotCount \in 1..8 /\ Workers \in 1..16
  /\ MaxTries \in Nat \ {0} /\ MaxCrashes \in Nat

Slot == 0 .. SlotCount - 1

VARIABLES
  key,          \* per slot: the owner in Redis
  pc,           \* per job: waiting in the queue, at a Redis command, listing, done
  slot,         \* per job: the slot its loop is at
  tries,        \* per job: attempts that listed to an end
  lapsed,       \* history: jobs whose key expired while they relied on it
  crashed,      \* history: jobs that died with keys, not released since
  crashes       \* history: crashes so far

vars == <<key, pc, slot, tries, lapsed, crashed, crashes>>

-----------------------------------------------------------------------------
Steps == {"waiting", "set", "get", "extend", "listing", "release", "done"}
Resting == {"waiting", "done"}

Active == {j \in Job : pc[j] \notin Resting}
Listing == {j \in Job : pc[j] = "listing"}
OwnedBy(j) == {k \in Slot : key[k] = j}

Move(j, step) == pc' = [pc EXCEPT ![j] = step]

\* It has a key: its listing begins, the loop over the slots is left.
Begin(j) == Move(j, "listing") /\ slot' = [slot EXCEPT ![j] = 0]

NextSlotTooFar(j, step, after) ==
  /\ slot' = [slot EXCEPT ![j] = IF @ < SlotCount THEN @ + 1 ELSE 0]
  /\ Move(j, IF slot[j] < SlotCount THEN step ELSE after)
\* The loop's next slot, or what follows when there is none.
NextSlot(j, step, after) ==
  /\ slot' = [slot EXCEPT ![j] = IF @ + 1 \in Slot THEN @ + 1 ELSE 0]
  /\ Move(j, IF slot[j] + 1 \in Slot THEN step ELSE after)

\* A worker takes the job from the queue.
Process(j) ==
  /\ pc[j] = "waiting"
  /\ Cardinality(Active) < Workers
  /\ Move(j, "set")
  /\ UNCHANGED <<key, slot, tries, lapsed, crashed, crashes>>

\* SET key owner PX ttl NX
SetOverwriting(j) ==
  /\ pc[j] = "set"
  /\ key' = [key EXCEPT ![slot[j]] = j]
  /\ Begin(j)
  /\ UNCHANGED <<tries, lapsed, crashed, crashes>>
SetIfAbsent(j) ==
  /\ pc[j] = "set"
  /\ IF key[slot[j]] = Nobody
     THEN key' = [key EXCEPT ![slot[j]] = j] /\ Begin(j)
     ELSE UNCHANGED <<key, slot>> /\ Move(j, "get")
  /\ UNCHANGED <<tries, lapsed, crashed, crashes>>

\* GET key: still this job's, from before a crash?  No slot at all: the job is
\* delayed (moveToDelayed) and waits again.
MissOwnKey(j) ==
  /\ pc[j] = "get"
  /\ NextSlot(j, "set", "waiting")
  /\ UNCHANGED <<key, tries, lapsed, crashed, crashes>>
GetOwner(j) ==
  /\ pc[j] = "get"
  /\ IF key[slot[j]] = j THEN Move(j, "extend") /\ UNCHANGED slot
     ELSE NextSlot(j, "set", "waiting")
  /\ UNCHANGED <<key, tries, lapsed, crashed, crashes>>

\* PEXPIRE, whose result nobody reads.
Extend(j) ==
  /\ pc[j] = "extend"
  /\ Begin(j)
  /\ UNCHANGED <<key, tries, lapsed, crashed, crashes>>

\* processWbListing is over, well or badly: the finally block releases.
EndListing(j) ==
  /\ pc[j] = "listing"
  /\ tries' = [tries EXCEPT ![j] = @ + 1]
  /\ Move(j, "release")
  /\ UNCHANGED <<key, slot, lapsed, crashed, crashes>>

\* One slot of the loop in release: delete the key if the job owns it.
ReleaseWhoever(j) == key' = [key EXCEPT ![slot[j]] = Nobody]
ReleaseOwn(j) == key' = IF key[slot[j]] = j THEN [key EXCEPT ![slot[j]] = Nobody] ELSE key

ReleaseOnlyOne(j, after) ==
  /\ pc[j] = "release"
  /\ after = "waiting" => tries[j] < MaxTries
  /\ ReleaseOwn(j)
  /\ Move(j, after)
  /\ crashed' = crashed \ {j} /\ lapsed' = lapsed \ {j}
  /\ UNCHANGED <<slot, tries, crashes>>
\* A failed attempt is queued again, up to MaxTries.
Release(j, after) ==
  /\ pc[j] = "release"
  /\ after = "waiting" => tries[j] < MaxTries
  /\ ReleaseOwn(j)
  /\ NextSlot(j, "release", after)
  /\ IF slot[j] + 1 \in Slot THEN UNCHANGED <<lapsed, crashed>>
     ELSE lapsed' = lapsed \ {j} /\ crashed' = crashed \ {j}
  /\ UNCHANGED <<tries, crashes>>

-----------------------------------------------------------------------------
\* A key's time to live (WB_LISTING_SHOP_LOCK_TTL_MS) is over.
Expire(k) ==
  /\ key[k] # Nobody
  /\ key' = [key EXCEPT ![k] = Nobody]
  /\ lapsed' = IF pc[key[k]] \in {"extend", "listing"} THEN lapsed \cup {key[k]} ELSE lapsed
  /\ UNCHANGED <<pc, slot, tries, crashed, crashes>>

\* The API process dies: BullMQ queues its jobs again, their keys stay in Redis.
Crash ==
  /\ crashes < MaxCrashes
  /\ crashes' = crashes + 1
  /\ crashed' = crashed \cup {j \in Active : OwnedBy(j) # {}}
  /\ pc' = [j \in Job |-> IF j \in Active THEN "waiting" ELSE pc[j]]
  /\ slot' = [j \in Job |-> 0]
  /\ lapsed' = {}
  /\ UNCHANGED <<key, tries>>

Init ==
  /\ key = [k \in Slot |-> Nobody]
  /\ pc = [j \in Job |-> "waiting"]
  /\ slot = [j \in Job |-> 0]
  /\ tries = [j \in Job |-> 0]
  /\ lapsed = {} /\ crashed = {} /\ crashes = 0

Acquire(j) == SetIfAbsent(j) \/ GetOwner(j) \/ Extend(j)
Works(j) == Acquire(j) \/ EndListing(j) \/ \E after \in Resting : Release(j, after)

Next ==
  \/ \E j \in Job : Process(j) \/ Works(j)
  \/ \E k \in Slot : Expire(k)
  \/ Crash

Spec == Init /\ [][Next]_vars

\* Workers go on, listings end (a call of the adapter is tried eight times at most,
\* and fetch gives up on a silent connection), and a waiting job is one day taken:
\* it is offered again after its delay of 2 s, whoever else is.
FairSpec ==
  /\ Spec
  /\ \A j \in Job : WF_vars(Works(j)) /\ SF_vars(Process(j))

-----------------------------------------------------------------------------
(* Properties.                                                             *)

\* Keys, jobs and workers are in states the code knows.
TypeOK ==
  /\ key \in [Slot -> Job \cup {Nobody}]
  /\ pc \in [Job -> Steps]
  /\ slot \in [Job -> Slot]
  /\ tries \in [Job -> Nat]
  /\ lapsed \in SUBSET Job /\ crashed \in SUBSET Job
  /\ crashes \in Nat

\* A job that lists holds a key of its own, unless that key ran out under it:
\* neither another job's release nor a crashed job's return takes it away.
HolderOwns ==
  \A j \in Listing \ lapsed : OwnedBy(j) # {}

\* At most SlotCount jobs of the shop list at once, not counting those that
\* outlived their key.
Capacity == Cardinality(Listing \ lapsed) <= SlotCount

\* No slot is lost: a job at rest owns a key only after a crash, until it is run
\* again or the key runs out.
NothingLeaked ==
  \A k \in Slot : key[k] # Nobody => key[k] \in Active \cup crashed

\* The keys of the shop are a semaphore: a job that takes several commands to find a
\* slot gets it in one of them, and one whose key ran out has given it back.
Finished == {j \in Job : pc[j] = "done"}
Permit == INSTANCE Semaphore WITH
  Client <- Job, Permits <- SlotCount, holders <- Listing \ lapsed, finished <- Finished
ImplementsSemaphore == Permit!SemaphoreSpec

\* Every job has its turn, crashes and keys left behind by them notwithstanding.
EveryJobDone == <>(\A j \in Job : pc[j] = "done")
=============================================================================
