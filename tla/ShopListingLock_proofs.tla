----------------------- MODULE ShopListingLock_proofs -----------------------
(***************************************************************************)
(* For any jobs, slots and workers, any crashes and any keys running out:  *)
(* a job lists with a key of its own or has lost it to its time to live,   *)
(* so at most SlotCount others list at once; and no job at rest keeps a    *)
(* slot unless it crashed.                                                 *)
(***************************************************************************)
EXTENDS ShopListingLock, FiniteSetTheorems, TLAPS

\* What holds of each job: having found its own key, or listing, it has it still
\* if it did not run out; the slots its loop has left behind hold no key of its;
\* a loop starts at slot 0; and it owns a key only while active or after a crash.
Holds(j) ==
  j \notin lapsed => /\ pc[j] = "extend" => key[slot[j]] = j
                     /\ pc[j] = "listing" => \E k \in Slot : key[k] = j
Scanned(j) ==
  pc[j] \in {"set", "get", "release"} => \A k \in Slot : k < slot[j] => key[k] # j
Rewound(j) == pc[j] \in {"waiting", "listing", "done"} => slot[j] = 0
Accounted(j) ==
  pc[j] \in Resting /\ j \notin crashed => \A k \in Slot : key[k] # j

JobOK(j) == Holds(j) /\ Scanned(j) /\ Rewound(j) /\ Accounted(j)
LockInv == TypeOK /\ \A j \in Job : JobOK(j)

-----------------------------------------------------------------------------
\* Slot 0 exists, and a slot is a number.
LEMMA SlotFacts ==
  /\ 0 \in Slot
  /\ Slot \subseteq Nat
  /\ \A k \in Slot : \A m \in Slot : m < k + 1 <=> m < k \/ m = k
  /\ \A k \in Slot : k + 1 \notin Slot => \A m \in Slot : m < k \/ m = k
BY LockAssumptions DEF Slot

\* The loop's next step stays within the slots.
LEMMA NextSlotTypes ==
  ASSUME TypeOK, NEW j \in Job, NEW step \in Steps, NEW after \in Steps,
         NextSlot(j, step, after)
  PROVE  slot' \in [Job -> Slot] /\ pc' \in [Job -> Steps]
BY SlotFacts DEF TypeOK, NextSlot, Move

\* No action leaves the types.
THEOREM TypesKept == TypeOK /\ [Next]_vars => TypeOK'
<1> SUFFICES ASSUME TypeOK, [Next]_vars PROVE TypeOK'
  OBVIOUS
<1> USE SlotFacts
<1>1. ASSUME NEW j \in Job, Process(j) PROVE TypeOK'
  BY <1>1 DEF Process, Move, TypeOK, Steps
<1>2. ASSUME NEW j \in Job, SetIfAbsent(j) PROVE TypeOK'
  BY <1>2 DEF SetIfAbsent, Begin, Move, TypeOK, Steps
<1>3. ASSUME NEW j \in Job, GetOwner(j) PROVE TypeOK'
  <2>1. slot' \in [Job -> Slot] /\ pc' \in [Job -> Steps]
    BY <1>3, NextSlotTypes DEF GetOwner, Move, TypeOK, Steps
  <2> QED BY <1>3, <2>1 DEF GetOwner, TypeOK
<1>4. ASSUME NEW j \in Job, Extend(j) PROVE TypeOK'
  BY <1>4 DEF Extend, Begin, Move, TypeOK, Steps
<1>5. ASSUME NEW j \in Job, EndListing(j) PROVE TypeOK'
  BY <1>5 DEF EndListing, Move, TypeOK, Steps
<1>6. ASSUME NEW j \in Job, NEW after \in Resting, Release(j, after) PROVE TypeOK'
  <2>1. slot' \in [Job -> Slot] /\ pc' \in [Job -> Steps]
    BY <1>6, NextSlotTypes DEF Release, Resting, Steps
  <2> QED BY <1>6, <2>1 DEF Release, ReleaseOwn, TypeOK
<1>7. ASSUME NEW k \in Slot, Expire(k) PROVE TypeOK'
  BY <1>7 DEF Expire, TypeOK
<1>8. CASE Crash
  BY <1>8 DEF Crash, TypeOK, Steps, Active
<1>9. CASE UNCHANGED vars
  BY <1>9 DEF vars, TypeOK
<1> QED BY <1>1, <1>2, <1>3, <1>4, <1>5, <1>6, <1>7, <1>8, <1>9 DEF Next, Works, Acquire

\* Keys, jobs and workers stay in states the code knows.
THEOREM TypeCorrect == Spec => []TypeOK
<1>1. Init => TypeOK
  BY SlotFacts DEF Init, TypeOK, Steps
<1> QED BY <1>1, TypesKept, PTL DEF Spec

-----------------------------------------------------------------------------
\* A job is not affected by steps that leave it, its keys and its history alone.
LEMMA OthersKeep ==
  ASSUME NEW j \in Job, JobOK(j),
         pc'[j] = pc[j], slot'[j] = slot[j],
         j \in lapsed => j \in lapsed', j \in crashed => j \in crashed',
         \A k \in Slot : key'[k] = j <=> key[k] = j,
         slot[j] \in Slot
  PROVE  JobOK(j)'
BY DEF JobOK, Holds, Scanned, Rewound, Accounted

\* What a command of one job's leaves alone.
OnlyOf(j) ==
  /\ pc' = [pc EXCEPT ![j] = pc'[j]] /\ slot' = [slot EXCEPT ![j] = slot'[j]]
  /\ \A i \in Job \ {j} : (i \in lapsed => i \in lapsed') /\ (i \in crashed => i \in crashed')
  /\ \A i \in Job \ {j} : \A k \in Slot : key'[k] = i <=> key[k] = i

\* So a command need only be looked at for its own job.
LEMMA OneJob ==
  ASSUME LockInv, NEW j \in Job, OnlyOf(j), JobOK(j)'
  PROVE  \A i \in Job : JobOK(i)'
<1> SUFFICES ASSUME NEW i \in Job, i # j PROVE JobOK(i)'
  OBVIOUS
<1>1. /\ JobOK(i) /\ pc'[i] = pc[i] /\ slot'[i] = slot[i] /\ slot[i] \in Slot
      /\ (i \in lapsed => i \in lapsed') /\ (i \in crashed => i \in crashed')
      /\ \A k \in Slot : key'[k] = i <=> key[k] = i
  BY DEF LockInv, TypeOK, OnlyOf
<1> QED BY <1>1, OthersKeep

\* No command of another job's, and no crash, takes a job's key: the invariant is
\* kept by every step of RedisListingLockStore and WbListingProcessor.
THEOREM LockKept == LockInv /\ [Next]_vars => LockInv'
<1> SUFFICES ASSUME LockInv, [Next]_vars PROVE \A j \in Job : JobOK(j)'
  BY TypesKept DEF LockInv
<1> USE SlotFacts, LockAssumptions
<1>1. ASSUME NEW j \in Job, Process(j) PROVE \A i \in Job : JobOK(i)'
  <2>1. OnlyOf(j)
    BY <1>1 DEF Process, Move, OnlyOf, LockInv, TypeOK
  <2>2. JobOK(j)'
    BY <1>1 DEF Process, Move, LockInv, TypeOK, JobOK, Holds, Scanned, Rewound, Accounted, Resting
  <2> QED BY <2>1, <2>2, OneJob
<1>2. ASSUME NEW j \in Job, SetIfAbsent(j) PROVE \A i \in Job : JobOK(i)'
  <2>1. OnlyOf(j)
    BY <1>2 DEF SetIfAbsent, Begin, Move, OnlyOf, LockInv, TypeOK
  <2>2. CASE key[slot[j]] = Nobody
    <3>1. /\ pc'[j] = "listing" /\ slot'[j] = 0
          /\ slot[j] \in Slot /\ key'[slot[j]] = j
      BY <1>2, <2>2 DEF SetIfAbsent, Begin, Move, LockInv, TypeOK
    <3> QED BY <2>1, <3>1, OneJob DEF JobOK, Holds, Scanned, Rewound, Accounted, Resting
  <2>3. CASE key[slot[j]] # Nobody
    <3>1. JobOK(j)'
      BY <1>2, <2>3
      DEF SetIfAbsent, Move, LockInv, TypeOK, JobOK, Holds, Scanned, Rewound,
          Accounted, Resting
    <3> QED BY <2>1, <3>1, OneJob
  <2> QED BY <2>2, <2>3
<1>3. ASSUME NEW j \in Job, GetOwner(j) PROVE \A i \in Job : JobOK(i)'
  <2>1. OnlyOf(j)
    BY <1>3 DEF GetOwner, NextSlot, Move, OnlyOf, LockInv, TypeOK
  <2>2. CASE key[slot[j]] = j
    <3>1. JobOK(j)'
      BY <1>3, <2>2
      DEF GetOwner, Move, LockInv, TypeOK, JobOK, Holds, Scanned, Rewound, Accounted,
          Resting
    <3> QED BY <2>1, <3>1, OneJob
  <2>3. CASE key[slot[j]] # j
    <3>1. \A k \in Slot : k < slot[j] \/ k = slot[j] => key'[k] # j
      BY <1>3, <2>3 DEF GetOwner, LockInv, TypeOK, JobOK, Scanned
    <3>2. slot[j] \in Slot /\ crashed' = crashed
      BY <1>3 DEF GetOwner, LockInv, TypeOK
    <3>3. CASE slot[j] + 1 \in Slot
      <4>1. pc'[j] = "set" /\ slot'[j] = slot[j] + 1
        BY <1>3, <2>3, <3>3 DEF GetOwner, NextSlot, Move, LockInv, TypeOK
      <4>2. \A k \in Slot : k < slot'[j] => key'[k] # j
        BY <3>1, <3>2, <4>1
      <4>3. JobOK(j)'
        BY <4>1, <4>2 DEF JobOK, Holds, Scanned, Rewound, Accounted, Resting
      <4> QED BY <2>1, <4>3, OneJob
    <3>4. CASE slot[j] + 1 \notin Slot
      <4>1. pc'[j] = "waiting" /\ slot'[j] = 0
        BY <1>3, <2>3, <3>4 DEF GetOwner, NextSlot, Move, LockInv, TypeOK
      <4>2. \A k \in Slot : key'[k] # j
        BY <3>1, <3>2, <3>4
      <4>3. JobOK(j)'
        BY <4>1, <4>2 DEF JobOK, Holds, Scanned, Rewound, Accounted
      <4> QED BY <2>1, <4>3, OneJob
    <3> QED BY <3>3, <3>4
  <2> QED BY <2>2, <2>3
<1>4. ASSUME NEW j \in Job, Extend(j) PROVE \A i \in Job : JobOK(i)'
  <2>1. OnlyOf(j)
    BY <1>4 DEF Extend, Begin, Move, OnlyOf, LockInv, TypeOK
  <2>2. /\ pc'[j] = "listing" /\ slot'[j] = 0 /\ lapsed' = lapsed
        /\ slot[j] \in Slot /\ (j \notin lapsed => key'[slot[j]] = j)
    BY <1>4 DEF Extend, Begin, Move, LockInv, TypeOK, JobOK, Holds
  <2>3. JobOK(j)'
    BY <2>2 DEF JobOK, Holds, Scanned, Rewound, Accounted, Resting
  <2> QED BY <2>1, <2>3, OneJob
<1>5. ASSUME NEW j \in Job, EndListing(j) PROVE \A i \in Job : JobOK(i)'
  <2>1. OnlyOf(j)
    BY <1>5 DEF EndListing, Move, OnlyOf, LockInv, TypeOK
  <2>2. pc'[j] = "release" /\ slot'[j] = 0
    BY <1>5 DEF EndListing, Move, LockInv, TypeOK, JobOK, Rewound
  <2>3. \A k \in Slot : ~(k < 0)
    BY DEF Slot
  <2>4. JobOK(j)'
    BY <2>2, <2>3 DEF JobOK, Holds, Scanned, Rewound, Accounted, Resting
  <2> QED BY <2>1, <2>4, OneJob
<1>6. ASSUME NEW j \in Job, NEW after \in Resting, Release(j, after)
      PROVE  \A i \in Job : JobOK(i)'
  <2>1. OnlyOf(j)
    BY <1>6 DEF Release, ReleaseOwn, NextSlot, Move, OnlyOf, LockInv, TypeOK
  <2>2. \A k \in Slot : k < slot[j] \/ k = slot[j] => key'[k] # j
    BY <1>6 DEF Release, ReleaseOwn, LockInv, TypeOK, JobOK, Scanned
  <2>3. slot[j] \in Slot
    BY DEF LockInv, TypeOK
  <2>4. CASE slot[j] + 1 \in Slot
    <3>1. pc'[j] = "release" /\ slot'[j] = slot[j] + 1
      BY <1>6, <2>4 DEF Release, NextSlot, Move, LockInv, TypeOK
    <3>2. \A k \in Slot : k < slot'[j] => key'[k] # j
      BY <2>2, <2>3, <3>1
    <3>3. JobOK(j)'
      BY <3>1, <3>2 DEF JobOK, Holds, Scanned, Rewound, Accounted, Resting
    <3> QED BY <2>1, <3>3, OneJob
  <2>5. CASE slot[j] + 1 \notin Slot
    <3>1. pc'[j] \in Resting /\ slot'[j] = 0
      BY <1>6, <2>5 DEF Release, NextSlot, Move, LockInv, TypeOK
    <3>2. \A k \in Slot : key'[k] # j
      BY <2>2, <2>3, <2>5
    <3>3. JobOK(j)'
      BY <3>1, <3>2 DEF JobOK, Holds, Scanned, Rewound, Accounted, Resting
    <3> QED BY <2>1, <3>3, OneJob
  <2> QED BY <2>4, <2>5
<1>7. ASSUME NEW k \in Slot, Expire(k) PROVE \A j \in Job : JobOK(j)'
  <2> SUFFICES ASSUME NEW j \in Job PROVE JobOK(j)'
    OBVIOUS
  <2>1. CASE key[k] = j
    BY <1>7, <2>1 DEF Expire, LockInv, TypeOK, JobOK, Holds, Scanned, Rewound, Accounted
  <2>2. CASE key[k] # j
    <3>1. /\ pc' = pc /\ slot' = slot /\ crashed' = crashed
          /\ (j \in lapsed => j \in lapsed')
          /\ \A m \in Slot : key'[m] = j <=> key[m] = j
          /\ JobOK(j) /\ slot[j] \in Slot
      BY <1>7, <2>2 DEF Expire, LockInv, TypeOK
    <3> QED BY <3>1, OthersKeep
  <2> QED BY <2>1, <2>2
<1>8. CASE Crash
  <2> SUFFICES ASSUME NEW j \in Job PROVE JobOK(j)'
    OBVIOUS
  <2>1. pc'[j] \in Resting /\ slot'[j] = 0 /\ key' = key
    BY <1>8 DEF Crash, Active, Resting
  <2>2. j \notin crashed' => \A k \in Slot : key[k] # j
    BY <1>8 DEF Crash, Active, OwnedBy, LockInv, TypeOK, JobOK, Accounted
  <2> QED BY <2>1, <2>2 DEF JobOK, Holds, Scanned, Rewound, Accounted, Resting
<1>9. CASE UNCHANGED vars
  BY <1>9 DEF vars, LockInv, TypeOK, JobOK, Holds, Scanned, Rewound, Accounted
<1> QED BY <1>1, <1>2, <1>3, <1>4, <1>5, <1>6, <1>7, <1>8, <1>9 DEF Next, Works, Acquire

\* The invariant holds in every state.
THEOREM LockInvariant == Spec => []LockInv
<1>1. Init => LockInv
  BY SlotFacts, LockAssumptions
  DEF Init, LockInv, TypeOK, Steps, JobOK, Holds, Scanned, Rewound, Accounted
<1> QED BY <1>1, LockKept, PTL DEF Spec

-----------------------------------------------------------------------------
\* A job that lists holds a key of its own, unless it ran out under it.
THEOREM HolderSafe == Spec => []HolderOwns
<1>1. LockInv => HolderOwns
  BY DEF LockInv, JobOK, Holds, HolderOwns, Listing, OwnedBy
<1> QED BY <1>1, LockInvariant, PTL

\* The slots are SlotCount.
LEMMA SlotCardinality == IsFiniteSet(Slot) /\ Cardinality(Slot) = SlotCount
<1>1. SlotCount \in Nat /\ 0 \in Int /\ SlotCount - 1 \in Int
  BY LockAssumptions
<1>2. /\ IsFiniteSet(Slot)
      /\ Cardinality(Slot) = IF 0 > SlotCount - 1 THEN 0 ELSE (SlotCount - 1) - 0 + 1
  BY <1>1, FS_Interval DEF Slot
<1> QED BY <1>2, LockAssumptions

\* One key names one job, so jobs with keys of their own are no more than the slots.
LEMMA HoldersOwnSlots == HolderOwns /\ TypeOK => Capacity
<1> SUFFICES ASSUME HolderOwns, TypeOK PROVE Capacity
  OBVIOUS
<1> DEFINE S == Listing \ lapsed
           f == [j \in S |-> CHOOSE k \in Slot : key[k] = j]
<1>1. \A j \in S : f[j] \in Slot /\ key[f[j]] = j
  BY DEF HolderOwns, OwnedBy
<1>2. f \in [S -> Slot] /\ \A a, b \in S : f[a] = f[b] => a = b
  <2>1. \A a, b \in S : f[a] = f[b] => a = b
    BY <1>1
  <2> HIDE DEF S
  <2>2. f \in [S -> Slot]
    BY <1>1
  <2> QED BY <2>1, <2>2
<1> HIDE DEF S, f
<1>3. f \in Injection(S, Slot)
  BY <1>2 DEF Injection, IsInjective
<1>4. Cardinality(S) <= Cardinality(Slot)
  BY <1>3, SlotCardinality, FS_Injection
<1> QED BY <1>4, SlotCardinality DEF Capacity, S

\* However jobs crash and keys run out, at most SlotCount list at once.
THEOREM CapacityKept == Spec => []Capacity
BY HoldersOwnSlots, HolderSafe, TypeCorrect, PTL

\* A job at rest keeps a slot only if it crashed.
THEOREM NoLeak == Spec => []NothingLeaked
<1>1. LockInv => NothingLeaked
  BY DEF LockInv, TypeOK, JobOK, Accounted, NothingLeaked, Active
<1> QED BY <1>1, LockInvariant, PTL

-----------------------------------------------------------------------------
(* The lock implements the semaphore of module Semaphore.                  *)

Holders == Listing \ lapsed

\* At most SlotCount hold a permit, before and after each step.
Fits == IsFiniteSet(Holders) /\ Cardinality(Holders) \in Nat /\ Cardinality(Holders) <= SlotCount

LEMMA HoldersFit == LockInv => Fits
<1> SUFFICES ASSUME LockInv PROVE Fits
  OBVIOUS
<1>1. IsFiniteSet(Holders) /\ Cardinality(Holders) \in Nat
  BY LockAssumptions, FS_Subset, FS_CardinalityType DEF Holders, Listing
<1>2. HolderOwns /\ TypeOK
  BY DEF LockInv, JobOK, Holds, HolderOwns, Listing, OwnedBy
<1> QED BY <1>1, <1>2, HoldersOwnSlots DEF Capacity, Holders, Fits

\* The semaphore counts as this module does.
LEMMA SameCardinality == ASSUME NEW S PROVE Permit!Cardinality(S) = Cardinality(S)
BY Zenon DEF Permit!Cardinality, Cardinality

\* A job that comes to list with its key in hand takes a permit that is free.
LEMMA BeginEnters ==
  ASSUME LockInv, Fits, Fits', NEW j \in Job, Begin(j), pc[j] \in {"set", "extend"}, lapsed' = lapsed
  PROVE  Permit!Enter(j) \/ UNCHANGED <<Holders, Finished>>
<1>1. Listing' = Listing \cup {j} /\ j \notin Listing
  BY DEF Begin, Move, Listing, LockInv, TypeOK
<1>2. Finished' = Finished /\ j \notin Finished
  BY DEF Begin, Move, Finished, LockInv, TypeOK
<1>3. CASE j \in lapsed
  BY <1>1, <1>2, <1>3 DEF Holders
<1>4. CASE j \notin lapsed
  <2>1. Holders' = Holders \cup {j} /\ j \notin Holders
    BY <1>1, <1>4 DEF Holders
  <2>2. Cardinality(Holders \cup {j}) = Cardinality(Holders) + 1
    BY <2>1, FS_AddElement DEF Fits
  <2>3. Cardinality(Holders') <= SlotCount /\ SlotCount \in Nat /\ Cardinality(Holders) \in Nat
    BY LockAssumptions DEF Fits
  <2>4. Cardinality(Holders) < SlotCount
    BY <2>1, <2>2, <2>3
  <2> QED BY <1>2, <2>1, <2>4, SameCardinality DEF Permit!Enter, Holders
<1> QED BY <1>3, <1>4

\* Each command of the lock is a step of the semaphore, or none of its business.
LEMMA StepsMap == ASSUME LockInv, Fits, Fits', [Next]_vars PROVE [Permit!SemaphoreNext]_<<Holders, Finished>>
<1> USE DEF LockInv, TypeOK
<1>1. ASSUME NEW j \in Job, pc' = [pc EXCEPT ![j] = pc'[j]], pc[j] \notin {"listing", "done"}, lapsed' = lapsed,
             pc'[j] \notin {"listing", "done"}
      PROVE  UNCHANGED <<Holders, Finished>>
  <2>1. Listing' = Listing /\ Finished' = Finished
    BY <1>1 DEF Listing, Finished
  <2> QED BY <1>1, <2>1 DEF Holders
<1>2. ASSUME NEW j \in Job, Process(j) \/ GetOwner(j) PROVE UNCHANGED <<Holders, Finished>>
  BY <1>1, <1>2 DEF Process, GetOwner, NextSlot, Move
<1>3. ASSUME NEW j \in Job, SetIfAbsent(j) PROVE Permit!Enter(j) \/ UNCHANGED <<Holders, Finished>>
  <2>1. CASE Begin(j)
    BY <1>3, <2>1, BeginEnters DEF SetIfAbsent
  <2>2. CASE Move(j, "get")
    BY <1>1, <1>3, <2>2 DEF SetIfAbsent, Move
  <2> QED BY <1>3, <2>1, <2>2 DEF SetIfAbsent
<1>4. ASSUME NEW j \in Job, Extend(j) PROVE Permit!Enter(j) \/ UNCHANGED <<Holders, Finished>>
  BY <1>4, BeginEnters DEF Extend
<1>5. ASSUME NEW j \in Job, EndListing(j) PROVE Permit!Leave(j)
  <2>1. Listing' = Listing \ {j} /\ Finished' = Finished /\ lapsed' = lapsed
    BY <1>5 DEF EndListing, Move, Listing, Finished
  <2> QED BY <2>1 DEF Permit!Leave, Holders
<1>6. ASSUME NEW j \in Job, NEW after \in Resting, Release(j, after)
      PROVE  Permit!Finish(j) \/ UNCHANGED <<Holders, Finished>>
  <2>1. /\ pc[j] = "release" /\ pc'[j] # "listing" /\ lapsed' \in {lapsed, lapsed \ {j}}
        /\ pc' = [pc EXCEPT ![j] = pc'[j]]
    BY <1>6 DEF Release, NextSlot, Move, Resting
  <2>2. Listing' = Listing /\ j \notin Listing
    BY <2>1 DEF Listing
  <2>3. Holders' = Holders /\ j \notin Holders
    BY <2>1, <2>2 DEF Holders
  <2>4. Finished' = Finished \/ Finished' = Finished \cup {j}
    BY <2>1 DEF Finished
  <2> QED BY <2>3, <2>4 DEF Permit!Finish, Holders
<1>7. ASSUME NEW k \in Slot, Expire(k) PROVE (\E j \in Job : Permit!Leave(j)) \/ UNCHANGED <<Holders, Finished>>
  <2>1. Listing' = Listing /\ Finished' = Finished /\ key[k] \in Job
    BY <1>7 DEF Expire, Listing, Finished
  <2>2. lapsed' = lapsed \/ lapsed' = lapsed \cup {key[k]}
    BY <1>7 DEF Expire
  <2> QED BY <2>1, <2>2 DEF Permit!Leave, Holders
<1>8. ASSUME Crash PROVE Permit!LeaveAll
  <2>1. Listing' = {} /\ Finished' = Finished
    BY <1>8 DEF Crash, Active, Resting, Listing, Finished
  <2> QED BY <2>1 DEF Permit!LeaveAll, Holders
<1>9. CASE UNCHANGED vars
  BY <1>9 DEF vars, Holders, Listing, Finished
<1> HIDE DEF LockInv, TypeOK
<1>10. ASSUME NEW j \in Job, Process(j) \/ Works(j)
       PROVE  (\E c \in Job : Permit!Enter(c) \/ Permit!Leave(c) \/ Permit!Finish(c)) \/ UNCHANGED <<Holders, Finished>>
  BY <1>2, <1>3, <1>4, <1>5, <1>6, <1>10 DEF Works, Acquire
<1> QED BY <1>7, <1>8, <1>9, <1>10 DEF Next, Permit!SemaphoreNext

\* For any jobs, slots, workers and crashes the keys of a shop are a semaphore: a job
\* lists once it has a permit that was free, and a finished one never again.
THEOREM LockIsSemaphore == Spec => ImplementsSemaphore
<1>1. Init => Permit!SemaphoreInit
  BY DEF Init, Permit!SemaphoreInit, Listing, Finished
<1>2. LockInv /\ Fits /\ Fits' /\ [Next]_vars => [Permit!SemaphoreNext]_(Permit!semaphoreVars)
  BY StepsMap DEF Permit!semaphoreVars, Holders
<1> QED BY <1>1, <1>2, LockInvariant, HoldersFit, PTL DEF Spec, ImplementsSemaphore, Permit!SemaphoreSpec
=============================================================================
