------------------------------ MODULE Semaphore ------------------------------
(***************************************************************************)
(* What a shop's listing lock promises, whatever keys and commands are     *)
(* behind it: a job gets a permit in one step and only while one is free,  *)
(* permits come back, one by one or all together, and a job that is over   *)
(* never has one again.                                                    *)
(***************************************************************************)
EXTENDS Naturals, FiniteSets

CONSTANTS
  Client,    \* those who ask for permits
  Permits    \* how many there are

VARIABLES
  holders,   \* who has a permit
  finished   \* who will not ask again

semaphoreVars == <<holders, finished>>

SemaphoreInit == holders = {} /\ finished = {}

Enter(c) ==
  /\ c \notin holders \cup finished /\ Cardinality(holders) < Permits
  /\ holders' = holders \cup {c}
  /\ UNCHANGED finished

\* Given back, or run out ...
Leave(c) ==
  /\ holders' = holders \ {c}
  /\ UNCHANGED finished

\* ... or lost, with all the others, when the process dies that had them.
LeaveAll ==
  /\ holders' = {}
  /\ UNCHANGED finished

\* Only who has given its permit back is finished.
Finish(c) ==
  /\ c \notin holders /\ finished' = finished \cup {c}
  /\ UNCHANGED holders

SemaphoreNext ==
  \/ \E c \in Client : Enter(c) \/ Leave(c) \/ Finish(c)
  \/ LeaveAll

SemaphoreSpec == SemaphoreInit /\ [][SemaphoreNext]_semaphoreVars
=============================================================================
