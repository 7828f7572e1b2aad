------------------------------ MODULE Dispatch ------------------------------
(***************************************************************************)
(* What handing out work promises, whatever the tables and calls behind    *)
(* it: an item is offered, one worker takes it, and from then on it is     *)
(* that worker's until somebody offers, parks or removes it again.         *)
(***************************************************************************)
CONSTANTS
  Item,      \* the pieces of work
  Worker,    \* those who take them
  NoWorker   \* the holder of an item nobody holds, no worker

VARIABLES
  state,     \* per item: none (no such item), offered, held or parked
  holder     \* per item: who holds it

dispatchVars == <<state, holder>>

DispatchTypeOK ==
  /\ state \in [Item -> {"none", "offered", "held", "parked"}]
  /\ holder \in [Item -> Worker \cup {NoWorker}]

DispatchInit ==
  /\ state = [i \in Item |-> "none"]
  /\ holder = [i \in Item |-> NoWorker]

\* Items of S leave their holders, for the state s.
Release(S, s) ==
  /\ state' = [i \in Item |-> IF i \in S THEN s ELSE state[i]]
  /\ holder' = [i \in Item |-> IF i \in S THEN NoWorker ELSE holder[i]]

Offer(S) == Release(S, "offered")

\* Finished, waiting for a retry, or withdrawn: only an item that exists.
Park(S) ==
  /\ \A i \in S : state[i] # "none"
  /\ Release(S, "parked")

Remove(S) == Release(S, "none")

\* The only way to become a holder: the item is on offer.
Take(i, w) ==
  /\ state[i] = "offered"
  /\ state' = [state EXCEPT ![i] = "held"]
  /\ holder' = [holder EXCEPT ![i] = w]

DispatchNext ==
  \/ \E S \in SUBSET Item : Offer(S) \/ Park(S) \/ Remove(S)
  \/ \E i \in Item, w \in Worker : Take(i, w)

DispatchSpec == DispatchInit /\ [][DispatchNext]_dispatchVars
=============================================================================
