-------------------------------- MODULE Lists --------------------------------
(***************************************************************************)
(* Lists that take each thing once: what a JavaScript loop makes that      *)
(* pushes an element only if it has not been seen, or a filter that keeps  *)
(* some elements in their order.  Written with places instead of a fold,   *)
(* so that proofs can speak of the n-th element.                           *)
(***************************************************************************)
EXTENDS Integers, Sequences, FiniteSets, SequencesExt

\* The n-th of a set of numbers.
NthOf(P, n) == CHOOSE i \in P : Cardinality({k \in P : k < i}) = n - 1

\* The elements of a list at some places, in their order.
Sublist(list, P) == [n \in 1..Cardinality(P) |-> list[NthOf(P, n)]]

\* Where a list first names what another does not have.
NewPlaces(list, more) ==
  {i \in DOMAIN more : more[i] \notin ToSet(list) /\ \A k \in 1..(i - 1) : more[k] # more[i]}

\* A list joined by what it does not have of another, each once.
Joined(list, more) == list \o Sublist(more, NewPlaces(list, more))
==============================================================================
