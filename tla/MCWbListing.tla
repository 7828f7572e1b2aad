---------------------------- MODULE MCWbListing ----------------------------
(***************************************************************************)
(* WbListing for TLC: shops and handler slots are interchangeable (no      *)
(* action and no property names one).                                      *)
(***************************************************************************)
EXTENDS WbListing, TLC

Symmetry == Permutations(Shop) \cup Permutations(Call)
=============================================================================
