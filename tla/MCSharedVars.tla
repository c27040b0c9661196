---------------------------- MODULE MCSharedVars ----------------------------
(***************************************************************************)
(* SharedVars for model checking: two workers and two clients, and either  *)
(* of a kind may stand for the other.  What comes after a torn read or a   *)
(* broken file, of which the properties say nothing, is not explored.      *)
(***************************************************************************)
EXTENDS SharedVars, TLC

Symmetry == Permutations(Workers) \cup Permutations(Clients)
Whole == ~torn /\ ~broken
=============================================================================
