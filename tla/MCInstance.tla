----------------------------- MODULE MCInstance -----------------------------
(* A few launches of the program, for TLC. *)
EXTENDS Instance, TLC

Launches == Permutations(Proc)
=============================================================================
