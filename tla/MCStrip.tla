------------------------------ MODULE MCStrip -------------------------------
(* The bank's strips over a small channel set, for TLC. *)
EXTENDS Strip, TLC

Sessions == Permutations(Session)
=============================================================================
