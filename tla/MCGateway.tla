----------------------------- MODULE MCGateway -----------------------------
(* The gateway against a small tmux server, for TLC. *)
EXTENDS Gateway
=============================================================================
