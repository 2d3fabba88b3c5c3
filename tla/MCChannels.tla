----------------------------- MODULE MCChannels -----------------------------
(* Channels on a small panel, for TLC. *)
EXTENDS Channels, TLC

Sessions == Permutations(Session)
=============================================================================
