------------------------------ MODULE MCGlass -------------------------------
(* A screen of two rows over two lines of history, for TLC. *)
EXTENDS Glass

\* Words of two cells and of three, one of them over a line's end.
MCBlank(l) == l % 7 \in {1, 4}

MCWrapped(y) == y % 3 = 0

MCHit(y) == y % 3 = 1
=============================================================================
