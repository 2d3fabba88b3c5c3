------------------------------ MODULE SlotBoard -----------------------------
(***************************************************************************)
(* What the channel set promises the person at the glass, with no word of  *)
(* how banks are managed: a board of numbered slots, the slot on the air,  *)
(* the banks a server fills, and those that owe a window the user asked.   *)
(*                                                                         *)
(* Nothing that arrives or ends behind the glass takes the air: a window   *)
(* does only as an answer to the user's ask, an end only where it takes    *)
(* what is on the glass. Sessions keep their slots except for a store.     *)
(***************************************************************************)
EXTENDS Integers

CONSTANTS Bank, Slot, Session, Dark

VARIABLES board, air, served, owed

bvars == <<board, air, served, owed>>

Place   == Bank \X Slot
Lit     == {p \in Place : board[p] # Dark}
LitOn(b) == {p \in Lit : p[1] = b}

\* Where the air may land once the rows in `ended` go: its own bank's rows
\* first; it stays where it was when nothing at all is left.
Landings(b, ended) ==
  LET left == Lit \ ended
      own  == {p \in left : p[1] = b}
  IN  IF own # {} THEN own ELSE IF left # {} THEN left ELSE {air}

Init ==
  /\ board = [p \in Place |-> Dark]
  /\ air = <<0, 1>>
  /\ served = {}
  /\ owed = {}

\* A shell or an SSH channel the user asked for takes the air at once.
OpenByUser(p, s) ==
  /\ p \notin Lit
  /\ p[1] \notin served
  /\ board' = [board EXCEPT ![p] = s]
  /\ air' = p
  /\ UNCHANGED <<served, owed>>

\* A bank for a server to fill. The glass turns to it from the channel it was
\* attached on and from nowhere else.
Serve(b) ==
  /\ b \notin served
  /\ LitOn(b) = {}
  /\ served' = served \cup {b}
  /\ air' = air \/ (air \in Lit /\ air'[1] = b)
  /\ UNCHANGED <<board, owed>>

Ask(b) == b \in served /\ owed' = owed \cup {b} /\ UNCHANGED <<board, air, served>>

\* A server's window: it takes the air only where its bank owes one.
Arrive(p, s) ==
  /\ p \notin Lit
  /\ p[1] \in served
  /\ board' = [board EXCEPT ![p] = s]
  /\ air' = IF p[1] \in owed THEN p ELSE air
  /\ owed' = owed \ {p[1]}
  /\ UNCHANGED served

\* A window that found its bank full.
TurnedAway(b) ==
  /\ \A c \in Slot : <<b, c>> \in Lit
  /\ owed' = owed \ {b}
  /\ UNCHANGED <<board, air, served>>

\* The knob, a chord, the pager: onto a session, or onto a bank with none.
Turn(p) ==
  /\ p \in Lit \/ LitOn(p[1]) = {}
  /\ air' = p
  /\ UNCHANGED <<board, served, owed>>

Store(c) ==
  LET to == <<air[1], c>> IN
  /\ air \in Lit
  /\ board' = [board EXCEPT ![air] = board[to], ![to] = board[air]]
  /\ air' = to
  /\ UNCHANGED <<served, owed>>

EndRow(p) ==
  /\ p \in Lit
  /\ board' = [board EXCEPT ![p] = Dark]
  /\ IF air = p THEN air' \in Landings(p[1], {p}) ELSE air' = air
  /\ UNCHANGED <<served, owed>>

\* A bank goes, and with it the row that carried it when that is what died.
EndBank(b, carrier) ==
  LET ended == LitOn(b) \cup carrier IN
  /\ board' = [p \in Place |-> IF p \in ended THEN Dark ELSE board[p]]
  /\ IF air[1] = b \/ air \in carrier
     THEN \E at \in Bank : air' \in Landings(at, ended)
     ELSE air' = air
  /\ served' = served \ {b}
  /\ owed' = owed \ {b}

Next ==
  \/ \E p \in Place, s \in Session : OpenByUser(p, s) \/ Arrive(p, s)
  \/ \E b \in Bank : Serve(b) \/ Ask(b) \/ TurnedAway(b) \/ EndBank(b, {})
  \/ \E p \in Place : Turn(p) \/ EndRow(p)
  \/ \E c \in Slot : Store(c)
  \/ \E b \in Bank, p \in Lit : EndBank(b, {p})

Spec == Init /\ [][Next]_bvars
=============================================================================
