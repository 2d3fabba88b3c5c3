------------------------------ MODULE Envelope ------------------------------
(***************************************************************************)
(* One shell's PTY and the tmux control mode that may open on it: the      *)
(* child's output split into what the grid sees and what a gateway reads   *)
(* (core/src/dcs.rs, tmux_cc.rs), the row's own input queue                *)
(* (core/src/session.rs), and the raising of the gateway                   *)
(* (app/src/window/tmux.rs).                                               *)
(*                                                                         *)
(* A byte is a token: what it is and who wrote it, the shell (0) or the    *)
(* tmux client numbered so. A token `line` or `exit` is a whole line of    *)
(* the protocol, the second one that begins with %exit. The child writes   *)
(* what belongs together at once; reads cut it anywhere.                   *)
(*                                                                         *)
(* Left out: the output rate (a read may be of any length all the same),   *)
(* synchronized updates, an introducer cut short by another one, a pane    *)
(* that shows a line beginning with %exit, the child's end.                *)
(***************************************************************************)
EXTENDS Integers, SequencesExt

CONSTANTS
  Clients,      \* bound: tmux clients the shell ever starts
  Units,        \* bound: what the child ever writes
  Keystrokes,   \* bound: writes typed at the row
  TTY,          \* bytes the tty takes before its reader must
  INPUT_CAP     \* bytes the row queues before it sheds (4 MiB in the program)

ASSUME EnvelopeAssumption ==
  /\ Clients \in Nat /\ Units \in Nat /\ Keystrokes \in Nat
  /\ TTY \in Nat \ {0} /\ INPUT_CAP \in Nat \ {0}

VARIABLES
  child,    \* who runs on the tty: 0, the shell, or a client
  clients,  \* the clients started so far
  killed,   \* those that ended without closing their envelope
  units,    \* how much the child wrote
  out,      \* what it wrote and the row has not read
  owed,     \* what the shell wrote and the grid was not fed
  dcs,      \* the parser and its tap
  replies,  \* the reports the grid owes
  input,    \* bytes the row queues for the child
  tin,      \* bytes of the row's the tty holds
  gateway,  \* the client whose gateway stands on the row, or 0
  pc,       \* where the pump is
  typed     \* how many writes were typed

childVars == <<child, clients, killed, units, owed>>
inputVars == <<replies, input, tin>>
vars == <<childVars, out, dcs, inputVars, gateway, pc, typed>>

Token(k, by) == [k |-> k, by |-> by]
Kinds(tokens)  == [i \in 1 .. Len(tokens) |-> tokens[i].k]
Questions(tokens) == Cardinality({i \in 1 .. Len(tokens) : tokens[i].k = "ask"})
Said(kinds, by) == [i \in 1 .. Len(kinds) |-> Token(kinds[i], by)]
\* Text, an escape sequence, a question, a sixel.
ShellUnits  == {<<"text">>, <<"esc", "text">>, <<"ask">>, <<"esc", "P", "q", "text", "esc", "st">>}
\* A line, one with a colour in it, one with a hyperlink's end.
ClientUnits == {<<"line">>, <<"esc", "line">>, <<"esc", "st", "line">>}
Intro == <<"esc", "P", "1000p">>
Exit  == <<"exit", "esc", "st">>

Idle == pc = "idle"

-----------------------------------------------------------------------------
(***************************************************************************)
(* The child.                                                              *)
(***************************************************************************)
Writes(kinds, by) ==
  /\ units < Units /\ units' = units + 1
  /\ out' = out \o Said(kinds, by)
  /\ UNCHANGED <<dcs, inputVars, gateway, pc, typed>>

ShellSays ==
  /\ child = 0
  /\ \E u \in ShellUnits : Writes(u, 0) /\ owed' = IF killed = {} THEN owed \o u ELSE owed
  /\ UNCHANGED <<child, clients, killed>>

ClientStarts ==
  /\ child = 0 /\ clients < Clients
  /\ clients' = clients + 1 /\ child' = clients + 1
  /\ Writes(Intro, clients + 1)
  /\ UNCHANGED <<killed, owed>>

ClientSays ==
  /\ child # 0
  /\ \E u \in ClientUnits : Writes(u, child)
  /\ UNCHANGED <<child, clients, killed, owed>>

\* Its last words are still the client's.
ClientExits ==
  /\ child # 0 /\ child' = 0
  /\ units' = units + 1 /\ out' = out \o Said(Exit, child)
  /\ UNCHANGED <<clients, killed, owed, dcs, inputVars, gateway, pc, typed>>

ClientKilled ==
  /\ child # 0 /\ child' = 0 /\ killed' = killed \cup {child} /\ owed' = <<>>
  /\ UNCHANGED <<clients, units, out, dcs, inputVars, gateway, pc, typed>>

ChildReads ==
  /\ tin > 0 /\ tin' = tin - 1
  /\ UNCHANGED <<childVars, out, dcs, replies, input, gateway, pc, typed>>

-----------------------------------------------------------------------------
(***************************************************************************)
(* ControlModeTap and DcsParser, a token at a time. `f` is the parser with *)
(* its tap, and the grid.                                                  *)
(***************************************************************************)
NoDcs == [state |-> "scan", held |-> <<>>, active |-> FALSE, by |-> 0, detected |-> FALSE,
          ended |-> FALSE, body |-> {}, exited |-> FALSE]

\* A new envelope clears what a dead one left.
Hook(d, by) == [d EXCEPT !.active = TRUE, !.by = by, !.detected = TRUE, !.body = {},
                         !.ended = FALSE, !.exited = FALSE]
Unhook(d)   == [d EXCEPT !.active = FALSE, !.ended = @ \/ d.active, !.state = "scan"]

Put(d, b) == [d EXCEPT !.body = @ \cup {Token(IF b.k = "exit" THEN "exit" ELSE "line", b.by)},
                       !.exited = IF b.k \in {"line", "exit"} THEN b.k = "exit" ELSE @]

ToGrid(f, tokens, state) ==
  [f EXCEPT !.grid = @ \o tokens, !.d.held = <<>>, !.d.state = state]

Scan(f, b) == IF b.k = "esc" THEN [f EXCEPT !.d.held = <<b>>, !.d.state = "esc"]
              ELSE ToGrid(f, <<b>>, "scan")

\* What may belong to either waits until the tap has answered.
Introducer(f, b) ==
  LET held == Append(f.d.held, b) IN
  CASE f.d.state = "esc" /\ b.k = "P"      -> [f EXCEPT !.d.held = held, !.d.state = "intro"]
    [] f.d.state = "esc" /\ b.k = "esc"    -> [f EXCEPT !.d.held = held]
    [] f.d.state = "intro" /\ b.k = "1000p" ->
         [f EXCEPT !.d = [Hook(f.d, b.by) EXCEPT !.held = <<>>, !.state = "env"]]
    [] OTHER -> ToGrid(f, held, "scan")

InEnvelope(d, b) ==
  IF b.k = "esc" THEN [d EXCEPT !.state = "envesc"] ELSE [Put(d, b) EXCEPT !.state = "env"]

\* Mutant: every ESC \ ends the envelope.
EnvelopeClosing(f, b) ==
  IF f.d.state = "env" THEN [f EXCEPT !.d = InEnvelope(@, b)]
  ELSE IF b.k = "st" THEN [f EXCEPT !.d = Unhook(@)]
  ELSE [f EXCEPT !.d = InEnvelope(Put(@, Token("esc", b.by)), b)]

\* An ESC \ ends it only after %exit; any other ESC was payload.
EnvelopeByte(f, b) ==
  IF f.d.state = "env" THEN [f EXCEPT !.d = InEnvelope(@, b)]
  ELSE IF b.k = "st" /\ f.d.exited THEN [f EXCEPT !.d = Unhook(@)]
  ELSE [f EXCEPT !.d = InEnvelope(Put(@, Token("esc", b.by)), b)]

FeedOne(f, b) ==
  CASE f.d.state = "scan"            -> Scan(f, b)
    [] f.d.state \in {"esc", "intro"} -> Introducer(f, b)
    [] OTHER                         -> EnvelopeByte(f, b)

Feed(f, tokens) == FoldLeft(FeedOne, f, tokens)

\* Mutant: the gateway goes and its envelope stays.
ResetNothing(d) == [d EXCEPT !.held = @]

\* Out of an envelope nobody will close.
Reset(d) == [Unhook(d) EXCEPT !.held = <<>>]

-----------------------------------------------------------------------------
(***************************************************************************)
(* The row's pump, Session::pump, and its write.                           *)
(***************************************************************************)
\* What the tty has room for goes, of a queue of n; the rest waits.
Flush(n) == LET taken == Min({n, TTY - tin}) IN input' = n - taken /\ tin' = tin + taken

\* Mutant: what was queued for the shell is kept.
KeptInControlMode(d, n) == IF d.active THEN n ELSE n

\* What was queued for a shell that is a tmux client now is dropped.
DropInControlMode(d, n) == IF d.active THEN 0 ELSE n

PumpStart ==
  /\ Idle /\ pc' = "read"
  /\ Flush(DropInControlMode(dcs, input))
  /\ UNCHANGED <<childVars, out, dcs, replies, gateway, typed>>

\* What is left to show, or what no shell wrote, shown out of its turn.
Shown(kinds) ==
  CASE killed # {}           -> owed
    [] IsPrefix(kinds, owed) -> SubSeq(owed, Len(kinds) + 1, Len(owed))
    [] OTHER                 -> <<"garbled">>

\* One read, of any length, fed whole.
PumpRead ==
  /\ pc = "read" /\ out # <<>>
  /\ \E n \in 1 .. Len(out) :
       LET fed == Feed([d |-> dcs, grid |-> <<>>], SubSeq(out, 1, n))
       IN  /\ out' = SubSeq(out, n + 1, Len(out))
           /\ dcs' = fed.d /\ owed' = Shown(Kinds(fed.grid))
           /\ replies' = replies + Questions(fed.grid)
  /\ UNCHANGED <<child, clients, killed, units, input, tin, gateway, pc, typed>>

\* Nothing in control mode, and nothing once the queue is full.
Takes(n) == n > 0 /\ ~dcs.active /\ input < INPUT_CAP

\* A write is queued whole, or shed whole.
Write(n) == IF Takes(n) THEN Flush(input + n) ELSE UNCHANGED <<input, tin>>

\* The answers; then the queue again, because the envelope may have opened.
PumpReplies ==
  /\ pc = "read" /\ pc' = "gateways"
  /\ replies' = 0
  /\ IF dcs.active THEN input' = DropInControlMode(dcs, input) /\ UNCHANGED tin ELSE Write(replies)
  /\ UNCHANGED <<childVars, out, dcs, gateway, typed>>

\* Keys, a paste, a mouse report.
Type ==
  /\ Idle /\ typed < Keystrokes /\ typed' = typed + 1
  /\ \E n \in 1 .. 2 : Write(n)
  /\ UNCHANGED <<childVars, out, dcs, replies, gateway, pc>>

-----------------------------------------------------------------------------
(***************************************************************************)
(* pump_gateways: a detection raises a gateway, unless the row carries     *)
(* one; the gateway reads the body, and goes with %exit, with the close,   *)
(* or over a whole line that is not the protocol's.                        *)
(***************************************************************************)
Attached == IF dcs.detected /\ gateway = 0 THEN dcs.by ELSE gateway

PumpGateways ==
  /\ pc = "gateways" /\ pc' = "idle"
  /\ IF Attached = 0
     THEN dcs' = [dcs EXCEPT !.detected = FALSE] /\ UNCHANGED gateway
     ELSE LET foreign == \E b \in dcs.body : b.by # dcs.by
              drained == [dcs EXCEPT !.detected = FALSE, !.body = {}, !.ended = FALSE]
              closes  == dcs.ended \/ \E b \in dcs.body : b.k = "exit"
          IN  \/ closes /\ gateway' = 0 /\ dcs' = drained
              \/ ~closes /\ gateway' = Attached /\ dcs' = drained
              \/ ~closes /\ foreign /\ gateway' = 0 /\ dcs' = Reset(drained)
  /\ UNCHANGED <<childVars, out, inputVars, typed>>

-----------------------------------------------------------------------------
Init ==
  /\ child = 0 /\ clients = 0 /\ killed = {} /\ units = 0 /\ owed = <<>> /\ out = <<>>
  /\ dcs = NoDcs
  /\ replies = 0 /\ input = 0 /\ tin = 0
  /\ gateway = 0 /\ pc = "idle" /\ typed = 0

Child == ShellSays \/ ClientStarts \/ ClientSays \/ ClientExits \/ ClientKilled
Pump  == PumpStart \/ PumpRead \/ PumpReplies \/ PumpGateways
Next  == Child \/ ChildReads \/ Pump \/ Type

Spec == Init /\ [][Next]_vars

\* The window pumps, and a read takes place when there is something to read;
\* the child reads its tty.
FairSpec == Spec /\ WF_vars(Pump) /\ SF_vars(PumpRead) /\ WF_vars(ChildReads)

-----------------------------------------------------------------------------
(***************************************************************************)
(* What must hold.                                                         *)
(***************************************************************************)
\* The types, and the queue's ceiling: short of its cap, and one write.
EnvelopeTypeOK ==
  /\ child \in 0 .. Clients /\ clients \in 0 .. Clients /\ killed \subseteq 1 .. Clients
  /\ dcs.state \in {"scan", "esc", "intro", "env", "envesc"}
  /\ dcs.active = (dcs.state \in {"env", "envesc"})
  /\ input \in 0 .. INPUT_CAP - 1 + Max({2, Units}) /\ tin \in 0 .. TTY /\ replies \in 0 .. Units
  /\ gateway \in 0 .. Clients /\ pc \in {"idle", "read", "gateways"}

\* What of it the shell wrote.
Shells(tokens) == FoldLeft(LAMBDA said, b : IF b.by = 0 THEN Append(said, b.k) ELSE said, <<>>, tokens)

\* Wherever the reads fall, the grid is fed what the shell wrote, in its order
\* and whole, and nothing of a client's that closed its envelope: what it was
\* not fed is what is held back or unread.
GridIsTheShells ==
  killed = {} => owed = Shells(dcs.held \o out)

\* The two of every state.
EnvelopeSound == EnvelopeTypeOK /\ GridIsTheShells

\* No byte of the row's own queue reaches the tty while the envelope is open:
\* the wire is the gateway's.
WireIsTheGateways == [][dcs.active => tin' <= tin]_vars

\* What is queued for the child reaches it or is dropped: the pump comes back
\* to it, whatever was typed after.
InputDrains == input > 0 ~> input = 0

\* An envelope does not stay open with no gateway to read it, which would keep
\* the shell's output from the grid for good.
NoEnvelopeUnheard == dcs.active /\ gateway = 0 ~> ~dcs.active \/ gateway # 0

\* Together: nothing on either side of the row is stuck for good.
NothingSticks == InputDrains /\ NoEnvelopeUnheard
=============================================================================
