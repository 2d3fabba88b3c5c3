------------------------------- MODULE Gateway -------------------------------
(***************************************************************************)
(* The client half of one `tmux -CC` attachment (crates/app/src/tmux.rs,   *)
(* over the codec of crates/tmux-cc), the surface's turn that drives it    *)
(* (crates/app/src/window/tmux.rs), and the tmux server it talks to.       *)
(*                                                                         *)
(* The gateway is one record, the Rust struct's fields; a handler is an    *)
(* operator from a gateway to a gateway, and one action is one whole turn  *)
(* of the pump: drain some lines, answer them, poll, then act on what they *)
(* asked of the surface. What tmux sees goes down `wire`, a FIFO.          *)
(*                                                                         *)
(* Left out: names and titles, the air (Channels has it), the sessions     *)
(* register, and partial lines, which neither side acts on.                *)
(***************************************************************************)
EXTENDS Integers, SequencesExt, FiniteSetsExt

CONSTANTS
  Windows, Panes, \* bound: how many windows and panes tmux ever makes
  Room,           \* the slots of a bank (CHANNEL_CAP)
  PENDING_CAP,    \* commands that may wait for the transport (bytes in the program)
  BACKLOG_CAP,    \* bytes a pane may bank between its capture and its cursor
  Batch,          \* bound: the most lines one turn drains
  Events,         \* bound: spontaneous events of tmux, its users and the glass
  Kinds           \* bound: which kinds of them happen

ASSUME GatewayAssumption ==
  /\ {Windows, Panes, Room, PENDING_CAP, BACKLOG_CAP, Batch, Events} \subseteq Nat
  /\ Windows > 0 /\ Panes > 0 /\ Batch > 0 /\ BACKLOG_CAP > 0

\* tmux counts its ids up and never reuses one while the server lives.
Window == 1 .. Windows
Pane   == 1 .. Panes
Slot   == 1 .. Room
None   == 0             \* no window, no pane, no slot
NotAsked == -1          \* the bank is owed no window

VARIABLES
  gw,       \* the gateway
  rows,     \* the surface's rows of this bank: a window's channel, by window
  owed,     \* new_window_pending: the slot the next window to land takes
  lines,    \* what tmux has written and the tap not yet handed over
  tmux,     \* the server: windows, panes, what they printed, the sizes it was told
  late,     \* BOOTSTRAP_DEADLINE has passed since the wire opened
  budget    \* spontaneous events left

vars == <<gw, rows, owed, lines, tmux, late, budget>>

\* A command, and what its reply is for: a name and the window, pane or size.
Ask(what, of)  == <<what, of>>
Ignore         == Ask("Ignore", None)
Line(what, of) == [line |-> what, of |-> of]

NoRow == [pane |-> None, slot |-> None, held |-> 0, screen |-> <<>>, cursor |-> "output"]

-----------------------------------------------------------------------------
(***************************************************************************)
(* Out: the queue, the codec's pairing FIFO, the transport.                *)
(***************************************************************************)
\* The transport's mood this turn: it takes everything or nothing; an SSH
\* channel over its byte budget says it took it all and keeps none.
Flush(g) ==
  IF ~g.opened \/ g.pending = <<>> THEN g
  ELSE CASE g.mood = "takes"   -> [g EXCEPT !.wire = @ \o g.pending, !.pending = <<>>]
         [] g.mood = "refuses" -> g
         [] g.mood = "sheds"   -> [g EXCEPT !.pending = <<>>, !.sheds = TRUE]

\* `asked` is the codec's queue with the intent each id stands for.
\* Mutant: a shed command still waits for its reply.
CommandPairsShed(g, ask, intent) ==
  IF ~g.attached THEN g
  ELSE IF Len(g.pending) >= PENDING_CAP
  THEN [g EXCEPT !.sheds = TRUE, !.asked = Append(@, intent)]
  ELSE Flush([g EXCEPT !.asked = Append(@, intent), !.pending = Append(@, ask)])

\* Mutant: commands go on being sent after the end of the attachment.
CommandOverTheEnd(g, ask, intent) ==
  IF Len(g.pending) >= PENDING_CAP THEN [g EXCEPT !.sheds = TRUE]
  ELSE Flush([g EXCEPT !.asked = Append(@, intent), !.pending = Append(@, ask)])

\* `asked` is the codec's queue with the intent each id stands for.
Command(g, ask, intent) ==
  IF ~g.attached THEN g
  ELSE IF Len(g.pending) >= PENDING_CAP THEN [g EXCEPT !.sheds = TRUE]
  ELSE Flush([g EXCEPT !.asked = Append(@, intent), !.pending = Append(@, ask)])

Tell(g, ask)  == Command(g, ask, Ignore)
Query(g, ask) == Command(g, ask, ask)
Emit(g, event) == [g EXCEPT !.out = Append(@, event)]

Known(g) == {w \in Window : g.windows[w] # None}

\* g after a step for each window of W, in the order of their ids.
EachWindow(Op(_, _), g, W) ==
  FoldLeft(LAMBDA h, w : IF w \in W THEN Op(h, w) ELSE h, g, [w \in Window |-> w])

WindowSize(g, w) ==
  IF g.sentSize = 0 THEN g ELSE Tell(g, Ask("WindowSize", <<w, g.sentSize>>))

FlushClientSize(g) ==
  IF g.wantedSize = g.sentSize THEN [g EXCEPT !.resizeDue = FALSE]
  ELSE LET told == Tell([g EXCEPT !.resizeDue = FALSE, !.sentSize = g.wantedSize],
                        Ask("ClientSize", g.wantedSize))
       IN  EachWindow(WindowSize, told, Known(g))

SetClientSize(g, size) ==
  IF g.wantedSize = size THEN g
  ELSE IF g.sentSize = 0 THEN FlushClientSize([g EXCEPT !.wantedSize = size])
  ELSE [g EXCEPT !.wantedSize = size, !.resizeDue = TRUE]

\* Route a pane into a channel: a gate, and its screen and cursor asked for.
AttachWindow(g, w, p) ==
  LET gated == [g EXCEPT !.gate[p] = "asked", !.backlog[p] = <<>>, !.windows[w] = p]
  IN  Query(Query(gated, Ask("Capture", p)), Ask("Cursor", p))

Teardown(g, lost) ==
  IF ~g.attached THEN g
  ELSE Emit([Flush(g) EXCEPT
               !.pending = <<>>, !.attached = FALSE, !.asked = <<>>,
               !.windows = [w \in Window |-> None],
               !.gate = [p \in Pane |-> "none"], !.backlog = [p \in Pane |-> <<>>],
               !.resizeDue = FALSE],
            [do |-> "Detached", lost |-> lost])

-----------------------------------------------------------------------------

(***************************************************************************)
(* Back: replies.                                                          *)
(***************************************************************************)
NeutraliseCursorIntent(g, p) ==
  [g EXCEPT !.asked = [i \in DOMAIN @ |-> IF @[i] = Ask("Cursor", p) THEN Ignore ELSE @[i]]]

\* What was banked goes in first, the cursor last.
FinishPaneBootstrap(g, p, walk) ==
  IF g.gate[p] = "none" THEN g
  ELSE LET live == [g EXCEPT !.gate[p] = "live", !.backlog[p] = <<>>]
       IN  IF g.backlog[p] = <<>> /\ ~walk THEN live
           ELSE Emit(live, [do |-> "Output", pane |-> p, draw |-> "tail",
                            bytes |-> g.backlog[p], walk |-> walk])

\* Mutant: the new pane is taken without its capture.
SwitchWithoutCapture(g, w, p) ==
  IF g.windows[w] = p THEN g
  ELSE Emit([g EXCEPT !.windows[w] = p], [do |-> "WindowPaneChanged", window |-> w, pane |-> p])

\* `ahead` keeps, for the properties, the windows the books ran ahead of: one
\* entered here before it was announced is no news when it is listed.
SwitchActivePane(g, w, p) ==
  LET previous == g.windows[w] IN
  IF previous = p THEN g
  ELSE LET gated == previous # None /\ g.gate[previous] # "none"
           moved == Emit([g EXCEPT !.windows[w] = p,
                                   !.ahead = IF previous = None THEN @ \cup {w} ELSE @,
                                   !.gate = IF gated THEN [@ EXCEPT ![previous] = "none"]
                                                     ELSE @],
                         [do |-> "WindowPaneChanged", window |-> w, pane |-> p])
       IN  IF gated THEN AttachWindow(moved, w, p) ELSE moved

\* A window enters the books, with the slot tmux holds for it if it holds one.
Announce(g, w, p, slot) ==
  WindowSize([g EXCEPT !.windows[w] = p,
                       !.channels[w] = IF slot = None THEN @ ELSE slot], w)

Bootstrap(g) ==
  IF g.bootstrapped THEN g
  ELSE Query([g EXCEPT !.bootstrapped = TRUE], Ask("WindowNames", None))

Booked(g, listed, W) ==
  EachWindow(LAMBDA h, w : Announce(h, w, listed.active[w], listed.channel[w]), g, W)

Added(g, listed, W) ==
  EachWindow(LAMBDA h, w : Emit(h, [do |-> "WindowAdded", window |-> w,
                                    pane |-> listed.active[w], slot |-> listed.channel[w]]), g, W)

\* Only a window the books lack is news.
News(g, listed) == {w \in Window : listed.active[w] # None /\ g.windows[w] = None}

\* Mutant: the windows land in the order they are listed.
ReplyListPanesUnsorted(g, listed) ==
  LET new == News(g, listed) IN Bootstrap(Added(Booked(g, listed, new), listed, new))

\* Those with a slot of their own land before the rest.
ReplyListPanes(g, listed) ==
  LET new    == News(g, listed)
      seated == {w \in new : listed.channel[w] # None}
  IN  Bootstrap(Added(Added(Booked(g, listed, new), listed, seated), listed, new \ seated))

ReplyCapture(g, p, printed) ==
  IF g.gate[p] = "none" THEN g
  ELSE Emit([g EXCEPT !.gate[p] = IF @ = "live" THEN @ ELSE "captured"],
            [do |-> "Output", pane |-> p, draw |-> "screen", bytes |-> printed, walk |-> FALSE])

Reply(g, intent, block) ==
  LET what == intent[1] IN
  CASE block.error /\ what \in {"Capture", "Cursor"} ->
         FinishPaneBootstrap(NeutraliseCursorIntent([g EXCEPT !.refused = TRUE], intent[2]),
                             intent[2], FALSE)
    [] ~block.error /\ what = "ListPanes"   -> ReplyListPanes(g, block.body)
    [] ~block.error /\ what = "Capture"     -> ReplyCapture(g, intent[2], block.body)
    [] ~block.error /\ what = "Cursor"      -> FinishPaneBootstrap(g, intent[2], TRUE)
    [] ~block.error /\ what = "LayoutPanes" -> SwitchActivePane(g, intent[2], block.body)
    [] OTHER -> g

\* Mutant: the attach's own reply counts against the server.
BlockFromTheStart(g, block) ==
  IF block.flagged /\ g.asked # <<>>
  THEN Reply([g EXCEPT !.asked = Tail(@), !.solicited = TRUE], Head(g.asked), block)
  ELSE [g EXCEPT !.unsolicited = TRUE]

\* Mutant: unflagged blocks are not counted.
BlockUncounted(g, block) ==
  IF block.flagged /\ g.asked # <<>>
  THEN Reply([g EXCEPT !.asked = Tail(@), !.solicited = TRUE], Head(g.asked), block)
  ELSE g

\* The flags gate: an unflagged block never takes a command off the queue.
\* A reply read as the answer to another question ends what the model says.
Block(g, block) ==
  IF ~block.flagged \/ g.asked = <<>> THEN [g EXCEPT !.unsolicited = @ \/ g.opened]
  ELSE LET paired == [g EXCEPT !.asked = Tail(@), !.solicited = TRUE]
       IN  IF Head(g.asked) \in {block.of, Ignore} THEN Reply(paired, Head(g.asked), block)
           ELSE [paired EXCEPT !.crossed = TRUE]

-----------------------------------------------------------------------------
(***************************************************************************)
(* Back: notifications.                                                    *)
(***************************************************************************)
\* Mutant: what the capture is about to draw is banked as well.
OutputFromTheAsk(g, p, byte) ==
  CASE g.gate[p] = "none" -> g
    [] g.gate[p] \in {"asked", "captured"} -> [g EXCEPT !.backlog[p] = Append(@, byte)]
    [] g.gate[p] = "live" ->
         Emit(g, [do |-> "Output", pane |-> p, draw |-> "tail", bytes |-> <<byte>>, walk |-> FALSE])

Output(g, p, byte) ==
  CASE g.gate[p] \in {"none", "asked"} -> g
    [] g.gate[p] = "captured" ->
         LET banked == [g EXCEPT !.backlog[p] = Append(@, byte)] IN
         IF Len(banked.backlog[p]) < BACKLOG_CAP THEN banked
         ELSE FinishPaneBootstrap(NeutraliseCursorIntent(banked, p), p, FALSE)
    [] g.gate[p] = "live" ->
         Emit(g, [do |-> "Output", pane |-> p, draw |-> "tail",
                  bytes |-> <<byte>>, walk |-> FALSE])

WindowClose(g, w) ==
  LET p == g.windows[w]
  IN  Emit([g EXCEPT !.windows[w] = None,
                     !.gate = IF p = None THEN @ ELSE [@ EXCEPT ![p] = "none"],
                     !.channels[w] = None],
           [do |-> "WindowClosed", window |-> w])

WindowNotification(g, n) ==
  CASE n.line = "WindowAdd"         -> Query(g, Ask("ListPanes", None))
    [] n.line = "WindowPaneChanged" -> SwitchActivePane(g, n.of[1], n.of[2])
    [] n.line = "WindowClose"       -> WindowClose(g, n.of)
    [] n.line = "LayoutChange"      ->
         IF g.windows[n.of] = None THEN g ELSE Query(g, Ask("LayoutPanes", n.of))

Notification(g, n) ==
  CASE n.line = "Output"          -> Output(g, n.of[1], n.of[2])
    [] n.line = "SessionsChanged" -> [g EXCEPT !.relistDue = TRUE]
    [] n.line = "Exit"            -> Teardown(g, FALSE)
    [] n.line = "SessionChanged"  ->
         Flush([g EXCEPT !.opened = TRUE, !.relistDue = @ \/ g.bootstrapped])
    [] OTHER -> IF g.bootstrapped THEN WindowNotification(g, n) ELSE g

Take(g, l) ==
  IF ~g.attached THEN g
  ELSE CASE l.line = "Block"   -> Block(g, l)
         [] l.line = "Foreign" -> Teardown(g, TRUE)
         [] l.line = "ST"      -> g
         [] OTHER              -> Notification(g, l)

Relist(g) ==
  IF g.relistDue THEN Query([g EXCEPT !.relistDue = FALSE], Ask("ListSessions", None)) ELSE g

Advance(g, taken) == Relist(FoldLeft(Take, g, taken))

Debounced(g, settled) == IF g.resizeDue /\ settled THEN FlushClientSize(g) ELSE g

\* The deadline passed with every answer so far unflagged.
Watched(g) ==
  IF g.attached /\ ~g.solicited /\ g.unsolicited /\ late
  THEN Teardown(Tell(g, Ask("DetachClient", None)), TRUE)
  ELSE g

Poll(g, settled) == Watched(Debounced(Flush(g), settled))

-----------------------------------------------------------------------------
(***************************************************************************)
(* The surface's half of the turn: the rows, and the screens on them.      *)
(***************************************************************************)
\* The emulator: a capture leaves the cursor at its foot, from where the walk
\* takes it to its place; output moves it off, and a walk from anywhere else
\* leaves it astray. Bytes in the walk's own event are drawn at the foot.
Draw(row, event) ==
  IF event.draw = "screen"
  THEN [row EXCEPT !.screen = event.bytes, !.cursor = "foot"]
  ELSE [row EXCEPT !.screen = @ \o event.bytes,
                   !.cursor = CASE ~event.walk        -> "output"
                                [] @ # "foot"         -> "astray"
                                [] event.bytes = <<>> -> "placed"
                                [] OTHER              -> "overtaken"]

Shown(r) == {w \in Window : r[w].pane # None}

FreeSlots(r) == Slot \ {r[w].slot : w \in Window}

\* Mutant: the slot asked for is not looked at again when the window comes.
LandingUnchecked(st, event) ==
  LET free == FreeSlots(st.rows) IN
  CASE st.owed \in Slot                           -> st.owed
    [] st.owed = NotAsked /\ event.slot \in free -> event.slot
    [] OTHER -> IF free = {} THEN None ELSE Min(free)

\* The slot asked for, or the one tmux holds for it, while that is free.
Landing(st, event) ==
  LET free == FreeSlots(st.rows) IN
  CASE st.owed \in free                           -> st.owed
    [] st.owed = NotAsked /\ event.slot \in free -> event.slot
    [] OTHER -> IF free = {} THEN None ELSE Min(free)

\* Whatever window arrives next answers the ask. It is attached to the pane it
\* was announced with, though the books may know another by now (`ahead`).
OpenTmuxWindow(st, event) ==
  LET slot == Landing(st, event)
      paid == [st EXCEPT !.owed = NotAsked]
      met  == IF st.g.windows[event.window] = event.pane THEN st.g
              ELSE [st.g EXCEPT !.ahead = @ \cup {event.window}]
  IN  IF slot = None THEN paid
      ELSE [paid EXCEPT
              !.g = AttachWindow(met, event.window, event.pane),
              !.rows[event.window] = [NoRow EXCEPT !.pane = event.pane, !.slot = slot,
                                                   !.held = st.rows[event.window].held + 1]]

\* st is the gateway, the rows and the ask together.
Apply(st, event) ==
  CASE event.do = "WindowAdded" -> OpenTmuxWindow(st, event)
    [] event.do = "WindowClosed" -> [st EXCEPT !.rows[event.window] = NoRow]
    [] event.do = "WindowPaneChanged" ->
         IF event.window \notin Shown(st.rows) THEN st
         ELSE [st EXCEPT !.rows[event.window].pane = event.pane]
    [] event.do = "Output" ->
         [st EXCEPT !.rows = [w \in Window |->
             IF st.rows[w].pane = event.pane THEN Draw(st.rows[w], event) ELSE st.rows[w]]]
    [] event.do = "Detached" ->
         [st EXCEPT !.rows = [w \in Window |-> NoRow], !.owed = NotAsked, !.g.gone = TRUE]

Ended(g, taken) ==
  IF \E i \in DOMAIN taken : taken[i].line = "ST" THEN Teardown(g, FALSE) ELSE g
Cut(g, lost) == IF lost THEN Teardown(g, TRUE) ELSE g
Keyed(g, typed) ==
  IF typed = None THEN g ELSE Tell(g, Ask("SendKeys", rows[typed].pane))
Applied(g) == FoldLeft(Apply, [g |-> [g EXCEPT !.out = <<>>], rows |-> rows, owed |-> owed], g.out)


\* A slot tmux does not already hold for its window is written to it, in the
\* order of the slots.
Moved(g, r) == {w \in Shown(r) : g.channels[w] # r[w].slot}

Remember(g, moved, r, slot) ==
  IF slot \notin {r[w].slot : w \in moved} THEN g
  ELSE LET w == CHOOSE w \in moved : r[w].slot = slot
       IN  Tell([g EXCEPT !.channels[w] = slot], Ask("SetChannel", <<w, slot>>))

RememberChannels(g, r) ==
  FoldLeft(LAMBDA h, slot : Remember(h, Moved(g, r), r, slot), g, [slot \in Slot |-> slot])

\* What a turn leaves: a bank that stands has its slots written down.
Settled(st) == IF st.g.gone THEN st ELSE [st EXCEPT !.g = RememberChannels(@, st.rows)]

\* One turn: n lines drained, the transport in some mood, the debounce run out
\* or not, the window whose keys are waiting (None for none), the wire lost.
Turn(n, mood, settled, typed, lost) ==
  LET taken == SubSeq(lines, 1, n)
      read  == Advance([gw EXCEPT !.mood = mood], taken)
      done  == Settled(Applied(Keyed(Poll(Cut(Ended(read, taken), lost), settled), typed)))
  IN  /\ ~gw.gone /\ ~gw.crossed
      /\ \E st \in {done} : gw' = [st.g EXCEPT !.mood = "takes"] /\ rows' = st.rows /\ owed' = st.owed
      /\ lines' = SubSeq(lines, n + 1, Len(lines))
      /\ UNCHANGED <<tmux, late>>

Spend(kind) == kind \in Kinds /\ budget > 0 /\ budget' = budget - 1

PumpWith(settled) ==
  /\ \E n \in 0 .. Batch : n <= Len(lines) /\ Turn(n, "takes", settled, None, FALSE)
  /\ UNCHANGED budget

Pump == \E settled \in BOOLEAN : PumpWith(settled)

\* A turn on which the transport takes nothing, and one with keys to send.
PumpBlocked ==
  /\ Spend("PumpBlocked")
  /\ \E n \in 1 .. Batch : n <= Len(lines) /\ Turn(n, "refuses", FALSE, None, FALSE)

PumpKeys ==
  /\ Spend("PumpKeys")
  /\ \E w \in Shown(rows), n \in 0 .. Batch, mood \in {"takes", "refuses"} :
       n <= Len(lines) /\ Turn(n, mood, FALSE, w, FALSE)

\* The carrier is an SSH channel and its budget is spent.
PumpShed ==
  /\ Spend("PumpShed")
  /\ \E w \in Shown(rows) \cup {None}, n \in 0 .. Batch :
       n <= Len(lines) /\ Turn(n, "sheds", FALSE, w, FALSE)

\* The carrier's transport went.
PumpLost == Spend("PumpLost") /\ Turn(0, "takes", FALSE, None, TRUE)

Resize ==
  /\ Spend("Resize")
  /\ ~gw.gone
  /\ \E size \in {1, 2} : gw.wantedSize # size /\ gw' = SetClientSize(gw, size)
  /\ UNCHANGED <<rows, owed, lines, tmux, late>>

NextPane ==
  /\ Spend("NextPane")
  /\ ~gw.gone
  /\ \E w \in Shown(rows) : gw' = Tell(gw, Ask("NextPane", w))
  /\ UNCHANGED <<rows, owed, lines, tmux, late>>

\* The person asks for a window: on a slot pressed, or the next free one (0
\* when the bank is full).
AskForWindow ==
  /\ Spend("AskForWindow")
  /\ ~gw.gone
  /\ LET free == FreeSlots(rows) IN owed' \in (IF free = {} THEN {None} ELSE free)
  /\ gw' = Tell(gw, Ask("NewWindow", None))
  /\ UNCHANGED <<rows, lines, tmux, late>>

\* The row goes when tmux says the window has.
CloseChannel ==
  /\ Spend("CloseChannel")
  /\ ~gw.gone
  /\ \E w \in Shown(rows) : gw' = Tell(gw, Ask("KillWindow", w))
  /\ UNCHANGED <<rows, owed, lines, tmux, late>>

Detach ==
  /\ Spend("Detach")
  /\ ~gw.gone
  /\ gw' = Tell([gw EXCEPT !.detaching = TRUE], Ask("DetachClient", None))
  /\ UNCHANGED <<rows, owed, lines, tmux, late>>

\* A store: the two slots change hands; the next turn writes them down.
Store ==
  /\ Spend("Store")
  /\ ~gw.gone
  /\ \E w \in Shown(rows) : \E slot \in Slot \ {rows[w].slot} :
       rows' = [v \in Window |->
                  CASE v = w                 -> [rows[v] EXCEPT !.slot = slot]
                    [] rows[v].slot = slot   -> [rows[v] EXCEPT !.slot = rows[w].slot]
                    [] OTHER                 -> rows[v]]
  /\ UNCHANGED <<gw, owed, lines, tmux, late>>

Deadline ==
  /\ gw.opened /\ ~gw.gone /\ ~late
  /\ late' = TRUE
  /\ UNCHANGED <<gw, rows, owed, lines, tmux, budget>>

-----------------------------------------------------------------------------
(***************************************************************************)
(* tmux, from how the gateway reads it: commands answered in order, one    *)
(* block each, everything down one ordered stream.                         *)
(***************************************************************************)
Lit(t)      == {w \in Window : t.active[w] # None}
PanesOf(t, w) == {p \in Pane : t.home[p] = w}
Fresh(t)    == {p \in Pane : p = t.panes + 1}

Answer(ask, error, body) ==
  [line |-> "Block", of |-> ask, flagged |-> tmux.honest, error |-> error, body |-> body]

\* The server at t', having said `said`.
Says(t, said) == tmux' = t /\ lines' = lines \o said

Unwound(t, w) ==
  [t EXCEPT !.active[w] = None, !.channel[w] = None,
            !.home = [p \in Pane |-> IF @[p] = w THEN None ELSE @[p]]]

Opened(t, w, p) == [t EXCEPT !.active[w] = p, !.home[p] = w, !.panes = p,
                             !.windows = IF w > @ THEN w ELSE @]

\* A session goes with its last window, and its clients with it.
Farewell == <<Line("Exit", None), Line("ST", None)>>

Closes(w, said) ==
  LET t == Unwound(tmux, w) IN
  IF Lit(t) # {} THEN Says(t, said \o <<Line("WindowClose", w)>>)
  ELSE Says([t EXCEPT !.over = TRUE], said \o <<Line("WindowClose", w)>> \o Farewell)

\* The window a client asked for; `made` keeps which, and None for one refused.
MakesWindow(ask) ==
  LET w == tmux.windows + 1
      p == tmux.panes + 1
  IN  IF w \in Window /\ p \in Pane
      THEN Says([Opened(tmux, w, p) EXCEPT !.made = @ \cup {w}],
                <<Answer(ask, FALSE, None), Line("WindowAdd", w)>>)
      ELSE Says([tmux EXCEPT !.made = @ \cup {None}], <<Answer(ask, TRUE, None)>>)

Execute(ask) ==
  LET what == ask[1]
      of   == ask[2]
      done == <<Answer(ask, FALSE, None)>>
      fail == <<Answer(ask, TRUE, None)>>
  IN
  CASE what = "ListPanes" -> Says(tmux, <<Answer(ask, FALSE, [active |-> tmux.active, channel |-> tmux.channel])>>)
    [] what \in {"Capture", "Cursor"} ->
         IF tmux.home[of] = None THEN Says(tmux, fail)
         ELSE Says(tmux, <<Answer(ask, FALSE, tmux.printed[of])>>)
    [] what = "LayoutPanes" ->
         IF tmux.active[of] = None THEN Says(tmux, fail)
         ELSE Says(tmux, <<Answer(ask, FALSE, tmux.active[of])>>)
    [] what = "ClientSize" -> Says([tmux EXCEPT !.client = of], done)
    [] what = "WindowSize" ->
         IF tmux.active[of[1]] = None THEN Says(tmux, fail)
         ELSE Says([tmux EXCEPT !.size[of[1]] = of[2]], done)
    [] what = "NextPane" ->
         IF tmux.active[of] = None THEN Says(tmux, fail)
         ELSE \E p \in PanesOf(tmux, of) :
                /\ p = tmux.active[of] => PanesOf(tmux, of) = {p}
                /\ Says([tmux EXCEPT !.active[of] = p],
                        done \o (IF p = tmux.active[of] THEN <<>>
                                 ELSE <<Line("WindowPaneChanged", <<of, p>>)>>))
    [] what = "SetChannel" ->
         IF tmux.active[of[1]] = None THEN Says(tmux, fail)
         ELSE Says([tmux EXCEPT !.channel[of[1]] = of[2]], done)
    [] what = "NewWindow"  -> MakesWindow(ask)
    [] what = "KillWindow" ->
         IF tmux.active[of] = None THEN Says(tmux, fail) ELSE Closes(of, done)
    [] what = "DetachClient" -> Says([tmux EXCEPT !.over = TRUE], done \o Farewell)
    [] OTHER -> Says(tmux, done)

ServerReads ==
  /\ gw.wire # <<>>
  /\ ~tmux.over
  /\ gw' = [gw EXCEPT !.wire = Tail(@)]
  /\ Execute(Head(gw.wire))
  /\ UNCHANGED <<rows, owed, late, budget>>

\* A capture of a pane that stands may fail all the same.
CaptureFails ==
  /\ Spend("CaptureFails")
  /\ gw.wire # <<>> /\ Head(gw.wire)[1] = "Capture" /\ ~tmux.over
  /\ gw' = [gw EXCEPT !.wire = Tail(@)]
  /\ Says(tmux, <<Answer(Head(gw.wire), TRUE, None)>>)
  /\ UNCHANGED <<rows, owed, late>>

\* What happens on the server by itself, or at another client's word.
Happens(kind, t, said) ==
  /\ Spend(kind)
  /\ tmux.attached /\ ~tmux.over
  /\ Says(t, said)
  /\ UNCHANGED <<gw, rows, owed, late>>

Prints == \E p \in Pane :
  LET byte == <<p, Len(tmux.printed[p]) + 1>> IN
  /\ tmux.home[p] # None
  /\ Happens("Prints", [tmux EXCEPT !.printed[p] = Append(@, byte)], <<Line("Output", <<p, byte>>)>>)

NewWindow == \E w \in {v \in Window : v = tmux.windows + 1}, p \in Fresh(tmux) :
  Happens("NewWindow", Opened(tmux, w, p), <<Line("WindowAdd", w)>>)

Split == \E w \in Lit(tmux), p \in Fresh(tmux) :
  Happens("Split", Opened(tmux, w, p), <<Line("LayoutChange", w), Line("WindowPaneChanged", <<w, p>>)>>)

SelectPane == \E w \in Lit(tmux) : \E p \in PanesOf(tmux, w) \ {tmux.active[w]} :
  Happens("SelectPane", [tmux EXCEPT !.active[w] = p], <<Line("WindowPaneChanged", <<w, p>>)>>)

\* The active pane killed: the layout is all that is said to have changed.
KillPane == \E w \in Lit(tmux) : \E p \in PanesOf(tmux, w) \ {tmux.active[w]} :
  Happens("KillPane", [tmux EXCEPT !.active[w] = p, !.home[tmux.active[w]] = None],
          <<Line("LayoutChange", w)>>)

CloseWindow ==
  /\ Spend("CloseWindow")
  /\ tmux.attached /\ ~tmux.over
  /\ \E w \in Lit(tmux) : Closes(w, <<>>)
  /\ UNCHANGED <<gw, rows, owed, late>>

SessionsChange == Happens("SessionsChange", tmux, <<Line("SessionsChanged", None)>>)

\* The server is killed with a word, or its client without one.
Exits == Happens("Exits", [tmux EXCEPT !.over = TRUE], Farewell)
Dies  == \E word \in {"Foreign", "ST"} :
  Happens("Dies", [tmux EXCEPT !.over = TRUE], <<Line(word, None)>>)

\* The end of the attach burst.
Attaches ==
  /\ ~tmux.attached
  /\ Says([tmux EXCEPT !.attached = TRUE], <<Line("SessionChanged", None)>>)
  /\ UNCHANGED <<gw, rows, owed, late, budget>>

\* Nothing more can happen to an attachment that is over.
Over == (gw.gone \/ gw.crossed) /\ UNCHANGED vars

-----------------------------------------------------------------------------
NewGateway ==
  LET bare == [attached |-> TRUE, opened |-> FALSE, bootstrapped |-> FALSE,
               pending |-> <<>>, asked |-> <<>>, wire |-> <<>>, out |-> <<>>,
               windows |-> [w \in Window |-> None], channels |-> [w \in Window |-> None],
               gate    |-> [p \in Pane |-> "none"],
               backlog |-> [p \in Pane |-> <<>>],
               sentSize |-> 0, wantedSize |-> 0, resizeDue |-> FALSE, relistDue |-> FALSE,
               solicited |-> FALSE, unsolicited |-> FALSE, sheds |-> FALSE, refused |-> FALSE,
               detaching |-> FALSE, ahead |-> {},
               mood |-> "takes", crossed |-> FALSE, gone |-> FALSE]
      served == Query(bare, Ask("Host", None))
      listed == Query(served, Ask("ListPanes", None))
  IN  Query(listed, Ask("ListSessions", None))

\* A server of n windows of one pane each, the last of them on the slot an
\* earlier attach left it on; `honest` when its blocks are flagged.
FirstServer(honest, n, slot) ==
  [active |-> [w \in Window |-> IF w <= n THEN w ELSE None],
   home |-> [p \in Pane |-> IF p <= n THEN p ELSE None],
   windows |-> n, panes |-> n,
   printed |-> [p \in Pane |-> IF p = 1 THEN << <<1, 1>> >> ELSE <<>>],
   channel |-> [w \in Window |-> IF w = n THEN slot ELSE None],
   client |-> 0, size |-> [w \in Window |-> 0], made |-> {},
   attached |-> FALSE, over |-> FALSE, honest |-> honest]

Init ==
  /\ gw = SetClientSize(NewGateway, 1)
  /\ rows = [w \in Window |-> NoRow]
  /\ lines = <<[line |-> "Block", of |-> Ignore, flagged |-> FALSE, error |-> FALSE, body |-> None]>>
  /\ owed = NotAsked
  /\ \E honest \in BOOLEAN, n \in 1 .. Min({Windows, Panes, Room}), slot \in Slot \cup {None} :
       /\ slot = None \/ honest  \* one that flags no block lists no slot
       /\ tmux = FirstServer(honest, n, slot)
  /\ late = FALSE
  /\ budget = Events

Glass  == Resize \/ NextPane \/ AskForWindow \/ CloseChannel \/ Detach \/ Store
Server == Attaches \/ ServerReads \/ CaptureFails
World  == Prints \/ NewWindow \/ Split \/ SelectPane \/ KillPane \/ CloseWindow
          \/ SessionsChange \/ Exits \/ Dies

Next ==
  \/ Pump \/ PumpBlocked \/ PumpKeys \/ PumpShed \/ PumpLost
  \/ Glass
  \/ Deadline
  \/ Server
  \/ World
  \/ Over

Spec == Init /\ [][Next]_vars

\* The surface pumps every frame, its clock runs, and tmux reads its wire. The
\* first conjunct is the weak fairness of PumpAll, its ENABLED written out.
PumpAll == Turn(Min({Batch, Len(lines)}), "takes", TRUE, None, FALSE) /\ UNCHANGED budget

TurnOwed ==
  /\ ~gw.gone
  /\ \/ lines # <<>>
     \/ gw.opened /\ gw.pending # <<>>
     \/ gw.resizeDue
     \/ late /\ gw.unsolicited /\ ~gw.solicited

FairSpec ==
  /\ Spec
  /\ []<>~TurnOwed \/ []<><<PumpAll>>_vars
  /\ WF_vars(Deadline) /\ WF_vars(Attaches) /\ WF_vars(ServerReads)
-----------------------------------------------------------------------------
Asks == {"Host", "ListPanes", "ListSessions", "WindowNames", "Capture", "Cursor",
         "LayoutPanes", "Ignore"}

TypeOK ==
  /\ gw.windows \in [Window -> Pane \cup {None}]
  /\ gw.gate \in [Pane -> {"none", "asked", "captured", "live"}]
  /\ \A i \in DOMAIN gw.asked : gw.asked[i][1] \in Asks
  /\ gw.out = <<>> /\ (gw.gone <=> ~gw.attached)
  /\ {gw.sentSize, gw.wantedSize} \subseteq 0 .. 2
  /\ \A w \in Window : rows[w].pane \in Pane \cup {None} /\ rows[w].slot \in Slot \cup {None}
  /\ owed \in Slot \cup {None, NotAsked}
  /\ late \in BOOLEAN /\ budget \in 0 .. Events

(***************************************************************************)
(* Every reply is read as the answer to the question it answers, whatever  *)
(* this side's queue shed and however the transport stalled (command,      *)
(* close_block). Where an SSH carrier sheds what it said it took           *)
(* (PumpShed), it is not so.                                               *)
(***************************************************************************)
RepliesAnswerTheirQuestion == ~gw.crossed

(***************************************************************************)
(* A window never holds two channels, however many listings named it.      *)
(***************************************************************************)
OneChannelPerWindow == \A w \in Window : rows[w].held <= 1

(***************************************************************************)
(* A channel's screen holds its pane's bytes in order, none twice and none *)
(* skipped: what the capture drew is not drawn again, what came after it   *)
(* is not lost (PaneGate).                                                 *)
(***************************************************************************)
DrawnOnce ==
  \A w \in Shown(rows) :
    LET screen == rows[w].screen IN
    \A i \in 1 .. Len(screen) - 1 :
      screen[i + 1] = <<screen[i][1], screen[i][2] + 1>>

(***************************************************************************)
(* A cursor is walked up only by the event that ends a bootstrap, over a   *)
(* capture that drew and nothing drawn by any event since: never after one *)
(* that failed, nor after a backlog that ended the wait                    *)
(* (neutralise_cursor_intent). What was banked meanwhile is in that same   *)
(* event and is drawn before the walk (finish_pane_bootstrap), so with a   *)
(* bank the walk does start from a screen other than the captured one      *)
(* ("overtaken"), which the comment over PaneGate denies.                  *)
(***************************************************************************)
NoStrayCursor == \A w \in Shown(rows) : rows[w].cursor # "astray"

(***************************************************************************)
(* Together: a pane's bytes are on its channel's screen once and in order, *)
(* and no cursor comes to a screen no capture drew.                        *)
(***************************************************************************)
PanesDrawnOnce == DrawnOnce /\ NoStrayCursor

(***************************************************************************)
(* Everything said has been heard and answered, and nothing was shed or    *)
(* refused on the way.                                                     *)
(***************************************************************************)
Quiet ==
  /\ tmux.attached /\ tmux.honest /\ gw.bootstrapped /\ ~gw.gone
  /\ lines = <<>> /\ gw.wire = <<>> /\ gw.pending = <<>> /\ gw.asked = <<>>
  /\ ~gw.resizeDue
  /\ ~gw.sheds /\ ~gw.refused

(***************************************************************************)
(* Once all is quiet a channel shows its window's active pane as it stands *)
(* (switch_active_pane, attach_window). Not a window the books ran ahead   *)
(* of: one whose opening is applied after a change of its pane read in the *)
(* same turn is attached to the pane it had before.                        *)
(***************************************************************************)
ChannelsFollow ==
  Quiet => \A w \in Shown(rows) \ gw.ahead :
             /\ rows[w].pane = tmux.active[w]
             /\ gw.gate[rows[w].pane] = "live"
             /\ rows[w].screen = tmux.printed[rows[w].pane]

(***************************************************************************)
(* Each tmux window gets a channel, where the bank has room for all there  *)
(* can be (docs/controls.md). Not one the books ran ahead of: a change of  *)
(* its pane heard before its announcement takes its news away.             *)
(***************************************************************************)
WindowsShown ==
  Quiet /\ Windows <= Room => Lit(tmux) \ gw.ahead \subseteq Shown(rows)

(***************************************************************************)
(* The books hold only windows there are, whatever was read in one turn    *)
(* with their end (WindowClose).                                           *)
(***************************************************************************)
BooksMatch == Quiet => Known(gw) \subseteq Lit(tmux)

(***************************************************************************)
(* tmux has the glass's size for the client and for each window shown (the *)
(* client-size law).                                                       *)
(***************************************************************************)
SizesSettle ==
  Quiet => /\ tmux.client = gw.wantedSize
           /\ \A w \in Shown(rows) : tmux.size[w] = gw.wantedSize

(***************************************************************************)
(* No two windows stand on one slot, whatever was asked for, remembered or *)
(* stored (open_tmux_window, move_current_to).                             *)
(***************************************************************************)
SlotsApart ==
  /\ \A w \in Shown(rows) : rows[w].slot # None
  /\ \A v, w \in Shown(rows) : rows[v].slot = rows[w].slot => v = w

(***************************************************************************)
(* What the gateway takes tmux to hold of a window's slot, tmux holds: the *)
(* diff that spares it the writing spares no slot the next attach needs    *)
(* (remember_channels).                                                    *)
(***************************************************************************)
SlotsRemembered ==
  Quiet => \A w \in Shown(rows) : tmux.channel[w] = gw.channels[w]

(***************************************************************************)
(* A bank goes on being owed a window only when one tmux made for it never *)
(* got a channel, or was refused (ask_for_window, open_tmux_window). In    *)
(* those two cases it does go on; and any window may be what answers.      *)
(***************************************************************************)
AsksAreAnswered ==
  Quiet /\ tmux.made \subseteq Shown(rows) => owed = NotAsked

(***************************************************************************)
(* Together: whatever is under way, every part is of its kind, a window    *)
(* has at most one channel and a slot at most one window.                  *)
(***************************************************************************)
WindowsApart == TypeOK /\ OneChannelPerWindow /\ SlotsApart


(***************************************************************************)
(* The turn that ends an attachment writes nothing of its own: the keys    *)
(* typed in it, with whatever else it would have said, die with it, and    *)
(* nothing is left waiting for the wire, which is a shell's again (command,*)
(* teardown). What already waited when the turn began does not die: the    *)
(* teardown's last push at the wire sends it, keys too, after the end was  *)
(* read (a detach-client may be in it).                                    *)
(***************************************************************************)
Keys(wire) == {i \in DOMAIN wire : wire[i][1] = "SendKeys"}

KeysDieWithTheAttachment ==
  gw'.gone /\ ~gw.gone =>
    gw'.pending = <<>> /\ Keys(gw'.wire) \subseteq Keys(gw.wire \o gw.pending)

(***************************************************************************)
(* With no ask outstanding a window lands on the slot an earlier attach    *)
(* left it on, unless one that stood before has it: a window without a     *)
(* slot never takes it first (the listing's sort, open_tmux_window).       *)
(***************************************************************************)
LandsWhereItWas ==
  \A w \in Shown(rows') \ Shown(rows) :
    owed = NotAsked /\ tmux.channel[w] \in FreeSlots(rows) =>
      rows'[w].slot = tmux.channel[w]

\* Of every step: how a turn ends an attachment, and how one fills a bank.
KeysDie == [][KeysDieWithTheAttachment]_vars
WindowsLand == [][LandsWhereItWas]_vars

(***************************************************************************)
(* A server that flags its answers is never asked to let this client go by *)
(* the watchdog, however slow (poll, advance).                             *)
(***************************************************************************)
HonestServerKept ==
  tmux.honest /\ ~gw.detaching => \A i \in DOMAIN gw.wire : gw.wire[i][1] # "DetachClient"

(***************************************************************************)
(* A server that never flags an answer is given up, and every end of the   *)
(* client is noticed (poll, control_mode_ended).                           *)
(***************************************************************************)
EndIsNoticed == tmux.over \/ (~tmux.honest /\ tmux.attached) ~> gw.gone
=============================================================================
