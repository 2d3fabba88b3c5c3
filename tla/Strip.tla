-------------------------------- MODULE Strip -------------------------------
(***************************************************************************)
(* The bank beside the glass, over the channel set and what takes the      *)
(* keyboard: the pager that says which slots the engraved numerals name    *)
(* (app/src/bank.rs), the digit chord typed against them                   *)
(* (app/src/chord.rs), a strip carried by the pointer (window/seam.rs),    *)
(* and what follows the air moving (window/bank.rs).                       *)
(*                                                                         *)
(* A handler of the event loop moves the set and then calls                *)
(* channel_changed; a pump moves it any number of times first. `doing`     *)
(* says a handler or a pump is under way.                                  *)
(*                                                                         *)
(* Left out: a bank that is not drawn (its pager keys do nothing), the     *)
(* titles, the ghost of a drop, letting a bank go (its rows end later).    *)
(***************************************************************************)
EXTENDS Keyboard

CONSTANTS
  RowCounts,   \* how many rows the window's height may leave the bank
  Radix        \* the numerals' base (10 in the program)

ASSUME StripAssumption == RowCounts \subseteq Nat \ {0} /\ RowCounts # {} /\ Radix \in Nat \ {0, 1}

VARIABLES
  pager,     \* BankPager: rows_visible, page_index, last_view
  chord,     \* ChordInput: digits (their value, or none), store_mode, deadline;
             \* and, for the properties, the view the first digit was typed at
  strip,     \* strip_held and strip_target (0 for none)
  on_air,    \* the pair the glass was last showing
  doing      \* what the event loop is in: none, handler, pump

stripVars == <<vars, keyboardVars, pager, chord, strip, on_air, doing>>

NoDigits == -1
NoView   == <<0, -1>>
NoChord  == [digits |-> NoDigits, store |-> FALSE, deadline |-> FALSE, labels |-> NoView]
NotHeld  == [held |-> FALSE, target |-> 0]

-----------------------------------------------------------------------------
(***************************************************************************)
(* BankPager: the pages of every bank the set holds, end to end. A page is *)
(* its bank and the slots before it; a bank with an identity gives a row   *)
(* of each page to its band.                                               *)
(***************************************************************************)
PageRows(S, P, b) ==
  IF S.manager[b] = "home" \/ P.rows_visible = 1 THEN P.rows_visible ELSE P.rows_visible - 1

\* Mutant: the pages stop at the last channel.
ReachedOpen(S, b) == Slots(S, b) \cup {1}

\* The slots a bank's pages must reach.
Reached(S, b) == Slots(S, b) \cup {NextSlot(S, b), 1}

ViewPages(S, P) ==
  {p \in {k \in BankId : Held(S, k)} \X (0 .. CHANNEL_CAP - 1) :
     p[2] % PageRows(S, P, p[1]) = 0 /\ \E c \in Reached(S, p[1]) : c > p[2]}

Clamped(i, n) == Max({0, Min({i, n - 1})})

PageShown(S, P) == Clamped(P.page_index, Cardinality(ViewPages(S, P)))

\* The bank on view and the base of its stretch: so many pages come before it.
View(S, P) ==
  CHOOSE p \in ViewPages(S, P) :
    \E T \in {ViewPages(S, P)} :
      Cardinality({q \in T : Before(q, p)}) = Clamped(P.page_index, Cardinality(T))

RowsOnPage(S, P, V) == Min({PageRows(S, P, V[1]), CHANNEL_CAP - V[2]})

\* The absolute slot of a numeral of the page, 0 where the page has no such row.
AbsoluteSlot(V, n) == IF n \in 1 .. RowsOnPage(set, pager, V) THEN V[2] + n ELSE 0

\* Mutant: the page of a slot, counted in its own bank.
PageInBank(S, P, p) ==
  Clamped((p[2] - 1) \div PageRows(S, P, p[1]), Cardinality({q \in ViewPages(S, P) : q[1] = p[1]}))

\* The page of a slot, counted over every bank.
PageOfSlot(S, P, p) ==
  LET T == ViewPages(S, P) IN
  Cardinality({q \in T : q[1] < p[1]})
    + Clamped((p[2] - 1) \div PageRows(S, P, p[1]), Cardinality({q \in T : q[1] = p[1]}))

EnsureVisible(S, P) ==
  IF Held(S, S.currentBank) THEN [P EXCEPT !.page_index = PageOfSlot(S, P, OnAir(S))] ELSE P

\* refresh: the stretch on view as it was last looked at.
Refreshed(S, P) == [P EXCEPT !.last_view = View(S, P)]

Relabelled(P, Q) == P.last_view # NoView /\ P.last_view # Q.last_view

-----------------------------------------------------------------------------

(***************************************************************************)
(* ChordInput.                                                             *)
(***************************************************************************)
\* buf is the start of numeral n, with more to come.
StrictPrefix(buf, n) ==
  \E k \in 1 .. CHANNEL_CAP : Radix ^ k \in Radix .. n /\ n \div (Radix ^ k) = buf

\* A store waits for any slot of the page, a select for the open ones.
SlotPrefixExists(buf, store) ==
  LET V == View(set, pager) IN
  \E n \in 1 .. RowsOnPage(set, pager, V) :
    StrictPrefix(buf, n) /\ (store \/ Open(set, <<V[1], V[2] + n>>))

\* "0" is the slot at the end of the row.
Named(buf) == IF buf = 0 THEN Radix ELSE buf

\* select_channel and move_current_to leave the set be where they refuse.
Selected(p) == IF p[2] # 0 /\ Open(set, p) THEN SetCurrent(set, p) ELSE set

\* Mutant: a store trusts whoever chose the slot.
StoredUnchecked(b, c) == IF c # 0 /\ b = set.currentBank THEN MoveCurrentTo(set, b, c) ELSE set

Stored(b, c) == IF c # 0 /\ CanStore(set, b, c) THEN MoveCurrentTo(set, b, c) ELSE set

ApplyChord(buf, store) ==
  LET V    == View(set, pager)
      slot == AbsoluteSlot(V, Named(buf))
  IN  /\ set' = IF store THEN Stored(V[1], slot) ELSE Selected(<<V[1], slot>>)
      /\ doing' = "handler"

Commit == ApplyChord(chord.digits, chord.store) /\ chord' = NoChord

-----------------------------------------------------------------------------
(***************************************************************************)
(* channel_changed, at the end of a pump and of every handler that moved   *)
(* the set.                                                                *)
(***************************************************************************)
\* Mutant: a switch's work, and only that.
SettledOnSwitch(Q) == IF on_air # OnAir(set) /\ Relabelled(pager, Q) THEN NoChord ELSE chord

\* Mutant: the find line comes down when the bank does.
FindLeftByBank == IF on_air[1] # OnAir(set)[1] THEN NoFind ELSE find

\* A line left behind is a mode with no way out.
FindLeft == IF on_air # OnAir(set) THEN NoFind ELSE find

\* settle_bank: whatever re-labels the numerals abandons the digits.
Settled(Q) == IF Relabelled(pager, Q) THEN NoChord ELSE chord

ChannelChanged ==
  /\ doing # "none" /\ doing' = "none"
  /\ set' = [set EXCEPT !.degaussPending = FALSE]
  /\ on_air' = OnAir(set)
  /\ pager' = Refreshed(set, IF on_air # OnAir(set) THEN EnsureVisible(set, pager) ELSE pager)
  /\ chord' = Settled(pager')
  /\ find' = FindLeft
  /\ pages' = pages \cap InUse(set)
  /\ UNCHANGED <<power, strip, picker>>

\* What happens by itself. A page is a screen with no program behind it: it
\* neither dies nor attaches.
Pumped ==
  /\ doing \in {"none", "pump"} /\ doing' = "pump"
  /\ GatewayCall \/ \E p \in Rows(set) : set.row[p] \notin pages /\ RowCall(p)
  /\ UNCHANGED <<pager, chord, strip, on_air>>

\* A handler that ends in channel_changed; the pager and the strip stand.
Handler(A) ==
  /\ doing = "none" /\ doing' = "handler"
  /\ A
  /\ UNCHANGED <<pager, strip, on_air>>

SwitchedOn == Handler(Start) /\ UNCHANGED chord

\* Ctrl+Shift+T: another of whatever the bank on view is; at home the
\* configuration may say a connection.
NewChannelOnView ==
  LET b == View(set, pager)[1] IN
  Handler(\/ set.manager[b] = "ssh" /\ \E c \in {NextSlot(set, b)} \cap Slot : OpenSshChannel(b, c)
          \/ NewChannel(b)
          \/ set.manager[b] = "home" /\ OpenSsh) /\ UNCHANGED chord

CloseOnAir == Handler(CloseChannel) /\ UNCHANGED chord

Cycled == Handler(\E up \in BOOLEAN : CycleOpen(up)) /\ UNCHANGED chord

\* Ctrl+Shift+Left and Right: slot 0 does not exist, the cap is the model's.
MoveChannel ==
  Handler(/\ On
          /\ \E c \in {OnAir(set)[2] - 1, OnAir(set)[2] + 1} :
               c \in Slot /\ set' = Stored(set.currentBank, c)) /\ UNCHANGED chord

-----------------------------------------------------------------------------
(***************************************************************************)
(* The pager's keys, and a window whose height moved.                      *)
(***************************************************************************)
SteppedTo(d) == Clamped(pager.page_index + d, Cardinality(ViewPages(set, pager)))

\* step_bank: within a bank's stretch a page, across it the band.
StepBank(d) ==
  LET stepped == [pager EXCEPT !.page_index = SteppedTo(d)]
      landed  == View(set, stepped)[1]
  IN  /\ power = "on" /\ doing = "none"
      /\ IF landed = View(set, pager)[1]
         THEN pager' = Refreshed(set, stepped) /\ chord' = Settled(pager') /\ UNCHANGED <<set, doing>>
         ELSE pager' = stepped /\ set' = SelectBank(set, landed) /\ doing' = "handler" /\ UNCHANGED chord
      /\ UNCHANGED <<power, strip, on_air>>

\* settle_rows, wherever the window is laid out afresh.
SettleRows ==
  /\ doing = "none"
  /\ \E n \in RowCounts \ {pager.rows_visible} :
       pager' = Refreshed(set, EnsureVisible(set, [pager EXCEPT !.rows_visible = n]))
  /\ chord' = Settled(pager')
  /\ UNCHANGED <<vars, strip, on_air, doing>>

-----------------------------------------------------------------------------
(***************************************************************************)
(* The chord: a digit, the modifier's release or the 900 ms, the window's  *)
(* going away.                                                             *)
(***************************************************************************)
Waiting(buf, store, view) == [digits |-> buf, store |-> store, deadline |-> TRUE, labels |-> view]

\* The first digit locks the family; a numeral nothing extends commits.
ChordDigit(d, asked) ==
  LET first == chord.digits = NoDigits
      store == IF first THEN asked ELSE chord.store
      buf   == IF first THEN d ELSE chord.digits * Radix + d
  IN  /\ power = "on" /\ doing = "none"
      /\ IF SlotPrefixExists(buf, store)
         THEN chord' = Waiting(buf, store, IF first THEN View(set, pager) ELSE chord.labels) /\ UNCHANGED <<set, doing>>
         ELSE ApplyChord(buf, store) /\ chord' = NoChord
      /\ UNCHANGED <<power, pager, strip, on_air>>

ModifierReleased == chord.digits # NoDigits /\ Handler(UNCHANGED power /\ Commit)

Tick == chord.deadline /\ Handler(UNCHANGED power /\ Commit)

FocusLost ==
  /\ doing = "none" /\ strip' = NotHeld
  /\ IF chord.digits # NoDigits THEN Commit ELSE UNCHANGED <<set, chord, doing>>
  /\ strip' # strip \/ chord' # chord
  /\ UNCHANGED <<power, pager, on_air>>

-----------------------------------------------------------------------------
(***************************************************************************)
(* A strip under the pointer.                                              *)
(***************************************************************************)
\* The press: an open strip comes to the screen and is held, a dark one asks
\* for a channel of whatever the bank is.
StripPressed(n) ==
  LET V == View(set, pager)
      b == V[1]
      c == AbsoluteSlot(V, n)
  IN  /\ doing = "none" /\ doing' = "handler" /\ ~strip.held /\ c # 0
      /\ \/ Open(set, <<b, c>>) /\ Select(<<b, c>>)
         \/ set.manager[b] = "home" /\ OpenHome(c)
         \/ OpenSshChannel(b, c)
         \/ AskSlot(b, c)
      /\ strip' = [strip EXCEPT !.held = Open(set, <<b, c>>)]
      /\ UNCHANGED <<pager, chord, on_air>>

\* The slot under the pointer is the target where the store would land.
StripDragged(n) ==
  LET V == View(set, pager)
      c == AbsoluteSlot(V, n)
  IN  /\ strip.held /\ doing = "none"
      /\ strip' = [strip EXCEPT !.target = IF c # 0 /\ CanStore(set, V[1], c) THEN c ELSE 0]
      /\ UNCHANGED <<vars, pager, chord, on_air, doing>>

StripReleased ==
  /\ strip.held /\ doing = "none" /\ strip' = NotHeld
  /\ IF strip.target = 0
     THEN UNCHANGED <<set, doing>>
     ELSE set' = Stored(View(set, pager)[1], strip.target) /\ doing' = "handler"
  /\ UNCHANGED <<power, pager, chord, on_air>>

-----------------------------------------------------------------------------
\* Until a drawn bank is measured, one page holds every slot.
StripInit ==
  /\ Init
  /\ pager = [rows_visible |-> CHANNEL_CAP, page_index |-> 0, last_view |-> NoView]
  /\ KeyboardInit
  /\ chord = NoChord /\ strip = NotHeld /\ on_air = OnAir(set) /\ doing = "none"

Keys ==
  \/ SwitchedOn \/ NewChannelOnView \/ CloseOnAir \/ Cycled \/ MoveChannel
  \/ \E d \in {-1, 1} : StepBank(d)
  \/ \E d \in 0 .. Radix - 1, store \in BOOLEAN : ChordDigit(d, store)
  \/ ModifierReleased

Pointer ==
  \/ \E n \in Slot : StripPressed(n)
  \/ \E n \in Slot \cup {0} : StripDragged(n)
  \/ StripReleased \/ FocusLost

\* What the picker and the find line do. The picker's calls end in
\* channel_changed; the others leave the air alone.
Lines ==
  \/ Handler(PickerCall) /\ UNCHANGED chord
  \/ /\ doing = "none"
     /\ OpenFind \/ FindEscape \/ Key
     /\ UNCHANGED <<pager, chord, strip, on_air, doing>>

StripNext ==
  \/ (Keys \/ Pointer \/ SettleRows \/ Pumped \/ Tick) /\ UNCHANGED keyboardVars
  \/ Lines \/ ChannelChanged

StripSpec == StripInit /\ [][StripNext]_stripVars

-----------------------------------------------------------------------------
(***************************************************************************)
(* What must hold.                                                         *)
(***************************************************************************)
\* The types. What stands on the glass is what the surface last noted.
StripTypeOK ==
  /\ pager.rows_visible \in Nat \ {0} /\ pager.page_index \in Nat
  /\ pager.last_view \in {NoView} \cup (BankId \X (0 .. CHANNEL_CAP - 1))
  /\ chord.digits \in {NoDigits} \cup (1 .. CHANNEL_CAP - 1) /\ chord.deadline \in BOOLEAN
  /\ strip.held \in BOOLEAN /\ strip.target \in Slot \cup {0}
  /\ doing = "none" => on_air = OnAir(set)

\* The slot has a row on that page.
ShowsSlot(S, P, V, p) == V[1] = p[1] /\ p[2] - V[2] \in 1 .. RowsOnPage(S, P, V)

\* "Every open slot reachable and so is the slot a new channel will take"
\* (view_pages): one page has a row for it and no other has, and what is on view
\* is a page, wherever page_index was left.
EverySlotReachable ==
  /\ \A b \in BankId : Held(set, b) =>
       \A c \in Slots(set, b) \cup ({NextSlot(set, b)} \cap Slot) :
         \E V \in ViewPages(set, pager) :
           \A W \in ViewPages(set, pager) : ShowsSlot(set, pager, W, <<b, c>>) <=> W = V
  /\ View(set, pager) \in ViewPages(set, pager)

\* The two of every state.
StripSound == StripTypeOK /\ EverySlotReachable

\* "They are never committed against the new ones" (bank.rs): between two
\* handlers the digits that wait stand against the labels they were typed at.
DigitsMeanTheirLabels ==
  doing = "none" /\ chord.digits # NoDigits => View(set, pager) = chord.labels

\* "It comes down here": between two handlers the find line is on the channel on
\* the air, where Escape answers it, and over the screen it was raised on, which
\* a bank that is a server's may replace under it with the air standing still
\* (channel_changed).
FindHasAWayOut ==
  doing = "none" /\ find # NoFind =>
    /\ find.on = OnAir(set)
    /\ set.manager[find.on[1]] # "tmux" => set.row[find.on] = find.screen

\* A key typed now goes where the glass said it would: a digit to the slot its
\* numeral is engraved on, Escape to the line that is up.
KeysGoWhereTheGlassSays == DigitsMeanTheirLabels /\ FindHasAWayOut

\* Where the air moved or the height did, the channel on the air has a row on the
\* page then on view, whatever was paged to before (ensure_visible).
AirComesToView ==
  (on_air' # on_air \/ pager'.rows_visible # pager.rows_visible) /\ Open(set', OnAir(set')) =>
    ShowsSlot(set', pager', View(set', pager'), OnAir(set'))

\* Of every step. A drop the pump has come before stores over no carrier and
\* moves none: what the drag's last motion was told is asked again. And what is
\* looked at follows the air.
WiresAndViewFollow == [][WiresKept(set, set') /\ AirComesToView]_stripVars
=============================================================================
