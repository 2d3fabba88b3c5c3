------------------------------- MODULE Glass --------------------------------
(***************************************************************************)
(* The channel on the air under the hand: the view scrolled by wheel,      *)
(* fingers and keys, a run of text marked by the pointer (window/          *)
(* pointer.rs), and the find line searching the scrollback (app/src/       *)
(* find.rs, window/prompt.rs), while output goes on arriving. The terminal *)
(* is the authority on where the view is; the scroll position, the mark    *)
(* and the hit are kept beside it and are brought up to it at different    *)
(* moments: the position once a tick, the mark at the next gesture, the    *)
(* hit never.                                                              *)
(*                                                                         *)
(* Left out: programs that take the pointer or the alternate screen, the   *)
(* rio selection model, links, the clipboard, a query retyped.             *)
(***************************************************************************)
EXTENDS Konsole

CONSTANTS
  Hit(_),       \* of a line of the text, numbered from the first ever: the query is there
  SELF_HITS,    \* hits on the find line's own rows stepped over before giving up
  MaxLines,     \* bound: lines a run may print
  MaxHand       \* bound: what the hand may do in a run

ASSUME GlassAssumption == {SELF_HITS, MaxLines, MaxHand} \subseteq Nat /\ SELF_HITS # 0

VARIABLES
  screen,   \* the terminal on the air and ScrollPosition
  sel,      \* SelectionModel
  hand,     \* dragging, pointer_cell (which only a drag reads), last_click; and,
            \* for the properties, nothing the drag goes by has moved or gone
  find,     \* the find line: caret and floor (their lines), the line of the mark
  queries,  \* the names of the lines a query was painted on
  spent     \* what the run has used of its bounds

glassVars == <<screen, sel, hand, find, queries, spent>>

NoClick == [cell |-> <<0, 0>>, count |-> 0]
AtRest  == [dragging |-> FALSE, pointer |-> <<0, 0>>, click |-> NoClick, steady |-> TRUE]
NoFind  == [on |-> FALSE, caret |-> 0, floor |-> 0, mark |-> Nowhere]

\* The cells a point of the glass may be on: the spare row is there while the
\* picture is shifted.
Pointable ==
  LET rows == IF Shift(screen) > 0 THEN Screen ELSE Screen - 1
  IN  (0 .. Last) \X (TopLine(screen) .. TopLine(screen) + rows)

TopName(G) == G.evicted + TopLine(G)

\* What a drag goes by still stands: in words and lines the window, cell by
\* cell the lines of the anchor and the head.
Stands ==
  IF sel.mode = "character"
  THEN \A c \in {sel.anchor, sel.head} : c[2] >= screen'.evicted - sel.evicted_base
  ELSE TopName(screen') = TopName(screen)

Watching == hand' = [hand EXCEPT !.steady = @ /\ (hand.dragging => Stands)]

Hand  == spent.hand < MaxHand /\ spent' = [spent EXCEPT !.hand = @ + 1]
Prints(n) == spent.lines + n <= MaxLines /\ spent' = [spent EXCEPT !.lines = @ + n]

-----------------------------------------------------------------------------
(***************************************************************************)
(* A tick: what arrived is in the terminal, the position re-reads it, and  *)
(* a glide moves on.                                                       *)
(***************************************************************************)
GlassTick ==
  /\ \E n \in {0, 1} :
       /\ Prints(n)
       /\ screen' \in AdvanceGlide(SyncView(IF n = 1 THEN Fed(screen) ELSE screen))
  /\ Watching
  /\ UNCHANGED <<sel, find, queries>>

-----------------------------------------------------------------------------
(***************************************************************************)
(* The view moved by hand. While the find line stands no key comes here.   *)
(***************************************************************************)
Moved(G) == Hand /\ screen' = G /\ Watching /\ UNCHANGED <<sel, find, queries>>

Wheel == \E n \in {-1, 1} : Moved(ScrollWheel(screen, n))

Fingers == \E d \in {-1, 1} : Moved(ScrollPixels(screen, d))

ScrollKey ==
  /\ ~find.on
  /\ \/ Moved(Scroll(screen, 1)) \/ Moved(Scroll(screen, -1))
     \/ Moved(PageUp(screen)) \/ Moved(PageDown(screen))

\* What is typed goes to the program, and the view to the foot of the screen.
TypeBytes == ~find.on /\ Moved(ToBottom(screen))

-----------------------------------------------------------------------------
(***************************************************************************)
(* The pointer's left button.                                              *)
(***************************************************************************)
\* A second and a third click come soon enough on the same cell, or not.
Pressed ==
  /\ Hand /\ ~hand.dragging
  /\ \E c \in Pointable :
       \E n \in {1} \cup (IF hand.click.cell = c /\ hand.click.count \in 1 .. 2
                          THEN {hand.click.count + 1} ELSE {}) :
         /\ \/ n = 1 /\ \E column \in BOOLEAN : sel' = Press(screen, sel, c, column)
            \/ n = 2 /\ sel' = DoubleClick(screen, sel, c)
            \/ n = 3 /\ sel' = TripleClick(screen, sel, c)
         /\ hand' = [AtRest EXCEPT !.dragging = TRUE, !.pointer = c, !.click = [cell |-> c, count |-> n]]
  /\ UNCHANGED <<screen, find, queries>>

\* A move within a cell says nothing.
Dragged ==
  /\ Hand /\ hand.dragging
  /\ \E c \in Pointable \ {hand.pointer} :
       sel' = DragTo(screen, sel, c) /\ hand' = [hand EXCEPT !.pointer = c]
  /\ UNCHANGED <<screen, find, queries>>

LetGo == hand' = [AtRest EXCEPT !.click = hand.click]

Released ==
  /\ hand.dragging /\ LetGo
  /\ sel' = Release(screen, sel)
  /\ UNCHANGED <<screen, find, queries, spent>>

\* The drag ends unreleased.
Unfocused == hand.dragging /\ LetGo /\ UNCHANGED <<screen, sel, find, queries, spent>>

-----------------------------------------------------------------------------
(***************************************************************************)
(* The find line. The cursor is on the last row.                           *)
(***************************************************************************)
FootRow(G) == Total(G) - 1

OpenFind ==
  /\ ~find.on /\ Prints(1)
  /\ screen' = Fed(screen)
  /\ find' = [on |-> TRUE, caret |-> FootRow(screen), floor |-> FootRow(screen'), mark |-> Nowhere]
  /\ queries' = queries \cup {screen'.evicted + FootRow(screen')}
  /\ Watching
  /\ UNCHANGED sel

CloseFind ==
  /\ find.on /\ Prints(1)
  /\ screen' = Fed(screen) /\ find' = NoFind
  /\ Watching
  /\ UNCHANGED <<sel, queries>>

\* The lines the query is on.
HitLines == {i \in 0 .. FootRow(screen) : Hit(screen.evicted + i) \/ screen.evicted + i \in queries}

\* search_next (external), past line i, round the grid once.
Beyond(i, forward) ==
  LET ahead == {h \in HitLines : IF forward THEN h > i ELSE h < i}
      from  == IF ahead = {} THEN HitLines ELSE ahead
  IN  IF forward THEN Min(from) ELSE Max(from)

\* Past the hit the eye is on, or from the caret: its own line is before it.
Origin(forward) ==
  IF find.mark # Nowhere THEN find.mark ELSE IF forward THEN find.caret ELSE find.caret + 1

\* Mutant: the query's own rows are rows like any other.
FloorAtTheEnd == FootRow(screen) + 1

Floor == find.floor

\* Find::step: the first hit above the floor within SELF_HITS, or a miss.
Step(forward) ==
  LET hits[k \in 1 .. SELF_HITS] == Beyond(IF k = 1 THEN Origin(forward) ELSE hits[k - 1], forward)
      above == {k \in 1 .. SELF_HITS : hits[k] < Floor}
  IN  IF HitLines = {} \/ above = {} THEN Nowhere ELSE hits[Min(above)]

FindStep ==
  /\ find.on /\ Hand
  /\ \E forward \in BOOLEAN :
       LET hit == Step(forward) IN
       /\ hit # Nowhere
       /\ find' = [find EXCEPT !.mark = hit]
       /\ screen' = Reveal(screen, hit)
  /\ Watching
  /\ UNCHANGED <<sel, queries>>

-----------------------------------------------------------------------------
\* A terminal as it may have been left: its history full and the view anywhere,
\* or a line short of it.
Left ==
  {[NewScreen(Scrollback) EXCEPT !.offset = o, !.pos = Row(o)] : o \in 0 .. Scrollback}
    \cup {NewScreen(Max({0, Scrollback - 1}))}

(***************************************************************************)
(* Another channel on the glass (channel_changed): its terminal, wherever  *)
(* it was left; what was going on here ends.                               *)
(***************************************************************************)
Switched ==
  /\ Hand
  /\ \E G \in Left : screen' = SyncView([G EXCEPT !.pos = screen.pos])
  /\ sel' = Clear(sel)
  /\ hand' = AtRest
  /\ find' = NoFind
  /\ queries' = {}

-----------------------------------------------------------------------------
GlassInit ==
  /\ screen \in Left
  /\ sel = NewKonsole
  /\ hand = AtRest
  /\ find = NoFind
  /\ queries = {}
  /\ spent = [lines |-> 0, hand |-> 0]

GlassNext ==
  \/ GlassTick
  \/ Wheel \/ Fingers \/ ScrollKey \/ TypeBytes
  \/ Pressed \/ Dragged \/ Released \/ Unfocused
  \/ OpenFind \/ CloseFind \/ FindStep
  \/ Switched

GlassSpec == GlassInit /\ [][GlassNext]_glassVars

-----------------------------------------------------------------------------
(***************************************************************************)
(* What must hold.                                                         *)
(***************************************************************************)
\* The types: the view and the mark are on the lines there are.
GlassTypeOK ==
  /\ screen.history \in 0 .. Scrollback /\ screen.offset \in 0 .. screen.history
  /\ screen.pos \in 0 .. Row(screen.history)
  /\ IsValid(sel) => sel.top_left \in 0 .. Loc(<<Last, FootRow(screen)>>)
                     /\ sel.bottom_right \in 0 .. Loc(<<Last, FootRow(screen)>>)
  /\ sel.mode \in Mode /\ sel.act_sel \in 0 .. 2 /\ sel.evicted_base \in Nat
  /\ hand.dragging \in BOOLEAN /\ hand.click.count \in 0 .. 3
  /\ find.mark \in {Nowhere} \cup 0 .. FootRow(screen)

\* The picture: the line at the top of it, and what of it is cut off.
Picture(G) == <<G.evicted + G.history - G.offset, Shift(G)>>

\* Where a glide is bound: the line it will bring to the top.
Bound(G) == G.evicted + G.history - G.offset + Ceil(G.pos) - G.glide[2] \div Unit

\* Output moves no view that is scrolled up, and carries a glide along: "history
\* that grew under a scrolled view carried the lines it shows up with it" (sync).
\* Not when the line at the top of the picture is the one history drops.
OutputKeepsTheView ==
  GlassTick \/ OpenFind \/ CloseFind =>
    LET top == screen.evicted + screen.history - screen.offset IN
    /\ screen.offset = 0 /\ screen.glide = NoGlide => screen'.offset = 0
    /\ screen.offset > 0 /\ top >= screen'.evicted =>
         /\ screen.glide = NoGlide => Picture(screen') = Picture(screen)
         /\ screen.glide # NoGlide /\ Bound(screen) >= screen'.evicted =>
              IF screen'.glide # NoGlide THEN Bound(screen') = Bound(screen)
              ELSE Picture(screen') = <<Bound(screen), 0>>

OutputMovesNoView == [][OutputKeepsTheView]_glassVars

\* Together: where the view is, and what may move it.
ViewKeepsItsPlace == []GlassTypeOK /\ OutputMovesNoView

\* The steps of the button and its drag.
PressStep == ~hand.dragging /\ hand'.dragging
DragStep  == hand.dragging /\ hand'.dragging /\ hand'.pointer # hand.pointer

\* The names of the marked cells.
MarkedNames(G, K) == {G.evicted * COLUMNS + l : l \in Marked(K, G.evicted)}

\* The mark goes where its text goes, but for a press, a drag and another channel.
MarkGoesWithItsText ==
  LET from  == screen.evicted + Cell(StartAt(sel, screen.evicted))[2]
      to    == screen.evicted + Cell(EndAt(sel, screen.evicted))[2]
      was   == MarkedNames(screen, sel)
      is    == MarkedNames(screen', sel')
      first == screen'.evicted
  IN  IsValid(sel) =>
        /\ from >= first => is = was
        /\ to >= first => is \subseteq was /\ {m \in was : m \div COLUMNS > first} \subseteq is

MarkFollowsItsText == [][~PressStep /\ ~DragStep /\ ~Switched => MarkGoesWithItsText]_glassVars

\* What a press at the anchor and one move to c would mark.
Direct(G, K, c) ==
  LET p  == Clamp(G, c)
      a  == K.anchor
      lo == IF Precedes(p, a) THEN p ELSE a
      hi == IF Precedes(p, a) THEN a ELSE p
      xs == {p[1], a[1]}
  IN  CASE K.mode = "word" -> Loc(WordStart(G, lo)) .. Loc(WordEnd(G, hi))
        [] K.mode = "line" -> Loc(<<0, LineStart(G, lo[2])>>) .. Loc(<<Last, LineEnd(G, hi[2])>>)
        [] K.mode = "character" ->
             IF K.column_mode
             THEN Cells(Loc(<<Min(xs), lo[2]>>), Loc(<<Max(xs), hi[2]>>), TRUE)
             ELSE Loc(lo) .. Max({Loc(hi) - 1, Loc(<<0, hi[2]>>)})

\* "The selection follows a pointer that crosses back over its anchor": what a
\* drag marks is a matter of where it began and where the pointer is.
MarkIsDirect ==
  LET T == Towards(screen, sel', Clamp(screen, hand'.pointer)) IN
  T.here # T.ohere /\ hand.steady => Marked(sel', screen.evicted) = Direct(screen, sel', hand'.pointer)

DragForgetsItsPath == [][DragStep => MarkIsDirect]_glassVars

\* A step leaves its hit on the screen (reveal): never below it, but by the
\* lines that came since the last tick, which the position reveal measures from
\* has yet to learn of; and never above it, but by one row when the view stood
\* less than half a row past a line, as reveal measures from the row above and
\* scroll moves from the nearest.
HitIsShown ==
  LET row   == find'.mark - (screen'.history - screen'.offset)
      short == IF Round(screen.pos) = Ceil(screen.pos) THEN 0 ELSE 1
      lag   == screen.offset - Ceil(screen.pos)
  IN  row \in -short .. Screen - 1 + lag

\* The lines above the floor the query is on, and those from it down.
HitsAbove == {h \in HitLines : h < find.floor}
HitsBelow == HitLines \ HitsAbove

\* What a step is to find: of the lines above the floor the next one on the
\* way, or the first from the other end.
NearestHit(forward) ==
  LET ahead == {h \in HitsAbove : IF forward THEN h > Origin(forward) ELSE h < Origin(forward)}
      from  == IF ahead = {} THEN HitsAbove ELSE ahead
  IN  IF HitsAbove = {} THEN Nowhere ELSE IF forward THEN Min(from) ELSE Max(from)

\* A search that goes round the grid and steps over its own rows finds what one
\* of the rows above them would (Find::step), until as many lines from the floor
\* down have the query on them as a step tries: then it may miss. The floor is a
\* number of a line, and the query's own until history drops one.
FindsTheNearest ==
  find.on /\ Cardinality(HitsBelow) < SELF_HITS =>
    \A forward \in BOOLEAN : Step(forward) = NearestHit(forward)

\* Together, of a step that finds or puts the line away: what a search was to
\* find before it, and where a hit is put.
FindShowsTheHit ==
  [][(find' # find => FindsTheNearest) /\ (FindStep => HitIsShown)]_glassVars
=============================================================================
