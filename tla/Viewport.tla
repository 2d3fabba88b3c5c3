------------------------------ MODULE Viewport ------------------------------
(***************************************************************************)
(* The scrollback of the channel on the air and where the view sits in it  *)
(* (core/src/viewport.rs). A screen is one record: the lines the terminal  *)
(* holds (rio-vt's: evicted, history, offset), and ScrollPosition beside   *)
(* them (pos, glide).                                                      *)
(*                                                                         *)
(* A line's absolute index is 0 at the oldest line held; its name for ever *)
(* is that plus the lines evicted before it. The position is in parts of a *)
(* row, Unit of them, so that it may stand between two lines; the offset   *)
(* is its ceiling.                                                         *)
(*                                                                         *)
(* Left out: `follow`, which nothing reads, and a resize.                  *)
(***************************************************************************)
EXTENDS Integers, FiniteSetsExt

CONSTANTS
  Screen,       \* rows of the screen
  Scrollback,   \* lines of history the terminal keeps
  Unit,         \* parts of a row a position can tell apart
  WHEEL_LINES   \* lines of a wheel notch (3 in the program)

ASSUME ViewportAssumption ==
  /\ Screen \in Nat \ {0} /\ Scrollback \in Nat
  /\ Unit \in Nat \ {0} /\ WHEEL_LINES \in Nat \ {0}

\* No glide under way; one is the positions it goes from and to.
NoGlide == <<>>

NewScreen(h) == [evicted |-> 0, history |-> h, offset |-> 0, pos |-> 0, glide |-> NoGlide]

Total(G) == G.history + Screen

-----------------------------------------------------------------------------
(***************************************************************************)
(* The terminal (external): a line printed at the foot of the screen sends *)
(* the topmost into history, where a full one drops its oldest, and a view *)
(* scrolled up goes up with what it shows.                                 *)
(***************************************************************************)
Fed(G) ==
  LET h == Min({G.history + 1, Scrollback}) IN
  [G EXCEPT !.history = h,
            !.evicted = @ + G.history + 1 - h,
            !.offset  = IF @ = 0 THEN 0 ELSE Min({@ + 1, h})]

-----------------------------------------------------------------------------
(***************************************************************************)
(* ScrollPosition.                                                         *)
(***************************************************************************)
Row(n) == n * Unit

\* lines_for
Ceil(p) == (p + Unit - 1) \div Unit

Round(p) == (2 * p + Unit) \div (2 * Unit)

Shift(G) == Row(Ceil(G.pos)) - G.pos

\* clamp
Within(G, p) == Max({0, Min({p, Row(G.history)})})

\* settle: the terminal is scrolled by what its offset lacks.
Settle(G, p) == [G EXCEPT !.pos = Within(G, p), !.offset = Ceil(Within(G, p))]

CancelGlide(G) == [G EXCEPT !.glide = NoGlide]

Scroll(G, delta) == Settle(CancelGlide(G), Row(Round(G.pos) + delta))

\* scroll_wheel: notches under way move the destination, not the picture.
ScrollWheel(G, notches) ==
  LET going == IF G.glide = NoGlide THEN Row(Round(G.pos)) ELSE G.glide[2]
      to    == Within(G, going + Row(notches * WHEEL_LINES))
  IN  [G EXCEPT !.glide = IF to = G.pos THEN NoGlide ELSE <<G.pos, to>>]

ScrollPixels(G, parts) == Settle(CancelGlide(G), G.pos + parts)

\* Mutant: the band is the rows above the bottom one.
RevealAbove(G, line) ==
  LET here  == Ceil(G.pos)
      there == Max({0, Min({Max({here, G.history - line}), G.history + Screen - line, G.history})})
  IN  IF there = here THEN G ELSE Scroll(G, there - here)

\* The least move that puts a line on the screen.
Reveal(G, line) ==
  LET here  == Ceil(G.pos)
      low   == G.history - line                 \* on the top row
      high  == Max({low + Screen - 1, low})     \* on the bottom row
      there == Max({0, Min({Max({here, low}), high, G.history})})
  IN  IF there = here THEN G ELSE Scroll(G, there - here)

\* apply: page up, page down, top and bottom are the terminal's to work out.
Applied(G, offset) ==
  LET o == Max({0, Min({offset, G.history})})
  IN  [CancelGlide(G) EXCEPT !.offset = o, !.pos = Row(o)]

PageUp(G)   == Applied(G, G.offset + Screen)
PageDown(G) == Applied(G, G.offset - Screen)
ToBottom(G) == Applied(G, 0)

\* advance: anywhere on the way, or there.
AdvanceGlide(G) ==
  IF G.glide = NoGlide THEN {G}
  ELSE LET from == G.glide[1]
           to   == G.glide[2]
       IN  {Settle(CancelGlide(G), to)}
             \cup {Settle(G, p) : p \in Min({from, to}) .. Max({from, to})}

\* Mutant: the glide stays where it was bound.
SyncLeavingTheGlide(G) ==
  IF G.offset = Ceil(G.pos) THEN G
  ELSE [G EXCEPT !.pos = IF G.offset = 0 THEN 0 ELSE Row(G.offset) - Shift(G)]

\* sync: the terminal moved the view; the shift is kept, a glide goes along.
SyncView(G) ==
  LET carried == Row(G.offset - Ceil(G.pos)) IN
  IF carried = 0 THEN G
  ELSE [G EXCEPT
          !.pos   = IF G.offset = 0 THEN 0 ELSE Row(G.offset) - Shift(G),
          !.glide = IF @ = NoGlide THEN @ ELSE <<@[1] + carried, Within(G, @[2] + carried)>>]

-----------------------------------------------------------------------------
\* The absolute line at the top of the view.
TopLine(G) == Max({0, G.history - Ceil(G.pos)})
=============================================================================
