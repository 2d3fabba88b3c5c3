------------------------------ MODULE Konsole -------------------------------
(***************************************************************************)
(* The selection the pointer makes, in the Konsole model                   *)
(* (core/src/selection/konsole.rs): an anchor, a head and the range kept   *)
(* between them, in absolute cells. Absolute is not stable: an eviction    *)
(* re-names every line, so the model keeps the count of evictions its      *)
(* cells were taken at and rebases them at the top of every gesture.       *)
(*                                                                         *)
(* A cell is <<column, line>>, and in reading order the number             *)
(* line * COLUMNS + column. The text is a function of the line's name for  *)
(* ever: what a cell holds matters here only as blank or not, a line as    *)
(* wrapped into the next or not.                                           *)
(*                                                                         *)
(* Left out: the trailing `@` a double click gives back, triple click mode *)
(* SelectForwardsFromCursor (no setting names it), line breaks in what is  *)
(* copied, a change of the grid's width.                                   *)
(***************************************************************************)
EXTENDS Viewport

CONSTANTS
  COLUMNS,
  IsBlank(_),    \* of a cell of the text, numbered from the first line ever
  Wrapped(_)   \* of a line, numbered so: it runs on into the next

ASSUME KonsoleAssumption == COLUMNS \in Nat \ {0}

Mode == {"character", "word", "line"}

Loc(c)  == c[2] * COLUMNS + c[1]
Cell(l) == <<l % COLUMNS, l \div COLUMNS>>
Last    == COLUMNS - 1

\* before
Precedes(a, b) == Loc(a) < Loc(b)

Nowhere == -1

NewKonsole ==
  [begin |-> Nowhere, top_left |-> Nowhere, bottom_right |-> Nowhere, block_mode |-> FALSE,
   column_mode |-> FALSE, anchor |-> <<0, 0>>, head |-> <<0, 0>>, mode |-> "character",
   act_sel |-> 0, triple_sel_begin |-> <<0, 0>>, evicted_base |-> 0]

-----------------------------------------------------------------------------
(***************************************************************************)
(* Selection.                                                              *)
(***************************************************************************)
Clear(K) == [K EXCEPT !.begin = Nowhere, !.top_left = Nowhere, !.bottom_right = Nowhere]

IsValid(K) == K.top_left >= 0 /\ K.bottom_right >= 0

\* A cell whose line is gone pins to the oldest line, in its own column.
Shifted(l, lines) == IF l < 0 THEN l ELSE Loc(<<l % COLUMNS, Max({0, l \div COLUMNS - lines})>>)

SetStart(K, x, y, block) ==
  LET l == Loc(<<x, y>>) IN
  [K EXCEPT !.begin = l, !.top_left = l, !.bottom_right = l, !.block_mode = block]

\* Extending above the start flips the range.
SetEnd(K, x, y) ==
  LET l    == Loc(<<x, y>>)
      from == Cell(Min({l, K.begin}))
      to   == Cell(Max({l, K.begin}))
      xs   == {from[1], to[1]}
  IN  IF K.begin = Nowhere THEN K
      ELSE IF K.block_mode
      THEN [K EXCEPT !.top_left = Loc(<<Min(xs), from[2]>>), !.bottom_right = Loc(<<Max(xs), to[2]>>)]
      ELSE [K EXCEPT !.top_left = Loc(from), !.bottom_right = Loc(to)]

\* The lines evicted since the cells were taken; another terminal's count may be
\* the lower.
Gone(K, evicted) == Max({0, evicted - K.evicted_base})

\* start_at, end_at: where the range is in the numbering of `evicted`.
StartAt(K, evicted) == Shifted(K.top_left, Gone(K, evicted))
EndAt(K, evicted)   == Shifted(K.bottom_right, Gone(K, evicted))

\* The cells of a range (MarkedRange::contains).
Cells(start, end, block) ==
  {l \in start .. end :
     block => l % COLUMNS >= start % COLUMNS /\ l % COLUMNS <= end % COLUMNS}

\* What is marked, in the numbering of `evicted`.
Marked(K, evicted) ==
  IF IsValid(K) THEN Cells(StartAt(K, evicted), EndAt(K, evicted), K.block_mode) ELSE {}

\* Mutant: the range is left where it was.
RebasePoints(K, evicted) ==
  LET up(c) == <<c[1], Max({0, c[2] - Gone(K, evicted)})>> IN
  [K EXCEPT !.anchor = up(@), !.head = up(@), !.triple_sel_begin = up(@), !.evicted_base = evicted]

Rebase(K, evicted) ==
  LET lines == Gone(K, evicted)
      up(c) == <<c[1], Max({0, c[2] - lines})>>
  IN  [K EXCEPT
         !.anchor = up(@), !.head = up(@), !.triple_sel_begin = up(@), !.evicted_base = evicted,
         !.begin        = Shifted(@, lines),
         !.top_left     = Shifted(@, lines),
         !.bottom_right = Shifted(@, lines)]

-----------------------------------------------------------------------------
(***************************************************************************)
(* The text as the window shows it: a walk crosses from a line to the next *)
(* only where the first runs on and both are in the window.                *)
(***************************************************************************)
BottomLine(G) == TopLine(G) + Screen - 1

Runs(G, y) == Wrapped(G.evicted + y)

\* No line from y to z ends before it reaches the next.
Upwards(G, y, z)   == \A k \in y .. z - 1 : k >= TopLine(G) /\ Runs(G, k)
Downwards(G, y, z) == \A k \in y .. z - 1 : k < BottomLine(G) /\ Runs(G, k)

\* The cells of a and b and all between are of one class.
SameClass(G, a, b) ==
  \A l \in a .. b : IsBlank(G.evicted * COLUMNS + l) <=> IsBlank(G.evicted * COLUMNS + b)

WordStart(G, c) ==
  Cell(Min({l \in 0 .. Loc(c) : SameClass(G, l, Loc(c)) /\ Upwards(G, Cell(l)[2], c[2])}))

WordEnd(G, c) ==
  Cell(Max({l \in Loc(c) .. Loc(<<Last, Total(G) - 1>>) :
              SameClass(G, Loc(c), l) /\ Downwards(G, c[2], Cell(l)[2])}))

LineStart(G, y) == Min({k \in 0 .. y : Upwards(G, k, y)})
LineEnd(G, y)   == Max({k \in y .. Total(G) - 1 : Downwards(G, y, k)})

-----------------------------------------------------------------------------
(***************************************************************************)
(* The gestures. Each rebases first.                                       *)
(***************************************************************************)
\* press: nothing is marked until the pointer moves.
Press(G, K, c, column) ==
  [Clear(Rebase(K, G.evicted)) EXCEPT
     !.mode = "character", !.anchor = c, !.head = c, !.act_sel = 1, !.column_mode = column]

DoubleClick(G, K, c) ==
  LET s == WordStart(G, c)
      e == WordEnd(G, c)
      k == [Clear(Rebase(K, G.evicted)) EXCEPT !.mode = "word", !.anchor = c, !.head = c, !.act_sel = 2]
  IN  SetEnd(SetStart(k, s[1], s[2], FALSE), e[1], e[2])

TripleClick(G, K, c) ==
  LET s == LineStart(G, c[2])
      e == LineEnd(G, c[2])
      k == [Clear(Rebase(K, G.evicted)) EXCEPT
              !.mode = "line", !.act_sel = 2, !.triple_sel_begin = <<0, s>>,
              !.anchor = <<c[1], e>>, !.head = <<Last, e>>]
  IN  SetEnd(SetStart(k, 0, s, FALSE), Last, e)

Release(G, K) == [Rebase(K, G.evicted) EXCEPT !.act_sel = 0]

\* The pointer, clamped into the window.
Clamp(G, c) == <<c[1], Max({TopLine(G), Min({c[2], BottomLine(G)})})>>

\* Where a drag leads: the far end to extend to (here), the end it starts from
\* (ohere), whether the pointer is before the anchor, and what rounds the ends.
\* ohere is one past its cell in the word and line modes.
Towards(G, K, c) ==
  LET a    == K.anchor
      left == IF K.mode = "line" THEN c[2] < a[2] ELSE Precedes(c, a)
      near == IF left THEN c ELSE a
      far  == IF left THEN a ELSE c
      lo   == CASE K.mode = "character" -> near
                [] K.mode = "word"      -> WordStart(G, near)
                [] K.mode = "line"      -> <<0, LineStart(G, near[2])>>
      hi   == CASE K.mode = "character" -> far
                [] K.mode = "word"      -> WordEnd(G, far)
                [] K.mode = "line"      -> <<Last, LineEnd(G, far[2])>>
      one  == IF K.mode = "character" THEN 0 ELSE 1
      o    == IF left THEN hi ELSE lo
  IN  [here   |-> IF left THEN lo ELSE hi,
       start  |-> o,
       ohere  |-> <<o[1] + one, o[2]>>,
       left   |-> left,
       offset |-> IF K.mode = "character" /\ ~left THEN -1 ELSE 0]

\* Mutant: the end a drag starts from is set once.
SwappingNever(K, T) == FALSE

\* The end the drag starts from is no longer the one it started from.
Swapping(K, T) ==
  IF K.mode = "line" THEN K.triple_sel_begin # T.start ELSE T.left # Precedes(K.head, K.anchor)

DragTo(G, K0, c) ==
  LET K1    == Rebase(K0, G.evicted)
      T     == Towards(G, K1, Clamp(G, c))
      K     == IF K1.mode = "line" THEN [K1 EXCEPT !.triple_sel_begin = T.start] ELSE K1
      block == K.column_mode /\ K.mode = "character"
      begun == IF K.act_sel >= 2 /\ ~Swapping(K1, T) THEN K
               ELSE IF block THEN SetStart(K, T.ohere[1], T.ohere[2], TRUE)
               ELSE SetStart(K, Max({0, T.ohere[1] - 1 - T.offset}), T.ohere[2], FALSE)
      end   == IF block THEN T.here ELSE <<Max({0, T.here[1] + T.offset}), T.here[2]>>
  IN  IF T.here \in {K.head, T.ohere} THEN K
      ELSE SetEnd([begun EXCEPT !.act_sel = 2, !.head = T.here], end[1], end[2])
=============================================================================
