----------------------------- MODULE FrameProofs ----------------------------
(***************************************************************************)
(* When a frame is drawn and what it leaves on the glass: the picture keeps*)
(* up with who is there, critters come on time, a frame draws the terminal's*)
(* screen, and the view, the mark and the hit stay on their text, for      *)
(* frames, days, screens and histories of any length.                      *)
(***************************************************************************)
EXTENDS Renderer, Clock, Glass, Folding, FiniteSetTheorems

-----------------------------------------------------------------------------
(***************************************************************************)
(* What a frame leaves on the glass (Renderer).                            *)
(***************************************************************************)
CellTexts == Text \cup {Blank}
Cursors   == [row : Nat, shape : Shape]
Atlases   == {A \in SUBSET (Charset \cup Text) : Charset \subseteq A}

Renderers ==
  [rows : Rows, grid : [Nat -> CellTexts], atlas : Atlases, cursor : Cursors \cup {Nothing},
   marked : SUBSET Nat, link : SUBSET Nat, critter : [Nat -> Figure \cup {Nobody}],
   preedit : Text \cup {Nothing}, stale : BOOLEAN,
   shown : [Nat -> [text : CellTexts, marked : BOOLEAN, link : BOOLEAN, critter : Figure \cup {Nobody}]],
   cursorShown : [at : Cursors, text : CellTexts, marked : BOOLEAN] \cup {Nothing},
   preeditShown : [row : Nat, under : CellTexts, marked : BOOLEAN, text : CellTexts] \cup {Nothing}]

-----------------------------------------------------------------------------
(***************************************************************************)
(* What is built agrees with the cells it was built of, as far as the      *)
(* atlas is sure to hold them.                                             *)
(***************************************************************************)
Held(g, legible) ==
  \A row \in Nat : row <= g.rows => Drawn(g, g.grid[row]) \in MayShow(g.grid[row], legible)

RowBuilt(g, legible, row) ==
  /\ g.shown[row].text \in MayShow(g.grid[row], legible)
  /\ g.shown[row].marked = (row \in g.marked)
  /\ g.shown[row].link = (row \in g.link)
  /\ g.shown[row].critter = g.critter[row]

SpareBuilt(g, legible) ==
  /\ g.shown[g.rows].text \in MayShow(g.grid[g.rows], legible)
  /\ g.shown[g.rows].marked = (g.rows \in g.marked)
  /\ g.shown[g.rows].link = (g.rows \in g.link)

CursorBuilt(g, legible) ==
  /\ OnGlass(g) /\ g.cursor.shape # Hidden =>
       /\ g.cursorShown # Nothing /\ g.cursorShown.at = g.cursor
       /\ g.cursorShown.text \in MayShow(g.grid[g.cursor.row], legible)
       /\ g.cursorShown.marked = (g.cursor.row \in g.marked)
  /\ ~OnGlass(g) \/ g.cursor.shape = Hidden => g.cursorShown = Nothing

PreeditBuilt(g) ==
  /\ OnGlass(g) /\ g.preedit # Nothing =>
       /\ g.preeditShown # Nothing /\ g.preeditShown.row = g.cursor.row
       /\ g.preeditShown.text \in MayShow(g.preedit, Charset)
       /\ g.preeditShown.under = g.grid[g.cursor.row]
       /\ g.preeditShown.marked = (g.cursor.row \in g.marked)
  /\ ~OnGlass(g) \/ g.preedit = Nothing => g.preeditShown = Nothing

Built(g, legible) ==
  /\ Held(g, legible)
  /\ \A row \in Nat : row < g.rows => RowBuilt(g, legible, row)
  /\ CursorBuilt(g, legible)
  /\ PreeditBuilt(g)

\* Two renderers that hold the same, whatever they have built.
SameCells(g, h) ==
  /\ g.rows = h.rows /\ g.grid = h.grid /\ g.atlas = h.atlas /\ g.cursor = h.cursor
  /\ g.marked = h.marked /\ g.link = h.link /\ g.critter = h.critter /\ g.preedit = h.preedit
  /\ g.stale = h.stale

LEMMA BuildRowType ==
  ASSUME NEW g \in Renderers, NEW row \in Nat
  PROVE  BuildRow(g, row) \in [text : CellTexts, marked : BOOLEAN, link : BOOLEAN, critter : Figure \cup {Nobody}]
BY DEF BuildRow, Drawn, Renderers, CellTexts

LEMMA BuildRowFields ==
  ASSUME NEW g, NEW row
  PROVE  /\ BuildRow(g, row).text = Drawn(g, g.grid[row]) /\ BuildRow(g, row).critter = g.critter[row]
         /\ BuildRow(g, row).marked = (row \in g.marked) /\ BuildRow(g, row).link = (row \in g.link)
BY DEF BuildRow

LEMMA BuildCursorType ==
  ASSUME NEW g \in Renderers
  PROVE  BuildCursor(g) \in [at : Cursors, text : CellTexts, marked : BOOLEAN] \cup {Nothing}
<1>1. CASE ~OnGlass(g) \/ g.cursor.shape = Hidden
  BY <1>1 DEF BuildCursor
<1>2. CASE OnGlass(g) /\ g.cursor.shape # Hidden
  <2>1. g.cursor \in Cursors /\ g.cursor.row \in Nat
    BY <1>2 DEF OnGlass, Renderers, Cursors
  <2> QED BY <1>2, <2>1 DEF BuildCursor, Drawn, Renderers, CellTexts
<1> QED BY <1>1, <1>2

LEMMA BuildPreeditType ==
  ASSUME NEW g \in Renderers
  PROVE  BuildPreedit(g) \in [row : Nat, under : CellTexts, marked : BOOLEAN, text : CellTexts] \cup {Nothing}
<1>1. CASE ~OnGlass(g) \/ g.preedit = Nothing
  BY <1>1 DEF BuildPreedit
<1>2. CASE OnGlass(g) /\ g.preedit # Nothing
  <2>1. g.cursor \in Cursors /\ g.cursor.row \in Nat /\ g.preedit \in Text
    BY <1>2 DEF OnGlass, Renderers, Cursors
  <2> QED BY <1>2, <2>1 DEF BuildPreedit, Drawn, Renderers, CellTexts
<1> QED BY <1>1, <1>2

\* What is built of the cursor and of a composition is as it should be.
LEMMA BuiltCursor ==
  ASSUME NEW g \in Renderers, NEW legible, Held(g, legible), NEW h,
         h.rows = g.rows, h.cursor = g.cursor, h.grid = g.grid, h.marked = g.marked,
         h.cursorShown = BuildCursor(g)
  PROVE  CursorBuilt(h, legible)
<1>0. g.rows \in Nat
  BY DEF Renderers, Rows
<1>1. OnGlass(h) <=> OnGlass(g)
  BY DEF OnGlass
<1>2. CASE ~OnGlass(g) \/ g.cursor.shape = Hidden
  BY <1>1, <1>2 DEF CursorBuilt, BuildCursor
<1>3. CASE OnGlass(g) /\ g.cursor.shape # Hidden
  <2>1. g.cursor.row \in Nat /\ g.cursor.row <= g.rows
    BY <1>0, <1>3 DEF OnGlass, Renderers, Cursors
  <2>2. Drawn(g, g.grid[g.cursor.row]) \in MayShow(g.grid[g.cursor.row], legible)
    BY <2>1 DEF Held
  <2>3. BuildCursor(g) = [at |-> g.cursor, text |-> Drawn(g, g.grid[g.cursor.row]), marked |-> g.cursor.row \in g.marked]
    BY <1>3 DEF BuildCursor
  <2>4. DOMAIN BuildCursor(g) = {"at", "text", "marked"} /\ DOMAIN Nothing = {}
    BY <2>3 DEF Nothing
  <2>5. BuildCursor(g) # Nothing
    BY <2>4
  <2> QED BY <1>1, <1>3, <2>2, <2>3, <2>5 DEF CursorBuilt
<1> QED BY <1>2, <1>3

LEMMA BuiltPreedit ==
  ASSUME NEW g \in Renderers, NEW h,
         h.rows = g.rows, h.cursor = g.cursor, h.grid = g.grid, h.marked = g.marked, h.preedit = g.preedit,
         h.preeditShown = BuildPreedit(g)
  PROVE  PreeditBuilt(h)
<1>1. OnGlass(h) <=> OnGlass(g)
  BY DEF OnGlass
<1>2. CASE ~OnGlass(g) \/ g.preedit = Nothing
  BY <1>1, <1>2 DEF PreeditBuilt, BuildPreedit
<1>3. CASE OnGlass(g) /\ g.preedit # Nothing
  <2>1. Drawn(g, g.preedit) \in MayShow(g.preedit, Charset)
    BY DEF Drawn, MayShow, Renderers, Atlases
  <2>2. BuildPreedit(g) = [row |-> g.cursor.row, under |-> g.grid[g.cursor.row], marked |-> g.cursor.row \in g.marked,
                           text |-> Drawn(g, g.preedit)]
    BY <1>3 DEF BuildPreedit
  <2>3. DOMAIN BuildPreedit(g) = {"row", "under", "marked", "text"} /\ DOMAIN Nothing = {}
    BY <2>2 DEF Nothing
  <2>4. BuildPreedit(g) # Nothing
    BY <2>3
  <2> QED BY <1>1, <1>3, <2>1, <2>2, <2>4 DEF PreeditBuilt
<1> QED BY <1>2, <1>3

LEMMA UploadAllType ==
  ASSUME NEW g \in Renderers
  PROVE  /\ UploadAll(g) \in Renderers /\ SameCells(UploadAll(g), g)
         /\ \A row \in Nat : UploadAll(g).shown[row] = BuildRow(g, row)
         /\ UploadAll(g).cursorShown = BuildCursor(g)
         /\ UploadAll(g).preeditShown = BuildPreedit(g)
<1> DEFINE shown == [row \in Nat |-> BuildRow(g, row)]
<1>1. shown \in [Nat -> [text : CellTexts, marked : BOOLEAN, link : BOOLEAN, critter : Figure \cup {Nobody}]]
  BY BuildRowType
<1>2. \A row \in Nat : shown[row] = BuildRow(g, row)
  OBVIOUS
<1>3. UploadAll(g) = [g EXCEPT !.shown = shown, !.cursorShown = BuildCursor(g), !.preeditShown = BuildPreedit(g)]
  BY DEF UploadAll
<1> DEFINE h == UploadAll(g)
<1>4. /\ h.rows = g.rows /\ h.grid = g.grid /\ h.atlas = g.atlas /\ h.cursor = g.cursor
      /\ h.marked = g.marked /\ h.link = g.link /\ h.critter = g.critter /\ h.preedit = g.preedit
      /\ h.stale = g.stale
  BY <1>3 DEF Renderers
<1>5. h.shown = shown /\ h.cursorShown = BuildCursor(g) /\ h.preeditShown = BuildPreedit(g)
  BY <1>3 DEF Renderers
<1>6. h \in Renderers
  <2> DEFINE cursorShown == BuildCursor(g)
             preeditShown == BuildPreedit(g)
  <2>1. /\ cursorShown \in [at : Cursors, text : CellTexts, marked : BOOLEAN] \cup {Nothing}
        /\ preeditShown \in [row : Nat, under : CellTexts, marked : BOOLEAN, text : CellTexts] \cup {Nothing}
    BY BuildCursorType, BuildPreeditType
  <2>2. h = [g EXCEPT !.shown = shown, !.cursorShown = cursorShown, !.preeditShown = preeditShown]
    BY <1>3
  <2> HIDE DEF h, shown, cursorShown, preeditShown
  <2> QED BY <1>1, <2>1, <2>2 DEF Renderers
<1> HIDE DEF h, shown
<1>7. SameCells(h, g)
  BY <1>4 DEF SameCells
<1> QED BY <1>2, <1>5, <1>6, <1>7 DEF h

\* What is built of cells the atlas holds is built right.
LEMMA UploadAllBuilt ==
  ASSUME NEW g \in Renderers, NEW legible, Held(g, legible)
  PROVE  Built(UploadAll(g), legible) /\ SpareBuilt(UploadAll(g), legible)
<1> DEFINE h == UploadAll(g)
<1>0. /\ h \in Renderers /\ SameCells(h, g) /\ \A row \in Nat : h.shown[row] = BuildRow(g, row)
      /\ h.cursorShown = BuildCursor(g) /\ h.preeditShown = BuildPreedit(g)
  BY UploadAllType
<1>1. g.rows \in Nat /\ h.rows = g.rows /\ h.grid = g.grid /\ h.cursor = g.cursor /\ h.marked = g.marked
      /\ h.link = g.link /\ h.critter = g.critter /\ h.preedit = g.preedit
  BY <1>0 DEF SameCells, Renderers, Rows
<1>2. Held(h, legible)
  BY <1>0 DEF Held, SameCells, Drawn
<1> HIDE DEF h
<1>3. ASSUME NEW row \in Nat, row <= g.rows
      PROVE  /\ h.shown[row].text \in MayShow(g.grid[row], legible)
             /\ h.shown[row].marked = (row \in g.marked) /\ h.shown[row].link = (row \in g.link)
             /\ h.shown[row].critter = g.critter[row]
  <2>1. h.shown[row] = BuildRow(g, row) /\ Drawn(g, g.grid[row]) \in MayShow(g.grid[row], legible)
    BY <1>0, <1>3 DEF Held
  <2> QED BY <2>1, BuildRowFields
<1>4. \A row \in Nat : row < h.rows => RowBuilt(h, legible, row)
  BY <1>1, <1>3 DEF RowBuilt
<1>5. SpareBuilt(h, legible)
  <2> DEFINE row == g.rows
  <2>1. row \in Nat /\ row <= g.rows
    BY <1>1
  <2>2. /\ h.shown[row].text \in MayShow(g.grid[row], legible)
        /\ h.shown[row].marked = (row \in g.marked) /\ h.shown[row].link = (row \in g.link)
    BY <1>3, <2>1
  <2> QED BY <1>1, <2>2 DEF SpareBuilt
<1>6. CursorBuilt(h, legible)
  BY <1>0, <1>1, BuiltCursor
<1>7. PreeditBuilt(h)
  BY <1>0, <1>1, BuiltPreedit
<1> QED BY <1>2, <1>4, <1>5, <1>6, <1>7 DEF Built, h

-----------------------------------------------------------------------------
(***************************************************************************)
(* The terminal's lines put into the cells.                                *)
(***************************************************************************)
LEMMA LineType ==
  ASSUME NEW T \in Terminals, NEW row \in Nat
  PROVE  Line(T, row) \in Text
BY DEF Terminals, Line

LEMMA CursorOfType ==
  ASSUME NEW T \in Terminals
  PROVE  /\ CursorOf(T) \in Cursors /\ CursorOf(T).row \in Nat
         /\ CursorOf(T) # Nothing
<1>1. T.cursor.line \in Nat /\ T.cursor.shape \in Shape /\ T.offset \in Nat
  BY DEF Terminals
<1>2. CursorOf(T) \in Cursors /\ CursorOf(T).row \in Nat
  BY <1>1 DEF CursorOf, Cursors
<1>3. DOMAIN CursorOf(T) = {"row", "shape"}
  BY DEF CursorOf
<1>4. DOMAIN Nothing = {}
  BY DEF Nothing
<1> QED BY <1>2, <1>3, <1>4

LEMMA FilledFacts ==
  ASSUME NEW g \in Renderers, NEW T \in Terminals, NEW rows \in SUBSET Nat
  PROVE  LET f == Filled(g, T, rows)
         IN  /\ f \in Renderers
             /\ f.rows = g.rows /\ f.cursor = g.cursor /\ f.marked = g.marked /\ f.link = g.link
             /\ f.critter = g.critter /\ f.preedit = g.preedit /\ f.stale = g.stale
             /\ f.shown = g.shown /\ f.cursorShown = g.cursorShown /\ f.preeditShown = g.preeditShown
             /\ \A row \in rows : f.grid[row] = Line(T, row) /\ Line(T, row) \in f.atlas
             /\ \A row \in Nat \ rows : f.grid[row] = g.grid[row]
             /\ g.atlas \subseteq f.atlas
<1> DEFINE grid  == [row \in Nat |-> IF row \in rows THEN Line(T, row) ELSE g.grid[row]]
           atlas == g.atlas \cup {Line(T, row) : row \in rows}
<1>1. grid \in [Nat -> CellTexts]
  BY LineType DEF Renderers, CellTexts
<1>2. atlas \in Atlases
  BY LineType DEF Renderers, Atlases
<1>3. /\ \A row \in rows : grid[row] = Line(T, row) /\ Line(T, row) \in atlas
      /\ \A row \in Nat \ rows : grid[row] = g.grid[row]
      /\ g.atlas \subseteq atlas
  OBVIOUS
<1>4. Filled(g, T, rows) = [g EXCEPT !.grid = grid, !.atlas = atlas]
  BY DEF Filled, Renderers
<1> HIDE DEF grid, atlas
<1> QED BY <1>1, <1>2, <1>3, <1>4 DEF Renderers

LEMMA RebuiltFacts ==
  ASSUME NEW g \in Renderers, NEW T \in Terminals, g.rows = T.rows, NEW legible
  PROVE  LET h == Rebuilt(g, T)
         IN  /\ h \in Renderers /\ Built(h, legible) /\ SpareBuilt(h, legible)
             /\ h.rows = g.rows /\ h.cursor = CursorOf(T) /\ h.marked = g.marked /\ h.link = g.link
             /\ h.critter = g.critter /\ h.preedit = g.preedit /\ h.stale = g.stale
             /\ \A row \in Nat : row < T.rows => h.grid[row] = Line(T, row)
             /\ T.offset > 0 => h.grid[T.rows] = Line(T, T.rows)
<1> DEFINE rows  == {row \in Nat : row < g.rows} \cup (IF T.offset > 0 THEN {g.rows} ELSE {})
           blank == [g EXCEPT !.grid[g.rows] = Blank]
           f     == Filled(blank, T, rows)
           c     == [f EXCEPT !.cursor = CursorOf(T)]
<1>0. g.rows \in Nat /\ T.offset \in Nat
  BY DEF Renderers, Rows, Terminals
<1>1. /\ blank \in Renderers /\ blank.rows = g.rows /\ blank.marked = g.marked /\ blank.link = g.link
      /\ blank.critter = g.critter /\ blank.preedit = g.preedit /\ blank.stale = g.stale
      /\ blank.grid[g.rows] = Blank
  <2>1. [g.grid EXCEPT ![g.rows] = Blank] \in [Nat -> CellTexts] /\ [g.grid EXCEPT ![g.rows] = Blank][g.rows] = Blank
    BY <1>0 DEF Renderers, CellTexts
  <2>2. blank = [g EXCEPT !.grid = [g.grid EXCEPT ![g.rows] = Blank]]
    BY DEF Renderers
  <2> QED BY <2>1, <2>2 DEF Renderers
<1>2. rows \in SUBSET Nat
  BY <1>0
<1>3. Rebuilt(g, T) = UploadAll(c)
  BY <1>1 DEF Rebuilt
<1> HIDE DEF blank, rows
<1>4. /\ f \in Renderers
      /\ f.rows = g.rows /\ f.marked = g.marked /\ f.link = g.link
      /\ f.critter = g.critter /\ f.preedit = g.preedit /\ f.stale = g.stale
      /\ \A row \in rows : f.grid[row] = Line(T, row) /\ Line(T, row) \in f.atlas
      /\ \A row \in Nat \ rows : f.grid[row] = blank.grid[row]
  BY <1>1, <1>2, FilledFacts
<1> HIDE DEF f
<1>5. /\ c \in Renderers /\ c.cursor = CursorOf(T) /\ c.grid = f.grid /\ c.atlas = f.atlas
      /\ c.rows = g.rows /\ c.marked = g.marked /\ c.link = g.link
      /\ c.critter = g.critter /\ c.preedit = g.preedit /\ c.stale = g.stale
  BY <1>4, CursorOfType DEF Renderers
<1> HIDE DEF c
<1>6. ASSUME NEW row \in Nat, row <= g.rows PROVE Drawn(c, c.grid[row]) = c.grid[row]
  <2>1. CASE row \in rows
    BY <1>4, <1>5, <2>1 DEF Drawn
  <2>2. CASE row \notin rows
    <3>1. row = g.rows
      BY <1>0, <1>6, <2>2 DEF rows
    <3> QED BY <1>1, <1>4, <1>5, <2>2, <3>1 DEF Drawn
  <2> QED BY <2>1, <2>2
<1>7. Held(c, legible)
  BY <1>5, <1>6 DEF Held, MayShow
<1>8. /\ \A row \in Nat : row < T.rows => c.grid[row] = Line(T, row)
      /\ T.offset > 0 => c.grid[T.rows] = Line(T, T.rows)
  BY <1>0, <1>4, <1>5 DEF rows
<1>9. /\ UploadAll(c) \in Renderers /\ SameCells(UploadAll(c), c)
      /\ Built(UploadAll(c), legible) /\ SpareBuilt(UploadAll(c), legible)
  BY <1>5, <1>7, UploadAllType, UploadAllBuilt
<1> QED BY <1>3, <1>5, <1>8, <1>9 DEF SameCells

\* Some rows refreshed, the others known to be right.
LEMMA RefreshedFacts ==
  ASSUME NEW g \in Renderers, NEW T \in Terminals, g.rows = T.rows, NEW legible, NEW rows \in SUBSET Nat,
         Held(g, legible),
         \A row \in Nat : row < g.rows /\ row \notin rows =>
           g.grid[row] = Line(T, row) /\ RowBuilt(g, legible, row),
         rows = {} /\ T.offset > 0 =>
           SpareBuilt(g, legible) /\ (TellsBelow => g.grid[g.rows] = Line(T, g.rows)),
         g.cursor = CursorOf(T) /\ CursorOf(T).row \notin rows =>
           CursorBuilt(g, legible) /\ PreeditBuilt(g)
  PROVE  LET h == Refreshed(g, T, rows)
         IN  /\ h \in Renderers /\ Built(h, legible) /\ (T.offset > 0 => SpareBuilt(h, legible))
             /\ h.rows = g.rows /\ h.cursor = CursorOf(T) /\ h.marked = g.marked /\ h.link = g.link
             /\ h.critter = g.critter /\ h.preedit = g.preedit /\ h.stale = g.stale
             /\ \A row \in Nat : row < T.rows => h.grid[row] = Line(T, row)
             /\ TellsBelow /\ T.offset > 0 => h.grid[T.rows] = Line(T, T.rows)
<1> DEFINE spare == IF T.offset > 0 /\ rows # {} THEN {g.rows} ELSE {}
           built == {row \in rows : row < g.rows} \cup spare
           f     == Filled(g, T, built)
           shown == [row \in Nat |-> IF row \in built THEN BuildRow(f, row) ELSE g.shown[row]]
           next  == [f EXCEPT !.cursor = CursorOf(T), !.shown = shown]
           last  == [next EXCEPT !.cursorShown = BuildCursor(next), !.preeditShown = BuildPreedit(next)]
           h     == Refreshed(g, T, rows)
           kept  == CursorOf(T) = g.cursor /\ CursorOf(T).row \notin rows
<1>0. g.rows \in Nat /\ T.offset \in Nat
  BY DEF Renderers, Rows, Terminals
<1>1. built \in SUBSET Nat
  BY <1>0
<1>2. h = IF kept THEN next ELSE last
  BY DEF Refreshed
<1> HIDE DEF spare, built, h
<1>3. /\ f \in Renderers
      /\ f.rows = g.rows /\ f.cursor = g.cursor /\ f.marked = g.marked /\ f.link = g.link
      /\ f.critter = g.critter /\ f.preedit = g.preedit /\ f.stale = g.stale
      /\ f.shown = g.shown /\ f.cursorShown = g.cursorShown /\ f.preeditShown = g.preeditShown
      /\ \A row \in built : f.grid[row] = Line(T, row) /\ Line(T, row) \in f.atlas
      /\ \A row \in Nat \ built : f.grid[row] = g.grid[row]
      /\ g.atlas \subseteq f.atlas
  BY <1>1, FilledFacts
<1> HIDE DEF f
<1>4. shown \in [Nat -> [text : CellTexts, marked : BOOLEAN, link : BOOLEAN, critter : Figure \cup {Nobody}]]
  BY <1>3, BuildRowType DEF Renderers
<1>5. \A row \in Nat : shown[row] = IF row \in built THEN BuildRow(f, row) ELSE g.shown[row]
  OBVIOUS
<1> HIDE DEF shown
<1>6. /\ next \in Renderers /\ next.cursor = CursorOf(T) /\ next.shown = shown /\ next.grid = f.grid
      /\ next.atlas = f.atlas /\ next.rows = g.rows /\ next.marked = g.marked /\ next.link = g.link
      /\ next.critter = g.critter /\ next.preedit = g.preedit /\ next.stale = g.stale
      /\ next.cursorShown = g.cursorShown /\ next.preeditShown = g.preeditShown
  BY <1>3, <1>4, CursorOfType DEF Renderers
<1> HIDE DEF next
<1>7. /\ last \in Renderers /\ SameCells(last, next) /\ last.shown = shown
      /\ last.cursorShown = BuildCursor(next) /\ last.preeditShown = BuildPreedit(next)
  BY <1>6, BuildCursorType, BuildPreeditType DEF Renderers, SameCells
<1> HIDE DEF last
<1>8. /\ h \in Renderers /\ SameCells(h, next) /\ h.shown = shown
  BY <1>2, <1>6, <1>7 DEF SameCells
<1>9. /\ h.rows = g.rows /\ h.cursor = CursorOf(T) /\ h.marked = g.marked /\ h.link = g.link
      /\ h.critter = g.critter /\ h.preedit = g.preedit /\ h.stale = g.stale
      /\ h.grid = f.grid /\ h.atlas = f.atlas
  BY <1>6, <1>8 DEF SameCells
<1>10. ASSUME NEW row \in Nat, row < T.rows PROVE h.grid[row] = Line(T, row)
  <2>1. CASE row \in built
    BY <1>3, <1>9, <2>1
  <2>2. CASE row \notin built
    BY <1>3, <1>9, <1>10, <2>2 DEF built
  <2> QED BY <2>1, <2>2
<1>11. ASSUME TellsBelow, T.offset > 0 PROVE h.grid[T.rows] = Line(T, T.rows)
  <2>1. CASE rows = {}
    BY <1>0, <1>3, <1>9, <1>11, <2>1 DEF built, spare
  <2>2. CASE rows # {}
    BY <1>0, <1>3, <1>9, <1>11, <2>2 DEF built, spare
  <2> QED BY <2>1, <2>2
<1>12. ASSUME NEW row \in Nat, row <= g.rows PROVE Drawn(f, f.grid[row]) \in MayShow(f.grid[row], legible)
  <2>1. CASE row \in built
    BY <1>3, <2>1 DEF Drawn, MayShow
  <2>2. CASE row \notin built
    <3>1. Drawn(g, g.grid[row]) \in MayShow(g.grid[row], legible) /\ f.grid[row] = g.grid[row]
      BY <1>3, <1>12, <2>2 DEF Held
    <3> QED BY <1>3, <3>1 DEF Drawn, MayShow
  <2> QED BY <2>1, <2>2
<1>13. Held(h, legible)
  BY <1>9, <1>12 DEF Held, Drawn
<1>14. ASSUME NEW row \in built
       PROVE  /\ h.shown[row].text \in MayShow(f.grid[row], legible)
              /\ h.shown[row].marked = (row \in g.marked) /\ h.shown[row].link = (row \in g.link)
              /\ h.shown[row].critter = g.critter[row]
  <2>1. row \in Nat /\ row <= g.rows
    BY <1>0, <1>1 DEF built, spare
  <2>2. h.shown[row] = BuildRow(f, row) /\ Drawn(f, f.grid[row]) \in MayShow(f.grid[row], legible)
    BY <1>5, <1>8, <1>12, <1>14, <2>1
  <2>3. f.marked = g.marked /\ f.link = g.link /\ f.critter = g.critter
    BY <1>3
  <2> QED BY <2>2, <2>3, BuildRowFields
<1>15. ASSUME NEW row \in Nat, row < h.rows PROVE RowBuilt(h, legible, row)
  <2>1. CASE row \in built
    BY <1>9, <1>14, <2>1 DEF RowBuilt
  <2>2. CASE row \notin built
    <3>1. RowBuilt(g, legible, row)
      BY <1>9, <1>15, <2>2 DEF built
    <3>2. h.shown[row] = g.shown[row] /\ h.grid[row] = g.grid[row]
      BY <1>3, <1>5, <1>8, <1>9, <2>2
    <3> QED BY <1>9, <3>1, <3>2 DEF RowBuilt
  <2> QED BY <2>1, <2>2
<1>16. ASSUME T.offset > 0 PROVE SpareBuilt(h, legible)
  <2> DEFINE row == g.rows
  <2>1. CASE rows = {}
    <3>1. row \notin built /\ row \in Nat
      BY <1>0, <2>1 DEF built, spare
    <3>2. h.shown[row] = g.shown[row] /\ h.grid[row] = g.grid[row]
      BY <1>3, <1>5, <1>8, <1>9, <3>1
    <3>3. SpareBuilt(g, legible)
      BY <1>16, <2>1
    <3> QED BY <1>9, <3>2, <3>3 DEF SpareBuilt
  <2>2. CASE rows # {}
    <3>1. row \in built
      BY <1>16, <2>2 DEF built, spare
    <3>2. /\ h.shown[row].text \in MayShow(f.grid[row], legible)
          /\ h.shown[row].marked = (row \in g.marked) /\ h.shown[row].link = (row \in g.link)
      BY <1>14, <3>1
    <3> QED BY <1>9, <3>2 DEF SpareBuilt
  <2> QED BY <2>1, <2>2
<1>17. CursorBuilt(h, legible) /\ PreeditBuilt(h)
  <2>0. CursorOf(T) \in Cursors /\ CursorOf(T).row \in Nat /\ CursorOf(T) # Nothing
    BY CursorOfType
  <2>1. CASE kept
    <3>1. CursorBuilt(g, legible) /\ PreeditBuilt(g)
      BY <2>1
    <3>2. h.cursorShown = g.cursorShown /\ h.preeditShown = g.preeditShown
      BY <1>2, <1>6, <2>1
    <3>3. OnGlass(h) <=> OnGlass(g)
      BY <1>9, <2>1 DEF OnGlass
    <3>4. OnGlass(g) => h.grid[g.cursor.row] = g.grid[g.cursor.row]
      <4>1. SUFFICES ASSUME OnGlass(g) PROVE g.cursor.row \notin built
        BY <1>3, <1>9, <2>0, <2>1
      <4> QED BY <1>0, <2>0, <2>1, <4>1 DEF OnGlass, built, spare
    <3> QED BY <1>9, <2>1, <3>1, <3>2, <3>3, <3>4 DEF CursorBuilt, PreeditBuilt
  <2>2. CASE ~kept
    <3>1. h.cursorShown = BuildCursor(next) /\ h.preeditShown = BuildPreedit(next)
      BY <1>2, <1>7, <2>2
    <3>2. /\ next.cursor = h.cursor /\ next.grid = h.grid /\ next.marked = h.marked /\ next.preedit = h.preedit
          /\ next.rows = h.rows /\ next.atlas = f.atlas /\ next.grid = f.grid
      BY <1>6, <1>9
    <3>3. Held(next, legible)
      BY <1>6, <1>12, <3>2 DEF Held, Drawn
    <3>5. CursorBuilt(h, legible)
      BY <1>6, <3>1, <3>2, <3>3, BuiltCursor
    <3>6. PreeditBuilt(h)
      BY <1>6, <3>1, <3>2, BuiltPreedit
    <3> QED BY <3>5, <3>6
  <2> QED BY <2>1, <2>2
<1>18. Built(h, legible)
  BY <1>13, <1>15, <1>17 DEF Built
<1> QED BY <1>8, <1>9, <1>10, <1>11, <1>16, <1>18 DEF h

-----------------------------------------------------------------------------
(***************************************************************************)
(* The invariant: what the renderer holds of a row is what the terminal    *)
(* has there, or the next frame will ask. A view told of a move before the *)
(* frame is covered by the terminal's own damage.                          *)
(***************************************************************************)
Types ==
  /\ term \in [Terminal -> Terminals] /\ air \in Terminal /\ view \in Nat
  /\ glass \in Renderers /\ refonted \in BOOLEAN

Pending(g, T) == g.rows # T.rows \/ g.stale \/ T.full

Known(g, T, legible) ==
  /\ \A row \in Nat : row < g.rows => g.grid[row] = Line(T, row) \/ row - T.offset \in T.damaged
  /\ T.offset > 0 => SpareBuilt(g, legible)
  /\ TellsBelow /\ T.offset > 0 => g.grid[g.rows] = Line(T, g.rows) \/ g.rows - T.offset \in T.damaged

Faithful ==
  /\ view # term[air].offset => term[air].full
  /\ Built(glass, Legible)
  /\ Pending(glass, term[air]) \/ Known(glass, term[air], Legible)

IInv == Types /\ Faithful /\ GlassIsTheScreen

\* What a frame has put right before the composition and the critter are set.
Synced(h, T, marked, link, legible) ==
  /\ h \in Renderers /\ Built(h, legible) /\ (T.offset > 0 => SpareBuilt(h, legible))
  /\ h.rows = T.rows /\ h.cursor = CursorOf(T) /\ h.marked = marked /\ h.link = link /\ h.stale = FALSE
  /\ \A row \in Nat : row < T.rows => h.grid[row] = Line(T, row)
  /\ TellsBelow /\ T.offset > 0 => h.grid[T.rows] = Line(T, T.rows)

LEMMA ResizedFacts ==
  ASSUME NEW g \in Renderers, NEW rows \in Rows
  PROVE  Resized(g, rows) \in Renderers /\ Resized(g, rows).rows = rows
<1>1. CASE rows = g.rows
  BY <1>1 DEF Resized
<1>2. CASE rows # g.rows
  <2> DEFINE h == [g EXCEPT !.rows = rows, !.grid = [row \in Nat |-> Blank]]
  <2>1. h \in Renderers /\ h.rows = rows
    BY DEF Renderers, CellTexts
  <2>2. Resized(g, rows) = UploadAll(h)
    BY <1>2 DEF Resized
  <2> HIDE DEF h
  <2> QED BY <2>1, <2>2, UploadAllType DEF SameCells
<1> QED BY <1>1, <1>2

LEMMA SyncFacts ==
  ASSUME Types, Faithful, NEW marked \in SUBSET Nat, NEW link \in SUBSET Nat
  PROVE  LET full == Full(glass, term[air])
         IN  Synced(Sync(glass, term[air], marked, link), term[air], marked, link,
                    IF refonted /\ ~full THEN Charset ELSE Text)
<1> DEFINE T    == term[air]
           g    == glass
           full == Full(g, T)
           told == [Resized(g, T.rows) EXCEPT !.stale = FALSE, !.marked = marked, !.link = link]
           R    == RowsToUpdate(g, T, marked, link)
           h    == Sync(g, T, marked, link)
           legible == IF refonted /\ ~full THEN Charset ELSE Text
<1>0. T \in Terminals /\ T.rows \in Rows /\ g \in Renderers /\ T.offset \in Nat /\ g.rows \in Nat
  BY DEF Types, Terminals, Renderers, Rows
<1>1. Resized(g, T.rows) \in Renderers /\ Resized(g, T.rows).rows = T.rows
  BY <1>0, ResizedFacts
<1>2. told \in Renderers /\ told.rows = T.rows /\ told.marked = marked /\ told.link = link /\ told.stale = FALSE
  BY <1>1 DEF Renderers
<1>3. h = IF full THEN Rebuilt(told, T) ELSE Refreshed(told, T, R)
  BY DEF Sync
<1>4. CASE full
  <2> HIDE DEF told, legible, h
  <2>1. h = Rebuilt(told, T)
    BY <1>3, <1>4
  <2> HIDE DEF T, g
  <2> QED BY <1>0, <1>2, <2>1, RebuiltFacts DEF Synced, h, g, T, legible, full
<1>5. CASE ~full
  <2>0. g.rows = T.rows /\ ~g.stale /\ ~T.full
    BY <1>5 DEF Full
  <2>1. Built(g, legible) /\ Known(g, T, legible)
    BY <1>5, <2>0 DEF Faithful, Pending, Legible
  <2>2. told = [g EXCEPT !.stale = FALSE, !.marked = marked, !.link = link]
    BY <2>0 DEF Resized
  <2>3. /\ told.grid = g.grid /\ told.atlas = g.atlas /\ told.shown = g.shown /\ told.cursor = g.cursor
        /\ told.critter = g.critter /\ told.preedit = g.preedit
        /\ told.cursorShown = g.cursorShown /\ told.preeditShown = g.preeditShown
    BY <1>0, <2>2 DEF Renderers
  <2>4. /\ R \in SUBSET Nat
        /\ R = Damaged(T) \cup CursorRows(g, T) \cup Changed(g.marked, marked) \cup Changed(g.link, link)
    BY <1>0 DEF RowsToUpdate, Damaged, CursorRows, Changed, Renderers
  <2> HIDE DEF told, R, legible, h, full, T, g
  <2>5. ASSUME NEW row \in Nat, row \notin R
        PROVE  /\ (row \in told.marked) = (row \in g.marked)
               /\ (row \in told.link) = (row \in g.link)
               /\ row < g.rows \/ TellsBelow => row - T.offset \notin T.damaged
    <3>1. row \notin Damaged(T) /\ row \notin Changed(g.marked, marked) /\ row \notin Changed(g.link, link)
      BY <2>4, <2>5
    <3>2. row < g.rows \/ TellsBelow => row - T.offset \notin T.damaged
      BY <2>0, <3>1 DEF Damaged
    <3>3. (row \in told.marked) = (row \in g.marked) /\ (row \in told.link) = (row \in g.link)
      BY <1>2, <3>1 DEF Changed
    <3> QED BY <3>2, <3>3
  <2>6. Held(told, legible)
    BY <1>2, <2>0, <2>1, <2>3 DEF Built, Held, Drawn
  <2>7. ASSUME NEW row \in Nat, row < told.rows, row \notin R
        PROVE  told.grid[row] = Line(T, row) /\ RowBuilt(told, legible, row)
    <3>0. row < g.rows
      BY <1>2, <2>0, <2>7
    <3>1. row - T.offset \notin T.damaged
      BY <2>5, <2>7, <3>0
    <3>2. told.grid[row] = Line(T, row)
      BY <2>1, <2>3, <3>0, <3>1 DEF Known
    <3>3. RowBuilt(g, legible, row)
      BY <2>1, <3>0 DEF Built
    <3>4. (row \in told.marked) = (row \in g.marked) /\ (row \in told.link) = (row \in g.link)
      BY <2>5, <2>7
    <3> QED BY <2>3, <3>2, <3>3, <3>4 DEF RowBuilt
  <2>8. ASSUME R = {}, T.offset > 0
        PROVE  SpareBuilt(told, legible) /\ (TellsBelow => told.grid[told.rows] = Line(T, told.rows))
    <3>1. g.rows \in Nat /\ g.rows \notin R /\ told.rows = g.rows
      BY <1>0, <1>2, <2>0, <2>8
    <3>2. /\ (g.rows \in told.marked) = (g.rows \in g.marked)
          /\ (g.rows \in told.link) = (g.rows \in g.link)
          /\ TellsBelow => g.rows - T.offset \notin T.damaged
      BY <2>5, <3>1
    <3>3. SpareBuilt(g, legible)
      BY <2>1, <2>8 DEF Known
    <3>4. SpareBuilt(told, legible)
      BY <2>3, <3>1, <3>2, <3>3 DEF SpareBuilt
    <3>5. TellsBelow => told.grid[told.rows] = Line(T, told.rows)
      BY <2>1, <2>3, <2>8, <3>1, <3>2 DEF Known
    <3> QED BY <3>4, <3>5
  <2>9. ASSUME told.cursor = CursorOf(T), CursorOf(T).row \notin R
        PROVE  CursorBuilt(told, legible) /\ PreeditBuilt(told)
    <3>1. CursorOf(T).row \in Nat
      BY <1>0, CursorOfType
    <3>2. OnGlass(told) <=> OnGlass(g)
      BY <1>2, <2>0, <2>3 DEF OnGlass
    <3>3. (g.cursor.row \in told.marked) = (g.cursor.row \in g.marked)
      BY <2>3, <2>5, <2>9, <3>1
    <3>4. CursorBuilt(g, legible) /\ PreeditBuilt(g)
      BY <2>1 DEF Built
    <3>5. CursorBuilt(told, legible)
      BY <2>3, <3>2, <3>3, <3>4 DEF CursorBuilt
    <3>6. PreeditBuilt(told)
      BY <2>3, <3>2, <3>3, <3>4 DEF PreeditBuilt
    <3> QED BY <3>5, <3>6
  <2>10. h = Refreshed(told, T, R)
    BY <1>3, <1>5
  <2>11. /\ h \in Renderers /\ Built(h, legible) /\ (T.offset > 0 => SpareBuilt(h, legible))
         /\ h.rows = told.rows /\ h.cursor = CursorOf(T) /\ h.marked = told.marked /\ h.link = told.link
         /\ h.stale = told.stale
         /\ \A row \in Nat : row < T.rows => h.grid[row] = Line(T, row)
         /\ TellsBelow /\ T.offset > 0 => h.grid[T.rows] = Line(T, T.rows)
    <3>1. \A row \in Nat : row < told.rows /\ row \notin R =>
            told.grid[row] = Line(T, row) /\ RowBuilt(told, legible, row)
      BY <2>7
    <3>2. R = {} /\ T.offset > 0 =>
            SpareBuilt(told, legible) /\ (TellsBelow => told.grid[told.rows] = Line(T, told.rows))
      BY <2>8
    <3>3. told.cursor = CursorOf(T) /\ CursorOf(T).row \notin R =>
            CursorBuilt(told, legible) /\ PreeditBuilt(told)
      BY <2>9
    <3>4. told \in Renderers /\ told.rows = T.rows /\ T \in Terminals /\ R \in SUBSET Nat
      BY <1>0, <1>2, <2>4
    <3> HIDE DEF h, legible, R, told
    <3>5. Held(told, legible) /\ CursorOf(T) \in Cursors
      BY <2>6, <3>4, CursorOfType
    <3> QED BY <2>10, <3>1, <3>2, <3>3, <3>4, <3>5, RefreshedFacts
  <2> QED BY <1>2, <2>11 DEF Synced, h, g, T, legible, full
<1> QED BY <1>4, <1>5

LEMMA SetPreeditFacts ==
  ASSUME NEW g \in Renderers, NEW text \in Text \cup {Nothing}, NEW T, NEW marked, NEW link, NEW legible,
         Synced(g, T, marked, link, legible)
  PROVE  LET h == SetPreedit(g, text)
         IN  Synced(h, T, marked, link, legible) /\ h.preedit = text
<1>1. CASE text = g.preedit
  BY <1>1 DEF SetPreedit
<1>2. CASE text # g.preedit
  <2> DEFINE next == [g EXCEPT !.preedit = text]
             h    == [next EXCEPT !.preeditShown = BuildPreedit(next)]
  <2>1. SetPreedit(g, text) = h
    BY <1>2 DEF SetPreedit
  <2>2. /\ next \in Renderers /\ next.preedit = text /\ next.rows = g.rows /\ next.grid = g.grid
        /\ next.cursor = g.cursor /\ next.marked = g.marked
    BY DEF Renderers
  <2>3. /\ h \in Renderers /\ h.preedit = text /\ h.preeditShown = BuildPreedit(next)
        /\ h.rows = g.rows /\ h.grid = g.grid /\ h.atlas = g.atlas /\ h.cursor = g.cursor
        /\ h.marked = g.marked /\ h.link = g.link /\ h.critter = g.critter /\ h.stale = g.stale
        /\ h.shown = g.shown /\ h.cursorShown = g.cursorShown
    BY <2>2, BuildPreeditType DEF Renderers
  <2> HIDE DEF h, next
  <2>4. PreeditBuilt(h)
    BY <2>2, <2>3, BuiltPreedit
  <2>5. Held(h, legible) /\ CursorBuilt(h, legible) /\ \A row \in Nat : row < h.rows => RowBuilt(h, legible, row)
    BY <2>3 DEF Synced, Built, Held, Drawn, CursorBuilt, OnGlass, RowBuilt
  <2>6. SpareBuilt(g, legible) => SpareBuilt(h, legible)
    BY <2>3 DEF SpareBuilt
  <2> QED BY <2>1, <2>3, <2>4, <2>5, <2>6 DEF Synced, Built
<1> QED BY <1>1, <1>2

LEMMA SetCritterFacts ==
  ASSUME NEW g \in Renderers, NEW critter \in [Nat -> Figure \cup {Nobody}], NEW T, NEW marked, NEW link, NEW legible,
         Synced(g, T, marked, link, legible)
  PROVE  LET h == SetCritter(g, critter)
         IN  Synced(h, T, marked, link, legible) /\ h.preedit = g.preedit /\ h.critter = critter
<1>1. CASE critter = g.critter
  BY <1>1 DEF SetCritter
<1>2. CASE critter # g.critter
  <2> DEFINE next  == [g EXCEPT !.critter = critter]
             at    == {row \in Nat : row < g.rows /\ {g.critter[row], critter[row]} # {Nobody}}
             shown == [row \in Nat |-> IF row \in at THEN BuildRow(next, row) ELSE g.shown[row]]
             h     == [next EXCEPT !.shown = shown]
  <2>1. SetCritter(g, critter) = h
    BY <1>2 DEF SetCritter
  <2>2. /\ next \in Renderers /\ next.critter = critter /\ next.grid = g.grid /\ next.atlas = g.atlas
        /\ next.marked = g.marked /\ next.link = g.link
    BY DEF Renderers
  <2>3. g.rows \in Nat
    BY DEF Renderers, Rows
  <2>12. ASSUME NEW row \in Nat, row < g.rows, row \notin at PROVE g.critter[row] = critter[row]
    <3>1. {g.critter[row], critter[row]} = {Nobody}
      BY <2>12
    <3> QED BY <3>1
  <2>4. at \in SUBSET Nat /\ g.rows \notin at
    BY <2>3
  <2> HIDE DEF at
  <2>5. \A row \in Nat : shown[row] = IF row \in at THEN BuildRow(next, row) ELSE g.shown[row]
    OBVIOUS
  <2>6. shown \in [Nat -> [text : CellTexts, marked : BOOLEAN, link : BOOLEAN, critter : Figure \cup {Nobody}]]
    BY <2>2, BuildRowType DEF Renderers
  <2> HIDE DEF shown
  <2>7. /\ h \in Renderers /\ h.shown = shown /\ h.critter = critter /\ h.preedit = g.preedit
        /\ h.rows = g.rows /\ h.grid = g.grid /\ h.atlas = g.atlas /\ h.cursor = g.cursor
        /\ h.marked = g.marked /\ h.link = g.link /\ h.stale = g.stale
        /\ h.cursorShown = g.cursorShown /\ h.preeditShown = g.preeditShown
    BY <2>6 DEF Renderers
  <2> HIDE DEF h, next
  <2>8. Held(g, legible) /\ \A row \in Nat : row < g.rows => RowBuilt(g, legible, row)
    BY DEF Synced, Built
  <2>9. ASSUME NEW row \in Nat, row < g.rows PROVE RowBuilt(h, legible, row)
    <3>1. CASE row \in at
      <4>1. h.shown[row] = BuildRow(next, row)
        BY <2>5, <2>7, <3>1
      <4>2. Drawn(next, next.grid[row]) \in MayShow(g.grid[row], legible)
        BY <2>2, <2>3, <2>8, <2>9 DEF Held, Drawn
      <4>3. /\ h.grid = g.grid /\ next.critter = h.critter /\ next.marked = h.marked /\ next.link = h.link
        BY <2>2, <2>7
      <4> QED BY <4>1, <4>2, <4>3, BuildRowFields DEF RowBuilt
    <3>2. CASE row \notin at
      <4>1. h.shown[row] = g.shown[row] /\ h.grid[row] = g.grid[row] /\ h.critter[row] = g.critter[row]
        BY <2>5, <2>7, <2>9, <2>12, <3>2
      <4>2. RowBuilt(g, legible, row)
        BY <2>8, <2>9
      <4> QED BY <2>7, <4>1, <4>2 DEF RowBuilt
    <3> QED BY <3>1, <3>2
  <2>10. SpareBuilt(g, legible) => SpareBuilt(h, legible)
    <3>1. h.shown[g.rows] = g.shown[g.rows]
      BY <2>3, <2>4, <2>5, <2>7
    <3> QED BY <2>7, <3>1 DEF SpareBuilt
  <2>11. Held(h, legible)
    BY <2>7, <2>8 DEF Held, Drawn
  <2>13. CursorBuilt(h, legible) /\ PreeditBuilt(h)
    BY <2>7 DEF Synced, Built, CursorBuilt, PreeditBuilt, OnGlass
  <2> QED BY <2>1, <2>7, <2>9, <2>10, <2>11, <2>13 DEF Synced, Built
<1> QED BY <1>1, <1>2

-----------------------------------------------------------------------------
(***************************************************************************)
(* The steps.                                                              *)
(***************************************************************************)
LEMMA FrameStep == IInv /\ DrawFrame => IInv'
<1> SUFFICES ASSUME IInv, DrawFrame PROVE IInv'
  OBVIOUS
<1> DEFINE T    == term[air]
           full == Full(glass, T)
           legible == IF refonted /\ ~full THEN Charset ELSE Text
<1>1. PICK marked \in SUBSET Nat, link \in SUBSET Nat, critter \in [Nat -> Figure \cup {Nobody}],
           preedit \in Text \cup {Nothing} :
        /\ glass' = SetCritter(SetPreedit(Sync(glass, T, marked, link), preedit), critter)
        /\ asked' = [marked |-> marked, link |-> link, critter |-> critter, preedit |-> preedit]
  BY DEF DrawFrame
<1>2. /\ refonted' = (refonted /\ ~full) /\ view' = T.offset /\ air' = air
      /\ term' = [term EXCEPT ![air].full = FALSE, ![air].damaged = {}]
  BY DEF DrawFrame
<1>3. /\ term \in [Terminal -> Terminals] /\ air \in Terminal /\ T \in Terminals
      /\ T.rows \in Nat /\ T.offset \in Nat /\ glass \in Renderers
  BY DEF IInv, Types, Terminals, Rows
<1>4. /\ term' \in [Terminal -> Terminals] /\ term'[air] \in Terminals
      /\ term'[air].rows = T.rows /\ term'[air].lines = T.lines /\ term'[air].offset = T.offset
      /\ term'[air].cursor = T.cursor /\ term'[air].full = FALSE
  BY <1>2, <1>3 DEF Terminals
<1>5. Legible' = legible
  BY <1>2 DEF Legible
<1>6. /\ Synced(glass', T, marked, link, legible)
      /\ glass'.preedit = preedit /\ glass'.critter = critter
  <2> DEFINE s == Sync(glass, T, marked, link)
             p == SetPreedit(s, preedit)
             k == SetCritter(p, critter)
  <2>1. Synced(s, T, marked, link, legible)
    BY SyncFacts DEF IInv
  <2>2. glass' = k
    BY <1>1
  <2> HIDE DEF s, T, legible, full
  <2>3. s \in Renderers
    BY <2>1 DEF Synced
  <2>4. Synced(p, T, marked, link, legible) /\ p.preedit = preedit
    BY <2>1, <2>3, SetPreeditFacts
  <2> HIDE DEF p
  <2>5. p \in Renderers
    BY <2>4 DEF Synced
  <2>6. Synced(k, T, marked, link, legible) /\ k.preedit = p.preedit /\ k.critter = critter
    BY <2>4, <2>5, SetCritterFacts
  <2> QED BY <2>2, <2>4, <2>6
<1>7. /\ \A row \in Nat : Line(term'[air], row) = Line(T, row)
      /\ CursorOf(term'[air]) = CursorOf(T)
  BY <1>4 DEF Line, CursorOf
<1> HIDE DEF T, legible, full
<1>8. Types'
  BY <1>2, <1>3, <1>4, <1>6 DEF Types, Synced, T
<1>9. Faithful'
  <2>1. Built(glass', Legible')
    BY <1>5, <1>6 DEF Synced
  <2>2. view' = term'[air'].offset
    BY <1>2, <1>4
  <2>3. Known(glass', term'[air'], Legible')
    <3>1. /\ T.offset > 0 => SpareBuilt(glass', legible)
          /\ \A row \in Nat : row < T.rows => glass'.grid[row] = Line(T, row)
          /\ TellsBelow /\ T.offset > 0 => glass'.grid[T.rows] = Line(T, T.rows)
          /\ glass'.rows = T.rows
      BY <1>6 DEF Synced
    <3> QED BY <1>2, <1>3, <1>4, <1>5, <1>7, <3>1 DEF Known
  <2> QED BY <2>1, <2>2, <2>3 DEF Faithful
<1>10. GlassIsTheScreen'
  <2> DEFINE g == glass'
             c == CursorOf(T)
  <2>1. /\ g.rows = T.rows /\ g.cursor = c /\ g.marked = marked /\ g.link = link
        /\ g.preedit = preedit /\ g.critter = critter
        /\ \A row \in Nat : row < T.rows => g.grid[row] = Line(T, row)
        /\ TellsBelow /\ T.offset > 0 => g.grid[T.rows] = Line(T, T.rows)
        /\ T.offset > 0 => SpareBuilt(g, legible)
        /\ \A row \in Nat : row < g.rows => RowBuilt(g, legible, row)
        /\ CursorBuilt(g, legible) /\ PreeditBuilt(g)
    BY <1>6 DEF Synced, Built
  <2>2. /\ asked'.marked = marked /\ asked'.link = link /\ asked'.critter = critter
        /\ asked'.preedit = preedit
    BY <1>1
  <2>3. c.row \in Nat /\ c # Nothing
    BY <1>3, CursorOfType
  <2> HIDE DEF g, c
  <2>4. OnGlass(g) <=> c.row < T.rows
    BY <2>1, <2>3 DEF OnGlass
  <2>5. RowsAreTheTerminals'
    <3> SUFFICES ASSUME NEW row \in Nat, row < T.rows
                 PROVE  /\ g.shown[row].text \in MayShow(Line(T, row), legible)
                        /\ g.shown[row].marked = (row \in marked) /\ g.shown[row].link = (row \in link)
                        /\ g.shown[row].critter = critter[row]
      BY <1>2, <1>4, <1>5, <1>7, <2>2 DEF RowsAreTheTerminals, g
    <3> QED BY <2>1 DEF RowBuilt
  <2>6. SpareRowIsTheNextLine'
    <3> SUFFICES ASSUME T.offset > 0
                 PROVE  /\ TellsBelow => g.shown[T.rows].text \in MayShow(Line(T, T.rows), legible)
                        /\ g.shown[T.rows].marked = (T.rows \in marked)
                        /\ g.shown[T.rows].link = (T.rows \in link)
      BY <1>2, <1>3, <1>4, <1>5, <1>7, <2>2 DEF SpareRowIsTheNextLine, g
    <3> QED BY <2>1 DEF SpareBuilt
  <2>7. CursorIsTheTerminals'
    <3>1. c.row < T.rows => g.grid[c.row] = Line(T, c.row)
      BY <2>1, <2>3
    <3>2. /\ c.row < T.rows /\ c.shape # Hidden =>
               /\ g.cursorShown # Nothing /\ g.cursorShown.at = c
               /\ g.cursorShown.text \in MayShow(Line(T, c.row), legible)
               /\ g.cursorShown.marked = (c.row \in marked)
          /\ ~(c.row < T.rows) \/ c.shape = Hidden => g.cursorShown = Nothing
      BY <2>1, <2>4, <3>1 DEF CursorBuilt
    <3>3. /\ c.row < T.rows /\ preedit # Nothing =>
               /\ g.preeditShown # Nothing /\ g.preeditShown.row = c.row
               /\ g.preeditShown.text \in MayShow(preedit, Charset)
               /\ g.preeditShown.under = Line(T, c.row)
               /\ g.preeditShown.marked = (c.row \in marked)
          /\ ~(c.row < T.rows) \/ preedit = Nothing => g.preeditShown = Nothing
      BY <2>1, <2>4, <3>1 DEF PreeditBuilt
    <3>4. CursorOf(term'[air']) = c /\ Line(term'[air'], c.row) = Line(T, c.row) /\ term'[air'].rows = T.rows
      BY <1>2, <1>4, <1>7, <2>3 DEF c
    <3> QED BY <1>5, <2>2, <3>2, <3>3, <3>4 DEF CursorIsTheTerminals, g
  <2> QED BY <2>5, <2>6, <2>7 DEF GlassIsTheScreen
<1> QED BY <1>8, <1>9, <1>10 DEF IInv

\* Where no frame is drawn nothing is claimed of the glass.
LEMMA UnseenShows ==
  ASSUME Unseen PROVE GlassIsTheScreen'
BY DEF Unseen, GlassIsTheScreen, RowsAreTheTerminals, SpareRowIsTheNextLine, CursorIsTheTerminals

\* A step of the terminals that leaves the glass alone: each terminal is as it
\* was, or is damaged whole, or has written within its damage.
Wrote(S, T) ==
  /\ T.rows = S.rows /\ T.offset = S.offset /\ T.full = S.full /\ S.damaged \subseteq T.damaged
  /\ \A line \in Int : T.lines[line] # S.lines[line] => line \in T.damaged

LEMMA TerminalsStep ==
  ASSUME IInv, term' \in [Terminal -> Terminals], term'[air].full \/ Wrote(term[air], term'[air]),
         view' = term'[air].offset \/ (view' = view /\ (term'[air].full \/ term'[air] = term[air])),
         view' \in Nat, Unseen, UNCHANGED <<air, glass, refonted>>
  PROVE  IInv'
<1>1. Types'
  BY DEF IInv, Types
<1>2. Legible' = Legible
  BY DEF Legible
<1>3. /\ term[air] \in Terminals /\ term'[air] \in Terminals /\ term[air].offset \in Nat
      /\ glass \in Renderers /\ glass.rows \in Nat
  BY DEF IInv, Types, Terminals, Renderers, Rows
<1>4. Pending(glass, term'[air]) \/ Known(glass, term'[air], Legible)
  <2>1. CASE term'[air].full
    BY <2>1 DEF Pending
  <2>2. CASE Wrote(term[air], term'[air])
    <3>1. CASE Pending(glass, term[air])
      BY <2>2, <3>1 DEF Pending, Wrote
    <3>2. CASE Known(glass, term[air], Legible)
      <4>1. ASSUME NEW row \in Nat, glass.grid[row] = Line(term[air], row) \/ row - term[air].offset \in term[air].damaged
            PROVE  glass.grid[row] = Line(term'[air], row) \/ row - term'[air].offset \in term'[air].damaged
        <5>1. row - term[air].offset \in Int
          BY <1>3
        <5> QED BY <2>2, <4>1, <5>1 DEF Wrote, Line
      <4> QED BY <1>3, <2>2, <3>2, <4>1 DEF Known, Wrote
    <3> QED BY <3>1, <3>2 DEF IInv, Faithful
  <2> QED BY <2>1, <2>2
<1>5. view' # term'[air].offset => term'[air].full
  BY DEF IInv, Faithful
<1>6. Faithful'
  BY <1>2, <1>4, <1>5 DEF IInv, Faithful
<1> QED BY <1>1, <1>6, UnseenShows DEF IInv

LEMMA WriteStep == ASSUME NEW t \in Terminal, IInv, Write(t) PROVE IInv'
<1>1. PICK lines \in [Int -> Text], cursor \in [line : Nat, shape : Shape], damaged \in SUBSET Nat :
        /\ \A line \in Int : lines[line] # term[t].lines[line] => line \in damaged
        /\ term' = [term EXCEPT ![t].lines = lines, ![t].cursor = cursor, ![t].damaged = @ \cup damaged]
  BY DEF Write
<1>2. /\ term \in [Terminal -> Terminals] /\ air \in Terminal /\ term[t] \in Terminals /\ term[air] \in Terminals
  BY DEF IInv, Types
<1>3. /\ term' \in [Terminal -> Terminals]
      /\ term'[t].rows = term[t].rows /\ term'[t].offset = term[t].offset /\ term'[t].full = term[t].full
      /\ term'[t].damaged = term[t].damaged \cup damaged /\ term'[t].lines = lines
      /\ air # t => term'[air] = term[air]
  BY <1>1, <1>2 DEF Terminals
<1>4. Wrote(term[air], term'[air])
  BY <1>1, <1>2, <1>3 DEF Wrote
<1>5. term'[air].offset \in Nat
  BY <1>2, <1>3 DEF Terminals
<1> QED BY <1>3, <1>4, <1>5, TerminalsStep DEF Write

\* A step after which every terminal is as it was or damaged whole.
LEMMA WholeStep ==
  ASSUME IInv, term' \in [Terminal -> Terminals], term'[air] = term[air] \/ term'[air].full,
         view' = term'[air].offset \/ view' = view, Unseen, UNCHANGED <<air, glass, refonted>>
  PROVE  IInv'
<1>1. term'[air] = term[air] => Wrote(term[air], term'[air])
  BY DEF Wrote
<1>2. view' \in Nat
  BY DEF IInv, Types, Terminals
<1> QED BY <1>1, <1>2, TerminalsStep

LEMMA ScrolledStep == ASSUME NEW t \in Terminal, IInv, Scrolled(t) PROVE IInv'
<1>1. PICK lines \in [Int -> Text], offset \in Nat :
        term' = [term EXCEPT ![t].lines = lines, ![t].offset = offset, ![t].full = TRUE]
  BY DEF Scrolled
<1>2. term \in [Terminal -> Terminals] /\ air \in Terminal /\ term[t] \in Terminals
  BY DEF IInv, Types
<1>3. term' \in [Terminal -> Terminals] /\ (term'[air] = term[air] \/ term'[air].full)
  BY <1>1, <1>2 DEF Terminals
<1> QED BY <1>3, WholeStep DEF Scrolled

LEMMA ScrollViewStep == ASSUME IInv, ScrollView PROVE IInv'
<1>1. PICK offset \in Nat : term' = [term EXCEPT ![air].offset = offset, ![air].full = TRUE]
  BY DEF ScrollView
<1>2. term \in [Terminal -> Terminals] /\ air \in Terminal /\ term[air] \in Terminals
  BY DEF IInv, Types
<1>3. term' \in [Terminal -> Terminals] /\ term'[air].full
  BY <1>1, <1>2 DEF Terminals
<1> QED BY <1>3, WholeStep DEF ScrollView

LEMMA ResizeStep == ASSUME IInv, Resize PROVE IInv'
<1>1. term' \in [Terminal -> Terminals] /\ (term'[air] = term[air] \/ term'[air].full)
  BY DEF Resize, IInv, Types
<1> QED BY <1>1, WholeStep DEF Resize

LEMMA ReopenedStep == ASSUME NEW t \in Terminal, IInv, Reopened(t) PROVE IInv'
<1>1. PICK T \in Terminals : T.full /\ term' = [term EXCEPT ![t] = T]
  BY DEF Reopened
<1>2. term \in [Terminal -> Terminals] /\ air \in Terminal
  BY DEF IInv, Types
<1>3. term' \in [Terminal -> Terminals] /\ (term'[air] = term[air] \/ term'[air].full)
  BY <1>1, <1>2
<1> QED BY <1>3, WholeStep DEF Reopened

\* The renderer that is told so asks for the whole screen of the next frame.
LEMMA ChannelChangedStep == ASSUME NEW t \in Terminal, IInv, ChannelChanged(t) PROVE IInv'
<1>1. /\ glass \in Renderers /\ glass' = Invalidated(glass) /\ air' = t /\ term' = term
      /\ view' = term[t].offset /\ refonted' = refonted /\ term[t] \in Terminals
  BY DEF ChannelChanged, IInv, Types
<1>2. /\ glass' \in Renderers /\ glass'.stale = TRUE
      /\ glass'.rows = glass.rows /\ glass'.grid = glass.grid /\ glass'.atlas = glass.atlas
      /\ glass'.cursor = glass.cursor /\ glass'.marked = glass.marked /\ glass'.link = glass.link
      /\ glass'.critter = glass.critter /\ glass'.preedit = glass.preedit /\ glass'.shown = glass.shown
      /\ glass'.cursorShown = glass.cursorShown /\ glass'.preeditShown = glass.preeditShown
  BY <1>1 DEF Invalidated, Renderers
<1>3. Legible' = Legible
  BY <1>1 DEF Legible
<1>4. Built(glass', Legible)
  BY <1>2 DEF IInv, Faithful, Built, Held, Drawn, RowBuilt, CursorBuilt, PreeditBuilt, OnGlass
<1>5. Faithful'
  BY <1>1, <1>2, <1>3, <1>4 DEF Faithful, Pending
<1>6. Types'
  BY <1>1, <1>2 DEF IInv, Types, Terminals
<1> QED BY <1>5, <1>6, UnseenShows DEF IInv, ChannelChanged

\* The cells are kept and built again from an atlas that has the charset.
LEMMA EnsureFontStep == ASSUME IInv, EnsureFont PROVE IInv'
<1> DEFINE fresh == [glass EXCEPT !.atlas = Charset]
<1>1. /\ glass' = UploadAll(fresh) /\ UNCHANGED <<term, air, view>> /\ refonted' = TRUE
      /\ glass \in Renderers /\ term[air] \in Terminals
  BY DEF EnsureFont, SetAtlas, IInv, Types
<1>2. /\ fresh \in Renderers /\ fresh.atlas = Charset /\ fresh.rows = glass.rows /\ fresh.grid = glass.grid
      /\ fresh.stale = glass.stale
  BY <1>1 DEF Renderers, Atlases
<1> HIDE DEF fresh
<1>3. Legible' = Charset
  BY <1>1 DEF Legible
<1>4. Held(fresh, Charset)
  BY <1>2 DEF Held, Drawn, MayShow
<1>5. /\ glass' \in Renderers /\ SameCells(glass', fresh)
      /\ Built(glass', Charset) /\ SpareBuilt(glass', Charset)
  BY <1>1, <1>2, <1>4, UploadAllType, UploadAllBuilt
<1>6. Pending(glass', term[air]) \/ Known(glass', term[air], Charset)
  <2>1. glass'.rows = glass.rows /\ glass'.grid = glass.grid /\ glass'.stale = glass.stale
    BY <1>2, <1>5 DEF SameCells
  <2> QED BY <1>5, <2>1 DEF IInv, Faithful, Pending, Known
<1>7. Faithful'
  BY <1>1, <1>3, <1>5, <1>6 DEF IInv, Faithful
<1>8. Types'
  BY <1>1, <1>5 DEF IInv, Types
<1> QED BY <1>7, <1>8, UnseenShows DEF IInv, EnsureFont

LEMMA Start == Init => IInv
<1> SUFFICES ASSUME Init PROVE IInv
  OBVIOUS
<1>1. PICK rows \in Rows : glass = NewRenderer(rows)
  BY DEF Init
<1> DEFINE shown == [row \in Nat |-> [text |-> Blank, marked |-> FALSE, link |-> FALSE, critter |-> Nobody]]
           g == [rows |-> rows, grid |-> [row \in Nat |-> Blank], atlas |-> Charset, cursor |-> Nothing,
                 marked |-> {}, link |-> {}, critter |-> [row \in Nat |-> Nobody], preedit |-> Nothing,
                 stale |-> FALSE, shown |-> Nothing, cursorShown |-> Nothing, preeditShown |-> Nothing]
           h == [g EXCEPT !.shown = shown]
<1>2. h \in Renderers /\ h.atlas = Charset /\ \A row \in Nat : h.grid[row] = Blank
  BY DEF Renderers, CellTexts, Atlases
<1>3. NewRenderer(rows) = UploadAll(h)
  <2>1. /\ \A row \in Nat : BuildRow(g, row) = BuildRow(h, row)
        /\ BuildCursor(g) = BuildCursor(h) /\ BuildPreedit(g) = BuildPreedit(h)
    BY DEF BuildRow, BuildCursor, BuildPreedit, OnGlass, Drawn
  <2> QED BY <2>1 DEF NewRenderer, UploadAll
<1> HIDE DEF h
<1>4. Held(h, Legible)
  BY <1>2 DEF Held, Drawn, MayShow
<1>5. glass \in Renderers /\ Built(glass, Legible)
  BY <1>1, <1>2, <1>3, <1>4, UploadAllType, UploadAllBuilt
<1>6. /\ term \in [Terminal -> Terminals] /\ air \in Terminal /\ term[air].full
      /\ view = 0 /\ refonted = FALSE /\ asked = Nothing
  BY DEF Init
<1>7. Types /\ Faithful
  BY <1>5, <1>6 DEF Types, Faithful, Pending
<1>8. GlassIsTheScreen
  BY <1>6 DEF GlassIsTheScreen, RowsAreTheTerminals, SpareRowIsTheNextLine, CursorIsTheTerminals
<1> QED BY <1>7, <1>8 DEF IInv

LEMMA Stutter == IInv /\ UNCHANGED vars => IInv'
<1> SUFFICES ASSUME IInv, UNCHANGED vars PROVE IInv'
  OBVIOUS
<1>1. UNCHANGED <<term, air, view, glass, asked, refonted>>
  BY DEF vars
<1>2. Legible' = Legible
  BY <1>1 DEF Legible
<1>3. Types' /\ Faithful'
  BY <1>1, <1>2 DEF IInv, Types, Faithful
<1>4. GlassIsTheScreen'
  BY <1>1, <1>2 DEF IInv, GlassIsTheScreen, RowsAreTheTerminals, SpareRowIsTheNextLine, CursorIsTheTerminals
<1> QED BY <1>3, <1>4 DEF IInv

LEMMA FrameSteps == IInv /\ [Next]_vars => IInv'
<1> SUFFICES ASSUME IInv, [Next]_vars PROVE IInv'
  OBVIOUS
<1>1. ASSUME NEW t \in Terminal, Write(t) PROVE IInv'
  BY <1>1, WriteStep
<1>2. ASSUME NEW t \in Terminal, Scrolled(t) PROVE IInv'
  BY <1>2, ScrolledStep
<1>3. ASSUME NEW t \in Terminal, ChannelChanged(t) PROVE IInv'
  BY <1>3, ChannelChangedStep
<1>4. ASSUME NEW t \in Terminal, Reopened(t) PROVE IInv'
  BY <1>4, ReopenedStep
<1>5. CASE ScrollView
  BY <1>5, ScrollViewStep
<1>6. CASE Resize
  BY <1>6, ResizeStep
<1>7. CASE EnsureFont
  BY <1>7, EnsureFontStep
<1>8. CASE DrawFrame
  BY <1>8, FrameStep
<1>9. CASE UNCHANGED vars
  BY <1>9, Stutter
<1> QED BY <1>1, <1>2, <1>3, <1>4, <1>5, <1>6, <1>7, <1>8, <1>9 DEF Next

(***************************************************************************)
(* A frame asks the terminal only for the rows it damaged, and still       *)
(* leaves on the glass what the terminal has: its lines, its cursor, and   *)
(* this frame's marks, composition and critter, whichever terminal was     *)
(* there before and wherever its view was moved meanwhile.                 *)
(***************************************************************************)
THEOREM TheGlassIsTheScreen == Spec => []GlassIsTheScreen
<1>1. IInv => GlassIsTheScreen
  BY DEF IInv
<1> QED BY <1>1, Start, FrameSteps, PTL DEF Spec

-----------------------------------------------------------------------------
(***************************************************************************)
(* When a frame is drawn (Clock).                                          *)
(***************************************************************************)
Critters == [planned : {Never} \cup 0 .. PerDay - 1, due : {Never} \cup 0 .. Every - 1,
             active : [step : Int, age : 0 .. CrossingTime], cells : 0 .. LastStep]

\* The records have their fields; the ages and numbers their ranges.
Typed ==
  /\ focused \in BOOLEAN /\ untouched \in Nat /\ unattended \in BOOLEAN
  /\ effects \in {Never} \cup 0 .. Interval /\ governor \in 0 .. EFFECTS_BASE_FRAME
  /\ arrived \in BOOLEAN /\ pending \in BOOLEAN /\ redraw \in BOOLEAN /\ turning \in BOOLEAN
  /\ day \in [index : 0 .. PerDay - 1, into : 0 .. Every - 1]
  /\ critters \in Critters
  /\ picture \in [cells : 0 .. LastStep, unread : {Never} \cup Nat, age : Nat, missed : BOOLEAN, skips : Nat]
  /\ seen \in [watching : Nat, owed : BOOLEAN]

\* What has been taken off leaves no cells, and is taken off when nobody is there.
CrittersGone ==
  /\ ~Crossing(critters) => critters.cells = 0
  /\ unattended => critters = Withdrawn(critters)

\* A loop that sleeps has taken its turn: nothing is left to read, what is
\* pending waits for the governor, and there is an effects frame to come while
\* somebody is there and none while nobody is.
TurnTaken ==
  ~turning =>
    /\ ~arrived
    /\ pending => governor > 0
    /\ unattended = Unattended
    /\ effects = Never <=> Unattended
    /\ effects # 0

\* The deadlines stand when nobody is there.
NoFrameAlone == unattended => effects = Never

\* Output not on the glass is read by the next turn, waits for the governor, or
\* has been asked for, and then the governor leaves it no more than a frame.
OutputTracked ==
  ~picture.missed /\ picture.unread # Never =>
    /\ arrived \/ pending \/ redraw
    /\ picture.unread <= EFFECTS_BASE_FRAME
    /\ ~redraw => picture.unread + governor <= EFFECTS_BASE_FRAME

\* The picture is no older than the effects' deadline allows.
AgeTracked == ~picture.missed /\ ~redraw /\ effects >= 0 => picture.age + effects <= Interval

\* The glass has the cells the critters were left with, or is to be drawn.
CellsTracked == ~picture.missed /\ ~redraw => picture.cells = critters.cells

ClockInv ==
  /\ Typed /\ CrittersGone /\ TurnTaken /\ NoFrameAlone
  /\ OutputTracked /\ AgeTracked /\ CellsTracked

\* The interval that owes its critter has not been planned for, and its frame
\* comes while it may be joined.
OwedTracked ==
  seen.owed =>
    /\ ~Crossing(critters) /\ critters.planned # day.index
    /\ day.into < Interval
    /\ ~redraw /\ effects >= 0 => day.into + effects < Interval

\* An arrival at the start of its interval is never kept waiting.
NothingDue == critters.due = Never

KeepsTime == OwedTracked /\ NothingDue
-----------------------------------------------------------------------------
LEMMA ConstantFacts ==
  /\ UNATTENDED_AFTER \in Nat /\ UNATTENDED_AFTER > 0
  /\ EFFECTS_BASE_FRAME \in Nat /\ EFFECTS_BASE_FRAME > 0
  /\ Interval \in Nat /\ Interval > 0
  /\ Every \in Nat /\ Every > 0 /\ PerDay \in Nat /\ PerDay > 0
  /\ JOINED \in Nat /\ StepMs \in Nat /\ StepMs > 0
  /\ LastStep \in Nat /\ CrossingTime \in Nat
  /\ MaxSkips \in Nat /\ Jitter \in BOOLEAN
<1>1. \A m, n \in Nat : m * n \in Nat /\ (m > 0 /\ n > 0 => m * n > 0)
  OBVIOUS
<1>2. /\ {UNATTENDED_AFTER, EFFECTS_BASE_FRAME, FrameSkip, Every, PerDay, JOINED, StepMs} \subseteq Nat \ {0}
      /\ LastStep \in Nat /\ MaxSkips \in Nat /\ Jitter \in BOOLEAN
  BY ClockAssumption
<1> QED BY <1>1, <1>2 DEF Interval, CrossingTime

\* A frame that takes the critters off leaves nothing of them.
LEMMA WithdrawnStands ==
  ASSUME NEW c \in Critters
  PROVE  LET n == Withdrawn(c)
         IN  /\ n \in Critters /\ n = Withdrawn(n) /\ ~Crossing(n) /\ n.cells = 0
             /\ n.planned = c.planned /\ n.due = c.due
<1>1. NoCrossing \in [step : Int, age : 0 .. CrossingTime]
  BY ConstantFacts DEF NoCrossing, Never
<1> DEFINE n == [c EXCEPT !.active = NoCrossing, !.cells = 0]
<1>2. n \in Critters /\ n.active = NoCrossing /\ n.cells = 0 /\ n.planned = c.planned /\ n.due = c.due
  <2>1. 0 \in 0 .. LastStep
    BY ConstantFacts
  <2>2. \A a \in [step : Int, age : 0 .. CrossingTime], k \in 0 .. LastStep :
          LET m == [c EXCEPT !.active = a, !.cells = k]
          IN  m \in Critters /\ m.active = a /\ m.cells = k /\ m.planned = c.planned /\ m.due = c.due
    BY DEF Critters
  <2> QED BY <1>1, <2>1, <2>2
<1>3. n = [n EXCEPT !.active = NoCrossing, !.cells = 0]
  BY <1>2 DEF Critters
<1> QED BY <1>2, <1>3 DEF Withdrawn, Crossing

\* What a frame paints of a crossing is a step of it, and nothing of none.
LEMMA PaintedStands ==
  ASSUME NEW active \in [step : Int, age : 0 .. CrossingTime]
  PROVE  Painted(active) \in 0 .. LastStep /\ (active = NoCrossing => Painted(active) = 0)
BY ConstantFacts DEF Painted, NoCrossing, Never

\* A frame advances the critters to critters.
LEMMA TickedStands ==
  ASSUME NEW c \in Critters, NEW offset \in 0 .. Every - 1, Typed
  PROVE  LET n == Ticked(c, offset)
         IN  n \in Critters /\ (~Crossing(n) => n.cells = 0)
<1> DEFINE n == Advance(c, offset)
<1>1. Stepped(c) \in Critters
  <2> DEFINE step == c.active.age \div StepMs
  <2>1. step \in Int
    BY ConstantFacts DEF Critters
  <2> HIDE DEF step
  <2>2. NoCrossing \in [step : Int, age : 0 .. CrossingTime]
    BY ConstantFacts DEF NoCrossing, Never
  <2>3. [c.active EXCEPT !.step = step] \in [step : Int, age : 0 .. CrossingTime]
    BY <2>1 DEF Critters
  <2>4. Stepped(c) = [c EXCEPT !.active = IF step >= LastStep THEN NoCrossing ELSE [c.active EXCEPT !.step = step]]
    BY DEF Stepped, step
  <2> QED BY <2>2, <2>3, <2>4 DEF Critters
<1>2. Planned(c, offset) \in Critters
  <2>1. day.index \in 0 .. PerDay - 1
    BY DEF Typed
  <2> QED BY <2>1 DEF Planned, Critters, Never
<1>3. ASSUME NEW d \in Critters PROVE Arrived(d) \in Critters
  <2>1. [step |-> 0, age |-> 0] \in [step : Int, age : 0 .. CrossingTime]
    BY ConstantFacts
  <2> QED BY <2>1 DEF Arrived, Critters, Never
<1>4. n \in Critters
  BY <1>1, <1>2, <1>3 DEF Advance
<1> HIDE DEF n
<1>5. Ticked(c, offset) = [n EXCEPT !.cells = Painted(n.active)]
  BY DEF Ticked, n
<1>6. n.active \in [step : Int, age : 0 .. CrossingTime]
  BY <1>4 DEF Critters
<1>7. Painted(n.active) \in 0 .. LastStep /\ (n.active = NoCrossing => Painted(n.active) = 0)
  BY <1>6, PaintedStands
<1> QED BY <1>4, <1>5, <1>7 DEF Critters, Crossing

LEMMA ClockInvInit == ClockInit => ClockInv
<1> SUFFICES ASSUME ClockInit PROVE ClockInv
  OBVIOUS
<1>1. NoCrossing \in [step : Int, age : 0 .. CrossingTime]
  BY ConstantFacts DEF NoCrossing, Never
<1>2. critters \in Critters
  BY <1>1, ConstantFacts DEF ClockInit, Critters, Never
<1>3. Typed
  <2>1. picture \in [cells : 0 .. LastStep, unread : {Never} \cup Nat, age : Nat, missed : BOOLEAN, skips : Nat]
    BY ConstantFacts DEF ClockInit
  <2>2. seen \in [watching : Nat, owed : BOOLEAN]
    BY DEF ClockInit
  <2>3. day \in [index : 0 .. PerDay - 1, into : 0 .. Every - 1]
    BY DEF ClockInit
  <2>4. governor \in 0 .. EFFECTS_BASE_FRAME /\ effects \in {Never} \cup 0 .. Interval
    BY ConstantFacts DEF ClockInit
  <2> QED BY <1>2, <2>1, <2>2, <2>3, <2>4 DEF ClockInit, Typed
<1>4. CrittersGone
  BY DEF ClockInit, CrittersGone, Crossing
<1>5. TurnTaken /\ NoFrameAlone /\ OutputTracked /\ AgeTracked /\ CellsTracked
  BY ConstantFacts DEF ClockInit, TurnTaken, NoFrameAlone, OutputTracked, AgeTracked, CellsTracked, Never
<1> QED BY <1>3, <1>4, <1>5 DEF ClockInv

-----------------------------------------------------------------------------
\* A turn asks for every frame that is due.
LEMMA TickKeeps == ClockInv /\ Tick => ClockInv'
<1> SUFFICES ASSUME ClockInv, Tick PROVE ClockInv'
  OBVIOUS
<1>0. critters \in Critters
  BY DEF ClockInv, Typed
<1> DEFINE gone == Withdrawn(critters)
<1>1. gone \in Critters /\ gone = Withdrawn(gone) /\ ~Crossing(gone) /\ gone.cells = 0
  BY <1>0, WithdrawnStands
<1> HIDE DEF gone
<1>2. critters' = IF Unattended THEN gone ELSE critters
  BY DEF Tick, gone
<1>3. effects' \in {Never} \cup 0 .. Interval /\ (Unattended <=> effects' = Never) /\ effects' # 0
  BY ConstantFacts DEF Tick, NextEffects, EffectsDue, ClockInv, Typed, Never
<1>4. Unattended' = Unattended /\ Unattended \in BOOLEAN
  BY DEF Tick, Unattended, ClockInv, Typed
<1>5. Typed'
  <2>1. OutputDue \in BOOLEAN /\ StillPending \in BOOLEAN /\ EffectsDue \in BOOLEAN /\ CritterDue \in BOOLEAN
    BY DEF OutputDue, StillPending, EffectsDue, CritterDue, StepDue
  <2>2. redraw' \in BOOLEAN /\ pending' \in BOOLEAN /\ arrived' \in BOOLEAN /\ turning' \in BOOLEAN
    BY <2>1, Zenon DEF Tick, ClockInv, Typed
  <2>3. governor' \in 0 .. EFFECTS_BASE_FRAME
    BY ConstantFacts DEF Tick, ClockInv, Typed
  <2>4. critters' \in Critters /\ unattended' \in BOOLEAN
    BY <1>0, <1>1, <1>2, <1>4 DEF Tick
  <2>5. UNCHANGED <<focused, untouched, day, picture, seen>>
    BY DEF Tick
  <2> QED BY <1>3, <2>2, <2>3, <2>4, <2>5 DEF ClockInv, Typed
<1>6. CrittersGone'
  <2>1. unattended' = Unattended
    BY DEF Tick
  <2> QED BY <1>1, <1>2, <2>1 DEF ClockInv, CrittersGone
<1>7. TurnTaken' /\ NoFrameAlone'
  <2>1. /\ arrived' = FALSE /\ unattended' = Unattended
        /\ pending' => governor' > 0
    <3>1. pending' => governor # 0 /\ governor' = governor
      BY DEF Tick, StillPending, OutputDue
    <3> QED BY <3>1, ConstantFacts DEF Tick, ClockInv, Typed
  <2> QED BY <1>3, <1>4, <2>1 DEF TurnTaken, NoFrameAlone
<1>8. OutputTracked'
  <2> SUFFICES ASSUME ~picture.missed, picture.unread # Never
               PROVE  /\ arrived' \/ pending' \/ redraw'
                      /\ picture.unread <= EFFECTS_BASE_FRAME
                      /\ ~redraw' => picture.unread + governor' <= EFFECTS_BASE_FRAME
    BY DEF Tick, OutputTracked
  <2>1. /\ arrived \/ pending \/ redraw
        /\ picture.unread <= EFFECTS_BASE_FRAME
        /\ ~redraw => picture.unread + governor <= EFFECTS_BASE_FRAME
    BY DEF ClockInv, OutputTracked
  <2>2. arrived \/ pending => pending' \/ redraw'
    BY DEF Tick, StillPending
  <2>3. redraw => redraw'
    BY DEF Tick
  <2>4. ~redraw' => governor' = governor
    BY DEF Tick
  <2> QED BY <2>1, <2>2, <2>3, <2>4
<1>9. AgeTracked'
  <2>1. ~redraw' /\ effects' >= 0 => ~redraw /\ effects' = effects
    <3>1. ~redraw' => ~redraw /\ ~EffectsDue
      BY DEF Tick
    <3>2. effects' = NextEffects
      BY DEF Tick
    <3> QED BY <3>1, <3>2 DEF NextEffects, Never
  <2> QED BY <2>1 DEF ClockInv, AgeTracked, Tick
<1>10. CellsTracked'
  <2>1. ~redraw' => ~redraw /\ critters'.cells = critters.cells
    <3>1. ~redraw' => ~redraw /\ ~CritterDue
      BY DEF Tick
    <3>2. ~CritterDue /\ Unattended => critters.cells = 0
      BY DEF CritterDue
    <3> QED BY <1>1, <1>2, <3>1, <3>2
  <2> QED BY <2>1 DEF ClockInv, CellsTracked, Tick
<1> QED BY <1>5, <1>6, <1>7, <1>8, <1>9, <1>10 DEF ClockInv

\* A frame brings the glass up to date.
LEMMA DrawKeeps == ClockInv /\ Draw => ClockInv'
<1> SUFFICES ASSUME ClockInv, Draw PROVE ClockInv'
  OBVIOUS
<1>0. critters \in Critters /\ Typed
  BY DEF ClockInv, Typed
<1>1. critters' \in Critters /\ (~Crossing(critters') => critters'.cells = 0)
      /\ (unattended => critters' = Withdrawn(critters'))
  <2>1. PICK offset \in (IF Jitter THEN 0 .. Every - 1 ELSE {0}) :
          critters' = IF unattended THEN Withdrawn(critters) ELSE Ticked(critters, offset)
    BY DEF Draw
  <2>2. offset \in 0 .. Every - 1
    BY ConstantFacts
  <2>3. CASE unattended
    BY <1>0, <2>1, <2>3, WithdrawnStands
  <2>4. CASE ~unattended
    BY <1>0, <2>1, <2>2, <2>4, TickedStands
  <2> QED BY <2>3, <2>4
<1>2. /\ redraw' = FALSE
      /\ picture' = [picture EXCEPT !.cells = critters'.cells, !.age = 0, !.unread = IF arrived THEN 0 ELSE Never, !.missed = FALSE]
      /\ seen' = [seen EXCEPT !.owed = seen.owed /\ ~Crossing(critters')]
      /\ UNCHANGED <<focused, untouched, unattended, effects, governor, arrived, pending, turning, day>>
  BY DEF Draw, attention
<1>3. Typed'
  <2>1. critters'.cells \in 0 .. LastStep
    BY <1>1 DEF Critters
  <2>2. picture' \in [cells : 0 .. LastStep, unread : {Never} \cup Nat, age : Nat, missed : BOOLEAN, skips : Nat]
    BY <1>0, <1>2, <2>1 DEF Typed
  <2>3. seen' \in [watching : Nat, owed : BOOLEAN]
    BY <1>0, <1>2 DEF Typed
  <2> QED BY <1>0, <1>1, <1>2, <2>2, <2>3 DEF Typed
<1>4. CrittersGone'
  <2>1. unattended' => critters' = Withdrawn(critters')
    BY <1>1, <1>2
  <2> QED BY <1>1, <2>1 DEF CrittersGone, Withdrawn, Crossing
<1>5. TurnTaken' /\ NoFrameAlone'
  BY <1>2 DEF ClockInv, TurnTaken, NoFrameAlone, Unattended
<1>6. picture'.cells = critters'.cells /\ picture'.age = 0 /\ picture'.unread = (IF arrived THEN 0 ELSE Never)
  BY <1>0, <1>2 DEF Typed
<1>7. OutputTracked'
  BY <1>0, <1>2, <1>6, ConstantFacts DEF OutputTracked, Typed
<1>8. AgeTracked' /\ CellsTracked'
  BY <1>0, <1>2, <1>6, ConstantFacts DEF AgeTracked, CellsTracked, Typed, Never
<1> QED BY <1>3, <1>4, <1>5, <1>7, <1>8 DEF ClockInv
\* A frame that was not had is noted, and nothing is claimed until one is.
LEMMA SkipKeeps == ClockInv /\ Skip => ClockInv'
<1> SUFFICES ASSUME ClockInv, Skip PROVE ClockInv'
  OBVIOUS
<1>1. /\ redraw' = FALSE /\ picture' = [picture EXCEPT !.missed = TRUE, !.skips = picture.skips + 1]
      /\ seen' = [seen EXCEPT !.owed = FALSE]
      /\ UNCHANGED <<focused, untouched, unattended, effects, governor, arrived, pending, turning, day, critters>>
  BY DEF Skip, attention
<1>2. /\ picture' \in [cells : 0 .. LastStep, unread : {Never} \cup Nat, age : Nat, missed : BOOLEAN, skips : Nat]
      /\ seen' \in [watching : Nat, owed : BOOLEAN] /\ picture'.missed
  <2>1. /\ picture \in [cells : 0 .. LastStep, unread : {Never} \cup Nat, age : Nat, missed : BOOLEAN, skips : Nat]
        /\ seen \in [watching : Nat, owed : BOOLEAN]
    BY DEF ClockInv, Typed
  <2>2. picture.skips + 1 \in Nat
    BY <2>1
  <2> QED BY <1>1, <2>1, <2>2
<1>3. Typed'
  BY <1>1, <1>2 DEF ClockInv, Typed
<1>4. CrittersGone' /\ TurnTaken' /\ NoFrameAlone'
  BY <1>1 DEF ClockInv, CrittersGone, TurnTaken, NoFrameAlone, Unattended
<1>5. OutputTracked' /\ AgeTracked' /\ CellsTracked'
  BY <1>2 DEF OutputTracked, AgeTracked, CellsTracked
<1> QED BY <1>3, <1>4, <1>5 DEF ClockInv

\* Whoever comes, goes or does something wakes the loop; who comes or does
\* something drops the deadline.
LEMMA AttentionKeeps == ClockInv /\ (Touched \/ FocusGained \/ FocusLost) => ClockInv'
<1> SUFFICES ASSUME ClockInv, Touched \/ FocusGained \/ FocusLost PROVE ClockInv'
  OBVIOUS
<1>1. /\ turning' = TRUE /\ redraw' \in {redraw, TRUE}
      /\ focused' \in {focused, TRUE, FALSE} /\ untouched' \in {untouched, 0}
      /\ effects' \in {effects, Never}
      /\ UNCHANGED <<unattended, governor, arrived, pending, day, critters, picture, seen>>
  BY DEF Touched, FocusGained, FocusLost, DropDeadline, attention
<1>2. Typed'
  <2>1. focused' \in BOOLEAN /\ redraw' \in BOOLEAN /\ turning' \in BOOLEAN
    BY <1>1 DEF ClockInv, Typed
  <2>2. untouched' \in Nat /\ effects' \in {Never} \cup 0 .. Interval
    BY <1>1 DEF ClockInv, Typed
  <2> QED BY <1>1, <2>1, <2>2 DEF ClockInv, Typed
<1>3. CrittersGone' /\ TurnTaken' /\ NoFrameAlone'
  BY <1>1 DEF ClockInv, CrittersGone, TurnTaken, NoFrameAlone
<1>4. redraw => redraw'
  BY <1>1
<1>5. OutputTracked' /\ CellsTracked'
  BY <1>1, <1>4 DEF ClockInv, OutputTracked, CellsTracked
<1>6. AgeTracked'
  <2>1. effects' >= 0 => effects' = effects
    BY <1>1 DEF Never
  <2> QED BY <1>1, <1>4, <2>1 DEF ClockInv, AgeTracked
<1> QED BY <1>2, <1>3, <1>5, <1>6 DEF ClockInv

\* Output that arrives waits for the turn the loop is awake for.
LEMMA OutputKeeps == ClockInv /\ OutputArrives => ClockInv'
<1> SUFFICES ASSUME ClockInv, OutputArrives PROVE ClockInv'
  OBVIOUS
<1>1. /\ turning /\ arrived' = TRUE
      /\ picture' = [picture EXCEPT !.unread = IF picture.unread = Never THEN 0 ELSE picture.unread]
      /\ UNCHANGED <<focused, untouched, unattended, effects, governor, pending, redraw, turning, day, critters, seen>>
  BY DEF OutputArrives, attention
<1>2. /\ picture' \in [cells : 0 .. LastStep, unread : {Never} \cup Nat, age : Nat, missed : BOOLEAN, skips : Nat]
      /\ picture'.cells = picture.cells /\ picture'.age = picture.age /\ picture'.missed = picture.missed
      /\ picture'.unread = IF picture.unread = Never THEN 0 ELSE picture.unread
  BY <1>1 DEF ClockInv, Typed
<1>3. Typed'
  BY <1>1, <1>2 DEF ClockInv, Typed
<1>4. CrittersGone' /\ TurnTaken' /\ NoFrameAlone'
  BY <1>1 DEF ClockInv, CrittersGone, TurnTaken, NoFrameAlone
<1>5. AgeTracked' /\ CellsTracked'
  BY <1>1, <1>2 DEF ClockInv, AgeTracked, CellsTracked
<1>6. OutputTracked'
  <2>1. governor \in 0 .. EFFECTS_BASE_FRAME
    BY DEF ClockInv, Typed
  <2> QED BY <1>1, <1>2, <2>1, ConstantFacts DEF ClockInv, OutputTracked
<1> QED BY <1>3, <1>4, <1>5, <1>6 DEF ClockInv

\* What time does to an age.
LEMMA UpStands ==
  ASSUME NEW n \in Nat, NEW limit \in Nat
  PROVE  Up(n, limit) \in Nat /\ (n < limit => Up(n, limit) = n + 1)
BY DEF Up

\* What time does to a deadline.
LEMMA DownStands ==
  ASSUME NEW n \in Int
  PROVE  Down(n) = IF n > 0 THEN n - 1 ELSE n
BY DEF Down

\* Time goes by for what was asked for and had.
LEMMA SleepKeeps == ClockInv /\ Sleep => ClockInv'
<1> SUFFICES ASSUME ClockInv, Sleep PROVE ClockInv'
  OBVIOUS
<1>0. Typed /\ ~turning /\ ~redraw /\ TurnTaken
  BY DEF ClockInv, Sleep
<1>1. /\ turning' = TRUE
      /\ untouched' = Up(untouched, UNATTENDED_AFTER)
      /\ effects' = Down(effects) /\ governor' = Down(governor)
      /\ UNCHANGED <<focused, unattended, arrived, pending, redraw>>
  BY DEF Sleep
<1>2. day' \in [index : 0 .. PerDay - 1, into : 0 .. Every - 1]
  <2>1. day' = IF day.into + 1 < Every THEN [day EXCEPT !.into = day.into + 1]
               ELSE [index |-> (day.index + 1) % PerDay, into |-> 0]
    BY DEF Sleep
  <2>2. (day.index + 1) % PerDay \in 0 .. PerDay - 1
    BY <1>0, ConstantFacts DEF Typed
  <2> QED BY <1>0, <2>1, <2>2, ConstantFacts DEF Typed
<1>3. /\ critters' \in Critters
      /\ Crossing(critters') <=> Crossing(critters)
      /\ critters'.planned = critters.planned /\ critters'.due = critters.due /\ critters'.cells = critters.cells
      /\ ~Crossing(critters) => critters' = critters
  <2> DEFINE age == Up(critters.active.age, CrossingTime)
  <2>1. critters' = IF Crossing(critters) THEN [critters EXCEPT !.active = [critters.active EXCEPT !.age = age]] ELSE critters
    BY <1>0 DEF Sleep, Typed, Critters
  <2>2. critters \in Critters /\ critters.active.age \in 0 .. CrossingTime
    BY <1>0 DEF Typed, Critters
  <2>3. age \in 0 .. CrossingTime /\ (age = 0 => critters.active.age = 0)
    BY <2>2, ConstantFacts DEF Up
  <2> HIDE DEF age
  <2>4. [critters.active EXCEPT !.age = age] = [step |-> critters.active.step, age |-> age]
    BY <2>2 DEF Critters
  <2>5. critters.active = [step |-> critters.active.step, age |-> critters.active.age]
    BY <2>2 DEF Critters
  <2>6. [critters EXCEPT !.active = [critters.active EXCEPT !.age = age]] \in Critters
    BY <2>2, <2>3, <2>4 DEF Critters
  <2>7. critters.active # NoCrossing => [step |-> critters.active.step, age |-> age] # NoCrossing
    BY <2>3, <2>5 DEF NoCrossing
  <2> QED BY <2>1, <2>2, <2>4, <2>6, <2>7 DEF Crossing, Critters
<1>4. /\ picture' \in [cells : 0 .. LastStep, unread : {Never} \cup Nat, age : Nat, missed : BOOLEAN, skips : Nat]
      /\ picture'.cells = picture.cells /\ picture'.missed = picture.missed
      /\ picture'.age = Up(picture.age, Interval + 2)
      /\ picture'.unread = IF picture.unread = Never THEN Never ELSE Up(picture.unread, EFFECTS_BASE_FRAME + 2)
  <2>1. picture' = [picture EXCEPT !.age = Up(picture.age, Interval + 2),
                               !.unread = IF picture.unread = Never THEN Never ELSE Up(picture.unread, EFFECTS_BASE_FRAME + 2)]
    BY <1>0 DEF Sleep, Typed
  <2>2. picture \in [cells : 0 .. LastStep, unread : {Never} \cup Nat, age : Nat, missed : BOOLEAN, skips : Nat]
    BY <1>0 DEF Typed
  <2>3. Up(picture.age, Interval + 2) \in Nat
    <3>1. picture.age \in Nat /\ Interval + 2 \in Nat
      BY <2>2, ConstantFacts
    <3> QED BY <3>1, UpStands
  <2>4. picture.unread # Never => Up(picture.unread, EFFECTS_BASE_FRAME + 2) \in Nat
    <3>1. picture.unread # Never => picture.unread \in Nat
      BY <2>2
    <3>2. EFFECTS_BASE_FRAME + 2 \in Nat
      BY ConstantFacts
    <3> QED BY <3>1, <3>2, UpStands
  <2> QED BY <2>1, <2>2, <2>3, <2>4
<1>5. seen' \in [watching : Nat, owed : BOOLEAN]
  <2>1. PICK w, o : seen' = [seen EXCEPT !.watching = IF Unattended THEN 0 ELSE Up(seen.watching, Every), !.owed = o]
                    /\ o \in BOOLEAN
    BY <1>0 DEF Sleep, Typed, Unattended, Crossing
  <2>2. Up(seen.watching, Every) \in Nat
    BY <1>0, UpStands, ConstantFacts DEF Typed
  <2> QED BY <1>0, <2>1, <2>2 DEF Typed
<1>6. Typed'
  <2>1. untouched' \in Nat
    BY <1>0, <1>1, UpStands, ConstantFacts DEF Typed
  <2>2. effects' \in {Never} \cup 0 .. Interval /\ governor' \in 0 .. EFFECTS_BASE_FRAME
    <3>1. effects \in {-1} \cup 0 .. Interval /\ governor \in 0 .. EFFECTS_BASE_FRAME
      BY <1>0 DEF Typed, Never
    <3>2. effects \in Int /\ governor \in Int
      BY <3>1, ConstantFacts
    <3>3. effects' = (IF effects > 0 THEN effects - 1 ELSE effects) /\ governor' = IF governor > 0 THEN governor - 1 ELSE governor
      BY <1>1, <3>2, DownStands
    <3> QED BY <3>1, <3>3, ConstantFacts DEF Never
  <2> QED BY <1>0, <1>1, <1>2, <1>3, <1>4, <1>5, <2>1, <2>2 DEF Typed
<1>7. CrittersGone' /\ TurnTaken' /\ NoFrameAlone'
  <2>1. unattended => ~Crossing(critters)
    BY <1>0 DEF ClockInv, CrittersGone, Withdrawn, Crossing, Typed, Critters
  <2>2. CrittersGone'
    BY <1>1, <1>3, <2>1 DEF ClockInv, CrittersGone, Crossing, Withdrawn
  <2>3. NoFrameAlone'
    BY <1>0, <1>1 DEF ClockInv, NoFrameAlone, Down, Never
  <2> QED BY <1>1, <2>2, <2>3 DEF TurnTaken
<1>8. OutputTracked'
  <2>1. ASSUME ~picture.missed, picture.unread # Never
        PROVE  /\ arrived \/ pending
               /\ picture.unread \in Nat /\ governor \in Nat /\ governor > 0
               /\ picture.unread + governor <= EFFECTS_BASE_FRAME
    BY <1>0, <2>1 DEF ClockInv, OutputTracked, TurnTaken, Typed
  <2>2. ASSUME ~picture.missed, picture.unread # Never
        PROVE  picture'.unread = picture.unread + 1 /\ governor' = governor - 1
    <3>1. EFFECTS_BASE_FRAME + 2 \in Nat /\ picture.unread < EFFECTS_BASE_FRAME + 2
      BY <2>1, <2>2, ConstantFacts
    <3>2. Up(picture.unread, EFFECTS_BASE_FRAME + 2) = picture.unread + 1
      BY <2>1, <2>2, <3>1, UpStands
    <3>3. Down(governor) = governor - 1
      BY <2>1, <2>2 DEF Down
    <3> QED BY <1>1, <1>4, <2>2, <3>2, <3>3
  <2> QED BY <1>1, <1>4, <2>1, <2>2, ConstantFacts DEF OutputTracked
<1>9. AgeTracked' /\ CellsTracked'
  <2>1. effects' >= 0 => effects > 0 /\ effects' = effects - 1
    <3>1. effects \in {-1} \cup 0 .. Interval /\ effects # 0
      BY <1>0 DEF Typed, TurnTaken, Never
    <3>2. effects' = IF effects > 0 THEN effects - 1 ELSE effects
      BY <1>1 DEF Down
    <3> QED BY <3>1, <3>2, ConstantFacts
  <2>2. ASSUME ~picture.missed, effects > 0 PROVE picture'.age = picture.age + 1 /\ picture.age + effects <= Interval
    <3>1. picture.age \in Nat /\ effects \in Int /\ picture.age + effects <= Interval
      BY <1>0, <2>2, ConstantFacts DEF ClockInv, AgeTracked, Typed, Never
    <3>2. picture.age < Interval + 2
      BY <2>2, <3>1, ConstantFacts
    <3>3. Interval + 2 \in Nat
      BY ConstantFacts
    <3> QED BY <1>4, <3>1, <3>2, <3>3, UpStands
  <2>3. AgeTracked'
    BY <1>0, <1>4, <2>1, <2>2 DEF AgeTracked, Typed, Never
  <2> QED BY <1>0, <1>3, <1>4, <2>3 DEF ClockInv, CellsTracked
<1> QED BY <1>6, <1>7, <1>8, <1>9 DEF ClockInv

LEMMA ClockInvNext == ClockInv /\ [ClockNext]_clockVars => ClockInv'
<1> SUFFICES ASSUME ClockInv, [ClockNext]_clockVars PROVE ClockInv'
  OBVIOUS
<1>1. CASE ClockNext
  BY <1>1, TickKeeps, DrawKeeps, SkipKeeps, AttentionKeeps, OutputKeeps, SleepKeeps DEF ClockNext
<1>2. CASE UNCHANGED clockVars
  BY <1>2 DEF clockVars, ClockInv, Typed, CrittersGone, TurnTaken, Unattended, NoFrameAlone,
              OutputTracked, AgeTracked, CellsTracked
<1> QED BY <1>1, <1>2

\* Every turn, frame and wake keeps them.
THEOREM ClockInvariant == ClockSpec => []ClockInv
BY ClockInvInit, ClockInvNext, PTL DEF ClockSpec
\* Output waits no longer than a frame, the tube keeps turning while somebody
\* is there, and a picture that is held has no critter in it: at rest, and while
\* no frame was missed, whatever the settings (window/mod.rs, tick; draw_frame).
THEOREM PictureAlwaysKeepsUp == ClockSpec => []PictureKeepsUp
<1>1. ClockInv => PictureKeepsUp
  <2> SUFFICES ASSUME ClockInv PROVE PictureKeepsUp
    OBVIOUS
  <2>1. ClockTypeOK
    BY DEF ClockInv, Typed, Critters, CrittersGone, ClockTypeOK
  <2>2. OutputWaitsAFrame
    <3> SUFFICES ASSUME ~turning, ~redraw, ~picture.missed PROVE picture.unread <= EFFECTS_BASE_FRAME
      BY DEF OutputWaitsAFrame, Resting
    <3>1. CASE picture.unread = Never
      BY <3>1, ConstantFacts DEF Never
    <3>2. CASE picture.unread # Never
      BY <3>2 DEF ClockInv, OutputTracked
    <3> QED BY <3>1, <3>2
  <2>3. TubeKeepsTurning
    <3> SUFFICES ASSUME ~turning, ~redraw, ~Unattended, ~picture.missed PROVE picture.age <= Interval
      BY DEF TubeKeepsTurning, Resting
    <3>1. effects \in 0 .. Interval
      BY DEF ClockInv, Typed, TurnTaken
    <3>2. picture.age + effects <= Interval /\ picture.age \in Nat
      BY <3>1, ConstantFacts DEF ClockInv, AgeTracked, Typed
    <3> QED BY <3>1, <3>2, ConstantFacts
  <2>4. HeldPictureIsTheSessions
    BY DEF HeldPictureIsTheSessions, Resting, ClockInv, CellsTracked, CrittersGone, Withdrawn, Typed, Critters
  <2> QED BY <2>1, <2>2, <2>3, <2>4 DEF PictureKeepsUp
<1> QED BY <1>1, ClockInvariant, PTL

-----------------------------------------------------------------------------
(***************************************************************************)
(* When a critter comes. Its arrival is at the start of its interval, and  *)
(* an interval may be joined for as long as an effects frame takes: JOINED *)
(* is a second (critters/schedule.rs), and the ten frames at 60 Hz that a  *)
(* setting may skip (critters/art.rs) are a sixth of one.                  *)
(***************************************************************************)
Punctual == Jitter = FALSE /\ Interval <= JOINED

\* What a frame does to critters none of which is due or crossing: one comes if
\* the interval is new and may be joined, and none is left due.
LEMMA PunctualFrame ==
  ASSUME NEW c \in Critters, c.due = Never, Typed
  PROVE  /\ Ticked(c, 0).due = Never
         /\ ~Crossing(c) =>
              (Crossing(Ticked(c, 0)) <=> c.planned # day.index /\ day.into < JOINED)
<1> DEFINE new == c.planned # day.index /\ day.into < JOINED
           arriving == [step |-> 0, age |-> 0]
<1>1. day.into \in 0 .. Every - 1 /\ day.index \in 0 .. PerDay - 1
  BY DEF Typed
<1>2. day.into >= 0 /\ 0 # Never /\ arriving # NoCrossing
  BY <1>1, ConstantFacts DEF Never, NoCrossing
<1>3. \A d \in Critters : \A a : [d EXCEPT !.cells = a].due = d.due /\ [d EXCEPT !.cells = a].active = d.active
  BY DEF Critters
<1>4. CASE Crossing(c)
  <2>1. Stepped(c).due = Never
    BY DEF Stepped, Critters
  <2>2. Stepped(c) = [c EXCEPT !.active = Stepped(c).active]
    BY DEF Stepped, Critters
  <2>3. Ticked(c, 0).due = Stepped(c).due
    BY <1>4, <2>2 DEF Ticked, Advance, Critters
  <2> QED BY <1>4, <2>1, <2>3
<1>5. CASE ~Crossing(c)
  <2> DEFINE p == Planned(c, 0)
             n == Arrived(p)
  <2>1. p \in [planned : {Never} \cup 0 .. PerDay - 1, due : {Never, 0},
               active : [step : Int, age : 0 .. CrossingTime], cells : 0 .. LastStep]
    BY <1>1 DEF Planned, Critters
  <2>2. p.active = NoCrossing /\ (p.due # Never <=> new)
    BY <1>1, <1>2, <1>5 DEF Planned, Critters, Crossing
  <2> HIDE DEF p
  <2>3. n.due = Never /\ n.active = IF p.due # Never THEN arriving ELSE NoCrossing
    BY <1>2, <2>1, <2>2 DEF Arrived
  <2>4. n = [planned |-> n.planned, due |-> n.due, active |-> n.active, cells |-> n.cells]
    BY <2>1 DEF Arrived
  <2> HIDE DEF n
  <2>5. Ticked(c, 0) = [n EXCEPT !.cells = Painted(n.active)]
    BY <1>5 DEF Ticked, Advance, n, p
  <2>6. Ticked(c, 0).due = n.due /\ Ticked(c, 0).active = n.active
    BY <2>4, <2>5
  <2> QED BY <1>2, <1>5, <2>2, <2>3, <2>6 DEF Crossing
<1> QED BY <1>4, <1>5

\* A frame of a window somebody attends brings the critter of a new interval.
LEMMA PunctualDraw ==
  ASSUME Punctual, ClockInv, NothingDue, Draw
  PROVE  /\ NothingDue'
         /\ ~Crossing(critters) =>
              (Crossing(critters') <=> ~unattended /\ critters.planned # day.index /\ day.into < JOINED)
<1>1. critters' = IF unattended THEN Withdrawn(critters) ELSE Ticked(critters, 0)
  BY DEF Draw, Punctual
<1>2. critters \in Critters /\ critters.due = Never /\ Typed
  BY DEF ClockInv, Typed, NothingDue
<1>3. CASE unattended
  BY <1>1, <1>2, <1>3, WithdrawnStands DEF NothingDue
<1>4. CASE ~unattended
  BY <1>1, <1>2, <1>4, PunctualFrame DEF NothingDue
<1> QED BY <1>3, <1>4

LEMMA KeepsTimeInit == ClockInit => KeepsTime
BY DEF ClockInit, KeepsTime, OwedTracked, NothingDue

\* An interval that is owed its critter keeps its frame in time.
LEMMA KeepsTimeNext ==
  ASSUME Punctual
  PROVE  ClockInv /\ KeepsTime /\ [ClockNext]_clockVars => KeepsTime'
<1> SUFFICES ASSUME ClockInv, KeepsTime, [ClockNext]_clockVars PROVE KeepsTime'
  OBVIOUS
<1>0. Typed /\ critters \in Critters /\ day.into \in 0 .. Every - 1 /\ effects \in {-1} \cup 0 .. Interval
  BY DEF ClockInv, Typed, Never
<1>1. CASE Tick
  <2>1. critters' = IF Unattended THEN Withdrawn(critters) ELSE critters
    BY <1>1 DEF Tick
  <2>2. critters'.due = critters.due /\ critters'.planned = critters.planned
        /\ (~Crossing(critters) => ~Crossing(critters'))
    BY <1>0, <2>1, WithdrawnStands
  <2>3. ~redraw' /\ effects' >= 0 => ~redraw /\ effects' = effects
    <3>1. ~redraw' => ~redraw /\ ~EffectsDue
      BY <1>1 DEF Tick
    <3>2. effects' = NextEffects
      BY <1>1 DEF Tick
    <3> QED BY <3>1, <3>2 DEF NextEffects, Never
  <2>4. UNCHANGED <<day, seen>>
    BY <1>1 DEF Tick
  <2> QED BY <2>2, <2>3, <2>4 DEF KeepsTime, OwedTracked, NothingDue
<1>2. CASE Draw
  <2>1. /\ seen'.owed = (seen.owed /\ ~Crossing(critters'))
        /\ UNCHANGED <<day, effects, unattended>>
    BY <1>0, <1>2 DEF Draw, attention, Typed
  <2>2. NothingDue'
    BY <1>2, PunctualDraw DEF KeepsTime
  <2>3. ASSUME seen'.owed PROVE unattended /\ ~Crossing(critters') /\ critters.planned # day.index /\ day.into < Interval
    <3>1. seen.owed /\ ~Crossing(critters')
      BY <2>1, <2>3
    <3>2. ~Crossing(critters) /\ critters.planned # day.index /\ day.into < Interval
      BY <3>1 DEF KeepsTime, OwedTracked
    <3>3. day.into < JOINED
      BY <1>0, <3>2, ConstantFacts DEF Punctual
    <3> QED BY <1>2, <3>1, <3>2, <3>3, PunctualDraw DEF KeepsTime
  <2>4. unattended => critters' = Withdrawn(critters) /\ effects = Never
    BY <1>2 DEF Draw, ClockInv, NoFrameAlone
  <2>5. unattended => critters'.planned = critters.planned
    BY <1>0, <2>4, WithdrawnStands
  <2>6. OwedTracked'
    BY <2>1, <2>3, <2>4, <2>5 DEF OwedTracked, Never
  <2> QED BY <2>2, <2>6 DEF KeepsTime
<1>3. CASE Skip
  <2>1. seen'.owed = FALSE /\ critters' = critters
    BY <1>0, <1>3 DEF Skip, Typed
  <2> QED BY <2>1 DEF KeepsTime, OwedTracked, NothingDue
<1>4. CASE Touched \/ FocusGained \/ FocusLost \/ OutputArrives
  <2>1. /\ effects' \in {effects, Never} /\ redraw' \in {redraw, TRUE}
        /\ UNCHANGED <<day, critters, seen>>
    BY <1>4 DEF Touched, FocusGained, FocusLost, OutputArrives, DropDeadline, attention
  <2>2. effects' >= 0 => effects' = effects
    BY <2>1 DEF Never
  <2>3. redraw => redraw'
    BY <2>1
  <2> QED BY <2>1, <2>2, <2>3 DEF KeepsTime, OwedTracked, NothingDue
<1>5. CASE Sleep
  <2>1. critters' = IF Crossing(critters) THEN [critters EXCEPT !.active.age = Up(critters.active.age, CrossingTime)] ELSE critters
    BY <1>0, <1>5 DEF Sleep, Typed, Critters
  <2>2. /\ critters'.due = critters.due /\ critters'.planned = critters.planned
        /\ ~Crossing(critters) => critters' = critters
    BY <1>0, <2>1 DEF Critters
  <2>3. /\ day' = IF day.into + 1 < Every THEN [day EXCEPT !.into = day.into + 1]
                  ELSE [index |-> (day.index + 1) % PerDay, into |-> 0]
        /\ effects' = Down(effects) /\ ~redraw /\ ~turning
        /\ seen'.owed = IF day'.into = 0 THEN ~Unattended /\ ~Crossing(critters) /\ critters.planned # day'.index
                        ELSE seen.owed /\ ~Unattended
    BY <1>0, <1>5 DEF Sleep, Typed
  <2>4. day'.into = 0 \/ (day'.into = day.into + 1 /\ day'.index = day.index)
    BY <1>0, <2>3 DEF Typed
  <2>5. ASSUME seen'.owed PROVE effects \in 1 .. Interval /\ effects' = effects - 1
    <3>1. ~Unattended
      BY <2>3, <2>5
    <3>2. effects # Never /\ effects # 0
      BY <2>3, <3>1 DEF ClockInv, TurnTaken
    <3> QED BY <1>0, <2>3, <3>2, ConstantFacts DEF Down, Never
  <2>6. ASSUME seen'.owed, day'.into = 0
        PROVE  ~Crossing(critters) /\ critters.planned # day'.index /\ day'.into + effects' < Interval /\ day'.into < Interval
    <3>1. ~Crossing(critters) /\ critters.planned # day'.index
      BY <2>3, <2>6
    <3>2. effects \in 1 .. Interval /\ effects' = effects - 1
      BY <2>5, <2>6
    <3> QED BY <2>6, <3>1, <3>2, ConstantFacts
  <2>7. ASSUME seen'.owed, day'.into # 0
        PROVE  ~Crossing(critters) /\ critters.planned # day'.index /\ day'.into + effects' < Interval /\ day'.into < Interval
    <3>1. seen.owed /\ day'.into = day.into + 1 /\ day'.index = day.index
      BY <2>3, <2>4, <2>7
    <3>2. effects \in 1 .. Interval /\ effects' = effects - 1
      BY <2>5, <2>7
    <3>3. ~Crossing(critters) /\ critters.planned # day.index /\ day.into + effects < Interval
      BY <2>3, <3>1, <3>2, ConstantFacts DEF KeepsTime, OwedTracked
    <3> QED BY <1>0, <3>1, <3>2, <3>3, ConstantFacts
  <2>8. OwedTracked'
    BY <2>2, <2>6, <2>7 DEF OwedTracked
  <2> QED BY <2>2, <2>8 DEF KeepsTime, NothingDue
<1>6. CASE UNCHANGED clockVars
  BY <1>6 DEF clockVars, KeepsTime, OwedTracked, NothingDue
<1> QED BY <1>1, <1>2, <1>3, <1>4, <1>5, <1>6 DEF ClockNext

\* A critter never comes late, and an interval watched from its start brings
\* its own: where arrivals are at the start of their interval, and an effects
\* frame is no longer than an interval may be joined (schedule.rs, advance).
THEOREM CrittersAlwaysKeepTime ==
  ASSUME Punctual
  PROVE  ClockSpec => CrittersKeepTime
<1>1. ClockSpec => []KeepsTime
  <2>1. ClockInv /\ KeepsTime /\ [ClockNext]_clockVars => KeepsTime'
    BY KeepsTimeNext
  <2> QED BY <2>1, KeepsTimeInit, ClockInvariant, PTL DEF ClockSpec
<1>2. ClockInv /\ KeepsTime => WatchedIntervalBrings
  <2> SUFFICES ASSUME ClockInv, KeepsTime, day.into >= JOINED, seen.owed PROVE FALSE
    BY DEF WatchedIntervalBrings, ClockInv, Typed
  <2>1. day.into < Interval /\ day.into \in 0 .. Every - 1
    BY DEF KeepsTime, OwedTracked, ClockInv, Typed
  <2> QED BY <2>1, ConstantFacts DEF Punctual
<1>3. ClockInv /\ KeepsTime /\ [ClockNext]_clockVars
        => [~Crossing(critters) /\ Crossing(critters)' => day.into - DueAt < seen.watching + JOINED]_clockVars
  <2> SUFFICES ASSUME ClockInv, KeepsTime, ClockNext, ~Crossing(critters), Crossing(critters')
               PROVE  day.into - DueAt < seen.watching + JOINED
    BY DEF Crossing
  <2>0. critters \in Critters /\ seen.watching \in Nat /\ day.into \in 0 .. Every - 1
    BY DEF ClockInv, Typed
  <2>1. CASE Draw
    <3>1. day.into < JOINED
      BY <2>1, PunctualDraw DEF KeepsTime
    <3>2. DueAt = 0
      BY DEF DueAt, KeepsTime, NothingDue
    <3> QED BY <2>0, <3>1, <3>2, ConstantFacts
  <2>2. CASE Tick
    BY <2>0, <2>2, WithdrawnStands DEF Tick
  <2>3. CASE Skip \/ Touched \/ FocusGained \/ FocusLost \/ OutputArrives \/ Sleep
    BY <2>3 DEF Skip, Touched, FocusGained, FocusLost, OutputArrives, Sleep
  <2> QED BY <2>1, <2>2, <2>3 DEF ClockNext
<1> QED BY <1>1, <1>2, <1>3, ClockInvariant, PTL DEF ClockSpec, CrittersKeepTime, MissedIsMissed

-----------------------------------------------------------------------------
(***************************************************************************)
(* Rows and parts of rows.                                                 *)
(***************************************************************************)
LEMMA ViewNumbers ==
  Screen \in Nat \ {0} /\ Scrollback \in Nat /\ Unit \in Nat \ {0} /\ WHEEL_LINES \in Nat \ {0} /\ COLUMNS \in Nat \ {0}
BY ViewportAssumption, KonsoleAssumption

LEMMA RowType == Row(0) = 0 /\ \A a \in Int : Row(a) \in Int
BY ViewNumbers DEF Row

LEMMA RowOrder ==
  \A a, b \in Int : (a < b => Row(a) + Unit <= Row(b)) /\ (a <= b => Row(a) <= Row(b))
BY ViewNumbers DEF Row

LEMMA RowSum == \A a, b \in Int : Row(a + b) = Row(a) + Row(b) /\ Row(a - b) = Row(a) - Row(b)
BY ViewNumbers DEF Row

\* The rows that cover a position, and none fewer.
LEMMA CeilFacts ==
  ASSUME NEW p \in Int
  PROVE  Ceil(p) \in Int /\ Row(Ceil(p)) - Unit < p /\ p <= Row(Ceil(p))
<1>1. ASSUME NEW q \in Int PROVE q \div Unit \in Int /\ (q \div Unit) * Unit <= q /\ q < (q \div Unit) * Unit + Unit
  BY ViewNumbers
<1> QED BY <1>1, ViewNumbers DEF Ceil, Row

LEMMA CeilIs ==
  ASSUME NEW p \in Int, NEW k \in Int, Row(k) - Unit < p, p <= Row(k)
  PROVE  Ceil(p) = k
<1>1. Ceil(p) \in Int /\ Row(Ceil(p)) - Unit < p /\ p <= Row(Ceil(p))
  BY CeilFacts
<1>2. /\ k < Ceil(p) => Row(k) + Unit <= Row(Ceil(p))
      /\ Ceil(p) < k => Row(Ceil(p)) + Unit <= Row(k)
      /\ Row(k) \in Int /\ Row(Ceil(p)) \in Int
  BY <1>1, RowType, RowOrder
<1> QED BY <1>1, <1>2, ViewNumbers

LEMMA CeilOfRow == ASSUME NEW k \in Int PROVE Ceil(Row(k)) = k
BY CeilIs, RowType, RowOrder, ViewNumbers

LEMMA CeilWithin ==
  ASSUME NEW h \in Nat, NEW p \in 0 .. Row(h)
  PROVE  Ceil(p) \in 0 .. h
<1>1. Row(h) \in Int
  BY RowType, RowOrder
<1>2. p \in Int /\ Ceil(p) \in Int /\ Row(Ceil(p)) - Unit < p /\ p <= Row(Ceil(p))
  BY <1>1, CeilFacts
<1>3. Ceil(p) < 0 => Row(Ceil(p)) + Unit <= Row(0)
  BY <1>2, RowType, RowOrder
<1>4. h < Ceil(p) => Row(h) + Unit <= Row(Ceil(p))
  BY <1>2, RowType, RowOrder
<1>5. Row(Ceil(p)) \in Int /\ Row(0) = 0
  BY <1>2, RowType, RowOrder
<1> QED BY <1>1, <1>2, <1>3, <1>4, <1>5, ViewNumbers

LEMMA RoundType == ASSUME NEW p \in Int PROVE Round(p) \in Int
<1>1. 2 * Unit \in Nat \ {0} /\ 2 * p + Unit \in Int
  BY ViewNumbers
<1>2. \A a \in Int, b \in Nat \ {0} : a \div b \in Int
  OBVIOUS
<1> QED BY <1>1, <1>2 DEF Round

\* The nearest row is the one above or the one that covers.
LEMMA RoundFacts ==
  ASSUME NEW p \in Int
  PROVE  Round(p) \in Int /\ Round(p) \in {Ceil(p) - 1, Ceil(p)}
<1> DEFINE D == 2 * Unit
           q == 2 * p + Unit
           R == Round(p)
           C == Ceil(p)
<1>1. D \in Nat \ {0} /\ q \in Int /\ Unit \in Nat \ {0}
  BY ViewNumbers
<1>2. R \in Int /\ R * D <= q /\ q < R * D + D
  <2> HIDE DEF D, q
  <2>1. q \div D \in Int /\ (q \div D) * D <= q /\ q < (q \div D) * D + D
    BY <1>1
  <2> QED BY <2>1 DEF Round, D, q
<1> HIDE DEF R
<1>3. R * D = 2 * Row(R)
  BY <1>1, <1>2 DEF Row
<1>4. C \in Int /\ Row(C) - Unit < p /\ p <= Row(C)
  BY CeilFacts
<1> HIDE DEF C
<1>5. Row(R) \in Int /\ Row(R + 1) = Row(R) + Unit /\ Row(C) \in Int
  <2>1. R + 1 \in Int
    BY <1>2
  <2> QED BY <1>1, <1>2, <1>4, RowType DEF Row
<1>6. /\ C < R => Row(C) + Unit <= Row(R)
      /\ R + 1 < C => Row(R + 1) + Unit <= Row(C)
  BY <1>2, <1>4, RowOrder
<1>7. 2 * Row(R) <= 2 * p + Unit /\ 2 * p + Unit < 2 * Row(R) + 2 * Unit
  BY <1>2, <1>3
<1>8. ~(C < R) /\ ~(R + 1 < C)
  BY <1>1, <1>4, <1>5, <1>6, <1>7
<1> QED BY <1>2, <1>4, <1>8 DEF R, C

LEMMA MinMaxOfTwo ==
  ASSUME NEW a \in Int, NEW b \in Int
  PROVE  /\ Min({a, b}) = (IF a <= b THEN a ELSE b)
         /\ Max({a, b}) = (IF a >= b THEN a ELSE b)
<1>1. \E x \in {a, b} : \A y \in {a, b} : x <= y
  OBVIOUS
<1>2. \E x \in {a, b} : \A y \in {a, b} : x >= y
  OBVIOUS
<1>3. Min({a, b}) \in {a, b} /\ \A y \in {a, b} : Min({a, b}) <= y
  BY <1>1 DEF Min
<1>4. Max({a, b}) \in {a, b} /\ \A y \in {a, b} : Max({a, b}) >= y
  BY <1>2 DEF Max
<1> QED BY <1>3, <1>4

LEMMA AtLeastZero == ASSUME NEW q \in Int PROVE Max({0, q}) = IF 0 >= q THEN 0 ELSE q
<1>1. 0 \in Int
  OBVIOUS
<1> QED BY <1>1, MinMaxOfTwo

-----------------------------------------------------------------------------
(***************************************************************************)
(* The view: what each operator of ScrollPosition leaves.                  *)
(***************************************************************************)
Glides == {NoGlide} \cup (Int \X Int)

Screens == [evicted : Nat, history : 0 .. Scrollback, offset : Nat, pos : Nat, glide : Glides]

\* A glide is bound for a row there is.
Bounded(G) == G.glide # NoGlide => \E k \in 0 .. G.history : G.glide[2] = Row(k)

\* The view is within the lines there are, and the position not ahead of it:
\* lines printed since it was read carried the view up.
Standing(G) ==
  G \in Screens /\ G.offset <= G.history /\ G.pos <= Row(G.history) /\ Ceil(G.pos) <= G.offset /\ Bounded(G)

\* The position has been read.
Level(G) == Standing(G) /\ G.offset = Ceil(G.pos)

\* H is G with the view elsewhere.
SameText(G, H) == H.history = G.history /\ H.evicted = G.evicted

LEMMA StandingFacts ==
  ASSUME NEW G, Standing(G)
  PROVE  /\ G.evicted \in Nat /\ G.history \in Nat /\ G.history <= Scrollback
         /\ G.offset \in 0 .. G.history /\ G.pos \in 0 .. Row(G.history) /\ Row(G.history) \in Int
         /\ Ceil(G.pos) \in 0 .. G.history /\ Ceil(G.pos) <= G.offset
<1>1. /\ G.evicted \in Nat /\ G.history \in 0 .. Scrollback /\ G.offset \in Nat /\ G.pos \in Nat
      /\ G.offset <= G.history /\ G.pos <= Row(G.history) /\ Ceil(G.pos) <= G.offset
  BY DEF Standing, Screens
<1>2. G.history \in Nat /\ Row(G.history) \in Int
  BY <1>1, RowType, RowOrder, ViewNumbers
<1> QED BY <1>1, <1>2, CeilWithin, ViewNumbers

LEMMA ShiftFacts ==
  ASSUME NEW G, G.pos \in Nat
  PROVE  Shift(G) \in 0 .. Unit - 1 /\ Shift(G) = Row(Ceil(G.pos)) - G.pos /\ Row(Ceil(G.pos)) \in Int
<1>1. Ceil(G.pos) \in Int /\ Row(Ceil(G.pos)) - Unit < G.pos /\ G.pos <= Row(Ceil(G.pos))
  BY CeilFacts
<1>2. Row(Ceil(G.pos)) \in Int
  BY <1>1, RowType, RowOrder
<1> QED BY <1>1, <1>2, ViewNumbers DEF Shift

LEMMA WithinFacts ==
  ASSUME NEW G, G.history \in Nat, NEW p \in Int
  PROVE  /\ Within(G, p) = (IF p <= 0 THEN 0 ELSE IF p >= Row(G.history) THEN Row(G.history) ELSE p)
         /\ Within(G, p) \in 0 .. Row(G.history) /\ Within(G, p) \in Nat
<1>1. Row(G.history) \in Int /\ Row(0) <= Row(G.history) /\ Row(0) = 0
  BY RowType, RowOrder
<1>2. Min({p, Row(G.history)}) = IF p <= Row(G.history) THEN p ELSE Row(G.history)
  BY <1>1, MinMaxOfTwo
<1>3. ASSUME NEW q \in Int PROVE Max({0, q}) = IF 0 >= q THEN 0 ELSE q
  BY AtLeastZero
<1>4. Within(G, p) = IF p <= 0 THEN 0 ELSE IF p >= Row(G.history) THEN Row(G.history) ELSE p
  BY <1>1, <1>2, <1>3 DEF Within
<1> QED BY <1>1, <1>4

\* The nearest row there is to a row.
Nearest(h, k) == IF k <= 0 THEN 0 ELSE IF k >= h THEN h ELSE k

LEMMA WithinRows ==
  ASSUME NEW G, G.history \in Nat, NEW k \in Int
  PROVE  Nearest(G.history, k) \in 0 .. G.history /\ Within(G, Row(k)) = Row(Nearest(G.history, k))
<1>1. Row(k) \in Int /\ Row(0) = 0 /\ Row(G.history) \in Int
  BY RowType, RowOrder
<1>2. /\ k <= 0 => Row(k) <= Row(0)
      /\ k > 0 => Row(0) + Unit <= Row(k)
      /\ k >= G.history => Row(k) >= Row(G.history)
      /\ k < G.history => Row(k) + Unit <= Row(G.history)
  BY RowType, RowOrder
<1>3. Within(G, Row(k)) = IF Row(k) <= 0 THEN 0 ELSE IF Row(k) >= Row(G.history) THEN Row(G.history) ELSE Row(k)
  BY <1>1, WithinFacts
<1> QED BY <1>1, <1>2, <1>3, ViewNumbers DEF Nearest

LEMMA SettleFacts ==
  ASSUME NEW G, G \in Screens, Bounded(G), NEW p \in Int
  PROVE  /\ Level(Settle(G, p)) /\ SameText(G, Settle(G, p))
         /\ Settle(G, p).pos = Within(G, p) /\ Settle(G, p).glide = G.glide
<1>1. G.history \in Nat /\ G.history \in 0 .. Scrollback
  BY ViewNumbers DEF Screens
<1>2. Within(G, p) \in 0 .. Row(G.history) /\ Within(G, p) \in Nat
  BY <1>1, WithinFacts
<1>3. Ceil(Within(G, p)) \in 0 .. G.history
  BY <1>1, <1>2, CeilWithin
<1> DEFINE H == [G EXCEPT !.pos = Within(G, p), !.offset = Ceil(Within(G, p))]
<1>4. H \in Screens /\ H.history = G.history /\ H.evicted = G.evicted /\ H.glide = G.glide
      /\ H.pos = Within(G, p) /\ H.offset = Ceil(Within(G, p))
  <2>1. Ceil(Within(G, p)) \in Nat
    BY <1>1, <1>3
  <2> QED BY <1>2, <2>1 DEF Screens
<1>5. Settle(G, p) = H
  BY DEF Settle
<1>6. Row(G.history) \in Int
  BY <1>1, RowType, RowOrder
<1> HIDE DEF H
<1> QED BY <1>1, <1>2, <1>3, <1>4, <1>5, <1>6 DEF Level, Standing, Bounded, SameText

LEMMA CancelFacts ==
  ASSUME NEW G, G \in Screens
  PROVE  /\ CancelGlide(G) \in Screens /\ Bounded(CancelGlide(G)) /\ SameText(G, CancelGlide(G))
         /\ CancelGlide(G).glide = NoGlide /\ CancelGlide(G).pos = G.pos /\ CancelGlide(G).offset = G.offset
BY DEF CancelGlide, Screens, Glides, Bounded, SameText

\* What settles without a glide.
LEMMA Settled ==
  ASSUME NEW G, G \in Screens, NEW p \in Int
  PROVE  /\ Level(Settle(CancelGlide(G), p)) /\ SameText(G, Settle(CancelGlide(G), p))
         /\ Settle(CancelGlide(G), p).pos = Within(G, p) /\ Settle(CancelGlide(G), p).glide = NoGlide
<1>1. /\ CancelGlide(G) \in Screens /\ Bounded(CancelGlide(G)) /\ SameText(G, CancelGlide(G))
      /\ CancelGlide(G).glide = NoGlide
  BY CancelFacts
<1>2. Within(CancelGlide(G), p) = Within(G, p)
  BY <1>1 DEF Within, SameText
<1>3. /\ Level(Settle(CancelGlide(G), p)) /\ SameText(CancelGlide(G), Settle(CancelGlide(G), p))
      /\ Settle(CancelGlide(G), p).pos = Within(CancelGlide(G), p) /\ Settle(CancelGlide(G), p).glide = NoGlide
  BY <1>1, SettleFacts
<1> QED BY <1>1, <1>2, <1>3 DEF SameText

LEMMA ScrollFacts ==
  ASSUME NEW G, Standing(G), NEW delta \in Int
  PROVE  /\ Level(Scroll(G, delta)) /\ SameText(G, Scroll(G, delta))
         /\ Scroll(G, delta).offset = Nearest(G.history, Round(G.pos) + delta)
<1>1. G \in Screens /\ G.pos \in Int /\ G.history \in Nat
  BY StandingFacts DEF Standing, Screens
<1>2. Round(G.pos) + delta \in Int /\ Row(Round(G.pos) + delta) \in Int
  BY <1>1, RoundType, RowType, RowOrder
<1>3. /\ Level(Scroll(G, delta)) /\ SameText(G, Scroll(G, delta))
      /\ Scroll(G, delta).pos = Within(G, Row(Round(G.pos) + delta))
  BY <1>1, <1>2, Settled DEF Scroll
<1>4. /\ Nearest(G.history, Round(G.pos) + delta) \in Int
      /\ Scroll(G, delta).pos = Row(Nearest(G.history, Round(G.pos) + delta))
  BY <1>1, <1>2, <1>3, WithinRows
<1>5. Ceil(Scroll(G, delta).pos) = Nearest(G.history, Round(G.pos) + delta)
  BY <1>4, CeilOfRow
<1> QED BY <1>3, <1>5 DEF Level

LEMMA PixelsFacts ==
  ASSUME NEW G, Standing(G), NEW parts \in Int
  PROVE  Level(ScrollPixels(G, parts)) /\ SameText(G, ScrollPixels(G, parts))
<1>1. G \in Screens /\ G.pos + parts \in Int
  BY DEF Standing, Screens
<1> QED BY <1>1, Settled DEF ScrollPixels

LEMMA AppliedFacts ==
  ASSUME NEW G, Standing(G), NEW offset \in Int
  PROVE  Level(Applied(G, offset)) /\ SameText(G, Applied(G, offset))
<1>1. G \in Screens /\ G.history \in 0 .. Scrollback /\ G.history \in Nat
  BY StandingFacts DEF Standing, Screens
<1> DEFINE o == Max({0, Min({offset, G.history})})
<1>2. o \in 0 .. G.history
  <2>1. Min({offset, G.history}) \in Int /\ Min({offset, G.history}) <= G.history
    <3>1. Min({offset, G.history}) = IF offset <= G.history THEN offset ELSE G.history
      BY <1>1, MinMaxOfTwo
    <3> QED BY <1>1, <3>1
  <2>2. ASSUME NEW q \in Int PROVE Max({0, q}) = IF 0 >= q THEN 0 ELSE q
    BY AtLeastZero
  <2>3. o = IF 0 >= Min({offset, G.history}) THEN 0 ELSE Min({offset, G.history})
    BY <2>1, <2>2
  <2> HIDE DEF o
  <2> QED BY <1>1, <2>1, <2>3
<1> HIDE DEF o
<1>3. Row(o) \in Int /\ Row(0) <= Row(o) /\ Row(0) = 0 /\ Row(o) <= Row(G.history) /\ Ceil(Row(o)) = o
  BY <1>1, <1>2, RowType, RowOrder, CeilOfRow
<1>4. /\ CancelGlide(G) \in Screens /\ SameText(G, CancelGlide(G)) /\ CancelGlide(G).glide = NoGlide
  BY <1>1, CancelFacts
<1> DEFINE H == [CancelGlide(G) EXCEPT !.offset = o, !.pos = Row(o)]
<1>5. /\ H \in Screens /\ H.offset = o /\ H.pos = Row(o) /\ H.glide = NoGlide
      /\ H.history = G.history /\ H.evicted = G.evicted
  <2>1. o \in Nat /\ Row(o) \in Nat
    BY <1>2, <1>3
  <2> QED BY <1>4, <2>1 DEF SameText, Screens
<1>6. Applied(G, offset) = H
  BY DEF Applied, o
<1> HIDE DEF H
<1> QED BY <1>2, <1>3, <1>5, <1>6 DEF Level, Standing, Bounded, SameText

LEMMA WheelFacts ==
  ASSUME NEW G, Standing(G), NEW notches \in Int
  PROVE  Standing(ScrollWheel(G, notches)) /\ SameText(G, ScrollWheel(G, notches))
<1> DEFINE going == IF G.glide = NoGlide THEN Row(Round(G.pos)) ELSE G.glide[2]
           to    == Within(G, going + Row(notches * WHEEL_LINES))
           glide == IF to = G.pos THEN NoGlide ELSE <<G.pos, to>>
           H     == [G EXCEPT !.glide = glide]
<1>1. G \in Screens /\ G.history \in Nat /\ G.pos \in Nat
  BY StandingFacts DEF Standing, Screens
<1>2. PICK k \in Int : going = Row(k)
  <2>1. CASE G.glide = NoGlide
    BY <1>1, <2>1, RoundType
  <2>2. CASE G.glide # NoGlide
    <3>1. PICK k \in 0 .. G.history : G.glide[2] = Row(k)
      BY <2>2 DEF Standing, Bounded
    <3> QED BY <2>2, <3>1
  <2> QED BY <2>1, <2>2
<1>3. PICK j \in 0 .. G.history : to = Row(j)
  <2>1. notches * WHEEL_LINES \in Int
    BY ViewNumbers
  <2>2. k + notches * WHEEL_LINES \in Int
    BY <2>1
  <2>3. to = Within(G, Row(k + notches * WHEEL_LINES))
    BY <1>2, <2>1, RowSum
  <2> HIDE DEF to
  <2> QED BY <1>1, <2>2, <2>3, WithinRows
<1> HIDE DEF to
<1>4. to \in Int
  BY <1>3, RowType
<1>5. glide \in Glides /\ (glide # NoGlide => glide[2] = Row(j))
  BY <1>1, <1>3, <1>4 DEF Glides
<1>6. ScrollWheel(G, notches) = H
  BY DEF ScrollWheel, to
<1> HIDE DEF glide
<1>7. /\ H \in Screens /\ H.history = G.history /\ H.evicted = G.evicted /\ H.pos = G.pos /\ H.offset = G.offset
      /\ H.glide = glide
  BY <1>1, <1>5 DEF Screens
<1>8. \E i \in 0 .. H.history : glide # NoGlide => glide[2] = Row(i)
  BY <1>3, <1>5, <1>7
<1> HIDE DEF H
<1> QED BY <1>6, <1>7, <1>8 DEF Standing, Bounded, SameText

\* A line is printed: it goes into history, and the view with what it shows.
LEMMA FedFacts ==
  ASSUME NEW G, Standing(G)
  PROVE  /\ Standing(Fed(G)) /\ Fed(G).pos = G.pos /\ Fed(G).glide = G.glide
         /\ Fed(G).history = (IF G.history < Scrollback THEN G.history + 1 ELSE G.history)
         /\ Fed(G).evicted = (IF G.history < Scrollback THEN G.evicted ELSE G.evicted + 1)
         /\ Fed(G).offset = (IF G.offset = 0 THEN 0 ELSE IF G.offset < Fed(G).history THEN G.offset + 1 ELSE G.offset)
<1>1. /\ G \in Screens /\ G.history \in Nat /\ G.history <= Scrollback /\ G.offset \in 0 .. G.history /\ G.pos \in Nat
      /\ G.evicted \in Nat /\ G.pos <= Row(G.history) /\ Row(G.history) \in Int
      /\ Ceil(G.pos) \in 0 .. G.history /\ Ceil(G.pos) <= G.offset
  BY StandingFacts DEF Standing, Screens
<1> DEFINE h == Min({G.history + 1, Scrollback})
           o == IF G.offset = 0 THEN 0 ELSE Min({G.offset + 1, h})
           H == [G EXCEPT !.history = h, !.evicted = @ + G.history + 1 - h, !.offset = o]
<1>2. h = IF G.history < Scrollback THEN G.history + 1 ELSE G.history
  BY <1>1, ViewNumbers, MinMaxOfTwo
<1> HIDE DEF h
<1>3. o = IF G.offset = 0 THEN 0 ELSE IF G.offset < h THEN G.offset + 1 ELSE G.offset
  <2>1. h \in Int /\ G.offset + 1 \in Int /\ G.offset <= h
    BY <1>1, <1>2
  <2>2. Min({G.offset + 1, h}) = IF G.offset + 1 <= h THEN G.offset + 1 ELSE h
    BY <2>1, MinMaxOfTwo
  <2> QED BY <1>1, <2>1, <2>2
<1> HIDE DEF o
<1>4. /\ H \in Screens /\ H.history = h /\ H.evicted = G.evicted + G.history + 1 - h /\ H.offset = o
      /\ H.pos = G.pos /\ H.glide = G.glide
  <2>1. h \in 0 .. Scrollback /\ o \in Nat /\ G.evicted + G.history + 1 - h \in Nat
    BY <1>1, <1>2, <1>3, ViewNumbers
  <2> QED BY <1>1, <2>1 DEF Screens
<1>5. Fed(G) = H
  BY DEF Fed, h, o
<1> HIDE DEF H
<1>6. Row(G.history) <= Row(h)
  BY <1>1, <1>2, RowOrder
<1>7. Row(h) \in Int
  BY <1>1, <1>2, RowType
<1>8. Bounded(H)
  <2>1. \A k \in 0 .. G.history : k \in 0 .. h
    BY <1>1, <1>2
  <2> QED BY <1>4, <2>1 DEF Standing, Bounded
<1>9. H.offset <= H.history /\ Ceil(H.pos) <= H.offset
  BY <1>1, <1>2, <1>3, <1>4
<1>10. H.pos <= Row(H.history)
  BY <1>1, <1>4, <1>6, <1>7
<1> QED BY <1>1, <1>2, <1>3, <1>4, <1>5, <1>8, <1>9, <1>10 DEF Standing

\* The position is read: the view stands where the terminal has it, with the
\* same part of a row cut off, and a glide goes along.
LEMMA SyncViewFacts ==
  ASSUME NEW G, G \in Screens, G.offset <= G.history, Bounded(G)
  PROVE  LET H == SyncView(G) IN
         /\ Level(H) /\ SameText(G, H) /\ H.offset = G.offset
         /\ G.offset > 0 => Shift(H) = Shift(G)
         /\ G.offset = 0 => H.pos = 0
         /\ H.glide = NoGlide <=> G.glide = NoGlide
         /\ \A k \in 0 .. G.history :
              G.glide # NoGlide /\ G.glide[2] = Row(k)
                => H.glide[2] = Row(Nearest(G.history, k + G.offset - Ceil(G.pos)))
<1> DEFINE H == SyncView(G)
           c == Ceil(G.pos)
           o == G.offset
<1>1. /\ G.history \in Nat /\ G.history \in 0 .. Scrollback /\ o \in 0 .. G.history /\ G.pos \in Nat
      /\ c \in Int /\ Row(c) \in Int /\ Row(o) \in Int /\ Row(G.history) \in Int /\ Row(o) <= Row(G.history)
  <2>1. G.history \in Nat /\ G.history \in 0 .. Scrollback /\ o \in 0 .. G.history /\ G.pos \in Nat
    BY ViewNumbers DEF Screens
  <2>2. c \in Int
    BY <2>1, CeilFacts
  <2> QED BY <2>1, <2>2, RowType, RowOrder
<1>2. Row(c) - Unit < G.pos /\ G.pos <= Row(c)
  BY <1>1, CeilFacts
<1>3. Row(o - c) = 0 <=> o = c
  <2>1. o < c => Row(o - c) + Unit <= Row(0)
    BY <1>1, RowOrder
  <2>2. c < o => Row(0) + Unit <= Row(o - c)
    BY <1>1, RowOrder
  <2>3. o - c \in Int /\ Row(o - c) \in Int /\ Row(0) = 0 /\ (o = c => o - c = 0)
    BY <1>1, RowType
  <2> QED BY <1>1, <2>1, <2>2, <2>3, ViewNumbers
<1> HIDE DEF c
<1>4. CASE o = c
  <2>1. H = G
    BY <1>3, <1>4 DEF SyncView, c
  <2>2. Level(G)
    BY <1>1, <1>2, <1>4 DEF Level, Standing, c
  <2>3. o = 0 => G.pos = 0
    BY <1>1, <1>2, <1>4, RowType
  <2>4. \A k \in 0 .. G.history : Nearest(G.history, k + o - c) = k
    BY <1>1, <1>4 DEF Nearest
  <2> QED BY <2>1, <2>2, <2>3, <2>4 DEF SameText, c
<1>5. CASE o # c
  <2> DEFINE pos   == IF o = 0 THEN 0 ELSE Row(o) - Shift(G)
             glide == IF G.glide = NoGlide THEN NoGlide
                      ELSE <<G.glide[1] + Row(o - c), Within(G, G.glide[2] + Row(o - c))>>
             N     == [G EXCEPT !.pos = pos, !.glide = glide]
  <2>1. H = N
    BY <1>3, <1>5 DEF SyncView, c
  <2>2. Shift(G) \in 0 .. Unit - 1
    BY <1>1, ShiftFacts
  <2>3. o > 0 => Row(0) + Unit <= Row(o)
    BY <1>1, RowOrder
  <2>4. pos \in Nat /\ pos <= Row(o) /\ Row(o) - Unit < pos
    BY <1>1, <2>2, <2>3, RowType, ViewNumbers
  <2>5. Ceil(pos) = o
    <3> HIDE DEF pos
    <3> QED BY <1>1, <2>4, CeilIs
  <2>6. ASSUME NEW k \in 0 .. G.history, G.glide # NoGlide, G.glide[2] = Row(k)
        PROVE  /\ Nearest(G.history, k + o - c) \in 0 .. G.history
               /\ Within(G, G.glide[2] + Row(o - c)) = Row(Nearest(G.history, k + o - c))
    <3>1. k \in Int /\ o - c \in Int /\ k + (o - c) \in Int /\ k + (o - c) = k + o - c
      BY <1>1
    <3>2. Row(k + o - c) = Row(k) + Row(o - c)
      BY <3>1, RowSum
    <3> QED BY <1>1, <2>6, <3>1, <3>2, WithinRows
  <2>7. glide \in Glides
    <3>1. CASE G.glide = NoGlide
      BY <3>1 DEF Glides
    <3>2. CASE G.glide # NoGlide
      <4>1. PICK k \in 0 .. G.history : G.glide[2] = Row(k)
        BY <3>2 DEF Bounded
      <4>2. Nearest(G.history, k + o - c) \in Int
        BY <2>6, <3>2, <4>1
      <4>3. Within(G, G.glide[2] + Row(o - c)) \in Int
        BY <2>6, <3>2, <4>1, <4>2, RowType
      <4>4. G.glide[1] \in Int
        BY <3>2 DEF Screens, Glides
      <4>5. Row(o - c) \in Int
        BY <1>1, RowType
      <4> QED BY <3>2, <4>3, <4>4, <4>5 DEF Glides
    <3> QED BY <3>1, <3>2
  <2>8. /\ glide = NoGlide <=> G.glide = NoGlide
        /\ \A k \in 0 .. G.history :
             G.glide # NoGlide /\ G.glide[2] = Row(k) => glide[2] = Row(Nearest(G.history, k + o - c))
    BY <2>6 DEF NoGlide
  <2> HIDE DEF pos, glide
  <2>9. /\ N \in Screens /\ N.history = G.history /\ N.evicted = G.evicted /\ N.offset = o /\ N.pos = pos
        /\ N.glide = glide
    BY <2>4, <2>7 DEF Screens
  <2> HIDE DEF N
  <2>10. Bounded(N)
    <3> SUFFICES ASSUME N.glide # NoGlide PROVE \E k \in 0 .. N.history : N.glide[2] = Row(k)
      BY DEF Bounded
    <3>1. G.glide # NoGlide
      BY <2>8, <2>9
    <3>2. PICK k \in 0 .. G.history : G.glide[2] = Row(k)
      BY <3>1 DEF Bounded
    <3> QED BY <2>6, <2>8, <2>9, <3>1, <3>2
  <2>11. Level(N)
    BY <1>1, <2>4, <2>5, <2>9, <2>10 DEF Level, Standing
  <2>12. o > 0 => Shift(N) = Shift(G)
    BY <1>1, <2>2, <2>5, <2>9 DEF Shift, pos
  <2>13. o = 0 => N.pos = 0
    BY <2>9 DEF pos
  <2> QED BY <2>1, <2>8, <2>9, <2>11, <2>12, <2>13 DEF SameText, c
<1> QED BY <1>4, <1>5

\* A glide moves on, or is over on the row it was bound for.
LEMMA GlideFacts ==
  ASSUME NEW G, Level(G), NEW H \in AdvanceGlide(G)
  PROVE  /\ Level(H) /\ SameText(G, H)
         /\ G.glide = NoGlide => H = G
         /\ H.glide # NoGlide => H.glide = G.glide
         /\ \A k \in 0 .. G.history :
              G.glide # NoGlide /\ G.glide[2] = Row(k) /\ H.glide = NoGlide => H.offset = k /\ Shift(H) = 0
<1>1. G \in Screens /\ Bounded(G) /\ G.history \in Nat
  BY StandingFacts DEF Level, Standing
<1>2. CASE G.glide = NoGlide
  BY <1>2 DEF AdvanceGlide, SameText
<1>3. CASE G.glide # NoGlide
  <2>1. PICK k \in 0 .. G.history : G.glide[2] = Row(k)
    BY <1>1, <1>3 DEF Bounded
  <2>2. G.glide[1] \in Int /\ G.glide[2] \in Int
    BY <1>1, <1>3 DEF Screens, Glides
  <2>3. CASE H = Settle(CancelGlide(G), G.glide[2])
    <3>1. Level(H) /\ SameText(G, H) /\ H.pos = Within(G, G.glide[2]) /\ H.glide = NoGlide
      BY <1>1, <2>2, <2>3, Settled
    <3>2. ASSUME NEW j \in 0 .. G.history, G.glide[2] = Row(j) PROVE H.offset = j /\ Shift(H) = 0
      <4>1. Nearest(G.history, j) = j
        BY <1>1 DEF Nearest
      <4>2. H.pos = Row(j)
        BY <1>1, <3>1, <3>2, <4>1, WithinRows
      <4>3. Ceil(H.pos) = j /\ Row(j) \in Int
        BY <4>2, CeilOfRow, RowType
      <4> QED BY <3>1, <4>2, <4>3 DEF Level, Shift
    <3> QED BY <1>3, <3>1, <3>2
  <2>4. ASSUME NEW p \in Min({G.glide[1], G.glide[2]}) .. Max({G.glide[1], G.glide[2]}), H = Settle(G, p)
        PROVE  Level(H) /\ SameText(G, H) /\ H.glide = G.glide
    <3>1. Min({G.glide[1], G.glide[2]}) \in Int /\ Max({G.glide[1], G.glide[2]}) \in Int
      BY <2>2, MinMaxOfTwo
    <3>2. p \in Int
      BY <3>1
    <3> QED BY <1>1, <2>4, <3>2, SettleFacts
  <2>5. \/ H = Settle(CancelGlide(G), G.glide[2])
        \/ \E p \in Min({G.glide[1], G.glide[2]}) .. Max({G.glide[1], G.glide[2]}) : H = Settle(G, p)
    BY <1>3 DEF AdvanceGlide
  <2> QED BY <1>3, <2>3, <2>4, <2>5
<1> QED BY <1>2, <1>3

\* A line is brought onto the screen; and is there, from a view that stood on a row.
LEMMA RevealFacts ==
  ASSUME NEW G, Standing(G), NEW line \in 0 .. Total(G) - 1
  PROVE  LET H == Reveal(G, line) IN
         /\ Standing(H) /\ SameText(G, H)
         /\ line - (H.history - H.offset) \in
              -(IF Round(G.pos) = Ceil(G.pos) THEN 0 ELSE 1) .. Screen - 1 + (G.offset - Ceil(G.pos))
<1> DEFINE here  == Ceil(G.pos)
           low   == G.history - line
           high  == Max({low + Screen - 1, low})
           there == Max({0, Min({Max({here, low}), high, G.history})})
           H     == Reveal(G, line)
<1>1. /\ G.history \in Nat /\ G.offset \in 0 .. G.history /\ here \in 0 .. G.history /\ G.pos \in Int
      /\ line \in Int /\ low \in Int /\ low <= G.history /\ low + Screen - 1 >= 0
  BY StandingFacts, ViewNumbers DEF Total, Standing, Screens
<1>2. high = low + Screen - 1
  <2>1. low + Screen - 1 \in Int
    BY <1>1, ViewNumbers
  <2>2. high = IF low + Screen - 1 >= low THEN low + Screen - 1 ELSE low
    BY <1>1, <2>1, MinMaxOfTwo
  <2> QED BY <1>1, <2>2, ViewNumbers
<1> HIDE DEF high, low, here
<1>3. there \in 0 .. G.history /\ low <= there /\ there <= low + Screen - 1
  <2> DEFINE top == Max({here, low})
             m   == Min({top, high, G.history})
  <2>1. top = (IF here >= low THEN here ELSE low)
    <3>1. here \in Int /\ low \in Int
      BY <1>1
    <3> QED BY <3>1, MinMaxOfTwo
  <2> HIDE DEF top
  <2>2. top \in Int /\ high \in Int
    BY <1>1, <1>2, <2>1, ViewNumbers
  <2>3. \E x \in {top, high, G.history} : \A y \in {top, high, G.history} : x <= y
    BY <1>1, <2>2
  <2>4. m \in {top, high, G.history} /\ \A y \in {top, high, G.history} : m <= y
    BY <2>3 DEF Min
  <2>5. there = IF 0 >= m THEN 0 ELSE m
    <3>1. ASSUME NEW q \in Int PROVE Max({0, q}) = IF 0 >= q THEN 0 ELSE q
      BY AtLeastZero
    <3>2. m \in Int
      BY <1>1, <2>2, <2>4
    <3>3. there = Max({0, m})
      BY DEF top
    <3> HIDE DEF m
    <3> QED BY <3>1, <3>2, <3>3
  <2> HIDE DEF m
  <2> QED BY <1>1, <1>2, <2>1, <2>2, <2>4, <2>5, ViewNumbers
<1> HIDE DEF there
<1>4. H = IF there = here THEN G ELSE Scroll(G, there - here)
  BY DEF Reveal, here, low, high, there
<1>5. there - here \in Int
  BY <1>1, <1>3
<1>6. CASE there = here
  <2>1. H = G
    BY <1>4, <1>6
  <2>2. /\ line - (G.history - G.offset) \in G.offset - here .. Screen - 1 + (G.offset - here)
        /\ here <= G.offset
    BY <1>1, <1>3, <1>6, StandingFacts, ViewNumbers DEF low, here
  <2> DEFINE short == IF Round(G.pos) = here THEN 0 ELSE 1
             row == line - (G.history - G.offset)
  <2>3. row \in -short .. Screen - 1 + (G.offset - here)
    <3>1. short \in {0, 1}
      OBVIOUS
    <3> HIDE DEF short
    <3> QED BY <1>1, <2>2, <3>1, ViewNumbers
  <2> HIDE DEF H
  <2> QED BY <2>1, <2>3 DEF SameText, here, H
<1>7. CASE there # here
  <2>1. H = Scroll(G, there - here)
    BY <1>4, <1>7
  <2>2. /\ Level(Scroll(G, there - here)) /\ SameText(G, Scroll(G, there - here))
        /\ Scroll(G, there - here).offset = Nearest(G.history, Round(G.pos) + (there - here))
    BY <1>5, ScrollFacts
  <2>3. Round(G.pos) \in {here - 1, here} /\ here <= G.offset
    BY <1>1, RoundFacts, StandingFacts DEF here
  <2>4. Nearest(G.history, Round(G.pos) + (there - here)) \in
          {there} \cup (IF Round(G.pos) = here THEN {} ELSE {there - 1})
    <3> DEFINE k == Round(G.pos) + (there - here)
    <3>1. k \in {there} \cup (IF Round(G.pos) = here THEN {} ELSE {there - 1}) /\ there \in 0 .. G.history /\ G.history \in Nat
      BY <1>1, <1>3, <2>3
    <3> HIDE DEF k
    <3> QED BY <3>1 DEF Nearest, k
  <2>5. H.history = G.history /\ Standing(H) /\ SameText(G, H)
    BY <2>1, <2>2 DEF Level, SameText
  <2>6. H.offset \in {there} \cup (IF Round(G.pos) = here THEN {} ELSE {there - 1})
    BY <2>1, <2>2, <2>4
  <2> HIDE DEF H
  <2>7. line - (H.history - H.offset) \in
          -(IF Round(G.pos) = here THEN 0 ELSE 1) .. Screen - 1 + (G.offset - here)
    <3>1. low = H.history - line
      BY <2>5 DEF low
    <3>2. there - low \in 0 .. Screen - 1 /\ G.offset - here \in Nat /\ H.history \in Int
      BY <1>1, <1>3, <2>3, <2>5, ViewNumbers
    <3> QED BY <1>1, <1>3, <2>6, <3>1, <3>2, ViewNumbers
  <2> QED BY <2>5, <2>7 DEF H, here
<1> QED BY <1>6, <1>7

-----------------------------------------------------------------------------
(***************************************************************************)
(* Output moves no view.                                                   *)
(***************************************************************************)
Top(G) == G.evicted + G.history - G.offset

\* A is G with no more than output come.
Carries(G, A) ==
  /\ Standing(A) /\ A.pos = G.pos /\ A.glide = G.glide
  /\ G.evicted <= A.evicted /\ G.history <= A.history
  /\ G.offset = 0 => A.offset = 0
  /\ G.offset > 0 /\ Top(G) >= A.evicted => A.offset > 0 /\ Top(A) = Top(G)

LEMMA OutputCarries ==
  ASSUME NEW G, Standing(G)
  PROVE  Carries(G, G) /\ Carries(G, Fed(G))
<1>1. /\ G.evicted \in Nat /\ G.history \in Nat /\ G.history <= Scrollback /\ G.offset \in 0 .. G.history
      /\ Scrollback \in Nat
  BY StandingFacts, ViewNumbers
<1>2. Carries(G, G)
  BY <1>1 DEF Carries
<1> DEFINE F == Fed(G)
<1>3. /\ Standing(F) /\ F.pos = G.pos /\ F.glide = G.glide
      /\ F.history = (IF G.history < Scrollback THEN G.history + 1 ELSE G.history)
      /\ F.evicted = (IF G.history < Scrollback THEN G.evicted ELSE G.evicted + 1)
      /\ F.offset = (IF G.offset = 0 THEN 0 ELSE IF G.offset < F.history THEN G.offset + 1 ELSE G.offset)
  BY FedFacts
<1> HIDE DEF F
<1>4. G.evicted <= F.evicted /\ G.history <= F.history /\ (G.offset = 0 => F.offset = 0)
  BY <1>1, <1>3
<1>5. G.offset > 0 /\ Top(G) >= F.evicted => F.offset > 0 /\ Top(F) = Top(G)
  BY <1>1, <1>3 DEF Top
<1>6. Carries(G, F)
  BY <1>3, <1>4, <1>5 DEF Carries
<1> QED BY <1>2, <1>6 DEF F

\* What a view that output carried along shows, and where its glide is bound.
Unmoved(G, H) ==
  /\ G.offset = 0 /\ G.glide = NoGlide => H.offset = 0
  /\ G.offset > 0 /\ Top(G) >= H.evicted =>
       /\ G.glide = NoGlide => Picture(H) = Picture(G)
       /\ G.glide # NoGlide /\ Bound(G) >= H.evicted =>
            IF H.glide # NoGlide THEN Bound(H) = Bound(G) ELSE Picture(H) = <<Bound(G), 0>>

LEMMA BoundIs ==
  ASSUME NEW G, NEW k \in Int, G.glide[2] = Row(k)
  PROVE  Bound(G) = Top(G) + Ceil(G.pos) - k
<1>1. Row(k) \div Unit = k
  BY ViewNumbers DEF Row
<1> QED BY <1>1 DEF Bound, Top

LEMMA CarriedUnmoved ==
  ASSUME NEW G, Standing(G), NEW A, Carries(G, A)
  PROVE  Unmoved(G, A)
<1>1. Shift(A) = Shift(G)
  BY DEF Carries, Shift
<1>2. Picture(A) = <<Top(A), Shift(A)>> /\ Picture(G) = <<Top(G), Shift(G)>>
  BY DEF Picture, Top
<1>3. Top(A) = Top(G) => Bound(A) = Bound(G)
  BY DEF Bound, Top, Carries
<1> QED BY <1>1, <1>2, <1>3 DEF Unmoved, Carries

LEMMA TickUnmoved ==
  ASSUME NEW G, Standing(G), NEW A, Carries(G, A), NEW C \in AdvanceGlide(SyncView(A))
  PROVE  Level(C) /\ C.evicted = A.evicted /\ C.history = A.history /\ Unmoved(G, C)
<1> DEFINE B == SyncView(A)
<1>1. A \in Screens /\ A.offset <= A.history /\ Bounded(A) /\ A.pos = G.pos /\ A.glide = G.glide
  BY DEF Carries, Standing
<1>2. /\ Level(B) /\ SameText(A, B) /\ B.offset = A.offset
      /\ A.offset > 0 => Shift(B) = Shift(A)
      /\ B.glide = NoGlide <=> A.glide = NoGlide
      /\ \A k \in 0 .. A.history :
           A.glide # NoGlide /\ A.glide[2] = Row(k)
             => B.glide[2] = Row(Nearest(A.history, k + A.offset - Ceil(A.pos)))
  BY <1>1, SyncViewFacts
<1> HIDE DEF B
<1>3. /\ Level(C) /\ SameText(B, C)
      /\ B.glide = NoGlide => C = B
      /\ C.glide # NoGlide => C.glide = B.glide
      /\ \A k \in 0 .. B.history :
           B.glide # NoGlide /\ B.glide[2] = Row(k) /\ C.glide = NoGlide => C.offset = k /\ Shift(C) = 0
  BY <1>2, GlideFacts DEF B
<1>4. C.evicted = A.evicted /\ C.history = A.history /\ B.history = A.history /\ B.evicted = A.evicted
  BY <1>2, <1>3 DEF SameText
<1>5. Shift(A) = Shift(G)
  BY <1>1 DEF Shift
<1>6. Picture(C) = <<Top(C), Shift(C)>> /\ Picture(G) = <<Top(G), Shift(G)>>
  BY DEF Picture, Top
<1>7. CASE G.glide = NoGlide
  <2>1. C = B /\ C.offset = A.offset /\ Top(C) = Top(A)
    BY <1>1, <1>2, <1>3, <1>4, <1>7 DEF Top
  <2> QED BY <1>2, <1>4, <1>5, <1>6, <1>7, <2>1 DEF Unmoved, Carries
<1>8. CASE G.glide # NoGlide
  <2> SUFFICES ASSUME G.offset > 0, Top(G) >= A.evicted, Bound(G) >= A.evicted
               PROVE  IF C.glide # NoGlide THEN Bound(C) = Bound(G) ELSE Picture(C) = <<Bound(G), 0>>
    BY <1>3, <1>4, <1>8 DEF Unmoved
  <2>1. PICK k \in 0 .. G.history : G.glide[2] = Row(k)
    BY <1>8 DEF Standing, Bounded
  <2>2. /\ G.history \in Nat /\ A.history \in Nat /\ G.history <= A.history /\ A.evicted \in Nat
        /\ A.offset \in 0 .. A.history /\ Ceil(A.pos) \in 0 .. A.history /\ Ceil(A.pos) <= A.offset
        /\ Top(A) = Top(G) /\ Ceil(G.pos) = Ceil(A.pos) /\ k \in 0 .. A.history
    <3>1. G.history \in Nat /\ Standing(A) /\ G.history <= A.history /\ Top(A) = Top(G) /\ Ceil(G.pos) = Ceil(A.pos)
      BY <1>1, StandingFacts DEF Carries
    <3>2. /\ A.history \in Nat /\ A.evicted \in Nat /\ A.offset \in 0 .. A.history
          /\ Ceil(A.pos) \in 0 .. A.history /\ Ceil(A.pos) <= A.offset
      BY <3>1, StandingFacts
    <3> QED BY <2>1, <3>1, <3>2
  <2> DEFINE j == k + A.offset - Ceil(A.pos)
  <2>3. Bound(G) = Top(A) + Ceil(A.pos) - k
    BY <2>1, <2>2, BoundIs
  <2>4. j \in 0 .. A.history /\ Bound(G) = A.evicted + A.history - j
    BY <2>2, <2>3 DEF Top
  <2>5. Nearest(A.history, j) = j
    BY <2>2, <2>4 DEF Nearest
  <2>6. B.glide # NoGlide /\ B.glide[2] = Row(j)
    BY <1>1, <1>2, <1>8, <2>1, <2>2, <2>5
  <2> HIDE DEF j
  <2>7. CASE C.glide # NoGlide
    <3>1. C.glide[2] = Row(j) /\ C.offset = Ceil(C.pos)
      BY <1>3, <2>6, <2>7 DEF Level
    <3>2. Bound(C) = Top(C) + Ceil(C.pos) - j
      BY <2>4, <3>1, BoundIs
    <3>3. C.offset \in Nat
      BY <1>3 DEF Level, Standing, Screens
    <3> QED BY <1>4, <2>2, <2>4, <2>7, <3>1, <3>2, <3>3 DEF Top
  <2>8. CASE C.glide = NoGlide
    <3>1. C.offset = j /\ Shift(C) = 0
      BY <1>3, <1>4, <2>4, <2>6, <2>8
    <3>2. Top(C) = Bound(G)
      BY <1>4, <2>4, <3>1 DEF Top
    <3> QED BY <1>6, <2>8, <3>1, <3>2
  <2> QED BY <2>7, <2>8
<1> QED BY <1>3, <1>4, <1>7, <1>8

LEMMA OutputStep ==
  ASSUME Standing(screen), GlassTick \/ OpenFind \/ CloseFind
  PROVE  /\ Standing(screen') /\ Unmoved(screen, screen')
         /\ screen.evicted <= screen'.evicted /\ screen.history <= screen'.history
<1>1. Carries(screen, screen) /\ Carries(screen, Fed(screen))
  BY OutputCarries
<1>2. CASE GlassTick
  <2>1. PICK n \in {0, 1} : screen' \in AdvanceGlide(SyncView(IF n = 1 THEN Fed(screen) ELSE screen))
    BY <1>2 DEF GlassTick
  <2>2. PICK A : Carries(screen, A) /\ screen' \in AdvanceGlide(SyncView(A))
    BY <1>1, <2>1
  <2>3. Level(screen') /\ screen'.evicted = A.evicted /\ screen'.history = A.history /\ Unmoved(screen, screen')
    BY <2>2, TickUnmoved
  <2> QED BY <2>2, <2>3 DEF Level, Carries
<1>3. CASE OpenFind \/ CloseFind
  <2>1. screen' = Fed(screen)
    BY <1>3 DEF OpenFind, CloseFind
  <2>2. Unmoved(screen, Fed(screen))
    BY <1>1, CarriedUnmoved
  <2> QED BY <1>1, <2>1, <2>2 DEF Carries
<1> QED BY <1>2, <1>3

-----------------------------------------------------------------------------
(***************************************************************************)
(* Cells of the text, by column and line and by number.                    *)
(***************************************************************************)
Column == 0 .. Last

LEMMA LocFacts ==
  ASSUME NEW x \in Column, NEW y \in Nat
  PROVE  /\ Loc(<<x, y>>) \in Nat /\ Loc(<<x, y>>) = y * COLUMNS + x
         /\ Loc(<<x, y>>) % COLUMNS = x /\ Loc(<<x, y>>) \div COLUMNS = y
         /\ Cell(Loc(<<x, y>>)) = <<x, y>>
<1>1. x \in 0 .. COLUMNS - 1 /\ COLUMNS \in Nat \ {0}
  BY ViewNumbers DEF Column, Last
<1>2. Loc(<<x, y>>) = y * COLUMNS + x
  BY DEF Loc
<1>3. ASSUME NEW c \in Nat \ {0}, x \in 0 .. c - 1
      PROVE  y * c + x \in Nat /\ (y * c + x) % c = x /\ (y * c + x) \div c = y
  <2>1. (y * c + x) \div c = y
    BY <1>3
  <2>2. (y * c + x) % c = x
    BY <1>3, <2>1
  <2> QED BY <1>3, <2>1, <2>2
<1> QED BY <1>1, <1>2, <1>3 DEF Cell

LEMMA CellFacts ==
  ASSUME NEW l \in Nat
  PROVE  /\ l % COLUMNS \in Column /\ l \div COLUMNS \in Nat
         /\ l = (l \div COLUMNS) * COLUMNS + (l % COLUMNS)
         /\ Cell(l) \in Column \X Nat /\ Loc(Cell(l)) = l
<1>1. ASSUME NEW c \in Nat \ {0}
      PROVE  l % c \in 0 .. c - 1 /\ l \div c \in Nat /\ l = (l \div c) * c + (l % c)
  OBVIOUS
<1> QED BY <1>1, ViewNumbers DEF Cell, Loc, Column, Last

\* Lines are apart.
LEMMA LinesApart ==
  \A a, b \in Int : (a < b => a * COLUMNS + COLUMNS <= b * COLUMNS) /\ (a <= b => a * COLUMNS <= b * COLUMNS)
                    /\ a * COLUMNS \in Int
BY ViewNumbers

\* The cells of a text of n lines.
LEMMA LocWithin ==
  ASSUME NEW x \in Column, NEW y \in Nat, NEW n \in Nat
  PROVE  y < n <=> Loc(<<x, y>>) \in 0 .. n * COLUMNS - 1
<1>1. Loc(<<x, y>>) = y * COLUMNS + x /\ Loc(<<x, y>>) \in Nat /\ x \in 0 .. COLUMNS - 1
  BY LocFacts, ViewNumbers DEF Column, Last
<1>2. /\ y < n => y * COLUMNS + COLUMNS <= n * COLUMNS
      /\ n <= y => n * COLUMNS <= y * COLUMNS
      /\ y * COLUMNS \in Int /\ n * COLUMNS \in Int
  BY LinesApart
<1> QED BY <1>1, <1>2, ViewNumbers

LEMMA MinOf ==
  ASSUME NEW S \in SUBSET Nat, S # {}
  PROVE  Min(S) \in S /\ \A y \in S : Min(S) <= y
<1>1. PICK x \in S : \A y \in S : ~ (<<y, x>> \in OpToRel(<, Nat))
  BY NatLessThanWellFounded, WFMin
<1>2. \A y \in S : ~ (y < x)
  BY <1>1 DEF OpToRel
<1>3. \A y \in S : x <= y
  BY <1>2
<1> QED BY <1>3 DEF Min

LEMMA MaxOf ==
  ASSUME NEW n \in Nat, NEW S \in SUBSET (0 .. n), S # {}
  PROVE  Max(S) \in S /\ \A y \in S : Max(S) >= y
<1> DEFINE up == {n - x : x \in S}
<1>1. up \in SUBSET Nat /\ up # {}
  <2>1. \A x \in S : n - x \in Nat
    OBVIOUS
  <2> QED BY <2>1
<1>2. Min(up) \in up /\ \A u \in up : Min(up) <= u
  <2> HIDE DEF up
  <2> QED BY <1>1, MinOf
<1>3. PICK x \in S : Min(up) = n - x
  BY <1>2
<1>4. ASSUME NEW y \in S PROVE x >= y
  <2>1. n - y \in up
    OBVIOUS
  <2> HIDE DEF up
  <2>2. Min(up) <= n - y
    BY <1>2, <2>1
  <2>3. x \in Int /\ y \in Int /\ n \in Int
    OBVIOUS
  <2> QED BY <1>3, <2>2, <2>3
<1> QED BY <1>4 DEF Max

-----------------------------------------------------------------------------
(***************************************************************************)
(* The selection: what each gesture leaves of it.                          *)
(***************************************************************************)
\* A place in a text of n lines, or none.
Place(n) == {Nowhere} \cup 0 .. n * COLUMNS - 1

\* Where a gesture may have been, on this text or on one before it.
Spot == Column \X Nat

Konsoles(n) ==
  [begin : Place(n), top_left : Place(n), bottom_right : Place(n), block_mode : BOOLEAN, column_mode : BOOLEAN,
   anchor : Spot, head : Spot, mode : Mode, act_sel : 0 .. 2, triple_sel_begin : Spot, evicted_base : Nat]

\* A range runs forwards, but where its first line is the oldest there is.
Forwards(K) == IsValid(K) => K.top_left <= K.bottom_right \/ K.top_left < COLUMNS

Fitting(K, n) == K \in Konsoles(n) /\ Forwards(K)

LEMMA PlaceGrows ==
  ASSUME NEW m \in Nat, NEW n \in Nat, m <= n
  PROVE  Place(m) \subseteq Place(n) /\ Konsoles(m) \subseteq Konsoles(n)
<1>1. m * COLUMNS \in Int /\ n * COLUMNS \in Int /\ m * COLUMNS <= n * COLUMNS
  BY LinesApart
<1>2. Place(m) \subseteq Place(n)
  BY <1>1 DEF Place
<1> QED BY <1>2 DEF Konsoles

LEMMA ShiftedFacts ==
  ASSUME NEW n \in Nat, NEW l \in Place(n), NEW lines \in Nat
  PROVE  /\ Shifted(l, lines) \in Place(n)
         /\ Shifted(l, lines) = Nowhere <=> l = Nowhere
         /\ l # Nowhere =>
              /\ l \in Nat /\ Shifted(l, lines) \in Nat
              /\ Shifted(l, lines) = (IF l \div COLUMNS >= lines THEN l - lines * COLUMNS ELSE l % COLUMNS)
              /\ Shifted(l, lines) \div COLUMNS = (IF l \div COLUMNS >= lines THEN (l \div COLUMNS) - lines ELSE 0)
              /\ Shifted(l, lines) % COLUMNS = l % COLUMNS
<1>1. CASE l = Nowhere
  BY <1>1 DEF Shifted, Nowhere, Place
<1>2. CASE l # Nowhere
  <2> DEFINE x == l % COLUMNS
             y == l \div COLUMNS
             z == IF y >= lines THEN y - lines ELSE 0
  <2>1. l \in 0 .. n * COLUMNS - 1 /\ n * COLUMNS \in Int
    BY <1>2, LinesApart DEF Place
  <2>2. l \in Nat
    BY <2>1
  <2>3. x \in Column /\ y \in Nat /\ l = y * COLUMNS + x
    BY <2>2, CellFacts
  <2> HIDE DEF x, y
  <2>4. z \in Nat /\ z <= y
    BY <2>3
  <2>5. Max({0, y - lines}) = z
    <3>1. ASSUME NEW q \in Int PROVE Max({0, q}) = IF 0 >= q THEN 0 ELSE q
      BY AtLeastZero
    <3>2. y - lines \in Int
      BY <2>3
    <3> QED BY <2>3, <3>1, <3>2
  <2>6. Shifted(l, lines) = Loc(<<x, z>>)
    BY <2>2, <2>5 DEF Shifted, x, y
  <2>7. /\ Loc(<<x, z>>) \in Nat /\ Loc(<<x, z>>) = z * COLUMNS + x
        /\ Loc(<<x, z>>) % COLUMNS = x /\ Loc(<<x, z>>) \div COLUMNS = z
    BY <2>3, <2>4, LocFacts
  <2>8. z * COLUMNS = (IF y >= lines THEN y * COLUMNS - lines * COLUMNS ELSE 0)
    BY <2>3, ViewNumbers
  <2>9. z * COLUMNS <= y * COLUMNS /\ z * COLUMNS \in Int /\ y * COLUMNS \in Int /\ lines * COLUMNS \in Int
    BY <2>3, <2>4, LinesApart
  <2>10. x \in Int
    BY <2>3, ViewNumbers DEF Column, Last
  <2>11. Loc(<<x, z>>) \in 0 .. n * COLUMNS - 1
    BY <2>1, <2>3, <2>7, <2>9, <2>10
  <2>12. Loc(<<x, z>>) = IF y >= lines THEN l - lines * COLUMNS ELSE x
    BY <2>3, <2>7, <2>8, <2>9, <2>10
  <2>13. Shifted(l, lines) \in Place(n)
    BY <2>6, <2>11 DEF Place
  <2>14. (l = Nowhere) = FALSE /\ (Shifted(l, lines) = Nowhere) = FALSE
    BY <1>2, <2>6, <2>7 DEF Nowhere
  <2>15. Shifted(l, lines) = (IF y >= lines THEN l - lines * COLUMNS ELSE x)
    BY <2>6, <2>12
  <2>16. Shifted(l, lines) \in Nat /\ Shifted(l, lines) % COLUMNS = x /\ Shifted(l, lines) \div COLUMNS = z
    BY <2>6, <2>7
  <2> QED BY <2>2, <2>13, <2>14, <2>15, <2>16 DEF x, y
<1> QED BY <1>1, <1>2

\* What no range is told by.
SameDrag(K, L) ==
  /\ L.anchor = K.anchor /\ L.head = K.head /\ L.mode = K.mode /\ L.act_sel = K.act_sel
  /\ L.column_mode = K.column_mode /\ L.triple_sel_begin = K.triple_sel_begin /\ L.evicted_base = K.evicted_base

LEMMA GoneType ==
  ASSUME NEW K, K.evicted_base \in Nat, NEW evicted \in Nat
  PROVE  /\ Gone(K, evicted) \in Nat
         /\ K.evicted_base <= evicted => Gone(K, evicted) = evicted - K.evicted_base
         /\ evicted <= K.evicted_base => Gone(K, evicted) = 0
<1>1. Gone(K, evicted) = IF 0 >= evicted - K.evicted_base THEN 0 ELSE evicted - K.evicted_base
  <2>1. ASSUME NEW q \in Int PROVE Max({0, q}) = IF 0 >= q THEN 0 ELSE q
    BY AtLeastZero
  <2>2. evicted - K.evicted_base \in Int
    OBVIOUS
  <2> QED BY <2>1, <2>2 DEF Gone
<1> QED BY <1>1

\* A range shifted runs forwards still.
LEMMA ShiftedForwards ==
  ASSUME NEW n \in Nat, NEW a \in Place(n), NEW b \in Place(n), a # Nowhere, b # Nowhere, a <= b \/ a < COLUMNS,
         NEW lines \in Nat
  PROVE  Shifted(a, lines) <= Shifted(b, lines) \/ Shifted(a, lines) < COLUMNS
<1>1. /\ a \in Nat /\ b \in Nat /\ Shifted(a, lines) \in Nat /\ Shifted(b, lines) \in Nat
      /\ Shifted(a, lines) = (IF a \div COLUMNS >= lines THEN a - lines * COLUMNS ELSE a % COLUMNS)
      /\ Shifted(b, lines) = (IF b \div COLUMNS >= lines THEN b - lines * COLUMNS ELSE b % COLUMNS)
  BY ShiftedFacts
<1>2. /\ a % COLUMNS \in 0 .. COLUMNS - 1 /\ a \div COLUMNS \in Nat /\ a = (a \div COLUMNS) * COLUMNS + (a % COLUMNS)
      /\ b % COLUMNS \in 0 .. COLUMNS - 1 /\ b \div COLUMNS \in Nat /\ b = (b \div COLUMNS) * COLUMNS + (b % COLUMNS)
  BY <1>1, CellFacts DEF Column, Last
<1> DEFINE u == a \div COLUMNS
           v == b \div COLUMNS
           p == a % COLUMNS
           q == b % COLUMNS
<1>3. u < lines => Shifted(a, lines) < COLUMNS
  BY <1>1, <1>2, ViewNumbers
<1>4. CASE a < COLUMNS /\ u >= lines
  <2>1. u = 0
    BY <1>1, <1>4, ViewNumbers
  <2>2. lines = 0
    BY <1>4, <2>1
  <2> QED BY <1>1, <1>4, <2>2, ViewNumbers
<1>5. CASE a <= b /\ u >= lines
  <2>1. v < u => v * COLUMNS + COLUMNS <= u * COLUMNS
    BY <1>2, LinesApart
  <2>2. u * COLUMNS \in Int /\ v * COLUMNS \in Int /\ lines * COLUMNS \in Int
    BY <1>2, LinesApart
  <2> HIDE DEF u, v, p, q
  <2>3. v >= lines
    BY <1>1, <1>2, <1>5, <2>1, <2>2, ViewNumbers DEF u, v
  <2> QED BY <1>1, <1>5, <2>2, <2>3 DEF u, v
<1> QED BY <1>2, <1>3, <1>4, <1>5

LEMMA ValidIs ==
  ASSUME NEW n \in Nat, NEW K \in Konsoles(n)
  PROVE  IsValid(K) <=> K.top_left # Nowhere /\ K.bottom_right # Nowhere
<1>1. \A l \in Place(n) : l >= 0 <=> l # Nowhere
  BY LinesApart DEF Place, Nowhere
<1> QED BY <1>1 DEF IsValid, Konsoles

LEMMA RebaseFacts ==
  ASSUME NEW n \in Nat, NEW K, Fitting(K, n), NEW evicted \in Nat
  PROVE  LET R == Rebase(K, evicted) IN
         /\ Fitting(R, n) /\ R.evicted_base = evicted /\ (IsValid(R) <=> IsValid(K))
         /\ R.block_mode = K.block_mode /\ R.column_mode = K.column_mode /\ R.mode = K.mode /\ R.act_sel = K.act_sel
         /\ R.anchor[2] <= K.anchor[2] /\ R.head[2] <= K.head[2]
         /\ R.begin = Shifted(K.begin, Gone(K, evicted))
         /\ R.top_left = StartAt(K, evicted) /\ R.bottom_right = EndAt(K, evicted)
<1> DEFINE lines == Gone(K, evicted)
           up(c) == <<c[1], Max({0, c[2] - lines})>>
           R == Rebase(K, evicted)
<1>1. lines \in Nat
  BY GoneType DEF Fitting, Konsoles
<1> HIDE DEF lines
<1>2. ASSUME NEW c \in Column \X Nat PROVE up(c) \in Column \X Nat /\ up(c)[2] <= c[2]
  <2>1. ASSUME NEW q \in Int PROVE Max({0, q}) = IF 0 >= q THEN 0 ELSE q
    BY AtLeastZero
  <2>2. c[2] - lines \in Int /\ c[2] \in Nat /\ c[1] \in Column
    BY <1>1
  <2>3. Max({0, c[2] - lines}) \in Nat /\ Max({0, c[2] - lines}) <= c[2]
    BY <1>1, <2>1, <2>2
  <2> QED BY <2>2, <2>3
<1>3. \A l \in Place(n) : Shifted(l, lines) \in Place(n) /\ (Shifted(l, lines) = Nowhere <=> l = Nowhere)
  BY <1>1, ShiftedFacts
<1>4. R = [K EXCEPT !.anchor = up(@), !.head = up(@), !.triple_sel_begin = up(@), !.evicted_base = evicted,
                    !.begin = Shifted(@, lines), !.top_left = Shifted(@, lines), !.bottom_right = Shifted(@, lines)]
  BY DEF Rebase, lines
<1>5. /\ K.begin \in Place(n) /\ K.top_left \in Place(n) /\ K.bottom_right \in Place(n)
      /\ K.anchor \in Column \X Nat /\ K.head \in Column \X Nat /\ K.triple_sel_begin \in Column \X Nat
      /\ K \in Konsoles(n)
  BY DEF Fitting, Konsoles, Spot
<1>6. /\ up(K.anchor) \in Column \X Nat /\ up(K.anchor)[2] <= K.anchor[2]
      /\ up(K.head) \in Column \X Nat /\ up(K.head)[2] <= K.head[2]
      /\ up(K.triple_sel_begin) \in Column \X Nat
  BY <1>2, <1>5
<1> HIDE DEF R, up
<1>7. /\ R \in Konsoles(n) /\ R.evicted_base = evicted
      /\ R.block_mode = K.block_mode /\ R.column_mode = K.column_mode /\ R.mode = K.mode /\ R.act_sel = K.act_sel
      /\ R.anchor = up(K.anchor) /\ R.head = up(K.head)
      /\ R.begin = Shifted(K.begin, lines) /\ R.top_left = Shifted(K.top_left, lines)
      /\ R.bottom_right = Shifted(K.bottom_right, lines)
  BY <1>3, <1>4, <1>5, <1>6 DEF Konsoles, Spot
<1>8. IsValid(R) <=> IsValid(K)
  BY <1>3, <1>5, <1>7, ValidIs
<1>9. Forwards(R)
  <2> SUFFICES ASSUME IsValid(K) PROVE R.top_left <= R.bottom_right \/ R.top_left < COLUMNS
    BY <1>8 DEF Forwards
  <2>1. K.top_left # Nowhere /\ K.bottom_right # Nowhere
    BY <1>5, ValidIs
  <2>2. K.top_left <= K.bottom_right \/ K.top_left < COLUMNS
    BY DEF Fitting, Forwards
  <2> QED BY <1>1, <1>5, <1>7, <2>1, <2>2, ShiftedForwards
<1> QED BY <1>6, <1>7, <1>8, <1>9 DEF R, lines, Fitting, StartAt, EndAt

LEMMA ClearFacts ==
  ASSUME NEW n \in Nat, NEW K, Fitting(K, n)
  PROVE  Fitting(Clear(K), n) /\ SameDrag(K, Clear(K)) /\ ~IsValid(Clear(K)) /\ Clear(K).block_mode = K.block_mode
<1>1. Nowhere \in Place(n)
  BY DEF Place
<1>2. Clear(K) \in Konsoles(n) /\ Clear(K).top_left = Nowhere /\ SameDrag(K, Clear(K)) /\ Clear(K).block_mode = K.block_mode
  BY <1>1 DEF Clear, Konsoles, Fitting, SameDrag
<1>3. ~IsValid(Clear(K))
  BY <1>2, ValidIs
<1> QED BY <1>2, <1>3 DEF Fitting, Forwards

LEMMA SetStartFacts ==
  ASSUME NEW n \in Nat, NEW K \in Konsoles(n), NEW x \in Column, NEW y \in 0 .. n - 1, NEW block \in BOOLEAN
  PROVE  LET S == SetStart(K, x, y, block) IN
         /\ Fitting(S, n) /\ SameDrag(K, S) /\ S.block_mode = block
         /\ S.begin = Loc(<<x, y>>) /\ S.top_left = Loc(<<x, y>>) /\ S.bottom_right = Loc(<<x, y>>)
<1> DEFINE l == Loc(<<x, y>>)
           S == SetStart(K, x, y, block)
<1>1. l \in 0 .. n * COLUMNS - 1 /\ n * COLUMNS \in Int
  BY LocWithin, LinesApart
<1>2. S = [K EXCEPT !.begin = l, !.top_left = l, !.bottom_right = l, !.block_mode = block]
  BY DEF SetStart
<1> HIDE DEF l, S
<1>3. l \in Place(n) /\ l \in Int
  BY <1>1 DEF Place
<1>4. /\ S \in Konsoles(n) /\ SameDrag(K, S) /\ S.block_mode = block
      /\ S.begin = l /\ S.top_left = l /\ S.bottom_right = l
  BY <1>2, <1>3 DEF Konsoles, SameDrag
<1> QED BY <1>3, <1>4 DEF Fitting, Forwards, l, S

LEMMA SetEndFacts ==
  ASSUME NEW n \in Nat, NEW K, Fitting(K, n), NEW x \in Column, NEW y \in 0 .. n - 1
  PROVE  LET E == SetEnd(K, x, y)
             l == Loc(<<x, y>>)
         IN  /\ Fitting(E, n) /\ SameDrag(K, E) /\ E.block_mode = K.block_mode /\ E.begin = K.begin
             /\ K.begin = Nowhere => E = K
             /\ K.begin # Nowhere /\ ~K.block_mode =>
                  /\ E.top_left = (IF l <= K.begin THEN l ELSE K.begin)
                  /\ E.bottom_right = (IF l >= K.begin THEN l ELSE K.begin)
<1> DEFINE E == SetEnd(K, x, y)
           l == Loc(<<x, y>>)
           lo == Min({l, K.begin})
           hi == Max({l, K.begin})
           from == Cell(lo)
           to == Cell(hi)
           xs == {from[1], to[1]}
<1>1. CASE K.begin = Nowhere
  <2>1. E = K
    BY <1>1 DEF SetEnd
  <2> QED BY <1>1, <2>1 DEF SameDrag
<1>2. CASE K.begin # Nowhere
  <2>1. l \in 0 .. n * COLUMNS - 1 /\ n * COLUMNS \in Int /\ K.begin \in 0 .. n * COLUMNS - 1
    <3>1. l \in 0 .. n * COLUMNS - 1
      BY LocWithin
    <3>2. K.begin \in 0 .. n * COLUMNS - 1
      BY <1>2 DEF Fitting, Konsoles, Place
    <3> QED BY <3>1, <3>2, LinesApart
  <2> HIDE DEF l
  <2>2. /\ lo = (IF l <= K.begin THEN l ELSE K.begin) /\ hi = (IF l >= K.begin THEN l ELSE K.begin)
        /\ lo \in 0 .. n * COLUMNS - 1 /\ hi \in 0 .. n * COLUMNS - 1 /\ lo \in Nat /\ hi \in Nat /\ lo <= hi
    <3>1. l \in Int /\ K.begin \in Int
      BY <2>1
    <3>2. lo = (IF l <= K.begin THEN l ELSE K.begin) /\ hi = (IF l >= K.begin THEN l ELSE K.begin)
      BY <3>1, MinMaxOfTwo
    <3> QED BY <2>1, <3>2
  <2> HIDE DEF lo, hi
  <2>3. /\ from \in Column \X Nat /\ to \in Column \X Nat /\ Loc(from) = lo /\ Loc(to) = hi
        /\ from[1] \in Column /\ to[1] \in Column /\ from[2] \in Nat /\ to[2] \in Nat
        /\ from = <<from[1], from[2]>> /\ to = <<to[1], to[2]>>
    BY <2>2, CellFacts
  <2> HIDE DEF from, to
  <2>4. /\ lo = from[2] * COLUMNS + from[1] /\ hi = to[2] * COLUMNS + to[1]
        /\ from[2] < n /\ to[2] < n
    BY <2>2, <2>3, LocFacts, LocWithin
  <2>5. from[2] <= to[2]
    <3>1. to[2] < from[2] => to[2] * COLUMNS + COLUMNS <= from[2] * COLUMNS
      BY <2>3, LinesApart
    <3>2. to[2] * COLUMNS \in Int /\ from[2] * COLUMNS \in Int /\ to[1] \in 0 .. COLUMNS - 1 /\ from[1] \in 0 .. COLUMNS - 1
      BY <2>3, LinesApart DEF Column, Last
    <3> QED BY <2>2, <2>3, <2>4, <3>1, <3>2, ViewNumbers
  <2>6. Min(xs) \in Column /\ Max(xs) \in Column /\ Min(xs) <= Max(xs)
    <3>1. from[1] \in Int /\ to[1] \in Int
      BY <2>3, ViewNumbers DEF Column, Last
    <3>2. Min(xs) = (IF from[1] <= to[1] THEN from[1] ELSE to[1]) /\ Max(xs) = (IF from[1] >= to[1] THEN from[1] ELSE to[1])
      BY <3>1, MinMaxOfTwo
    <3> QED BY <2>3, <3>1, <3>2
  <2> HIDE DEF xs
  <2>7. K \in Konsoles(n) /\ \A l0 \in 0 .. n * COLUMNS - 1 : l0 \in Place(n)
    BY DEF Fitting, Place
  <2>8. CASE K.block_mode
    <3> DEFINE p == Loc(<<Min(xs), from[2]>>)
               q == Loc(<<Max(xs), to[2]>>)
    <3>1. E = [K EXCEPT !.top_left = p, !.bottom_right = q]
      BY <1>2, <2>8 DEF SetEnd, lo, hi, from, to, xs, l
    <3>2. p \in 0 .. n * COLUMNS - 1 /\ q \in 0 .. n * COLUMNS - 1
      BY <2>3, <2>4, <2>6, LocWithin
    <3>3. p <= q
      <4>1. p = from[2] * COLUMNS + Min(xs) /\ q = to[2] * COLUMNS + Max(xs)
        BY <2>3, <2>6, LocFacts
      <4>2. from[2] * COLUMNS <= to[2] * COLUMNS /\ from[2] * COLUMNS \in Int /\ to[2] * COLUMNS \in Int
        BY <2>3, <2>5, LinesApart
      <4>3. Min(xs) \in Int /\ Max(xs) \in Int
        BY <2>6, ViewNumbers DEF Column, Last
      <4> QED BY <2>6, <4>1, <4>2, <4>3
    <3> HIDE DEF p, q, E
    <3>4. /\ E \in Konsoles(n) /\ SameDrag(K, E) /\ E.block_mode = K.block_mode /\ E.begin = K.begin
          /\ E.top_left = p /\ E.bottom_right = q
      BY <2>7, <3>1, <3>2 DEF Konsoles, SameDrag
    <3>5. Fitting(E, n)
      BY <3>3, <3>4 DEF Fitting, Forwards
    <3> QED BY <1>2, <2>8, <3>4, <3>5 DEF E
  <2>9. CASE ~K.block_mode
    <3>1. E = [K EXCEPT !.top_left = lo, !.bottom_right = hi]
      BY <1>2, <2>3, <2>9 DEF SetEnd, lo, hi, from, to, l
    <3> HIDE DEF E
    <3>2. /\ E \in Konsoles(n) /\ SameDrag(K, E) /\ E.block_mode = K.block_mode /\ E.begin = K.begin
          /\ E.top_left = lo /\ E.bottom_right = hi
      BY <2>2, <2>7, <3>1 DEF Konsoles, SameDrag
    <3>3. Fitting(E, n)
      BY <2>2, <3>2 DEF Fitting, Forwards
    <3> QED BY <1>2, <2>2, <2>9, <3>2, <3>3 DEF E, l
  <2> QED BY <2>8, <2>9
<1> QED BY <1>1, <1>2

-----------------------------------------------------------------------------
(***************************************************************************)
(* The walks over the text, and the gestures that take them.               *)
(***************************************************************************)
\* The cells of the text.
TextCells(G) == Column \X (0 .. FootRow(G))

\* A cell of the text, by its number and by its line.
LEMMA CellsOfText ==
  ASSUME NEW G, Total(G) \in Nat \ {0}, NEW c \in TextCells(G)
  PROVE  /\ c[1] \in Column /\ c[2] \in 0 .. FootRow(G) /\ c[2] \in Nat /\ c = <<c[1], c[2]>>
         /\ FootRow(G) \in Nat /\ Last \in Column
         /\ Loc(c) \in Nat /\ Cell(Loc(c)) = c /\ Loc(<<Last, FootRow(G)>>) \in Nat
         /\ Loc(c) <= Loc(<<Last, FootRow(G)>>)
<1>1. /\ c[1] \in Column /\ c[2] \in 0 .. FootRow(G) /\ c[2] \in Nat /\ c = <<c[1], c[2]>>
      /\ FootRow(G) \in Nat /\ Last \in Column
  BY ViewNumbers DEF TextCells, FootRow, Column, Last
<1>2. /\ Loc(<<c[1], c[2]>>) = c[2] * COLUMNS + c[1] /\ Loc(<<c[1], c[2]>>) \in Nat
      /\ Cell(Loc(<<c[1], c[2]>>)) = <<c[1], c[2]>>
  BY <1>1, LocFacts
<1>3. Loc(<<Last, FootRow(G)>>) = FootRow(G) * COLUMNS + Last /\ Loc(<<Last, FootRow(G)>>) \in Nat
  BY <1>1, LocFacts
<1>4. c[2] * COLUMNS <= FootRow(G) * COLUMNS /\ c[2] * COLUMNS \in Int /\ FootRow(G) * COLUMNS \in Int
  BY <1>1, LinesApart
<1>5. c[1] \in Int /\ Last \in Int /\ c[1] <= Last
  BY <1>1, ViewNumbers DEF Column, Last
<1>6. c[2] * COLUMNS + c[1] <= FootRow(G) * COLUMNS + Last
  BY <1>4, <1>5
<1> QED BY <1>1, <1>2, <1>3, <1>6

LEMMA CellOfText ==
  ASSUME NEW G, Total(G) \in Nat \ {0}, NEW l \in 0 .. Loc(<<Last, FootRow(G)>>)
  PROVE  l \in Nat /\ Cell(l) \in TextCells(G) /\ Loc(Cell(l)) = l
<1>1. FootRow(G) \in Nat /\ Last \in Column /\ Total(G) \in Nat /\ FootRow(G) < Total(G)
  BY ViewNumbers DEF FootRow, Column, Last
<1>2. Loc(<<Last, FootRow(G)>>) \in 0 .. Total(G) * COLUMNS - 1
  BY <1>1, LocWithin
<1>3. l \in Nat /\ l \in 0 .. Total(G) * COLUMNS - 1
  BY <1>1, <1>2, LinesApart
<1>4. Cell(l) \in Column \X Nat /\ Loc(Cell(l)) = l
  BY <1>3, CellFacts
<1> DEFINE d == Cell(l)
<1> HIDE DEF d
<1>5. d \in Column \X Nat /\ Loc(d) = l
  BY <1>4 DEF d
<1>6. d[1] \in Column /\ d[2] \in Nat /\ d = <<d[1], d[2]>>
  BY <1>5
<1>7. d[2] < Total(G)
  BY <1>1, <1>3, <1>5, <1>6, LocWithin
<1>8. d \in TextCells(G)
  BY <1>1, <1>6, <1>7 DEF TextCells, FootRow
<1> QED BY <1>3, <1>5, <1>8 DEF d

\* The cells of the text are places a gesture may have been.
LEMMA SpotsOfText == ASSUME NEW G, Total(G) \in Nat \ {0}, NEW c \in TextCells(G) PROVE c \in Spot
<1>1. c[1] \in Column /\ c[2] \in Nat /\ c = <<c[1], c[2]>>
  BY CellsOfText
<1> QED BY <1>1 DEF Spot

\* A walk starts where it is, so it ends somewhere.
LEMMA EndsOfWalk ==
  ASSUME NEW a \in Nat, NEW b \in Nat, a <= b, NEW U, U \subseteq 0 .. a, a \in U, NEW D, D \subseteq a .. b, a \in D
  PROVE  Min(U) \in 0 .. a /\ Max(D) \in a .. b /\ Min(U) \in 0 .. b /\ Max(D) \in 0 .. b /\ Min(U) \in U /\ Max(D) \in D
<1>1. U \in SUBSET Nat /\ U # {} /\ D \in SUBSET (0 .. b) /\ D # {}
  OBVIOUS
<1>2. Min(U) \in U
  BY <1>1, MinOf
<1>3. Max(D) \in D
  BY <1>1, MaxOf
<1>4. Min(U) \in 0 .. a
  BY <1>2
<1>5. Max(D) \in a .. b
  BY <1>3
<1>6. \A x \in 0 .. a : x \in 0 .. b
  OBVIOUS
<1>7. \A x \in a .. b : x \in 0 .. b
  OBVIOUS
<1> QED BY <1>2, <1>3, <1>4, <1>5, <1>6, <1>7

LEMMA WordsOnText ==
  ASSUME NEW G, Total(G) \in Nat \ {0}, NEW c \in TextCells(G)
  PROVE  WordStart(G, c) \in TextCells(G) /\ WordEnd(G, c) \in TextCells(G)
<1> DEFINE foot == Loc(<<Last, FootRow(G)>>)
           at == Loc(c)
           U == {l \in 0 .. at : SameClass(G, l, at) /\ Upwards(G, Cell(l)[2], c[2])}
           D == {l \in at .. foot : SameClass(G, at, l) /\ Downwards(G, c[2], Cell(l)[2])}
<1>1. at \in Nat /\ Cell(at) = c /\ foot \in Nat /\ at <= foot /\ c[2] \in Nat
  BY CellsOfText
<1>2. Upwards(G, c[2], c[2]) /\ Downwards(G, c[2], c[2])
  BY <1>1 DEF Upwards, Downwards
<1> HIDE DEF foot, at
<1>3. SameClass(G, at, at)
  BY <1>1 DEF SameClass
<1>4. at \in U /\ U \subseteq 0 .. at /\ at \in D /\ D \subseteq at .. foot
  BY <1>1, <1>2, <1>3
<1>5. Cell(Min(U)) = WordStart(G, c) /\ Cell(Max(D)) = WordEnd(G, c)
  BY DEF WordStart, WordEnd, foot, at, FootRow
<1> HIDE DEF U, D
<1>6. at \in Nat /\ foot \in Nat /\ at <= foot
  BY <1>1
<1>7. Min(U) \in 0 .. foot /\ Max(D) \in 0 .. foot
  BY <1>4, <1>6, EndsOfWalk
<1>8. Cell(Min(U)) \in TextCells(G) /\ Cell(Max(D)) \in TextCells(G)
  BY <1>7, CellOfText DEF foot
<1> QED BY <1>5, <1>8

LEMMA LinesOnText ==
  ASSUME NEW G, Total(G) \in Nat \ {0}, NEW y \in 0 .. FootRow(G)
  PROVE  LineStart(G, y) \in 0 .. y /\ LineEnd(G, y) \in y .. FootRow(G)
<1> DEFINE U == {k \in 0 .. y : Upwards(G, k, y)}
           D == {k \in y .. FootRow(G) : Downwards(G, y, k)}
<1>1. FootRow(G) \in Nat /\ y \in Nat /\ y <= FootRow(G)
  BY ViewNumbers DEF FootRow
<1>2. Upwards(G, y, y) /\ Downwards(G, y, y)
  BY <1>1 DEF Upwards, Downwards
<1>3. y \in U /\ U \subseteq 0 .. y /\ y \in D /\ D \subseteq y .. FootRow(G)
  BY <1>1, <1>2
<1>4. Min(U) \in 0 .. y /\ Max(D) \in y .. FootRow(G)
  <2> HIDE DEF U, D
  <2> QED BY <1>1, <1>3, EndsOfWalk
<1>5. Min(U) = LineStart(G, y) /\ Max(D) = LineEnd(G, y)
  BY DEF LineStart, LineEnd, FootRow
<1> QED BY <1>4, <1>5

\* The selection of a gesture over G: fitting its text, its cells of G's numbering.
Made(G, K) == Fitting(K, Total(G)) /\ K.evicted_base = G.evicted /\ K.anchor \in TextCells(G)

LEMMA ModeNames == {"character", "word", "line"} \subseteq Mode /\ {0, 1, 2} \subseteq 0 .. 2
BY DEF Mode

LEMMA PressFacts ==
  ASSUME NEW G, Total(G) \in Nat \ {0}, G.evicted \in Nat, NEW K, Fitting(K, Total(G)),
         NEW c \in TextCells(G), NEW column \in BOOLEAN
  PROVE  Made(G, Press(G, K, c, column))
<1> DEFINE R == Clear(Rebase(K, G.evicted))
           P == Press(G, K, c, column)
<1>1. Fitting(R, Total(G)) /\ ~IsValid(R) /\ R.evicted_base = G.evicted
  <2> DEFINE B == Rebase(K, G.evicted)
  <2>1. Fitting(B, Total(G)) /\ B.evicted_base = G.evicted
    BY RebaseFacts
  <2> HIDE DEF B
  <2>2. Fitting(Clear(B), Total(G)) /\ ~IsValid(Clear(B)) /\ Clear(B).evicted_base = B.evicted_base
    BY <2>1, ClearFacts DEF SameDrag
  <2> QED BY <2>1, <2>2 DEF B
<1>2. P = [R EXCEPT !.mode = "character", !.anchor = c, !.head = c, !.act_sel = 1, !.column_mode = column]
  BY DEF Press
<1> HIDE DEF R, P
<1>3. c \in Spot
  BY SpotsOfText
<1>4. /\ P \in Konsoles(Total(G)) /\ P.anchor = c /\ P.evicted_base = G.evicted
      /\ P.top_left = R.top_left /\ P.bottom_right = R.bottom_right
  <2> DEFINE n == Total(G)
  <2>1. R \in Konsoles(n)
    BY <1>1 DEF Fitting
  <2> HIDE DEF n
  <2>2. /\ P \in Konsoles(n) /\ P.anchor = c /\ P.evicted_base = R.evicted_base
        /\ P.top_left = R.top_left /\ P.bottom_right = R.bottom_right
    BY <1>2, <1>3, <2>1, ModeNames DEF Konsoles
  <2> QED BY <1>1, <2>2 DEF n
<1>5. ~IsValid(P)
  BY <1>1, <1>4 DEF IsValid
<1> QED BY <1>4, <1>5 DEF Made, Fitting, Forwards, P

\* The mark of a double or a triple click.
LEMMA ClickFacts ==
  ASSUME NEW G, Total(G) \in Nat \ {0}, G.evicted \in Nat, NEW K \in Konsoles(Total(G)),
         K.evicted_base = G.evicted, K.anchor \in TextCells(G), NEW s \in TextCells(G), NEW e \in TextCells(G)
  PROVE  Made(G, SetEnd(SetStart(K, s[1], s[2], FALSE), e[1], e[2]))
<1> DEFINE n == Total(G)
           S == SetStart(K, s[1], s[2], FALSE)
           E == SetEnd(S, e[1], e[2])
<1>1. /\ s[1] \in Column /\ s[2] \in 0 .. n - 1 /\ e[1] \in Column /\ e[2] \in 0 .. n - 1
      /\ n \in Nat
  BY CellsOfText DEF FootRow
<1> HIDE DEF n
<1>2. K \in Konsoles(n)
  BY DEF n
<1>3. Fitting(S, n) /\ SameDrag(K, S)
  BY <1>1, <1>2, SetStartFacts
<1> HIDE DEF S
<1>4. Fitting(E, n) /\ SameDrag(S, E)
  BY <1>1, <1>3, SetEndFacts
<1> HIDE DEF E
<1>5. E.anchor = K.anchor /\ E.evicted_base = K.evicted_base
  BY <1>3, <1>4 DEF SameDrag
<1> QED BY <1>4, <1>5 DEF Made, S, E, n

LEMMA DoubleClickFacts ==
  ASSUME NEW G, Total(G) \in Nat \ {0}, G.evicted \in Nat, NEW K, Fitting(K, Total(G)), NEW c \in TextCells(G)
  PROVE  Made(G, DoubleClick(G, K, c))
<1> DEFINE R == Clear(Rebase(K, G.evicted))
           k == [R EXCEPT !.mode = "word", !.anchor = c, !.head = c, !.act_sel = 2]
<1>1. Fitting(R, Total(G)) /\ R.evicted_base = G.evicted
  <2> DEFINE B == Rebase(K, G.evicted)
  <2>1. Fitting(B, Total(G)) /\ B.evicted_base = G.evicted
    BY RebaseFacts
  <2> HIDE DEF B
  <2>2. Fitting(Clear(B), Total(G)) /\ Clear(B).evicted_base = B.evicted_base
    BY <2>1, ClearFacts DEF SameDrag
  <2> QED BY <2>1, <2>2 DEF B
<1>2. c \in Spot
  BY SpotsOfText
<1>3. k \in Konsoles(Total(G)) /\ k.evicted_base = G.evicted /\ k.anchor = c
  <2> DEFINE n == Total(G)
  <2>1. R \in Konsoles(n)
    BY <1>1 DEF Fitting
  <2> HIDE DEF n, R
  <2>2. k \in Konsoles(n) /\ k.evicted_base = R.evicted_base /\ k.anchor = c
    BY <1>2, <2>1, ModeNames DEF Konsoles
  <2> QED BY <1>1, <2>2 DEF n
<1>4. DoubleClick(G, K, c) = SetEnd(SetStart(k, WordStart(G, c)[1], WordStart(G, c)[2], FALSE),
                                    WordEnd(G, c)[1], WordEnd(G, c)[2])
  BY DEF DoubleClick
<1> HIDE DEF k
<1>5. WordStart(G, c) \in TextCells(G) /\ WordEnd(G, c) \in TextCells(G)
  BY WordsOnText
<1> QED BY <1>3, <1>4, <1>5, ClickFacts

LEMMA TripleClickFacts ==
  ASSUME NEW G, Total(G) \in Nat \ {0}, G.evicted \in Nat, NEW K, Fitting(K, Total(G)), NEW c \in TextCells(G)
  PROVE  Made(G, TripleClick(G, K, c))
<1> DEFINE R == Clear(Rebase(K, G.evicted))
           s == LineStart(G, c[2])
           e == LineEnd(G, c[2])
           k == [R EXCEPT !.mode = "line", !.act_sel = 2, !.triple_sel_begin = <<0, s>>,
                          !.anchor = <<c[1], e>>, !.head = <<Last, e>>]
<1>1. Fitting(R, Total(G)) /\ R.evicted_base = G.evicted
  <2> DEFINE B == Rebase(K, G.evicted)
  <2>1. Fitting(B, Total(G)) /\ B.evicted_base = G.evicted
    BY RebaseFacts
  <2> HIDE DEF B
  <2>2. Fitting(Clear(B), Total(G)) /\ Clear(B).evicted_base = B.evicted_base
    BY <2>1, ClearFacts DEF SameDrag
  <2> QED BY <2>1, <2>2 DEF B
<1>2. c[1] \in Column /\ c[2] \in 0 .. FootRow(G) /\ c[2] \in Nat /\ FootRow(G) \in Nat /\ Last \in Column
  BY CellsOfText
<1>3. s \in 0 .. FootRow(G) /\ e \in 0 .. FootRow(G)
  BY <1>2, LinesOnText
<1>4. TripleClick(G, K, c) = SetEnd(SetStart(k, 0, s, FALSE), Last, e)
  BY DEF TripleClick
<1> HIDE DEF s, e, R
<1>5. 0 \in Column
  BY ViewNumbers DEF Column, Last
<1>6. <<0, s>> \in TextCells(G) /\ <<Last, e>> \in TextCells(G) /\ <<c[1], e>> \in TextCells(G)
  BY <1>2, <1>3, <1>5 DEF TextCells
<1>7. <<0, s>> \in Spot /\ <<Last, e>> \in Spot /\ <<c[1], e>> \in Spot
  BY <1>6, SpotsOfText
<1>8. k \in Konsoles(Total(G)) /\ k.evicted_base = G.evicted /\ k.anchor = <<c[1], e>>
  <2> DEFINE n == Total(G)
             sw == <<0, s>>
             se == <<Last, e>>
             at == <<c[1], e>>
  <2>1. R \in Konsoles(n)
    BY <1>1 DEF Fitting
  <2> HIDE DEF n, sw, se, at
  <2>2. sw \in Spot /\ se \in Spot /\ at \in Spot
    BY <1>7 DEF sw, se, at
  <2>3. k = [R EXCEPT !.mode = "line", !.act_sel = 2, !.triple_sel_begin = sw, !.anchor = at, !.head = se]
    BY DEF sw, se, at
  <2> HIDE DEF k
  <2>4. k \in Konsoles(n) /\ k.evicted_base = R.evicted_base /\ k.anchor = at
    BY <2>1, <2>2, <2>3, ModeNames DEF Konsoles
  <2> QED BY <1>1, <2>4 DEF n, at
<1> DEFINE p == <<0, s>>
           q == <<Last, e>>
<1>9. p[1] = 0 /\ p[2] = s /\ q[1] = Last /\ q[2] = e /\ p \in TextCells(G) /\ q \in TextCells(G)
  BY <1>6
<1> HIDE DEF k, p, q
<1>10. Made(G, SetEnd(SetStart(k, p[1], p[2], FALSE), q[1], q[2]))
  BY <1>6, <1>8, <1>9, ClickFacts
<1> QED BY <1>4, <1>9, <1>10

LEMMA TowardsFacts ==
  ASSUME NEW G, Total(G) \in Nat \ {0}, NEW K, K.mode \in Mode, K.anchor \in TextCells(G), NEW c \in TextCells(G)
  PROVE  LET T == Towards(G, K, c)
             one == IF K.mode = "character" THEN 0 ELSE 1
         IN  /\ T.here \in TextCells(G) /\ T.start \in TextCells(G)
             /\ T.ohere = <<T.start[1] + one, T.start[2]>>
             /\ T.offset \in {-1, 0} /\ (T.offset = -1 => K.mode = "character")
<1> DEFINE a == K.anchor
           left == IF K.mode = "line" THEN c[2] < a[2] ELSE Precedes(c, a)
           near == IF left THEN c ELSE a
           far  == IF left THEN a ELSE c
           lo   == CASE K.mode = "character" -> near
                     [] K.mode = "word"      -> WordStart(G, near)
                     [] K.mode = "line"      -> <<0, LineStart(G, near[2])>>
           hi   == CASE K.mode = "character" -> far
                     [] K.mode = "word"      -> WordEnd(G, far)
                     [] K.mode = "line"      -> <<Last, LineEnd(G, far[2])>>
           one  == IF K.mode = "character" THEN 0 ELSE 1
           o    == IF left THEN hi ELSE lo
           here == IF left THEN lo ELSE hi
           offset == IF K.mode = "character" /\ ~left THEN -1 ELSE 0
<1>1. Towards(G, K, c) = [here |-> here, start |-> o, ohere |-> <<o[1] + one, o[2]>>, left |-> left, offset |-> offset]
  BY DEF Towards
<1>2. K.mode = "character" \/ K.mode = "word" \/ K.mode = "line"
  BY DEF Mode
<1> HIDE DEF left
<1>3. near \in TextCells(G) /\ far \in TextCells(G)
  OBVIOUS
<1> HIDE DEF near, far
<1>4. /\ WordStart(G, near) \in TextCells(G) /\ WordEnd(G, far) \in TextCells(G)
  BY <1>3, WordsOnText
<1>5. /\ <<0, LineStart(G, near[2])>> \in TextCells(G) /\ <<Last, LineEnd(G, far[2])>> \in TextCells(G)
  <2>1. near[2] \in 0 .. FootRow(G) /\ far[2] \in 0 .. FootRow(G) /\ FootRow(G) \in Nat /\ Last \in Column
    BY <1>3, CellsOfText
  <2>2. LineStart(G, near[2]) \in 0 .. near[2] /\ LineEnd(G, far[2]) \in far[2] .. FootRow(G)
    BY <2>1, LinesOnText
  <2>3. LineStart(G, near[2]) \in 0 .. FootRow(G) /\ LineEnd(G, far[2]) \in 0 .. FootRow(G)
    BY <2>1, <2>2
  <2>4. 0 \in Column
    BY ViewNumbers DEF Column, Last
  <2> QED BY <2>1, <2>3, <2>4 DEF TextCells
<1>6. lo \in TextCells(G)
  <2>1. CASE K.mode = "character"
    BY <1>3, <2>1
  <2>2. CASE K.mode = "word"
    BY <1>4, <2>2
  <2>3. CASE K.mode = "line"
    BY <1>5, <2>3
  <2> QED BY <1>2, <2>1, <2>2, <2>3
<1>7. hi \in TextCells(G)
  <2>1. CASE K.mode = "character"
    BY <1>3, <2>1
  <2>2. CASE K.mode = "word"
    BY <1>4, <2>2
  <2>3. CASE K.mode = "line"
    BY <1>5, <2>3
  <2> QED BY <1>2, <2>1, <2>2, <2>3
<1> HIDE DEF lo, hi
<1>8. here \in TextCells(G) /\ o \in TextCells(G)
  BY <1>6, <1>7
<1>9. offset \in {-1, 0} /\ (offset = -1 => K.mode = "character")
  OBVIOUS
<1> HIDE DEF here, o, offset
<1> QED BY <1>1, <1>8, <1>9

\* One short of a column, or that column, and no less than the first.
LEMMA ColumnBefore ==
  ASSUME NEW x \in Column, NEW d \in {-1, 0}
  PROVE  Max({0, x + d}) \in Column
<1>1. ASSUME NEW q \in Int PROVE Max({0, q}) = IF 0 >= q THEN 0 ELSE q
  BY AtLeastZero
<1>2. x \in 0 .. COLUMNS - 1 /\ x \in Int /\ x + d \in Int
  BY ViewNumbers DEF Column, Last
<1>3. Max({0, x + d}) = IF 0 >= x + d THEN 0 ELSE x + d
  BY <1>1, <1>2
<1> QED BY <1>2, <1>3, ViewNumbers DEF Column, Last

LEMMA DragFacts ==
  ASSUME NEW G, Total(G) \in Nat \ {0}, G.evicted \in Nat, NEW K0, Fitting(K0, Total(G)),
         K0.anchor[2] <= FootRow(G), NEW c, Clamp(G, c) \in TextCells(G)
  PROVE  Made(G, DragTo(G, K0, c))
<1> DEFINE n == Total(G)
           K1 == Rebase(K0, G.evicted)
           T == Towards(G, K1, Clamp(G, c))
           K == IF K1.mode = "line" THEN [K1 EXCEPT !.triple_sel_begin = T.start] ELSE K1
           block == K.column_mode /\ K.mode = "character"
           begun == IF K.act_sel >= 2 /\ ~Swapping(K1, T) THEN K
                    ELSE IF block THEN SetStart(K, T.ohere[1], T.ohere[2], TRUE)
                    ELSE SetStart(K, Max({0, T.ohere[1] - 1 - T.offset}), T.ohere[2], FALSE)
           end == IF block THEN T.here ELSE <<Max({0, T.here[1] + T.offset}), T.here[2]>>
           B == [begun EXCEPT !.act_sel = 2, !.head = T.here]
<1>1. /\ Fitting(K1, n) /\ K1.evicted_base = G.evicted /\ K1.anchor[2] <= K0.anchor[2]
      /\ K1 \in Konsoles(n) /\ K1.mode \in Mode /\ K1.anchor \in Spot /\ n \in Nat
  <2>1. Fitting(K1, n) /\ K1.evicted_base = G.evicted /\ K1.anchor[2] <= K0.anchor[2]
    BY RebaseFacts
  <2> HIDE DEF K1, n
  <2>2. K1 \in Konsoles(n) /\ K1.mode \in Mode /\ K1.anchor \in Spot
    BY <2>1 DEF Fitting, Konsoles
  <2> QED BY <2>1, <2>2 DEF n
<1>2. K1.anchor \in TextCells(G)
  <2>1. K0.anchor \in Spot
    BY DEF Fitting, Konsoles
  <2>2. K0.anchor[2] \in Nat
    BY <2>1 DEF Spot
  <2> DEFINE a == K1.anchor
  <2>3. a \in Column \X Nat /\ a[2] <= K0.anchor[2]
    BY <1>1 DEF Spot
  <2> HIDE DEF a
  <2>4. a[1] \in Column /\ a[2] \in Nat /\ a = <<a[1], a[2]>>
    BY <2>3
  <2>5. FootRow(G) \in Nat
    BY ViewNumbers DEF FootRow
  <2>6. a[2] \in 0 .. FootRow(G)
    BY <2>2, <2>3, <2>4, <2>5
  <2> QED BY <2>4, <2>6 DEF TextCells, a
<1> HIDE DEF n, K1
<1>3. /\ T.here \in TextCells(G) /\ T.start \in TextCells(G)
      /\ T.ohere = <<T.start[1] + (IF K1.mode = "character" THEN 0 ELSE 1), T.start[2]>>
      /\ T.offset \in {-1, 0} /\ (T.offset = -1 => K1.mode = "character")
  BY <1>1, <1>2, TowardsFacts
<1>4. T.here \in Spot /\ T.start \in Spot
  BY <1>3, SpotsOfText
<1>5. /\ T.here[1] \in Column /\ T.here[2] \in 0 .. n - 1 /\ T.start[1] \in Column /\ T.start[2] \in 0 .. n - 1
  BY <1>3, CellsOfText DEF FootRow, n
<1>6. DragTo(G, K0, c) = IF T.here \in {K.head, T.ohere} THEN K ELSE SetEnd(B, end[1], end[2])
  BY DEF DragTo, K1
<1> HIDE DEF T
<1>7. /\ K \in Konsoles(n) /\ K.anchor = K1.anchor /\ K.evicted_base = K1.evicted_base /\ K.mode = K1.mode
      /\ K.top_left = K1.top_left /\ K.bottom_right = K1.bottom_right /\ K.column_mode \in BOOLEAN
  BY <1>1, <1>4 DEF Konsoles
<1>8. Fitting(K, n)
  <2> HIDE DEF K
  <2> QED BY <1>1, <1>7 DEF Fitting, Forwards, IsValid
<1> HIDE DEF K
<1>9. Made(G, K)
  BY <1>1, <1>2, <1>7, <1>8 DEF Made, n
<1>10. T.ohere[1] = T.start[1] + (IF K.mode = "character" THEN 0 ELSE 1) /\ T.ohere[2] = T.start[2]
  BY <1>3, <1>7
<1>11. /\ Fitting(begun, n) /\ begun.anchor = K.anchor /\ begun.evicted_base = K.evicted_base
  <2>1. ASSUME NEW x \in Column, NEW bl \in BOOLEAN
        PROVE  LET S == SetStart(K, x, T.start[2], bl) IN
               Fitting(S, n) /\ S.anchor = K.anchor /\ S.evicted_base = K.evicted_base
    <3> DEFINE S == SetStart(K, x, T.start[2], bl)
    <3>1. Fitting(S, n) /\ SameDrag(K, S)
      BY <1>1, <1>5, <1>7, SetStartFacts
    <3> HIDE DEF S
    <3>2. S.anchor = K.anchor /\ S.evicted_base = K.evicted_base
      BY <3>1 DEF SameDrag
    <3> QED BY <3>1, <3>2 DEF S
  <2>2. block => T.ohere[1] = T.start[1]
    <3>1. T.start[1] \in Int
      BY <1>5, ViewNumbers DEF Column, Last
    <3> QED BY <1>10, <3>1
  <2>3. Max({0, T.ohere[1] - 1 - T.offset}) \in Column
    <3> DEFINE d == IF K.mode = "character" /\ T.offset = 0 THEN -1 ELSE 0
    <3>1. T.start[1] \in Int
      BY <1>5, ViewNumbers DEF Column, Last
    <3>2. T.ohere[1] - 1 - T.offset = T.start[1] + d
      BY <1>3, <1>7, <1>10, <3>1
    <3>3. d \in {-1, 0}
      OBVIOUS
    <3> HIDE DEF d
    <3>4. Max({0, T.start[1] + d}) \in Column
      BY <1>5, <3>3, ColumnBefore
    <3> QED BY <3>2, <3>4
  <2> DEFINE x1 == Max({0, T.ohere[1] - 1 - T.offset})
  <2>4. begun \in {K, SetStart(K, T.start[1], T.start[2], TRUE), SetStart(K, x1, T.start[2], FALSE)}
    BY <1>10, <2>2
  <2> HIDE DEF begun, x1
  <2>5. CASE begun = K
    BY <1>8, <2>5
  <2>6. CASE begun = SetStart(K, T.start[1], T.start[2], TRUE)
    BY <1>5, <2>1, <2>6
  <2>7. CASE begun = SetStart(K, x1, T.start[2], FALSE)
    <3>1. x1 \in Column
      BY <2>3 DEF x1
    <3> QED BY <2>1, <2>7, <3>1
  <2> QED BY <2>4, <2>5, <2>6, <2>7
<1> HIDE DEF begun
<1>12. /\ B \in Konsoles(n) /\ B.anchor = K.anchor /\ B.evicted_base = K.evicted_base
       /\ B.top_left = begun.top_left /\ B.bottom_right = begun.bottom_right
  <2>1. begun \in Konsoles(n)
    BY <1>11 DEF Fitting
  <2> QED BY <1>4, <1>11, <2>1, ModeNames DEF Konsoles
<1> HIDE DEF B
<1>13. Fitting(B, n)
  BY <1>11, <1>12 DEF Fitting, Forwards, IsValid
<1>14. end[1] \in Column /\ end[2] \in 0 .. n - 1
  <2>1. Max({0, T.here[1] + T.offset}) \in Column
    BY <1>3, <1>5, ColumnBefore
  <2> QED BY <1>5, <2>1
<1> HIDE DEF end
<1>15. Made(G, SetEnd(B, end[1], end[2]))
  <2> DEFINE E == SetEnd(B, end[1], end[2])
  <2>1. Fitting(E, n) /\ SameDrag(B, E)
    BY <1>1, <1>13, <1>14, SetEndFacts
  <2> HIDE DEF E
  <2>2. E.anchor = B.anchor /\ E.evicted_base = B.evicted_base
    BY <2>1 DEF SameDrag
  <2> QED BY <1>1, <1>2, <1>7, <1>12, <2>1, <2>2 DEF Made, E, n
<1> QED BY <1>6, <1>9, <1>15

-----------------------------------------------------------------------------
(***************************************************************************)
(* The find line: a search steps from hit to hit.                          *)
(***************************************************************************)
\* What is stepped n times from a start, by G.
Stepping(n, start, G, f) == f = [k \in 1 .. n |-> G[IF k = 1 THEN start ELSE f[k - 1]]]

LEMMA SteppingExists ==
  ASSUME NEW n \in Nat, NEW T, NEW H, H \subseteq T, NEW start \in T, NEW G, \A v \in T : G[v] \in H
  PROVE  \E f \in [1 .. n -> H] : Stepping(n, start, G, f)
<1> DEFINE B == {k \in 0 .. n : \E f \in [1 .. k -> H] : Stepping(k, start, G, f)}
<1>0. ASSUME NEW k \in Nat, NEW f \in [1 .. k -> H], \A j \in 1 .. k : f[j] = G[IF j = 1 THEN start ELSE f[j - 1]]
      PROVE  Stepping(k, start, G, f)
  BY <1>0 DEF Stepping
<1>1. 0 \in B
  <2>1. ASSUME NEW k \in Nat, k < 1 PROVE \E f \in [1 .. k -> H] : Stepping(k, start, G, f)
    <3> DEFINE f == [j \in 1 .. k |-> start]
    <3>1. \A j : j \notin 1 .. k
      BY <2>1
    <3>2. f \in [1 .. k -> H]
      BY <3>1
    <3> HIDE DEF f
    <3>3. Stepping(k, start, G, f)
      BY <1>0, <3>1, <3>2
    <3> QED BY <3>2, <3>3
  <2> QED BY <2>1
<1>2. ASSUME NEW k \in 1 .. n, k - 1 \in B PROVE k \in B
  <2>1. PICK g \in [1 .. k - 1 -> H] : Stepping(k - 1, start, G, g)
    BY <1>2
  <2> DEFINE last == G[IF k = 1 THEN start ELSE g[k - 1]]
             f == [j \in 1 .. k |-> IF j = k THEN last ELSE g[j]]
  <2>2. last \in H
    <3>1. k # 1 => g[k - 1] \in T
      BY <2>1
    <3> QED BY <3>1
  <2>3. f \in [1 .. k -> H]
    BY <2>1, <2>2
  <2>4. ASSUME NEW j \in 1 .. k PROVE f[j] = G[IF j = 1 THEN start ELSE f[j - 1]]
    <3>1. CASE j = k
      <4>1. k # 1 => f[k - 1] = g[k - 1]
        OBVIOUS
      <4> QED BY <3>1, <4>1
    <3>2. CASE j # k
      <4>1. j \in 1 .. k - 1 /\ (j # 1 => j - 1 \in 1 .. k - 1 /\ j - 1 # k /\ j - 1 \in 1 .. k)
        BY <3>2
      <4>2. g[j] = G[IF j = 1 THEN start ELSE g[j - 1]]
        BY <2>1, <4>1 DEF Stepping
      <4> QED BY <3>2, <4>1, <4>2
    <3> QED BY <3>1, <3>2
  <2> HIDE DEF f
  <2>5. Stepping(k, start, G, f)
    BY <1>0, <2>3, <2>4
  <2> QED BY <2>3, <2>5
<1> HIDE DEF B
<1>3. n \in B
  <2>1. \A k \in 0 .. n : k \in B
    BY <1>1, <1>2, StepByStep
  <2> QED BY <2>1
<1> QED BY <1>3 DEF B

\* A search from anywhere goes to a line with a hit.
LEMMA BeyondFacts ==
  ASSUME FootRow(screen) \in Nat, HitLines # {}, NEW i, NEW forward
  PROVE  Beyond(i, forward) \in HitLines
<1> DEFINE ahead == {h \in HitLines : IF forward THEN h > i ELSE h < i}
           from == IF ahead = {} THEN HitLines ELSE ahead
<1>1. HitLines \subseteq 0 .. FootRow(screen)
  BY DEF HitLines
<1>2. from # {} /\ from \subseteq HitLines
  OBVIOUS
<1>3. Beyond(i, forward) \in {Min(from), Max(from)}
  BY DEF Beyond
<1> HIDE DEF from
<1>4. from \in SUBSET Nat /\ from \in SUBSET (0 .. FootRow(screen))
  BY <1>1, <1>2
<1>5. Min(from) \in from
  BY <1>2, <1>4, MinOf
<1>6. Max(from) \in from
  BY <1>2, <1>4, MaxOf
<1> QED BY <1>2, <1>3, <1>5, <1>6

\* Where a search goes: the next line on its way, or the first from the other end.
LEMMA BeyondIs ==
  ASSUME FootRow(screen) \in Nat, HitLines # {}, NEW i, NEW forward \in BOOLEAN
  PROVE  LET ahead == {h \in HitLines : IF forward THEN h > i ELSE h < i}
             from  == IF ahead = {} THEN HitLines ELSE ahead
         IN  Beyond(i, forward) \in from /\ \A h \in from : IF forward THEN Beyond(i, forward) <= h ELSE Beyond(i, forward) >= h
<1> DEFINE ahead == {h \in HitLines : IF forward THEN h > i ELSE h < i}
           from == IF ahead = {} THEN HitLines ELSE ahead
<1>1. HitLines \subseteq 0 .. FootRow(screen)
  BY DEF HitLines
<1>2. from # {} /\ from \subseteq HitLines
  OBVIOUS
<1>3. Beyond(i, forward) = IF forward THEN Min(from) ELSE Max(from)
  BY DEF Beyond
<1> HIDE DEF from
<1>4. from \in SUBSET Nat /\ from \in SUBSET (0 .. FootRow(screen))
  BY <1>1, <1>2
<1>5. Min(from) \in from /\ \A h \in from : Min(from) <= h
  BY <1>2, <1>4, MinOf
<1>6. Max(from) \in from /\ \A h \in from : Max(from) >= h
  BY <1>2, <1>4, MaxOf
<1> QED BY <1>3, <1>5, <1>6 DEF from, ahead

\* A step is the first line of a walk that is above the floor.
LEMMA WalkFacts ==
  ASSUME FootRow(screen) \in Nat, find.mark \in Int, find.caret \in Int, HitLines # {}, NEW forward
  PROVE  \E hits \in [1 .. SELF_HITS -> HitLines] :
           /\ \A k \in 1 .. SELF_HITS : hits[k] = Beyond(IF k = 1 THEN Origin(forward) ELSE hits[k - 1], forward)
           /\ Step(forward) = Nowhere => \A k \in 1 .. SELF_HITS : ~(hits[k] < find.floor)
           /\ Step(forward) = Nowhere \/
                \E m \in 1 .. SELF_HITS : /\ Step(forward) = hits[m] /\ hits[m] < find.floor
                                          /\ \A k \in 1 .. m - 1 : ~(hits[k] < find.floor)
<1> DEFINE start == Origin(forward)
           G == [i \in Int |-> Beyond(i, forward)]
           Walk(f) == f = [k \in 1 .. SELF_HITS |-> Beyond(IF k = 1 THEN start ELSE f[k - 1], forward)]
           hits == CHOOSE f : Walk(f)
           above == {k \in 1 .. SELF_HITS : hits[k] < Floor}
<1>1. Step(forward) = IF HitLines = {} \/ above = {} THEN Nowhere ELSE hits[Min(above)]
  BY DEF Step
<1>2. Step(forward) = IF above = {} THEN Nowhere ELSE hits[Min(above)]
  BY <1>1
<1>3. start \in Int /\ SELF_HITS \in Nat /\ HitLines \subseteq 0 .. FootRow(screen) /\ HitLines \subseteq Int
  BY ViewNumbers, GlassAssumption DEF Origin, HitLines
<1> HIDE DEF start
<1>4. \A v \in Int : G[v] \in HitLines
  BY BeyondFacts
<1>5. PICK f \in [1 .. SELF_HITS -> HitLines] : Stepping(SELF_HITS, start, G, f)
  <2> HIDE DEF G
  <2> QED BY <1>3, <1>4, SteppingExists
<1>6. Walk(f)
  <2>1. ASSUME NEW k \in 1 .. SELF_HITS PROVE f[k] = Beyond(IF k = 1 THEN start ELSE f[k - 1], forward)
    <3>1. (IF k = 1 THEN start ELSE f[k - 1]) \in Int
      <4>1. CASE k = 1
        BY <1>3, <4>1
      <4>2. CASE k # 1
        <5>1. k - 1 \in 1 .. SELF_HITS
          BY <1>3, <4>2
        <5>2. f[k - 1] \in HitLines
          BY <1>5, <5>1
        <5> QED BY <1>3, <4>2, <5>2
      <4> QED BY <4>1, <4>2
    <3>2. f[k] = G[IF k = 1 THEN start ELSE f[k - 1]]
      BY <1>5 DEF Stepping
    <3> QED BY <3>1, <3>2
  <2>2. f = [k \in 1 .. SELF_HITS |-> f[k]]
    OBVIOUS
  <2> QED BY <2>1, <2>2
<1>7. Walk(hits)
  BY <1>6
<1> HIDE DEF hits
<1>8. /\ DOMAIN hits = 1 .. SELF_HITS
      /\ \A k \in 1 .. SELF_HITS : hits[k] = Beyond(IF k = 1 THEN start ELSE hits[k - 1], forward)
  BY <1>7
<1>9. hits = [k \in 1 .. SELF_HITS |-> hits[k]] /\ \A k \in 1 .. SELF_HITS : hits[k] \in HitLines
  BY <1>7, <1>8, BeyondFacts
<1>10. hits \in [1 .. SELF_HITS -> HitLines]
  <2> HIDE DEF Walk
  <2> QED BY <1>9
<1> HIDE DEF Walk, G
<1>11. above \in SUBSET Nat /\ \A k \in 1 .. SELF_HITS : k \in above <=> hits[k] < find.floor
  BY <1>3 DEF Floor
<1>12. CASE above = {}
  BY <1>2, <1>8, <1>10, <1>11, <1>12 DEF start
<1>13. CASE above # {}
  <2> DEFINE m == Min(above)
  <2>1. m \in above /\ \A k \in above : m <= k
    <3> HIDE DEF above
    <3> QED BY <1>11, <1>13, MinOf
  <2>2. m \in 1 .. SELF_HITS /\ Step(forward) = hits[m]
    BY <1>2, <1>13, <2>1
  <2> HIDE DEF m
  <2>3. hits[m] < find.floor /\ \A k \in 1 .. m - 1 : ~(hits[k] < find.floor)
    <3>1. hits[m] < find.floor
      BY <1>11, <2>1, <2>2
    <3>2. ASSUME NEW k \in 1 .. m - 1 PROVE k \notin above /\ k \in 1 .. SELF_HITS
      BY <1>3, <2>1, <2>2
    <3> QED BY <1>11, <3>1, <3>2
  <2>4. Step(forward) # Nowhere
    <3>1. hits[m] \in 0 .. FootRow(screen)
      BY <1>3, <1>9, <2>2
    <3> QED BY <2>2, <3>1 DEF Nowhere
  <2> QED BY <1>8, <1>10, <2>2, <2>3, <2>4 DEF start
<1> QED BY <1>12, <1>13

\* A hit found is one of the lines, above the floor.
LEMMA StepFacts ==
  ASSUME FootRow(screen) \in Nat, find.mark \in Int, find.caret \in Int, NEW forward, Step(forward) # Nowhere
  PROVE  Step(forward) \in HitLines /\ Step(forward) < find.floor /\ Step(forward) \in 0 .. FootRow(screen)
<1>1. HitLines # {}
  BY DEF Step
<1>2. PICK hits \in [1 .. SELF_HITS -> HitLines] :
        \E m \in 1 .. SELF_HITS : Step(forward) = hits[m] /\ hits[m] < find.floor
  BY <1>1, WalkFacts
<1>3. Step(forward) \in HitLines /\ Step(forward) < find.floor
  BY <1>2
<1> QED BY <1>3 DEF HitLines

\* What grows from each place to the next grows from any to a later one.
LEMMA Climbs ==
  ASSUME NEW n \in Nat, NEW f \in [1 .. n -> Int], \A k \in 2 .. n : f[k - 1] < f[k]
  PROVE  \A i, j \in 1 .. n : i < j => f[i] < f[j]
<1> DEFINE B == {k \in 0 .. n : \A i \in 1 .. k - 1 : f[i] < f[k]}
<1>1. 0 \in B
  OBVIOUS
<1>2. ASSUME NEW k \in 1 .. n, k - 1 \in B PROVE k \in B
  <2> SUFFICES ASSUME NEW i \in 1 .. k - 1 PROVE f[i] < f[k]
    OBVIOUS
  <2>1. k \in 2 .. n /\ k - 1 \in 1 .. n /\ i \in 1 .. n
    OBVIOUS
  <2>2. f[k - 1] < f[k] /\ f[k - 1] \in Int /\ f[k] \in Int /\ f[i] \in Int
    BY <2>1
  <2>3. i # k - 1 => f[i] < f[k - 1]
    <3>1. \A j \in 1 .. (k - 1) - 1 : f[j] < f[k - 1]
      BY <1>2
    <3>2. i # k - 1 => i \in 1 .. (k - 1) - 1
      OBVIOUS
    <3> QED BY <3>1, <3>2
  <2>4. CASE i = k - 1
    BY <2>2, <2>4
  <2>5. CASE i # k - 1
    <3>1. ASSUME NEW x \in Int, NEW y \in Int, NEW z \in Int, x < y, y < z PROVE x < z
      BY <3>1
    <3> QED BY <2>2, <2>3, <2>5, <3>1
  <2> QED BY <2>4, <2>5
<1> HIDE DEF B
<1>3. \A k \in 0 .. n : k \in B
  BY <1>1, <1>2, StepByStep
<1> QED BY <1>3 DEF B

\* As many different lines as places.
LEMMA OneEach ==
  ASSUME NEW n \in Nat, NEW T, IsFiniteSet(T), T \subseteq Int, NEW f \in [1 .. n -> T],
         (\A k \in 2 .. n : f[k - 1] < f[k]) \/ (\A k \in 2 .. n : f[k] < f[k - 1])
  PROVE  n <= Cardinality(T)
<1>1. ASSUME NEW i \in 1 .. n, NEW j \in 1 .. n, i < j PROVE f[i] # f[j]
  <2>1. f \in [1 .. n -> Int] /\ \A k \in 2 .. n : k \in 1 .. n /\ k - 1 \in 1 .. n
    <3>1. \A k \in 1 .. n : f[k] \in Int
      OBVIOUS
    <3>2. f \in [1 .. n -> Int]
      BY <3>1
    <3>3. \A k \in 2 .. n : k \in 1 .. n /\ k - 1 \in 1 .. n
      OBVIOUS
    <3> QED BY <3>2, <3>3
  <2>2. CASE \A k \in 2 .. n : f[k - 1] < f[k]
    <3>1. f[i] < f[j]
      BY <1>1, <2>1, <2>2, Climbs
    <3> QED BY <2>1, <3>1
  <2>3. CASE \A k \in 2 .. n : f[k] < f[k - 1]
    <3> DEFINE g == [k \in 1 .. n |-> 0 - f[k]]
    <3>1. g \in [1 .. n -> Int] /\ g[i] = 0 - f[i] /\ g[j] = 0 - f[j]
      BY <2>1
    <3>2. \A k \in 2 .. n : g[k - 1] < g[k]
      BY <2>1, <2>3
    <3> HIDE DEF g
    <3>3. g[i] < g[j]
      BY <1>1, <3>1, <3>2, Climbs
    <3> QED BY <2>1, <3>1, <3>3
  <2> QED BY <2>2, <2>3
<1>2. f \in Injection(1 .. n, T)
  <2>1. \A i, j \in 1 .. n : f[i] = f[j] => i = j
    BY <1>1
  <2> QED BY <2>1 DEF Injection, IsInjective
<1>3. Cardinality(1 .. n) <= Cardinality(T) /\ Cardinality(1 .. n) = n
  BY <1>2, FS_Injection, FS_Interval
<1> QED BY <1>3

\* A step finds the nearest of the lines above the floor, until as many from it
\* down have the query on them as a step tries. Each hit it steps over is one of
\* those, and none twice: a search that came round is back above the floor.
LEMMA StepIsNearest ==
  ASSUME FootRow(screen) \in Nat, find.mark \in Int, find.caret \in Int, find.floor \in Nat,
         Cardinality(HitsBelow) < SELF_HITS, NEW forward \in BOOLEAN
  PROVE  Step(forward) = NearestHit(forward)
<1> DEFINE start == Origin(forward)
           Onward(h, i) == IF forward THEN h > i ELSE h < i
           near == {h \in HitsAbove : Onward(h, start)}
           pool == IF near = {} THEN HitsAbove ELSE near
<1>1. /\ start \in Int /\ find.floor \in Int /\ SELF_HITS \in Nat /\ SELF_HITS # 0
      /\ HitLines \subseteq 0 .. FootRow(screen) /\ HitsBelow \subseteq 0 .. FootRow(screen)
      /\ \A h \in HitLines : h \in Int
      /\ \A h \in HitLines : h \in HitsAbove <=> h < find.floor
      /\ \A h \in HitLines : h \in HitsBelow <=> ~(h < find.floor)
      /\ \A h \in HitsAbove : h \in HitLines /\ h \in Int /\ h < find.floor
      /\ \A h \in HitsBelow : h \in HitLines /\ h \in Int /\ ~(h < find.floor)
  BY GlassAssumption DEF HitLines, HitsAbove, HitsBelow, Origin
<1>0. \A h, i \in Int : /\ forward => (Onward(h, i) <=> h > i)
                        /\ ~forward => (Onward(h, i) <=> h < i)
  OBVIOUS
<1>2. NearestHit(forward) = IF HitsAbove = {} THEN Nowhere ELSE IF forward THEN Min(pool) ELSE Max(pool)
  BY DEF NearestHit
<1> HIDE DEF start, Onward
<1>3. CASE HitsAbove = {}
  <2>1. HitLines = {} => Step(forward) = Nowhere
    BY DEF Step
  <2>2. HitLines # {} => Step(forward) = Nowhere
    <3> SUFFICES ASSUME HitLines # {}, Step(forward) # Nowhere PROVE FALSE
      OBVIOUS
    <3>1. Step(forward) \in HitLines /\ Step(forward) < find.floor
      BY StepFacts
    <3> QED BY <1>1, <1>3, <3>1
  <2> QED BY <1>2, <1>3, <2>1, <2>2
<1>4. CASE HitsAbove # {}
  <2>1. HitLines # {}
    BY <1>1, <1>4
  <2>2. PICK hits \in [1 .. SELF_HITS -> HitLines] :
          /\ \A k \in 1 .. SELF_HITS : hits[k] = Beyond(IF k = 1 THEN start ELSE hits[k - 1], forward)
          /\ Step(forward) = Nowhere => \A k \in 1 .. SELF_HITS : ~(hits[k] < find.floor)
          /\ Step(forward) = Nowhere \/
               \E m \in 1 .. SELF_HITS : /\ Step(forward) = hits[m] /\ hits[m] < find.floor
                                         /\ \A k \in 1 .. m - 1 : ~(hits[k] < find.floor)
    BY <2>1, WalkFacts DEF start
  \* Where each search lands, from where it began.
  <2> DEFINE from(k) == IF k = 1 THEN start ELSE hits[k - 1]
             ahead(i) == {h \in HitLines : Onward(h, i)}
  <2>3. ASSUME NEW k \in 1 .. SELF_HITS
        PROVE  /\ from(k) \in Int /\ hits[k] \in HitLines
               /\ \/ /\ Onward(hits[k], from(k))
                     /\ \A h \in HitLines : Onward(h, from(k)) => ~Onward(hits[k], h)
                  \/ \A h \in HitLines : ~Onward(h, from(k)) /\ ~Onward(hits[k], h)
    <3>1. hits[k] \in HitLines
      OBVIOUS
    <3>2. from(k) \in Int
      <4>1. CASE k = 1
        BY <1>1, <4>1
      <4>2. CASE k # 1
        <5>1. k - 1 \in 1 .. SELF_HITS
          BY <1>1, <4>2
        <5>2. hits[k - 1] \in HitLines /\ hits[k - 1] \in Int
          BY <1>1, <5>1
        <5> QED BY <4>2, <5>2
      <4> QED BY <4>1, <4>2
    <3>3. hits[k] = Beyond(from(k), forward)
      BY <2>2
    <3> HIDE DEF from
    <3> DEFINE i == from(k)
               ahd == {h \in HitLines : IF forward THEN h > i ELSE h < i}
               frm == IF ahd = {} THEN HitLines ELSE ahd
    <3>4. hits[k] \in frm /\ \A h \in frm : IF forward THEN hits[k] <= h ELSE hits[k] >= h
      BY <2>1, <3>3, BeyondIs
    <3>7. ahd = {h \in HitLines : Onward(h, i)} /\ hits[k] \in Int
      BY <1>1, <3>1 DEF Onward
    <3> HIDE DEF i, ahd
    <3>5. \A h \in frm : h \in HitLines /\ ~Onward(hits[k], h)
      <4> SUFFICES ASSUME NEW h \in frm PROVE h \in HitLines /\ ~Onward(hits[k], h)
        OBVIOUS
      <4>1. h \in HitLines /\ h \in Int
        BY <1>1, <3>7
      <4>2. IF forward THEN hits[k] <= h ELSE hits[k] >= h
        BY <3>4
      <4> HIDE DEF frm
      <4> QED BY <1>0, <3>7, <4>1, <4>2
    <3>6. hits[k] \in frm
      BY <3>4
    <3>8. \/ /\ Onward(hits[k], i)
             /\ \A h \in HitLines : Onward(h, i) => ~Onward(hits[k], h)
          \/ \A h \in HitLines : ~Onward(h, i) /\ ~Onward(hits[k], h)
      BY <3>5, <3>6, <3>7
    <3> QED BY <3>1, <3>2, <3>8 DEF i
  <2> HIDE DEF from
  <2>4. from(1) = start /\ \A k \in 2 .. SELF_HITS : from(k) = hits[k - 1] /\ k - 1 \in 1 .. SELF_HITS /\ k \in 1 .. SELF_HITS
    BY <1>1 DEF from
  \* Not every search lands from the floor down.
  <2>5. ~ \A k \in 1 .. SELF_HITS : ~(hits[k] < find.floor)
    <3> SUFFICES ASSUME \A k \in 1 .. SELF_HITS : ~(hits[k] < find.floor) PROVE FALSE
      OBVIOUS
    <3>1. \A k \in 1 .. SELF_HITS : hits[k] \in HitsBelow
      BY <1>1
    <3>2. PICK a \in HitsAbove : a \in HitLines /\ a \in Int /\ a < find.floor
      BY <1>1, <1>4
    <3>3. ASSUME NEW k \in 2 .. SELF_HITS PROVE Onward(hits[k], hits[k - 1])
      <4>1. k \in 1 .. SELF_HITS /\ from(k) = hits[k - 1] /\ hits[k - 1] \in HitsBelow /\ hits[k] \in HitsBelow
        BY <2>4, <3>1
      <4>2. ~(\A h \in HitLines : ~Onward(h, from(k)) /\ ~Onward(hits[k], h))
        <5>1. hits[k] > a /\ hits[k - 1] > a /\ hits[k] \in Int /\ hits[k - 1] \in Int
          <6>1. ASSUME NEW h \in HitsBelow PROVE h \in Int /\ h > a
            BY <1>1, <3>2
          <6> QED BY <4>1, <6>1
        <5>2. Onward(hits[k], a) \/ Onward(a, hits[k - 1])
          BY <1>0, <3>2, <5>1
        <5> QED BY <3>2, <4>1, <5>2
      <4> QED BY <2>3, <4>1, <4>2
    <3>4. hits \in [1 .. SELF_HITS -> HitsBelow] /\ HitsBelow \subseteq Int
      <4>1. HitsBelow \subseteq Int
        BY <1>1
      <4>2. hits = [k \in 1 .. SELF_HITS |-> hits[k]]
        OBVIOUS
      <4> QED BY <3>1, <4>1, <4>2
    <3>5. (\A k \in 2 .. SELF_HITS : hits[k - 1] < hits[k]) \/ (\A k \in 2 .. SELF_HITS : hits[k] < hits[k - 1])
      <4>1. \A k \in 2 .. SELF_HITS : hits[k] \in Int /\ hits[k - 1] \in Int
        BY <1>1, <2>4, <3>1
      <4> QED BY <1>0, <3>3, <4>1
    <3>6. IsFiniteSet(HitsBelow)
      <4>1. IsFiniteSet(0 .. FootRow(screen))
        BY FS_Interval
      <4>2. HitsBelow \in SUBSET (0 .. FootRow(screen))
        BY <1>1
      <4> QED BY <4>1, <4>2, FS_Subset
    <3>7. SELF_HITS <= Cardinality(HitsBelow) /\ Cardinality(HitsBelow) \in Nat
      BY <1>1, <3>4, <3>5, <3>6, OneEach, FS_CardinalityType
    <3> QED BY <1>1, <3>7
  \* The first that does not is the nearest.
  <2>6. PICK m \in 1 .. SELF_HITS : /\ Step(forward) = hits[m] /\ hits[m] < find.floor
                                   /\ \A k \in 1 .. m - 1 : ~(hits[k] < find.floor)
    BY <2>2, <2>5
  <2>7. hits[m] \in HitsAbove
    BY <1>1, <2>3, <2>6
  <2>8. hits[m] \in pool /\ \A h \in pool : ~Onward(hits[m], h)
    <3>1. CASE m = 1
      <4>1. from(m) = start
        BY <2>4, <3>1
      <4>2. CASE Onward(hits[m], start) /\ \A h \in HitLines : Onward(h, start) => ~Onward(hits[m], h)
        BY <1>1, <2>7, <4>2
      <4>3. CASE \A h \in HitLines : ~Onward(h, start) /\ ~Onward(hits[m], h)
        BY <1>1, <2>7, <4>3
      <4> QED BY <2>3, <4>1, <4>2, <4>3
    <3>2. CASE m # 1
      <4>1. /\ m \in 2 .. SELF_HITS /\ m - 1 \in 1 .. m - 1 /\ 1 \in 1 .. m - 1 /\ 1 \in 1 .. SELF_HITS
            /\ m - 1 \in 1 .. SELF_HITS
        BY <1>1, <3>2
      <4>2. /\ hits[1] \in HitsBelow /\ hits[m - 1] \in HitsBelow
            /\ from(m) = hits[m - 1] /\ from(1) = start
        <5>1. ~(hits[1] < find.floor) /\ ~(hits[m - 1] < find.floor)
          BY <2>6, <4>1
        <5>2. hits[1] \in HitLines /\ hits[m - 1] \in HitLines
          BY <4>1
        <5> QED BY <1>1, <2>4, <4>1, <5>1, <5>2
      <4>0. \A b \in HitsBelow, h \in HitsAbove : b \in Int /\ h \in Int /\ h < b
        BY <1>1
      <4>3. CASE forward
        <5>1. \A h \in HitLines : ~Onward(h, hits[m - 1]) /\ ~Onward(hits[m], h)
          <6>1. ~Onward(hits[m], hits[m - 1])
            BY <1>0, <2>7, <4>0, <4>2, <4>3
          <6> QED BY <2>3, <4>2, <6>1
        <5>2. near = {}
          <6> SUFFICES ASSUME NEW h \in HitsAbove, Onward(h, start) PROVE FALSE
            OBVIOUS
          <6>1. h \in HitLines /\ h < hits[1] /\ h \in Int /\ hits[1] \in Int
            BY <1>1, <4>0, <4>2
          <6>2. ~Onward(hits[1], h)
            BY <2>3, <4>1, <4>2, <6>1
          <6> QED BY <1>0, <4>3, <6>1, <6>2
        <5> QED BY <1>1, <2>7, <5>1, <5>2
      <4>4. CASE ~forward
        <5>1. \A h \in HitsAbove : Onward(h, hits[m - 1])
          BY <1>0, <4>0, <4>2, <4>4
        <5>2. \A h \in HitsAbove : ~Onward(hits[m], h)
          BY <1>1, <2>3, <2>7, <4>2, <5>1
        <5>3. near = {} \/ near = HitsAbove
          <6>1. CASE Onward(hits[1], start)
            <7>1. ASSUME NEW h \in HitsAbove PROVE Onward(h, start)
              <8>1. h < hits[1] /\ h \in Int /\ hits[1] \in Int
                BY <4>0, <4>2
              <8> QED BY <1>0, <1>1, <4>4, <6>1, <8>1
            <7> QED BY <7>1
          <6>2. CASE ~Onward(hits[1], start)
            <7>1. \A h \in HitLines : ~Onward(h, start)
              BY <2>3, <4>1, <4>2, <6>2
            <7> QED BY <1>1, <7>1
          <6> QED BY <6>1, <6>2
        <5> QED BY <2>7, <5>2, <5>3
      <4> QED BY <4>3, <4>4
    <3> QED BY <3>1, <3>2
  <2>9. pool \in SUBSET (0 .. FootRow(screen)) /\ pool \in SUBSET Nat /\ pool # {} /\ \A h \in pool : h \in Int
    <3>1. pool \subseteq HitsAbove /\ pool # {}
      BY <1>4
    <3>2. HitsAbove \subseteq 0 .. FootRow(screen)
      BY <1>1
    <3> HIDE DEF pool
    <3> QED BY <3>1, <3>2
  <2> HIDE DEF pool
  <2>10. /\ Min(pool) \in pool /\ \A h \in pool : Min(pool) <= h
         /\ Max(pool) \in pool /\ \A h \in pool : Max(pool) >= h
    BY <2>9, MinOf, MaxOf
  <2>11. hits[m] = IF forward THEN Min(pool) ELSE Max(pool)
    <3> DEFINE lo == Min(pool)
               hi == Max(pool)
    <3>1. /\ hits[m] \in Int /\ lo \in Int /\ hi \in Int
          /\ ~Onward(hits[m], lo) /\ ~Onward(hits[m], hi) /\ lo <= hits[m] /\ hi >= hits[m]
      BY <2>8, <2>9, <2>10
    <3> HIDE DEF lo, hi
    <3>2. CASE forward
      BY <1>0, <3>1, <3>2 DEF lo
    <3>3. CASE ~forward
      BY <1>0, <3>1, <3>3 DEF hi
    <3> QED BY <3>2, <3>3
  <2> QED BY <1>2, <1>4, <2>6, <2>11
<1> QED BY <1>3, <1>4

-----------------------------------------------------------------------------
(***************************************************************************)
(* The channel on the air: its inductive invariant.                        *)
(***************************************************************************)
Hands == [dragging : BOOLEAN, pointer : Spot, click : [cell : Spot, count : 0 .. 3], steady : BOOLEAN]

Finds == [on : BOOLEAN, caret : Nat, floor : Nat, mark : {Nowhere} \cup Nat]

\* What a channel on the air always is. An anchor left from another channel, and
\* from a drag that is over, may be off the text: the next press sets it.
OnAir ==
  /\ Standing(screen)
  /\ Fitting(sel, Total(screen))
  /\ IsValid(sel) \/ hand.dragging => sel.evicted_base <= screen.evicted
  /\ hand \in Hands
  /\ hand.dragging => sel.anchor[2] <= FootRow(screen)
  /\ find \in Finds /\ find.mark <= FootRow(screen)

LEMMA TotalFacts ==
  ASSUME NEW G, Standing(G)
  PROVE  /\ Total(G) \in Nat \ {0} /\ FootRow(G) \in Nat /\ G.evicted \in Nat /\ G.history \in Nat
         /\ Total(G) = G.history + Screen /\ FootRow(G) = G.history + Screen - 1
BY StandingFacts, ViewNumbers DEF Total, FootRow

\* The text only grows.
LEMMA TextGrows ==
  ASSUME NEW G, Standing(G), NEW H, Standing(H), G.history <= H.history, NEW K, Fitting(K, Total(G))
  PROVE  Fitting(K, Total(H)) /\ FootRow(G) <= FootRow(H)
<1> DEFINE m == Total(G)
           n == Total(H)
<1>1. m \in Nat /\ n \in Nat /\ m <= n /\ FootRow(G) <= FootRow(H)
  BY TotalFacts, ViewNumbers
<1> HIDE DEF m, n
<1>2. Konsoles(m) \subseteq Konsoles(n)
  BY <1>1, PlaceGrows
<1> QED BY <1>1, <1>2 DEF Fitting, m, n

\* The top of the view and the foot of the window are lines of the text.
LEMMA WindowFacts ==
  ASSUME NEW G, Standing(G)
  PROVE  /\ TopLine(G) \in 0 .. G.history /\ TopLine(G) = G.history - Ceil(G.pos)
         /\ BottomLine(G) \in TopLine(G) .. FootRow(G) /\ BottomLine(G) = TopLine(G) + Screen - 1
<1>1. Ceil(G.pos) \in 0 .. G.history /\ G.history \in Nat /\ FootRow(G) = G.history + Screen - 1
  BY StandingFacts, TotalFacts
<1>2. TopLine(G) = G.history - Ceil(G.pos)
  <2>1. ASSUME NEW q \in Int PROVE Max({0, q}) = IF 0 >= q THEN 0 ELSE q
    BY AtLeastZero
  <2>2. G.history - Ceil(G.pos) \in Int
    BY <1>1
  <2> QED BY <1>1, <2>1, <2>2 DEF TopLine
<1> QED BY <1>1, <1>2, ViewNumbers DEF BottomLine

\* The pointer is on a cell of the text, in the window or on the spare row.
LEMMA PointableFacts ==
  ASSUME Standing(screen), NEW c \in Pointable
  PROVE  c \in TextCells(screen) /\ Clamp(screen, c) \in TextCells(screen)
<1>1. /\ TopLine(screen) \in 0 .. screen.history /\ TopLine(screen) = screen.history - Ceil(screen.pos)
      /\ BottomLine(screen) \in TopLine(screen) .. FootRow(screen)
      /\ BottomLine(screen) = TopLine(screen) + Screen - 1
      /\ FootRow(screen) \in Nat /\ FootRow(screen) = screen.history + Screen - 1 /\ screen.history \in Nat
  BY WindowFacts, TotalFacts
<1>2. Shift(screen) > 0 => Ceil(screen.pos) # 0
  <2>1. screen.pos \in Nat /\ Ceil(screen.pos) \in Nat
    BY StandingFacts DEF Standing, Screens
  <2>2. Shift(screen) = Row(Ceil(screen.pos)) - screen.pos
    BY <2>1, ShiftFacts
  <2> QED BY <2>1, <2>2, RowType
<1>3. c[1] \in Column /\ c[2] \in TopLine(screen) .. (TopLine(screen) + (IF Shift(screen) > 0 THEN Screen ELSE Screen - 1))
  BY DEF Pointable, Column
<1>4. c[2] \in 0 .. FootRow(screen) /\ c = <<c[1], c[2]>>
  <2>1. Ceil(screen.pos) \in 0 .. screen.history
    BY StandingFacts
  <2>2. c[2] \in 0 .. FootRow(screen)
    BY <1>1, <1>2, <1>3, <2>1, ViewNumbers
  <2> QED BY <2>2 DEF Pointable
<1>5. c \in TextCells(screen)
  BY <1>3, <1>4 DEF TextCells
<1> DEFINE t == TopLine(screen)
           b == BottomLine(screen)
           y == c[2]
           low == Min({y, b})
           line == Max({t, low})
<1>6. t \in Int /\ b \in Int /\ y \in Int /\ 0 <= t /\ t <= b /\ b <= FootRow(screen)
  BY <1>1, <1>4
<1> HIDE DEF t, b, y
<1>7. low = (IF y <= b THEN y ELSE b)
  BY <1>6, MinMaxOfTwo
<1> HIDE DEF low
<1>8. low \in Int /\ low <= b
  BY <1>6, <1>7
<1>9. line = IF t >= low THEN t ELSE low
  BY <1>6, <1>8, MinMaxOfTwo
<1> HIDE DEF line
<1>10. line \in 0 .. FootRow(screen)
  BY <1>1, <1>6, <1>8, <1>9
<1>11. Clamp(screen, c) = <<c[1], line>>
  BY DEF Clamp, line, low, y, t, b
<1> QED BY <1>3, <1>5, <1>10, <1>11 DEF TextCells

LEMMA WatchFacts ==
  ASSUME hand \in Hands, Watching
  PROVE  hand' \in Hands /\ hand'.dragging = hand.dragging /\ hand'.pointer = hand.pointer
<1> DEFINE st == hand.steady /\ (hand.dragging => Stands)
<1>1. hand' = [hand EXCEPT !.steady = st]
  BY DEF Watching
<1>2. st \in BOOLEAN
  OBVIOUS
<1> HIDE DEF st
<1> QED BY <1>1, <1>2 DEF Hands

LEMMA LetGoFacts ==
  ASSUME hand \in Hands
  PROVE  /\ LetGo => hand' \in Hands /\ ~hand'.dragging
         /\ hand' = AtRest => hand' \in Hands /\ ~hand'.dragging
<1>1. <<0, 0>> \in Spot
  BY ViewNumbers DEF Spot, Column, Last
<1>2. AtRest \in Hands /\ AtRest.dragging = FALSE
  BY <1>1 DEF AtRest, NoClick, Hands
<1>3. [AtRest EXCEPT !.click = hand.click] \in Hands /\ [AtRest EXCEPT !.click = hand.click].dragging = FALSE
  BY <1>2 DEF Hands
<1> QED BY <1>2, <1>3 DEF LetGo

\* A step that grows the text at most, and leaves the mark.
LEMMA SelectionKept ==
  ASSUME OnAir, Standing(screen'), screen.history <= screen'.history, screen.evicted <= screen'.evicted,
         sel' = sel, hand' \in Hands, hand'.dragging => hand.dragging,
         find' \in Finds, find'.mark <= FootRow(screen')
  PROVE  OnAir'
<1>1. Fitting(sel', Total(screen')) /\ FootRow(screen) <= FootRow(screen')
  BY TextGrows DEF OnAir
<1>2. IsValid(sel') \/ hand'.dragging => sel'.evicted_base <= screen'.evicted
  <2>1. sel.evicted_base \in Nat
    BY DEF OnAir, Fitting, Konsoles
  <2> QED BY <2>1, TotalFacts DEF OnAir
<1>3. hand'.dragging => sel'.anchor[2] <= FootRow(screen')
  <2>1. sel.anchor \in Column \X Nat
    BY DEF OnAir, Fitting, Konsoles, Spot
  <2>2. sel.anchor[2] \in Nat
    BY <2>1
  <2> QED BY <1>1, <2>2, TotalFacts DEF OnAir
<1> QED BY <1>1, <1>2, <1>3 DEF OnAir

LEMMA LeftFacts ==
  ASSUME NEW G \in Left
  PROVE  /\ Standing(G)
         /\ screen.pos \in Nat => LET H == SyncView([G EXCEPT !.pos = screen.pos]) IN Standing(H)
<1>1. ASSUME NEW h \in 0 .. Scrollback, NEW o \in 0 .. h, NEW p \in Nat,
             NEW N, N = [evicted |-> 0, history |-> h, offset |-> o, pos |-> p, glide |-> NoGlide]
      PROVE  /\ N \in Screens /\ N.offset <= N.history /\ Bounded(N) /\ N.glide = NoGlide
             /\ N.offset = o /\ N.pos = p /\ N.history = h
  <2>1. NoGlide \in Glides /\ h \in Nat /\ o \in Nat /\ o <= h
    BY ViewNumbers DEF Glides
  <2> QED BY <1>1, <2>1 DEF Screens, Bounded
<1>2. ASSUME NEW h \in 0 .. Scrollback, NEW o \in 0 .. h, G = [evicted |-> 0, history |-> h, offset |-> o, pos |-> Row(o), glide |-> NoGlide]
      PROVE  Standing(G) /\ (screen.pos \in Nat => Standing(SyncView([G EXCEPT !.pos = screen.pos])))
  <2>1. h \in Nat /\ o \in Int /\ 0 <= o /\ o <= h /\ h \in Int
    BY ViewNumbers
  <2>2. Row(o) \in Nat /\ Row(o) <= Row(h) /\ Ceil(Row(o)) = o
    <3>1. Row(o) \in Int /\ Row(0) = 0 /\ Row(0) <= Row(o) /\ Row(o) <= Row(h)
      BY <2>1, RowType, RowOrder
    <3> QED BY <2>1, <3>1, CeilOfRow
  <2>3. /\ G \in Screens /\ G.offset <= G.history /\ Bounded(G) /\ G.offset = o /\ G.pos = Row(o) /\ G.history = h
    BY <1>1, <1>2, <2>2
  <2>4. Standing(G)
    BY <2>1, <2>2, <2>3 DEF Standing
  <2>5. ASSUME screen.pos \in Nat PROVE Standing(SyncView([G EXCEPT !.pos = screen.pos]))
    <3> DEFINE N == [G EXCEPT !.pos = screen.pos]
    <3>1. N = [evicted |-> 0, history |-> h, offset |-> o, pos |-> screen.pos, glide |-> NoGlide]
      BY <1>2
    <3> HIDE DEF N
    <3>2. N \in Screens /\ N.offset <= N.history /\ Bounded(N)
      BY <1>1, <2>5, <3>1
    <3>3. Level(SyncView(N))
      BY <3>2, SyncViewFacts
    <3> QED BY <3>3 DEF N, Level
  <2> QED BY <2>4, <2>5
<1>3. CASE G \in {[NewScreen(Scrollback) EXCEPT !.offset = o, !.pos = Row(o)] : o \in 0 .. Scrollback}
  <2>1. PICK o \in 0 .. Scrollback : G = [NewScreen(Scrollback) EXCEPT !.offset = o, !.pos = Row(o)]
    BY <1>3
  <2>2. G = [evicted |-> 0, history |-> Scrollback, offset |-> o, pos |-> Row(o), glide |-> NoGlide]
    BY <2>1 DEF NewScreen
  <2>3. Scrollback \in 0 .. Scrollback
    BY ViewNumbers
  <2> QED BY <1>2, <2>2, <2>3
<1>4. CASE G = NewScreen(Max({0, Scrollback - 1}))
  <2> DEFINE h == Max({0, Scrollback - 1})
  <2>1. h \in 0 .. Scrollback /\ 0 \in 0 .. h
    <3>1. ASSUME NEW q \in Int PROVE Max({0, q}) = IF 0 >= q THEN 0 ELSE q
      BY AtLeastZero
    <3>2. Scrollback - 1 \in Int
      BY ViewNumbers
    <3>3. h = IF 0 >= Scrollback - 1 THEN 0 ELSE Scrollback - 1
      BY <3>1, <3>2
    <3> HIDE DEF h
    <3> QED BY <3>3, ViewNumbers
  <2> HIDE DEF h
  <2>2. G = [evicted |-> 0, history |-> h, offset |-> 0, pos |-> Row(0), glide |-> NoGlide]
    BY <1>4, RowType DEF NewScreen, h
  <2> QED BY <1>2, <2>1, <2>2
<1> QED BY <1>3, <1>4 DEF Left

LEMMA OnAirStarts == GlassInit => OnAir
<1> SUFFICES ASSUME GlassInit PROVE OnAir
  OBVIOUS
<1>1. Standing(screen)
  BY LeftFacts DEF GlassInit
<1>2. Total(screen) \in Nat \ {0} /\ FootRow(screen) \in Nat
  BY <1>1, TotalFacts
<1>3. <<0, 0>> \in Spot
  BY ViewNumbers DEF Spot, Column, Last
<1>4. sel \in Konsoles(Total(screen)) /\ ~IsValid(sel)
  <2>1. Nowhere \in Place(Total(screen)) /\ FALSE \in BOOLEAN
    BY DEF Place
  <2>2. sel = NewKonsole
    BY DEF GlassInit
  <2>3. ~IsValid(sel)
    BY <2>2 DEF NewKonsole, IsValid, Nowhere
  <2>4. sel \in Konsoles(Total(screen))
    BY <1>3, <2>1, <2>2, ModeNames DEF Konsoles, NewKonsole
  <2> QED BY <2>3, <2>4
<1>5. hand \in Hands /\ ~hand.dragging
  BY <1>3 DEF GlassInit, AtRest, NoClick, Hands
<1>6. find \in Finds /\ find.mark <= FootRow(screen)
  BY <1>2 DEF GlassInit, NoFind, Finds, Nowhere
<1> QED BY <1>1, <1>4, <1>5, <1>6 DEF OnAir, Fitting, Forwards

LEMMA OutputLeaves == ASSUME OnAir, GlassTick \/ OpenFind \/ CloseFind PROVE OnAir'
<1>1. /\ Standing(screen) /\ Standing(screen')
      /\ screen.evicted <= screen'.evicted /\ screen.history <= screen'.history
  BY OutputStep DEF OnAir
<1>2. Watching /\ sel' = sel
  BY DEF GlassTick, OpenFind, CloseFind
<1>3. hand' \in Hands /\ hand'.dragging = hand.dragging
  BY <1>2, WatchFacts DEF OnAir
<1>4. /\ FootRow(screen) \in Nat /\ FootRow(screen') \in Nat /\ FootRow(screen) <= FootRow(screen')
      /\ screen'.evicted \in Nat
  BY <1>1, TotalFacts, ViewNumbers
<1>5. find' \in Finds /\ find'.mark <= FootRow(screen')
  <2>1. CASE find' = find
    <3>1. find.mark \in Int /\ find.mark <= FootRow(screen)
      BY DEF OnAir, Finds, Nowhere
    <3> QED BY <1>4, <2>1, <3>1 DEF OnAir
  <2>2. CASE find' = NoFind
    BY <1>4, <2>2 DEF NoFind, Finds, Nowhere
  <2>3. CASE OpenFind
    BY <1>4, <2>3 DEF OpenFind, Finds, Nowhere
  <2> QED BY <2>1, <2>2, <2>3 DEF GlassTick, CloseFind
<1> QED BY <1>1, <1>2, <1>3, <1>5, SelectionKept

\* What moves the view by hand moves no text.
LEMMA MovedFacts ==
  ASSUME OnAir, NEW G, Moved(G), Standing(G), SameText(screen, G)
  PROVE  OnAir' /\ screen' = G /\ sel' = sel
<1>1. screen' = G /\ Watching /\ sel' = sel /\ find' = find
  BY DEF Moved
<1>2. hand' \in Hands /\ hand'.dragging = hand.dragging
  BY <1>1, WatchFacts DEF OnAir
<1>3. Standing(screen') /\ screen'.history = screen.history /\ screen'.evicted = screen.evicted
  BY <1>1 DEF SameText
<1>4. FootRow(screen') = FootRow(screen) /\ screen.history \in Nat /\ screen.evicted \in Nat
  BY <1>3, TotalFacts DEF OnAir
<1>5. find' \in Finds /\ find'.mark <= FootRow(screen')
  BY <1>1, <1>4 DEF OnAir
<1> QED BY <1>1, <1>2, <1>3, <1>4, <1>5, SelectionKept

LEMMA HandKeeps ==
  ASSUME OnAir, Wheel \/ Fingers \/ ScrollKey \/ TypeBytes
  PROVE  OnAir' /\ SameText(screen, screen') /\ sel' = sel
<1>1. Standing(screen)
  BY DEF OnAir
<1>2. ASSUME NEW G, Standing(G), SameText(screen, G), Moved(G) PROVE OnAir' /\ SameText(screen, screen') /\ sel' = sel
  BY <1>2, MovedFacts
<1>3. CASE Wheel
  <2>1. PICK n \in {-1, 1} : Moved(ScrollWheel(screen, n))
    BY <1>3 DEF Wheel
  <2> DEFINE G == ScrollWheel(screen, n)
  <2>2. Standing(G) /\ SameText(screen, G)
    BY <1>1, WheelFacts
  <2> HIDE DEF G
  <2>3. Moved(G)
    BY <2>1 DEF G
  <2> QED BY <1>2, <2>2, <2>3
<1>4. CASE Fingers
  <2>1. PICK d \in {-1, 1} : Moved(ScrollPixels(screen, d))
    BY <1>4 DEF Fingers
  <2> DEFINE G == ScrollPixels(screen, d)
  <2>2. Standing(G) /\ SameText(screen, G)
    BY <1>1, PixelsFacts DEF Level
  <2> HIDE DEF G
  <2>3. Moved(G)
    BY <2>1 DEF G
  <2> QED BY <1>2, <2>2, <2>3
<1>5. ASSUME NEW d \in Int, Moved(Scroll(screen, d)) PROVE OnAir' /\ SameText(screen, screen') /\ sel' = sel
  <2> DEFINE G == Scroll(screen, d)
  <2>1. Standing(G) /\ SameText(screen, G)
    BY <1>1, ScrollFacts DEF Level
  <2> HIDE DEF G
  <2>2. Moved(G)
    BY <1>5 DEF G
  <2> QED BY <1>2, <2>1, <2>2
<1>6. ASSUME NEW o \in Int, Moved(Applied(screen, o)) PROVE OnAir' /\ SameText(screen, screen') /\ sel' = sel
  <2> DEFINE G == Applied(screen, o)
  <2>1. Standing(G) /\ SameText(screen, G)
    BY <1>1, AppliedFacts DEF Level
  <2> HIDE DEF G
  <2>2. Moved(G)
    BY <1>6 DEF G
  <2> QED BY <1>2, <2>1, <2>2
<1>7. screen.offset \in Int /\ screen.offset + Screen \in Int /\ screen.offset - Screen \in Int
  BY <1>1, StandingFacts, ViewNumbers
<1>8. CASE ScrollKey
  <2>1. CASE Moved(Scroll(screen, 1))
    BY <1>5, <2>1
  <2>2. CASE Moved(Scroll(screen, -1))
    BY <1>5, <2>2
  <2>3. CASE Moved(PageUp(screen))
    <3>1. Moved(Applied(screen, screen.offset + Screen))
      BY <2>3 DEF PageUp
    <3> QED BY <1>6, <1>7, <3>1
  <2>4. CASE Moved(PageDown(screen))
    <3>1. Moved(Applied(screen, screen.offset - Screen))
      BY <2>4 DEF PageDown
    <3> QED BY <1>6, <1>7, <3>1
  <2> QED BY <1>8, <2>1, <2>2, <2>3, <2>4 DEF ScrollKey
<1>9. CASE TypeBytes
  <2>1. Moved(Applied(screen, 0))
    BY <1>9 DEF TypeBytes, ToBottom
  <2> QED BY <1>6, <2>1
<1> QED BY <1>3, <1>4, <1>8, <1>9

\* A gesture leaves a selection made over the terminal on the air.
LEMMA MadeKeeps ==
  ASSUME OnAir, screen' = screen, find' = find, Made(screen, sel'), hand' \in Hands
  PROVE  OnAir'
<1>1. Fitting(sel', Total(screen')) /\ sel'.evicted_base = screen'.evicted /\ sel'.anchor[2] <= FootRow(screen')
  <2>1. sel'.anchor \in TextCells(screen) /\ Total(screen) \in Nat \ {0}
    BY TotalFacts DEF Made, OnAir
  <2>2. sel'.anchor[2] \in 0 .. FootRow(screen) /\ FootRow(screen) \in Nat
    BY <2>1, CellsOfText
  <2> QED BY <2>2 DEF Made
<1>2. screen'.evicted \in Nat
  BY TotalFacts DEF OnAir
<1> QED BY <1>1, <1>2 DEF OnAir

LEMMA PressedKeeps == ASSUME OnAir, Pressed PROVE OnAir'
<1>1. Standing(screen) /\ Total(screen) \in Nat \ {0} /\ screen.evicted \in Nat /\ Fitting(sel, Total(screen))
  BY TotalFacts DEF OnAir
<1>2. PICK c \in Pointable :
        \E n \in {1} \cup (IF hand.click.cell = c /\ hand.click.count \in 1 .. 2
                           THEN {hand.click.count + 1} ELSE {}) :
          /\ \/ n = 1 /\ \E column \in BOOLEAN : sel' = Press(screen, sel, c, column)
             \/ n = 2 /\ sel' = DoubleClick(screen, sel, c)
             \/ n = 3 /\ sel' = TripleClick(screen, sel, c)
          /\ hand' = [AtRest EXCEPT !.dragging = TRUE, !.pointer = c, !.click = [cell |-> c, count |-> n]]
  BY DEF Pressed
<1>3. PICK n :
        /\ \/ n = 1 /\ \E column \in BOOLEAN : sel' = Press(screen, sel, c, column)
           \/ n = 2 /\ sel' = DoubleClick(screen, sel, c)
           \/ n = 3 /\ sel' = TripleClick(screen, sel, c)
        /\ hand' = [AtRest EXCEPT !.dragging = TRUE, !.pointer = c, !.click = [cell |-> c, count |-> n]]
  BY <1>2
<1>4. c \in TextCells(screen)
  BY <1>1, PointableFacts
<1>5. Made(screen, sel')
  <2>1. CASE \E column \in BOOLEAN : sel' = Press(screen, sel, c, column)
    BY <1>1, <1>4, <2>1, PressFacts
  <2>2. CASE sel' = DoubleClick(screen, sel, c)
    BY <1>1, <1>4, <2>2, DoubleClickFacts
  <2>3. CASE sel' = TripleClick(screen, sel, c)
    BY <1>1, <1>4, <2>3, TripleClickFacts
  <2> QED BY <1>3, <2>1, <2>2, <2>3
<1>6. hand' \in Hands
  <2>1. c \in Spot
    BY <1>1, <1>4, SpotsOfText
  <2>2. hand' = [dragging |-> TRUE, pointer |-> c, click |-> [cell |-> c, count |-> n], steady |-> TRUE]
    BY <1>3 DEF AtRest
  <2>3. n \in 0 .. 3
    BY <1>3
  <2> QED BY <2>1, <2>2, <2>3 DEF Hands
<1> QED BY <1>5, <1>6, MadeKeeps DEF Pressed

LEMMA DraggedKeeps == ASSUME OnAir, Dragged PROVE OnAir'
<1>1. Standing(screen) /\ Total(screen) \in Nat \ {0} /\ screen.evicted \in Nat /\ Fitting(sel, Total(screen))
  BY TotalFacts DEF OnAir
<1>2. PICK c \in Pointable : sel' = DragTo(screen, sel, c) /\ hand' = [hand EXCEPT !.pointer = c]
  BY DEF Dragged
<1>3. c \in TextCells(screen) /\ Clamp(screen, c) \in TextCells(screen)
  BY <1>1, PointableFacts
<1>4. sel.anchor[2] <= FootRow(screen)
  BY DEF Dragged, OnAir
<1>5. Made(screen, sel')
  BY <1>1, <1>2, <1>3, <1>4, DragFacts
<1>6. hand' \in Hands
  <2>1. c \in Spot
    BY <1>1, <1>3, SpotsOfText
  <2> QED BY <1>2, <2>1 DEF OnAir, Hands
<1> QED BY <1>5, <1>6, MadeKeeps DEF Dragged

LEMMA LetGoKeeps == ASSUME OnAir, Released \/ Unfocused PROVE OnAir'
<1>1. screen' = screen /\ find' = find /\ LetGo
  BY DEF Released, Unfocused
<1>2. hand' \in Hands /\ ~hand'.dragging
  BY <1>1, LetGoFacts DEF OnAir
<1>3. Fitting(sel', Total(screen')) /\ (IsValid(sel') => sel'.evicted_base <= screen'.evicted)
  <2>1. CASE sel' = sel
    BY <1>1, <2>1 DEF OnAir
  <2>2. CASE sel' = Release(screen, sel)
    <3> DEFINE R == Rebase(sel, screen.evicted)
               n == Total(screen)
    <3>1. n \in Nat /\ screen.evicted \in Nat /\ Fitting(sel, n)
      BY TotalFacts DEF OnAir
    <3> HIDE DEF n
    <3>2. Fitting(R, n) /\ R.evicted_base = screen.evicted
      BY <3>1, RebaseFacts
    <3>3. sel' = [R EXCEPT !.act_sel = 0]
      BY <2>2 DEF Release
    <3> HIDE DEF R
    <3>4. /\ sel' \in Konsoles(n) /\ sel'.evicted_base = R.evicted_base
          /\ sel'.top_left = R.top_left /\ sel'.bottom_right = R.bottom_right
      BY <3>2, <3>3, ModeNames DEF Konsoles, Fitting
    <3>5. Fitting(sel', n)
      BY <3>2, <3>4 DEF Fitting, Forwards, IsValid
    <3> QED BY <1>1, <3>1, <3>2, <3>4, <3>5 DEF n
  <2> QED BY <2>1, <2>2 DEF Released, Unfocused
<1> QED BY <1>1, <1>2, <1>3 DEF OnAir

LEMMA FindKeeps ==
  ASSUME OnAir, FindStep
  PROVE  /\ OnAir' /\ SameText(screen, screen') /\ sel' = sel
         /\ find'.mark \in 0 .. FootRow(screen) /\ find'.mark < find.floor
         /\ screen' = Reveal(screen, find'.mark)
<1>1. Standing(screen) /\ FootRow(screen) \in Nat /\ FootRow(screen) = Total(screen) - 1
  BY TotalFacts DEF OnAir, FootRow
<1>2. PICK forward \in BOOLEAN :
        /\ Step(forward) # Nowhere /\ find' = [find EXCEPT !.mark = Step(forward)]
        /\ screen' = Reveal(screen, Step(forward))
  BY DEF FindStep
<1>3. find.mark \in Int /\ find.caret \in Int
  BY DEF OnAir, Finds, Nowhere
<1>4. Step(forward) < find.floor /\ Step(forward) \in 0 .. FootRow(screen)
  BY <1>1, <1>2, <1>3, StepFacts
<1>5. find' \in Finds /\ find'.mark = Step(forward)
  BY <1>1, <1>2, <1>4 DEF OnAir, Finds
<1>6. Standing(screen') /\ SameText(screen, screen')
  <2> DEFINE line == Step(forward)
             H == Reveal(screen, line)
  <2>1. line \in 0 .. Total(screen) - 1
    BY <1>1, <1>4
  <2> HIDE DEF line
  <2>2. Standing(H) /\ SameText(screen, H)
    BY <1>1, <2>1, RevealFacts
  <2> QED BY <1>2, <2>2 DEF line
<1>7. Watching /\ sel' = sel
  BY DEF FindStep
<1>8. hand' \in Hands /\ hand'.dragging = hand.dragging
  BY <1>7, WatchFacts DEF OnAir
<1>9. /\ FootRow(screen') = FootRow(screen) /\ screen'.history = screen.history /\ screen'.evicted = screen.evicted
      /\ screen.history \in Nat /\ screen.evicted \in Nat
  BY <1>1, <1>6, TotalFacts DEF SameText
<1>10. OnAir'
  <2>1. screen.history <= screen'.history /\ screen.evicted <= screen'.evicted
    BY <1>9
  <2>2. find'.mark <= FootRow(screen')
    BY <1>1, <1>4, <1>5, <1>9
  <2> QED BY <1>5, <1>6, <1>7, <1>8, <2>1, <2>2, SelectionKept
<1> QED BY <1>2, <1>4, <1>5, <1>6, <1>7, <1>10

LEMMA SwitchedKeeps == ASSUME OnAir, Switched PROVE OnAir'
<1>1. PICK G \in Left : screen' = SyncView([G EXCEPT !.pos = screen.pos])
  BY DEF Switched
<1>2. Standing(screen')
  <2>1. screen.pos \in Nat
    BY DEF OnAir, Standing, Screens
  <2> QED BY <1>1, <2>1, LeftFacts
<1>3. Total(screen) \in Nat /\ Total(screen') \in Nat /\ FootRow(screen') \in Nat
  BY <1>2, TotalFacts DEF OnAir
<1>4. hand' \in Hands /\ ~hand'.dragging
  BY LetGoFacts DEF OnAir, Switched
<1>5. find' \in Finds /\ find'.mark <= FootRow(screen')
  BY <1>3 DEF Switched, NoFind, Finds, Nowhere
<1>6. Fitting(sel', Total(screen')) /\ ~IsValid(sel')
  <2>1. sel' = [sel EXCEPT !.begin = Nowhere, !.top_left = Nowhere, !.bottom_right = Nowhere]
    BY DEF Switched, Clear
  <2> DEFINE m == Total(screen)
             n == Total(screen')
  <2>2. sel \in Konsoles(m)
    BY DEF OnAir, Fitting
  <2> HIDE DEF m, n
  <2>3. Nowhere \in Place(n)
    BY DEF Place
  <2>4. sel' \in Konsoles(n) /\ sel'.top_left = Nowhere
    BY <2>1, <2>2, <2>3 DEF Konsoles
  <2>5. ~IsValid(sel')
    BY <2>4 DEF IsValid, Nowhere
  <2> QED BY <2>4, <2>5 DEF Fitting, Forwards, n
<1> QED BY <1>2, <1>4, <1>5, <1>6 DEF OnAir

LEMMA OnAirSteps == OnAir /\ [GlassNext]_glassVars => OnAir'
<1> SUFFICES ASSUME OnAir, [GlassNext]_glassVars PROVE OnAir'
  OBVIOUS
<1>1. CASE UNCHANGED glassVars
  BY <1>1 DEF glassVars, OnAir
<1>2. CASE GlassNext
  BY <1>2, OutputLeaves, HandKeeps, PressedKeeps, DraggedKeeps, LetGoKeeps, FindKeeps, SwitchedKeeps DEF GlassNext
<1> QED BY <1>1, <1>2

\* The terminal on the air, the mark on it and the hit keep to the text there is,
\* whatever moves them, and whichever of them was brought up to it last.
THEOREM GlassAlwaysOnAir == GlassSpec => []OnAir
BY OnAirStarts, OnAirSteps, PTL DEF GlassSpec

LEMMA OnAirTypes == OnAir => GlassTypeOK
<1> SUFFICES ASSUME OnAir PROVE GlassTypeOK
  OBVIOUS
<1>1. Standing(screen) /\ Total(screen) \in Nat \ {0} /\ FootRow(screen) \in Nat /\ FootRow(screen) = Total(screen) - 1
  BY TotalFacts DEF OnAir, FootRow
<1>2. screen.history \in 0 .. Scrollback /\ screen.offset \in 0 .. screen.history /\ screen.pos \in 0 .. Row(screen.history)
  BY <1>1, StandingFacts, ViewNumbers
<1>3. sel \in Konsoles(Total(screen))
  BY DEF OnAir, Fitting
<1>4. Loc(<<Last, FootRow(screen)>>) = Total(screen) * COLUMNS - 1 /\ Total(screen) * COLUMNS \in Int
  <2>1. Last \in Column /\ Last = COLUMNS - 1
    BY ViewNumbers DEF Column, Last
  <2>2. Loc(<<Last, FootRow(screen)>>) = FootRow(screen) * COLUMNS + Last
    BY <1>1, <2>1, LocFacts
  <2>3. FootRow(screen) * COLUMNS = Total(screen) * COLUMNS - COLUMNS /\ Total(screen) * COLUMNS \in Int
    BY <1>1, ViewNumbers
  <2> QED BY <2>1, <2>2, <2>3, ViewNumbers
<1>5. IsValid(sel) => /\ sel.top_left \in 0 .. Loc(<<Last, FootRow(screen)>>)
                      /\ sel.bottom_right \in 0 .. Loc(<<Last, FootRow(screen)>>)
  <2> SUFFICES ASSUME IsValid(sel) PROVE sel.top_left \in 0 .. Total(screen) * COLUMNS - 1
                                         /\ sel.bottom_right \in 0 .. Total(screen) * COLUMNS - 1
    BY <1>4
  <2>1. sel.top_left # Nowhere /\ sel.bottom_right # Nowhere
    BY <1>1, <1>3, ValidIs
  <2>2. sel.top_left \in Place(Total(screen)) /\ sel.bottom_right \in Place(Total(screen))
    BY <1>3 DEF Konsoles
  <2> QED BY <2>1, <2>2 DEF Place
<1>6. sel.mode \in Mode /\ sel.act_sel \in 0 .. 2 /\ sel.evicted_base \in Nat
  BY <1>3 DEF Konsoles
<1>7. hand.dragging \in BOOLEAN /\ hand.click.count \in 0 .. 3
  BY DEF OnAir, Hands
<1>8. find.mark \in {Nowhere} \cup 0 .. FootRow(screen)
  BY <1>1 DEF OnAir, Finds
<1> QED BY <1>2, <1>5, <1>6, <1>7, <1>8 DEF GlassTypeOK

\* Where the view is, and what may move it.
THEOREM ViewAlwaysKeepsItsPlace == GlassSpec => ViewKeepsItsPlace
<1>1. OnAir /\ [GlassNext]_glassVars => [OutputKeepsTheView]_glassVars
  <2> SUFFICES ASSUME OnAir, GlassTick \/ OpenFind \/ CloseFind PROVE OutputKeepsTheView
    BY DEF OutputKeepsTheView
  <2>1. Unmoved(screen, screen')
    BY OutputStep DEF OnAir
  <2> QED BY <2>1 DEF OutputKeepsTheView, Unmoved, Top
<1> QED BY <1>1, OnAirStarts, OnAirSteps, OnAirTypes, PTL DEF GlassSpec, ViewKeepsItsPlace, OutputMovesNoView

\* What a search of the find line finds at any time, and where a step puts it: the
\* nearest line above the floor, while fewer lines from the floor down have the
\* query on them than a step tries; on the screen, or a row above it when the view
\* stood less than half a row past a line, and below it by no more than the lines
\* that came since the last tick.
THEOREM FindAlwaysShowsTheHit == GlassSpec => []FindsTheNearest /\ FindShowsTheHit
<1>1. OnAir => FindsTheNearest
  <2> SUFFICES ASSUME OnAir, Cardinality(HitsBelow) < SELF_HITS, NEW forward \in BOOLEAN
               PROVE  Step(forward) = NearestHit(forward)
    BY DEF FindsTheNearest
  <2>1. FootRow(screen) \in Nat
    BY TotalFacts DEF OnAir, FootRow
  <2>2. find.mark \in Int /\ find.caret \in Int /\ find.floor \in Nat
    BY DEF OnAir, Finds, Nowhere
  <2> QED BY <2>1, <2>2, StepIsNearest
<1>2. OnAir /\ [GlassNext]_glassVars => (FindStep => HitIsShown)
  <2> SUFFICES ASSUME OnAir, FindStep PROVE HitIsShown
    OBVIOUS
  <2> DEFINE line == find'.mark
             H == Reveal(screen, line)
  <2>1. line \in 0 .. FootRow(screen) /\ screen' = H
    BY FindKeeps
  <2>2. Standing(screen) /\ FootRow(screen) = Total(screen) - 1
    BY DEF OnAir, FootRow
  <2> HIDE DEF line
  <2>3. line - (H.history - H.offset) \in
          -(IF Round(screen.pos) = Ceil(screen.pos) THEN 0 ELSE 1) .. Screen - 1 + (screen.offset - Ceil(screen.pos))
    BY <2>1, <2>2, RevealFacts
  <2> QED BY <2>1, <2>3 DEF HitIsShown, line
<1>3. OnAir /\ [GlassNext]_glassVars
        => [(find' # find => FindsTheNearest) /\ (FindStep => HitIsShown)]_glassVars
  BY <1>1, <1>2
<1> QED BY <1>1, <1>3, OnAirStarts, OnAirSteps, PTL DEF GlassSpec, FindShowsTheHit

-----------------------------------------------------------------------------
(***************************************************************************)
(* The mark while lines go: the shift of its ends, and of its cells.       *)
(***************************************************************************)
\* A cell some lines further on is in the same column.
LEMMA LinesOn ==
  ASSUME NEW l \in Nat, NEW d \in Nat
  PROVE  /\ (l + d * COLUMNS) % COLUMNS = l % COLUMNS /\ (l + d * COLUMNS) \div COLUMNS = l \div COLUMNS + d
         /\ l + d * COLUMNS \in Nat /\ d * COLUMNS \in Nat
<1>1. l % COLUMNS \in Column /\ l \div COLUMNS \in Nat /\ l = (l \div COLUMNS) * COLUMNS + (l % COLUMNS)
  BY CellFacts
<1> DEFINE x == l % COLUMNS
           y == l \div COLUMNS
<1> HIDE DEF x, y
<1>2. x \in Column /\ y \in Nat /\ l = y * COLUMNS + x /\ x \in Int
  BY <1>1, ViewNumbers DEF x, y, Column, Last
<1>3. (y + d) * COLUMNS = y * COLUMNS + d * COLUMNS /\ y * COLUMNS \in Int /\ d * COLUMNS \in Nat
  BY <1>2, ViewNumbers
<1>4. /\ Loc(<<x, y + d>>) \in Nat /\ Loc(<<x, y + d>>) = (y + d) * COLUMNS + x
      /\ Loc(<<x, y + d>>) % COLUMNS = x /\ Loc(<<x, y + d>>) \div COLUMNS = y + d
  <2>1. y + d \in Nat
    BY <1>2
  <2> QED BY <1>2, <2>1, LocFacts
<1>5. Loc(<<x, y + d>>) = l + d * COLUMNS
  BY <1>2, <1>3, <1>4
<1> QED BY <1>3, <1>4, <1>5 DEF x, y

\* Lines gone in two goes are gone.
LEMMA ShiftedTwice ==
  ASSUME NEW n \in Nat, NEW l \in Place(n), NEW g \in Nat, NEW d \in Nat
  PROVE  Shifted(Shifted(l, g), d) = Shifted(l, g + d)
<1>1. CASE l = Nowhere
  BY <1>1 DEF Shifted, Nowhere
<1>2. CASE l # Nowhere
  <2> DEFINE s == Shifted(l, g)
             x == l % COLUMNS
             y == l \div COLUMNS
  <2>1. /\ s \in Place(n) /\ s # Nowhere /\ l \in Nat /\ s \in Nat
        /\ s = (IF y >= g THEN l - g * COLUMNS ELSE x) /\ s \div COLUMNS = (IF y >= g THEN y - g ELSE 0)
        /\ s % COLUMNS = x
    BY <1>2, ShiftedFacts
  <2>2. Shifted(l, g + d) = IF y >= g + d THEN l - (g + d) * COLUMNS ELSE x
    <3>1. g + d \in Nat
      OBVIOUS
    <3> QED BY <1>2, <3>1, ShiftedFacts
  <2>3. x \in Int /\ y \in Nat
    <3>1. x \in Column /\ y \in Nat
      BY <2>1, CellFacts
    <3> QED BY <3>1, ViewNumbers DEF Column, Last
  <2> HIDE DEF s, x, y
  <2>4. Shifted(s, d) = IF s \div COLUMNS >= d THEN s - d * COLUMNS ELSE s % COLUMNS
    BY <2>1, ShiftedFacts, ZenonT(60)
  <2>5. /\ (g + d) * COLUMNS = g * COLUMNS + d * COLUMNS /\ g * COLUMNS \in Int /\ d * COLUMNS \in Int
        /\ d = 0 => d * COLUMNS = 0
    BY ViewNumbers
  <2>6. CASE y >= g
    <3>1. s = l - g * COLUMNS /\ s \div COLUMNS = y - g /\ (y - g >= d <=> y >= g + d)
      BY <2>1, <2>3, <2>6
    <3> QED BY <2>1, <2>2, <2>4, <2>5, <3>1 DEF s
  <2>7. CASE ~(y >= g)
    <3>1. s = x /\ s \div COLUMNS = 0 /\ ~(y >= g + d)
      BY <2>1, <2>3, <2>7
    <3>2. Shifted(s, d) = x
      BY <2>1, <2>3, <2>4, <2>5, <3>1
    <3> QED BY <2>2, <3>1, <3>2 DEF s
  <2> QED BY <2>6, <2>7
<1> QED BY <1>1, <1>2

\* The names of the cells of a range.
NamesOf(e, a, b, block) == {e * COLUMNS + l : l \in Cells(a, b, block)}

\* The cells of a range d lines on, by the names of the lines: those it had that
\* are still there, but for the oldest line.
LEMMA RangeShifted ==
  ASSUME NEW n \in Nat, NEW a \in Place(n), NEW b \in Place(n), a # Nowhere, b # Nowhere, a <= b \/ a < COLUMNS,
         NEW e \in Nat, NEW d \in Nat, NEW block \in BOOLEAN
  PROVE  LET was == NamesOf(e, a, b, block)
             is  == NamesOf(e + d, Shifted(a, d), Shifted(b, d), block)
         IN  /\ e + Cell(a)[2] >= e + d => is = was
             /\ e + Cell(b)[2] >= e + d => is \subseteq was /\ \A m \in was : m \div COLUMNS > e + d => m \in is
<1> DEFINE a1 == Shifted(a, d)
           b1 == Shifted(b, d)
           ya == a \div COLUMNS
           yb == b \div COLUMNS
           dc == d * COLUMNS
           ec == e * COLUMNS
           was == {ec + l : l \in Cells(a, b, block)}
           is == {(e + d) * COLUMNS + l : l \in Cells(a1, b1, block)}
<1>1. /\ a \in Nat /\ b \in Nat /\ a1 \in Nat /\ b1 \in Nat
      /\ a1 = (IF ya >= d THEN a - dc ELSE a % COLUMNS) /\ a1 % COLUMNS = a % COLUMNS
      /\ b1 = (IF yb >= d THEN b - dc ELSE b % COLUMNS) /\ b1 % COLUMNS = b % COLUMNS
  BY ShiftedFacts, ZenonT(60)
<1>2. /\ dc \in Nat /\ ec \in Nat /\ (e + d) * COLUMNS = ec + dc
  BY ViewNumbers
<1>3. ASSUME NEW l \in Nat
      PROVE  /\ l \div COLUMNS \in Nat /\ l % COLUMNS \in 0 .. COLUMNS - 1
             /\ l \div COLUMNS >= d => l - dc \in Nat /\ (l - dc) % COLUMNS = l % COLUMNS
             /\ l \div COLUMNS < d => l < dc
             /\ l >= dc => l \div COLUMNS >= d
             /\ l \div COLUMNS > d => l - dc >= COLUMNS
             /\ (l + dc) % COLUMNS = l % COLUMNS
  <2> DEFINE x == l % COLUMNS
             y == l \div COLUMNS
  <2>1. x \in Column /\ y \in Nat /\ l = y * COLUMNS + x
    BY CellFacts
  <2>2. x \in 0 .. COLUMNS - 1 /\ x \in Int /\ COLUMNS \in Nat /\ COLUMNS > 0
    BY <2>1, ViewNumbers DEF Column, Last
  <2> HIDE DEF x, y
  <2>3. /\ y < d => y * COLUMNS + COLUMNS <= dc
        /\ d < y => dc + COLUMNS <= y * COLUMNS
        /\ d <= y => dc <= y * COLUMNS
        /\ y * COLUMNS \in Int
    BY <2>1, LinesApart
  <2> HIDE DEF dc
  <2>4. y >= d => l - dc \in Nat
    BY <1>2, <2>1, <2>2, <2>3
  <2>5. ASSUME y >= d PROVE (l - dc) % COLUMNS = x
    <3>1. l - dc \in Nat /\ l - dc + dc = l
      BY <1>2, <2>4, <2>5
    <3> DEFINE j == l - dc
    <3> HIDE DEF j
    <3>2. j \in Nat /\ j + dc = l
      BY <3>1 DEF j
    <3>3. (j + dc) % COLUMNS = j % COLUMNS
      BY <3>2, LinesOn DEF dc
    <3> QED BY <3>2, <3>3 DEF j, x
  <2>6. y < d => l < dc
    BY <1>2, <2>1, <2>2, <2>3
  <2>7. l >= dc => y >= d
    BY <1>2, <2>1, <2>6
  <2>8. y > d => l - dc >= COLUMNS
    BY <1>2, <2>1, <2>2, <2>3
  <2>9. (l + dc) % COLUMNS = x
    BY LinesOn DEF dc, x
  <2> QED BY <2>1, <2>2, <2>4, <2>5, <2>6, <2>7, <2>8, <2>9 DEF x, y
<1>4. Cell(a)[2] = ya /\ Cell(b)[2] = yb /\ ya \in Nat /\ yb \in Nat
  BY <1>1, <1>3 DEF Cell
<1> HIDE DEF a1, b1, dc, ec
<1>5. /\ a % COLUMNS \in Int /\ b % COLUMNS \in Int /\ a % COLUMNS < COLUMNS /\ COLUMNS \in Nat /\ COLUMNS > 0
      /\ ya < d => a < dc
      /\ a >= dc => ya >= d
      /\ yb < d => b < dc
      /\ b >= dc => yb >= d
      /\ ya >= d => a - dc \in Nat
  BY <1>1, <1>3, ViewNumbers
<1> HIDE DEF ya, yb
<1>6. ASSUME yb >= d, NEW l \in Cells(a1, b1, block) PROVE l + dc \in Cells(a, b, block)
  <2>1. l \in a1 .. b1 /\ l \in Nat /\ b1 = b - dc
    BY <1>1, <1>6 DEF Cells
  <2>2. a <= l + dc
    BY <1>1, <1>2, <1>4, <1>5, <2>1
  <2>3. l + dc \in a .. b
    BY <1>1, <1>2, <2>1, <2>2
  <2>4. (l + dc) % COLUMNS = l % COLUMNS
    BY <1>3, <2>1
  <2>5. block => l % COLUMNS >= a % COLUMNS /\ l % COLUMNS <= b % COLUMNS
    BY <1>1, <1>6 DEF Cells
  <2> QED BY <2>3, <2>4, <2>5 DEF Cells
<1>7. ASSUME yb >= d, NEW l \in Cells(a, b, block), l \div COLUMNS >= d, ya >= d \/ l \div COLUMNS > d
      PROVE  l - dc \in Cells(a1, b1, block)
  <2>1. l \in a .. b /\ l \in Nat /\ b1 = b - dc
    BY <1>1, <1>7 DEF Cells
  <2>2. l - dc \in Nat /\ (l - dc) % COLUMNS = l % COLUMNS /\ (l \div COLUMNS > d => l - dc >= COLUMNS)
    BY <1>3, <1>7, <2>1
  <2>3. a1 <= l - dc
    BY <1>1, <1>2, <1>5, <1>7, <2>1, <2>2
  <2>4. l - dc \in a1 .. b1
    BY <1>1, <1>2, <2>1, <2>2, <2>3
  <2>5. block => l % COLUMNS >= a1 % COLUMNS /\ l % COLUMNS <= b1 % COLUMNS
    BY <1>1, <1>7 DEF Cells
  <2> QED BY <2>2, <2>4, <2>5 DEF Cells
<1>8. yb >= d => is \subseteq was
  <2> SUFFICES ASSUME yb >= d, NEW l \in Cells(a1, b1, block) PROVE (e + d) * COLUMNS + l \in was
    OBVIOUS
  <2>1. l + dc \in Cells(a, b, block) /\ l \in Nat
    BY <1>1, <1>6 DEF Cells
  <2>2. (e + d) * COLUMNS + l = ec + (l + dc)
    BY <1>2, <2>1
  <2> QED BY <2>1, <2>2
<1>9. ASSUME yb >= d, NEW l \in Cells(a, b, block), l \div COLUMNS >= d, ya >= d \/ l \div COLUMNS > d
      PROVE  ec + l \in is
  <2>1. l - dc \in Cells(a1, b1, block) /\ l \in Nat
    BY <1>1, <1>7, <1>9 DEF Cells
  <2>2. ec + l = (e + d) * COLUMNS + (l - dc)
    BY <1>2, <2>1
  <2> QED BY <2>1, <2>2
<1>10. ASSUME ya >= d PROVE is = was
  <2>1. yb >= d
    <3>1. CASE a <= b
      <4>1. a >= dc
        BY <1>1, <1>2, <1>5, <1>10
      <4>2. b >= dc
        BY <1>1, <1>2, <3>1, <4>1
      <4> QED BY <1>5, <4>2
    <3>2. CASE a < COLUMNS
      <4>1. d = 0
        <5>1. ya = 0
          BY <1>1, <3>2, ViewNumbers DEF ya
        <5> QED BY <1>10, <5>1
      <4> QED BY <1>4, <4>1
    <3> QED BY <3>1, <3>2
  <2>2. ASSUME NEW l \in Cells(a, b, block) PROVE ec + l \in is
    <3>1. l \in Nat /\ l >= a
      BY <1>1 DEF Cells
    <3>2. l >= dc
      BY <1>1, <1>2, <1>5, <1>10, <3>1
    <3>3. l \div COLUMNS >= d
      BY <1>3, <3>1, <3>2
    <3> QED BY <1>9, <1>10, <2>1, <3>3
  <2> QED BY <1>8, <2>1, <2>2
<1>11. ASSUME yb >= d PROVE \A m \in was : m \div COLUMNS > e + d => m \in is
  <2> SUFFICES ASSUME NEW l \in Cells(a, b, block), (ec + l) \div COLUMNS > e + d PROVE ec + l \in is
    OBVIOUS
  <2>1. l \in Nat
    BY <1>1 DEF Cells
  <2>2. (ec + l) \div COLUMNS = l \div COLUMNS + e
    <3>1. (l + ec) \div COLUMNS = l \div COLUMNS + e
      BY <2>1, LinesOn DEF ec
    <3> QED BY <1>2, <2>1, <3>1
  <2>3. l \div COLUMNS > d
    BY <1>3, <2>1, <2>2
  <2> QED BY <1>3, <1>9, <1>11, <2>1, <2>3
<1>12. (e + Cell(a)[2] >= e + d <=> ya >= d) /\ (e + Cell(b)[2] >= e + d <=> yb >= d)
  BY <1>4
<1>13. was = NamesOf(e, a, b, block) /\ is = NamesOf(e + d, Shifted(a, d), Shifted(b, d), block)
  BY DEF NamesOf, ec, a1, b1
<1> HIDE DEF was, is
<1> QED BY <1>8, <1>10, <1>11, <1>12, <1>13

\* A step that moves the selection only by its own lines.
LEMMA MarkGoes ==
  ASSUME OnAir, IsValid(sel), screen'.evicted \in Nat, screen.evicted <= screen'.evicted, sel'.block_mode = sel.block_mode,
         StartAt(sel', screen'.evicted) = Shifted(StartAt(sel, screen.evicted), screen'.evicted - screen.evicted),
         EndAt(sel', screen'.evicted) = Shifted(EndAt(sel, screen.evicted), screen'.evicted - screen.evicted),
         IsValid(sel')
  PROVE  MarkGoesWithItsText
<1> DEFINE n == Total(screen)
           e == screen.evicted
           d == screen'.evicted - screen.evicted
           g == Gone(sel, e)
           a == StartAt(sel, e)
           b == EndAt(sel, e)
<1>1. n \in Nat /\ e \in Nat /\ d \in Nat /\ screen'.evicted = e + d
  BY TotalFacts DEF OnAir
<1>2. /\ sel \in Konsoles(n) /\ sel.top_left # Nowhere /\ sel.bottom_right # Nowhere
      /\ sel.top_left <= sel.bottom_right \/ sel.top_left < COLUMNS
  <2>1. sel \in Konsoles(n) /\ Forwards(sel)
    BY DEF OnAir, Fitting
  <2> HIDE DEF n
  <2> QED BY <1>1, <2>1, ValidIs DEF Forwards
<1>3. /\ sel.top_left \in Place(n) /\ sel.bottom_right \in Place(n) /\ sel.block_mode \in BOOLEAN /\ g \in Nat
  <2>1. sel.top_left \in Place(n) /\ sel.bottom_right \in Place(n) /\ sel.block_mode \in BOOLEAN /\ sel.evicted_base \in Nat
    BY <1>2 DEF Konsoles
  <2> QED BY <1>1, <2>1, GoneType
<1> HIDE DEF n, g, d, e
<1>4. a = Shifted(sel.top_left, g) /\ b = Shifted(sel.bottom_right, g)
  BY DEF StartAt, EndAt, g
<1> HIDE DEF a, b
<1>5. /\ a \in Place(n) /\ b \in Place(n) /\ a # Nowhere /\ b # Nowhere
      /\ a <= b \/ a < COLUMNS
  <2> DEFINE tl == sel.top_left
             br == sel.bottom_right
  <2>1. /\ tl \in Place(n) /\ br \in Place(n) /\ tl # Nowhere /\ br # Nowhere
        /\ tl <= br \/ tl < COLUMNS
        /\ a = Shifted(tl, g) /\ b = Shifted(br, g)
    BY <1>2, <1>3, <1>4
  <2> HIDE DEF tl, br
  <2>2. Shifted(tl, g) \in Place(n) /\ Shifted(tl, g) # Nowhere
    BY <1>1, <1>3, <2>1, ShiftedFacts
  <2>3. Shifted(br, g) \in Place(n) /\ Shifted(br, g) # Nowhere
    BY <1>1, <1>3, <2>1, ShiftedFacts
  <2>4. Shifted(tl, g) <= Shifted(br, g) \/ Shifted(tl, g) < COLUMNS
    BY <1>1, <1>3, <2>1, ShiftedForwards
  <2> QED BY <2>1, <2>2, <2>3, <2>4
<1> DEFINE blk == sel.block_mode
           was == NamesOf(e, a, b, blk)
           is == NamesOf(e + d, Shifted(a, d), Shifted(b, d), blk)
<1>6. blk \in BOOLEAN
  BY <1>3
<1> HIDE DEF blk
<1>7. /\ e + Cell(a)[2] >= e + d => is = was
      /\ e + Cell(b)[2] >= e + d => is \subseteq was /\ \A m \in was : m \div COLUMNS > e + d => m \in is
  BY <1>1, <1>5, <1>6, RangeShifted
<1>8. MarkedNames(screen, sel) = was
  BY DEF MarkedNames, Marked, NamesOf, a, b, e, blk
<1>9. MarkedNames(screen', sel') = is
  <2>1. StartAt(sel', screen'.evicted) = Shifted(a, d) /\ EndAt(sel', screen'.evicted) = Shifted(b, d)
    BY DEF a, b, d, e
  <2>2. Marked(sel', screen'.evicted) = Cells(Shifted(a, d), Shifted(b, d), blk)
    BY <2>1 DEF Marked, blk
  <2> HIDE DEF is
  <2> QED BY <1>1, <2>2 DEF MarkedNames, NamesOf, is
<1> HIDE DEF was, is
<1> QED BY <1>1, <1>7, <1>8, <1>9 DEF MarkGoesWithItsText, a, b, e

LEMMA MarkStays ==
  ASSUME OnAir, screen'.evicted \in Nat, screen.evicted <= screen'.evicted, sel' = sel
  PROVE  MarkGoesWithItsText
<1> SUFFICES ASSUME IsValid(sel) PROVE MarkGoesWithItsText
  BY DEF MarkGoesWithItsText
<1> DEFINE n == Total(screen)
           e == screen.evicted
           f == screen'.evicted
<1>1. n \in Nat /\ e \in Nat /\ f \in Nat /\ e <= f /\ f - e \in Nat /\ sel.evicted_base <= e
  BY TotalFacts DEF OnAir
<1>2. sel \in Konsoles(n)
  BY DEF OnAir, Fitting
<1> HIDE DEF n
<1>3. sel.top_left \in Place(n) /\ sel.bottom_right \in Place(n) /\ sel.evicted_base \in Nat
  BY <1>2 DEF Konsoles
<1> HIDE DEF e, f
<1>4. Gone(sel, e) \in Nat /\ Gone(sel, f) = Gone(sel, e) + (f - e)
  <2>1. Gone(sel, e) = e - sel.evicted_base /\ Gone(sel, e) \in Nat
    BY <1>1, <1>3, GoneType
  <2>2. Gone(sel, f) = f - sel.evicted_base
    BY <1>1, <1>3, GoneType
  <2> QED BY <1>1, <1>3, <2>1, <2>2
<1>5. /\ Shifted(Shifted(sel.top_left, Gone(sel, e)), f - e) = Shifted(sel.top_left, Gone(sel, e) + (f - e))
      /\ Shifted(Shifted(sel.bottom_right, Gone(sel, e)), f - e) = Shifted(sel.bottom_right, Gone(sel, e) + (f - e))
  <2>1. ASSUME NEW l \in Place(n) PROVE Shifted(Shifted(l, Gone(sel, e)), f - e) = Shifted(l, Gone(sel, e) + (f - e))
    BY <1>1, <1>4, ShiftedTwice
  <2> QED BY <1>3, <2>1
<1>6. StartAt(sel, f) = Shifted(StartAt(sel, e), f - e) /\ EndAt(sel, f) = Shifted(EndAt(sel, e), f - e)
  BY <1>4, <1>5 DEF StartAt, EndAt
<1> QED BY <1>6, MarkGoes DEF e, f

\* Releasing brings the ends up to the text, and marks what was marked.
LEMMA MarkReleased ==
  ASSUME OnAir, screen' = screen, sel' = Release(screen, sel)
  PROVE  MarkGoesWithItsText
<1> SUFFICES ASSUME IsValid(sel) PROVE MarkGoesWithItsText
  BY DEF MarkGoesWithItsText
<1> DEFINE n == Total(screen)
           e == screen.evicted
           R == Rebase(sel, e)
<1>1. n \in Nat /\ e \in Nat /\ Fitting(sel, n) /\ e - e = 0 /\ e <= e
  BY TotalFacts DEF OnAir
<1> HIDE DEF n, e
<1>2. /\ Fitting(R, n) /\ R.evicted_base = e /\ (IsValid(R) <=> IsValid(sel)) /\ R.block_mode = sel.block_mode
      /\ R.top_left = StartAt(sel, e) /\ R.bottom_right = EndAt(sel, e)
  BY <1>1, RebaseFacts
<1>3. sel' = [R EXCEPT !.act_sel = 0]
  BY DEF Release, e
<1> HIDE DEF R
<1>4. /\ sel'.evicted_base = e /\ sel'.block_mode = sel.block_mode
      /\ sel'.top_left = StartAt(sel, e) /\ sel'.bottom_right = EndAt(sel, e)
  BY <1>2, <1>3 DEF Fitting, Konsoles
<1>5. IsValid(sel')
  BY <1>2, <1>4 DEF IsValid
<1>6. Gone(sel', e) = 0
  BY <1>1, <1>4, GoneType
<1>7. StartAt(sel', e) = Shifted(StartAt(sel, e), e - e) /\ EndAt(sel', e) = Shifted(EndAt(sel, e), e - e)
  BY <1>1, <1>4, <1>6 DEF StartAt, EndAt
<1> QED BY <1>1, <1>4, <1>5, <1>7, MarkGoes DEF e

\* The mark goes where its text goes.
THEOREM MarkAlwaysFollowsItsText == GlassSpec => MarkFollowsItsText
<1>1. OnAir /\ [GlassNext]_glassVars => [~PressStep /\ ~DragStep /\ ~Switched => MarkGoesWithItsText]_glassVars
  <2> SUFFICES ASSUME OnAir, GlassNext, ~PressStep, ~DragStep, ~Switched PROVE MarkGoesWithItsText
    OBVIOUS
  <2>1. screen.evicted \in Nat /\ Standing(screen)
    BY TotalFacts DEF OnAir
  <2>2. ASSUME screen'.evicted = screen.evicted, sel' = sel PROVE MarkGoesWithItsText
    BY <2>1, <2>2, MarkStays
  <2>3. CASE GlassTick \/ OpenFind \/ CloseFind
    <3>1. Standing(screen') /\ screen.evicted <= screen'.evicted
      BY <2>1, <2>3, OutputStep
    <3>2. screen'.evicted \in Nat
      BY <3>1, TotalFacts
    <3>3. sel' = sel
      BY <2>3 DEF GlassTick, OpenFind, CloseFind
    <3> QED BY <3>1, <3>2, <3>3, MarkStays
  <2>4. CASE Wheel \/ Fingers \/ ScrollKey \/ TypeBytes
    BY <2>2, <2>4, HandKeeps DEF SameText
  <2>5. CASE Pressed
    <3>1. hand' \in Hands /\ PressStep
      <4>1. PICK c, n : hand' = [AtRest EXCEPT !.dragging = TRUE, !.pointer = c, !.click = [cell |-> c, count |-> n]]
        BY <2>5 DEF Pressed
      <4>2. hand'.dragging = TRUE
        BY <4>1 DEF AtRest
      <4>3. OnAir'
        BY <2>5, PressedKeeps
      <4> QED BY <2>5, <4>2, <4>3 DEF Pressed, PressStep, OnAir
    <3> QED BY <3>1
  <2>6. CASE Dragged
    <3>1. PICK c \in Pointable \ {hand.pointer} : hand' = [hand EXCEPT !.pointer = c]
      BY <2>6 DEF Dragged
    <3>2. hand'.dragging = hand.dragging /\ hand'.pointer = c
      BY <3>1 DEF OnAir, Hands
    <3>3. DragStep
      BY <2>6, <3>1, <3>2 DEF Dragged, DragStep
    <3> QED BY <3>3
  <2>7. CASE Released
    BY <2>7, MarkReleased DEF Released
  <2>8. CASE Unfocused
    BY <2>2, <2>8 DEF Unfocused
  <2>9. CASE FindStep
    BY <2>2, <2>9, FindKeeps DEF SameText
  <2> QED BY <2>3, <2>4, <2>5, <2>6, <2>7, <2>8, <2>9 DEF GlassNext
<1> QED BY <1>1, OnAirStarts, OnAirSteps, PTL DEF GlassSpec, MarkFollowsItsText

-----------------------------------------------------------------------------
(***************************************************************************)
(* The text some lines on: walks go where they went.                       *)
(***************************************************************************)
\* The cell d lines up.
Off(c, d) == <<c[1], c[2] - d>>

\* A place d lines up, by number and by cell.
LEMMA LinesOff ==
  ASSUME NEW l \in Nat, NEW d \in Int, l \div COLUMNS >= d
  PROVE  /\ l - d * COLUMNS \in Nat /\ d * COLUMNS \in Int
         /\ Cell(l - d * COLUMNS) = Off(Cell(l), d) /\ Cell(l - d * COLUMNS)[2] = Cell(l)[2] - d
<1> DEFINE x == l % COLUMNS
           y == l \div COLUMNS
<1>1. x \in Column /\ y \in Nat /\ l = y * COLUMNS + x /\ Cell(l) = <<x, y>>
  BY CellFacts DEF Cell
<1> HIDE DEF x
<1>2. y - d \in Nat /\ y \in Nat
  BY <1>1
<1> HIDE DEF y
<1>3. (y - d) * COLUMNS = y * COLUMNS - d * COLUMNS /\ y * COLUMNS \in Int /\ d * COLUMNS \in Int
  BY <1>2, ViewNumbers
<1>4. x \in Int
  BY <1>1, ViewNumbers DEF Column, Last
<1>5. /\ Loc(<<x, y - d>>) \in Nat /\ Loc(<<x, y - d>>) = (y - d) * COLUMNS + x
      /\ Cell(Loc(<<x, y - d>>)) = <<x, y - d>>
  BY <1>1, <1>2, LocFacts
<1>6. Loc(<<x, y - d>>) = l - d * COLUMNS
  BY <1>1, <1>3, <1>4, <1>5
<1> QED BY <1>1, <1>3, <1>5, <1>6 DEF Off

LEMMA LocOff ==
  ASSUME NEW c \in Column \X Nat, NEW d \in Int, c[2] >= d
  PROVE  /\ Off(c, d) \in Column \X Nat /\ Off(c, d)[1] = c[1] /\ Off(c, d)[2] = c[2] - d
         /\ Loc(c) \in Nat /\ Loc(Off(c, d)) \in Nat /\ d * COLUMNS \in Int /\ Loc(Off(c, d)) = Loc(c) - d * COLUMNS
<1>1. c[1] \in Column /\ c[2] \in Nat /\ c = <<c[1], c[2]>>
  OBVIOUS
<1> DEFINE x == c[1]
           y == c[2]
<1>2. x \in Column /\ y \in Nat /\ y - d \in Nat /\ c = <<x, y>> /\ Off(c, d) = <<x, y - d>>
  BY <1>1 DEF Off
<1> HIDE DEF x, y
<1>3. (y - d) * COLUMNS = y * COLUMNS - d * COLUMNS /\ y * COLUMNS \in Int /\ d * COLUMNS \in Int
  BY <1>2, ViewNumbers
<1>4. x \in Int
  BY <1>2, ViewNumbers DEF Column, Last
<1>5. /\ Loc(<<x, y>>) \in Nat /\ Loc(<<x, y>>) = y * COLUMNS + x
      /\ Loc(<<x, y - d>>) \in Nat /\ Loc(<<x, y - d>>) = (y - d) * COLUMNS + x
  BY <1>2, LocFacts
<1> QED BY <1>2, <1>3, <1>4, <1>5 DEF x, y

\* H is G with its lines called d less, and what the window shows the same.
Apart(G, H, d) ==
  /\ d \in Int /\ G.evicted \in Nat /\ H.evicted = G.evicted + d /\ H.evicted \in Nat
  /\ TopLine(G) \in Nat /\ TopLine(H) \in Nat /\ TopLine(H) = TopLine(G) - d
  /\ Total(G) \in Nat \ {0} /\ Total(H) \in Nat \ {0}
  /\ BottomLine(G) <= FootRow(G) /\ BottomLine(H) <= FootRow(H)

\* A line in the window, or below it, that both have.
Shared(G, H, d, y) == y \in TopLine(G) .. FootRow(G) /\ y - d <= FootRow(H)

LEMMA ApartBack ==
  ASSUME NEW G, NEW H, NEW d, Apart(G, H, d)
  PROVE  /\ Apart(H, G, -d) /\ d \in Int /\ -d \in Int /\ FootRow(G) \in Nat /\ FootRow(H) \in Nat
         /\ BottomLine(H) = BottomLine(G) - d /\ BottomLine(G) \in Int
<1>1. FootRow(G) \in Nat /\ FootRow(H) \in Nat
  BY ViewNumbers DEF Apart, FootRow
<1>2. BottomLine(H) = BottomLine(G) - d /\ BottomLine(G) \in Int
  BY ViewNumbers DEF Apart, BottomLine
<1>3. Apart(H, G, -d)
  BY DEF Apart
<1> QED BY <1>1, <1>2, <1>3 DEF Apart

LEMMA SharedBack ==
  ASSUME NEW G, NEW H, NEW d, Apart(G, H, d), NEW y \in Int, Shared(G, H, d, y)
  PROVE  Shared(H, G, -d, y - d) /\ y \in Nat /\ y - d \in Nat /\ y - d - (-d) = y
<1>1. /\ d \in Int /\ TopLine(G) \in Nat /\ TopLine(H) \in Nat /\ TopLine(H) = TopLine(G) - d
      /\ y \in TopLine(G) .. FootRow(G) /\ y - d <= FootRow(H)
  BY DEF Apart, Shared
<1>2. FootRow(G) \in Nat /\ FootRow(H) \in Nat
  BY ApartBack
<1>3. y - d - (-d) = y /\ y \in Nat /\ y - d \in TopLine(H) .. FootRow(H) /\ y <= FootRow(G)
  BY <1>1, <1>2
<1> QED BY <1>1, <1>3 DEF Shared

\* The lines between run on in the one as in the other.
LEMMA WaysOff ==
  ASSUME NEW G, NEW H, NEW d, Apart(G, H, d), NEW y \in Int, NEW z \in Int
  PROVE  /\ Upwards(G, y, z) => Upwards(H, y - d, z - d)
         /\ Downwards(G, y, z) => Downwards(H, y - d, z - d)
<1>1. /\ d \in Int /\ G.evicted \in Nat /\ H.evicted = G.evicted + d /\ BottomLine(H) = BottomLine(G) - d
      /\ BottomLine(G) \in Int /\ TopLine(H) = TopLine(G) - d /\ TopLine(G) \in Nat
  <2>1. BottomLine(H) = BottomLine(G) - d /\ BottomLine(G) \in Int
    BY ApartBack
  <2> QED BY <2>1 DEF Apart
<1>2. ASSUME NEW k \in (y - d) .. (z - d) - 1
      PROVE  /\ k + d \in y .. z - 1 /\ (Runs(H, k) <=> Runs(G, k + d)) /\ (k + d >= TopLine(G) => k >= TopLine(H))
             /\ (k + d < BottomLine(G) => k < BottomLine(H))
  <2>1. H.evicted + k = G.evicted + (k + d)
    BY <1>1
  <2>2. Runs(H, k) <=> Runs(G, k + d)
    BY <2>1 DEF Runs
  <2> QED BY <1>1, <2>2
<1> QED BY <1>2 DEF Upwards, Downwards

LEMMA ClassOff ==
  ASSUME NEW G, NEW H, NEW d, Apart(G, H, d), NEW a \in Int, NEW b \in Int, SameClass(G, a, b)
  PROVE  SameClass(H, a - d * COLUMNS, b - d * COLUMNS)
<1> DEFINE dc == d * COLUMNS
<1>1. /\ d \in Int /\ dc \in Int /\ G.evicted * COLUMNS \in Int
      /\ H.evicted * COLUMNS = G.evicted * COLUMNS + dc
  <2>1. ASSUME NEW e \in Int PROVE (e + d) * COLUMNS = e * COLUMNS + d * COLUMNS /\ e * COLUMNS \in Int /\ d * COLUMNS \in Int
    BY ViewNumbers DEF Apart
  <2> DEFINE g == G.evicted
  <2>2. g \in Int /\ d \in Int /\ H.evicted = g + d
    BY DEF Apart
  <2> HIDE DEF g
  <2>3. (g + d) * COLUMNS = g * COLUMNS + d * COLUMNS /\ g * COLUMNS \in Int /\ d * COLUMNS \in Int
    BY <2>1, <2>2
  <2> QED BY <2>2, <2>3 DEF g
<1> HIDE DEF dc
<1>2. ASSUME NEW k \in Int
      PROVE  H.evicted * COLUMNS + (k - dc) = G.evicted * COLUMNS + k
  BY <1>1
<1>3. ASSUME NEW k \in (a - dc) .. (b - dc)
      PROVE  IsBlank(H.evicted * COLUMNS + k) <=> IsBlank(H.evicted * COLUMNS + (b - dc))
  <2>1. k + dc \in a .. b /\ k + dc - dc = k
    BY <1>1
  <2>2. IsBlank(G.evicted * COLUMNS + (k + dc)) <=> IsBlank(G.evicted * COLUMNS + b)
    BY <2>1 DEF SameClass
  <2>3. H.evicted * COLUMNS + k = G.evicted * COLUMNS + (k + dc)
    BY <1>1
  <2> QED BY <1>2, <2>2, <2>3
<1> QED BY <1>3 DEF SameClass, dc

\* The least and the greatest of a set are those of the set moved.
LEMMA EndsOff ==
  ASSUME NEW m \in Nat, NEW n \in Nat, NEW S \in SUBSET (0 .. m), NEW T \in SUBSET (0 .. n), S # {}, T # {}, NEW s \in Int,
         \A x \in S : x - s \in T, \A y \in T : y + s \in S
  PROVE  Min(T) = Min(S) - s /\ Max(T) = Max(S) - s
<1>1. Min(S) \in S /\ (\A y \in S : Min(S) <= y) /\ Min(T) \in T /\ (\A y \in T : Min(T) <= y)
  <2>1. S \in SUBSET Nat /\ T \in SUBSET Nat
    OBVIOUS
  <2> QED BY <2>1, MinOf
<1>2. Max(S) \in S /\ (\A y \in S : Max(S) >= y)
  BY MaxOf
<1>3. Max(T) \in T /\ (\A y \in T : Max(T) >= y)
  BY MaxOf
<1>4. Min(S) \in Int /\ Min(T) \in Int /\ Max(S) \in Int /\ Max(T) \in Int
  <2>1. \A x \in S : x \in Int
    OBVIOUS
  <2>2. \A y \in T : y \in Int
    OBVIOUS
  <2> QED BY <1>1, <1>2, <1>3, <2>1, <2>2
<1>5. Min(T) <= Min(S) - s /\ Max(T) >= Max(S) - s
  BY <1>1, <1>2, <1>3
<1>6. Min(S) <= Min(T) + s /\ Max(S) >= Max(T) + s
  BY <1>1, <1>2, <1>3
<1> QED BY <1>4, <1>5, <1>6

\* The cells a walk to the ends of a word may end at.
UpCells(G, c)   == {l \in 0 .. Loc(c) : SameClass(G, l, Loc(c)) /\ Upwards(G, Cell(l)[2], c[2])}
DownCells(G, c) == {l \in Loc(c) .. Loc(<<Last, FootRow(G)>>) : SameClass(G, Loc(c), l) /\ Downwards(G, c[2], Cell(l)[2])}

\* Cells in order are on lines in order.
LEMMA CellOrder ==
  ASSUME NEW a \in Nat, NEW b \in Nat, a <= b
  PROVE  Cell(a)[2] \in Nat /\ Cell(b)[2] \in Nat /\ Cell(a)[2] <= Cell(b)[2] /\ Cell(a)[2] = a \div COLUMNS
<1> DEFINE x == a % COLUMNS
           y == a \div COLUMNS
           u == b % COLUMNS
           v == b \div COLUMNS
<1>1. x \in Column /\ y \in Nat /\ a = y * COLUMNS + x /\ u \in Column /\ v \in Nat /\ b = v * COLUMNS + u
  BY CellFacts
<1>2. Cell(a)[2] = y /\ Cell(b)[2] = v
  BY DEF Cell
<1>3. x \in 0 .. COLUMNS - 1 /\ u \in 0 .. COLUMNS - 1 /\ COLUMNS \in Nat
  BY <1>1, ViewNumbers DEF Column, Last
<1> HIDE DEF x, y, u, v
<1>4. (v < y => v * COLUMNS + COLUMNS <= y * COLUMNS) /\ v * COLUMNS \in Int /\ y * COLUMNS \in Int
  BY <1>1, LinesApart
<1>5. y <= v
  BY <1>1, <1>3, <1>4
<1> QED BY <1>1, <1>2, <1>5 DEF y

LEMMA WalksOff ==
  ASSUME NEW G, NEW H, NEW d, Apart(G, H, d), NEW c \in TextCells(G), Shared(G, H, d, c[2])
  PROVE  /\ Off(c, d) \in TextCells(H) /\ Shared(H, G, -d, Off(c, d)[2]) /\ Off(Off(c, d), -d) = c
         /\ \A l \in UpCells(G, c) : Cell(l)[2] \in TopLine(G) .. c[2] /\ l \div COLUMNS >= d
                                     /\ l - d * COLUMNS \in UpCells(H, Off(c, d))
         /\ \A l \in DownCells(G, c) : Cell(l)[2] >= c[2] /\ l \div COLUMNS >= d
                                       /\ l - d * COLUMNS \in DownCells(H, Off(c, d))
<1> DEFINE e == Off(c, d)
           y == c[2]
           dc == d * COLUMNS
<1>1. /\ c[1] \in Column /\ y \in 0 .. FootRow(G) /\ y \in Nat /\ c = <<c[1], y>> /\ Loc(c) \in Nat /\ Cell(Loc(c)) = c
  BY CellsOfText DEF Apart
<1>2. /\ d \in Int /\ -d \in Int /\ FootRow(G) \in Nat /\ FootRow(H) \in Nat /\ BottomLine(H) = BottomLine(G) - d
      /\ BottomLine(G) \in Int /\ Shared(H, G, -d, y - d) /\ y - d \in Nat /\ y - d - (-d) = y
  <2>1. /\ d \in Int /\ -d \in Int /\ FootRow(G) \in Nat /\ FootRow(H) \in Nat /\ BottomLine(H) = BottomLine(G) - d
        /\ BottomLine(G) \in Int
    BY ApartBack
  <2>2. y \in Int /\ Shared(G, H, d, y)
    BY <1>1
  <2> HIDE DEF y
  <2>3. Shared(H, G, -d, y - d) /\ y \in Nat /\ y - d \in Nat /\ y - d - (-d) = y
    BY <2>2, SharedBack
  <2> QED BY <2>1, <2>3
<1>3. /\ TopLine(G) \in Nat /\ TopLine(H) \in Nat /\ TopLine(H) = TopLine(G) - d /\ BottomLine(H) <= FootRow(H)
      /\ Total(H) \in Nat \ {0}
  BY DEF Apart
<1>4. y \in TopLine(G) .. FootRow(G) /\ y - d <= FootRow(H)
  BY DEF Shared
<1>5. y >= d /\ TopLine(G) >= d
  BY <1>1, <1>2, <1>3, <1>4
<1>6. /\ e \in Column \X Nat /\ e[1] = c[1] /\ e[2] = y - d /\ Loc(e) \in Nat /\ dc \in Int /\ Loc(e) = Loc(c) - dc
  <2>1. c \in Column \X Nat
    BY <1>1
  <2> QED BY <1>2, <1>5, <2>1, LocOff
<1>7. e \in TextCells(H)
  <2>1. e = <<c[1], y - d>>
    BY DEF Off
  <2> QED BY <1>1, <1>2, <1>4, <2>1 DEF TextCells
<1>8. Shared(H, G, -d, e[2]) /\ Off(e, -d) = c
  BY <1>1, <1>2, <1>6 DEF Off
<1>9. ASSUME NEW l \in UpCells(G, c)
      PROVE  Cell(l)[2] \in TopLine(G) .. y /\ l \div COLUMNS >= d /\ l - dc \in UpCells(H, e)
  <2> DEFINE z == Cell(l)[2]
  <2>1. l \in 0 .. Loc(c) /\ l \in Nat /\ SameClass(G, l, Loc(c)) /\ Upwards(G, z, y)
    BY <1>1 DEF UpCells
  <2>2. z \in Nat /\ z <= y /\ z = l \div COLUMNS
    <3>1. z \in Nat /\ z <= Cell(Loc(c))[2] /\ z = l \div COLUMNS
      BY <1>1, <2>1, CellOrder
    <3> QED BY <1>1, <3>1
  <2>3. z >= TopLine(G)
    <3>1. CASE z = y
      BY <1>4, <3>1
    <3>2. CASE z # y
      <4>1. z \in z .. y - 1
        BY <1>1, <2>2, <3>2
      <4> QED BY <2>1, <4>1 DEF Upwards
    <3> QED BY <3>1, <3>2
  <2>4. z >= d
    BY <1>2, <1>3, <1>5, <2>2, <2>3
  <2>5. l - dc \in Nat /\ Cell(l - dc)[2] = z - d
    BY <1>2, <2>1, <2>2, <2>4, LinesOff
  <2>6. SameClass(H, l - dc, Loc(c) - dc)
    BY <1>1, <2>1, ClassOff
  <2>7. Upwards(H, z - d, y - d)
    BY <1>1, <2>1, <2>2, WaysOff
  <2>8. l - dc \in 0 .. Loc(e)
    BY <1>1, <1>6, <2>1, <2>5
  <2> QED BY <1>1, <1>3, <1>6, <2>2, <2>3, <2>4, <2>5, <2>6, <2>7, <2>8 DEF UpCells
<1>10. ASSUME NEW l \in DownCells(G, c)
       PROVE  Cell(l)[2] >= y /\ l \div COLUMNS >= d /\ l - dc \in DownCells(H, e)
  <2> DEFINE z == Cell(l)[2]
  <2>1. /\ l \in Nat /\ Loc(c) <= l /\ l <= Loc(<<Last, FootRow(G)>>)
        /\ SameClass(G, Loc(c), l) /\ Downwards(G, y, z)
    <3>1. l \in Loc(c) .. Loc(<<Last, FootRow(G)>>) /\ SameClass(G, Loc(c), l) /\ Downwards(G, y, z)
      BY DEF DownCells
    <3>2. Loc(<<Last, FootRow(G)>>) \in Nat
      BY CellsOfText DEF Apart
    <3> QED BY <1>1, <3>1, <3>2
  <2>2. z \in Nat /\ y <= z
    <3>1. z \in Nat /\ Cell(Loc(c))[2] <= z
      BY <1>1, <2>1, CellOrder
    <3> QED BY <1>1, <3>1
  <2>3. z = l \div COLUMNS /\ z >= d
    <3>1. z = l \div COLUMNS
      BY DEF Cell
    <3> QED BY <1>1, <1>2, <1>5, <2>2, <3>1
  <2>4. z - d <= FootRow(H)
    <3>1. CASE z = y
      BY <1>4, <3>1
    <3>2. CASE z # y
      <4>1. z - 1 \in y .. z - 1
        BY <1>1, <2>2, <3>2
      <4>2. z - 1 < BottomLine(G)
        BY <2>1, <4>1 DEF Downwards
      <4> QED BY <1>2, <1>3, <2>2, <4>2 DEF Apart
    <3> QED BY <3>1, <3>2
  <2>5. l - dc \in Nat /\ Cell(l - dc)[2] = z - d /\ Cell(l - dc) = Off(Cell(l), d)
    BY <1>2, <2>1, <2>3, LinesOff
  <2>6. SameClass(H, Loc(c) - dc, l - dc)
    BY <1>1, <2>1, ClassOff
  <2>7. Downwards(H, y - d, z - d)
    BY <1>1, <2>1, <2>2, WaysOff
  <2>8. l - dc <= Loc(<<Last, FootRow(H)>>) /\ Loc(<<Last, FootRow(H)>>) \in Nat
    <3> DEFINE f == Cell(l - dc)
    <3>1. f \in Column \X Nat /\ Loc(f) = l - dc /\ f[2] = z - d
      BY <2>5, CellFacts
    <3> HIDE DEF f
    <3>2. f \in TextCells(H)
      <4>1. f[1] \in Column /\ f[2] \in 0 .. FootRow(H) /\ f = <<f[1], f[2]>>
        BY <1>2, <2>4, <3>1
      <4> QED BY <4>1 DEF TextCells
    <3> QED BY <1>3, <3>1, <3>2, CellsOfText
  <2>9. l - dc \in Loc(e) .. Loc(<<Last, FootRow(H)>>)
    BY <1>1, <1>6, <2>1, <2>5, <2>8
  <2> QED BY <1>1, <1>6, <2>2, <2>3, <2>5, <2>6, <2>7, <2>9 DEF DownCells
<1> QED BY <1>7, <1>8, <1>9, <1>10

\* A word is where it was.
LEMMA WordsOff ==
  ASSUME NEW G, NEW H, NEW d, Apart(G, H, d), NEW c \in TextCells(G), Shared(G, H, d, c[2])
  PROVE  /\ WordStart(H, Off(c, d)) = Off(WordStart(G, c), d) /\ WordEnd(H, Off(c, d)) = Off(WordEnd(G, c), d)
<1> DEFINE e == Off(c, d)
           dc == d * COLUMNS
           U == UpCells(G, c)
           V == UpCells(H, e)
           D == DownCells(G, c)
           E == DownCells(H, e)
           footG == Loc(<<Last, FootRow(G)>>)
           footH == Loc(<<Last, FootRow(H)>>)
<1>1. /\ e \in TextCells(H) /\ Shared(H, G, -d, e[2]) /\ Off(e, -d) = c
      /\ \A l \in U : l \div COLUMNS >= d /\ l - dc \in V
      /\ \A l \in D : l \div COLUMNS >= d /\ l - dc \in E
  BY WalksOff
<1>2. Apart(H, G, -d) /\ d \in Int
  BY ApartBack
<1> HIDE DEF e
<1>3. (\A l \in V : l - (-d) * COLUMNS \in U) /\ (\A l \in E : l - (-d) * COLUMNS \in D)
  <2>1. /\ \A l \in UpCells(H, e) : l - (-d) * COLUMNS \in UpCells(G, Off(e, -d))
        /\ \A l \in DownCells(H, e) : l - (-d) * COLUMNS \in DownCells(G, Off(e, -d))
    BY <1>1, <1>2, WalksOff
  <2> QED BY <1>1, <2>1
<1>4. (-d) * COLUMNS = -dc /\ dc \in Int
  BY <1>2, ViewNumbers
<1>5. Loc(c) \in Nat /\ Loc(e) \in Nat /\ footG \in Nat /\ footH \in Nat /\ Loc(c) <= footG /\ Loc(e) <= footH
  <2>1. Total(G) \in Nat \ {0} /\ Total(H) \in Nat \ {0}
    BY DEF Apart
  <2> QED BY <1>1, <2>1, CellsOfText
<1>6. /\ WordStart(G, c) = Cell(Min(U)) /\ WordStart(H, e) = Cell(Min(V))
      /\ WordEnd(G, c) = Cell(Max(D)) /\ WordEnd(H, e) = Cell(Max(E))
  BY DEF WordStart, WordEnd, UpCells, DownCells, FootRow
<1>7. U \in SUBSET (0 .. Loc(c)) /\ V \in SUBSET (0 .. Loc(e)) /\ D \in SUBSET (0 .. footG) /\ E \in SUBSET (0 .. footH)
  <2>1. U \in SUBSET (0 .. Loc(c)) /\ V \in SUBSET (0 .. Loc(e))
    BY DEF UpCells
  <2>2. D \subseteq Loc(c) .. footG /\ E \subseteq Loc(e) .. footH
    BY DEF DownCells
  <2> QED BY <1>5, <2>1, <2>2
<1>8. Loc(c) \in U /\ Loc(c) \in D
  <2> DEFINE at == Loc(c)
  <2>1. Cell(at) = c /\ at \in Nat /\ c[2] \in Nat
    BY CellsOfText DEF Apart
  <2>2. Upwards(G, c[2], c[2]) /\ Downwards(G, c[2], c[2])
    BY <2>1 DEF Upwards, Downwards
  <2>3. SameClass(G, at, at)
    <3> HIDE DEF at
    <3> QED BY <2>1 DEF SameClass
  <2> QED BY <1>5, <2>1, <2>2, <2>3 DEF UpCells, DownCells
<1> HIDE DEF U, V, D, E, dc, footG, footH
<1>9. U # {} /\ V # {} /\ D # {} /\ E # {}
  BY <1>1, <1>8
<1>10. (\A l \in V : l + dc \in U) /\ (\A l \in E : l + dc \in D)
  <2>1. ASSUME NEW l \in Int PROVE l - (-dc) = l + dc
    BY <1>4
  <2>2. (\A l \in V : l \in Int) /\ (\A l \in E : l \in Int)
    BY <1>7
  <2> QED BY <1>3, <1>4, <2>1, <2>2
<1>11. Min(V) = Min(U) - dc
  BY <1>1, <1>4, <1>5, <1>7, <1>9, <1>10, EndsOff, ZenonT(60)
<1>12. Max(E) = Max(D) - dc
  BY <1>1, <1>4, <1>5, <1>7, <1>9, <1>10, EndsOff, ZenonT(60)
<1>13. Min(U) \in U /\ Min(U) \in Nat /\ Max(D) \in D /\ Max(D) \in Nat
  <2>1. U \in SUBSET Nat
    BY <1>5, <1>7
  <2>2. Min(U) \in U
    BY <1>9, <2>1, MinOf
  <2>3. Max(D) \in D
    BY <1>5, <1>7, <1>9, MaxOf
  <2>4. \A x \in D : x \in Nat
    BY <1>5, <1>7
  <2> QED BY <2>1, <2>2, <2>3, <2>4
<1>14. Cell(Min(U) - dc) = Off(Cell(Min(U)), d) /\ Cell(Max(D) - dc) = Off(Cell(Max(D)), d)
  BY <1>1, <1>2, <1>13, LinesOff DEF dc
<1> QED BY <1>6, <1>11, <1>12, <1>14 DEF e

\* So is what a line begins and ends with.
LEMMA LinesStay ==
  ASSUME NEW G, NEW H, NEW d, Apart(G, H, d), NEW y \in Int, Shared(G, H, d, y)
  PROVE  /\ LineStart(H, y - d) = LineStart(G, y) - d /\ LineEnd(H, y - d) = LineEnd(G, y) - d
         /\ LineStart(G, y) \in TopLine(G) .. y /\ LineEnd(G, y) \in y .. FootRow(G)
<1> DEFINE U == {k \in 0 .. y : Upwards(G, k, y)}
           V == {k \in 0 .. y - d : Upwards(H, k, y - d)}
           D == {k \in y .. FootRow(G) : Downwards(G, y, k)}
           E == {k \in y - d .. FootRow(H) : Downwards(H, y - d, k)}
<1>1. /\ d \in Int /\ FootRow(G) \in Nat /\ FootRow(H) \in Nat /\ BottomLine(H) = BottomLine(G) - d /\ BottomLine(G) \in Int
      /\ y \in Nat /\ y - d \in Nat /\ TopLine(G) \in Nat /\ TopLine(H) \in Nat /\ TopLine(H) = TopLine(G) - d
      /\ BottomLine(G) <= FootRow(G) /\ BottomLine(H) <= FootRow(H)
      /\ y \in TopLine(G) .. FootRow(G) /\ y - d <= FootRow(H) /\ y - d \in TopLine(H) .. FootRow(H)
  <2>1. /\ d \in Int /\ FootRow(G) \in Nat /\ FootRow(H) \in Nat /\ BottomLine(H) = BottomLine(G) - d /\ BottomLine(G) \in Int
        /\ y \in Nat /\ y - d \in Nat
    BY ApartBack, SharedBack
  <2> QED BY <2>1 DEF Apart, Shared
<1>2. ASSUME NEW A, NEW z \in Nat, NEW k \in 0 .. z, Upwards(A, k, z), z >= TopLine(A), TopLine(A) \in Nat PROVE k >= TopLine(A)
  <2>1. CASE k = z
    BY <1>2, <2>1
  <2>2. CASE k # z
    <3>1. k \in k .. z - 1
      BY <2>2
    <3> QED BY <1>2, <3>1 DEF Upwards
  <2> QED BY <2>1, <2>2
<1>3. ASSUME NEW A, NEW z \in Nat, NEW k \in Int, k >= z, Downwards(A, z, k), BottomLine(A) \in Int
      PROVE  k <= z \/ k <= BottomLine(A)
  <2>1. CASE k # z
    <3>1. k - 1 \in z .. k - 1
      BY <1>3, <2>1
    <3> QED BY <1>3, <3>1 DEF Downwards
  <2> QED BY <2>1
<1>4. \A k \in U : k >= TopLine(G) /\ k - d \in V
  <2> SUFFICES ASSUME NEW k \in U PROVE k >= TopLine(G) /\ k - d \in V
    OBVIOUS
  <2>1. k \in 0 .. y /\ Upwards(G, k, y)
    OBVIOUS
  <2>2. k >= TopLine(G)
    BY <1>1, <1>2, <2>1
  <2>3. Upwards(H, k - d, y - d)
    BY <1>1, <2>1, WaysOff
  <2>4. k - d \in 0 .. y - d
    BY <1>1, <2>1, <2>2
  <2> QED BY <2>2, <2>3, <2>4
<1>5. \A k \in V : k + d \in U
  <2> SUFFICES ASSUME NEW k \in V PROVE k + d \in U
    OBVIOUS
  <2>1. k \in 0 .. y - d /\ Upwards(H, k, y - d)
    OBVIOUS
  <2>2. k >= TopLine(H)
    BY <1>1, <1>2, <2>1
  <2>3. Upwards(G, k - (-d), y - d - (-d))
    <3>1. Apart(H, G, -d)
      BY ApartBack
    <3>2. -d \in Int /\ y - d \in Int /\ k \in Int
      BY <1>1, <2>1
    <3> QED BY <2>1, <3>1, <3>2, WaysOff
  <2>4. k - (-d) = k + d /\ y - d - (-d) = y
    BY <1>1, <2>1
  <2>5. k + d \in 0 .. y
    BY <1>1, <2>1, <2>2
  <2> QED BY <2>3, <2>4, <2>5
<1>6. \A k \in D : k - d \in E
  <2> SUFFICES ASSUME NEW k \in D PROVE k - d \in E
    OBVIOUS
  <2>1. k \in y .. FootRow(G) /\ Downwards(G, y, k)
    OBVIOUS
  <2>2. k <= y \/ k <= BottomLine(G)
    BY <1>1, <1>3, <2>1
  <2>3. Downwards(H, y - d, k - d)
    BY <1>1, <2>1, WaysOff
  <2>4. k - d \in y - d .. FootRow(H)
    BY <1>1, <2>1, <2>2
  <2> QED BY <2>3, <2>4
<1>7. \A k \in E : k + d \in D
  <2> SUFFICES ASSUME NEW k \in E PROVE k + d \in D
    OBVIOUS
  <2>1. k \in y - d .. FootRow(H) /\ Downwards(H, y - d, k)
    OBVIOUS
  <2>2. k <= y - d \/ k <= BottomLine(H)
    BY <1>1, <1>3, <2>1
  <2>3. Downwards(G, y - d - (-d), k - (-d))
    <3>1. Apart(H, G, -d)
      BY ApartBack
    <3>2. -d \in Int /\ y - d \in Int /\ k \in Int
      BY <1>1, <2>1
    <3> QED BY <2>1, <3>1, <3>2, WaysOff
  <2>4. k - (-d) = k + d /\ y - d - (-d) = y
    BY <1>1, <2>1
  <2>5. k + d \in y .. FootRow(G)
    BY <1>1, <2>1, <2>2
  <2> QED BY <2>3, <2>4, <2>5
<1>8. y \in U /\ y \in D
  BY <1>1 DEF Upwards, Downwards
<1>9. U \in SUBSET (0 .. y) /\ V \in SUBSET (0 .. y - d)
  OBVIOUS
<1>10. D \in SUBSET (0 .. FootRow(G)) /\ E \in SUBSET (0 .. FootRow(H)) /\ D \in SUBSET (y .. FootRow(G))
  BY <1>1
<1>11. /\ LineStart(G, y) = Min(U) /\ LineStart(H, y - d) = Min(V)
       /\ LineEnd(G, y) = Max(D) /\ LineEnd(H, y - d) = Max(E)
  BY DEF LineStart, LineEnd, FootRow
<1> HIDE DEF U, V, D, E
<1>12. U # {} /\ V # {} /\ D # {} /\ E # {}
  BY <1>4, <1>6, <1>8
<1>13. Min(V) = Min(U) - d
  BY <1>1, <1>4, <1>5, <1>9, <1>12, EndsOff, ZenonT(60)
<1>14. Max(E) = Max(D) - d
  BY <1>1, <1>6, <1>7, <1>10, <1>12, EndsOff, ZenonT(60)
<1>15. Min(U) \in U
  <2>1. U \in SUBSET Nat
    BY <1>9
  <2> QED BY <1>12, <2>1, MinOf
<1>16. Max(D) \in D
  BY <1>1, <1>10, <1>12, MaxOf
<1>17. Min(U) \in TopLine(G) .. y
  <2>1. Min(U) \in 0 .. y /\ Min(U) >= TopLine(G)
    BY <1>4, <1>9, <1>15
  <2> QED BY <1>1, <2>1
<1>18. Max(D) \in y .. FootRow(G)
  BY <1>10, <1>16
<1> QED BY <1>11, <1>13, <1>14, <1>17, <1>18

-----------------------------------------------------------------------------
(***************************************************************************)
(* A drag: where it began, where it leads and what it marks.               *)
(***************************************************************************)
\* The cells in the window.
InWindow(G) == Column \X (TopLine(G) .. BottomLine(G))

\* What is taken with a cell, before it and after it.
Low(G, mode, c) ==
  IF mode = "character" THEN c ELSE IF mode = "word" THEN WordStart(G, c) ELSE <<0, LineStart(G, c[2])>>

High(G, mode, c) ==
  IF mode = "character" THEN c ELSE IF mode = "word" THEN WordEnd(G, c) ELSE <<Last, LineEnd(G, c[2])>>

\* The pointer is before the anchor.
Leftwards(K, c) == IF K.mode = "line" THEN c[2] < K.anchor[2] ELSE Precedes(c, K.anchor)

Hinge(G, K, left) == IF left THEN High(G, K.mode, K.anchor) ELSE Low(G, K.mode, K.anchor)
Here(G, K, c)     == IF Leftwards(K, c) THEN Low(G, K.mode, c) ELSE High(G, K.mode, c)

Before(c) == <<Max({0, c[1] - 1}), c[2]>>

Blocky(K) == K.column_mode /\ K.mode = "character"

\* The ends a range is kept between, as begun on a side of the anchor and as led to h.
StartCell(G, K, left) ==
  IF K.mode = "character" /\ ~Blocky(K) /\ left THEN Before(Hinge(G, K, left)) ELSE Hinge(G, K, left)

EndCell(K, left, h) == IF K.mode = "character" /\ ~Blocky(K) /\ ~left THEN Before(h) ELSE h

Fore(s, e) == IF Loc(s) <= Loc(e) THEN s ELSE e
Aft(s, e)  == IF Loc(s) <= Loc(e) THEN e ELSE s

LeftOf(s, e)  == IF s[1] <= e[1] THEN s[1] ELSE e[1]
RightOf(s, e) == IF s[1] >= e[1] THEN s[1] ELSE e[1]

TopCorner(s, e, block)  == IF block THEN <<LeftOf(s, e), Fore(s, e)[2]>> ELSE Fore(s, e)
FootCorner(s, e, block) == IF block THEN <<RightOf(s, e), Aft(s, e)[2]>> ELSE Aft(s, e)

\* The range is the one between s and e.
Ranged(K, s, e) ==
  K.top_left = Loc(TopCorner(s, e, K.block_mode)) /\ K.bottom_right = Loc(FootCorner(s, e, K.block_mode))

\* The head is where some move led.
Reached(G, K) ==
  IF K.mode = "character" THEN K.head # K.anchor ELSE \E c \in InWindow(G) : Here(G, K, c) = K.head

\* A range begun on the side the head is on, and led to the head if a move led there.
Begun(G, K) ==
  LET left == Leftwards(K, K.head) IN
  /\ K.begin = Loc(StartCell(G, K, left)) /\ K.block_mode = Blocky(K)
  /\ K.mode = "line" => K.triple_sel_begin = Hinge(G, K, left)
  /\ Reached(G, K) => Ranged(K, StartCell(G, K, left), EndCell(K, left, K.head))

\* A drag whose text stands.
OnDrag(G, K) ==
  /\ K.anchor \in TextCells(G) /\ K.head \in TextCells(G)
  /\ K.mode # "character" => K.anchor[2] >= TopLine(G) /\ K.head[2] >= TopLine(G)
  /\ \/ K.act_sel = 1 /\ K.mode = "character" /\ K.head = K.anchor
     \/ K.act_sel = 2 /\ Begun(G, K)

\* What is taken with a cell begins at it or before, and ends at it or after.
LEMMA LowHighFacts ==
  ASSUME NEW G, Standing(G), NEW mode \in Mode, NEW c \in TextCells(G)
  PROVE  /\ Low(G, mode, c) \in TextCells(G) /\ High(G, mode, c) \in TextCells(G)
         /\ Loc(Low(G, mode, c)) <= Loc(c) /\ Loc(c) <= Loc(High(G, mode, c))
         /\ Low(G, mode, c)[2] <= c[2] /\ c[2] <= High(G, mode, c)[2]
         /\ c[2] >= TopLine(G) => Low(G, mode, c)[2] >= TopLine(G) /\ High(G, mode, c)[2] >= TopLine(G)
<1>1. Total(G) \in Nat \ {0} /\ TopLine(G) \in Nat /\ FootRow(G) \in Nat
  BY TotalFacts, WindowFacts
<1>2. c[1] \in Column /\ c[2] \in 0 .. FootRow(G) /\ c[2] \in Nat /\ c = <<c[1], c[2]>> /\ Loc(c) \in Nat /\ Cell(Loc(c)) = c
  BY <1>1, CellsOfText
<1>3. CASE mode = "character"
  BY <1>1, <1>2, <1>3 DEF Low, High
<1>4. CASE mode = "word"
  <2> DEFINE foot == Loc(<<Last, FootRow(G)>>)
             U == {l \in 0 .. Loc(c) : SameClass(G, l, Loc(c)) /\ Upwards(G, Cell(l)[2], c[2])}
             D == {l \in Loc(c) .. foot : SameClass(G, Loc(c), l) /\ Downwards(G, c[2], Cell(l)[2])}
             s == Min(U)
             e == Max(D)
  <2>1. foot \in Nat /\ Loc(c) <= foot
    BY <1>1, CellsOfText
  <2>2. Loc(c) \in U /\ Loc(c) \in D
    <3>1. Upwards(G, c[2], c[2]) /\ Downwards(G, c[2], c[2])
      BY <1>2 DEF Upwards, Downwards
    <3> DEFINE at == Loc(c)
    <3>2. SameClass(G, at, at)
      <4> HIDE DEF at
      <4>1. at \in Nat
        BY <1>2 DEF at
      <4> QED BY <4>1 DEF SameClass
    <3> QED BY <1>2, <2>1, <3>1, <3>2
  <2>3. Low(G, mode, c) = Cell(s) /\ High(G, mode, c) = Cell(e)
    BY <1>4 DEF Low, High, WordStart, WordEnd, FootRow
  <2>4. s \in U /\ e \in D /\ s \in 0 .. Loc(c) /\ e \in Loc(c) .. foot
    <3>1. U \subseteq 0 .. Loc(c) /\ D \subseteq Loc(c) .. foot
      OBVIOUS
    <3> DEFINE at == Loc(c)
    <3>2. at \in Nat /\ foot \in Nat /\ at <= foot /\ U \subseteq 0 .. at /\ D \subseteq at .. foot /\ at \in U /\ at \in D
      BY <1>2, <2>1, <2>2, <3>1
    <3> HIDE DEF U, D, at, foot
    <3>3. Min(U) \in 0 .. at /\ Max(D) \in at .. foot /\ Min(U) \in U /\ Max(D) \in D
      BY <3>2, EndsOfWalk
    <3> QED BY <3>3 DEF at
  <2>5. Upwards(G, Cell(s)[2], c[2])
    BY <2>4
  <2> HIDE DEF U, D, s, e
  <2>6. s \in Nat /\ e \in Nat /\ s <= Loc(c) /\ Loc(c) <= e /\ s \in 0 .. foot /\ e \in 0 .. foot
    BY <1>2, <2>1, <2>4
  <2>7. Cell(s) \in TextCells(G) /\ Cell(e) \in TextCells(G) /\ Loc(Cell(s)) = s /\ Loc(Cell(e)) = e
    BY <1>1, <2>6, CellOfText DEF foot
  <2>8. Cell(s)[2] \in Nat /\ Cell(s)[2] <= c[2] /\ Cell(e)[2] \in Nat /\ c[2] <= Cell(e)[2]
    <3>1. Cell(s)[2] \in Nat /\ Cell(s)[2] <= Cell(Loc(c))[2]
      BY <1>2, <2>6, CellOrder
    <3>2. Cell(e)[2] \in Nat /\ Cell(Loc(c))[2] <= Cell(e)[2]
      BY <1>2, <2>6, CellOrder
    <3> QED BY <1>2, <3>1, <3>2
  <2>9. c[2] >= TopLine(G) => Cell(s)[2] >= TopLine(G)
    <3> DEFINE z == Cell(s)[2]
    <3>1. CASE z = c[2]
      BY <3>1
    <3>2. CASE z # c[2]
      <4>1. z \in z .. c[2] - 1
        BY <1>2, <2>8, <3>2
      <4> QED BY <2>5, <4>1 DEF Upwards
    <3> QED BY <3>1, <3>2
  <2> QED BY <1>1, <1>2, <2>3, <2>6, <2>7, <2>8, <2>9
<1>5. CASE mode = "line"
  <2> DEFINE y == c[2]
             s == LineStart(G, y)
             e == LineEnd(G, y)
             lo == <<0, s>>
             hi == <<Last, e>>
  <2>1. s \in 0 .. y /\ e \in y .. FootRow(G)
    BY <1>1, <1>2, LinesOnText
  <2>2. y >= TopLine(G) => s >= TopLine(G)
    <3>1. Upwards(G, s, y)
      <4> DEFINE U == {k \in 0 .. y : Upwards(G, k, y)}
      <4>1. U \in SUBSET Nat /\ y \in U
        BY <1>2 DEF Upwards
      <4>2. s = Min(U)
        BY DEF LineStart
      <4>3. Min(U) \in U
        <5> HIDE DEF U
        <5> QED BY <4>1, MinOf
      <4> QED BY <4>2, <4>3
    <3>2. CASE s = y
      BY <3>2
    <3>3. CASE s # y
      <4> HIDE DEF s
      <4>1. s \in s .. y - 1
        BY <1>2, <2>1, <3>3
      <4> QED BY <3>1, <4>1 DEF Upwards
    <3> QED BY <3>2, <3>3
  <2>3. Low(G, mode, c) = lo /\ High(G, mode, c) = hi
    BY <1>5 DEF Low, High
  <2> HIDE DEF s, e
  <2>4. 0 \in Column /\ Last \in Column /\ s \in Nat /\ e \in Nat /\ s \in 0 .. FootRow(G) /\ e \in 0 .. FootRow(G)
    BY <1>1, <1>2, <2>1, ViewNumbers DEF Column, Last
  <2>5. lo \in TextCells(G) /\ hi \in TextCells(G)
    BY <2>4 DEF TextCells
  <2>6. /\ Loc(lo) = s * COLUMNS + 0 /\ Loc(hi) = e * COLUMNS + Last /\ Loc(<<c[1], y>>) = y * COLUMNS + c[1]
    BY <1>2, <2>4, LocFacts
  <2>7. s * COLUMNS <= y * COLUMNS /\ y * COLUMNS <= e * COLUMNS /\ s * COLUMNS \in Int /\ y * COLUMNS \in Int /\ e * COLUMNS \in Int
    BY <1>2, <2>1, <2>4, LinesApart
  <2>8. 0 <= c[1] /\ c[1] <= Last /\ c[1] \in Int /\ Last \in Int
    BY <1>2, ViewNumbers DEF Column, Last
  <2>9. Loc(lo) <= Loc(c) /\ Loc(c) <= Loc(hi)
    BY <1>2, <2>6, <2>7, <2>8
  <2>10. lo[2] = s /\ hi[2] = e /\ s <= y /\ y <= e
    BY <1>2, <2>1
  <2> HIDE DEF lo, hi
  <2> QED BY <1>1, <1>2, <2>2, <2>3, <2>4, <2>5, <2>9, <2>10
<1> QED BY <1>3, <1>4, <1>5 DEF Mode

\* Where a drag leads, by name.
LEMMA TowardsIs ==
  ASSUME NEW G, NEW K, K.mode \in Mode, NEW c
  PROVE  LET T    == Towards(G, K, c)
             left == Leftwards(K, c)
             h    == Hinge(G, K, left)
         IN  /\ T.here = Here(G, K, c) /\ T.start = h /\ T.left = left
             /\ T.ohere = <<h[1] + (IF K.mode = "character" THEN 0 ELSE 1), h[2]>>
             /\ T.offset = IF K.mode = "character" /\ ~left THEN -1 ELSE 0
<1> DEFINE a == K.anchor
           left == IF K.mode = "line" THEN c[2] < a[2] ELSE Precedes(c, a)
           near == IF left THEN c ELSE a
           far  == IF left THEN a ELSE c
           lo   == CASE K.mode = "character" -> near
                     [] K.mode = "word"      -> WordStart(G, near)
                     [] K.mode = "line"      -> <<0, LineStart(G, near[2])>>
           hi   == CASE K.mode = "character" -> far
                     [] K.mode = "word"      -> WordEnd(G, far)
                     [] K.mode = "line"      -> <<Last, LineEnd(G, far[2])>>
           one  == IF K.mode = "character" THEN 0 ELSE 1
           o    == IF left THEN hi ELSE lo
           here == IF left THEN lo ELSE hi
           offset == IF K.mode = "character" /\ ~left THEN -1 ELSE 0
<1>1. Towards(G, K, c) = [here |-> here, start |-> o, ohere |-> <<o[1] + one, o[2]>>, left |-> left, offset |-> offset]
  BY DEF Towards
<1>2. K.mode = "character" \/ K.mode = "word" \/ K.mode = "line"
  BY DEF Mode
<1>3. left = Leftwards(K, c)
  BY DEF Leftwards
<1> HIDE DEF left
<1>4. near = (IF left THEN c ELSE a) /\ far = (IF left THEN a ELSE c)
  OBVIOUS
<1> HIDE DEF near, far
<1>5. lo = Low(G, K.mode, near) /\ hi = High(G, K.mode, far)
  <2>1. CASE K.mode = "character"
    BY <2>1 DEF Low, High
  <2>2. CASE K.mode = "word"
    BY <2>2 DEF Low, High
  <2>3. CASE K.mode = "line"
    BY <2>3 DEF Low, High
  <2> QED BY <1>2, <2>1, <2>2, <2>3
<1> HIDE DEF lo, hi
<1>6. here = Here(G, K, c) /\ o = Hinge(G, K, left)
  BY <1>3, <1>4, <1>5 DEF Here, Hinge
<1> HIDE DEF here, o
<1> QED BY <1>1, <1>3, <1>6

\* The cell a move leads to is on the side of the anchor the pointer is on.
LEMMA HereFacts ==
  ASSUME NEW G, Standing(G), NEW K, K.mode \in Mode, K.anchor \in TextCells(G), NEW c \in TextCells(G)
  PROVE  /\ Here(G, K, c) \in TextCells(G) /\ (Leftwards(K, Here(G, K, c)) <=> Leftwards(K, c))
         /\ c[2] >= TopLine(G) => Here(G, K, c)[2] >= TopLine(G)
<1>1. Total(G) \in Nat \ {0}
  BY TotalFacts
<1> DEFINE lo == Low(G, K.mode, c)
           hi == High(G, K.mode, c)
           a == K.anchor
<1>2. /\ lo \in TextCells(G) /\ hi \in TextCells(G) /\ Loc(lo) <= Loc(c) /\ Loc(c) <= Loc(hi)
      /\ lo[2] <= c[2] /\ c[2] <= hi[2]
      /\ c[2] >= TopLine(G) => lo[2] >= TopLine(G) /\ hi[2] >= TopLine(G)
  BY LowHighFacts
<1> HIDE DEF lo, hi
<1>3. /\ Loc(lo) \in Nat /\ Loc(hi) \in Nat /\ Loc(c) \in Nat /\ Loc(a) \in Nat
      /\ lo[2] \in Nat /\ hi[2] \in Nat /\ c[2] \in Nat /\ a[2] \in Nat
  BY <1>1, <1>2, CellsOfText
<1>4. Here(G, K, c) = IF Leftwards(K, c) THEN lo ELSE hi
  BY DEF Here, lo, hi
<1>5. /\ Leftwards(K, c) => Leftwards(K, lo)
      /\ ~Leftwards(K, c) => ~Leftwards(K, hi)
  BY <1>2, <1>3 DEF Leftwards, Precedes
<1> QED BY <1>2, <1>4, <1>5

LEMMA HingeFacts ==
  ASSUME NEW G, Standing(G), NEW K, K.mode \in Mode, K.anchor \in TextCells(G), NEW left \in BOOLEAN
  PROVE  /\ Hinge(G, K, left) \in TextCells(G)
         /\ K.anchor[2] >= TopLine(G) => Hinge(G, K, left)[2] >= TopLine(G)
BY LowHighFacts DEF Hinge

\* One short of a cell, on its line.
LEMMA CellBefore ==
  ASSUME NEW c \in Column \X Nat
  PROVE  /\ Before(c) \in Column \X Nat /\ Before(c)[2] = c[2]
         /\ Before(c)[1] = (IF c[1] = 0 THEN 0 ELSE c[1] - 1)
         /\ Loc(c) \in Nat /\ Loc(Before(c)) \in Nat /\ Loc(Before(c)) = (IF c[1] = 0 THEN Loc(c) ELSE Loc(c) - 1)
         /\ Loc(Before(c)) = Max({Loc(c) - 1, Loc(<<0, c[2]>>)})
<1> DEFINE x == c[1]
           y == c[2]
           w == Max({0, x - 1})
<1>1. x \in Column /\ y \in Nat /\ c = <<x, y>> /\ x \in 0 .. Last /\ x \in Int /\ Last \in Int
  BY ViewNumbers DEF Column, Last
<1> HIDE DEF x, y
<1>2. w = IF x = 0 THEN 0 ELSE x - 1
  <2>1. ASSUME NEW q \in Int PROVE Max({0, q}) = IF 0 >= q THEN 0 ELSE q
    BY AtLeastZero
  <2>2. w = IF 0 >= x - 1 THEN 0 ELSE x - 1
    BY <1>1, <2>1
  <2> QED BY <1>1, <2>2
<1>3. Before(c) = <<w, y>>
  BY DEF Before, x, y
<1> HIDE DEF w
<1>4. w \in Column /\ 0 \in Column /\ w \in Int
  BY <1>1, <1>2 DEF Column
<1>5. /\ Loc(<<x, y>>) = y * COLUMNS + x /\ Loc(<<w, y>>) = y * COLUMNS + w /\ Loc(<<0, y>>) = y * COLUMNS + 0
      /\ Loc(<<x, y>>) \in Nat /\ Loc(<<w, y>>) \in Nat /\ Loc(<<0, y>>) \in Nat /\ y * COLUMNS \in Int
  BY <1>1, <1>4, LocFacts, LinesApart
<1> DEFINE l == Loc(<<x, y>>)
           z == Loc(<<0, y>>)
<1>6. Max({l - 1, z}) = IF l - 1 >= z THEN l - 1 ELSE z
  <2>1. l - 1 \in Int /\ z \in Int
    BY <1>5
  <2> HIDE DEF l, z
  <2> QED BY <2>1, MinMaxOfTwo
<1>7. Loc(<<w, y>>) = (IF x = 0 THEN l ELSE l - 1)
  BY <1>1, <1>2, <1>5
<1>8. Loc(<<w, y>>) = Max({l - 1, z})
  BY <1>1, <1>2, <1>5, <1>6
<1>9. <<w, y>> \in Column \X Nat /\ <<w, y>>[1] = w /\ <<w, y>>[2] = y
  BY <1>1, <1>4
<1> HIDE DEF l, z
<1> QED BY <1>1, <1>2, <1>3, <1>5, <1>7, <1>8, <1>9 DEF x, y, l, z

LEMMA SameCell ==
  ASSUME NEW a \in Column \X Nat, NEW b \in Column \X Nat, Loc(a) = Loc(b)
  PROVE  a = b
<1>1. a[1] \in Column /\ a[2] \in Nat /\ a = <<a[1], a[2]>> /\ b[1] \in Column /\ b[2] \in Nat /\ b = <<b[1], b[2]>>
  OBVIOUS
<1>2. Cell(Loc(<<a[1], a[2]>>)) = <<a[1], a[2]>> /\ Cell(Loc(<<b[1], b[2]>>)) = <<b[1], b[2]>>
  BY <1>1, LocFacts
<1> QED BY <1>1, <1>2

\* The ends of a range are on the text, on the lines of the cells they are taken from.
LEMMA EndFacts ==
  ASSUME NEW G, Standing(G), NEW K, K.mode \in Mode, K.anchor \in TextCells(G), NEW left \in BOOLEAN, NEW h \in TextCells(G)
  PROVE  /\ StartCell(G, K, left) \in TextCells(G) /\ StartCell(G, K, left)[2] = Hinge(G, K, left)[2]
         /\ EndCell(K, left, h) \in TextCells(G) /\ EndCell(K, left, h)[2] = h[2]
<1>1. Total(G) \in Nat \ {0}
  BY TotalFacts
<1>2. ASSUME NEW c \in TextCells(G) PROVE Before(c) \in TextCells(G) /\ Before(c)[2] = c[2]
  <2>1. c[1] \in Column /\ c[2] \in 0 .. FootRow(G) /\ c[2] \in Nat /\ c = <<c[1], c[2]>>
    BY <1>1, CellsOfText
  <2>2. c \in Column \X Nat
    BY <2>1
  <2> DEFINE b == Before(c)
  <2>3. b \in Column \X Nat /\ b[2] = c[2]
    BY <2>2, CellBefore
  <2> HIDE DEF b
  <2>4. b = <<b[1], b[2]>> /\ b[1] \in Column
    BY <2>3
  <2>5. b \in TextCells(G)
    BY <2>1, <2>3, <2>4 DEF TextCells
  <2> QED BY <2>3, <2>5 DEF b
<1>3. Hinge(G, K, left) \in TextCells(G)
  BY HingeFacts
<1>4. Before(h) \in TextCells(G) /\ Before(h)[2] = h[2]
  BY <1>2
<1>5. Before(Hinge(G, K, left)) \in TextCells(G) /\ Before(Hinge(G, K, left))[2] = Hinge(G, K, left)[2]
  BY <1>2, <1>3
<1> QED BY <1>3, <1>4, <1>5 DEF StartCell, EndCell

\* SetEnd keeps the range between the cell it began at and the one given.
LEMMA SetEndRanges ==
  ASSUME NEW n \in Nat, NEW K, Fitting(K, n), NEW s \in Column \X (0 .. n - 1), NEW e \in Column \X (0 .. n - 1),
         K.begin = Loc(s)
  PROVE  Ranged(SetEnd(K, e[1], e[2]), s, e)
<1> DEFINE E == SetEnd(K, e[1], e[2])
           l == Loc(<<e[1], e[2]>>)
           lo == Min({l, K.begin})
           hi == Max({l, K.begin})
           from == Cell(lo)
           to == Cell(hi)
           xs == {from[1], to[1]}
<1>1. /\ s \in Column \X Nat /\ e \in Column \X Nat /\ s[1] \in Column /\ s[2] \in 0 .. n - 1 /\ s = <<s[1], s[2]>>
      /\ e[1] \in Column /\ e[2] \in 0 .. n - 1 /\ e = <<e[1], e[2]>> /\ s[2] \in Nat /\ e[2] \in Nat
  OBVIOUS
<1>2. /\ Loc(s) \in Nat /\ Loc(e) \in Nat /\ l = Loc(e) /\ Cell(Loc(s)) = s /\ Cell(Loc(e)) = e
  <2>1. /\ Loc(<<s[1], s[2]>>) \in Nat /\ Loc(<<e[1], e[2]>>) \in Nat
        /\ Cell(Loc(<<s[1], s[2]>>)) = <<s[1], s[2]>> /\ Cell(Loc(<<e[1], e[2]>>)) = <<e[1], e[2]>>
    BY <1>1, LocFacts
  <2> QED BY <1>1, <2>1
<1>3. K.begin # Nowhere
  BY <1>2 DEF Nowhere
<1>4. /\ E.block_mode = K.block_mode
      /\ ~K.block_mode => /\ E.top_left = (IF Loc(e) <= Loc(s) THEN Loc(e) ELSE Loc(s))
                          /\ E.bottom_right = (IF Loc(e) >= Loc(s) THEN Loc(e) ELSE Loc(s))
  BY <1>1, <1>2, <1>3, SetEndFacts
<1>5. CASE ~K.block_mode
  <2> HIDE DEF E
  <2>1. E.top_left = Loc(Fore(s, e)) /\ E.bottom_right = Loc(Aft(s, e))
    BY <1>2, <1>4, <1>5 DEF Fore, Aft
  <2> QED BY <1>4, <1>5, <2>1 DEF Ranged, TopCorner, FootCorner, E
<1>6. CASE K.block_mode
  <2>1. lo = (IF Loc(e) <= Loc(s) THEN Loc(e) ELSE Loc(s)) /\ hi = (IF Loc(e) >= Loc(s) THEN Loc(e) ELSE Loc(s))
    <3>1. l \in Int /\ K.begin \in Int
      BY <1>2
    <3> HIDE DEF l
    <3>2. lo = (IF l <= K.begin THEN l ELSE K.begin) /\ hi = (IF l >= K.begin THEN l ELSE K.begin)
      BY <3>1, MinMaxOfTwo
    <3> QED BY <1>2, <3>2
  <2>2. from = Fore(s, e) /\ to = Aft(s, e)
    <3>1. Loc(s) = Loc(e) => s = e
      BY <1>1, SameCell
    <3> HIDE DEF lo, hi
    <3> QED BY <1>2, <2>1, <3>1 DEF Fore, Aft
  <2>3. E = [K EXCEPT !.top_left = Loc(<<Min(xs), from[2]>>), !.bottom_right = Loc(<<Max(xs), to[2]>>)]
    BY <1>3, <1>6 DEF SetEnd
  <2> HIDE DEF from, to
  <2>4. xs = {s[1], e[1]}
    BY <2>2 DEF Fore, Aft
  <2>5. s[1] \in Int /\ e[1] \in Int
    BY <1>1, ViewNumbers DEF Column, Last
  <2>6. Min({s[1], e[1]}) = LeftOf(s, e) /\ Max({s[1], e[1]}) = RightOf(s, e)
    <3> DEFINE i == s[1]
               j == e[1]
    <3> HIDE DEF i, j
    <3>1. i \in Int /\ j \in Int
      BY <2>5 DEF i, j
    <3>2. Min({i, j}) = (IF i <= j THEN i ELSE j) /\ Max({i, j}) = (IF i >= j THEN i ELSE j)
      BY <3>1, MinMaxOfTwo
    <3> QED BY <3>2 DEF LeftOf, RightOf, i, j
  <2> HIDE DEF xs
  <2>7. Min(xs) = LeftOf(s, e) /\ Max(xs) = RightOf(s, e)
    BY <2>4, <2>6
  <2> DEFINE p == Loc(<<Min(xs), from[2]>>)
             q == Loc(<<Max(xs), to[2]>>)
  <2>8. p = Loc(TopCorner(s, e, TRUE)) /\ q = Loc(FootCorner(s, e, TRUE))
    BY <2>2, <2>7 DEF TopCorner, FootCorner
  <2> HIDE DEF E, p, q
  <2>9. E.top_left = p /\ E.bottom_right = q
    <3>1. E = [K EXCEPT !.top_left = p, !.bottom_right = q]
      BY <2>3 DEF p, q
    <3>2. K \in Konsoles(n)
      BY DEF Fitting
    <3> QED BY <3>1, <3>2 DEF Konsoles
  <2> QED BY <1>4, <1>6, <2>8, <2>9 DEF Ranged, E
<1> QED BY <1>5, <1>6

LEMMA LocOrder ==
  ASSUME NEW a \in Column \X Nat, NEW b \in Column \X Nat
  PROVE  /\ a[2] < b[2] => Loc(a) < Loc(b)
         /\ a[2] <= b[2] /\ a[1] <= b[1] => Loc(a) <= Loc(b)
<1>1. /\ a[1] \in Column /\ a[2] \in Nat /\ a = <<a[1], a[2]>> /\ b[1] \in Column /\ b[2] \in Nat /\ b = <<b[1], b[2]>>
  OBVIOUS
<1>2. Loc(<<a[1], a[2]>>) = a[2] * COLUMNS + a[1] /\ Loc(<<b[1], b[2]>>) = b[2] * COLUMNS + b[1]
  BY <1>1, LocFacts
<1>3. /\ a[2] < b[2] => a[2] * COLUMNS + COLUMNS <= b[2] * COLUMNS
      /\ a[2] <= b[2] => a[2] * COLUMNS <= b[2] * COLUMNS
      /\ a[2] * COLUMNS \in Int /\ b[2] * COLUMNS \in Int
  BY <1>1, LinesApart
<1>4. a[1] \in 0 .. COLUMNS - 1 /\ b[1] \in 0 .. COLUMNS - 1 /\ COLUMNS \in Int
  BY <1>1, ViewNumbers DEF Column, Last
<1>5. Loc(a) = a[2] * COLUMNS + a[1] /\ Loc(b) = b[2] * COLUMNS + b[1]
  BY <1>1, <1>2
<1> QED BY <1>3, <1>4, <1>5

\* A range taken at the numbering it is asked in.
LEMMA MarkedIs ==
  ASSUME NEW n \in Nat, NEW K \in Konsoles(n), K.top_left # Nowhere, K.bottom_right # Nowhere
  PROVE  Marked(K, K.evicted_base) = Cells(K.top_left, K.bottom_right, K.block_mode)
<1>1. K.top_left \in Place(n) /\ K.bottom_right \in Place(n) /\ K.evicted_base \in Nat
  BY DEF Konsoles
<1>2. Gone(K, K.evicted_base) = 0
  BY <1>1, GoneType
<1>3. ASSUME NEW l \in Place(n), l # Nowhere PROVE Shifted(l, 0) = l
  <2>1. l \in Nat /\ Shifted(l, 0) = (IF l \div COLUMNS >= 0 THEN l - 0 * COLUMNS ELSE l % COLUMNS)
    BY <1>3, ShiftedFacts
  <2>2. l \div COLUMNS \in Nat /\ 0 * COLUMNS = 0
    BY <2>1, CellFacts, ViewNumbers
  <2> QED BY <2>1, <2>2
<1>4. Shifted(K.top_left, 0) = K.top_left /\ Shifted(K.bottom_right, 0) = K.bottom_right
  BY <1>1, <1>3
<1>5. IsValid(K)
  BY ValidIs
<1> QED BY <1>2, <1>4, <1>5 DEF Marked, StartAt, EndAt

LEMMA PlainCells == ASSUME NEW a, NEW b PROVE Cells(a, b, FALSE) = a .. b
BY DEF Cells

\* The range between the two ends is what a press at the anchor and one move would mark.
LEMMA DirectIs ==
  ASSUME NEW G, Standing(G), NEW K, Fitting(K, Total(G)), K.evicted_base = G.evicted, K.anchor \in TextCells(G),
         NEW c, Clamp(G, c) \in TextCells(G), NEW left \in BOOLEAN, left <=> Leftwards(K, Clamp(G, c)),
         NEW here, here = Here(G, K, Clamp(G, c)), K.block_mode = Blocky(K),
         Ranged(K, StartCell(G, K, left), EndCell(K, left, here)),
         K.mode = "character" => Clamp(G, c) # K.anchor
  PROVE  Marked(K, G.evicted) = Direct(G, K, c)
<1> DEFINE p == Clamp(G, c)
           a == K.anchor
           s == StartCell(G, K, left)
           e == EndCell(K, left, here)
           before == Precedes(p, a)
           lo == IF before THEN p ELSE a
           hi == IF before THEN a ELSE p
           xs == {p[1], a[1]}
<1>1. Total(G) \in Nat \ {0} /\ K \in Konsoles(Total(G)) /\ K.mode \in Mode /\ K.column_mode \in BOOLEAN
      /\ K.block_mode \in BOOLEAN
  BY TotalFacts DEF Fitting, Konsoles
<1>2. Direct(G, K, c) =
        CASE K.mode = "word" -> Loc(WordStart(G, lo)) .. Loc(WordEnd(G, hi))
          [] K.mode = "line" -> Loc(<<0, LineStart(G, lo[2])>>) .. Loc(<<Last, LineEnd(G, hi[2])>>)
          [] K.mode = "character" ->
               IF K.column_mode
               THEN Cells(Loc(<<Min(xs), lo[2]>>), Loc(<<Max(xs), hi[2]>>), TRUE)
               ELSE Loc(lo) .. Max({Loc(hi) - 1, Loc(<<0, hi[2]>>)})
  BY DEF Direct
<1>3. p \in TextCells(G) /\ (left <=> Leftwards(K, p)) /\ here = Here(G, K, p) /\ (K.mode = "character" => p # a)
  OBVIOUS
<1> HIDE DEF p, a
<1>4. a \in TextCells(G) /\ a = K.anchor
  BY DEF a
<1>5. /\ p[1] \in Column /\ p[2] \in Nat /\ p = <<p[1], p[2]>> /\ Loc(p) \in Nat
      /\ a[1] \in Column /\ a[2] \in Nat /\ a = <<a[1], a[2]>> /\ Loc(a) \in Nat
      /\ p \in Column \X Nat /\ a \in Column \X Nat /\ p[1] \in Int /\ a[1] \in Int
  <2>1. /\ p[1] \in Column /\ p[2] \in Nat /\ p = <<p[1], p[2]>> /\ Loc(p) \in Nat
        /\ a[1] \in Column /\ a[2] \in Nat /\ a = <<a[1], a[2]>> /\ Loc(a) \in Nat
    BY <1>1, <1>3, <1>4, CellsOfText
  <2>2. p[1] \in Int /\ a[1] \in Int
    BY <2>1, ViewNumbers DEF Column, Last
  <2> QED BY <2>1, <2>2
<1>6. (before <=> Loc(p) < Loc(a)) /\ (K.mode # "line" => (left <=> before)) /\ (K.mode = "line" => (left <=> p[2] < a[2]))
  BY <1>3, <1>4 DEF Leftwards, Precedes
<1>7. /\ p[2] < a[2] => Loc(p) < Loc(a)
      /\ a[2] < p[2] => Loc(a) < Loc(p)
  BY <1>5, LocOrder
<1>8. s \in TextCells(G) /\ e \in TextCells(G)
  <2>1. here \in TextCells(G)
    BY <1>1, <1>3, <1>4, HereFacts
  <2> QED BY <1>1, <1>4, <2>1, EndFacts
<1>9. s \in Column \X Nat /\ e \in Column \X Nat /\ s[1] \in Column /\ e[1] \in Column /\ Loc(s) \in Nat /\ Loc(e) \in Nat
      /\ s[2] \in Nat /\ e[2] \in Nat
  <2>1. /\ s[1] \in Column /\ s[2] \in Nat /\ s = <<s[1], s[2]>> /\ e[1] \in Column /\ e[2] \in Nat /\ e = <<e[1], e[2]>>
        /\ Loc(s) \in Nat /\ Loc(e) \in Nat
    BY <1>1, <1>8, CellsOfText
  <2> QED BY <2>1
<1>10. K.top_left = Loc(TopCorner(s, e, K.block_mode)) /\ K.bottom_right = Loc(FootCorner(s, e, K.block_mode))
  BY DEF Ranged
<1>11. s = StartCell(G, K, left) /\ e = EndCell(K, left, here)
  OBVIOUS
<1> HIDE DEF s, e
<1>12. TopCorner(s, e, K.block_mode) \in Column \X Nat /\ FootCorner(s, e, K.block_mode) \in Column \X Nat
  BY <1>9 DEF TopCorner, FootCorner, Fore, Aft, LeftOf, RightOf
<1>13. Marked(K, G.evicted) = Cells(K.top_left, K.bottom_right, K.block_mode)
  <2>1. K.top_left \in Nat /\ K.bottom_right \in Nat
    <3>1. ASSUME NEW u \in Column \X Nat PROVE Loc(u) \in Nat
      <4>1. u[1] \in Column /\ u[2] \in Nat /\ u = <<u[1], u[2]>>
        OBVIOUS
      <4> QED BY <4>1, LocFacts
    <3> QED BY <1>10, <1>12, <3>1
  <2>2. K.top_left # Nowhere /\ K.bottom_right # Nowhere
    BY <2>1 DEF Nowhere
  <2> QED BY <1>1, <2>2, MarkedIs
<1>14. CASE ~K.block_mode
  <2>1. Marked(K, G.evicted) = Loc(Fore(s, e)) .. Loc(Aft(s, e))
    <3>1. K.block_mode = FALSE
      BY <1>1, <1>14
    <3> QED BY <1>10, <1>13, <3>1, PlainCells DEF TopCorner, FootCorner
  <2>2. CASE K.mode = "word"
    <3>1. /\ s = (IF left THEN WordEnd(G, a) ELSE WordStart(G, a)) /\ e = (IF left THEN WordStart(G, p) ELSE WordEnd(G, p))
      BY <1>3, <1>4, <1>11, <2>2 DEF StartCell, EndCell, Hinge, Here, Low, High
    <3>2. /\ Loc(WordStart(G, p)) <= Loc(p) /\ Loc(p) <= Loc(WordEnd(G, p))
          /\ Loc(WordStart(G, a)) <= Loc(a) /\ Loc(a) <= Loc(WordEnd(G, a))
      BY <1>1, <1>3, <1>4, <2>2, LowHighFacts, ZenonT(60) DEF Low, High
    <3>3. Direct(G, K, c) = Loc(WordStart(G, lo)) .. Loc(WordEnd(G, hi))
      BY <1>2, <2>2
    <3>4. CASE left
      <4>1. lo = p /\ hi = a /\ s = WordEnd(G, a) /\ e = WordStart(G, p) /\ Loc(p) < Loc(a)
        BY <1>6, <2>2, <3>1, <3>4
      <4>2. ~(Loc(s) <= Loc(e))
        BY <1>5, <1>9, <3>2, <4>1
      <4> QED BY <2>1, <3>3, <4>1, <4>2 DEF Fore, Aft
    <3>5. CASE ~left
      <4>1. lo = a /\ hi = p /\ s = WordStart(G, a) /\ e = WordEnd(G, p) /\ Loc(a) <= Loc(p)
        BY <1>5, <1>6, <2>2, <3>1, <3>5
      <4>2. Loc(s) <= Loc(e)
        BY <1>5, <1>9, <3>2, <4>1
      <4> QED BY <2>1, <3>3, <4>1, <4>2 DEF Fore, Aft
    <3> QED BY <3>4, <3>5
  <2>3. CASE K.mode = "line"
    <3> DEFINE ls(y) == <<0, LineStart(G, y)>>
               le(y) == <<Last, LineEnd(G, y)>>
    <3>1. /\ s = (IF left THEN le(a[2]) ELSE ls(a[2])) /\ e = (IF left THEN ls(p[2]) ELSE le(p[2]))
      BY <1>3, <1>4, <1>11, <2>3 DEF StartCell, EndCell, Hinge, Here, Low, High
    <3>2. /\ Loc(ls(p[2])) <= Loc(p) /\ Loc(a) <= Loc(le(a[2])) /\ ls(a[2])[2] <= a[2] /\ p[2] <= le(p[2])[2]
      BY <1>1, <1>3, <1>4, <2>3, LowHighFacts DEF Low, High
    <3>3. Direct(G, K, c) = Loc(ls(lo[2])) .. Loc(le(hi[2]))
      BY <1>2, <2>3
    <3>4. ls(a[2])[1] = 0 /\ le(p[2])[1] = Last /\ 0 <= Last
      BY ViewNumbers DEF Last
    <3> HIDE DEF ls, le
    <3>5. CASE left
      <4>1. lo = p /\ hi = a /\ s = le(a[2]) /\ e = ls(p[2]) /\ Loc(p) < Loc(a)
        BY <1>6, <1>7, <2>3, <3>1, <3>5
      <4>2. ~(Loc(s) <= Loc(e))
        BY <1>5, <1>9, <3>2, <4>1
      <4> QED BY <2>1, <3>3, <4>1, <4>2 DEF Fore, Aft
    <3>6. CASE ~left
      <4>1. s = ls(a[2]) /\ e = le(p[2]) /\ a[2] <= p[2]
        BY <1>5, <1>6, <2>3, <3>1, <3>6
      <4>2. lo[2] = a[2] /\ hi[2] = p[2]
        <5>1. CASE before
          <6>1. a[2] = p[2]
            BY <1>5, <1>6, <1>7, <4>1, <5>1
          <6> QED BY <6>1
        <5>2. CASE ~before
          BY <5>2
        <5> QED BY <5>1, <5>2
      <4>3. Loc(s) <= Loc(e)
        <5>1. s[2] <= e[2] /\ s[1] <= e[1]
          BY <1>5, <1>9, <3>2, <3>4, <4>1
        <5> QED BY <1>9, <5>1, LocOrder
      <4> QED BY <2>1, <3>3, <4>1, <4>2, <4>3 DEF Fore, Aft
    <3> QED BY <3>5, <3>6
  <2>4. CASE K.mode = "character"
    <3>1. ~K.column_mode
      BY <1>14, <2>4 DEF Blocky
    <3>2. /\ s = (IF left THEN Before(a) ELSE a) /\ e = (IF left THEN p ELSE Before(p))
      BY <1>3, <1>4, <1>11, <2>4, <3>1 DEF StartCell, EndCell, Hinge, Here, Low, High, Blocky
    <3>3. Direct(G, K, c) = Loc(lo) .. Max({Loc(hi) - 1, Loc(<<0, hi[2]>>)})
      BY <1>2, <2>4, <3>1
    <3>4. ASSUME NEW u \in Column \X Nat
          PROVE  /\ Loc(Before(u)) = Max({Loc(u) - 1, Loc(<<0, u[2]>>)})
                 /\ Loc(Before(u)) = Loc(u) \/ Loc(Before(u)) = Loc(u) - 1
      BY CellBefore
    <3>5. CASE left
      <4>1. lo = p /\ hi = a /\ s = Before(a) /\ e = p /\ Loc(p) < Loc(a)
        BY <1>6, <2>4, <3>2, <3>5
      <4>2. Loc(s) = Max({Loc(a) - 1, Loc(<<0, a[2]>>)}) /\ (Loc(s) = Loc(a) \/ Loc(s) = Loc(a) - 1)
        BY <1>5, <3>4, <4>1
      <4>3. Loc(Fore(s, e)) = Loc(p) /\ Loc(Aft(s, e)) = Loc(s)
        BY <1>5, <1>9, <4>1, <4>2 DEF Fore, Aft
      <4> QED BY <2>1, <3>3, <4>1, <4>2, <4>3
    <3>6. CASE ~left
      <4>1. lo = a /\ hi = p /\ s = a /\ e = Before(p) /\ Loc(a) < Loc(p)
        <5>1. Loc(a) # Loc(p)
          BY <1>3, <1>5, <2>4, SameCell
        <5> QED BY <1>5, <1>6, <2>4, <3>2, <3>6, <5>1
      <4>2. Loc(e) = Max({Loc(p) - 1, Loc(<<0, p[2]>>)}) /\ (Loc(e) = Loc(p) \/ Loc(e) = Loc(p) - 1)
        BY <1>5, <3>4, <4>1
      <4>3. Loc(Fore(s, e)) = Loc(a) /\ Loc(Aft(s, e)) = Loc(e)
        BY <1>5, <1>9, <4>1, <4>2 DEF Fore, Aft
      <4> QED BY <2>1, <3>3, <4>1, <4>2, <4>3
    <3> QED BY <3>5, <3>6
  <2> QED BY <1>1, <2>2, <2>3, <2>4 DEF Mode
<1>15. CASE K.block_mode
  <2>1. K.mode = "character" /\ K.column_mode /\ Blocky(K)
    BY <1>15 DEF Blocky
  <2>2. s = a /\ e = p
    BY <1>3, <1>4, <1>11, <2>1 DEF StartCell, EndCell, Hinge, Here, Low, High
  <2>3. Direct(G, K, c) = Cells(Loc(<<Min(xs), lo[2]>>), Loc(<<Max(xs), hi[2]>>), TRUE)
    BY <1>2, <2>1
  <2>4. Min(xs) = LeftOf(a, p) /\ Max(xs) = RightOf(a, p)
    <3> DEFINE i == p[1]
               j == a[1]
    <3> HIDE DEF i, j
    <3>1. i \in Int /\ j \in Int
      BY <1>5 DEF i, j
    <3>2. Min({i, j}) = (IF i <= j THEN i ELSE j) /\ Max({i, j}) = (IF i >= j THEN i ELSE j)
      BY <3>1, MinMaxOfTwo
    <3>3. xs = {i, j}
      BY DEF i, j
    <3> HIDE DEF xs
    <3> QED BY <3>1, <3>2, <3>3 DEF LeftOf, RightOf, i, j
  <2>5. Loc(a) # Loc(p)
    BY <1>3, <1>5, <2>1, SameCell
  <2>6. lo = Fore(a, p) /\ hi = Aft(a, p)
    BY <1>5, <1>6, <2>5 DEF Fore, Aft
  <2> HIDE DEF lo, hi, xs
  <2> QED BY <1>10, <1>13, <1>15, <2>2, <2>3, <2>4, <2>6 DEF TopCorner, FootCorner
<1> QED BY <1>14, <1>15

\* The same drag leads to the same places, whichever cells its range is kept in.
SameAim(K, L) == L.anchor = K.anchor /\ L.mode = K.mode /\ L.column_mode = K.column_mode

LEMMA AimFacts ==
  ASSUME NEW G, NEW K, NEW L, SameAim(K, L), NEW c, NEW l1 \in BOOLEAN, NEW l2 \in BOOLEAN, l1 <=> l2
  PROVE  /\ Leftwards(L, c) <=> Leftwards(K, c)
         /\ Here(G, L, c) = Here(G, K, c) /\ Hinge(G, L, l1) = Hinge(G, K, l2)
         /\ StartCell(G, L, l1) = StartCell(G, K, l2) /\ EndCell(L, l1, c) = EndCell(K, l2, c)
         /\ Blocky(L) = Blocky(K)
<1>1. L.anchor = K.anchor /\ L.mode = K.mode /\ L.column_mode = K.column_mode
  BY DEF SameAim
<1>2. (Leftwards(L, c) <=> Leftwards(K, c)) /\ Blocky(L) = Blocky(K)
  BY <1>1 DEF Leftwards, Blocky
<1>3. Here(G, L, c) = Here(G, K, c) /\ Hinge(G, L, l1) = Hinge(G, K, l2)
  BY <1>1, <1>2 DEF Here, Hinge
<1> QED BY <1>1, <1>2, <1>3 DEF StartCell, EndCell

LEMMA LeftwardsType == \A K, c : Leftwards(K, c) \in BOOLEAN
<1> SUFFICES ASSUME NEW K, NEW c PROVE Leftwards(K, c) \in BOOLEAN
  OBVIOUS
<1>1. CASE K.mode = "line"
  BY <1>1 DEF Leftwards
<1>2. CASE K.mode # "line"
  BY <1>2 DEF Leftwards, Precedes
<1> QED BY <1>1, <1>2

\* In words and lines the end a drag starts from is one past its cell, and no move
\* by lines leads to it: a line of two columns has its end one past its start.
LEMMA LinesAreLed ==
  ASSUME COLUMNS # 2, NEW G, NEW K, K.mode = "line", NEW c
  PROVE  Towards(G, K, c).here # Towards(G, K, c).ohere
<1> DEFINE T == Towards(G, K, c)
           left == Leftwards(K, c)
           h == Hinge(G, K, left)
<1>1. T.here = Here(G, K, c) /\ T.ohere = <<h[1] + 1, h[2]>>
  BY TowardsIs, ModeNames
<1>2. /\ left => h[1] = Last /\ T.here[1] = 0
      /\ ~left => h[1] = 0 /\ T.here[1] = Last
  BY <1>1 DEF Hinge, Here, Low, High
<1> HIDE DEF T, left, h
<1>3. T.ohere[1] = h[1] + 1
  BY <1>1
<1>4. Last \in Nat /\ Last # 1
  BY ViewNumbers DEF Last
<1>5. T.here[1] # T.ohere[1]
  BY <1>2, <1>3, <1>4
<1> QED BY <1>5 DEF T

\* The cell a range is begun at, and the one it is led to.
LEMMA BeginIs ==
  ASSUME NEW G, Standing(G), NEW K, K.mode \in Mode, K.anchor \in TextCells(G), NEW c \in TextCells(G)
  PROVE  LET T == Towards(G, K, c)
             s == StartCell(G, K, Leftwards(K, c))
             e == EndCell(K, Leftwards(K, c), T.here)
         IN  /\ Blocky(K) => T.ohere = s /\ T.here = e
             /\ ~Blocky(K) => /\ <<Max({0, T.ohere[1] - 1 - T.offset}), T.ohere[2]>> = s
                              /\ <<Max({0, T.here[1] + T.offset}), T.here[2]>> = e
<1> DEFINE T == Towards(G, K, c)
           left == Leftwards(K, c)
           h == Hinge(G, K, left)
           x == h[1]
           w == T.here[1]
<1>1. /\ T.here = Here(G, K, c) /\ T.ohere = <<h[1] + (IF K.mode = "character" THEN 0 ELSE 1), h[2]>>
      /\ T.offset = IF K.mode = "character" /\ ~left THEN -1 ELSE 0
  BY TowardsIs
<1>2. Total(G) \in Nat \ {0}
  BY TotalFacts
<1>3. h \in TextCells(G) /\ T.here \in TextCells(G)
  BY <1>1, LeftwardsType, HingeFacts, HereFacts
<1> HIDE DEF T, left, h
<1>4. /\ x \in Column /\ h = <<x, h[2]>> /\ w \in Column /\ T.here = <<w, T.here[2]>>
  BY <1>2, <1>3, CellsOfText
<1>5. x \in Nat /\ w \in Nat
  BY <1>4, ViewNumbers DEF Column, Last
<1> HIDE DEF x, w
<1>6. ASSUME NEW q \in Nat PROVE Max({0, q}) = q
  <2>1. Max({0, q}) = IF 0 >= q THEN 0 ELSE q
    BY AtLeastZero
  <2> QED BY <2>1
<1>7. T.ohere[1] = x + (IF K.mode = "character" THEN 0 ELSE 1) /\ T.ohere[2] = h[2]
  BY <1>1 DEF x
<1>8. CASE Blocky(K)
  <2>1. T.ohere = h
    BY <1>1, <1>4, <1>5, <1>8 DEF Blocky, x
  <2> QED BY <1>8, <2>1 DEF StartCell, EndCell, h, left, T
<1>9. CASE ~Blocky(K) /\ K.mode = "character" /\ left
  <2>1. T.ohere[1] - 1 - T.offset = x - 1 /\ w + T.offset = w
    BY <1>1, <1>5, <1>7, <1>9
  <2>2. Max({0, w}) = w
    BY <1>5, <1>6
  <2>3. Before(h) = <<Max({0, x - 1}), h[2]>>
    BY DEF Before, x
  <2>4. StartCell(G, K, left) = Before(h) /\ EndCell(K, left, T.here) = T.here
    BY <1>9 DEF StartCell, EndCell, h
  <2>5. <<Max({0, w + T.offset}), T.here[2]>> = T.here
    BY <1>4, <2>1, <2>2
  <2>6. <<Max({0, T.ohere[1] - 1 - T.offset}), T.ohere[2]>> = Before(h)
    BY <1>7, <2>1, <2>3
  <2> QED BY <1>9, <2>4, <2>5, <2>6 DEF T, left, w
<1>10. CASE ~Blocky(K) /\ K.mode = "character" /\ ~left
  <2>1. T.ohere[1] - 1 - T.offset = x /\ w + T.offset = w - 1
    BY <1>1, <1>5, <1>7, <1>10
  <2>2. Max({0, x}) = x
    BY <1>5, <1>6
  <2>3. Before(T.here) = <<Max({0, w - 1}), T.here[2]>>
    BY DEF Before, w
  <2>4. StartCell(G, K, left) = h /\ EndCell(K, left, T.here) = Before(T.here)
    BY <1>10 DEF StartCell, EndCell, h
  <2>5. <<Max({0, w + T.offset}), T.here[2]>> = Before(T.here)
    BY <2>1, <2>3
  <2>6. <<Max({0, T.ohere[1] - 1 - T.offset}), T.ohere[2]>> = h
    BY <1>4, <1>7, <2>1, <2>2
  <2> QED BY <1>10, <2>4, <2>5, <2>6 DEF T, left, w
<1>11. CASE ~Blocky(K) /\ K.mode # "character"
  <2>1. T.ohere[1] - 1 - T.offset = x /\ w + T.offset = w
    BY <1>1, <1>5, <1>7, <1>11
  <2>2. Max({0, x}) = x /\ Max({0, w}) = w
    BY <1>5, <1>6
  <2>3. StartCell(G, K, left) = h /\ EndCell(K, left, T.here) = T.here
    BY <1>11 DEF StartCell, EndCell, h
  <2>4. <<Max({0, w + T.offset}), T.here[2]>> = T.here
    BY <1>4, <2>1, <2>2
  <2>5. <<Max({0, T.ohere[1] - 1 - T.offset}), T.ohere[2]>> = h
    BY <1>4, <1>7, <2>1, <2>2
  <2> QED BY <1>11, <2>3, <2>4, <2>5 DEF T, left, w
<1> QED BY <1>8, <1>9, <1>10, <1>11

\* A move over the cells of G: DragTo once it has rebased.
Led(G, K1, p) ==
  LET T     == Towards(G, K1, p)
      K     == IF K1.mode = "line" THEN [K1 EXCEPT !.triple_sel_begin = T.start] ELSE K1
      block == K.column_mode /\ K.mode = "character"
      begun == IF K.act_sel >= 2 /\ ~Swapping(K1, T) THEN K
               ELSE IF block THEN SetStart(K, T.ohere[1], T.ohere[2], TRUE)
               ELSE SetStart(K, Max({0, T.ohere[1] - 1 - T.offset}), T.ohere[2], FALSE)
      end   == IF block THEN T.here ELSE <<Max({0, T.here[1] + T.offset}), T.here[2]>>
  IN  IF T.here \in {K.head, T.ohere} THEN K
      ELSE SetEnd([begun EXCEPT !.act_sel = 2, !.head = T.here], end[1], end[2])

LEMMA DragLeads == ASSUME NEW G, NEW K0, NEW c PROVE DragTo(G, K0, c) = Led(G, Rebase(K0, G.evicted), Clamp(G, c))
BY DEF DragTo, Led

\* A move keeps the drag as it is told, and leaves the range it leads to.
LEMMA LedKeeps ==
  ASSUME COLUMNS # 2, NEW G, Standing(G), NEW K1, Fitting(K1, Total(G)), OnDrag(G, K1), NEW p \in InWindow(G)
  PROVE  LET R == Led(G, K1, p)
             T == Towards(G, K1, p)
             left == Leftwards(K1, p)
         IN  /\ OnDrag(G, R) /\ SameAim(K1, R)
             /\ T.here # T.ohere =>
                  R.block_mode = Blocky(R) /\ Ranged(R, StartCell(G, R, left), EndCell(R, left, T.here))
<1> DEFINE n     == Total(G)
           T     == Towards(G, K1, p)
           K     == IF K1.mode = "line" THEN [K1 EXCEPT !.triple_sel_begin = T.start] ELSE K1
           block == K.column_mode /\ K.mode = "character"
           begun == IF K.act_sel >= 2 /\ ~Swapping(K1, T) THEN K
                    ELSE IF block THEN SetStart(K, T.ohere[1], T.ohere[2], TRUE)
                    ELSE SetStart(K, Max({0, T.ohere[1] - 1 - T.offset}), T.ohere[2], FALSE)
           end   == IF block THEN T.here ELSE <<Max({0, T.here[1] + T.offset}), T.here[2]>>
           B     == [begun EXCEPT !.act_sel = 2, !.head = T.here]
           R     == Led(G, K1, p)
           left  == Leftwards(K1, p)
           side  == Leftwards(K1, K1.head)
           s     == StartCell(G, K1, left)
           e     == EndCell(K1, left, T.here)
<1>1. /\ n \in Nat \ {0} /\ n \in Nat /\ FootRow(G) = n - 1 /\ TopLine(G) \in Nat /\ BottomLine(G) \in TopLine(G) .. FootRow(G)
      /\ FootRow(G) \in Nat
  BY TotalFacts, WindowFacts DEF FootRow
<1>2. /\ K1 \in Konsoles(n) /\ K1.mode \in Mode /\ K1.act_sel \in 0 .. 2 /\ K1.column_mode \in BOOLEAN
      /\ K1.anchor \in TextCells(G) /\ K1.head \in TextCells(G)
      /\ (K1.mode # "character" => K1.anchor[2] >= TopLine(G) /\ K1.head[2] >= TopLine(G))
      /\ \/ K1.act_sel = 1 /\ K1.mode = "character" /\ K1.head = K1.anchor
         \/ K1.act_sel = 2 /\ Begun(G, K1)
  BY DEF Fitting, Konsoles, OnDrag
<1>3. p \in TextCells(G) /\ p[2] >= TopLine(G)
  <2>1. p[1] \in Column /\ p[2] \in TopLine(G) .. BottomLine(G) /\ p = <<p[1], p[2]>>
    BY DEF InWindow
  <2>2. p[2] \in 0 .. FootRow(G) /\ p[2] >= TopLine(G)
    BY <1>1, <2>1
  <2> QED BY <2>1, <2>2 DEF TextCells
<1>4. /\ T.here = Here(G, K1, p) /\ T.start = Hinge(G, K1, left) /\ T.left = left
      /\ T.ohere = <<T.start[1] + (IF K1.mode = "character" THEN 0 ELSE 1), T.start[2]>>
  BY <1>2, TowardsIs
<1>5. /\ T.here \in TextCells(G) /\ (Leftwards(K1, T.here) <=> left) /\ T.here[2] >= TopLine(G)
      /\ left \in BOOLEAN /\ side \in BOOLEAN /\ T.start \in TextCells(G)
  BY <1>2, <1>3, <1>4, HereFacts, HingeFacts, LeftwardsType
<1>6. /\ Blocky(K1) => T.ohere = s /\ T.here = e
      /\ ~Blocky(K1) => /\ <<Max({0, T.ohere[1] - 1 - T.offset}), T.ohere[2]>> = s
                        /\ <<Max({0, T.here[1] + T.offset}), T.here[2]>> = e
  BY <1>2, <1>3, BeginIs
<1>7. s \in TextCells(G) /\ e \in TextCells(G)
  BY <1>2, <1>5, EndFacts
<1>8. R = IF T.here \in {K.head, T.ohere} THEN K ELSE SetEnd(B, end[1], end[2])
  BY DEF Led
<1>9. K1.mode = "line" => T.here # T.ohere
  BY LinesAreLed
<1>10. K1.act_sel = 2 /\ Begun(G, K1) =>
         /\ K1.begin = Loc(StartCell(G, K1, side)) /\ K1.block_mode = Blocky(K1)
         /\ K1.mode = "line" => K1.triple_sel_begin = Hinge(G, K1, side)
         /\ Reached(G, K1) => Ranged(K1, StartCell(G, K1, side), EndCell(K1, side, K1.head))
  BY DEF Begun
<1>11. SameAim(K1, K1)
  BY DEF SameAim
<1>12. ASSUME NEW b \in BOOLEAN, b <=> left
       PROVE  Hinge(G, K1, b) = Hinge(G, K1, left) /\ StartCell(G, K1, b) = s /\ EndCell(K1, b, T.here) = e
  BY <1>5, <1>11, <1>12, AimFacts
<1> HIDE DEF R, s, e, left, side, T
<1>13. /\ K \in Konsoles(n) /\ K.head = K1.head /\ K.anchor = K1.anchor /\ K.mode = K1.mode /\ K.column_mode = K1.column_mode
       /\ K.act_sel = K1.act_sel /\ K.begin = K1.begin /\ K.top_left = K1.top_left /\ K.bottom_right = K1.bottom_right
       /\ K.block_mode = K1.block_mode
       /\ K.mode = "line" => K.triple_sel_begin = T.start
       /\ K.mode # "line" => K = K1
  <2>1. T.start \in Spot
    BY <1>1, <1>5, SpotsOfText
  <2>2. K.mode = K1.mode
    BY <1>2, <2>1 DEF Konsoles
  <2>3. CASE K1.mode = "line"
    BY <1>2, <2>1, <2>2, <2>3 DEF Konsoles
  <2>4. CASE K1.mode # "line"
    BY <1>2, <2>2, <2>4
  <2> QED BY <2>3, <2>4
\* The drag was led to where it is.
<1>14. ASSUME T.here = K1.head, K1.mode # "character" \/ T.here # T.ohere
       PROVE  /\ K1.act_sel = 2 /\ Begun(G, K1) /\ (side <=> left) /\ Hinge(G, K1, side) = T.start
              /\ K1.block_mode = Blocky(K1) /\ Ranged(K1, s, e)
  <2>1. side <=> left
    BY <1>5, <1>14 DEF side
  <2>2. K1.head # K1.anchor \/ K1.mode # "character"
    <3>1. CASE K1.mode = "character"
      <4>1. T.start = K1.anchor
        BY <1>4, <3>1 DEF Hinge, Low, High
      <4>2. K1.anchor[1] \in Int /\ K1.anchor = <<K1.anchor[1], K1.anchor[2]>>
        <5>1. K1.anchor[1] \in Column /\ K1.anchor = <<K1.anchor[1], K1.anchor[2]>>
          BY <1>1, <1>2, CellsOfText
        <5> QED BY <5>1, ViewNumbers DEF Column, Last
      <4>3. T.ohere = K1.anchor
        BY <1>4, <3>1, <4>1, <4>2
      <4> QED BY <1>14, <3>1, <4>3
    <3> QED BY <3>1
  <2>3. K1.act_sel = 2 /\ Begun(G, K1)
    BY <1>2, <2>2
  <2>4. Reached(G, K1)
    BY <1>4, <1>14, <2>2 DEF Reached
  <2>5. /\ Hinge(G, K1, side) = Hinge(G, K1, left) /\ StartCell(G, K1, side) = s /\ EndCell(K1, side, T.here) = e
    BY <1>5, <1>12, <2>1
  <2> QED BY <1>4, <1>10, <1>14, <2>1, <2>3, <2>4, <2>5
<1>15. SameAim(K1, K)
  BY <1>13 DEF SameAim
<1>16. CASE T.here = K1.head /\ (K1.mode # "character" \/ T.here # T.ohere)
  <2>1. R = K
    BY <1>8, <1>13, <1>16
  <2>2. /\ K1.act_sel = 2 /\ Begun(G, K1) /\ (side <=> left) /\ Hinge(G, K1, side) = T.start
        /\ K1.block_mode = Blocky(K1) /\ Ranged(K1, s, e)
    BY <1>14, <1>16
  <2>3. /\ StartCell(G, K, left) = s /\ EndCell(K, left, T.here) = e /\ Blocky(K) = Blocky(K1)
    BY <1>5, <1>15, AimFacts DEF s, e
  <2>4. K.block_mode = Blocky(K) /\ Ranged(K, s, e)
    BY <1>13, <2>2, <2>3 DEF Ranged
  <2>5. OnDrag(G, K)
    <3> DEFINE l == Leftwards(K, K.head)
    <3>1. (l <=> left) /\ l \in BOOLEAN
      <4>1. Leftwards(K, K1.head) <=> side
        BY <1>5, <1>15, AimFacts DEF side
      <4> QED BY <1>13, <2>2, <4>1, LeftwardsType
    <3> HIDE DEF l, K
    <3>2. /\ Hinge(G, K, l) = Hinge(G, K1, left) /\ StartCell(G, K, l) = s /\ EndCell(K, l, T.here) = e
      BY <1>5, <1>15, <3>1, AimFacts DEF s, e
    <3>3. Begun(G, K)
      <4>1. K.begin = Loc(s)
        <5>1. StartCell(G, K1, side) = s
          BY <1>5, <1>12, <2>2
        <5> QED BY <1>10, <1>13, <2>2, <5>1
      <4>2. K.mode = "line" => K.triple_sel_begin = Hinge(G, K, l)
        BY <1>4, <1>13, <3>2
      <4>3. Ranged(K, StartCell(G, K, l), EndCell(K, l, K.head))
        BY <1>13, <1>16, <2>4, <3>2
      <4> QED BY <2>4, <3>2, <4>1, <4>2, <4>3 DEF Begun, l
    <3> QED BY <1>2, <1>13, <2>2, <3>3 DEF OnDrag
  <2> HIDE DEF K
  <2>6. R.block_mode = Blocky(R) /\ Ranged(R, StartCell(G, R, left), EndCell(R, left, T.here))
    BY <2>1, <2>3, <2>4
  <2> QED BY <1>15, <2>1, <2>5, <2>6 DEF R, T, left
<1>17. CASE T.here \in {K1.head, T.ohere} /\ ~(T.here = K1.head /\ (K1.mode # "character" \/ T.here # T.ohere))
  <2>1. T.here = T.ohere
    BY <1>17
  <2>2. R = K1
    BY <1>8, <1>9, <1>13, <1>17, <2>1
  <2> QED BY <1>11, <2>1, <2>2 DEF R, T, left
<1>18. CASE T.here \notin {K1.head, T.ohere}
  <2>1. R = SetEnd(B, end[1], end[2])
    BY <1>8, <1>13, <1>18
  <2>2. block <=> Blocky(K1)
    BY <1>13 DEF Blocky
  <2>3. Blocky(K1) \in BOOLEAN
    BY <1>2 DEF Blocky
  <2>4. Fitting(K, n)
    <3> HIDE DEF K
    <3> QED BY <1>13 DEF Fitting, Forwards, IsValid
  <2>5. end = e
    BY <1>6, <2>2
  <2>6. /\ s[1] \in Column /\ s[2] \in 0 .. n - 1 /\ s = <<s[1], s[2]>>
        /\ e[1] \in Column /\ e[2] \in 0 .. n - 1 /\ e = <<e[1], e[2]>>
    BY <1>1, <1>7, CellsOfText
  <2>7. Fitting(begun, n) /\ SameDrag(K, begun) /\ begun.begin = Loc(s) /\ begun.block_mode = Blocky(K1)
    <3>1. CASE K.act_sel >= 2 /\ ~Swapping(K1, T)
      <4>1. begun = K
        BY <3>1
      <4>2. K1.act_sel = 2 /\ Begun(G, K1)
        BY <1>2, <1>13, <3>1
      <4>3. StartCell(G, K1, side) = s
        <5>1. CASE K1.mode = "line"
          <6>1. Hinge(G, K1, side) = Hinge(G, K1, left)
            BY <1>4, <1>10, <3>1, <4>2, <5>1 DEF Swapping
          <6> QED BY <5>1, <6>1 DEF StartCell, s
        <5>2. CASE K1.mode # "line"
          <6>1. T.left = Precedes(K1.head, K1.anchor)
            BY <3>1, <5>2 DEF Swapping
          <6>2. side <=> left
            BY <1>4, <5>2, <6>1 DEF side, Leftwards
          <6> QED BY <1>5, <1>12, <6>2
        <5> QED BY <5>1, <5>2
      <4>4. K1.begin = Loc(s) /\ K1.block_mode = Blocky(K1)
        BY <1>10, <4>2, <4>3
      <4>5. SameDrag(K, K)
        BY DEF SameDrag
      <4> HIDE DEF begun, K
      <4> QED BY <1>13, <2>4, <4>1, <4>4, <4>5
    <3>2. CASE ~(K.act_sel >= 2 /\ ~Swapping(K1, T))
      <4>1. begun = SetStart(K, s[1], s[2], Blocky(K1))
        <5>1. CASE block
          <6>1. Blocky(K1) = TRUE /\ T.ohere = s
            BY <1>6, <2>2, <2>3, <5>1
          <6>2. begun = SetStart(K, T.ohere[1], T.ohere[2], TRUE)
            BY <3>2, <5>1
          <6> HIDE DEF begun
          <6> QED BY <6>1, <6>2
        <5>2. CASE ~block
          <6>1. Blocky(K1) = FALSE /\ <<Max({0, T.ohere[1] - 1 - T.offset}), T.ohere[2]>> = s
            BY <1>6, <2>2, <2>3, <5>2
          <6>2. begun = SetStart(K, Max({0, T.ohere[1] - 1 - T.offset}), T.ohere[2], FALSE)
            BY <3>2, <5>2
          <6>3. Max({0, T.ohere[1] - 1 - T.offset}) = s[1] /\ T.ohere[2] = s[2]
            BY <6>1
          <6> HIDE DEF begun
          <6> QED BY <6>1, <6>2, <6>3
        <5> QED BY <5>1, <5>2
      <4> HIDE DEF begun, K
      <4>2. /\ Fitting(begun, n) /\ SameDrag(K, begun) /\ begun.block_mode = Blocky(K1) /\ begun.begin = Loc(<<s[1], s[2]>>)
        BY <1>1, <1>13, <2>3, <2>6, <4>1, SetStartFacts
      <4> QED BY <2>6, <4>2
    <3> QED BY <3>1, <3>2
  <2> HIDE DEF begun, K, end
  <2>8. /\ Fitting(B, n) /\ B.begin = Loc(s) /\ B.block_mode = Blocky(K1) /\ B.act_sel = 2 /\ B.head = T.here
        /\ B.anchor = K1.anchor /\ B.mode = K1.mode /\ B.column_mode = K1.column_mode
        /\ B.triple_sel_begin = K.triple_sel_begin
    <3>1. begun \in Konsoles(n)
      BY <2>7 DEF Fitting
    <3>2. T.here \in Spot
      BY <1>1, <1>5, SpotsOfText
    <3>3. begun.anchor = K1.anchor /\ begun.mode = K1.mode /\ begun.column_mode = K1.column_mode
          /\ begun.triple_sel_begin = K.triple_sel_begin
      BY <1>13, <2>7 DEF SameDrag
    <3>4. /\ B \in Konsoles(n) /\ B.begin = begun.begin /\ B.block_mode = begun.block_mode /\ B.act_sel = 2 /\ B.head = T.here
          /\ B.anchor = begun.anchor /\ B.mode = begun.mode /\ B.column_mode = begun.column_mode
          /\ B.triple_sel_begin = begun.triple_sel_begin /\ B.top_left = begun.top_left /\ B.bottom_right = begun.bottom_right
      BY <3>1, <3>2, ModeNames DEF Konsoles
    <3> HIDE DEF B
    <3>5. Fitting(B, n)
      BY <2>7, <3>4 DEF Fitting, Forwards, IsValid
    <3> QED BY <2>7, <3>3, <3>4, <3>5
  <2> HIDE DEF B
  <2>9. SameDrag(B, R) /\ R.block_mode = B.block_mode /\ R.begin = B.begin /\ Ranged(R, s, e)
    <3>1. /\ SameDrag(B, SetEnd(B, e[1], e[2])) /\ SetEnd(B, e[1], e[2]).block_mode = B.block_mode
          /\ SetEnd(B, e[1], e[2]).begin = B.begin
      BY <1>1, <2>6, <2>8, SetEndFacts
    <3>2. s \in Column \X (0 .. n - 1) /\ e \in Column \X (0 .. n - 1)
      BY <2>6
    <3>3. Ranged(SetEnd(B, e[1], e[2]), s, e)
      BY <1>1, <2>8, <3>2, SetEndRanges
    <3> QED BY <2>1, <2>5, <3>1, <3>3
  <2>10. /\ R.anchor = K1.anchor /\ R.mode = K1.mode /\ R.column_mode = K1.column_mode /\ R.head = T.here
         /\ R.act_sel = 2 /\ R.triple_sel_begin = K.triple_sel_begin /\ R.begin = Loc(s) /\ R.block_mode = Blocky(K1)
    BY <2>8, <2>9 DEF SameDrag
  <2>11. SameAim(K1, R)
    BY <2>10 DEF SameAim
  <2>12. /\ StartCell(G, R, left) = s /\ EndCell(R, left, T.here) = e /\ Blocky(R) = Blocky(K1)
    BY <1>5, <2>11, AimFacts DEF s, e
  <2> DEFINE l == Leftwards(R, R.head)
  <2>13. (l <=> left) /\ l \in BOOLEAN
    <3>1. Leftwards(R, T.here) <=> Leftwards(K1, T.here)
      BY <1>5, <2>11, AimFacts
    <3> QED BY <1>5, <2>10, <3>1, LeftwardsType
  <2> HIDE DEF l
  <2>14. /\ Hinge(G, R, l) = Hinge(G, K1, left) /\ StartCell(G, R, l) = s /\ EndCell(R, l, T.here) = e
    BY <1>5, <2>11, <2>13, AimFacts DEF s, e
  <2>15. Begun(G, R)
    <3>1. R.mode = "line" => R.triple_sel_begin = Hinge(G, R, l)
      BY <1>4, <1>13, <2>10, <2>14
    <3>2. Ranged(R, StartCell(G, R, l), EndCell(R, l, R.head))
      BY <2>9, <2>10, <2>14
    <3> QED BY <2>10, <2>12, <2>14, <3>1, <3>2 DEF Begun, l
  <2>16. OnDrag(G, R)
    BY <1>2, <1>5, <2>10, <2>15 DEF OnDrag
  <2>17. R.block_mode = Blocky(R) /\ Ranged(R, StartCell(G, R, left), EndCell(R, left, T.here))
    BY <2>9, <2>10, <2>12
  <2> QED BY <2>11, <2>16, <2>17 DEF R, T, left
<1> QED BY <1>16, <1>17, <1>18

\* The pointer, clamped, is on a cell of the window.
LEMMA ClampFacts ==
  ASSUME Standing(screen), NEW c \in Pointable
  PROVE  Clamp(screen, c) \in InWindow(screen) /\ c[2] >= TopLine(screen)
<1> DEFINE t == TopLine(screen)
           b == BottomLine(screen)
           y == c[2]
           low == Min({y, b})
           line == Max({t, low})
<1>1. t \in 0 .. screen.history /\ b \in t .. FootRow(screen) /\ FootRow(screen) \in Nat
  BY WindowFacts, TotalFacts
<1>2. c[1] \in Column /\ y \in t .. (t + (IF Shift(screen) > 0 THEN Screen ELSE Screen - 1))
  BY DEF Pointable, Column
<1>3. t \in Int /\ b \in Int /\ y \in Int /\ t <= b /\ y >= t
  BY <1>1, <1>2, ViewNumbers
<1> HIDE DEF t, b, y
<1>4. low = (IF y <= b THEN y ELSE b)
  BY <1>3, MinMaxOfTwo
<1> HIDE DEF low
<1>5. low \in Int /\ low <= b
  BY <1>3, <1>4
<1>6. line = IF t >= low THEN t ELSE low
  BY <1>3, <1>5, MinMaxOfTwo
<1> HIDE DEF line
<1>7. line \in t .. b
  BY <1>3, <1>5, <1>6
<1>8. Clamp(screen, c) = <<c[1], line>>
  BY DEF Clamp, line, low, y, t, b
<1>9. InWindow(screen) = Column \X (t .. b)
  BY DEF InWindow, t, b
<1> QED BY <1>2, <1>3, <1>7, <1>8, <1>9 DEF y, t

\* Rebased to the lines it is counted in, a selection is as it was.
LEMMA RebaseOwn ==
  ASSUME NEW n \in Nat, NEW K \in Konsoles(n)
  PROVE  Rebase(K, K.evicted_base) = K
<1> DEFINE base == K.evicted_base
           lines == Gone(K, base)
           up(c) == <<c[1], Max({0, c[2] - lines})>>
<1>1. base \in Nat /\ lines = 0
  BY GoneType DEF Konsoles
<1>2. /\ K.begin \in Place(n) /\ K.top_left \in Place(n) /\ K.bottom_right \in Place(n)
      /\ K.anchor \in Column \X Nat /\ K.head \in Column \X Nat /\ K.triple_sel_begin \in Column \X Nat
  BY DEF Konsoles, Spot
<1>3. Rebase(K, base) =
        [K EXCEPT !.anchor = up(K.anchor), !.head = up(K.head), !.triple_sel_begin = up(K.triple_sel_begin),
                  !.evicted_base = base, !.begin = Shifted(K.begin, lines), !.top_left = Shifted(K.top_left, lines),
                  !.bottom_right = Shifted(K.bottom_right, lines)]
  BY DEF Rebase, Konsoles
<1> HIDE DEF lines
<1>4. ASSUME NEW c \in Column \X Nat PROVE up(c) = c
  <2>1. ASSUME NEW q \in Int PROVE Max({0, q}) = IF 0 >= q THEN 0 ELSE q
    BY AtLeastZero
  <2>2. c[2] \in Nat /\ c = <<c[1], c[2]>> /\ c[2] - lines = c[2]
    BY <1>1
  <2>3. Max({0, c[2]}) = c[2]
    BY <2>1, <2>2
  <2> QED BY <2>2, <2>3
<1>5. ASSUME NEW l \in Place(n) PROVE Shifted(l, lines) = l
  <2>1. CASE l = Nowhere
    BY <2>1 DEF Shifted, Nowhere
  <2>2. CASE l # Nowhere
    <3>1. l \in Nat /\ Shifted(l, 0) = (IF l \div COLUMNS >= 0 THEN l - 0 * COLUMNS ELSE l % COLUMNS)
      BY <2>2, ShiftedFacts
    <3>2. l \div COLUMNS \in Nat /\ 0 * COLUMNS = 0
      BY <3>1, CellFacts, ViewNumbers
    <3> QED BY <1>1, <3>1, <3>2
  <2> QED BY <2>1, <2>2
<1> HIDE DEF up
<1>6. /\ up(K.anchor) = K.anchor /\ up(K.head) = K.head /\ up(K.triple_sel_begin) = K.triple_sel_begin
      /\ Shifted(K.begin, lines) = K.begin /\ Shifted(K.top_left, lines) = K.top_left
      /\ Shifted(K.bottom_right, lines) = K.bottom_right
  BY <1>2, <1>4, <1>5
<1>7. Rebase(K, base) =
        [K EXCEPT !.anchor = K.anchor, !.head = K.head, !.triple_sel_begin = K.triple_sel_begin,
                  !.evicted_base = K.evicted_base, !.begin = K.begin, !.top_left = K.top_left,
                  !.bottom_right = K.bottom_right]
  BY <1>3, <1>6
<1> QED BY <1>7 DEF Konsoles

\* A selection rebased to a numbering, and to one d lines on.
Carried(K, L, d) ==
  /\ L.mode = K.mode /\ L.column_mode = K.column_mode /\ L.block_mode = K.block_mode /\ L.act_sel = K.act_sel
  /\ L.begin = Shifted(K.begin, d) /\ L.top_left = Shifted(K.top_left, d) /\ L.bottom_right = Shifted(K.bottom_right, d)
  /\ K.anchor[2] >= d => L.anchor = Off(K.anchor, d)
  /\ K.head[2] >= d => L.head = Off(K.head, d)
  /\ K.triple_sel_begin[2] >= d => L.triple_sel_begin = Off(K.triple_sel_begin, d)

LEMMA RebasedOn ==
  ASSUME NEW n \in Nat, NEW S \in Konsoles(n), NEW e \in Nat, NEW d \in Nat, S.evicted_base <= e
  PROVE  /\ Carried(Rebase(S, e), Rebase(S, e + d), d)
         /\ S.anchor[2] - (e - S.evicted_base) >= d => Rebase(S, e).anchor[2] >= d
         /\ S.head[2] - (e - S.evicted_base) >= d => Rebase(S, e).head[2] >= d
<1> DEFINE base == S.evicted_base
           g == Gone(S, e)
           h == Gone(S, e + d)
           K == Rebase(S, e)
           L == Rebase(S, e + d)
           Risen(c, lines) == <<c[1], Max({0, c[2] - lines})>>
<1>1. base \in Nat /\ g \in Nat /\ g = e - base /\ h = g + d
  <2>1. base \in Nat /\ e + d \in Nat /\ base <= e + d
    BY DEF Konsoles
  <2>2. g = e - base /\ h = e + d - base /\ g \in Nat
    BY <2>1, GoneType
  <2> QED BY <2>1, <2>2
<1>2. /\ S.begin \in Place(n) /\ S.top_left \in Place(n) /\ S.bottom_right \in Place(n)
      /\ S.anchor \in Column \X Nat /\ S.head \in Column \X Nat /\ S.triple_sel_begin \in Column \X Nat
  BY DEF Konsoles, Spot
<1>3. ASSUME NEW c \in Column \X Nat
      PROVE  /\ Risen(c, g)[2] >= d => Risen(c, h) = Off(Risen(c, g), d)
             /\ c[2] - g >= d => Risen(c, g)[2] >= d
  <2>1. ASSUME NEW q \in Int PROVE Max({0, q}) = IF 0 >= q THEN 0 ELSE q
    BY AtLeastZero
  <2>2. c[2] \in Nat /\ c[2] - g \in Int /\ c[2] - h \in Int /\ c[2] - h = c[2] - g - d
    BY <1>1
  <2>3. Max({0, c[2] - g}) = (IF 0 >= c[2] - g THEN 0 ELSE c[2] - g)
    BY <2>1, <2>2
  <2>4. Max({0, c[2] - h}) = (IF 0 >= c[2] - h THEN 0 ELSE c[2] - h)
    BY <2>1, <2>2
  <2> HIDE DEF g, h
  <2> DEFINE u == Max({0, c[2] - g})
             v == Max({0, c[2] - h})
  <2>5. (u >= d => v = u - d) /\ (c[2] - g >= d => u >= d)
    BY <1>1, <2>2, <2>3, <2>4
  <2> HIDE DEF u, v
  <2>6. Risen(c, g) = <<c[1], u>> /\ Risen(c, h) = <<c[1], v>>
    BY DEF u, v
  <2> QED BY <2>5, <2>6 DEF Off
<1>4. ASSUME NEW l \in Place(n) PROVE Shifted(Shifted(l, g), d) = Shifted(l, h)
  BY <1>1, ShiftedTwice
<1>5. ASSUME NEW f \in Nat
      PROVE  LET R == Rebase(S, f)
                 lines == Gone(S, f)
             IN  /\ R.mode = S.mode /\ R.column_mode = S.column_mode /\ R.block_mode = S.block_mode /\ R.act_sel = S.act_sel
                 /\ R.anchor = Risen(S.anchor, lines) /\ R.head = Risen(S.head, lines)
                 /\ R.triple_sel_begin = Risen(S.triple_sel_begin, lines)
                 /\ R.begin = Shifted(S.begin, lines) /\ R.top_left = Shifted(S.top_left, lines)
                 /\ R.bottom_right = Shifted(S.bottom_right, lines)
  <2> DEFINE R == Rebase(S, f)
             lines == Gone(S, f)
             up(c) == <<c[1], Max({0, c[2] - lines})>>
  <2>1. R = [S EXCEPT !.anchor = up(@), !.head = up(@), !.triple_sel_begin = up(@), !.evicted_base = f,
                      !.begin = Shifted(@, lines), !.top_left = Shifted(@, lines), !.bottom_right = Shifted(@, lines)]
    BY DEF Rebase
  <2>2. \A c : up(c) = Risen(c, lines)
    OBVIOUS
  <2> HIDE DEF R, up, lines, Risen
  <2>3. /\ R.mode = S.mode /\ R.column_mode = S.column_mode /\ R.block_mode = S.block_mode /\ R.act_sel = S.act_sel
        /\ R.anchor = up(S.anchor) /\ R.head = up(S.head) /\ R.triple_sel_begin = up(S.triple_sel_begin)
        /\ R.begin = Shifted(S.begin, lines) /\ R.top_left = Shifted(S.top_left, lines)
        /\ R.bottom_right = Shifted(S.bottom_right, lines)
    BY <2>1 DEF Konsoles
  <2> QED BY <2>2, <2>3 DEF R, lines
<1>6. /\ K.mode = S.mode /\ K.column_mode = S.column_mode /\ K.block_mode = S.block_mode /\ K.act_sel = S.act_sel
      /\ K.anchor = Risen(S.anchor, g) /\ K.head = Risen(S.head, g)
      /\ K.triple_sel_begin = Risen(S.triple_sel_begin, g)
      /\ K.begin = Shifted(S.begin, g) /\ K.top_left = Shifted(S.top_left, g) /\ K.bottom_right = Shifted(S.bottom_right, g)
  BY <1>5
<1>7. /\ L.mode = S.mode /\ L.column_mode = S.column_mode /\ L.block_mode = S.block_mode /\ L.act_sel = S.act_sel
      /\ L.anchor = Risen(S.anchor, h) /\ L.head = Risen(S.head, h)
      /\ L.triple_sel_begin = Risen(S.triple_sel_begin, h)
      /\ L.begin = Shifted(S.begin, h) /\ L.top_left = Shifted(S.top_left, h) /\ L.bottom_right = Shifted(S.bottom_right, h)
  <2>1. e + d \in Nat
    OBVIOUS
  <2> QED BY <1>5, <2>1
<1>8. /\ Shifted(K.begin, d) = L.begin /\ Shifted(K.top_left, d) = L.top_left /\ Shifted(K.bottom_right, d) = L.bottom_right
  BY <1>2, <1>4, <1>6, <1>7
<1>9. /\ K.anchor[2] >= d => L.anchor = Off(K.anchor, d)
      /\ K.head[2] >= d => L.head = Off(K.head, d)
      /\ K.triple_sel_begin[2] >= d => L.triple_sel_begin = Off(K.triple_sel_begin, d)
      /\ S.anchor[2] - g >= d => K.anchor[2] >= d
      /\ S.head[2] - g >= d => K.head[2] >= d
  <2> HIDE DEF Risen, g, h, K, L
  <2> QED BY <1>2, <1>3, <1>6, <1>7
<1> HIDE DEF g, h, K, L, Risen
<1>10. Carried(K, L, d)
  BY <1>6, <1>7, <1>8, <1>9 DEF Carried
<1> QED BY <1>1, <1>9, <1>10 DEF K, L, base

\* A press begins a drag.
LEMMA PressBegins ==
  ASSUME NEW G, Total(G) \in Nat \ {0}, G.evicted \in Nat, NEW K, Fitting(K, Total(G)),
         NEW c \in TextCells(G), NEW column \in BOOLEAN
  PROVE  OnDrag(G, Press(G, K, c, column))
<1> DEFINE B == Rebase(K, G.evicted)
           R == Clear(B)
           P == Press(G, K, c, column)
           n == Total(G)
<1>1. R \in Konsoles(n)
  <2>1. n \in Nat /\ Fitting(B, n)
    BY RebaseFacts
  <2> HIDE DEF B, n
  <2> QED BY <2>1, ClearFacts DEF Fitting
<1>2. P = [R EXCEPT !.mode = "character", !.anchor = c, !.head = c, !.act_sel = 1, !.column_mode = column]
  BY DEF Press
<1> HIDE DEF R, P, n
<1>3. P.mode = "character" /\ P.anchor = c /\ P.head = c /\ P.act_sel = 1
  BY <1>1, <1>2 DEF Konsoles
<1> QED BY <1>3 DEF OnDrag, P

\* A word, and a line, is its own range.
LEMMA ClickRanges ==
  ASSUME NEW G, Total(G) \in Nat \ {0}, NEW K \in Konsoles(Total(G)), NEW s \in TextCells(G), NEW e \in TextCells(G)
  PROVE  LET E == SetEnd(SetStart(K, s[1], s[2], FALSE), e[1], e[2])
         IN  /\ E.begin = Loc(s) /\ E.block_mode = FALSE /\ Ranged(E, s, e) /\ SameDrag(K, E)
<1> DEFINE n == Total(G)
           S == SetStart(K, s[1], s[2], FALSE)
           E == SetEnd(S, e[1], e[2])
<1>1. /\ s[1] \in Column /\ s[2] \in 0 .. n - 1 /\ e[1] \in Column /\ e[2] \in 0 .. n - 1 /\ n \in Nat
  BY CellsOfText DEF FootRow
<1>2. s = <<s[1], s[2]>> /\ s \in Column \X (0 .. n - 1) /\ e \in Column \X (0 .. n - 1)
  BY DEF TextCells, FootRow
<1> HIDE DEF n
<1>3. K \in Konsoles(n)
  BY DEF n
<1>4. Fitting(S, n) /\ SameDrag(K, S) /\ S.block_mode = FALSE /\ S.begin = Loc(<<s[1], s[2]>>)
  <2> DEFINE x == s[1]
             y == s[2]
  <2>1. n \in Nat /\ K \in Konsoles(n) /\ x \in Column /\ y \in 0 .. n - 1 /\ FALSE \in BOOLEAN
    BY <1>1, <1>3
  <2> HIDE DEF x, y
  <2>2. LET T == SetStart(K, x, y, FALSE) IN
        Fitting(T, n) /\ SameDrag(K, T) /\ T.block_mode = FALSE /\ T.begin = Loc(<<x, y>>)
    BY <2>1, SetStartFacts
  <2> QED BY <2>2 DEF x, y
<1>5. S.begin = Loc(s)
  BY <1>2, <1>4
<1> HIDE DEF S
<1>6. SameDrag(S, E) /\ E.block_mode = S.block_mode /\ E.begin = S.begin
  BY <1>1, <1>4, SetEndFacts
<1>7. Ranged(E, s, e)
  BY <1>1, <1>2, <1>4, <1>5, SetEndRanges
<1> HIDE DEF E
<1>8. SameDrag(K, E)
  BY <1>4, <1>6 DEF SameDrag
<1> QED BY <1>4, <1>5, <1>6, <1>7, <1>8 DEF E, S

LEMMA DoubleClickBegins ==
  ASSUME NEW G, Standing(G), NEW K, Fitting(K, Total(G)), NEW c \in TextCells(G), c[2] >= TopLine(G)
  PROVE  OnDrag(G, DoubleClick(G, K, c))
<1> DEFINE B == Rebase(K, G.evicted)
           R == Clear(B)
           k == [R EXCEPT !.mode = "word", !.anchor = c, !.head = c, !.act_sel = 2]
           s == WordStart(G, c)
           e == WordEnd(G, c)
           D == DoubleClick(G, K, c)
           n == Total(G)
<1>1. n \in Nat \ {0} /\ n \in Nat /\ G.evicted \in Nat
  BY TotalFacts
<1>2. R \in Konsoles(n)
  <2>1. Fitting(B, n)
    BY <1>1, RebaseFacts
  <2> HIDE DEF B, n
  <2> QED BY <1>1, <2>1, ClearFacts DEF Fitting
<1>3. c \in Spot
  BY <1>1, SpotsOfText
<1>4. D = SetEnd(SetStart(k, s[1], s[2], FALSE), e[1], e[2])
  BY DEF DoubleClick
<1>5. s \in TextCells(G) /\ e \in TextCells(G)
  BY <1>1, WordsOnText
<1> HIDE DEF R
<1>6. k \in Konsoles(n) /\ k.anchor = c /\ k.head = c /\ k.mode = "word" /\ k.act_sel = 2
  <2> HIDE DEF n
  <2> QED BY <1>2, <1>3, ModeNames DEF Konsoles
<1> HIDE DEF k, s, e, D
<1>7. D.begin = Loc(s) /\ D.block_mode = FALSE /\ Ranged(D, s, e) /\ SameDrag(k, D)
  BY <1>1, <1>4, <1>5, <1>6, ClickRanges
<1>8. D.anchor = c /\ D.head = c /\ D.mode = "word" /\ D.act_sel = 2
  BY <1>6, <1>7 DEF SameDrag
<1>9. Leftwards(D, D.head) = FALSE
  <2>1. Loc(c) \in Nat
    BY <1>1, CellsOfText
  <2> QED BY <1>8, <2>1 DEF Leftwards, Precedes
<1>10. StartCell(G, D, FALSE) = s /\ EndCell(D, FALSE, D.head) = c /\ Blocky(D) = FALSE
  BY <1>8 DEF StartCell, EndCell, Blocky, Hinge, Low, s
<1>11. Reached(G, D) => e = c
  <2> SUFFICES ASSUME NEW q \in InWindow(G), Here(G, D, q) = c PROVE e = c
    BY <1>8 DEF Reached
  <2>1. q \in TextCells(G)
    <3>1. q[1] \in Column /\ q[2] \in TopLine(G) .. BottomLine(G) /\ q = <<q[1], q[2]>>
      BY DEF InWindow
    <3>2. q[2] \in 0 .. FootRow(G)
      BY <3>1, WindowFacts, TotalFacts
    <3> QED BY <3>1, <3>2 DEF TextCells
  <2> DEFINE lo == Low(G, "word", q)
             hi == High(G, "word", q)
  <2>2. lo \in TextCells(G) /\ hi \in TextCells(G) /\ Loc(lo) <= Loc(q) /\ Loc(q) <= Loc(hi)
    BY <2>1, ModeNames, LowHighFacts
  <2>3. hi = WordEnd(G, q)
    BY DEF High
  <2> HIDE DEF lo, hi
  <2>4. Loc(q) \in Nat /\ Loc(c) \in Nat /\ Loc(lo) \in Nat /\ Loc(hi) \in Nat
    BY <1>1, <2>1, <2>2, CellsOfText
  <2>5. (Leftwards(D, q) <=> Loc(q) < Loc(c)) /\ c = IF Leftwards(D, q) THEN lo ELSE hi
    BY <1>8 DEF Leftwards, Precedes, Here, lo, hi
  <2>6. Loc(q) = Loc(c) /\ c = hi
    BY <2>2, <2>4, <2>5
  <2>7. q = c
    <3>1. q \in Column \X Nat /\ c \in Column \X Nat
      BY <1>1, <2>1, SpotsOfText DEF Spot
    <3> QED BY <2>6, <3>1, SameCell
  <2> QED BY <2>3, <2>6, <2>7 DEF e
<1>12. Begun(G, D)
  BY <1>7, <1>8, <1>9, <1>10, <1>11 DEF Begun
<1> QED BY <1>8, <1>12 DEF OnDrag, D

\* Lines that run on into one another start where the first does.
LEMMA LineOfEnd ==
  ASSUME NEW G, Standing(G), NEW y \in 0 .. FootRow(G), y >= TopLine(G)
  PROVE  LineStart(G, LineEnd(G, y)) = LineStart(G, y)
<1> DEFINE s == LineStart(G, y)
           e == LineEnd(G, y)
           t == LineStart(G, e)
           U == {k \in 0 .. y : Upwards(G, k, y)}
           V == {k \in 0 .. e : Upwards(G, k, e)}
           D == {k \in y .. Total(G) - 1 : Downwards(G, y, k)}
<1>1. Total(G) \in Nat \ {0} /\ FootRow(G) = Total(G) - 1 /\ FootRow(G) \in Nat /\ y \in Nat /\ TopLine(G) \in Nat
  BY TotalFacts, WindowFacts DEF FootRow
<1>2. s \in 0 .. y /\ e \in y .. FootRow(G)
  BY <1>1, LinesOnText
<1>3. e \in 0 .. FootRow(G) /\ e \in Nat
  BY <1>1, <1>2
<1>4. s \in U /\ \A k \in U : s <= k
  <2>1. U \in SUBSET Nat /\ y \in U
    BY <1>1 DEF Upwards
  <2>2. s = Min(U)
    BY DEF LineStart
  <2> HIDE DEF U, s
  <2> QED BY <2>1, <2>2, MinOf
<1>5. e \in D
  <2>1. D \in SUBSET (0 .. FootRow(G)) /\ y \in D
    BY <1>1 DEF Downwards
  <2>2. e = Max(D)
    BY DEF LineEnd
  <2> HIDE DEF D, e
  <2> QED BY <1>1, <2>1, <2>2, MaxOf
<1>6. t \in V /\ \A k \in V : t <= k
  <2> HIDE DEF e
  <2>1. V \in SUBSET Nat /\ e \in V
    BY <1>3 DEF Upwards
  <2>2. t = Min(V)
    BY DEF LineStart
  <2> HIDE DEF V, t
  <2> QED BY <2>1, <2>2, MinOf
<1>7. Upwards(G, s, y) /\ Downwards(G, y, e) /\ Upwards(G, t, e)
  BY <1>4, <1>5, <1>6
<1> HIDE DEF s, e, t
<1>8. s \in V
  <2>1. \A k \in s .. e - 1 : k >= TopLine(G) /\ Runs(G, k)
    <3> SUFFICES ASSUME NEW k \in s .. e - 1 PROVE k >= TopLine(G) /\ Runs(G, k)
      OBVIOUS
    <3>1. CASE k < y
      BY <1>1, <1>2, <1>3, <1>7, <3>1 DEF Upwards
    <3>2. CASE ~(k < y)
      <4>1. k \in y .. e - 1 /\ k >= TopLine(G)
        BY <1>1, <1>2, <1>3, <3>2
      <4> QED BY <1>7, <4>1 DEF Downwards
    <3> QED BY <3>1, <3>2
  <2>2. s \in 0 .. e
    BY <1>1, <1>2, <1>3
  <2> QED BY <2>1, <2>2 DEF Upwards
<1>9. t \in 0 .. e /\ t <= s /\ s \in Nat
  BY <1>2, <1>6, <1>8
<1>10. t \in U
  <2>1. t \in 0 .. y
    BY <1>1, <1>2, <1>3, <1>9
  <2>2. \A k \in t .. y - 1 : k \in t .. e - 1
    BY <1>1, <1>2, <1>3, <2>1
  <2> QED BY <1>7, <2>1, <2>2 DEF Upwards
<1>11. s <= t
  BY <1>4, <1>10
<1>12. t = s
  BY <1>9, <1>11
<1> QED BY <1>12 DEF t, e, s

LEMMA TripleClickBegins ==
  ASSUME NEW G, Standing(G), NEW K, Fitting(K, Total(G)), NEW c \in TextCells(G), c[2] >= TopLine(G)
  PROVE  OnDrag(G, TripleClick(G, K, c))
<1> DEFINE B == Rebase(K, G.evicted)
           R == Clear(B)
           y == LineStart(G, c[2])
           z == LineEnd(G, c[2])
           s == <<0, y>>
           e == <<Last, z>>
           a == <<c[1], z>>
           k == [R EXCEPT !.mode = "line", !.act_sel = 2, !.triple_sel_begin = s, !.anchor = a, !.head = e]
           D == TripleClick(G, K, c)
           n == Total(G)
<1>1. n \in Nat \ {0} /\ n \in Nat /\ G.evicted \in Nat /\ FootRow(G) \in Nat /\ TopLine(G) \in Nat
  BY TotalFacts, WindowFacts
<1>2. R \in Konsoles(n)
  <2>1. Fitting(B, n)
    BY <1>1, RebaseFacts
  <2> HIDE DEF B, n
  <2> QED BY <1>1, <2>1, ClearFacts DEF Fitting
<1>3. c[1] \in Column /\ c[2] \in 0 .. FootRow(G) /\ c[2] \in Nat /\ Last \in Column /\ 0 \in Column
  <2>1. 0 \in Column
    BY ViewNumbers DEF Column, Last
  <2> QED BY <1>1, <2>1, CellsOfText
<1>4. y \in 0 .. FootRow(G) /\ z \in c[2] .. FootRow(G) /\ z \in 0 .. FootRow(G) /\ LineStart(G, z) = y
  <2>1. y \in 0 .. c[2] /\ z \in c[2] .. FootRow(G)
    BY <1>1, <1>3, LinesOnText
  <2>2. LineStart(G, z) = y
    BY <1>3, LineOfEnd
  <2> HIDE DEF y, z
  <2> QED BY <1>1, <1>3, <2>1, <2>2
<1>5. D = SetEnd(SetStart(k, 0, y, FALSE), Last, z)
  BY DEF TripleClick
<1> HIDE DEF R, y, z
<1>6. s \in TextCells(G) /\ e \in TextCells(G) /\ a \in TextCells(G) /\ s[1] = 0 /\ s[2] = y /\ e[1] = Last /\ e[2] = z /\ a[2] = z
  BY <1>3, <1>4 DEF TextCells
<1> HIDE DEF s, e, a
<1>7. D = SetEnd(SetStart(k, s[1], s[2], FALSE), e[1], e[2])
  BY <1>5, <1>6
<1>8. s \in Spot /\ e \in Spot /\ a \in Spot
  BY <1>1, <1>6, SpotsOfText
<1>9. k \in Konsoles(n) /\ k.anchor = a /\ k.head = e /\ k.mode = "line" /\ k.act_sel = 2 /\ k.triple_sel_begin = s
  <2> HIDE DEF n
  <2> QED BY <1>2, <1>8, ModeNames DEF Konsoles
<1> HIDE DEF k, D
<1>10. D.begin = Loc(s) /\ D.block_mode = FALSE /\ Ranged(D, s, e) /\ SameDrag(k, D)
  <2>1. s \in TextCells(G) /\ e \in TextCells(G) /\ k \in Konsoles(n) /\ n \in Nat \ {0}
    BY <1>1, <1>6, <1>9
  <2> QED BY <1>7, <2>1, ClickRanges
<1>11. D.anchor = a /\ D.head = e /\ D.mode = "line" /\ D.act_sel = 2 /\ D.triple_sel_begin = s
  BY <1>9, <1>10 DEF SameDrag
<1>12. Leftwards(D, D.head) = FALSE
  <2>1. z \in Nat
    BY <1>1, <1>4
  <2> QED BY <1>6, <1>11, <2>1 DEF Leftwards
<1>13. Hinge(G, D, FALSE) = s
  BY <1>4, <1>6, <1>11 DEF Hinge, Low, s
<1>14. StartCell(G, D, FALSE) = s /\ EndCell(D, FALSE, D.head) = e /\ Blocky(D) = FALSE
  BY <1>11, <1>13 DEF StartCell, EndCell, Blocky
<1>15. Begun(G, D)
  BY <1>10, <1>11, <1>12, <1>13, <1>14 DEF Begun
<1>16. a[2] >= TopLine(G) /\ e[2] >= TopLine(G)
  BY <1>1, <1>3, <1>4, <1>6
<1> QED BY <1>6, <1>11, <1>15, <1>16 DEF OnDrag, D

-----------------------------------------------------------------------------
(***************************************************************************)
(* A drag carried some lines on.                                           *)
(***************************************************************************)
\* The place of a cell moves as the cell does.
LEMMA ShiftedLoc ==
  ASSUME NEW c \in Column \X Nat, NEW d \in Nat, c[2] >= d
  PROVE  Shifted(Loc(c), d) = Loc(Off(c, d))
<1>1. c[1] \in Column /\ c[2] \in Nat /\ c = <<c[1], c[2]>>
  OBVIOUS
<1>2. Loc(<<c[1], c[2]>>) \in Nat /\ Loc(<<c[1], c[2]>>) % COLUMNS = c[1] /\ Loc(<<c[1], c[2]>>) \div COLUMNS = c[2]
  BY <1>1, LocFacts
<1> DEFINE l == Loc(c)
           x == l % COLUMNS
           y == l \div COLUMNS
<1>3. l \in Nat /\ x = c[1] /\ y = c[2]
  BY <1>1, <1>2
<1> HIDE DEF l
<1>4. Max({0, c[2] - d}) = c[2] - d
  <2>1. ASSUME NEW q \in Int PROVE Max({0, q}) = IF 0 >= q THEN 0 ELSE q
    BY AtLeastZero
  <2>2. c[2] - d \in Int /\ c[2] - d >= 0
    BY <1>1
  <2> QED BY <2>1, <2>2
<1>5. Shifted(l, d) = Loc(<<x, Max({0, y - d})>>)
  BY <1>3 DEF Shifted
<1> HIDE DEF x, y
<1>6. Shifted(l, d) = Loc(<<c[1], c[2] - d>>)
  BY <1>3, <1>4, <1>5
<1> QED BY <1>6 DEF Off, l

\* The ends of a range move with it.
LEMMA CornersOff ==
  ASSUME NEW s \in Column \X Nat, NEW e \in Column \X Nat, NEW d \in Nat, s[2] >= d, e[2] >= d, NEW block \in BOOLEAN
  PROVE  /\ Shifted(Loc(TopCorner(s, e, block)), d) = Loc(TopCorner(Off(s, d), Off(e, d), block))
         /\ Shifted(Loc(FootCorner(s, e, block)), d) = Loc(FootCorner(Off(s, d), Off(e, d), block))
<1> DEFINE p == Off(s, d)
           q == Off(e, d)
<1>1. /\ Loc(s) \in Nat /\ Loc(e) \in Nat /\ d * COLUMNS \in Int
      /\ Loc(p) = Loc(s) - d * COLUMNS /\ Loc(q) = Loc(e) - d * COLUMNS
      /\ p[1] = s[1] /\ q[1] = e[1] /\ p[2] = s[2] - d /\ q[2] = e[2] - d
  BY LocOff
<1> HIDE DEF p, q
<1>2. Loc(p) <= Loc(q) <=> Loc(s) <= Loc(e)
  BY <1>1
<1>3. /\ Fore(p, q) = (IF Loc(s) <= Loc(e) THEN p ELSE q) /\ Aft(p, q) = (IF Loc(s) <= Loc(e) THEN q ELSE p)
      /\ LeftOf(p, q) = LeftOf(s, e) /\ RightOf(p, q) = RightOf(s, e)
  BY <1>1, <1>2 DEF Fore, Aft, LeftOf, RightOf
<1>4. /\ Fore(p, q) = Off(Fore(s, e), d) /\ Aft(p, q) = Off(Aft(s, e), d)
      /\ Fore(s, e) \in Column \X Nat /\ Aft(s, e) \in Column \X Nat /\ Fore(s, e)[2] >= d /\ Aft(s, e)[2] >= d
      /\ LeftOf(s, e) \in Column /\ RightOf(s, e) \in Column
  BY <1>3 DEF Fore, Aft, LeftOf, RightOf, p, q
<1>5. ASSUME NEW x \in Column, NEW c \in Column \X Nat, c[2] >= d
      PROVE  /\ Off(<<x, c[2]>>, d) = <<x, Off(c, d)[2]>> /\ Shifted(Loc(<<x, c[2]>>), d) = Loc(<<x, Off(c, d)[2]>>)
             /\ Shifted(Loc(c), d) = Loc(Off(c, d))
  <2>1. <<x, c[2]>> \in Column \X Nat /\ <<x, c[2]>>[2] >= d
    BY <1>5
  <2>2. Off(<<x, c[2]>>, d) = <<x, Off(c, d)[2]>>
    BY DEF Off
  <2> QED BY <1>5, <2>1, <2>2, ShiftedLoc
<1>6. /\ TopCorner(p, q, block) = (IF block THEN <<LeftOf(s, e), Off(Fore(s, e), d)[2]>> ELSE Off(Fore(s, e), d))
      /\ FootCorner(p, q, block) = (IF block THEN <<RightOf(s, e), Off(Aft(s, e), d)[2]>> ELSE Off(Aft(s, e), d))
      /\ TopCorner(s, e, block) = (IF block THEN <<LeftOf(s, e), Fore(s, e)[2]>> ELSE Fore(s, e))
      /\ FootCorner(s, e, block) = (IF block THEN <<RightOf(s, e), Aft(s, e)[2]>> ELSE Aft(s, e))
  BY <1>3, <1>4 DEF TopCorner, FootCorner
<1> DEFINE fore == Fore(s, e)
           aft == Aft(s, e)
           l == LeftOf(s, e)
           r == RightOf(s, e)
<1>7. /\ fore \in Column \X Nat /\ aft \in Column \X Nat /\ fore[2] >= d /\ aft[2] >= d /\ l \in Column /\ r \in Column
  BY <1>4
<1> HIDE DEF fore, aft, l, r
<1>8. /\ Shifted(Loc(<<l, fore[2]>>), d) = Loc(<<l, Off(fore, d)[2]>>) /\ Shifted(Loc(fore), d) = Loc(Off(fore, d))
      /\ Shifted(Loc(<<r, aft[2]>>), d) = Loc(<<r, Off(aft, d)[2]>>) /\ Shifted(Loc(aft), d) = Loc(Off(aft, d))
  BY <1>5, <1>7
<1>9. CASE block
  BY <1>6, <1>8, <1>9 DEF fore, aft, l, r, p, q
<1>10. CASE ~block
  BY <1>6, <1>8, <1>10 DEF fore, aft, l, r, p, q
<1> QED BY <1>9, <1>10

\* The cell before another, some lines on.
LEMMA BeforeOff == \A c, d : Before(Off(c, d)) = Off(Before(c), d) /\ Off(c, d)[1] = c[1] /\ Off(c, d)[2] = c[2] - d
BY DEF Before, Off

\* What is taken with a cell moves as the cell does, where the text about it does.
LEMMA WayOff ==
  ASSUME NEW G, NEW H, NEW d \in Nat, NEW mode \in Mode, NEW c \in TextCells(G),
         mode # "character" => Apart(G, H, d) /\ Shared(G, H, d, c[2])
  PROVE  Low(H, mode, Off(c, d)) = Off(Low(G, mode, c), d) /\ High(H, mode, Off(c, d)) = Off(High(G, mode, c), d)
<1>1. Off(c, d)[2] = c[2] - d
  BY DEF Off
<1>2. CASE mode = "character"
  BY <1>2 DEF Low, High
<1>3. CASE mode = "word"
  <2>1. Apart(G, H, d) /\ Shared(G, H, d, c[2]) /\ d \in Int
    BY <1>3
  <2>2. WordStart(H, Off(c, d)) = Off(WordStart(G, c), d) /\ WordEnd(H, Off(c, d)) = Off(WordEnd(G, c), d)
    BY <2>1, WordsOff
  <2> QED BY <1>3, <2>2 DEF Low, High
<1>4. CASE mode = "line"
  <2>1. Apart(G, H, d) /\ Shared(G, H, d, c[2]) /\ d \in Int
    BY <1>4
  <2>2. c[2] \in Int
    BY <2>1 DEF Shared, Apart, TextCells
  <2>3. LineStart(H, c[2] - d) = LineStart(G, c[2]) - d /\ LineEnd(H, c[2] - d) = LineEnd(G, c[2]) - d
    BY <2>1, <2>2, LinesStay
  <2>4. Low(H, mode, Off(c, d)) = <<0, LineStart(H, c[2] - d)>> /\ High(H, mode, Off(c, d)) = <<Last, LineEnd(H, c[2] - d)>>
    BY <1>1, <1>4 DEF Low, High
  <2>5. Low(G, mode, c) = <<0, LineStart(G, c[2])>> /\ High(G, mode, c) = <<Last, LineEnd(G, c[2])>>
    BY <1>4 DEF Low, High
  <2> QED BY <2>3, <2>4, <2>5 DEF Off
<1> QED BY <1>2, <1>3, <1>4 DEF Mode

LEMMA LeftwardsOff ==
  ASSUME NEW K, NEW L, NEW d \in Nat, L.mode = K.mode, L.anchor = Off(K.anchor, d),
         K.anchor \in Column \X Nat, K.anchor[2] >= d, NEW c \in Column \X Nat, c[2] >= d
  PROVE  Leftwards(L, Off(c, d)) <=> Leftwards(K, c)
<1> DEFINE a == K.anchor
           p == Off(c, d)
           b == Off(a, d)
<1>1. /\ Loc(c) \in Nat /\ d * COLUMNS \in Int /\ Loc(p) = Loc(c) - d * COLUMNS /\ p[2] = c[2] - d
      /\ Loc(a) \in Nat /\ Loc(b) = Loc(a) - d * COLUMNS /\ b[2] = a[2] - d /\ c[2] \in Nat /\ a[2] \in Nat
  BY LocOff
<1>2. L.anchor = b /\ K.anchor = a
  OBVIOUS
<1> HIDE DEF a, b, p
<1>3. /\ Loc(p) < Loc(b) <=> Loc(c) < Loc(a)
      /\ p[2] < b[2] <=> c[2] < a[2]
  BY <1>1
<1>4. CASE K.mode = "line"
  BY <1>2, <1>3, <1>4 DEF Leftwards, p
<1>5. CASE K.mode # "line"
  BY <1>2, <1>3, <1>5 DEF Leftwards, Precedes, p
<1> QED BY <1>4, <1>5

\* The text and the drag, some lines up.
DragOff(G, H, K, L, d) ==
  /\ d \in Nat /\ L.mode = K.mode /\ K.mode \in Mode /\ L.column_mode = K.column_mode
  /\ K.anchor \in TextCells(G) /\ K.anchor[2] >= d /\ L.anchor = Off(K.anchor, d)
  /\ K.mode # "character" => Apart(G, H, d) /\ Shared(G, H, d, K.anchor[2])

LEMMA HingeOff ==
  ASSUME NEW G, NEW H, NEW K, NEW L, NEW d, DragOff(G, H, K, L, d), NEW left \in BOOLEAN, NEW right \in BOOLEAN, right <=> left
  PROVE  /\ Hinge(H, L, right) = Off(Hinge(G, K, left), d) /\ StartCell(H, L, right) = Off(StartCell(G, K, left), d)
         /\ Blocky(L) = Blocky(K)
<1> DEFINE a == K.anchor
<1>1. L.mode = K.mode /\ K.mode \in Mode /\ L.column_mode = K.column_mode /\ L.anchor = Off(a, d) /\ a \in TextCells(G) /\ d \in Nat
      /\ (K.mode # "character" => Apart(G, H, d) /\ Shared(G, H, d, a[2]))
  BY DEF DragOff
<1>2. Low(H, K.mode, Off(a, d)) = Off(Low(G, K.mode, a), d) /\ High(H, K.mode, Off(a, d)) = Off(High(G, K.mode, a), d)
  <2> HIDE DEF a
  <2> QED BY <1>1, WayOff
<1>3. Hinge(H, L, right) = Off(Hinge(G, K, left), d)
  BY <1>1, <1>2 DEF Hinge
<1>4. Blocky(L) = Blocky(K)
  BY <1>1 DEF Blocky
<1>5. StartCell(H, L, right) = IF K.mode = "character" /\ ~Blocky(K) /\ left THEN Before(Hinge(H, L, right)) ELSE Hinge(H, L, right)
  BY <1>1, <1>4 DEF StartCell
<1>6. StartCell(G, K, left) = IF K.mode = "character" /\ ~Blocky(K) /\ left THEN Before(Hinge(G, K, left)) ELSE Hinge(G, K, left)
  BY DEF StartCell
<1> QED BY <1>3, <1>4, <1>5, <1>6, BeforeOff

LEMMA EndCellOff ==
  ASSUME NEW G, NEW H, NEW K, NEW L, NEW d, DragOff(G, H, K, L, d), NEW left \in BOOLEAN, NEW right \in BOOLEAN, right <=> left, NEW h
  PROVE  EndCell(L, right, Off(h, d)) = Off(EndCell(K, left, h), d)
<1>1. L.mode = K.mode /\ Blocky(L) = Blocky(K)
  BY DEF DragOff, Blocky
<1>2. EndCell(L, right, Off(h, d)) = IF K.mode = "character" /\ ~Blocky(K) /\ ~left THEN Before(Off(h, d)) ELSE Off(h, d)
  BY <1>1 DEF EndCell
<1>3. EndCell(K, left, h) = IF K.mode = "character" /\ ~Blocky(K) /\ ~left THEN Before(h) ELSE h
  BY DEF EndCell
<1> QED BY <1>2, <1>3, BeforeOff

LEMMA HereOff ==
  ASSUME NEW G, NEW H, NEW K, NEW L, NEW d, DragOff(G, H, K, L, d), Total(G) \in Nat \ {0},
         NEW c \in TextCells(G), c[2] >= d, K.mode # "character", Shared(G, H, d, c[2])
  PROVE  Here(H, L, Off(c, d)) = Off(Here(G, K, c), d)
<1>1. L.mode = K.mode /\ K.mode \in Mode /\ L.anchor = Off(K.anchor, d) /\ K.anchor \in TextCells(G) /\ d \in Nat
      /\ K.anchor[2] >= d /\ Apart(G, H, d)
  BY DEF DragOff
<1>2. Low(H, K.mode, Off(c, d)) = Off(Low(G, K.mode, c), d) /\ High(H, K.mode, Off(c, d)) = Off(High(G, K.mode, c), d)
  BY <1>1, WayOff
<1>3. K.anchor \in Column \X Nat /\ c \in Column \X Nat
  BY <1>1, SpotsOfText DEF Spot
<1>4. Leftwards(L, Off(c, d)) <=> Leftwards(K, c)
  BY <1>1, <1>3, LeftwardsOff
<1> QED BY <1>1, <1>2, <1>4 DEF Here

LEMMA OffIsOne ==
  ASSUME NEW a \in Column \X Nat, NEW b \in Column \X Nat, NEW d \in Int, Off(a, d) = Off(b, d)
  PROVE  a = b
<1>1. a[1] \in Column /\ a[2] \in Nat /\ a = <<a[1], a[2]>> /\ b[1] \in Column /\ b[2] \in Nat /\ b = <<b[1], b[2]>>
  OBVIOUS
<1>2. a[1] = b[1] /\ a[2] - d = b[2] - d
  BY DEF Off
<1>3. a[2] = b[2]
  BY <1>1, <1>2
<1> QED BY <1>1, <1>2, <1>3

\* A drag whose text stands is one some lines on: its lines are still there, and in
\* words and lines the window is where it was on them.
LEMMA DragCarried ==
  ASSUME NEW G, Standing(G), NEW H, Standing(H), G.history <= H.history, NEW d \in Nat, H.evicted = G.evicted + d,
         NEW K \in Konsoles(Total(G)), NEW L, Carried(K, L, d), OnDrag(G, K),
         K.mode = "character" => K.anchor[2] >= d /\ K.head[2] >= d,
         K.mode # "character" => TopLine(H) = TopLine(G) - d
  PROVE  OnDrag(H, L)
<1>1. /\ Total(G) \in Nat \ {0} /\ FootRow(G) \in Nat /\ Total(H) \in Nat \ {0} /\ FootRow(H) \in Nat
      /\ FootRow(G) <= FootRow(H) /\ G.evicted \in Nat /\ H.evicted \in Nat
      /\ TopLine(G) \in Nat /\ TopLine(H) \in Nat
      /\ BottomLine(G) \in TopLine(G) .. FootRow(G) /\ BottomLine(H) \in TopLine(H) .. FootRow(H)
      /\ BottomLine(G) = TopLine(G) + Screen - 1 /\ BottomLine(H) = TopLine(H) + Screen - 1
  BY TotalFacts, WindowFacts, ViewNumbers
<1>2. /\ K.mode \in Mode /\ K.column_mode \in BOOLEAN /\ K.block_mode \in BOOLEAN
      /\ K.anchor \in TextCells(G) /\ K.head \in TextCells(G)
      /\ (K.mode # "character" => K.anchor[2] >= TopLine(G) /\ K.head[2] >= TopLine(G))
      /\ \/ K.act_sel = 1 /\ K.mode = "character" /\ K.head = K.anchor
         \/ K.act_sel = 2 /\ Begun(G, K)
  BY DEF OnDrag, Konsoles
<1>3. ASSUME NEW c \in TextCells(G)
      PROVE  c \in Column \X Nat /\ c[2] \in 0 .. FootRow(G) /\ c[2] \in Nat /\ c[1] \in Column /\ c = <<c[1], c[2]>>
  <2>1. c \in Column \X (0 .. FootRow(G))
    BY DEF TextCells
  <2> QED BY <1>1, <2>1
<1>4. K.anchor[2] >= d /\ K.head[2] >= d
  <2>1. K.anchor[2] \in Nat /\ K.head[2] \in Nat
    BY <1>2, <1>3
  <2>2. CASE K.mode # "character"
    <3>1. TopLine(G) >= d
      BY <1>1, <2>2
    <3> QED BY <1>1, <1>2, <2>1, <2>2, <3>1
  <2> QED BY <2>2
<1>5. /\ L.mode = K.mode /\ L.column_mode = K.column_mode /\ L.block_mode = K.block_mode /\ L.act_sel = K.act_sel
      /\ L.begin = Shifted(K.begin, d) /\ L.top_left = Shifted(K.top_left, d) /\ L.bottom_right = Shifted(K.bottom_right, d)
      /\ L.anchor = Off(K.anchor, d) /\ L.head = Off(K.head, d)
      /\ (K.triple_sel_begin[2] >= d => L.triple_sel_begin = Off(K.triple_sel_begin, d))
  BY <1>4 DEF Carried
<1>6. K.mode # "character" => Apart(G, H, d)
  BY <1>1 DEF Apart
<1>7. ASSUME NEW c \in TextCells(G), c[2] >= TopLine(G) PROVE Shared(G, H, d, c[2])
  BY <1>1, <1>3, <1>7 DEF Shared
<1>8. DragOff(G, H, K, L, d)
  BY <1>2, <1>4, <1>5, <1>6, <1>7 DEF DragOff
<1>9. ASSUME NEW c \in TextCells(G), c[2] >= d
      PROVE  Off(c, d) \in TextCells(H) /\ Off(c, d)[2] = c[2] - d
  <2>1. Off(c, d) = <<c[1], c[2] - d>> /\ c[2] - d \in 0 .. FootRow(H)
    BY <1>1, <1>3, <1>9 DEF Off
  <2> QED BY <1>3, <2>1 DEF TextCells
<1>10. /\ L.anchor \in TextCells(H) /\ L.head \in TextCells(H)
       /\ L.anchor[2] = K.anchor[2] - d /\ L.head[2] = K.head[2] - d
  BY <1>2, <1>4, <1>5, <1>9
<1>11. L.mode # "character" => L.anchor[2] >= TopLine(H) /\ L.head[2] >= TopLine(H)
  BY <1>1, <1>2, <1>3, <1>5, <1>10
<1>12. CASE K.act_sel = 1 /\ K.mode = "character" /\ K.head = K.anchor
  BY <1>5, <1>10, <1>11, <1>12 DEF OnDrag
<1>13. CASE K.act_sel = 2 /\ Begun(G, K)
  <2> DEFINE left == Leftwards(K, K.head)
             right == Leftwards(L, L.head)
             s == StartCell(G, K, left)
             e == EndCell(K, left, K.head)
             h == Hinge(G, K, left)
  <2>1. left \in BOOLEAN /\ right \in BOOLEAN /\ (right <=> left)
    <3>1. K.anchor \in Column \X Nat /\ K.head \in Column \X Nat
      BY <1>2, <1>3
    <3>2. Leftwards(L, Off(K.head, d)) <=> Leftwards(K, K.head)
      BY <1>4, <1>5, <3>1, LeftwardsOff
    <3> QED BY <1>5, <3>2, LeftwardsType
  <2>2. /\ K.begin = Loc(s) /\ K.block_mode = Blocky(K)
        /\ K.mode = "line" => K.triple_sel_begin = h
        /\ Reached(G, K) => Ranged(K, s, e)
    BY <1>13 DEF Begun
  <2> HIDE DEF left, right
  <2>3. /\ Hinge(H, L, right) = Off(h, d) /\ StartCell(H, L, right) = Off(s, d) /\ Blocky(L) = Blocky(K)
    BY <1>8, <2>1, HingeOff
  <2>4. EndCell(L, right, L.head) = Off(e, d)
    BY <1>5, <1>8, <2>1, EndCellOff
  <2>5. /\ s \in TextCells(G) /\ s[2] = h[2] /\ e \in TextCells(G) /\ e[2] = K.head[2] /\ h \in TextCells(G)
        /\ (K.anchor[2] >= TopLine(G) => h[2] >= TopLine(G))
    BY <1>2, <2>1, EndFacts, HingeFacts
  <2>6. h[2] >= d
    <3>1. CASE K.mode = "character"
      <4>1. h = K.anchor
        BY <3>1 DEF Hinge, Low, High
      <4> QED BY <1>4, <4>1
    <3>2. CASE K.mode # "character"
      <4>1. h[2] >= TopLine(G) /\ TopLine(G) >= d /\ h[2] \in Nat
        BY <1>1, <1>2, <1>3, <2>5, <3>2
      <4> QED BY <1>1, <4>1
    <3> QED BY <3>1, <3>2
  <2>7. s[2] >= d /\ e[2] >= d
    BY <1>4, <2>5, <2>6
  <2>8. s \in Column \X Nat /\ e \in Column \X Nat
    BY <1>3, <2>5
  <2> HIDE DEF s, e, h
  <2>9. L.begin = Loc(Off(s, d))
    BY <1>5, <2>2, <2>7, <2>8, ShiftedLoc
  <2>10. L.mode = "line" => L.triple_sel_begin = Off(h, d)
    BY <1>5, <2>2, <2>6
  <2>11. ASSUME Reached(H, L) PROVE Reached(G, K)
    <3>1. CASE K.mode = "character"
      BY <1>5, <2>11, <3>1 DEF Reached
    <3>2. CASE K.mode # "character"
      <4>1. PICK q \in InWindow(H) : Here(H, L, q) = L.head
        BY <1>5, <2>11, <3>2 DEF Reached
      <4> DEFINE c == <<q[1], q[2] + d>>
      <4>2. q[1] \in Column /\ q[2] \in TopLine(H) .. BottomLine(H) /\ q = <<q[1], q[2]>>
        BY DEF InWindow
      <4>3. c[1] = q[1] /\ c[2] = q[2] + d /\ c[2] \in TopLine(G) .. BottomLine(G) /\ c[2] >= d /\ c[2] - d = q[2]
        BY <1>1, <3>2, <4>2, ViewNumbers
      <4>4. c \in InWindow(G) /\ c \in TextCells(G) /\ c[2] >= TopLine(G)
        <5>1. c[2] \in 0 .. FootRow(G) /\ c[2] >= TopLine(G)
          BY <1>1, <4>3
        <5> QED BY <4>2, <4>3, <5>1 DEF InWindow, TextCells
      <4>5. Off(c, d) = q
        BY <4>2, <4>3 DEF Off
      <4> HIDE DEF c
      <4>6. Here(H, L, Off(c, d)) = Off(Here(G, K, c), d)
        BY <1>1, <1>7, <1>8, <3>2, <4>3, <4>4, HereOff
      <4>7. Off(Here(G, K, c), d) = Off(K.head, d)
        BY <1>5, <4>1, <4>5, <4>6
      <4>8. Here(G, K, c) \in Column \X Nat /\ K.head \in Column \X Nat
        BY <1>2, <1>3, <4>4, HereFacts
      <4>9. Here(G, K, c) = K.head
        BY <4>7, <4>8, OffIsOne
      <4> QED BY <3>2, <4>4, <4>9 DEF Reached
    <3> QED BY <3>1, <3>2
  <2>12. Ranged(K, s, e) => Ranged(L, Off(s, d), Off(e, d))
    <3> DEFINE b == K.block_mode
    <3>1. b \in BOOLEAN /\ L.block_mode = b
      BY <1>2, <1>5
    <3> HIDE DEF b
    <3>2. /\ Shifted(Loc(TopCorner(s, e, b)), d) = Loc(TopCorner(Off(s, d), Off(e, d), b))
          /\ Shifted(Loc(FootCorner(s, e, b)), d) = Loc(FootCorner(Off(s, d), Off(e, d), b))
      BY <2>7, <2>8, <3>1, CornersOff
    <3> QED BY <1>5, <3>1, <3>2 DEF Ranged, b
  <2>13. Begun(H, L)
    <3>1. Reached(H, L) => Ranged(L, StartCell(H, L, right), EndCell(L, right, L.head))
      BY <2>2, <2>3, <2>4, <2>11, <2>12
    <3>2. L.begin = Loc(StartCell(H, L, right)) /\ L.block_mode = Blocky(L)
      BY <1>5, <2>2, <2>3, <2>9
    <3>3. L.mode = "line" => L.triple_sel_begin = Hinge(H, L, right)
      BY <2>3, <2>10
    <3> QED BY <3>1, <3>2, <3>3 DEF Begun, right
  <2> QED BY <1>5, <1>10, <1>11, <1>13, <2>13 DEF OnDrag
<1> QED BY <1>2, <1>12, <1>13

-----------------------------------------------------------------------------
(***************************************************************************)
(* The invariant of a drag, and what a move of it marks.                   *)
(***************************************************************************)
\* While nothing a drag goes by has moved or gone, its range is the one begun on
\* the side of the anchor its head is on, and led to its head.
DragInv == hand.dragging /\ hand.steady => OnDrag(screen, Rebase(sel, screen.evicted))

\* What moves the text or the view leaves the drag as it was, or tells it that
\* what it goes by has gone.
LEMMA WatchedDrag ==
  ASSUME OnAir, DragInv, Watching, sel' = sel, Standing(screen'), screen.history <= screen'.history,
         screen.evicted <= screen'.evicted
  PROVE  DragInv'
<1> SUFFICES ASSUME hand'.dragging, hand'.steady PROVE OnDrag(screen', Rebase(sel, screen'.evicted))
  BY DEF DragInv
<1> DEFINE G == screen
           H == screen'
           d == H.evicted - G.evicted
           n == Total(G)
           base == sel.evicted_base
           K == Rebase(sel, G.evicted)
           L == Rebase(sel, H.evicted)
<1>1. hand.dragging /\ hand.steady /\ Stands
  <2> DEFINE st == hand.steady /\ (hand.dragging => Stands)
  <2>1. hand' = [hand EXCEPT !.steady = st] /\ hand \in Hands
    BY DEF Watching, OnAir
  <2> HIDE DEF st
  <2>2. hand'.steady = st /\ hand'.dragging = hand.dragging
    BY <2>1 DEF Hands
  <2> QED BY <2>2 DEF st
<1>2. /\ Standing(G) /\ Standing(H) /\ G.evicted \in Nat /\ H.evicted \in Nat /\ d \in Nat /\ H.evicted = G.evicted + d
      /\ n \in Nat /\ Fitting(sel, n) /\ base \in Nat /\ base <= G.evicted
  <2>1. Standing(G) /\ Standing(H) /\ Fitting(sel, n) /\ base <= G.evicted
    BY <1>1 DEF OnAir
  <2>2. G.evicted \in Nat /\ H.evicted \in Nat /\ n \in Nat
    BY <2>1, TotalFacts
  <2>3. base \in Nat
    BY <2>1 DEF Fitting, Konsoles
  <2> QED BY <2>1, <2>2, <2>3
<1>3. OnDrag(G, K)
  BY <1>1 DEF DragInv
<1> DEFINE e == G.evicted
<1>4. /\ Carried(K, L, d)
      /\ sel.anchor[2] - (e - base) >= d => K.anchor[2] >= d
      /\ sel.head[2] - (e - base) >= d => K.head[2] >= d
  <2>1. sel \in Konsoles(n) /\ e \in Nat /\ d \in Nat /\ base <= e /\ n \in Nat
    BY <1>2 DEF Fitting
  <2>2. L = Rebase(sel, e + d)
    BY <1>2
  <2> HIDE DEF d, n, L, e
  <2>3. /\ Carried(Rebase(sel, e), Rebase(sel, e + d), d)
        /\ sel.anchor[2] - (e - base) >= d => Rebase(sel, e).anchor[2] >= d
        /\ sel.head[2] - (e - base) >= d => Rebase(sel, e).head[2] >= d
    BY <2>1, RebasedOn
  <2> QED BY <2>2, <2>3 DEF e
<1>5. K \in Konsoles(n) /\ K.mode = sel.mode
  <2> HIDE DEF n
  <2> QED BY <1>2, RebaseFacts, ZenonT(60) DEF Fitting
<1> HIDE DEF K, L
<1>6. K.mode = "character" => K.anchor[2] >= d /\ K.head[2] >= d
  <2> SUFFICES ASSUME K.mode = "character" PROVE K.anchor[2] >= d /\ K.head[2] >= d
    OBVIOUS
  <2>1. sel.anchor[2] >= H.evicted - base /\ sel.head[2] >= H.evicted - base
    BY <1>1, <1>5 DEF Stands
  <2>2. sel.anchor[2] \in Nat /\ sel.head[2] \in Nat
    <3>1. sel.anchor \in Column \X Nat /\ sel.head \in Column \X Nat
      BY <1>2 DEF Fitting, Konsoles, Spot
    <3> QED BY <3>1
  <2>3. sel.anchor[2] - (e - base) >= d /\ sel.head[2] - (e - base) >= d
    BY <1>2, <2>1, <2>2
  <2> QED BY <1>4, <2>3
<1>7. K.mode # "character" => TopLine(H) = TopLine(G) - d
  <2> SUFFICES ASSUME K.mode # "character" PROVE TopLine(H) = TopLine(G) - d
    OBVIOUS
  <2>1. TopName(H) = TopName(G)
    BY <1>1, <1>5 DEF Stands
  <2>2. TopLine(G) \in Nat /\ TopLine(H) \in Nat
    BY <1>2, WindowFacts, TotalFacts
  <2> QED BY <1>2, <2>1, <2>2 DEF TopName
<1> HIDE DEF d, n
<1>8. OnDrag(H, L)
  BY <1>2, <1>3, <1>4, <1>5, <1>6, <1>7, DragCarried DEF n
<1> QED BY <1>8 DEF L

\* A press begins a drag.
LEMMA PressedDrag == ASSUME OnAir, Pressed PROVE DragInv'
<1> DEFINE n == Total(screen)
<1>1. Standing(screen) /\ n \in Nat \ {0} /\ screen.evicted \in Nat /\ Fitting(sel, n)
  BY TotalFacts DEF OnAir
<1>2. PICK c \in Pointable :
        \/ \E column \in BOOLEAN : sel' = Press(screen, sel, c, column)
        \/ sel' = DoubleClick(screen, sel, c)
        \/ sel' = TripleClick(screen, sel, c)
  BY DEF Pressed
<1>3. c \in TextCells(screen) /\ c[2] >= TopLine(screen)
  BY <1>1, PointableFacts, ClampFacts
<1>4. OnDrag(screen, sel') /\ Made(screen, sel')
  <2>1. CASE \E column \in BOOLEAN : sel' = Press(screen, sel, c, column)
    BY <1>1, <1>3, <2>1, PressFacts, PressBegins
  <2>2. CASE sel' = DoubleClick(screen, sel, c)
    BY <1>1, <1>3, <2>2, DoubleClickFacts, DoubleClickBegins
  <2>3. CASE sel' = TripleClick(screen, sel, c)
    BY <1>1, <1>3, <2>3, TripleClickFacts, TripleClickBegins
  <2> QED BY <1>2, <2>1, <2>2, <2>3
<1>5. Rebase(sel', screen.evicted) = sel'
  <2>1. sel' \in Konsoles(n) /\ sel'.evicted_base = screen.evicted
    BY <1>4 DEF Made, Fitting
  <2> HIDE DEF n
  <2>2. Rebase(sel', sel'.evicted_base) = sel'
    BY <1>1, <2>1, RebaseOwn
  <2> QED BY <2>1, <2>2
<1>6. screen' = screen
  BY DEF Pressed
<1> QED BY <1>4, <1>5, <1>6 DEF DragInv

\* A move of a drag keeps it, and marks what a press at the anchor and this one move
\* would have.
LEMMA DraggedDrag ==
  ASSUME COLUMNS # 2, OnAir, DragInv, Dragged
  PROVE  DragInv' /\ MarkIsDirect
<1> DEFINE n == Total(screen)
           K1 == Rebase(sel, screen.evicted)
           p == Clamp(screen, hand'.pointer)
           R == Led(screen, K1, p)
           S == Towards(screen, K1, p)
           T == Towards(screen, sel', p)
           left == Leftwards(K1, p)
<1>1. Standing(screen) /\ n \in Nat \ {0} /\ screen.evicted \in Nat /\ Fitting(sel, n) /\ hand \in Hands /\ hand.dragging
  BY TotalFacts DEF OnAir, Dragged
<1>2. PICK c \in Pointable : sel' = DragTo(screen, sel, c) /\ hand' = [hand EXCEPT !.pointer = c]
  BY DEF Dragged
<1>3. hand'.pointer = c /\ hand'.steady = hand.steady /\ hand'.dragging = hand.dragging /\ screen' = screen
  BY <1>1, <1>2 DEF Hands, Dragged
<1>4. p \in InWindow(screen) /\ p \in TextCells(screen) /\ p = Clamp(screen, c)
  BY <1>1, <1>3, ClampFacts, PointableFacts
<1>5. Made(screen, sel')
  <2>1. sel.anchor[2] <= FootRow(screen)
    BY <1>1 DEF OnAir
  <2>2. Clamp(screen, c) \in TextCells(screen)
    BY <1>4
  <2> QED BY <1>1, <1>2, <2>1, <2>2, DragFacts
<1>6. sel' = R
  BY <1>2, <1>4, DragLeads
<1>7. Fitting(K1, n) /\ K1.mode \in Mode
  <2>1. n \in Nat
    BY <1>1
  <2> HIDE DEF n
  <2> QED BY <1>1, <2>1, RebaseFacts DEF Fitting, Konsoles
<1> SUFFICES ASSUME hand.steady PROVE DragInv' /\ MarkIsDirect
  BY <1>3 DEF DragInv, MarkIsDirect
<1>8. OnDrag(screen, K1)
  BY <1>1 DEF DragInv
<1> HIDE DEF K1, p
<1>9. /\ OnDrag(screen, R) /\ SameAim(K1, R)
      /\ S.here # S.ohere =>
           R.block_mode = Blocky(R) /\ Ranged(R, StartCell(screen, R, left), EndCell(R, left, S.here))
  BY <1>1, <1>4, <1>7, <1>8, LedKeeps
<1> HIDE DEF R
<1>10. DragInv'
  <2>1. Rebase(sel', screen.evicted) = sel'
    <3>1. sel' \in Konsoles(n) /\ sel'.evicted_base = screen.evicted
      BY <1>5 DEF Made, Fitting
    <3> HIDE DEF n
    <3>2. Rebase(sel', sel'.evicted_base) = sel'
      BY <1>1, <3>1, RebaseOwn
    <3> QED BY <3>1, <3>2
  <2> QED BY <1>3, <1>6, <1>9, <2>1 DEF DragInv
<1> DEFINE h == Hinge(screen, K1, left)
<1>11. left \in BOOLEAN /\ SameAim(K1, sel') /\ sel'.mode = K1.mode /\ sel'.mode \in Mode
  BY <1>6, <1>7, <1>9, LeftwardsType DEF SameAim
<1> HIDE DEF left
<1>12. /\ S.here = Here(screen, K1, p)
       /\ S.ohere = <<h[1] + (IF K1.mode = "character" THEN 0 ELSE 1), h[2]>>
  BY <1>7, TowardsIs DEF left
<1> DEFINE side == Leftwards(sel', p)
<1>13. side \in BOOLEAN /\ (side <=> left)
  <2>1. Leftwards(sel', p) <=> Leftwards(K1, p)
    BY <1>11, AimFacts
  <2> QED BY <2>1, LeftwardsType DEF left
<1> HIDE DEF side
<1>14. Here(screen, sel', p) = Here(screen, K1, p) /\ Hinge(screen, sel', side) = h
  BY <1>11, <1>13, AimFacts
<1>15. /\ T.here = Here(screen, sel', p)
       /\ T.ohere = <<Hinge(screen, sel', side)[1] + (IF sel'.mode = "character" THEN 0 ELSE 1), Hinge(screen, sel', side)[2]>>
  BY <1>11, TowardsIs DEF side
<1>16. T.here = S.here /\ T.ohere = S.ohere
  <2> HIDE DEF S, T, h
  <2> QED BY <1>11, <1>12, <1>14, <1>15
<1>17. MarkIsDirect
  <2> SUFFICES ASSUME T.here # T.ohere PROVE Marked(sel', screen.evicted) = Direct(screen, sel', hand'.pointer)
    BY DEF MarkIsDirect, p
  <2> DEFINE here == T.here
  <2>1. sel'.block_mode = Blocky(sel') /\ Ranged(sel', StartCell(screen, sel', left), EndCell(sel', left, here))
    <3> HIDE DEF S, T
    <3> QED BY <1>6, <1>9, <1>16
  <2>2. here = Here(screen, sel', p) /\ (left <=> Leftwards(sel', p))
    BY <1>13, <1>15 DEF side
  <2>3. sel'.mode = "character" => p # sel'.anchor
    <3> SUFFICES ASSUME sel'.mode = "character", p = sel'.anchor PROVE FALSE
      OBVIOUS
    <3>1. here = p
      BY <2>2 DEF Here, Low, High
    <3>2. Hinge(screen, sel', side) = sel'.anchor
      BY DEF Hinge, Low, High
    <3>3. T.ohere = <<p[1] + 0, p[2]>>
      <4> HIDE DEF T
      <4> QED BY <1>15, <3>2
    <3>4. p[1] \in Column /\ p = <<p[1], p[2]>>
      BY <1>1, <1>4, CellsOfText
    <3>5. p[1] + 0 = p[1]
      BY <3>4, ViewNumbers DEF Column, Last
    <3> QED BY <3>1, <3>3, <3>4, <3>5
  <2> HIDE DEF here, T
  <2>4. Fitting(sel', Total(screen)) /\ sel'.evicted_base = screen.evicted /\ sel'.anchor \in TextCells(screen)
    BY <1>5 DEF Made
  <2>5. p = Clamp(screen, hand'.pointer)
    BY DEF p
  <2> QED BY <1>1, <1>4, <1>11, <2>1, <2>2, <2>3, <2>4, <2>5, DirectIs
<1> QED BY <1>10, <1>17

LEMMA DragSteps ==
  ASSUME COLUMNS # 2, OnAir, OnAir', DragInv, [GlassNext]_glassVars
  PROVE  DragInv' /\ (DragStep => MarkIsDirect)
<1>1. CASE UNCHANGED glassVars
  BY <1>1 DEF glassVars, DragInv, DragStep
<1>2. ASSUME Watching, sel' = sel, screen.history <= screen'.history, screen.evicted <= screen'.evicted
      PROVE  DragInv' /\ ~DragStep
  <2>1. DragInv'
    BY <1>2, WatchedDrag DEF OnAir
  <2>2. hand'.pointer = hand.pointer
    BY <1>2, WatchFacts DEF OnAir
  <2> QED BY <2>1, <2>2 DEF DragStep
<1>3. ASSUME SameText(screen, screen') PROVE screen.history <= screen'.history /\ screen.evicted <= screen'.evicted
  <2>1. screen.history \in Nat /\ screen.evicted \in Nat
    BY TotalFacts DEF OnAir
  <2> QED BY <1>3, <2>1 DEF SameText
<1>4. CASE GlassTick \/ OpenFind \/ CloseFind
  <2>1. Watching /\ sel' = sel
    BY <1>4 DEF GlassTick, OpenFind, CloseFind
  <2>2. screen.history <= screen'.history /\ screen.evicted <= screen'.evicted
    BY <1>4, OutputStep DEF OnAir
  <2> QED BY <1>2, <2>1, <2>2
<1>5. CASE Wheel \/ Fingers \/ ScrollKey \/ TypeBytes
  <2>1. Watching
    BY <1>5 DEF Wheel, Fingers, ScrollKey, TypeBytes, Moved
  <2>2. SameText(screen, screen') /\ sel' = sel
    BY <1>5, HandKeeps
  <2> QED BY <1>2, <1>3, <2>1, <2>2
<1>6. CASE FindStep
  <2>1. Watching
    BY <1>6 DEF FindStep
  <2>2. SameText(screen, screen') /\ sel' = sel
    BY <1>6, FindKeeps
  <2> QED BY <1>2, <1>3, <2>1, <2>2
<1>7. CASE Pressed
  <2>1. ~hand.dragging
    BY <1>7 DEF Pressed
  <2> QED BY <1>7, <2>1, PressedDrag DEF DragStep
<1>8. CASE Dragged
  BY <1>8, DraggedDrag
<1>9. CASE Released \/ Unfocused \/ Switched
  <2>1. LetGo \/ hand' = AtRest
    BY <1>9 DEF Released, Unfocused, Switched
  <2>2. ~hand'.dragging
    BY <2>1, LetGoFacts DEF OnAir
  <2> QED BY <2>2 DEF DragInv, DragStep
<1> QED BY <1>1, <1>4, <1>5, <1>6, <1>7, <1>8, <1>9 DEF GlassNext

\* A drag forgets its path: what is marked is what a press at the anchor and one move
\* to the pointer would mark, however often the pointer crossed the anchor, and
\* whatever scrolled or was printed meanwhile, as long as what the drag goes by
\* stands (pointer.rs; konsole.rs, extend). Not where a line has two columns: there
\* the end of a line is the one cell past its start that a move is told not to go to.
THEOREM DragAlwaysForgetsItsPath ==
  ASSUME COLUMNS # 2
  PROVE  GlassSpec => DragForgetsItsPath
<1>1. GlassInit => OnAir
  BY OnAirStarts
<1>2. OnAir /\ [GlassNext]_glassVars => OnAir'
  BY OnAirSteps
<1>3. GlassInit => DragInv
  BY DEF GlassInit, AtRest, DragInv
<1>4. OnAir /\ OnAir' /\ DragInv /\ [GlassNext]_glassVars => DragInv' /\ [DragStep => MarkIsDirect]_glassVars
  BY DragSteps
<1> QED BY <1>1, <1>2, <1>3, <1>4, PTL DEF GlassSpec, DragForgetsItsPath
=============================================================================
