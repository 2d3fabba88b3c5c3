------------------------------ MODULE Renderer ------------------------------
(***************************************************************************)
(* What the glass holds (core/render.rs): the renderer keeps a copy of the *)
(* screen and what it built from it, and a frame asks the terminal only    *)
(* for what changed. The window (app/window/mod.rs, bank.rs) puts another  *)
(* terminal under it, moves the view, changes the font and the size.       *)
(*                                                                         *)
(* A row of the screen is one text; rows are numbered from the top, lines  *)
(* of a terminal from the top of its live screen, its history below zero.  *)
(* `Charset` is the texts a new atlas can draw, the printable ASCII; any   *)
(* other has to be admitted. The terminal is rio-vt, outside: what it      *)
(* reports of itself is what core/tests/suite/scrollback.rs finds it to.   *)
(*                                                                         *)
(* Left out: columns, colours, the geometry of the picture, the growth of  *)
(* the atlas' texture, a window with no glass, a bank with nothing on it.  *)
(***************************************************************************)
EXTENDS Integers

CONSTANTS
  Terminal,      \* the channels' terminals
  Text, Blank,   \* what a row may say, and an empty row
  Charset,       \* the texts the opening charset draws
  Shape, Hidden, \* the shapes of a cursor
  Figure, Nobody,\* what a critter stands on a row, and none
  TellsBelow     \* the terminal also reports damage on lines below the view

VARIABLES
  term,      \* by terminal: rows, lines, offset, cursor, damage
  air,       \* the terminal on the air
  view,      \* ScrollPosition: the offset it last knew of
  glass,     \* GridRenderer
  asked,     \* for the properties: what the last frame was asked to show
  refonted   \* for the properties: the font changed since the last rebuild

vars == <<term, air, view, glass, asked, refonted>>

Nothing == <<>>
Rows    == Nat \ {0}

-----------------------------------------------------------------------------
(***************************************************************************)
(* The terminal.                                                           *)
(***************************************************************************)
Terminals ==
  [rows : Rows, lines : [Int -> Text], offset : Nat, cursor : [line : Nat, shape : Shape],
   full : BOOLEAN, damaged : SUBSET Nat]

Line(T, row) == T.lines[row - T.offset]

\* Damage in the coordinates of the view.
Damaged(T) ==
  {row \in Nat : row - T.offset \in T.damaged /\ (TellsBelow \/ row < T.rows)}

\* cursor_state: the cursor's place on the view, which may be below it.
CursorOf(T) == [row |-> T.cursor.line + T.offset, shape |-> T.cursor.shape]

-----------------------------------------------------------------------------
(***************************************************************************)
(* What is built of a row, of the cursor and of a composition.             *)
(***************************************************************************)
\* glyph_instance: a character with no slot in the atlas draws nothing.
Drawn(g, text) == IF text \in g.atlas THEN text ELSE Blank

BuildRow(g, row) ==
  [text |-> Drawn(g, g.grid[row]), marked |-> row \in g.marked, link |-> row \in g.link,
   critter |-> g.critter[row]]

OnGlass(g) == g.cursor # Nothing /\ g.cursor.row < g.rows

\* Its colours stand out from the cell below; a block strikes its character.
BuildCursor(g) ==
  IF ~OnGlass(g) \/ g.cursor.shape = Hidden THEN Nothing
  ELSE [at |-> g.cursor, text |-> Drawn(g, g.grid[g.cursor.row]), marked |-> g.cursor.row \in g.marked]

\* Whatever the cursor's shape; nobody admits its characters to the atlas.
BuildPreedit(g) ==
  IF ~OnGlass(g) \/ g.preedit = Nothing THEN Nothing
  ELSE [row |-> g.cursor.row, under |-> g.grid[g.cursor.row], marked |-> g.cursor.row \in g.marked,
        text |-> Drawn(g, g.preedit)]

UploadAll(g) ==
  [g EXCEPT !.shown = [row \in Nat |-> BuildRow(g, row)],
            !.cursorShown = BuildCursor(g), !.preeditShown = BuildPreedit(g)]

NewRenderer(rows) ==
  UploadAll([rows |-> rows, grid |-> [row \in Nat |-> Blank], atlas |-> Charset, cursor |-> Nothing,
             marked |-> {}, link |-> {}, critter |-> [row \in Nat |-> Nobody], preedit |-> Nothing,
             stale |-> FALSE, shown |-> Nothing, cursorShown |-> Nothing, preeditShown |-> Nothing])

\* The new atlas has the opening charset, and what is built is built anew
\* from the cells the renderer holds.
SetAtlas(g) == UploadAll([g EXCEPT !.atlas = Charset])

Resized(g, rows) ==
  IF rows = g.rows THEN g
  ELSE UploadAll([g EXCEPT !.rows = rows, !.grid = [row \in Nat |-> Blank]])

-----------------------------------------------------------------------------
(***************************************************************************)
(* sync: one frame's worth of change out of the terminal. The spare row,   *)
(* numbered g.rows, shows while the view is scrolled back.                 *)
(***************************************************************************)
\* Put the terminal's rows into the cells, and their characters into the atlas.
Filled(g, T, rows) ==
  [g EXCEPT !.grid = [row \in Nat |-> IF row \in rows THEN Line(T, row) ELSE g.grid[row]],
            !.atlas = @ \cup {Line(T, row) : row \in rows}]

Rebuilt(g, T) ==
  LET spare == IF T.offset > 0 THEN {g.rows} ELSE {}
      blank == [g EXCEPT !.grid[g.rows] = Blank]
  IN  UploadAll([Filled(blank, T, {row \in Nat : row < g.rows} \cup spare) EXCEPT !.cursor = CursorOf(T)])

\* The rows a change of what is marked or linked touches.
Changed(old, new) == (old \ new) \cup (new \ old)

CursorRows(g, T) ==
  IF CursorOf(T) = g.cursor THEN {}
  ELSE {row \in Nat : row < g.rows /\ (row = CursorOf(T).row \/ (g.cursor # Nothing /\ row = g.cursor.row))}

RowsToUpdate(g, T, marked, link) ==
  Damaged(T) \cup CursorRows(g, T) \cup Changed(g.marked, marked) \cup Changed(g.link, link)

\* Rows and, when any has changed, the spare row; the cursor when it moved or
\* its row was built again, and the composition with it.
Refreshed(g, T, rows) ==
  LET spare  == IF T.offset > 0 /\ rows # {} THEN {g.rows} ELSE {}
      built  == {row \in rows : row < g.rows} \cup spare
      filled == Filled(g, T, built)
      next   == [filled EXCEPT
                   !.cursor = CursorOf(T),
                   !.shown  = [row \in Nat |-> IF row \in built THEN BuildRow(filled, row) ELSE g.shown[row]]]
  IN  IF CursorOf(T) = g.cursor /\ CursorOf(T).row \notin rows THEN next
      ELSE [next EXCEPT !.cursorShown = BuildCursor(next), !.preeditShown = BuildPreedit(next)]

\* What overrides the damaged lines.
Full(g, T) == T.rows # g.rows \/ view # T.offset \/ g.stale \/ T.full

Sync(g, T, marked, link) ==
  LET told == [Resized(g, T.rows) EXCEPT !.stale = FALSE, !.marked = marked, !.link = link]
  IN  IF Full(g, T) THEN Rebuilt(told, T)
      ELSE Refreshed(told, T, RowsToUpdate(g, T, marked, link))

SetPreedit(g, text) ==
  IF text = g.preedit THEN g
  ELSE LET next == [g EXCEPT !.preedit = text]
       IN  [next EXCEPT !.preeditShown = BuildPreedit(next)]

\* Rows are built again where it was and where it is, off the spare row.
SetCritter(g, critter) ==
  LET next == [g EXCEPT !.critter = critter]
      at   == {row \in Nat : row < g.rows /\ {g.critter[row], critter[row]} # {Nobody}}
  IN  IF critter = g.critter THEN g
      ELSE [next EXCEPT !.shown = [row \in Nat |-> IF row \in at THEN BuildRow(next, row) ELSE g.shown[row]]]

-----------------------------------------------------------------------------
(***************************************************************************)
(* What the window does. A pump ends with the view told of its terminal.   *)
(***************************************************************************)
Unseen == asked' = Nothing

\* The program writes on some lines and puts its cursor somewhere.
Write(t) ==
  /\ \E lines \in [Int -> Text], cursor \in [line : Nat, shape : Shape], damaged \in SUBSET Nat :
       /\ \A line \in Int : lines[line] # term[t].lines[line] => line \in damaged
       /\ term' = [term EXCEPT ![t].lines = lines, ![t].cursor = cursor, ![t].damaged = @ \cup damaged]
  /\ view' = term'[air].offset
  /\ Unseen /\ UNCHANGED <<air, glass, refonted>>

\* Output that scrolls: every line moves, and a view scrolled back goes along
\* where there is history left to go into. The terminal is damaged whole.
Scrolled(t) ==
  /\ \E lines \in [Int -> Text], offset \in Nat :
       term' = [term EXCEPT ![t].lines = lines, ![t].offset = offset, ![t].full = TRUE]
  /\ view' = term'[air].offset
  /\ Unseen /\ UNCHANGED <<air, glass, refonted>>

\* ScrollPosition::settle and apply: the wheel, the keys, a glide. The view is
\* told in the same step, so it is the terminal's damage that tells the frame.
ScrollView ==
  /\ \E offset \in Nat : term' = [term EXCEPT ![air].offset = offset, ![air].full = TRUE]
  /\ view' = term'[air].offset
  /\ Unseen /\ UNCHANGED <<air, glass, refonted>>

\* The window's size, or the cell's: the terminals are told, and the renderer
\* finds out by itself.
Resize ==
  /\ \E T \in [Terminal -> Terminals] :
       /\ \A t \in Terminal : T[t] = term[t] \/ T[t].full
       /\ term' = T
  /\ Unseen /\ UNCHANGED <<air, view, glass, refonted>>

\* channel_changed: another terminal comes to the glass.
Invalidated(g) == [g EXCEPT !.stale = TRUE]

ChannelChanged(t) ==
  /\ t # air /\ air' = t
  /\ view' = term[t].offset
  /\ glass' = Invalidated(glass)
  /\ Unseen /\ UNCHANGED <<term, refonted>>

\* The channel on the air ends and another opens on its slot within a pump:
\* the pair on the air is the same, so nothing is invalidated.
Reopened(t) ==
  /\ \E T \in Terminals : T.full /\ term' = [term EXCEPT ![t] = T]
  /\ view' = term'[air].offset
  /\ Unseen /\ UNCHANGED <<air, glass, refonted>>

\* ensure_font: a new atlas behind the same grid.
EnsureFont ==
  /\ glass' = SetAtlas(glass) /\ refonted' = TRUE
  /\ Unseen /\ UNCHANGED <<term, air, view>>

\* draw_frame, on a frame that was had.
DrawFrame ==
  /\ \E marked \in SUBSET Nat, link \in SUBSET Nat, critter \in [Nat -> Figure \cup {Nobody}],
        preedit \in Text \cup {Nothing} :
       /\ glass' = SetCritter(SetPreedit(Sync(glass, term[air], marked, link), preedit), critter)
       /\ asked' = [marked |-> marked, link |-> link, critter |-> critter, preedit |-> preedit]
  /\ refonted' = (refonted /\ ~Full(glass, term[air]))
  /\ view' = term[air].offset
  /\ term' = [term EXCEPT ![air].full = FALSE, ![air].damaged = {}]
  /\ UNCHANGED air

-----------------------------------------------------------------------------
Init ==
  /\ term \in {T \in [Terminal -> Terminals] : \A t \in Terminal : T[t].full}
  /\ air \in Terminal /\ view = 0
  /\ \E rows \in Rows : glass = NewRenderer(rows)
  /\ asked = Nothing /\ refonted = FALSE

Next ==
  \/ \E t \in Terminal : Write(t) \/ Scrolled(t) \/ ChannelChanged(t) \/ Reopened(t)
  \/ ScrollView \/ Resize \/ EnsureFont \/ DrawFrame

Spec == Init /\ [][Next]_vars

-----------------------------------------------------------------------------
(***************************************************************************)
(* What must hold.                                                         *)
(***************************************************************************)
\* What the atlas is sure to hold: a row that has not been asked of the
\* terminal since the font changed may say what the new atlas cannot draw.
Legible == IF refonted THEN Charset ELSE Text

\* What is drawn for a text: the text, or nothing where the atlas may not have it.
MayShow(text, legible) == IF text \in legible THEN {text} ELSE {text, Blank}

\* After a frame every row of the glass is the terminal's line it stands for, and
\* never another line's text; its marks, its link and its critter are this
\* frame's, whatever of its text can be drawn.
RowsAreTheTerminals ==
  asked # Nothing =>
    \A row \in Nat : row < term[air].rows =>
      /\ glass.shown[row].text \in MayShow(Line(term[air], row), Legible)
      /\ glass.shown[row].marked = (row \in asked.marked)
      /\ glass.shown[row].link = (row \in asked.link)
      /\ glass.shown[row].critter = asked.critter[row]

\* So is the spare row while it may show: its marks and its link always, its text
\* where the terminal tells of lines below the view. Its critter stays as it was.
SpareRowIsTheNextLine ==
  asked # Nothing /\ term[air].offset > 0 =>
    LET row == term[air].rows IN
    /\ TellsBelow => glass.shown[row].text \in MayShow(Line(term[air], row), Legible)
    /\ glass.shown[row].marked = (row \in asked.marked)
    /\ glass.shown[row].link = (row \in asked.link)

\* The cursor stands where the terminal has it, over the character that is
\* there, and the composition at the cursor, as much of it as the opening charset
\* draws. Neither is left standing anywhere else.
CursorIsTheTerminals ==
  asked # Nothing =>
    LET cursor == CursorOf(term[air])
        under  == Line(term[air], cursor.row)
        there  == cursor.row < term[air].rows
    IN  /\ there /\ cursor.shape # Hidden =>
             /\ glass.cursorShown # Nothing /\ glass.cursorShown.at = cursor
             /\ glass.cursorShown.text \in MayShow(under, Legible)
             /\ glass.cursorShown.marked = (cursor.row \in asked.marked)
        /\ ~there \/ cursor.shape = Hidden => glass.cursorShown = Nothing
        /\ there /\ asked.preedit # Nothing =>
             /\ glass.preeditShown # Nothing /\ glass.preeditShown.row = cursor.row
             /\ glass.preeditShown.text \in MayShow(asked.preedit, Charset)
             /\ glass.preeditShown.under = under
             /\ glass.preeditShown.marked = (cursor.row \in asked.marked)
        /\ ~there \/ asked.preedit = Nothing => glass.preeditShown = Nothing

\* Together: what a frame leaves on the glass is the screen of the terminal on
\* the air, though it asked only for what changed.
GlassIsTheScreen == RowsAreTheTerminals /\ SpareRowIsTheNextLine /\ CursorIsTheTerminals
=============================================================================
