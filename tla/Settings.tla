------------------------------ MODULE Settings ------------------------------
(***************************************************************************)
(* The configuration file, its writers and the terminal that follows it:   *)
(* the watcher's thread and the signal's (config/src/watch.rs,             *)
(* app/src/settings.rs), the seam's drag and the frame that applies what   *)
(* the settings say (app/src/window/seam.rs, window/mod.rs), and another   *)
(* process that edits the same file.                                       *)
(*                                                                         *)
(* Files are replaced by a rename, so a read sees one version of the file  *)
(* or another. A version is the bank's width and everything else; a file   *)
(* may also not parse, or be one whose tables are not tables.              *)
(*                                                                         *)
(* Left out: profiles and presets (the loader resolves them, the same way  *)
(* at every reload), the saved looks (other files), a missing file.        *)
(***************************************************************************)
EXTENDS Integers, FiniteSets

CONSTANTS
  Widths,   \* general.led_characters
  Looks,    \* every other setting
  Edits,    \* bound: versions another process writes
  Drags,    \* bound: drags of the seam
  Signals   \* bound: SIGUSR1

ASSUME SettingsAssumption ==
  /\ Widths \subseteq Nat \ {0} /\ IsFiniteSet(Widths) /\ Widths # {} /\ IsFiniteSet(Looks) /\ Looks # {}
  /\ Edits \in Nat /\ Drags \in Nat /\ Signals \in Nat

\* No width, and the version that does not parse.
None == 0
Bad  == [width |-> None, look |-> "?"]

Configs  == [width : Widths, look : Looks]
Versions == Configs \cup {Bad}

VARIABLES
  file,         \* the version on the disk
  events,       \* what the directory watch has not delivered
  state,        \* ConfigWatcher.state
  told,         \* the last value on_reload was given
  watcher,      \* its thread: where it is and what it read
  forced,       \* the signal thread
  editor,       \* another process: the document it read, to change and write
  ui,           \* the event loop: idle, or writing the document it read
  cabinet,      \* the width the cabinet stands at
  cabinet_cfg,  \* the settings the cabinet took last
  pending,      \* pending_led_characters
  left,         \* how many edits, drags and signals may still come
  missed        \* what became of writes and reloads, for the properties

diskVars  == <<file, events>>
glassVars == <<cabinet, cabinet_cfg, pending>>
settingsVars == <<diskVars, state, told, watcher, forced, editor, ui, glassVars, left, missed>>

At(place, read) == [pc |-> place, read |-> read]
Idle == At("idle", Bad)

-----------------------------------------------------------------------------

(***************************************************************************)
(* The file. Whoever writes it, the watch on its directory says so, once   *)
(* or more.                                                                *)
(***************************************************************************)
Renamed(v) == file' = v /\ \E n \in 1 .. 2 : events' = events + n

\* A forced reload that has read and not stored will store what was.
Overtaken == IF forced.pc = "store" THEN {"overtaken"} ELSE {}

\* The drag's width is written and no frame has taken it back yet.
Awaited == "awaited" \in missed

EditRead ==
  /\ editor = Idle /\ left.edits > 0 /\ file # Bad
  /\ editor' = At("write", file)
  /\ UNCHANGED <<diskVars, state, told, watcher, forced, ui, glassVars, left, missed>>

\* The settings window names keys; a hand in an editor may leave anything.
EditWrite(v) ==
  /\ left.edits > 0 /\ left' = [left EXCEPT !.edits = @ - 1]
  /\ Renamed(v)
  /\ missed' = missed \cup Overtaken \cup (IF Awaited THEN {"replaced"} ELSE {})
  /\ UNCHANGED <<state, told, watcher, forced, ui, glassVars>>

EditKey ==
  /\ editor # Idle /\ editor' = Idle
  /\ \E v \in Configs : (v.width = editor.read.width \/ v.look = editor.read.look) /\ EditWrite(v)

EditByHand == editor = Idle /\ UNCHANGED editor /\ \E v \in Versions : EditWrite(v)

-----------------------------------------------------------------------------

(***************************************************************************)
(* reload_into: the loader reads; under the lock the value is compared and *)
(* stored; then on_reload runs. The signal's thread does the same with an  *)
(* on_reload that does nothing.                                            *)
(***************************************************************************)
Parses(v) == v # Bad

Stores(v) == Parses(v) /\ v # state

\* It lands on what the last reload stored.
Store(v) == state' = IF Stores(v) THEN v ELSE state

WatchRead ==
  /\ watcher = Idle /\ events > 0 /\ events' = events - 1
  /\ watcher' = At("store", file)
  /\ UNCHANGED <<file, state, told, forced, editor, ui, glassVars, left, missed>>

\* Mutant: on_reload runs for nothing it is not the first to see.
WatchStoreQuietly ==
  /\ watcher.pc = "store"
  /\ Store(watcher.read)
  /\ watcher' = Idle
  /\ UNCHANGED <<diskVars, told, forced, editor, ui, glassVars, left, missed>>

WatchStore ==
  /\ watcher.pc = "store"
  /\ Store(watcher.read)
  /\ watcher' = IF Stores(watcher.read) THEN At("tell", watcher.read) ELSE Idle
  /\ UNCHANGED <<diskVars, told, forced, editor, ui, glassVars, left, missed>>

WatchTell ==
  /\ watcher.pc = "tell" /\ watcher' = Idle
  /\ told' = watcher.read
  /\ UNCHANGED <<diskVars, state, forced, editor, ui, glassVars, left, missed>>

ForceRead ==
  /\ forced = Idle /\ left.signals > 0 /\ left' = [left EXCEPT !.signals = @ - 1]
  /\ forced' = At("store", file)
  /\ UNCHANGED <<diskVars, state, told, watcher, editor, ui, glassVars, missed>>

ForceStore ==
  /\ forced.pc = "store" /\ forced' = Idle
  /\ Store(forced.read)
  /\ missed' = missed \cup (IF Stores(forced.read) THEN {"untold"} ELSE {})
  /\ UNCHANGED <<diskVars, told, watcher, editor, ui, glassVars, left>>

-----------------------------------------------------------------------------
(***************************************************************************)
(* The event loop: a drag of the seam, the write its end makes, a frame.   *)
(***************************************************************************)
\* The cabinet takes the count on the spot; the write waits for the button.
SeamMoved ==
  /\ ui = Idle /\ left.drags > 0 /\ left' = [left EXCEPT !.drags = @ - 1]
  /\ \E w \in Widths \ {cabinet} : cabinet' = w /\ pending' = w
  /\ UNCHANGED <<diskVars, state, told, watcher, forced, editor, ui, cabinet_cfg, missed>>

\* write_key reads the document; one that does not parse is left alone.
SeamReleased ==
  /\ ui = Idle /\ pending # None
  /\ IF file = Bad
     THEN /\ pending' = None /\ missed' = missed \cup {"refused"} /\ UNCHANGED ui
     ELSE /\ ui' = At("write", file) /\ UNCHANGED <<pending, missed>>
  /\ UNCHANGED <<diskVars, state, told, watcher, forced, editor, cabinet, cabinet_cfg, left>>

\* The rename, or the disk's refusal.
WriteKey ==
  /\ ui # Idle /\ ui' = Idle /\ pending' = None
  /\ \/ /\ Renamed([ui.read EXCEPT !.width = pending])
        /\ missed' = missed \cup Overtaken \cup {"awaited"}
     \/ UNCHANGED diskVars /\ missed' = missed \cup {"refused"}
  /\ UNCHANGED <<state, told, watcher, forced, editor, cabinet, cabinet_cfg, left>>

\* Mutant: the settings are noted and the cabinet not re-measured.
FrameNotesOnly ==
  /\ ui = Idle /\ state # cabinet_cfg
  /\ cabinet_cfg' = state
  /\ UNCHANGED <<diskVars, state, told, watcher, forced, editor, ui, cabinet, pending, left, missed>>

\* apply_live_settings: the snapshot as it stands, where it moved.
Frame ==
  /\ ui = Idle /\ state # cabinet_cfg
  /\ cabinet_cfg' = state /\ cabinet' = state.width
  /\ missed' = IF state.width = cabinet THEN missed \ {"awaited"} ELSE missed
  /\ UNCHANGED <<diskVars, state, told, watcher, forced, editor, ui, pending, left>>

-----------------------------------------------------------------------------
SettingsInit ==
  /\ file \in Configs /\ events = 0
  /\ state = file /\ told = file /\ cabinet_cfg = file /\ cabinet = file.width
  /\ watcher = Idle /\ forced = Idle
  /\ editor = Idle /\ ui = Idle /\ pending = None
  /\ left = [edits |-> Edits, drags |-> Drags, signals |-> Signals]
  /\ missed = {}

Edit   == EditRead \/ EditKey \/ EditByHand
Watch  == WatchRead \/ WatchStore \/ WatchTell
Signal == ForceRead \/ ForceStore
Loop   == SeamMoved \/ SeamReleased \/ WriteKey \/ Frame
SettingsNext   == Edit \/ Watch \/ Signal \/ Loop

SettingsSpec == SettingsInit /\ [][SettingsNext]_settingsVars

\* The threads run, a pressed button comes up, a write ends, frames are drawn.
FairSettings == /\ SettingsSpec /\ WF_settingsVars(Watch) /\ WF_settingsVars(ForceStore)
            /\ SF_settingsVars(SeamReleased) /\ WF_settingsVars(WriteKey) /\ SF_settingsVars(Frame)

-----------------------------------------------------------------------------
(***************************************************************************)
(* What must hold.                                                         *)
(***************************************************************************)
\* The types: a file that does not parse never becomes the settings.
SettingsTypeOK ==
  /\ file \in Versions /\ state \in Configs /\ told \in Configs /\ cabinet_cfg \in Configs
  /\ \A who \in {watcher, forced, editor, ui} : who.pc # "idle" => who.read \in Versions
  /\ cabinet \in Widths /\ pending \in Widths \cup {None}
  /\ events \in 0 .. 2 * (Edits + Drags)

\* "kept fresh by the background watch" (watch.rs): once the file rests, and
\* it parses, the snapshot is what it says, whatever was read in between, but
\* for a forced reload that a write overtook.
SnapshotFollows == <>[](file # Bad /\ "overtaken" \notin missed => state = file)

\* on_reload was told what the snapshot holds, but for what a signal stored.
ChangesAreTold ==
  watcher.pc # "tell" /\ "untold" \notin missed => told = state

\* The two of every state.
SettingsSound == SettingsTypeOK /\ ChangesAreTold

\* A drag the user let go of ends where the settings are: its own write comes
\* back, or a frame takes what another writer made of the width. What can keep
\* the two apart is a write refused, one replaced before a frame took it back,
\* and a forced reload that a write overtook.
CabinetFollows ==
  <>[](missed \cap {"refused", "replaced", "overtaken"} = {} => cabinet = state.width)

\* Together: file, snapshot and glass end as one.
SettingsSettle == SnapshotFollows /\ CabinetFollows
=============================================================================
