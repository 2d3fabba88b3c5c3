-------------------------------- MODULE Clock -------------------------------
(***************************************************************************)
(* When a window draws: the turn of the event loop (app/window/mod.rs,     *)
(* tick; app/shell.rs, about_to_wait), the frames it asks for, and the     *)
(* critters that cross the glass unasked (critters/src/schedule.rs).       *)
(*                                                                         *)
(* Deadlines are what is left of them, ages what has gone by; a unit of    *)
(* time is as long as the loop sleeps, since it wakes to poll. An effects  *)
(* frame, the output governor and a critter's step each have their own     *)
(* deadline, and a frame asked for may not be had (GpuContext::acquire).   *)
(*                                                                         *)
(* Left out: the title's roll, the wheel's glide, the badges, synchronised *)
(* updates, critters switched off while they cross.                        *)
(***************************************************************************)
EXTENDS Integers

CONSTANTS
  UNATTENDED_AFTER,    \* how long untouched before nobody is there
  EFFECTS_BASE_FRAME,  \* the governor's frame
  FrameSkip,           \* base frames to an effects frame
  Every, PerDay,       \* how long an interval is, and how many to a day
  JOINED,              \* how late an interval may be joined
  StepMs, LastStep,    \* how long a step takes, and the step that is off the far edge
  Jitter,              \* arrivals are placed at random in their interval
  MaxSkips             \* bound: frames not had

ASSUME ClockAssumption ==
  /\ {UNATTENDED_AFTER, EFFECTS_BASE_FRAME, FrameSkip, Every, PerDay, JOINED, StepMs} \subseteq Nat \ {0}
  /\ LastStep \in Nat /\ MaxSkips \in Nat /\ Jitter \in BOOLEAN

VARIABLES
  focused, untouched, unattended,   \* who is there, as of now and as of the last turn
  effects,     \* time to the next effects frame, or Never
  governor,    \* time before output may ask again
  arrived, pending,                 \* output not read yet; read and not asked for
  redraw,      \* a redraw is asked of the window
  turning,     \* the loop is awake and has a turn to take
  day,         \* the interval of the day, and how far into it
  critters,    \* Critters: planned, due, active, cells
  picture,     \* for the properties: what the last frame drew, and how old it is
  seen         \* for the properties: since when somebody has been watching

clockVars == <<focused, untouched, unattended, effects, governor, arrived, pending,
               redraw, turning, day, critters, picture, seen>>

attention == <<focused, untouched, unattended>>

Never    == -1
Interval == EFFECTS_BASE_FRAME * FrameSkip
CrossingTime == StepMs * LastStep

Up(n, limit) == IF n < limit THEN n + 1 ELSE limit
Down(n)      == IF n > 0 THEN n - 1 ELSE n

-----------------------------------------------------------------------------
(***************************************************************************)
(* Critters. `active` is the step last painted and the crossing's age.     *)
(***************************************************************************)
NoCrossing == [step |-> Never, age |-> 0]
Crossing(c) == c.active # NoCrossing

\* A box at step 0 is off the near edge, at LastStep off the far one.
Painted(active) == IF active.step \in 1 .. LastStep - 1 THEN active.step ELSE 0

Stepped(c) ==
  LET step == c.active.age \div StepMs
  IN  [c EXCEPT !.active = IF step >= LastStep THEN NoCrossing ELSE [@ EXCEPT !.step = step]]

\* Mutant: an interval not caught at its mark is joined late.
PlannedOnTheMark(c, offset) ==
  IF c.planned = day.index THEN c
  ELSE [c EXCEPT !.planned = day.index, !.due = IF day.into = 0 THEN offset ELSE Never]

\* Mutant: an interval joined late brings its critter late.
PlannedAlways(c, offset) ==
  IF c.planned = day.index THEN c ELSE [c EXCEPT !.planned = day.index, !.due = offset]

\* An interval joined late brings nothing.
Planned(c, offset) ==
  IF c.planned = day.index THEN c
  ELSE [c EXCEPT !.planned = day.index, !.due = IF day.into < JOINED THEN offset ELSE Never]

Arrived(c) ==
  IF c.due # Never /\ day.into >= c.due
  THEN [c EXCEPT !.due = Never, !.active = [step |-> 0, age |-> 0]]
  ELSE c

\* advance: the crossing in hand, or the interval's critter.
Advance(c, offset) == IF Crossing(c) THEN Stepped(c) ELSE Arrived(Planned(c, offset))

Ticked(c, offset) == LET n == Advance(c, offset) IN [n EXCEPT !.cells = Painted(n.active)]

\* Mutant: the crossing is stopped and its cells stay.
WithdrawnLater(c) == [c EXCEPT !.active = NoCrossing]

\* withdraw: the crossing and its cells, not the arrival that is due.
Withdrawn(c) == [c EXCEPT !.active = NoCrossing, !.cells = 0]

\* wake_at is past: the next step of the crossing in hand. An arrival's is
\* always ahead.
StepDue(c) == Crossing(c) /\ (c.active.step + 1) * StepMs <= c.active.age

-----------------------------------------------------------------------------
(***************************************************************************)
(* tick: what this turn asks a frame for.                                  *)
(***************************************************************************)
Unattended == ~focused \/ untouched >= UNATTENDED_AFTER

EffectsDue == ~Unattended /\ effects <= 0

CritterDue == IF Unattended THEN critters.cells # 0 ELSE StepDue(critters)

OutputDue == (pending \/ arrived) /\ (governor = 0 \/ EffectsDue)

\* Mutant: output between two frames is forgotten.
PendingForgotten == FALSE

StillPending == (pending \/ arrived) /\ ~OutputDue

NextEffects == IF Unattended THEN Never ELSE IF EffectsDue THEN Interval ELSE effects

Tick ==
  /\ turning /\ turning' = FALSE
  /\ unattended' = Unattended
  /\ effects' = NextEffects
  /\ critters' = IF Unattended THEN Withdrawn(critters) ELSE critters
  /\ pending' = StillPending /\ arrived' = FALSE
  /\ governor' = IF OutputDue THEN EFFECTS_BASE_FRAME ELSE governor
  /\ redraw' = (redraw \/ EffectsDue \/ CritterDue \/ OutputDue)
  /\ UNCHANGED <<focused, untouched, day, picture, seen>>

\* draw_frame, on a frame that was had. The attention it goes by is the last
\* turn's.
Draw ==
  /\ redraw /\ redraw' = FALSE
  /\ \E offset \in IF Jitter THEN 0 .. Every - 1 ELSE {0} :
       critters' = IF unattended THEN Withdrawn(critters) ELSE Ticked(critters, offset)
  /\ picture' = [picture EXCEPT !.cells = critters'.cells, !.age = 0, !.unread = IF arrived THEN 0 ELSE Never, !.missed = FALSE]
  /\ seen' = [seen EXCEPT !.owed = @ /\ ~Crossing(critters')]
  /\ UNCHANGED <<attention, effects, governor, arrived, pending, turning, day>>

\* No frame to be had: the picture stands, and nothing asks again.
Skip ==
  /\ redraw /\ redraw' = FALSE
  /\ picture.skips < MaxSkips
  /\ picture' = [picture EXCEPT !.missed = TRUE, !.skips = @ + 1]
  /\ seen' = [seen EXCEPT !.owed = FALSE]
  /\ UNCHANGED <<attention, effects, governor, arrived, pending, turning, day, critters>>

-----------------------------------------------------------------------------

(***************************************************************************)
(* What wakes the loop.                                                    *)
(***************************************************************************)
DropDeadline == Never

\* A key, a click, the wheel: attended. A click asks for a frame of its own.
Touched ==
  /\ untouched' = 0 /\ effects' = DropDeadline /\ turning' = TRUE
  /\ redraw' \in {redraw, TRUE}
  /\ UNCHANGED <<focused, unattended, governor, arrived, pending, day, critters, picture, seen>>

FocusGained ==
  /\ ~focused /\ focused' = TRUE /\ untouched' = 0 /\ effects' = DropDeadline /\ turning' = TRUE
  /\ UNCHANGED <<unattended, governor, arrived, pending, redraw, day, critters, picture, seen>>

FocusLost ==
  /\ focused /\ focused' = FALSE /\ turning' = TRUE
  /\ UNCHANGED <<untouched, unattended, effects, governor, arrived, pending, redraw, day, critters, picture, seen>>

\* Output is there to be read when the loop polls.
OutputArrives ==
  /\ turning /\ ~arrived /\ arrived' = TRUE
  /\ picture' = [picture EXCEPT !.unread = IF @ = Never THEN 0 ELSE @]
  /\ UNCHANGED <<attention, effects, governor, pending, redraw, turning, day, critters, seen>>

\* The loop sleeps until it polls; a frame asked for comes first.
Sleep ==
  /\ ~turning /\ ~redraw /\ turning' = TRUE
  /\ untouched' = Up(untouched, UNATTENDED_AFTER)
  /\ effects' = Down(effects) /\ governor' = Down(governor)
  /\ day' = IF day.into + 1 < Every THEN [day EXCEPT !.into = @ + 1]
            ELSE [index |-> (day.index + 1) % PerDay, into |-> 0]
  /\ critters' = IF Crossing(critters) THEN [critters EXCEPT !.active.age = Up(@, CrossingTime)] ELSE critters
  /\ picture' = [picture EXCEPT !.age = Up(@, Interval + 2),
                                !.unread = IF @ = Never THEN @ ELSE Up(@, EFFECTS_BASE_FRAME + 2)]
  /\ seen' = [seen EXCEPT
                !.watching = IF Unattended THEN 0 ELSE Up(@, Every),
                !.owed = IF day'.into = 0 THEN ~Unattended /\ ~Crossing(critters) /\ critters.planned # day'.index
                         ELSE @ /\ ~Unattended]
  /\ UNCHANGED <<focused, unattended, arrived, pending, redraw>>

-----------------------------------------------------------------------------
ClockInit ==
  /\ focused = TRUE /\ untouched = 0 /\ unattended = FALSE
  /\ effects = Never /\ governor = 0 /\ arrived = FALSE /\ pending = FALSE
  /\ redraw = FALSE /\ turning = TRUE
  /\ day \in [index : 0 .. PerDay - 1, into : 0 .. Every - 1]
  /\ critters = [planned |-> Never, due |-> Never, active |-> NoCrossing, cells |-> 0]
  /\ picture = [cells |-> 0, unread |-> Never, age |-> 0, missed |-> FALSE, skips |-> 0]
  /\ seen = [watching |-> 0, owed |-> FALSE]

ClockNext == Tick \/ Draw \/ Skip \/ Touched \/ FocusGained \/ FocusLost \/ OutputArrives \/ Sleep

ClockSpec == ClockInit /\ [][ClockNext]_clockVars

\* The loop turns, draws what is asked for, and time goes by.
FairClock == ClockSpec /\ WF_clockVars(Tick) /\ WF_clockVars(Draw) /\ WF_clockVars(Sleep)

-----------------------------------------------------------------------------
(***************************************************************************)
(* What must hold. Until a frame is missed, as far as frames go.           *)
(***************************************************************************)
Resting == ~turning /\ ~redraw

\* The types; what has been taken off leaves no cells.
ClockTypeOK ==
  /\ effects \in {Never} \cup 0 .. Interval /\ governor \in 0 .. EFFECTS_BASE_FRAME
  /\ critters.planned \in {Never} \cup 0 .. PerDay - 1 /\ critters.due \in {Never} \cup 0 .. Every - 1
  /\ critters.cells \in 0 .. LastStep /\ critters.active.age \in 0 .. CrossingTime
  /\ ~Crossing(critters) => critters.cells = 0

\* "A byte that arrives between frames waits for the next one, never longer",
\* whoever is or is not there.
OutputWaitsAFrame == Resting /\ ~picture.missed => picture.unread <= EFFECTS_BASE_FRAME

\* While somebody is there the picture is never older than the effects allow.
TubeKeepsTurning == Resting /\ ~Unattended /\ ~picture.missed => picture.age <= Interval

\* "Leaves nothing behind once it has stopped drawing": a picture that is held
\* has no critter in it.
HeldPictureIsTheSessions == Resting /\ unattended /\ ~picture.missed => picture.cells = 0

\* Together: at rest, what is on the glass is as new as whoever is there needs.
PictureKeepsUp ==
  ClockTypeOK /\ OutputWaitsAFrame /\ TubeKeepsTurning /\ HeldPictureIsTheSessions

\* "A moment nobody saw is missed rather than owed": a critter comes no more
\* than JOINED after it was due, but for the time somebody has been watching.
DueAt == IF critters.planned = day.index /\ critters.due # Never THEN critters.due ELSE 0
MissedIsMissed ==
  [][~Crossing(critters) /\ Crossing(critters)' => day.into - DueAt < seen.watching + JOINED]_clockVars

\* One critter per interval: an interval that began with somebody watching and
\* none crossing has brought its critter before it is too late to join, while
\* they go on watching. (Not where the interval of another day bore its number
\* and was the last one planned for: the code tells them apart by that.)
WatchedIntervalBrings == Resting /\ day.into >= JOINED => ~seen.owed

\* Together: when a critter comes, and that it does.
CrittersKeepTime == MissedIsMissed /\ []WatchedIntervalBrings

\* A picture nobody watches comes to rest: nothing asks for frames for ever.
Deserted == untouched = UNATTENDED_AFTER /\ ~arrived
DesertedRests == <>[]Deserted => <>[]~redraw
=============================================================================
