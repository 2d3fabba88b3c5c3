------------------------------ MODULE Keyboard ------------------------------
(***************************************************************************)
(* What takes the keyboard before the channel on the air does, over the    *)
(* channel set: the destination picker (app/src/window/picker.rs), a page  *)
(* on a home slot, and the find line (app/src/window/prompt.rs), a query   *)
(* painted on a channel's own grid. Both remember a slot and not a row.    *)
(*                                                                         *)
(* key_input (app/src/window/keys.rs) asks in order: the window's          *)
(* shortcuts, the picker, a question, the find line, the channel.          *)
(***************************************************************************)
EXTENDS Channels

VARIABLES
  picker,   \* the slot of the page while the picker stands, 0 when it does not
  find,     \* the pair the find line was raised on; and, for the properties,
            \* the screen that was there
  pages     \* the screens raised as a page and still in a slot

keyboardVars == <<picker, find, pages>>

NoFind == [on |-> NoPair, screen |-> Dark]

KeyboardInit == picker = 0 /\ find = NoFind /\ pages = {}

-----------------------------------------------------------------------------
(***************************************************************************)
(* The picker. These end in channel_changed.                               *)
(***************************************************************************)
PageRow == <<0, picker>>
\* The keyboard is the picker's.
OnPage == picker # 0 /\ OnAir(set) = PageRow

\* Shift+Alt+T: back to the row on the page's slot, else a page on a free slot.
OpenPicker ==
  /\ On
  /\ \/ /\ PageRow \in Rows(set)
        /\ set' = SetCurrent(set, PageRow)
        /\ UNCHANGED <<picker, pages>>
     \/ /\ PageRow \notin Rows(set)
        /\ picker' = FirstFree(set, 0)
        /\ IF picker' = 0 THEN UNCHANGED <<set, pages>>
           ELSE \E s \in Fresh :
                  pages' = pages \cup {s} /\ set' = OpenChannel(set, picker', s)
  /\ UNCHANGED find

\* The page comes down by the ordinary close of its slot.
Retire(S) ==
  /\ CloseRow(S, PageRow)
  /\ picker' = 0
  /\ UNCHANGED <<find, pages>>

\* `1`: a shell on the first free home slot, then the page goes.
ChooseLocalhost ==
  /\ power = "on"
  /\ OnPage
  /\ LET c == FirstFree(set, 0) IN
     \/ c # 0 /\ \E s \in Fresh : Retire(OpenChannel(set, c, s))
     \/ Retire(set)      \* no free slot, or the shell refused

\* `2`..`9`: a connection on a bank of its own, then the page goes.
ChooseHost ==
  /\ power = "on"
  /\ OnPage
  /\ \/ CanRaise /\ \E s \in Fresh : Retire(OpenSshBank(set, s))
     \/ Retire(set)      \* the connection could not be started

Cancel == power = "on" /\ OnPage /\ Retire(set)

PickerCall == OpenPicker \/ ChooseLocalhost \/ ChooseHost \/ Cancel

-----------------------------------------------------------------------------
(***************************************************************************)
(* The find line, and a key that is nobody's. These leave the air alone.   *)
(***************************************************************************)
\* Ctrl+Shift+F: one line at a time, over a channel that is there.
OpenFind ==
  /\ On
  /\ find = NoFind
  /\ OnAir(set) \in Rows(set)
  /\ find' = [on |-> OnAir(set), screen |-> set.row[OnAir(set)]]
  /\ UNCHANGED <<set, picker, pages>>

\* A picker off the air whose slot went dark is forgotten by the next key.
Remembered == IF PageRow \in Rows(set) THEN picker ELSE 0

\* Escape with the line standing on the channel on the air. A question on the
\* channel takes the key first.
FindEscape ==
  /\ On
  /\ ~OnPage /\ find.on = OnAir(set) /\ find # NoFind
  /\ picker' = Remembered
  /\ find' = NoFind
  /\ UNCHANGED <<set, pages>>

\* Any other key that is no shortcut: the find line's if it stands on the channel
\* on the air, a question's if one stands there, else the row's.
Key ==
  /\ On
  /\ ~OnPage
  /\ picker' = Remembered
  /\ \/ UNCHANGED set
     \/ find.on # OnAir(set) /\ set' = [set EXCEPT !.attachmentEnded = @ \ {OnAir(set)}]
  /\ UNCHANGED <<find, pages>>

-----------------------------------------------------------------------------

(***************************************************************************)
(* "The replacement stands before the page goes, so closing the page is    *)
(* never closing the last channel": no step both opens a channel and ends  *)
(* the window, and choosing a destination ends it only when none came      *)
(* (picker_key, close_channel).                                            *)
(***************************************************************************)
ReplacementFirst ==
  [][power = "on" /\ power' = "closing" => Rows(set') \subseteq Rows(set)]_<<vars, keyboardVars>>
=============================================================================
