------------------------------ MODULE Channels ------------------------------
(***************************************************************************)
(* The channel set of one window (crates/app/src/channels.rs): numbered    *)
(* slots on banks, which slot is on the air, and what moves when a channel *)
(* is opened, closed, stored, or when a whole bank comes or goes.          *)
(*                                                                         *)
(* The set is one record, the Rust struct's fields; each transition of the *)
(* struct is an operator from a set to a set, so a handler that makes two  *)
(* calls composes two operators, and an action of the module is one call.  *)
(*                                                                         *)
(* Left out: titles and hosts (wording), the `stored` acknowledgements     *)
(* (written by a store, read by nothing in the program).                   *)
(***************************************************************************)
EXTENDS Integers, FiniteSetsExt

CONSTANTS
  CHANNEL_CAP,  \* the last slot a panel can name (99 in the program)
  MaxBank,      \* bound: the largest bank id handed out (u32 in the program)
  Session,      \* what a slot can hold: a shell, an SSH channel, a pane's screen
  Dark          \* the content of a slot with no session

ASSUME ChannelsAssumption ==
  /\ CHANNEL_CAP \in Nat \ {0}
  /\ MaxBank \in Nat
  /\ Dark \notin Session

BankId == 0 .. MaxBank
Slot   == 1 .. CHANNEL_CAP
Pair   == BankId \X Slot
NoPair == <<0, 0>>      \* names no row: slot 0 does not exist
None   == -1            \* no window asked for
Pending == Slot \cup {0, None}
Managers == {"none", "home", "tmux", "ssh"}   \* "none": the list holds no such bank

VARIABLES
  set,    \* the Channels struct
  power   \* "off" before the first channel, "on", "closing" once the window is to go

vars == <<set, power>>

Sets ==
  [manager          : [BankId -> Managers],
   carrier          : [BankId -> Pair \cup {NoPair}],
   newWindowPending : [BankId -> Pending],
   channel          : [BankId -> Slot],
   row              : [Pair -> Session \cup {Dark}],
   attachmentEnded  : SUBSET Pair,
   nextBankId       : 1 .. MaxBank + 1,
   currentBank      : BankId,
   degaussArmed     : BOOLEAN,
   degaussPending   : BOOLEAN]

(***************************************************************************)
(* Reading the state.                                                      *)
(***************************************************************************)
Held(S, b)   == S.manager[b] # "none"
Open(S, p)   == S.row[p] # Dark
Rows(S)      == {p \in Pair : Open(S, p)}
Slots(S, b)  == {c \in Slot : Open(S, <<b, c>>)}
InUse(S)     == {S.row[p] : p \in Rows(S)}

\* The channel reads 0 while the current bank id names no bank.
OnAir(S) == <<S.currentBank, IF Held(S, S.currentBank) THEN S.channel[S.currentBank] ELSE 0>>

CarriedBanks(S, p) == {k \in BankId : S.carrier[k] = p}
IsCarrier(S, p)    == p # NoPair /\ CarriedBanks(S, p) # {}

FirstFree(S, b) ==
  LET free == Slot \ Slots(S, b) IN IF free = {} THEN 0 ELSE Min(free)

NextSlot(S, b) ==
  LET from  == IF Held(S, b) THEN S.channel[b] ELSE 1
      above == {n \in Slot \ Slots(S, b) : n >= from}
  IN  IF above = {} THEN FirstFree(S, b) ELSE Min(above)

(***************************************************************************)
(* The order rows are kept in, and the row nearest a hole: of the bank's   *)
(* own rows if it has any, else of all; the first past the hole, else the  *)
(* last before it.                                                         *)
(***************************************************************************)
Before(p, q) == p[1] < q[1] \/ (p[1] = q[1] /\ p[2] < q[2])
FirstOf(R)   == CHOOSE p \in R : \A q \in R : q # p => Before(p, q)
LastOf(R)    == CHOOSE p \in R : \A q \in R : q # p => Before(q, p)

NearestRow(R, hole, b) ==
  LET own   == {p \in R : p[1] = b}
      from  == IF own = {} THEN R ELSE own
      after == {p \in from : Before(hole, p)}
  IN  IF after = {} THEN LastOf(from) ELSE FirstOf(after)

(***************************************************************************)
(* The one writer of the pair on the air.                                  *)
(***************************************************************************)
SetCurrent(S, p) ==
  [S EXCEPT !.currentBank    = p[1],
            !.channel[p[1]]  = IF Held(S, p[1]) THEN p[2] ELSE @,
            !.degaussPending = @ \/ (p # OnAir(S) /\ S.degaussArmed)]

SelectBank(S, b) ==
  LET remembered == <<b, S.channel[b]>>
      landing    == IF Open(S, remembered) \/ Slots(S, b) = {}
                    THEN remembered
                    ELSE <<b, Min(Slots(S, b))>>
  IN  SetCurrent(S, landing)

(***************************************************************************)
(* Opening.                                                                *)
(***************************************************************************)
InsertRow(S, p, s)  == [S EXCEPT !.row[p] = s]
OpenChannel(S, c, s) == SetCurrent(InsertRow(S, <<0, c>>, s), <<0, c>>)

AskForWindow(S, b, slot) == [S EXCEPT !.newWindowPending[b] = slot]

\* The slot a window of bank b lands on: the one asked for, else the one tmux
\* remembers for it, each only while free; 0 when the bank is full.
WindowSlot(S, b, remembered) ==
  LET asked   == S.newWindowPending[b]
      free(c) == c \in Slot \ Slots(S, b)
  IN  CASE asked # None /\ free(asked)      -> asked
        [] asked = None /\ free(remembered) -> remembered
        [] OTHER                            -> FirstFree(S, b)

\* Mutant: a full bank's window is placed all the same.
OpenTmuxWindowUnchecked(S, b, s, remembered) ==
  LET p     == <<b, WindowSlot(S, b, remembered)>>
      taken == [S EXCEPT !.newWindowPending[b] = None]
  IN  IF S.newWindowPending[b] # None THEN SetCurrent(InsertRow(taken, p, s), p)
      ELSE InsertRow(taken, p, s)

\* Mutant: any window takes the air.
OpenTmuxWindowGreedy(S, b, s, remembered) ==
  LET p     == <<b, WindowSlot(S, b, remembered)>>
      taken == [S EXCEPT !.newWindowPending[b] = None]
  IN  IF p[2] = 0 THEN taken ELSE SetCurrent(InsertRow(taken, p, s), p)

\* Whatever arrives next answers the request, even a window refused a slot.
OpenTmuxWindow(S, b, s, remembered) ==
  LET c     == WindowSlot(S, b, remembered)
      taken == [S EXCEPT !.newWindowPending[b] = None]
      lit   == InsertRow(taken, <<b, c>>, s)
  IN  IF c = 0 THEN taken
      ELSE IF S.newWindowPending[b] # None THEN SetCurrent(lit, <<b, c>>)
      ELSE lit

SettleOnOpenRow(S, b) ==
  IF \/ S.newWindowPending[b] # None
     \/ S.currentBank # b
     \/ Open(S, <<b, S.channel[b]>>)
     \/ Slots(S, b) = {}
  THEN S
  ELSE SelectBank(S, b)

(***************************************************************************)
(* Closing.                                                                *)
(***************************************************************************)
Forget(S, b) ==
  [S EXCEPT !.manager[b] = "none", !.carrier[b] = NoPair,
            !.newWindowPending[b] = None, !.channel[b] = 1]

\* Mutant: only home rows anchor.
AnchoredAtHome(S) == {p \in Rows(S) : S.manager[p[1]] = "home"}

Anchored(S) == {p \in Rows(S) : S.manager[p[1]] \in {"home", "ssh"}}
OneAnchored(S) == \A p, q \in Anchored(S) : p = q

RemoveRow(S, p) ==
  LET gone   == [S EXCEPT !.row[p] = Dark, !.attachmentEnded = @ \ {p}]
      landed == IF OnAir(S) = p /\ Rows(gone) # {}
                THEN SetCurrent(gone, NearestRow(Rows(gone), p, p[1]))
                ELSE gone
  IN  IF S.manager[p[1]] = "ssh" /\ Slots(gone, p[1]) = {}
      THEN Forget(landed, p[1])
      ELSE landed

\* Mutant: the air is left where it was.
CollapseUnseen(S, k, reason) ==
  Forget([S EXCEPT !.row = [p \in Pair |-> IF p[1] = k THEN Dark ELSE S.row[p]]], k)

\* `reason` says whether the end came with words; the carrier keeps them, or
\* loses older ones.
CollapseBank(S, k, reason) ==
  LET carrier == S.carrier[k]
      stands  == carrier # NoPair /\ Open(S, carrier) /\ carrier[1] # k
      swept   == [S EXCEPT
                    !.row = [p \in Pair |-> IF p[1] = k THEN Dark ELSE S.row[p]],
                    !.attachmentEnded =
                        LET kept == {p \in @ : p[1] # k}
                        IN  IF ~stands THEN kept
                            ELSE IF reason THEN kept \cup {carrier} ELSE kept \ {carrier}]
      gone    == Forget(swept, k)
      hole    == IF Slots(S, k) = {} THEN NoPair ELSE <<k, 0>>
  IN  IF S.currentBank # k THEN gone
      ELSE IF stands THEN SetCurrent(gone, carrier)
      ELSE IF Rows(gone) # {} THEN SetCurrent(gone, NearestRow(Rows(gone), hole, 0))
      ELSE gone

\* A dead carrier takes the attachment it carried down first.
CarrierDown(S, p) ==
  IF IsCarrier(S, p)
  THEN CollapseBank(S, CHOOSE k \in CarriedBanks(S, p) : TRUE, FALSE)
  ELSE S

(***************************************************************************)
(* Storing and cycling.                                                    *)
(***************************************************************************)
\* Mutant: a store may displace a carrier.
CanStoreOnCarrier(S, b, c) ==
  /\ b = S.currentBank
  /\ c # OnAir(S)[2]
  /\ OnAir(S) \in Rows(S)
  /\ ~IsCarrier(S, OnAir(S))

CanStore(S, b, c) ==
  /\ b = S.currentBank
  /\ c # OnAir(S)[2]
  /\ OnAir(S) \in Rows(S)
  /\ ~IsCarrier(S, OnAir(S))
  /\ ~IsCarrier(S, <<b, c>>)

\* Mutants: what stood on the slot is dropped; the tube flinches at the move.
MoveOver(S, b, c) ==
  SetCurrent([S EXCEPT !.row = [@ EXCEPT ![OnAir(S)] = Dark, ![<<b, c>>] = S.row[OnAir(S)]]],
             <<b, c>>)

MoveFlinching(S, b, c) ==
  SetCurrent([S EXCEPT !.row = [@ EXCEPT ![OnAir(S)] = S.row[<<b, c>>],
                                         ![<<b, c>>] = S.row[OnAir(S)]]], <<b, c>>)

\* Exchange what two slots of a bank hold; the tube holds steady throughout.
MoveCurrentTo(S, b, c) ==
  LET from  == OnAir(S)
      to    == <<b, c>>
      other(p) == IF p = from THEN to ELSE IF p = to THEN from ELSE p
      moved == [S EXCEPT !.row = [p \in Pair |-> S.row[other(p)]],
                         !.attachmentEnded = {p \in Pair : other(p) \in @},
                         !.degaussArmed = FALSE]
  IN  [SetCurrent(moved, to) EXCEPT !.degaussArmed = S.degaussArmed]

\* The next open slot of the current bank in the direction turned, wrapping.
CycleSlot(S, up) ==
  LET slots  == Slots(S, S.currentBank)
      beyond == {c \in slots : IF up THEN c > OnAir(S)[2] ELSE c < OnAir(S)[2]}
      from   == IF beyond = {} THEN slots ELSE beyond
  IN  IF up THEN Min(from) ELSE Max(from)

(***************************************************************************)
(* Raising a bank.                                                         *)
(***************************************************************************)
PushBank(S, manager, carrier) ==
  [S EXCEPT !.manager[S.nextBankId] = manager,
            !.carrier[S.nextBankId] = carrier,
            !.nextBankId = @ + 1]

AttachOver(S, p) ==
  LET raised == PushBank(S, "tmux", p)
  IN  IF OnAir(S) = p THEN SetCurrent(raised, <<S.nextBankId, 1>>) ELSE raised

OpenSshBank(S, s) ==
  LET first == <<S.nextBankId, 1>>
  IN  SetCurrent(InsertRow(PushBank(S, "ssh", NoPair), first, s), first)

-----------------------------------------------------------------------------
(***************************************************************************)
(* The calls. A spawn that is refused leaves every one of them without     *)
(* effect, so only the start, which arms the tube either way, says so.     *)
(***************************************************************************)
New ==
  [manager          |-> [b \in BankId |-> IF b = 0 THEN "home" ELSE "none"],
   carrier          |-> [b \in BankId |-> NoPair],
   newWindowPending |-> [b \in BankId |-> None],
   channel          |-> [b \in BankId |-> 1],
   row              |-> [p \in Pair |-> Dark],
   attachmentEnded  |-> {},
   nextBankId       |-> 1,
   currentBank      |-> 0,
   degaussArmed     |-> FALSE,
   degaussPending   |-> FALSE]

Started(S) == [S EXCEPT !.degaussArmed = TRUE, !.degaussPending = FALSE]

Init == set = New /\ power = "off"

On      == power = "on" /\ UNCHANGED power
Fresh   == Session \ InUse(set)
CanRaise == set.nextBankId <= MaxBank

Start ==
  /\ power = "off"
  /\ power' = "on"
  /\ \/ \E s \in Fresh : set' = Started(OpenChannel(set, 1, s))
     \/ \E s \in Fresh : CanRaise /\ set' = Started(OpenSshBank(set, s))
     \/ set' = Started(set)

TakeDegauss ==
  /\ On
  /\ set.degaussPending
  /\ set' = [set EXCEPT !.degaussPending = FALSE]

\* A shell on a dark home slot: Ctrl+Shift+T, a press on the slot, the picker.
OpenHome(c) ==
  /\ On
  /\ ~Open(set, <<0, c>>)
  /\ \E s \in Fresh : set' = OpenChannel(set, c, s)

\* Ctrl+Shift+T with bank b on view.
NewChannel(b) ==
  /\ On
  /\ set.manager[b] \in {"home", "tmux"}
  /\ IF set.manager[b] = "tmux"
     THEN set' = AskForWindow(set, b, NextSlot(set, b))
     ELSE /\ NextSlot(set, 0) # 0
          /\ \E s \in Fresh : set' = OpenChannel(set, NextSlot(set, 0), s)

AskSlot(b, c) ==
  /\ On
  /\ set.manager[b] = "tmux"
  /\ ~Open(set, <<b, c>>)
  /\ set' = AskForWindow(set, b, c)

WindowOpened(b, remembered) ==
  /\ On
  /\ set.manager[b] = "tmux"
  /\ \E s \in Fresh : set' = OpenTmuxWindow(set, b, s, remembered)

Settle(b) ==
  /\ On
  /\ set.manager[b] = "tmux"
  /\ set' = SettleOnOpenRow(set, b)

OpenSsh ==
  /\ On
  /\ CanRaise
  /\ \E s \in Fresh : set' = OpenSshBank(set, s)

OpenSshChannel(b, c) ==
  /\ On
  /\ set.manager[b] = "ssh"
  /\ ~Open(set, <<b, c>>)
  /\ \E s \in Fresh : set' = SetCurrent(InsertRow(set, <<b, c>>, s), <<b, c>>)

\* Mutant: a carrier closes like any row.
CloseAnyRow(S, p) ==
  IF p \notin Rows(S) \/ S.manager[p[1]] = "tmux"
  THEN set' = S /\ UNCHANGED power
  ELSE IF OneAnchored(S)
  THEN set' = S /\ power' = "closing"
  ELSE set' = RemoveRow(S, p) /\ UNCHANGED power

\* The user's close of a row of set S. Nothing for a dark slot or a carrier; a
\* tmux window is tmux's to kill.
CloseRow(S, p) ==
  IF p \notin Rows(S) \/ IsCarrier(S, p) \/ S.manager[p[1]] = "tmux"
  THEN set' = S /\ UNCHANGED power
  ELSE IF OneAnchored(S)
  THEN set' = S /\ power' = "closing"
  ELSE set' = RemoveRow(S, p) /\ UNCHANGED power

CloseChannel == power = "on" /\ CloseRow(set, OnAir(set))

\* A row's own program died. Pane screens have no program of their own.
SessionDied(p) ==
  LET down == CarrierDown(set, p) IN
  /\ power = "on"
  /\ Open(set, p)
  /\ set.manager[p[1]] # "tmux"
  /\ IF OneAnchored(down)
     THEN power' = "closing" /\ set' = down
     ELSE set' = RemoveRow(down, p) /\ UNCHANGED power

WindowClosed(b, c) ==
  /\ On
  /\ set.manager[b] = "tmux"
  /\ Open(set, <<b, c>>)
  /\ set' = RemoveRow(set, <<b, c>>)

Select(p) ==
  /\ On
  /\ Open(set, p)
  /\ set' = SetCurrent(set, p)

TurnToBank(b) ==
  /\ On
  /\ Held(set, b)
  /\ set' = SelectBank(set, b)

CycleOpen(up) ==
  /\ On
  /\ OnAir(set) \in Rows(set)
  /\ set' = SetCurrent(set, <<set.currentBank, CycleSlot(set, up)>>)

Store(b, c) ==
  /\ On
  /\ CanStore(set, b, c)
  /\ set' = MoveCurrentTo(set, b, c)

Attach(p) ==
  /\ On
  /\ CanRaise
  /\ Open(set, p)
  /\ set.manager[p[1]] # "tmux"
  /\ ~IsCarrier(set, p)
  /\ set' = AttachOver(set, p)

\* A bank for a session some standing attachment's listing found.
AttachFound ==
  /\ On
  /\ CanRaise
  /\ \E b \in BankId : set.manager[b] = "tmux"
  /\ set' = PushBank(set, "tmux", NoPair)

Collapse(b, reason) ==
  /\ On
  /\ set.manager[b] = "tmux"
  /\ set' = CollapseBank(set, b, reason)

\* Typing at a row: the user has read why its attachment ended.
TypeAtRow ==
  /\ On
  /\ OnAir(set) \in set.attachmentEnded
  /\ set' = [set EXCEPT !.attachmentEnded = @ \ {OnAir(set)}]

\* The window is gone.
Closed == power = "closing" /\ UNCHANGED vars

UserCall ==
  \/ \E c \in Slot : OpenHome(c)
  \/ \E b \in BankId : NewChannel(b) \/ TurnToBank(b)
  \/ \E b \in BankId, c \in Slot : AskSlot(b, c) \/ OpenSshChannel(b, c) \/ Store(b, c)
  \/ OpenSsh
  \/ CloseChannel
  \/ \E p \in Pair : Select(p)
  \/ \E up \in BOOLEAN : CycleOpen(up)

GatewayCall ==
  \/ \E b \in BankId, r \in Pending : WindowOpened(b, r)
  \/ \E b \in BankId, c \in Slot : WindowClosed(b, c)
  \/ \E b \in BankId : Settle(b)
  \/ \E b \in BankId, reason \in BOOLEAN : Collapse(b, reason)
  \/ AttachFound

RowCall(p) == SessionDied(p) \/ Attach(p)

Next ==
  \/ Start
  \/ TakeDegauss
  \/ UserCall
  \/ GatewayCall
  \/ \E p \in Pair : RowCall(p)
  \/ TypeAtRow
  \/ Closed

Spec == Init /\ [][Next]_vars

-----------------------------------------------------------------------------
TypeOK == set \in Sets /\ power \in {"off", "on", "closing"}

(***************************************************************************)
(* The air never stands on a bank the set no longer holds: a collapse, a   *)
(* dead carrier and an SSH bank swept with its last row all land it first  *)
(* (Channels::collapse_bank, remove_row, session_died).                    *)
(***************************************************************************)
AirHeld(S) == Held(S, S.currentBank)

(***************************************************************************)
(* A dark slot on the air is an attachment's beat of no signal or a bank   *)
(* with nothing on it; a user looking at a home or SSH bank that holds     *)
(* channels is looking at one of them, whatever died (nearest_row,         *)
(* select_bank).                                                           *)
(***************************************************************************)
AirLit(S) ==
  \/ OnAir(S) \in Rows(S)
  \/ S.manager[S.currentBank] = "tmux"
  \/ Slots(S, S.currentBank) = {}
AirStands == AirHeld(set) /\ AirLit(set)

(***************************************************************************)
(* While an attachment lasts the row carrying its wire stands where it     *)
(* was, off every tmux bank, and carries no other: no store, close or      *)
(* death pulls the wire out from under the bank (can_store, close_channel, *)
(* session_died, attach).                                                  *)
(***************************************************************************)
WiresHold(S) ==
  \A k \in BankId :
    S.carrier[k] # NoPair =>
      /\ S.manager[k] = "tmux"
      /\ S.carrier[k] \in Anchored(S)
      /\ \A j \in BankId : S.carrier[j] = S.carrier[k] => j = k
CarrierStands == WiresHold(set)

(***************************************************************************)
(* The session that carries a wire is the same one on the same slot for as *)
(* long as the attachment lasts: nothing is stored over it, closed under   *)
(* it or swapped with it (can_store, close_channel, move_current_to).      *)
(***************************************************************************)
WiresKept(S, T) ==
  \A k \in BankId :
    S.carrier[k] # NoPair =>
      \/ T.carrier[k] = S.carrier[k] /\ T.row[S.carrier[k]] = S.row[S.carrier[k]]
      \/ ~Held(T, k)
WireNeverMoves == [][WiresKept(set, set')]_vars

(***************************************************************************)
(* Every channel is on a bank the set holds, and no SSH bank outlives its  *)
(* last channel (remove_row, collapse_bank).                               *)
(***************************************************************************)
RowsHeld(S)   == \A p \in Rows(S) : Held(S, p[1])
SshBanksLit(S) == \A b \in BankId : S.manager[b] = "ssh" => Slots(S, b) # {}
BanksStand == RowsHeld(set) /\ SshBanksLit(set)

(***************************************************************************)
(* Tmux windows never keep a window open on their own: while any channel   *)
(* stands, one the user anchored stands (anchored_rows, close_channel,     *)
(* session_died).                                                          *)
(***************************************************************************)
AnchorStands == Rows(set) # {} => Anchored(set) # {}

(***************************************************************************)
(* Nothing hangs: a wire on a row that stands, a row on a bank that is     *)
(* held, an SSH bank on a row, and what tmux opened on a channel the user  *)
(* did.                                                                    *)
(***************************************************************************)
NothingHangs == CarrierStands /\ BanksStand /\ AnchorStands

(***************************************************************************)
(* Slots are stable: a session that survives a step keeps its slot, unless *)
(* the step is a store, which exchanges exactly the air's slot and another *)
(* of the same bank and takes the air along (remove_row, move_current_to). *)
(***************************************************************************)
Exchanged ==
  LET from == OnAir(set)
      to   == OnAir(set')
  IN  /\ from \in Pair /\ to \in Pair
      /\ from[1] = to[1]
      /\ set'.row = [set.row EXCEPT ![from] = set.row[to], ![to] = set.row[from]]

SlotsAreStable ==
  [][\/ \A p \in Rows(set) : set.row[p] \in InUse(set') => set'.row[p] = set.row[p]
     \/ Exchanged]_vars

(***************************************************************************)
(* A session stays where it was put: under its wire for as long as the     *)
(* attachment lasts, and on its slot for as long as it lives, unless it is *)
(* one of the two a store exchanges.                                       *)
(***************************************************************************)
SessionsStayPut == WireNeverMoves /\ SlotsAreStable

(***************************************************************************)
(* The tube flinches when the glass turns to another session and only      *)
(* then: re-selecting the channel on the air does not, nor does a store,   *)
(* which carries the session along (set_current, move_current_to).         *)
(***************************************************************************)
Shown(S) == IF OnAir(S) \in Rows(S) THEN S.row[OnAir(S)] ELSE Dark

FlinchLaw ==
  [][set.degaussArmed =>
      /\ set'.degaussPending /\ ~set.degaussPending =>
            /\ OnAir(set') # OnAir(set)
            /\ Shown(set') # Shown(set) \/ Shown(set') = Dark
      /\ Shown(set') # Shown(set) /\ Shown(set') # Dark =>
            \/ set'.degaussPending
            \/ OnAir(set') = OnAir(set)]_vars

(***************************************************************************)
(* The set implements the board: whatever ends, arrives or is swept in the *)
(* background, the air moves only for the user, for a window the user      *)
(* asked for, or because what was on the glass has gone                    *)
(* (channels.rs, every transition).                                        *)
(***************************************************************************)
Board == INSTANCE SlotBoard WITH
  Bank   <- BankId,
  board  <- set.row,
  air    <- OnAir(set),
  served <- {b \in BankId : set.manager[b] = "tmux"},
  owed   <- {b \in BankId : set.newWindowPending[b] # None}

ImplementsBoard == Board!Spec
=============================================================================
