--------------------------- MODULE ChannelsProofs ---------------------------
(***************************************************************************)
(* What always stands in a channel set, and what stays where it is: the    *)
(* air, the wires, the banks, the slots; that the set implements the board,*)
(* and that the tube flinches exactly when the glass turns. All of it for  *)
(* every panel size and every number of banks. The second part is the bank *)
(* strip beside the glass, whose every step is a step of the set's.        *)
(***************************************************************************)
EXTENDS Strip, FiniteSetTheorems, WellFoundedInduction, TLAPS

-----------------------------------------------------------------------------
(***************************************************************************)
(* Order: a nonempty set of slots has a least and a greatest element, and  *)
(* a nonempty set of rows a first and a last.                              *)
(***************************************************************************)
\* A nonempty set of naturals has a least element.
LEMMA LeastNat ==
  ASSUME NEW T, T \subseteq Nat, T # {}
  PROVE  \E x \in T : \A y \in T : x <= y
<1>1. IsWellFoundedOn(OpToRel(<, Nat), Nat)
  BY NatLessThanWellFounded
<1>2. PICK x \in T : \A y \in T : ~ (<<y, x>> \in OpToRel(<, Nat))
  BY <1>1, WFMin
<1>3. \A y \in T : ~ (y < x)
  BY <1>2 DEF OpToRel
<1> QED BY <1>3

\* Min and Max of a nonempty set of naturals with a bound are in the set.
LEMMA MinIn ==
  ASSUME NEW T, T \subseteq Nat, T # {}
  PROVE  Min(T) \in T /\ \A y \in T : Min(T) <= y
BY LeastNat DEF Min

\* The same of the greatest.
LEMMA MaxIn ==
  ASSUME NEW N \in Nat, NEW T, T \subseteq 0 .. N, T # {}
  PROVE  Max(T) \in T /\ \A y \in T : Max(T) >= y
<1>1. \A y \in T : y \in Nat /\ N - y \in Nat
  OBVIOUS
<1> DEFINE U == {N - y : y \in T}
<1>2. U \subseteq Nat /\ U # {}
  BY <1>1
<1>3. PICK u \in U : \A v \in U : u <= v
  <2> HIDE DEF U
  <2> QED BY <1>2, LeastNat
<1>4. PICK x \in T : u = N - x
  BY <1>3
<1>5. \A y \in T : N - x <= N - y
  BY <1>3, <1>4
<1>6. \A y \in T : x >= y
  BY <1>1, <1>5
<1> QED BY <1>6 DEF Max

\* A pair is its two parts.
LEMMA PairParts ==
  ASSUME NEW p \in Pair
  PROVE  p[1] \in BankId /\ p[2] \in Slot /\ p = <<p[1], p[2]>>
BY DEF Pair

\* A nonempty set of pairs of naturals has a first.
LEMMA FirstPair ==
  ASSUME NEW R, R \subseteq Nat \X Nat, R # {}
  PROVE  \E p \in R : \A q \in R : q # p => Before(p, q)
<1> DEFINE B == {p[1] : p \in R}
<1>1. B \subseteq Nat /\ B # {}
  OBVIOUS
<1>2. PICK m \in B : \A b \in B : m <= b
  <2> HIDE DEF B
  <2> QED BY <1>1, LeastNat
<1> DEFINE C == {p[2] : p \in {q \in R : q[1] = m}}
<1>3. C \subseteq Nat /\ C # {}
  BY <1>2
<1>4. PICK c \in C : \A d \in C : c <= d
  <2> HIDE DEF C
  <2> QED BY <1>3, LeastNat
<1>5. PICK p \in R : p[1] = m /\ p[2] = c
  BY <1>4
<1>6. \A q \in R : q # p => Before(p, q)
  <2> SUFFICES ASSUME NEW q \in R, q # p PROVE Before(p, q)
    OBVIOUS
  <2>1. /\ p[1] \in Nat /\ q[1] \in Nat /\ p[2] \in Nat /\ q[2] \in Nat
        /\ p = <<p[1], p[2]>> /\ q = <<q[1], q[2]>>
    OBVIOUS
  <2>2. p[1] <= q[1]
    BY <1>2, <1>5
  <2>3. q[1] = p[1] => p[2] <= q[2]
    BY <1>4, <1>5
  <2> QED BY <2>1, <2>2, <2>3 DEF Before
<1> QED BY <1>5, <1>6

\* The first row of a nonempty set of rows is in the set.
LEMMA FirstIn ==
  ASSUME NEW R, R \subseteq Pair, R # {}
  PROVE  FirstOf(R) \in R
<1>1. R \subseteq Nat \X Nat
  BY ChannelsAssumption DEF Pair, BankId, Slot
<1> QED BY <1>1, FirstPair DEF FirstOf

\* So is the last.
LEMMA LastIn ==
  ASSUME NEW R, R \subseteq Pair, R # {}
  PROVE  LastOf(R) \in R
<1> DEFINE B == {p[1] : p \in R}
<1>1. B \subseteq 0 .. MaxBank /\ B # {} /\ MaxBank \in Nat
  BY PairParts, ChannelsAssumption DEF BankId
<1>2. PICK m \in B : \A b \in B : m >= b
  <2> HIDE DEF B
  <2> QED BY <1>1, MaxIn
<1> DEFINE C == {p[2] : p \in {q \in R : q[1] = m}}
<1>3. C \subseteq 0 .. CHANNEL_CAP /\ C # {} /\ CHANNEL_CAP \in Nat
  BY <1>2, PairParts, ChannelsAssumption DEF Slot
<1>4. PICK c \in C : \A d \in C : c >= d
  <2> HIDE DEF C
  <2> QED BY <1>3, MaxIn
<1>5. PICK p \in R : p[1] = m /\ p[2] = c
  BY <1>4
<1>6. \A q \in R : q # p => Before(q, p)
  <2> SUFFICES ASSUME NEW q \in R, q # p PROVE Before(q, p)
    OBVIOUS
  <2>1. /\ p[1] \in Nat /\ q[1] \in Nat /\ p[2] \in Nat /\ q[2] \in Nat
        /\ p = <<p[1], p[2]>> /\ q = <<q[1], q[2]>>
    BY PairParts, ChannelsAssumption DEF BankId, Slot
  <2>2. p[1] >= q[1]
    BY <1>2, <1>5
  <2>3. q[1] = p[1] => p[2] >= q[2]
    BY <1>4, <1>5
  <2> QED BY <2>1, <2>2, <2>3 DEF Before
<1> QED BY <1>5, <1>6 DEF LastOf

\* The row nearest a hole is one of the rows.
LEMMA NearestIn ==
  ASSUME NEW R, R \subseteq Pair, R # {}, NEW hole, NEW b
  PROVE  NearestRow(R, hole, b) \in R
<1> DEFINE own   == {p \in R : p[1] = b}
           from  == IF own = {} THEN R ELSE own
           after == {p \in from : Before(hole, p)}
<1>1. from \subseteq R /\ from # {} /\ after \subseteq from
  OBVIOUS
<1>2. after = {} => LastOf(from) \in R
  BY <1>1, LastIn
<1>3. after # {} => FirstOf(after) \in R
  BY <1>1, FirstIn
<1> QED BY <1>2, <1>3 DEF NearestRow

-----------------------------------------------------------------------------
(***************************************************************************)
(* The inductive invariant. `Frame` is what no landing of the air touches; *)
(* `Sound` adds where the air is. The invariants the runs check follow     *)
(* from Sound; it adds that bank 0 is home, that no id still to be handed  *)
(* out is in use, and that an attachment, even one with no window yet, has *)
(* an anchored row standing.                                               *)
(***************************************************************************)
HomeStands(S)  == S.manager[0] = "home"
FreshBanks(S)  == \A b \in BankId : b >= S.nextBankId => S.manager[b] = "none"
AnchorHolds(S) ==
  (Rows(S) # {} \/ \E b \in BankId : S.manager[b] = "tmux") => Anchored(S) # {}

Frame(S) ==
  /\ S \in Sets
  /\ HomeStands(S)
  /\ FreshBanks(S)
  /\ WiresHold(S)
  /\ RowsHeld(S)
  /\ SshBanksLit(S)
  /\ AnchorHolds(S)

Sound(S) == Frame(S) /\ AirHeld(S) /\ AirLit(S)

IInv == Sound(set) /\ power \in {"off", "on", "closing"}

\* A set whose banks and rows are those of a sound frame is a sound frame.
LEMMA FrameKept ==
  ASSUME NEW S, Frame(S), NEW T \in Sets,
         T.manager = S.manager, T.carrier = S.carrier, T.row = S.row,
         T.nextBankId = S.nextBankId
  PROVE  Frame(T)
BY DEF Frame, HomeStands, FreshBanks, WiresHold, RowsHeld, SshBanksLit, AnchorHolds,
       Rows, Open, Held, Slots, Anchored

\* set_current writes nothing but the air, and writes it where it was told.
LEMMA SetCurrentFacts ==
  ASSUME NEW S \in Sets, NEW p \in Pair
  PROVE  /\ SetCurrent(S, p) \in Sets
         /\ SetCurrent(S, p).manager = S.manager
         /\ SetCurrent(S, p).carrier = S.carrier
         /\ SetCurrent(S, p).row = S.row
         /\ SetCurrent(S, p).nextBankId = S.nextBankId
         /\ SetCurrent(S, p).currentBank = p[1]
         /\ Held(S, p[1]) => OnAir(SetCurrent(S, p)) = p
<1>1. p[1] \in BankId /\ p[2] \in Slot /\ p = <<p[1], p[2]>>
  BY PairParts
<1>2. SetCurrent(S, p) \in Sets
  BY <1>1 DEF SetCurrent, Sets
<1>3. /\ SetCurrent(S, p).manager = S.manager
      /\ SetCurrent(S, p).carrier = S.carrier
      /\ SetCurrent(S, p).row = S.row
      /\ SetCurrent(S, p).nextBankId = S.nextBankId
      /\ SetCurrent(S, p).currentBank = p[1]
  BY <1>1 DEF SetCurrent, Sets
<1>4. Held(S, p[1]) => SetCurrent(S, p).channel[p[1]] = p[2]
  BY <1>1 DEF SetCurrent, Sets
<1>5. Held(S, p[1]) => OnAir(SetCurrent(S, p)) = p
  BY <1>1, <1>3, <1>4 DEF OnAir, Held
<1> QED BY <1>2, <1>3, <1>5

\* The air may land on any row that stands, and on an empty or a tmux bank.
LEMMA Landing ==
  ASSUME NEW S, Frame(S), NEW p \in Pair, Held(S, p[1]),
         p \in Rows(S) \/ S.manager[p[1]] = "tmux" \/ Slots(S, p[1]) = {}
  PROVE  Sound(SetCurrent(S, p))
<1>1. S \in Sets
  BY DEF Frame
<1> DEFINE T == SetCurrent(S, p)
<1>2. /\ T \in Sets /\ T.manager = S.manager /\ T.carrier = S.carrier /\ T.row = S.row
      /\ T.nextBankId = S.nextBankId /\ T.currentBank = p[1] /\ OnAir(T) = p
  BY <1>1, SetCurrentFacts
<1> HIDE DEF T
<1>3. Frame(T)
  BY <1>2, FrameKept
<1>4. AirHeld(T) /\ AirLit(T)
  BY <1>2 DEF AirHeld, AirLit, Held, Rows, Open, Slots
<1> QED BY <1>3, <1>4 DEF Sound, T

\* A row that stands is on a bank that stands.
LEMMA LandingOnRow ==
  ASSUME NEW S, Frame(S), NEW p \in Rows(S)
  PROVE  Sound(SetCurrent(S, p))
<1>1. p \in Pair /\ Held(S, p[1])
  BY DEF Frame, RowsHeld, Rows
<1> QED BY <1>1, Landing

-----------------------------------------------------------------------------
(***************************************************************************)
(* Opening and storing.                                                    *)
(***************************************************************************)
\* A session put on a slot of a standing bank.
LEMMA InsertFrame ==
  ASSUME NEW S, Frame(S), NEW p \in Pair, Held(S, p[1]), NEW s \in Session
  PROVE  /\ Frame(InsertRow(S, p, s))
         /\ Rows(InsertRow(S, p, s)) = Rows(S) \cup {p}
         /\ Held(InsertRow(S, p, s), p[1])
         /\ InsertRow(S, p, s).manager = S.manager
         /\ InsertRow(S, p, s).channel = S.channel
         /\ InsertRow(S, p, s).currentBank = S.currentBank
<1> DEFINE T == InsertRow(S, p, s)
<1>1. S \in Sets /\ s # Dark
  BY ChannelsAssumption DEF Frame
<1>2. T \in Sets
  BY <1>1 DEF InsertRow, Sets
<1>3. /\ T.manager = S.manager /\ T.carrier = S.carrier /\ T.nextBankId = S.nextBankId
      /\ T.channel = S.channel /\ T.currentBank = S.currentBank
      /\ T.row = [S.row EXCEPT ![p] = s]
  BY <1>1 DEF InsertRow, Sets
<1>4. \A q \in Pair : Open(T, q) <=> Open(S, q) \/ q = p
  BY <1>1, <1>3 DEF Open, Sets
<1>5. Rows(T) = Rows(S) \cup {p}
  BY <1>4 DEF Rows
<1> HIDE DEF T
<1>6. Anchored(S) \subseteq Anchored(T)
  BY <1>3, <1>5 DEF Anchored
<1>7. WiresHold(T) /\ RowsHeld(T)
  BY <1>3, <1>5, <1>6 DEF Frame, WiresHold, RowsHeld, Held
<1>8. SshBanksLit(T)
  <2>1. \A b \in BankId : Slots(S, b) \subseteq Slots(T, b)
    BY <1>4 DEF Slots, Pair
  <2> QED BY <2>1, <1>3 DEF Frame, SshBanksLit
<1>9. AnchorHolds(T)
  <2>1. p \in Anchored(T) \/ S.manager[p[1]] = "tmux"
    BY <1>1, <1>3, <1>5, PairParts DEF Anchored, Held, Sets, Managers
  <2>2. S.manager[p[1]] = "tmux" => Anchored(S) # {}
    BY PairParts DEF Frame, AnchorHolds
  <2> QED BY <2>1, <2>2, <1>3, <1>5, <1>6 DEF AnchorHolds, Frame
<1>10. HomeStands(T) /\ FreshBanks(T)
  BY <1>3 DEF Frame, HomeStands, FreshBanks
<1> QED BY <1>2, <1>3, <1>5, <1>7, <1>8, <1>9, <1>10 DEF Frame, T, Held

\* A session the user opened, on the air at once.
LEMMA InsertOnAir ==
  ASSUME NEW S, Frame(S), NEW p \in Pair, Held(S, p[1]), NEW s \in Session
  PROVE  Sound(SetCurrent(InsertRow(S, p, s), p))
<1> DEFINE T == InsertRow(S, p, s)
<1>1. Frame(T) /\ p \in Rows(T)
  BY InsertFrame
<1> HIDE DEF T
<1>2. Sound(SetCurrent(T, p))
  BY <1>1, LandingOnRow
<1> QED BY <1>2 DEF T

\* A window lit off the air.
LEMMA InsertOffAir ==
  ASSUME NEW S, Sound(S), NEW p \in Pair, S.manager[p[1]] = "tmux", NEW s \in Session
  PROVE  Sound(InsertRow(S, p, s))
<1> DEFINE T == InsertRow(S, p, s)
<1>1. /\ Frame(T) /\ Rows(T) = Rows(S) \cup {p} /\ T.manager = S.manager
      /\ T.channel = S.channel /\ T.currentBank = S.currentBank
  BY InsertFrame DEF Sound, Held
<1> HIDE DEF T
<1>2. OnAir(T) = OnAir(S) /\ AirHeld(T)
  BY <1>1 DEF OnAir, Held, AirHeld, Sound
<1>3. AirLit(T)
  <2>1. CASE S.currentBank = p[1]
    BY <2>1, <1>1 DEF AirLit
  <2>2. CASE S.currentBank # p[1]
    <3>1. Slots(T, S.currentBank) = Slots(S, S.currentBank)
      <4>1. S.currentBank \in BankId
        BY DEF Sound, Frame, Sets
      <4>2. \A c \in Slot : <<S.currentBank, c>> \in Rows(T) <=> <<S.currentBank, c>> \in Rows(S)
        BY <1>1, <2>2
      <4>3. \A c \in Slot : <<S.currentBank, c>> \in Pair
        BY <4>1 DEF Pair
      <4> QED BY <4>2, <4>3 DEF Slots, Rows
    <3> QED BY <3>1, <1>1, <1>2 DEF AirLit, Sound
  <2> QED BY <2>1, <2>2
<1> QED BY <1>1, <1>2, <1>3 DEF Sound, T

\* What is asked for, armed or acknowledged moves no bank, no row and no air.
LEMMA SoundKept ==
  ASSUME NEW S, Sound(S), NEW T \in Sets,
         T.manager = S.manager, T.carrier = S.carrier, T.row = S.row,
         T.nextBankId = S.nextBankId, T.currentBank = S.currentBank, T.channel = S.channel
  PROVE  Sound(T)
<1>1. Frame(T)
  BY FrameKept DEF Sound
<1>2. AirHeld(T) /\ AirLit(T)
  BY DEF Sound, AirHeld, AirLit, Held, OnAir, Rows, Open, Slots
<1> QED BY <1>1, <1>2 DEF Sound

\* A request for a window is only a request.
LEMMA AskSound ==
  ASSUME NEW S, Sound(S), NEW b \in BankId, NEW slot \in Pending
  PROVE  Sound(AskForWindow(S, b, slot))
<1> DEFINE T == AskForWindow(S, b, slot)
<1>1. S \in Sets
  BY DEF Sound, Frame
<1>2. /\ T \in Sets /\ T.manager = S.manager /\ T.carrier = S.carrier /\ T.row = S.row
      /\ T.nextBankId = S.nextBankId /\ T.currentBank = S.currentBank /\ T.channel = S.channel
  BY <1>1 DEF AskForWindow, Sets
<1> HIDE DEF T
<1>3. Sound(T)
  BY <1>2, SoundKept
<1> QED BY <1>3 DEF T

\* The lowest free slot is a slot, and free.
LEMMA FirstFreeFacts ==
  ASSUME NEW S, NEW b
  PROVE  FirstFree(S, b) = 0 \/ FirstFree(S, b) \in Slot \ Slots(S, b)
<1>1. Slot \ Slots(S, b) \subseteq Nat
  BY ChannelsAssumption DEF Slot
<1> QED BY <1>1, MinIn DEF FirstFree

\* The slot a new channel is asked on is a slot, and free.
LEMMA NextSlotFacts ==
  ASSUME NEW S, NEW b
  PROVE  NextSlot(S, b) = 0 \/ NextSlot(S, b) \in Slot \ Slots(S, b)
<1> DEFINE from  == IF Held(S, b) THEN S.channel[b] ELSE 1
           above == {n \in Slot \ Slots(S, b) : n >= from}
<1>1. above \subseteq Nat
  BY ChannelsAssumption DEF Slot
<1>2. above # {} => Min(above) \in above
  <2> HIDE DEF above
  <2> QED BY <1>1, MinIn
<1> QED BY <1>2, FirstFreeFacts DEF NextSlot

\* A window that arrives lands on a slot of its bank, or on none.
LEMMA WindowSlotFacts ==
  ASSUME NEW S \in Sets, NEW b \in BankId, NEW r \in Pending
  PROVE  WindowSlot(S, b, r) = 0 \/ WindowSlot(S, b, r) \in Slot
BY FirstFreeFacts DEF WindowSlot

\* A window that arrives, with a slot, without one, or refused.
LEMMA OpenTmuxWindowSound ==
  ASSUME NEW S, Sound(S), NEW b \in BankId, S.manager[b] = "tmux",
         NEW s \in Session, NEW r \in Pending
  PROVE  Sound(OpenTmuxWindow(S, b, s, r))
<1> DEFINE c     == WindowSlot(S, b, r)
           taken == [S EXCEPT !.newWindowPending[b] = None]
           lit   == InsertRow(taken, <<b, c>>, s)
<1>1. S \in Sets
  BY DEF Sound, Frame
<1>2. Sound(taken) /\ taken.manager = S.manager
  <2>1. Sound(AskForWindow(S, b, None))
    BY AskSound DEF Pending
  <2>2. taken = AskForWindow(S, b, None)
    BY DEF AskForWindow
  <2> QED BY <2>1, <2>2, <1>1 DEF Sets
<1>3. c = 0 \/ c \in Slot
  BY <1>1, WindowSlotFacts
<1>4. OpenTmuxWindow(S, b, s, r)
        = IF c = 0 THEN taken
          ELSE IF S.newWindowPending[b] # None THEN SetCurrent(lit, <<b, c>>) ELSE lit
  BY DEF OpenTmuxWindow
<1>5. c # 0 => <<b, c>> \in Pair /\ <<b, c>>[1] = b
  BY <1>3 DEF Pair
<1> HIDE DEF taken, c
<1>6. c # 0 => Sound(lit)
  BY <1>2, <1>5, InsertOffAir
<1>7. c # 0 => Sound(SetCurrent(lit, <<b, c>>))
  BY <1>2, <1>5, InsertOnAir DEF Sound, Held
<1> QED BY <1>2, <1>4, <1>6, <1>7

\* Turning to a bank lands on a row of it, or on the bank when it has none.
LEMMA SelectBankSound ==
  ASSUME NEW S, Frame(S), NEW b \in BankId, Held(S, b)
  PROVE  Sound(SelectBank(S, b))
<1> DEFINE remembered == <<b, S.channel[b]>>
           low        == <<b, Min(Slots(S, b))>>
<1>1. remembered \in Pair /\ remembered[1] = b
  BY DEF Frame, Sets, Pair
<1>2. CASE Open(S, remembered) \/ Slots(S, b) = {}
  <2>1. remembered \in Rows(S) \/ Slots(S, b) = {}
    BY <1>1, <1>2 DEF Rows
  <2>2. SelectBank(S, b) = SetCurrent(S, remembered)
    BY <1>2 DEF SelectBank
  <2> HIDE DEF remembered
  <2>3. Sound(SetCurrent(S, remembered))
    BY <1>1, <2>1, Landing
  <2> QED BY <2>2, <2>3
<1>3. CASE ~Open(S, remembered) /\ Slots(S, b) # {}
  <2>1. Slots(S, b) \subseteq Nat
    BY ChannelsAssumption DEF Slots, Slot
  <2>2. Min(Slots(S, b)) \in Slots(S, b)
    BY <1>3, <2>1, MinIn
  <2>3. low \in Rows(S)
    BY <2>2 DEF Slots, Rows, Pair
  <2>4. SelectBank(S, b) = SetCurrent(S, low)
    BY <1>3 DEF SelectBank
  <2> QED BY <2>3, <2>4, LandingOnRow
<1> QED BY <1>2, <1>3

\* Settling is turning to the bank, or nothing.
LEMMA SettleSound ==
  ASSUME NEW S, Sound(S), NEW b \in BankId, S.manager[b] = "tmux"
  PROVE  Sound(SettleOnOpenRow(S, b))
BY SelectBankSound DEF SettleOnOpenRow, Sound, Held

\* An exchange of two slots of one bank, neither of them a wire.
LEMMA StoreSound ==
  ASSUME NEW S, Sound(S), NEW b \in BankId, NEW c \in Slot, CanStore(S, b, c)
  PROVE  Sound(MoveCurrentTo(S, b, c))
<1> DEFINE from  == OnAir(S)
           to    == <<b, c>>
           other(p) == IF p = from THEN to ELSE IF p = to THEN from ELSE p
           moved == [S EXCEPT !.row = [p \in Pair |-> S.row[other(p)]],
                              !.attachmentEnded = {p \in Pair : other(p) \in @},
                              !.degaussArmed = FALSE]
           landed == SetCurrent(moved, to)
           T      == [landed EXCEPT !.degaussArmed = S.degaussArmed]
<1>1. S \in Sets /\ b = S.currentBank /\ from \in Rows(S) /\ from \in Pair /\ to \in Pair
  BY DEF Sound, Frame, CanStore, Rows, Pair
<1>2. from[1] = b /\ to[1] = b
  BY <1>1 DEF OnAir
<1>3. \A p \in Pair : other(p) \in Pair /\ other(p)[1] = p[1]
  BY <1>1, <1>2
<1>4. moved \in Sets
  BY <1>1, <1>3 DEF Sets
<1>5. /\ moved.manager = S.manager /\ moved.carrier = S.carrier
      /\ moved.nextBankId = S.nextBankId
      /\ \A p \in Pair : moved.row[p] = S.row[other(p)]
  BY <1>1 DEF Sets
<1>6. \A p \in Pair : p \in Rows(moved) <=> other(p) \in Rows(S)
  BY <1>3, <1>5 DEF Rows, Open
<1>7. to \in Rows(moved)
  BY <1>1, <1>6
<1>8. \A p \in Rows(moved) : other(p) \in Rows(S) /\ other(p)[1] = p[1]
  BY <1>3, <1>6 DEF Rows
<1>9. \A q \in Anchored(S) : other(q) \in Anchored(moved)
  <2> SUFFICES ASSUME NEW q \in Anchored(S) PROVE other(q) \in Anchored(moved)
    OBVIOUS
  <2>1. q \in Rows(S) /\ q \in Pair /\ S.manager[q[1]] \in {"home", "ssh"}
    BY DEF Anchored, Rows
  <2>2. other(other(q)) = q
    OBVIOUS
  <2>3. other(q) \in Rows(moved)
    BY <1>3, <1>6, <2>1, <2>2
  <2> QED BY <1>3, <1>5, <2>1, <2>3 DEF Anchored
<1>10. WiresHold(moved)
  <2>1. WiresHold(S)
    BY DEF Sound, Frame
  <2>2. ASSUME NEW k \in BankId, S.carrier[k] # NoPair PROVE S.carrier[k] \in Anchored(moved)
    <3>1. S.carrier[k] \in Anchored(S)
      BY <2>1, <2>2 DEF WiresHold
    <3>2. from # S.carrier[k] /\ to # S.carrier[k]
      <4>1. ~IsCarrier(S, from) /\ ~IsCarrier(S, to)
        BY <1>1 DEF CanStore
      <4>2. k \in CarriedBanks(S, S.carrier[k])
        BY DEF CarriedBanks
      <4>3. IsCarrier(S, S.carrier[k])
        BY <2>2, <4>2 DEF IsCarrier
      <4> HIDE DEF from, to
      <4> QED BY <4>1, <4>3
    <3>3. other(S.carrier[k]) = S.carrier[k]
      BY <3>2
    <3> QED BY <3>1, <3>3, <1>9
  <2>3. moved.manager = S.manager /\ moved.carrier = S.carrier
    BY <1>5
  <2> HIDE DEF moved
  <2> QED BY <2>1, <2>2, <2>3 DEF WiresHold
<1>11. RowsHeld(moved)
  BY <1>5, <1>8 DEF RowsHeld, Held, Sound, Frame
<1>12. SshBanksLit(moved)
  <2> SUFFICES ASSUME NEW a \in BankId, S.manager[a] = "ssh" PROVE Slots(moved, a) # {}
    BY <1>5 DEF SshBanksLit
  <2>1. PICK d \in Slot : Open(S, <<a, d>>)
    BY DEF SshBanksLit, Sound, Frame, Slots
  <2>2. CASE a = b
    BY <2>2, <1>7 DEF Slots, Rows
  <2>3. CASE a # b
    <3>1. other(<<a, d>>) = <<a, d>> /\ <<a, d>> \in Pair
      BY <2>3, <1>2 DEF Pair
    <3>2. <<a, d>> \in Rows(moved)
      BY <3>1, <2>1, <1>6 DEF Rows
    <3> QED BY <3>2 DEF Slots, Rows
  <2> QED BY <2>2, <2>3
<1>13. AnchorHolds(moved)
  <2>1. Rows(moved) # {} => Rows(S) # {}
    BY <1>8
  <2>2. Anchored(S) # {} => Anchored(moved) # {}
    BY <1>9
  <2> QED BY <2>1, <2>2, <1>5 DEF AnchorHolds, Sound, Frame
<1>14. Frame(moved)
  BY <1>4, <1>5, <1>10, <1>11, <1>12, <1>13
     DEF Frame, Sound, HomeStands, FreshBanks
<1>15. Sound(landed) /\ landed \in Sets
  <2> HIDE DEF moved, to
  <2>1. Sound(SetCurrent(moved, to))
    BY <1>7, <1>14, LandingOnRow
  <2> QED BY <2>1 DEF Sound, Frame
<1>16. Sound(T)
  <2> HIDE DEF landed
  <2>1. T \in Sets /\ T.manager = landed.manager /\ T.carrier = landed.carrier
        /\ T.row = landed.row /\ T.nextBankId = landed.nextBankId
        /\ T.currentBank = landed.currentBank /\ T.channel = landed.channel
    BY <1>1, <1>15 DEF Sets
  <2> HIDE DEF T
  <2> QED BY <1>15, <2>1, SoundKept
<1> QED BY <1>16 DEF MoveCurrentTo

\* The knob lands on a row of the bank it is turned on.
LEMMA CycleLands ==
  ASSUME NEW S, Sound(S), OnAir(S) \in Rows(S), NEW up \in BOOLEAN
  PROVE  <<S.currentBank, CycleSlot(S, up)>> \in Rows(S)
<1> DEFINE slots  == Slots(S, S.currentBank)
           beyond == {c \in slots : IF up THEN c > OnAir(S)[2] ELSE c < OnAir(S)[2]}
           from   == IF beyond = {} THEN slots ELSE beyond
<1>1. S \in Sets /\ S.currentBank \in BankId
  BY DEF Sound, Frame, Sets
<1>2. from \subseteq Slots(S, S.currentBank) /\ from # {}
  <2>1. OnAir(S)[1] = S.currentBank /\ OnAir(S)[2] \in Slot
    BY PairParts DEF OnAir, Rows
  <2>2. OnAir(S)[2] \in slots
    BY <2>1, PairParts DEF Slots, Rows
  <2> QED BY <2>2
<1>3. from \subseteq Nat /\ from \subseteq 0 .. CHANNEL_CAP /\ CHANNEL_CAP \in Nat
  BY <1>2, ChannelsAssumption DEF Slots, Slot
<1>4. CycleSlot(S, up) \in from
  <2>1. CycleSlot(S, up) = IF up THEN Min(from) ELSE Max(from)
    BY DEF CycleSlot
  <2> HIDE DEF from
  <2> QED BY <2>1, <1>2, <1>3, MinIn, MaxIn
<1> QED
  BY <1>1, <1>2, <1>4 DEF Slots, Rows, Pair

LEMMA CycleSound ==
  ASSUME NEW S, Sound(S), OnAir(S) \in Rows(S), NEW up \in BOOLEAN
  PROVE  Sound(SetCurrent(S, <<S.currentBank, CycleSlot(S, up)>>))
BY CycleLands, LandingOnRow DEF Sound


-----------------------------------------------------------------------------
(***************************************************************************)
(* Raising a bank.                                                         *)
(***************************************************************************)
\* A bank just pushed held nothing and was held by nothing.
\* T is S with a bank pushed on it, of manager m and carried by w.
Pushed(S, m, w, T) ==
  LET n == S.nextBankId
  IN  /\ n \in BankId /\ n # 0 /\ S.manager[n] = "none"
      /\ T \in Sets
      /\ T.manager = [S.manager EXCEPT ![n] = m]
      /\ T.carrier = [S.carrier EXCEPT ![n] = w]
      /\ T.row = S.row /\ T.nextBankId = n + 1
      /\ T.currentBank = S.currentBank /\ T.channel = S.channel
      /\ \A p \in Rows(S) : p[1] # n

LEMMA Pushes ==
  ASSUME NEW S, Frame(S), S.nextBankId <= MaxBank,
         NEW m \in Managers, NEW w \in Pair \cup {NoPair}
  PROVE  Pushed(S, m, w, PushBank(S, m, w))
<1>1. S \in Sets /\ S.nextBankId \in 1 .. MaxBank + 1 /\ MaxBank \in Nat
  BY ChannelsAssumption DEF Frame, Sets
<1>2. S.nextBankId \in BankId /\ S.nextBankId # 0 /\ S.nextBankId + 1 \in 1 .. MaxBank + 1
  BY <1>1 DEF BankId
<1>3. S.manager[S.nextBankId] = "none"
  BY <1>1, <1>2 DEF Frame, FreshBanks
<1>4. PushBank(S, m, w) \in Sets
  BY <1>1, <1>2 DEF PushBank, Sets
<1>5. \A p \in Rows(S) : p[1] # S.nextBankId
  BY <1>3 DEF Frame, RowsHeld, Held
<1> QED BY <1>1, <1>2, <1>3, <1>4, <1>5 DEF PushBank, Sets, Pushed

LEMMA PushFacts ==
  ASSUME NEW S, Frame(S), S.nextBankId <= MaxBank,
         NEW m \in Managers, NEW w \in Pair \cup {NoPair}
  PROVE  LET n == S.nextBankId
             T == PushBank(S, m, w)
         IN  /\ n \in BankId /\ n # 0 /\ S.manager[n] = "none"
             /\ T \in Sets
             /\ T.manager = [S.manager EXCEPT ![n] = m]
             /\ T.carrier = [S.carrier EXCEPT ![n] = w]
             /\ T.row = S.row /\ T.nextBankId = n + 1
             /\ T.currentBank = S.currentBank /\ T.channel = S.channel
             /\ \A p \in Rows(S) : p[1] # n
BY Pushes DEF Pushed

\* An attachment's bank: over an anchored row that carries no other, or over
\* none while another attachment stands.
LEMMA PushTmux ==
  ASSUME NEW S, Sound(S), S.nextBankId <= MaxBank, NEW w \in Pair \cup {NoPair},
         w # NoPair => w \in Anchored(S) /\ ~IsCarrier(S, w),
         Anchored(S) # {}
  PROVE  /\ Sound(PushBank(S, "tmux", w))
         /\ S.nextBankId \in BankId
         /\ PushBank(S, "tmux", w).manager[S.nextBankId] = "tmux"
<1> DEFINE n == S.nextBankId
           T == PushBank(S, "tmux", w)
<1>1. /\ n \in BankId /\ n # 0 /\ S.manager[n] = "none"
      /\ T \in Sets
      /\ T.manager = [S.manager EXCEPT ![n] = "tmux"]
      /\ T.carrier = [S.carrier EXCEPT ![n] = w]
      /\ T.row = S.row /\ T.nextBankId = n + 1
      /\ T.currentBank = S.currentBank /\ T.channel = S.channel
      /\ \A p \in Rows(S) : p[1] # n
  BY PushFacts DEF Sound, Managers
<1>2. S \in Sets /\ S.manager \in [BankId -> Managers] /\ n \in Nat
      /\ S.carrier \in [BankId -> Pair \cup {NoPair}]
  BY <1>1, ChannelsAssumption DEF Sound, Frame, Sets, BankId
<1> HIDE DEF T, n
<1>3. Rows(T) = Rows(S) /\ \A b \in BankId : Slots(T, b) = Slots(S, b)
  BY <1>1 DEF Rows, Slots, Open
<1>4. \A b \in BankId : b # n => T.manager[b] = S.manager[b] /\ T.carrier[b] = S.carrier[b]
  BY <1>1, <1>2
<1>5. T.manager[n] = "tmux" /\ T.carrier[n] = w
  BY <1>1, <1>2
<1>6. Anchored(S) \subseteq Anchored(T)
  BY <1>1, <1>3, <1>4, PairParts DEF Anchored, Rows
<1>7. WiresHold(T)
  <2>1. \A k \in BankId : k # n /\ S.carrier[k] # NoPair =>
          /\ S.manager[k] = "tmux" /\ S.carrier[k] \in Anchored(T)
          /\ S.carrier[k] # w
          /\ \A j \in BankId : S.carrier[j] = S.carrier[k] => j = k
    BY <1>6 DEF Sound, Frame, WiresHold, IsCarrier, CarriedBanks
  <2>2. \A k \in BankId : k # n /\ T.carrier[k] # NoPair =>
          /\ T.manager[k] = "tmux" /\ T.carrier[k] \in Anchored(T)
          /\ \A j \in BankId : T.carrier[j] = T.carrier[k] => j = k
    BY <2>1, <1>4, <1>5
  <2>3. w # NoPair => /\ w \in Anchored(T)
                      /\ \A j \in BankId : T.carrier[j] = w => j = n
    BY <1>4, <1>6 DEF IsCarrier, CarriedBanks
  <2> QED BY <2>2, <2>3, <1>5 DEF WiresHold
<1>8. RowsHeld(T)
  BY <1>1, <1>3, <1>4, PairParts DEF RowsHeld, Sound, Frame, Held, Rows
<1>9. SshBanksLit(T)
  BY <1>3, <1>4, <1>5 DEF SshBanksLit, Sound, Frame
<1>10. AnchorHolds(T) /\ HomeStands(T) /\ FreshBanks(T)
  <2>1. HomeStands(T)
    BY <1>1, <1>4, ChannelsAssumption DEF HomeStands, Sound, Frame, BankId
  <2>2. FreshBanks(T)
    <3> SUFFICES ASSUME NEW b \in BankId, b >= n + 1 PROVE T.manager[b] = "none"
      BY <1>1 DEF FreshBanks
    <3>1. b \in Int /\ b # n /\ b >= n
      BY <1>2 DEF BankId
    <3> QED BY <3>1, <1>4 DEF FreshBanks, Sound, Frame, n
  <2> QED BY <2>1, <2>2, <1>6 DEF AnchorHolds
<1>11. AirHeld(T) /\ AirLit(T)
  <2>1. S.currentBank \in BankId /\ S.currentBank # n
    BY <1>1, <1>2 DEF Sound, Frame, Sets, AirHeld, Held
  <2>2. OnAir(T) = OnAir(S)
    BY <2>1, <1>1, <1>4 DEF OnAir, Held
  <2> QED BY <2>1, <2>2, <1>1, <1>3, <1>4 DEF AirHeld, AirLit, Held, Sound
<1> QED BY <1>1, <1>5, <1>7, <1>8, <1>9, <1>10, <1>11 DEF Sound, Frame, T, n

\* A connection's bank, with the channel that carries it.
LEMMA OpenSshBankSound ==
  ASSUME NEW S, Sound(S), S.nextBankId <= MaxBank, NEW s \in Session
  PROVE  Sound(OpenSshBank(S, s))
<1> DEFINE n     == S.nextBankId
           first == <<n, 1>>
           T     == InsertRow(PushBank(S, "ssh", NoPair), first, s)
<1>1. /\ n \in BankId /\ n # 0 /\ S.manager[n] = "none"
      /\ PushBank(S, "ssh", NoPair) \in Sets
      /\ PushBank(S, "ssh", NoPair).manager = [S.manager EXCEPT ![n] = "ssh"]
      /\ PushBank(S, "ssh", NoPair).carrier = [S.carrier EXCEPT ![n] = NoPair]
      /\ PushBank(S, "ssh", NoPair).row = S.row
      /\ PushBank(S, "ssh", NoPair).nextBankId = n + 1
      /\ \A p \in Rows(S) : p[1] # n
  <2>0. Frame(S) /\ "ssh" \in Managers /\ NoPair \in Pair \cup {NoPair}
    BY DEF Sound, Managers
  <2>1. Pushed(S, "ssh", NoPair, PushBank(S, "ssh", NoPair))
    BY <2>0, Pushes
  <2> QED BY <2>1 DEF Pushed
<1>2. /\ S \in Sets /\ S.manager \in [BankId -> Managers] /\ n \in Nat
      /\ S.carrier \in [BankId -> Pair \cup {NoPair}]
      /\ S.row \in [Pair -> Session \cup {Dark}] /\ s # Dark
  BY <1>1, ChannelsAssumption DEF Sound, Frame, Sets, BankId
<1>3. first \in Pair /\ first[1] = n
  BY <1>1, ChannelsAssumption DEF Pair, Slot
<1>4. /\ T \in Sets
      /\ T.manager = [S.manager EXCEPT ![n] = "ssh"]
      /\ T.carrier = [S.carrier EXCEPT ![n] = NoPair]
      /\ T.row = [S.row EXCEPT ![first] = s]
      /\ T.nextBankId = n + 1
  BY <1>1, <1>2, <1>3 DEF InsertRow, Sets
<1> HIDE DEF T, n, first
<1>5. \A q \in Pair : Open(T, q) <=> Open(S, q) \/ q = first
  BY <1>2, <1>3, <1>4 DEF Open
<1>6. Rows(T) = Rows(S) \cup {first}
  BY <1>3, <1>5 DEF Rows
<1>7. \A b \in BankId : b # n => T.manager[b] = S.manager[b] /\ T.carrier[b] = S.carrier[b]
  BY <1>2, <1>4
<1>8. T.manager[n] = "ssh" /\ T.carrier[n] = NoPair
  BY <1>1, <1>2, <1>4
<1>9. Anchored(S) \subseteq Anchored(T) /\ first \in Anchored(T)
  BY <1>1, <1>3, <1>6, <1>7, <1>8, PairParts DEF Anchored, Rows
<1>10. WiresHold(T)
  BY <1>7, <1>8, <1>9 DEF WiresHold, Sound, Frame
<1>11. RowsHeld(T)
  BY <1>1, <1>3, <1>6, <1>7, <1>8, PairParts DEF RowsHeld, Sound, Frame, Held, Rows
<1>12. SshBanksLit(T)
  <2> SUFFICES ASSUME NEW b \in BankId, T.manager[b] = "ssh" PROVE Slots(T, b) # {}
    BY DEF SshBanksLit
  <2>1. CASE b = n
    BY <2>1, <1>3, <1>5, ChannelsAssumption DEF Slots, first, Slot, Pair
  <2>2. CASE b # n
    <3>1. PICK d \in Slot : Open(S, <<b, d>>)
      BY <2>2, <1>7 DEF SshBanksLit, Sound, Frame, Slots
    <3> QED BY <3>1, <1>5 DEF Slots, Pair
  <2> QED BY <2>1, <2>2
<1>13. HomeStands(T)
  BY <1>1, <1>7, ChannelsAssumption DEF HomeStands, Sound, Frame, BankId
<1>14. FreshBanks(T)
  <2> SUFFICES ASSUME NEW b \in BankId, b >= n + 1 PROVE T.manager[b] = "none"
    BY <1>4 DEF FreshBanks
  <2>1. b \in Int /\ b # n /\ b >= n
    BY <1>2 DEF BankId
  <2> QED BY <2>1, <1>7 DEF FreshBanks, Sound, Frame, n
<1>15. Frame(T) /\ first \in Rows(T)
  BY <1>4, <1>6, <1>9, <1>10, <1>11, <1>12, <1>13, <1>14 DEF Frame, AnchorHolds
<1>16. Sound(SetCurrent(T, first))
  BY <1>15, LandingOnRow
<1> QED BY <1>16 DEF OpenSshBank, T, first, n

\* An attachment raised over a row, with the air following or not.
LEMMA AttachSound ==
  ASSUME NEW S, Sound(S), S.nextBankId <= MaxBank,
         NEW p \in Rows(S), S.manager[p[1]] # "tmux", ~IsCarrier(S, p)
  PROVE  Sound(AttachOver(S, p))
<1> DEFINE T == PushBank(S, "tmux", p)
<1>1. p \in Pair /\ p \in Anchored(S)
  <2>1. p \in Pair /\ Held(S, p[1]) /\ S.manager[p[1]] \in Managers
    BY PairParts DEF Sound, Frame, RowsHeld, Rows, Sets
  <2> QED BY <2>1 DEF Anchored, Held, Managers
<1>2. /\ Sound(T) /\ S.nextBankId \in BankId /\ T.manager[S.nextBankId] = "tmux"
  BY <1>1, PushTmux
<1> HIDE DEF T
<1>3. <<S.nextBankId, 1>> \in Pair
  BY <1>2, ChannelsAssumption DEF Pair, Slot
<1>4. Sound(SetCurrent(T, <<S.nextBankId, 1>>))
  BY <1>2, <1>3, Landing DEF Sound, Held
<1> QED BY <1>2, <1>4 DEF AttachOver, T

-----------------------------------------------------------------------------
(***************************************************************************)
(* Closing.                                                                *)
(***************************************************************************)
\* What forgetting a bank writes.
LEMMA ForgetFacts ==
  ASSUME NEW S \in Sets, NEW b \in BankId
  PROVE  /\ Forget(S, b) \in Sets
         /\ Forget(S, b).manager = [S.manager EXCEPT ![b] = "none"]
         /\ Forget(S, b).carrier = [S.carrier EXCEPT ![b] = NoPair]
         /\ Forget(S, b).channel = [S.channel EXCEPT ![b] = 1]
         /\ Forget(S, b).row = S.row
         /\ Forget(S, b).nextBankId = S.nextBankId
         /\ Forget(S, b).currentBank = S.currentBank
<1>1. 1 \in Slot
  BY ChannelsAssumption DEF Slot
<1>2. Forget(S, b) \in Sets
  BY <1>1 DEF Forget, Sets, Pending, Managers
<1> QED BY <1>2 DEF Forget, Sets

\* A bank with no rows, no wire and no air on it is forgotten without a trace.
LEMMA ForgetSound ==
  ASSUME NEW S \in Sets, NEW b \in BankId, b # 0,
         HomeStands(S), FreshBanks(S), RowsHeld(S), AirHeld(S), AirLit(S), AnchorHolds(S),
         Slots(S, b) = {}, S.currentBank # b,
         \A a \in BankId : a # b /\ S.manager[a] = "ssh" => Slots(S, a) # {},
         \A k \in BankId : k # b /\ S.carrier[k] # NoPair =>
           /\ S.manager[k] = "tmux" /\ S.carrier[k] \in Anchored(S)
           /\ \A j \in BankId : S.carrier[j] = S.carrier[k] => j = k
  PROVE  Sound(Forget(S, b))
<1> DEFINE T == Forget(S, b)
<1>0. /\ S.manager \in [BankId -> Managers] /\ S.carrier \in [BankId -> Pair \cup {NoPair}]
      /\ S.channel \in [BankId -> Slot]
  BY DEF Sets
<1>a. /\ T \in Sets /\ T.row = S.row /\ T.nextBankId = S.nextBankId
      /\ T.currentBank = S.currentBank
      /\ T.manager = [S.manager EXCEPT ![b] = "none"]
      /\ T.carrier = [S.carrier EXCEPT ![b] = NoPair]
      /\ T.channel = [S.channel EXCEPT ![b] = 1]
  BY ForgetFacts
<1> HIDE DEF T
<1>1. /\ \A a \in BankId : a # b => /\ T.manager[a] = S.manager[a]
                                    /\ T.carrier[a] = S.carrier[a]
                                    /\ T.channel[a] = S.channel[a]
      /\ T.manager[b] = "none" /\ T.carrier[b] = NoPair
  BY <1>0, <1>a
<1>2. Rows(T) = Rows(S) /\ \A a \in BankId : Slots(T, a) = Slots(S, a)
  BY <1>a DEF Rows, Slots, Open
<1>3. \A p \in Rows(S) : p \in Pair /\ p[1] \in BankId /\ p[1] # b
  <2> TAKE p \in Rows(S)
  <2>1. p \in Pair /\ p[1] \in BankId /\ p[2] \in Slot /\ p = <<p[1], p[2]>> /\ Open(S, p)
    BY PairParts DEF Rows
  <2>2. p[1] = b => p[2] \in Slots(S, b)
    BY <2>1 DEF Slots
  <2> QED BY <2>1, <2>2
<1>4. Anchored(T) = Anchored(S)
  BY <1>1, <1>2, <1>3 DEF Anchored
<1>5. WiresHold(T)
  BY <1>1, <1>4 DEF WiresHold
<1>6. RowsHeld(T) /\ SshBanksLit(T)
  BY <1>1, <1>2, <1>3 DEF RowsHeld, SshBanksLit, Held
<1>7. HomeStands(T) /\ FreshBanks(T) /\ AnchorHolds(T)
  BY <1>a, <1>1, <1>2, <1>4, ChannelsAssumption DEF HomeStands, FreshBanks, AnchorHolds, BankId
<1>8. S.currentBank \in BankId
  BY DEF Sets
<1>9. AirHeld(T) /\ AirLit(T)
  BY <1>a, <1>1, <1>2, <1>8 DEF AirHeld, AirLit, Held, OnAir
<1> QED BY <1>a, <1>1, <1>5, <1>6, <1>7, <1>9 DEF Sound, Frame, T

\* A row goes while another anchored row stays.
LEMMA RemoveSound ==
  ASSUME NEW S, Sound(S), NEW p \in Rows(S), ~IsCarrier(S, p),
         \E q \in Anchored(S) : q # p
  PROVE  Sound(RemoveRow(S, p))
<1> DEFINE gone   == [S EXCEPT !.row[p] = Dark, !.attachmentEnded = @ \ {p}]
           landed == IF OnAir(S) = p /\ Rows(gone) # {}
                     THEN SetCurrent(gone, NearestRow(Rows(gone), p, p[1]))
                     ELSE gone
<1>1. /\ S \in Sets /\ p \in Pair /\ p[1] \in BankId /\ p[2] \in Slot
      /\ p = <<p[1], p[2]>>
  BY PairParts DEF Sound, Frame, Rows
<1>2. /\ gone \in Sets /\ gone.manager = S.manager /\ gone.carrier = S.carrier
      /\ gone.nextBankId = S.nextBankId /\ gone.currentBank = S.currentBank
      /\ gone.channel = S.channel /\ gone.row = [S.row EXCEPT ![p] = Dark]
  BY <1>1 DEF Sets
<1> HIDE DEF gone
<1>3. \A q \in Pair : Open(gone, q) <=> Open(S, q) /\ q # p
  BY <1>1, <1>2 DEF Open, Sets
<1>4. Rows(gone) = Rows(S) \ {p} /\ Anchored(gone) = Anchored(S) \ {p}
  BY <1>2, <1>3 DEF Rows, Anchored
<1>5. PICK q \in Anchored(S) : q # p
  OBVIOUS
<1>6. Anchored(gone) # {} /\ Rows(gone) # {}
  BY <1>4, <1>5 DEF Anchored
<1>7. \A k \in BankId : S.carrier[k] # NoPair => S.carrier[k] # p
  BY DEF IsCarrier, CarriedBanks
<1>8. WiresHold(gone)
  BY <1>2, <1>4, <1>7 DEF WiresHold, Sound, Frame
<1>9. RowsHeld(gone) /\ HomeStands(gone) /\ FreshBanks(gone) /\ AnchorHolds(gone)
  BY <1>2, <1>4, <1>6
     DEF RowsHeld, HomeStands, FreshBanks, AnchorHolds, Sound, Frame, Held
<1>10. \A a \in BankId : a # p[1] => Slots(gone, a) = Slots(S, a)
  <2> SUFFICES ASSUME NEW a \in BankId, a # p[1], NEW c \in Slot
               PROVE  Open(gone, <<a, c>>) <=> Open(S, <<a, c>>)
    BY DEF Slots
  <2>1. <<a, c>> \in Pair /\ <<a, c>> # p
    BY <1>1 DEF Pair
  <2> QED BY <2>1, <1>3
<1>11. \A a \in BankId : a # p[1] /\ S.manager[a] = "ssh" => Slots(gone, a) # {}
  BY <1>10 DEF SshBanksLit, Sound, Frame
\* The air, wherever it has landed.
<1>12. /\ landed \in Sets /\ landed.manager = S.manager /\ landed.carrier = S.carrier
       /\ landed.row = gone.row /\ landed.nextBankId = S.nextBankId
  <2>1. NearestRow(Rows(gone), p, p[1]) \in Pair
    BY <1>6, NearestIn DEF Rows
  <2> QED BY <1>2, <2>1, SetCurrentFacts
<1>13. /\ Rows(landed) = Rows(gone) /\ Anchored(landed) = Anchored(gone)
       /\ \A a \in BankId : Slots(landed, a) = Slots(gone, a)
  BY <1>2, <1>12 DEF Rows, Anchored, Slots, Open
<1>14. OnAir(landed) \in Rows(gone) \/
         (landed.currentBank = S.currentBank /\ OnAir(S) # p /\ OnAir(landed) = OnAir(S))
  <2>1. CASE OnAir(S) = p
    <3> DEFINE nearest == NearestRow(Rows(gone), p, p[1])
    <3>1. nearest \in Rows(gone) /\ nearest \in Pair
      BY <1>6, NearestIn DEF Rows
    <3>2. Held(gone, nearest[1])
      BY <1>9, <3>1 DEF RowsHeld
    <3> HIDE DEF nearest
    <3>3. OnAir(SetCurrent(gone, nearest)) = nearest
      BY <1>2, <3>1, <3>2, SetCurrentFacts
    <3> QED BY <2>1, <1>6, <3>1, <3>3 DEF nearest
  <2>2. CASE OnAir(S) # p
    BY <2>2, <1>2 DEF OnAir, Held
  <2> QED BY <2>1, <2>2
<1> HIDE DEF landed
<1>15. WiresHold(landed) /\ RowsHeld(landed) /\ HomeStands(landed) /\ FreshBanks(landed)
       /\ AnchorHolds(landed)
  BY <1>2, <1>8, <1>9, <1>12, <1>13
     DEF WiresHold, RowsHeld, HomeStands, FreshBanks, AnchorHolds, Held
<1>16. landed.currentBank = OnAir(landed)[1] /\ landed.currentBank \in BankId
  BY <1>12 DEF OnAir, Sets
<1>17. AirHeld(landed)
  <2>1. CASE OnAir(landed) \in Rows(gone)
    BY <2>1, <1>9, <1>2, <1>12, <1>16 DEF AirHeld, RowsHeld, Held
  <2>2. CASE landed.currentBank = S.currentBank
    BY <2>2, <1>12 DEF AirHeld, Held, Sound
  <2> QED BY <2>1, <2>2, <1>14
<1>18. AirLit(landed)
  <2>1. CASE OnAir(landed) \in Rows(gone)
    BY <2>1, <1>13 DEF AirLit
  <2>2. CASE landed.currentBank = S.currentBank /\ OnAir(S) # p /\ OnAir(landed) = OnAir(S)
    <3>1. CASE OnAir(S) \in Rows(S)
      BY <3>1, <2>2, <1>4, <1>13 DEF AirLit
    <3>2. CASE S.manager[S.currentBank] = "tmux"
      BY <3>2, <2>2, <1>12 DEF AirLit
    <3>3. CASE Slots(S, S.currentBank) = {}
      <4>1. \A a \in BankId : Slots(gone, a) \subseteq Slots(S, a)
        BY <1>3 DEF Slots, Pair
      <4> QED BY <3>3, <4>1, <2>2, <1>13, <1>16 DEF AirLit
    <3> QED BY <3>1, <3>2, <3>3 DEF Sound, AirLit
  <2> QED BY <2>1, <2>2, <1>14
<1>19. CASE S.manager[p[1]] = "ssh" /\ Slots(gone, p[1]) = {}
  <2>1. p[1] # 0
    BY <1>19 DEF Sound, Frame, HomeStands
  <2>2. landed.currentBank # p[1]
    <3>1. CASE OnAir(landed) \in Rows(gone)
      <4>1. OnAir(landed) \in Pair /\ Open(gone, OnAir(landed))
        BY <3>1 DEF Rows
      <4>2. OnAir(landed)[1] = p[1] => OnAir(landed)[2] \in Slots(gone, p[1])
        BY <4>1, PairParts DEF Slots
      <4> QED BY <4>2, <1>16, <1>19
    <3>2. CASE landed.currentBank = S.currentBank /\ OnAir(S) # p /\ OnAir(landed) = OnAir(S)
      <4> SUFFICES ASSUME S.currentBank = p[1] PROVE FALSE
        BY <3>2
      <4>1. p[2] \in Slots(S, p[1])
        BY <1>1 DEF Slots, Rows
      <4>2. OnAir(S) \in Rows(S)
        BY <4>1, <1>19 DEF Sound, AirLit
      <4>3. OnAir(S) \in Rows(gone)
        BY <4>2, <3>2, <1>4
      <4>4. OnAir(S) \in Pair /\ OnAir(S)[1] = p[1] /\ Open(gone, OnAir(S))
        BY <4>3 DEF Rows, OnAir
      <4>5. OnAir(S)[2] \in Slots(gone, p[1])
        BY <4>4, PairParts DEF Slots
      <4> QED BY <4>5, <1>19
    <3> QED BY <3>1, <3>2, <1>14
  <2>3. Slots(landed, p[1]) = {}
    BY <1>1, <1>13, <1>19
  <2>4. \A a \in BankId : a # p[1] /\ landed.manager[a] = "ssh" => Slots(landed, a) # {}
    BY <1>11, <1>12, <1>13
  <2>5. Sound(Forget(landed, p[1]))
    BY <1>1, <1>12, <1>15, <1>17, <1>18, <2>1, <2>2, <2>3, <2>4, ForgetSound DEF WiresHold
  <2>6. RemoveRow(S, p) = Forget(landed, p[1])
    BY <1>19 DEF RemoveRow, gone, landed
  <2> QED BY <2>5, <2>6
<1>20. CASE ~(S.manager[p[1]] = "ssh" /\ Slots(gone, p[1]) = {})
  <2>1. SshBanksLit(landed)
    BY <1>11, <1>12, <1>13, <1>20 DEF SshBanksLit
  <2>2. Sound(landed)
    BY <2>1, <1>12, <1>15, <1>17, <1>18 DEF Sound, Frame
  <2>3. RemoveRow(S, p) = landed
    BY <1>20 DEF RemoveRow, gone, landed
  <2> QED BY <2>2, <2>3
<1> QED BY <1>19, <1>20

\* A bank's rows, its wire and its place go, and the air lands elsewhere. What
\* stands is every row of every other bank.
\* T is S without bank k, and stands.
Collapsed(S, k, T) ==
  /\ Sound(T)
  /\ Rows(T) = {p \in Rows(S) : p[1] # k}
  /\ T.manager = [S.manager EXCEPT ![k] = "none"]
  /\ T.carrier = [S.carrier EXCEPT ![k] = NoPair]

LEMMA Collapses ==
  ASSUME NEW S, Sound(S), NEW k \in BankId, S.manager[k] = "tmux", NEW reason \in BOOLEAN
  PROVE  Collapsed(S, k, CollapseBank(S, k, reason))
<1> SUFFICES LET T == CollapseBank(S, k, reason)
           IN  /\ Sound(T)
               /\ Rows(T) = {p \in Rows(S) : p[1] # k}
               /\ T.manager = [S.manager EXCEPT ![k] = "none"]
               /\ T.carrier = [S.carrier EXCEPT ![k] = NoPair]
  BY DEF Collapsed
<1> DEFINE carrier == S.carrier[k]
           stands  == carrier # NoPair /\ Open(S, carrier) /\ carrier[1] # k
           kept    == {p \in S.attachmentEnded : p[1] # k}
           ended   == IF ~stands THEN kept
                      ELSE IF reason THEN kept \cup {carrier} ELSE kept \ {carrier}
           swept   == [S EXCEPT !.row = [p \in Pair |-> IF p[1] = k THEN Dark ELSE S.row[p]],
                                !.attachmentEnded = ended]
           gone    == Forget(swept, k)
           hole    == IF Slots(S, k) = {} THEN NoPair ELSE <<k, 0>>
           T       == CollapseBank(S, k, reason)
<1>1. /\ S \in Sets /\ S.manager \in [BankId -> Managers]
      /\ S.carrier \in [BankId -> Pair \cup {NoPair}] /\ S.channel \in [BankId -> Slot]
      /\ S.row \in [Pair -> Session \cup {Dark}] /\ S.attachmentEnded \in SUBSET Pair
      /\ S.currentBank \in BankId
  BY DEF Sound, Frame, Sets
<1>2. ended \in SUBSET Pair
  BY <1>1
<1> HIDE DEF ended
<1>3. /\ swept \in Sets
      /\ swept.manager = S.manager /\ swept.carrier = S.carrier /\ swept.channel = S.channel
      /\ swept.row = [p \in Pair |-> IF p[1] = k THEN Dark ELSE S.row[p]]
      /\ swept.nextBankId = S.nextBankId /\ swept.currentBank = S.currentBank
  BY <1>1, <1>2 DEF Sets
<1> HIDE DEF swept
<1>4. /\ gone \in Sets
      /\ gone.manager = [swept.manager EXCEPT ![k] = "none"]
      /\ gone.carrier = [swept.carrier EXCEPT ![k] = NoPair]
      /\ gone.channel = [swept.channel EXCEPT ![k] = 1]
      /\ gone.row = swept.row
      /\ gone.nextBankId = swept.nextBankId /\ gone.currentBank = swept.currentBank
  BY <1>3, ForgetFacts
<1>5. T = IF S.currentBank # k THEN gone
          ELSE IF stands THEN SetCurrent(gone, carrier)
          ELSE IF Rows(gone) # {} THEN SetCurrent(gone, NearestRow(Rows(gone), hole, 0))
          ELSE gone
  BY DEF CollapseBank, swept, ended
<1> HIDE DEF gone, T
<1>0. /\ gone.manager = [S.manager EXCEPT ![k] = "none"]
      /\ gone.carrier = [S.carrier EXCEPT ![k] = NoPair]
      /\ gone.channel = [S.channel EXCEPT ![k] = 1]
      /\ gone.row = [p \in Pair |-> IF p[1] = k THEN Dark ELSE S.row[p]]
      /\ gone.nextBankId = S.nextBankId /\ gone.currentBank = S.currentBank
  BY <1>3, <1>4
<1>6. /\ \A a \in BankId : a # k => /\ gone.manager[a] = S.manager[a]
                                    /\ gone.carrier[a] = S.carrier[a]
                                    /\ gone.channel[a] = S.channel[a]
      /\ gone.manager[k] = "none" /\ gone.carrier[k] = NoPair
  BY <1>1, <1>0, <1>4
<1>7. \A p \in Pair : p[1] \in BankId /\ (Open(gone, p) <=> Open(S, p) /\ p[1] # k)
  BY <1>0, <1>4, PairParts DEF Open
<1>8. Rows(gone) = {p \in Rows(S) : p[1] # k}
  BY <1>7 DEF Rows
<1>9. Anchored(gone) = Anchored(S)
  BY <1>6, <1>7, <1>8 DEF Anchored, Rows
<1>10. \A a \in BankId : a # k => Slots(gone, a) = Slots(S, a)
  <2> SUFFICES ASSUME NEW a \in BankId, a # k, NEW c \in Slot
               PROVE  Open(gone, <<a, c>>) <=> Open(S, <<a, c>>)
    BY DEF Slots
  <2>1. <<a, c>> \in Pair
    BY DEF Pair
  <2> QED BY <2>1, <1>7
<1>11. WiresHold(gone)
  BY <1>6, <1>9 DEF WiresHold, Sound, Frame
<1>12. RowsHeld(gone) /\ SshBanksLit(gone)
  BY <1>6, <1>7, <1>8, <1>10 DEF RowsHeld, SshBanksLit, Sound, Frame, Held, Rows
<1>13. HomeStands(gone) /\ FreshBanks(gone) /\ AnchorHolds(gone)
  <2>1. k # 0
    BY DEF Sound, Frame, HomeStands
  <2>2. 0 \in BankId
    BY ChannelsAssumption DEF BankId
  <2>3. Anchored(S) # {}
    BY DEF Sound, Frame, AnchorHolds
  <2> QED BY <2>1, <2>2, <2>3, <1>0, <1>4, <1>6, <1>9
          DEF HomeStands, FreshBanks, AnchorHolds, Sound, Frame
<1>14. Frame(gone)
  BY <1>0, <1>4, <1>11, <1>12, <1>13 DEF Frame
<1>15. CASE S.currentBank # k
  <2>0. T = gone
    BY <1>5, <1>15
  <2>1. OnAir(gone) = OnAir(S) /\ OnAir(S)[1] = S.currentBank
    <3>1. /\ gone.currentBank = S.currentBank
          /\ gone.manager[S.currentBank] = S.manager[S.currentBank]
          /\ gone.channel[S.currentBank] = S.channel[S.currentBank]
      BY <1>0, <1>1, <1>6, <1>15
    <3> QED BY <3>1 DEF OnAir, Held
  <2>2. AirHeld(gone)
    BY <1>1, <1>0, <1>4, <1>6, <1>15 DEF AirHeld, Held, Sound
  <2>3. AirLit(gone)
    BY <1>1, <1>0, <1>4, <1>6, <1>8, <1>10, <1>15, <2>1 DEF AirLit, Sound
  <2> QED BY <2>0, <2>2, <2>3, <1>0, <1>8, <1>14 DEF Sound, T
<1>16. CASE S.currentBank = k
  <2>1. PICK p \in Rows(gone) : T = SetCurrent(gone, p)
    <3>1. CASE stands
      <4>1. carrier \in Rows(gone)
        BY <1>1, <1>8, <3>1 DEF Rows
      <4> QED BY <3>1, <4>1, <1>5, <1>16
    <3>2. CASE ~stands
      <4>1. Rows(gone) # {} /\ Rows(gone) \subseteq Pair
        <5>1. Anchored(S) # {}
          BY DEF Sound, Frame, AnchorHolds
        <5> QED BY <5>1, <1>9 DEF Anchored, Rows
      <4>2. NearestRow(Rows(gone), hole, 0) \in Rows(gone)
        BY <4>1, NearestIn
      <4> QED BY <3>2, <4>1, <4>2, <1>5, <1>16
    <3> QED BY <3>1, <3>2
  <2>2. p \in Pair
    BY DEF Rows
  <2>3. Sound(SetCurrent(gone, p))
    BY <1>14, LandingOnRow
  <2>4. /\ SetCurrent(gone, p).manager = gone.manager
        /\ SetCurrent(gone, p).carrier = gone.carrier
        /\ SetCurrent(gone, p).row = gone.row
    BY <1>0, <1>4, <2>2, SetCurrentFacts
  <2>5. Rows(SetCurrent(gone, p)) = Rows(gone)
    BY <2>4 DEF Rows, Open
  <2> QED BY <2>1, <2>3, <2>4, <2>5, <1>0, <1>4, <1>8 DEF T
<1> QED BY <1>15, <1>16

LEMMA CollapseSound ==
  ASSUME NEW S, Sound(S), NEW k \in BankId, S.manager[k] = "tmux", NEW reason \in BOOLEAN
  PROVE  LET T == CollapseBank(S, k, reason)
         IN  /\ Sound(T)
             /\ Rows(T) = {p \in Rows(S) : p[1] # k}
             /\ T.manager = [S.manager EXCEPT ![k] = "none"]
             /\ T.carrier = [S.carrier EXCEPT ![k] = NoPair]
BY Collapses DEF Collapsed

\* A carrier that dies takes its attachment first, and is then no carrier.
LEMMA CarrierDownSound ==
  ASSUME NEW S, Sound(S), NEW p \in Rows(S), S.manager[p[1]] # "tmux"
  PROVE  LET T == CarrierDown(S, p)
         IN  /\ Sound(T) /\ p \in Rows(T) /\ ~IsCarrier(T, p)
             /\ T.manager[p[1]] = S.manager[p[1]]
<1> DEFINE k == CHOOSE a \in CarriedBanks(S, p) : TRUE
           T == CarrierDown(S, p)
<1>1. CASE ~IsCarrier(S, p)
  BY <1>1 DEF CarrierDown
<1>2. CASE IsCarrier(S, p)
  <2>1. k \in BankId /\ S.carrier[k] = p /\ p # NoPair
    BY <1>2 DEF IsCarrier, CarriedBanks
  <2>2. S.manager[k] = "tmux" /\ \A j \in BankId : S.carrier[j] = p => j = k
    BY <2>1 DEF Sound, Frame, WiresHold
  <2>3. T = CollapseBank(S, k, FALSE)
    BY <1>2 DEF CarrierDown
  <2> HIDE DEF k, T
  <2>4. /\ Sound(T)
        /\ Rows(T) = {q \in Rows(S) : q[1] # k}
        /\ T.manager = [S.manager EXCEPT ![k] = "none"]
        /\ T.carrier = [S.carrier EXCEPT ![k] = NoPair]
    <3>1. Collapsed(S, k, T)
      BY <2>1, <2>2, <2>3, Collapses
    <3> QED BY <3>1 DEF Collapsed
  <2>5. p[1] # k /\ p[1] \in BankId
    BY <2>2, PairParts DEF Rows
  <2>6. /\ S.manager \in [BankId -> Managers]
        /\ S.carrier \in [BankId -> Pair \cup {NoPair}]
    BY DEF Sound, Frame, Sets
  <2>7. \A j \in BankId : T.carrier[j] # p
    BY <2>1, <2>2, <2>4, <2>6
  <2> QED BY <2>4, <2>5, <2>6, <2>7 DEF IsCarrier, CarriedBanks, T
<1> QED BY <1>1, <1>2

-----------------------------------------------------------------------------
(***************************************************************************)
(* Every call keeps the invariant.                                         *)
(***************************************************************************)
\* The one row of an attachment's own bank is never a wire.
LEMMA TmuxRowCarriesNothing ==
  ASSUME NEW S, Sound(S), NEW p \in Rows(S), S.manager[p[1]] = "tmux"
  PROVE  ~IsCarrier(S, p) /\ \E q \in Anchored(S) : q # p
<1>1. \A q \in Anchored(S) : q # p
  BY DEF Anchored
<1>2. Anchored(S) # {}
  BY PairParts DEF Sound, Frame, AnchorHolds, Rows
<1>3. ~IsCarrier(S, p)
  BY <1>1 DEF IsCarrier, CarriedBanks, Sound, Frame, WiresHold
<1> QED BY <1>1, <1>2, <1>3

\* Where more than one anchored row stands, one stands besides any row.
LEMMA NotTheLast ==
  ASSUME NEW S, ~OneAnchored(S), NEW p
  PROVE  \E q \in Anchored(S) : q # p
BY DEF OneAnchored

\* Arming the tube moves nothing.
LEMMA StartedSound ==
  ASSUME NEW S, Sound(S)
  PROVE  Sound(Started(S))
<1> DEFINE T == Started(S)
<1>1. S \in Sets
  BY DEF Sound, Frame
<1>2. /\ T \in Sets /\ T.manager = S.manager /\ T.carrier = S.carrier /\ T.row = S.row
      /\ T.nextBankId = S.nextBankId /\ T.currentBank = S.currentBank /\ T.channel = S.channel
  BY <1>1 DEF Started, Sets
<1> HIDE DEF T
<1>3. Sound(T)
  BY <1>2, SoundKept
<1> QED BY <1>3 DEF T

\* A shell on a home slot.
LEMMA OpenChannelSound ==
  ASSUME NEW S, Sound(S), NEW c \in Slot, NEW s \in Session
  PROVE  Sound(OpenChannel(S, c, s))
<1>1. <<0, c>> \in Pair /\ Held(S, 0)
  BY ChannelsAssumption DEF Pair, BankId, Sound, Frame, HomeStands, Held
<1> QED BY <1>1, InsertOnAir DEF OpenChannel, Sound

\* The user's close of a row, refused, granted or granted with the window.
LEMMA CloseRowSound ==
  ASSUME IInv, NEW S, Sound(S), NEW p, CloseRow(S, p)
  PROVE  IInv'
<1>1. CASE set' = S
  BY <1>1 DEF CloseRow, IInv
<1>2. CASE set' # S
  <2>1. /\ p \in Rows(S) /\ ~IsCarrier(S, p) /\ ~OneAnchored(S)
        /\ set' = RemoveRow(S, p) /\ power' = power
    BY <1>2 DEF CloseRow
  <2>2. Sound(RemoveRow(S, p))
    BY <2>1, NotTheLast, RemoveSound
  <2> QED BY <2>1, <2>2 DEF IInv
<1> QED BY <1>1, <1>2

\* The set of a window with no channel yet.
LEMMA InitIInv == Init => IInv
<1> SUFFICES ASSUME Init PROVE IInv
  OBVIOUS
<1>1. set = New /\ power = "off" /\ 0 \in BankId /\ 1 \in Slot
  BY ChannelsAssumption DEF Init, BankId, Slot
<1>2. New \in Sets
  BY <1>1, ChannelsAssumption DEF New, Sets, Managers, Pending, BankId
<1>3. /\ New.manager = [b \in BankId |-> IF b = 0 THEN "home" ELSE "none"]
      /\ New.carrier = [b \in BankId |-> NoPair]
      /\ New.row = [p \in Pair |-> Dark]
      /\ New.nextBankId = 1 /\ New.currentBank = 0
  BY DEF New
<1>4. Rows(New) = {} /\ \A b \in BankId : Slots(New, b) = {}
  BY <1>3 DEF Rows, Slots, Open, Pair
<1>5. Frame(New)
  BY <1>1, <1>2, <1>3, <1>4
     DEF Frame, HomeStands, FreshBanks, WiresHold, RowsHeld, SshBanksLit, AnchorHolds
<1>6. AirHeld(New) /\ AirLit(New)
  BY <1>1, <1>3, <1>4 DEF AirHeld, AirLit, Held
<1> QED BY <1>1, <1>5, <1>6 DEF IInv, Sound

\* One step per call of the user's.
LEMMA UserKeeps == IInv /\ UserCall => IInv'
<1> SUFFICES ASSUME IInv, UserCall PROVE IInv'
  OBVIOUS
<1>0. Sound(set) /\ set \in Sets /\ 0 \in BankId /\ Fresh \subseteq Session
  BY ChannelsAssumption DEF IInv, Sound, Frame, BankId, Fresh
<1>1. ASSUME NEW c \in Slot, OpenHome(c) PROVE IInv'
  BY <1>0, <1>1, OpenChannelSound DEF OpenHome, On, IInv
<1>2. ASSUME NEW b \in BankId, NewChannel(b) PROVE IInv'
  <2>1. CASE set.manager[b] = "tmux"
    <3>1. NextSlot(set, b) \in Pending
      BY NextSlotFacts DEF Pending
    <3>2. set' = AskForWindow(set, b, NextSlot(set, b)) /\ power' = power
      BY <1>2, <2>1 DEF NewChannel, On
    <3> QED BY <1>0, <3>1, <3>2, AskSound DEF IInv
  <2>2. CASE set.manager[b] # "tmux"
    <3>1. NextSlot(set, 0) \in Slot
      BY <1>2, <2>2, NextSlotFacts DEF NewChannel
    <3>2. /\ \E s \in Fresh : set' = OpenChannel(set, NextSlot(set, 0), s)
          /\ power' = power
      BY <1>2, <2>2 DEF NewChannel, On
    <3> QED BY <1>0, <3>1, <3>2, OpenChannelSound DEF IInv
  <2> QED BY <2>1, <2>2
<1>3. ASSUME NEW b \in BankId, TurnToBank(b) PROVE IInv'
  BY <1>0, <1>3, SelectBankSound DEF TurnToBank, On, IInv, Sound
<1>4. ASSUME NEW b \in BankId, NEW c \in Slot, AskSlot(b, c) PROVE IInv'
  <2>1. c \in Pending
    BY DEF Pending
  <2> QED BY <1>0, <1>4, <2>1, AskSound DEF AskSlot, On, IInv
<1>5. ASSUME NEW b \in BankId, NEW c \in Slot, OpenSshChannel(b, c) PROVE IInv'
  <2>1. /\ set.manager[b] = "ssh" /\ power' = power
        /\ \E s \in Fresh : set' = SetCurrent(InsertRow(set, <<b, c>>, s), <<b, c>>)
    BY <1>5 DEF OpenSshChannel, On
  <2>2. <<b, c>> \in Pair /\ Held(set, <<b, c>>[1])
    BY <2>1 DEF Pair, Held
  <2> QED BY <1>0, <2>1, <2>2, InsertOnAir DEF IInv, Sound
<1>6. ASSUME NEW b \in BankId, NEW c \in Slot, Store(b, c) PROVE IInv'
  BY <1>0, <1>6, StoreSound DEF Store, On, IInv
<1>7. CASE OpenSsh
  BY <1>0, <1>7, OpenSshBankSound DEF OpenSsh, On, CanRaise, IInv
<1>8. CASE CloseChannel
  BY <1>0, <1>8, CloseRowSound DEF CloseChannel
<1>9. ASSUME NEW p \in Pair, Select(p) PROVE IInv'
  BY <1>0, <1>9, LandingOnRow DEF Select, On, IInv, Sound, Rows
<1>10. ASSUME NEW up \in BOOLEAN, CycleOpen(up) PROVE IInv'
  BY <1>0, <1>10, CycleSound DEF CycleOpen, On, IInv
<1> QED BY <1>1, <1>2, <1>3, <1>4, <1>5, <1>6, <1>7, <1>8, <1>9, <1>10 DEF UserCall

\* One step per call of a gateway's.
LEMMA GatewayKeeps == IInv /\ GatewayCall => IInv'
<1> SUFFICES ASSUME IInv, GatewayCall PROVE IInv'
  OBVIOUS
<1>0. Sound(set) /\ Fresh \subseteq Session
  BY DEF IInv, Fresh
<1>1. ASSUME NEW b \in BankId, NEW r \in Pending, WindowOpened(b, r) PROVE IInv'
  BY <1>0, <1>1, OpenTmuxWindowSound DEF WindowOpened, On, IInv
<1>2. ASSUME NEW b \in BankId, NEW c \in Slot, WindowClosed(b, c) PROVE IInv'
  <2>1. /\ set.manager[b] = "tmux" /\ Open(set, <<b, c>>) /\ power' = power
        /\ set' = RemoveRow(set, <<b, c>>)
    BY <1>2 DEF WindowClosed, On
  <2>2. <<b, c>> \in Rows(set) /\ set.manager[<<b, c>>[1]] = "tmux"
    BY <2>1 DEF Rows, Pair
  <2>3. Sound(RemoveRow(set, <<b, c>>))
    BY <1>0, <2>2, TmuxRowCarriesNothing, RemoveSound
  <2> QED BY <2>1, <2>3 DEF IInv
<1>3. ASSUME NEW b \in BankId, Settle(b) PROVE IInv'
  BY <1>0, <1>3, SettleSound DEF Settle, On, IInv
<1>4. ASSUME NEW b \in BankId, NEW reason \in BOOLEAN, Collapse(b, reason) PROVE IInv'
  BY <1>0, <1>4, CollapseSound DEF Collapse, On, IInv
<1>5. CASE AttachFound
  <2>1. /\ set.nextBankId <= MaxBank /\ set' = PushBank(set, "tmux", NoPair)
        /\ power' = power /\ \E b \in BankId : set.manager[b] = "tmux"
    BY <1>5 DEF AttachFound, On, CanRaise
  <2>2. Anchored(set) # {}
    BY <1>0, <2>1 DEF Sound, Frame, AnchorHolds
  <2>3. Sound(PushBank(set, "tmux", NoPair))
    BY <1>0, <2>1, <2>2, PushTmux
  <2> QED BY <2>1, <2>3 DEF IInv
<1> QED BY <1>1, <1>2, <1>3, <1>4, <1>5 DEF GatewayCall

\* What a row's own program does: dies, or attaches.
LEMMA RowKeeps == ASSUME NEW p \in Pair PROVE IInv /\ RowCall(p) => IInv'
<1> SUFFICES ASSUME IInv, RowCall(p) PROVE IInv'
  OBVIOUS
<1>0. Sound(set)
  BY DEF IInv
<1>1. CASE SessionDied(p)
  <2> DEFINE down == CarrierDown(set, p)
  <2>1. p \in Rows(set) /\ set.manager[p[1]] # "tmux"
    BY <1>1 DEF SessionDied, Rows
  <2>2. Sound(down) /\ p \in Rows(down) /\ ~IsCarrier(down, p)
    BY <1>0, <2>1, CarrierDownSound
  <2>3. IF OneAnchored(down)
        THEN power' = "closing" /\ set' = down
        ELSE set' = RemoveRow(down, p) /\ UNCHANGED power
    BY <1>1 DEF SessionDied
  <2> HIDE DEF down
  <2>4. ~OneAnchored(down) => Sound(RemoveRow(down, p))
    BY <2>2, NotTheLast, RemoveSound
  <2> QED BY <2>2, <2>3, <2>4 DEF IInv
<1>2. CASE Attach(p)
  BY <1>0, <1>2, AttachSound DEF Attach, On, CanRaise, Rows, IInv
<1> QED BY <1>1, <1>2 DEF RowCall

\* Every step.
LEMMA StepKeeps == IInv /\ [Next]_vars => IInv'
<1> SUFFICES ASSUME IInv, [Next]_vars PROVE IInv'
  OBVIOUS
<1>0. Sound(set) /\ set \in Sets /\ Fresh \subseteq Session /\ 1 \in Slot
  BY ChannelsAssumption DEF IInv, Sound, Frame, Fresh, Slot
<1>1. CASE Start
  BY <1>0, <1>1, StartedSound, OpenChannelSound, OpenSshBankSound
     DEF Start, CanRaise, IInv
<1>2. CASE TakeDegauss
  <2>1. /\ set' \in Sets /\ set'.manager = set.manager /\ set'.carrier = set.carrier
        /\ set'.row = set.row /\ set'.nextBankId = set.nextBankId
        /\ set'.currentBank = set.currentBank /\ set'.channel = set.channel
    BY <1>0, <1>2 DEF TakeDegauss, Sets
  <2>2. Sound(set')
    BY <1>0, <2>1, SoundKept
  <2> QED BY <1>2, <2>2 DEF TakeDegauss, On, IInv
<1>3. CASE TypeAtRow
  <2>1. /\ set' \in Sets /\ set'.manager = set.manager /\ set'.carrier = set.carrier
        /\ set'.row = set.row /\ set'.nextBankId = set.nextBankId
        /\ set'.currentBank = set.currentBank /\ set'.channel = set.channel
    BY <1>0, <1>3 DEF TypeAtRow, Sets
  <2>2. Sound(set')
    BY <1>0, <2>1, SoundKept
  <2> QED BY <1>3, <2>2 DEF TypeAtRow, On, IInv
<1>4. CASE Closed \/ UNCHANGED vars
  BY <1>4 DEF Closed, vars, IInv
<1> QED BY <1>1, <1>2, <1>3, <1>4, UserKeeps, GatewayKeeps, RowKeeps DEF Next

-----------------------------------------------------------------------------
(***************************************************************************)
(* The wires, step by step.                                                *)
(***************************************************************************)
\* Turning the air, wherever to, touches no wire, no row and no bank.
LEMMA TurnFacts ==
  ASSUME NEW S \in Sets, NEW p
  PROVE  /\ SetCurrent(S, p).row = S.row
         /\ SetCurrent(S, p).carrier = S.carrier
         /\ SetCurrent(S, p).manager = S.manager
BY DEF SetCurrent, Sets

\* Where neither the wires nor the rows change, every wire is kept.
LEMMA WiresSame ==
  ASSUME NEW S, NEW T, T.carrier = S.carrier, T.row = S.row
  PROVE  WiresKept(S, T)
BY DEF WiresKept

\* A wire's row is an anchored row, so a slot that was dark or a tmux bank's is
\* not one.
LEMMA WiresInsert ==
  ASSUME NEW S, Frame(S), NEW p \in Pair, ~Open(S, p) \/ S.manager[p[1]] = "tmux",
         NEW s, NEW T,
         T.carrier = S.carrier, T.row = [S.row EXCEPT ![p] = s]
  PROVE  WiresKept(S, T)
<1>1. \A k \in BankId : S.carrier[k] # NoPair => S.carrier[k] # p /\ S.carrier[k] \in Pair
  BY DEF Frame, WiresHold, Anchored, Rows
<1>2. S.row \in [Pair -> Session \cup {Dark}]
  BY DEF Frame, Sets
<1> QED BY <1>1, <1>2 DEF WiresKept

\* A row that carries nothing goes.
LEMMA WiresRemove ==
  ASSUME NEW S, Sound(S), NEW p \in Rows(S), ~IsCarrier(S, p)
  PROVE  /\ WiresKept(S, RemoveRow(S, p))
         /\ \A k \in BankId : S.manager[k] = "none" => RemoveRow(S, p).manager[k] = "none"
<1> DEFINE gone   == [S EXCEPT !.row[p] = Dark, !.attachmentEnded = @ \ {p}]
           landed == IF OnAir(S) = p /\ Rows(gone) # {}
                     THEN SetCurrent(gone, NearestRow(Rows(gone), p, p[1]))
                     ELSE gone
<1>1. S \in Sets /\ p \in Pair /\ p[1] \in BankId
  BY PairParts DEF Sound, Frame, Rows
<1>2. /\ S.manager \in [BankId -> Managers] /\ S.carrier \in [BankId -> Pair \cup {NoPair}]
      /\ S.row \in [Pair -> Session \cup {Dark}]
  BY <1>1 DEF Sets
<1>3. /\ gone \in Sets /\ gone.manager = S.manager /\ gone.carrier = S.carrier
      /\ gone.row = [S.row EXCEPT ![p] = Dark]
  BY <1>1 DEF Sets
<1> HIDE DEF gone
<1>4. /\ landed \in Sets /\ landed.manager = S.manager /\ landed.carrier = S.carrier
      /\ landed.row = [S.row EXCEPT ![p] = Dark]
  <2>1. Rows(gone) # {} => NearestRow(Rows(gone), p, p[1]) \in Pair
    BY NearestIn DEF Rows
  <2> QED BY <1>3, <2>1, SetCurrentFacts
<1> HIDE DEF landed
<1>5. \A k \in BankId : S.carrier[k] # NoPair => S.carrier[k] # p /\ S.carrier[k] \in Pair
  <2>1. p # NoPair
    BY <1>1, PairParts, ChannelsAssumption DEF NoPair, Slot
  <2> QED BY <1>2, <2>1 DEF IsCarrier, CarriedBanks
<1>6. WiresKept(S, landed)
  BY <1>2, <1>4, <1>5 DEF WiresKept
<1>7. CASE S.manager[p[1]] = "ssh" /\ Slots(gone, p[1]) = {}
  <2> DEFINE T == Forget(landed, p[1])
  <2>1. RemoveRow(S, p) = T
    BY <1>7 DEF RemoveRow, gone, landed
  <2>a. /\ T.manager = [landed.manager EXCEPT ![p[1]] = "none"]
        /\ T.carrier = [landed.carrier EXCEPT ![p[1]] = NoPair]
        /\ T.row = landed.row
    BY <1>1, <1>4, ForgetFacts
  <2> HIDE DEF T
  <2>2. /\ T.manager = [S.manager EXCEPT ![p[1]] = "none"]
        /\ T.carrier = [S.carrier EXCEPT ![p[1]] = NoPair]
        /\ T.row = landed.row
    BY <1>4, <2>a
  <2>3. \A k \in BankId : k # p[1] => T.carrier[k] = S.carrier[k] /\ T.manager[k] = S.manager[k]
    BY <1>2, <2>2
  <2>4. T.manager[p[1]] = "none"
    BY <1>1, <1>2, <2>2
  <2>5. WiresKept(S, T)
    BY <1>1, <1>4, <1>6, <2>2, <2>3, <2>4 DEF WiresKept, Held
  <2> QED BY <2>1, <2>3, <2>4, <2>5
<1>8. CASE ~(S.manager[p[1]] = "ssh" /\ Slots(gone, p[1]) = {})
  <2>1. RemoveRow(S, p) = landed
    BY <1>8 DEF RemoveRow, gone, landed
  <2> QED BY <2>1, <1>4, <1>6
<1> QED BY <1>7, <1>8

\* A collapse darkens the bank's rows and leaves the others as they stand.
LEMMA CollapseRows ==
  ASSUME NEW S \in Sets, NEW k \in BankId, NEW reason \in BOOLEAN
  PROVE  CollapseBank(S, k, reason).row = [p \in Pair |-> IF p[1] = k THEN Dark ELSE S.row[p]]
<1> DEFINE carrier == S.carrier[k]
           stands  == carrier # NoPair /\ Open(S, carrier) /\ carrier[1] # k
           kept    == {p \in S.attachmentEnded : p[1] # k}
           ended   == IF ~stands THEN kept
                      ELSE IF reason THEN kept \cup {carrier} ELSE kept \ {carrier}
           swept   == [S EXCEPT !.row = [p \in Pair |-> IF p[1] = k THEN Dark ELSE S.row[p]],
                                !.attachmentEnded = ended]
           gone    == Forget(swept, k)
           hole    == IF Slots(S, k) = {} THEN NoPair ELSE <<k, 0>>
<1>2. CollapseBank(S, k, reason)
        = IF S.currentBank # k THEN gone
          ELSE IF stands THEN SetCurrent(gone, carrier)
          ELSE IF Rows(gone) # {} THEN SetCurrent(gone, NearestRow(Rows(gone), hole, 0))
          ELSE gone
  BY DEF CollapseBank
<1>3. ended \in SUBSET Pair
  BY DEF Sets
<1> HIDE DEF ended
<1>4. /\ swept \in Sets
      /\ swept.row = [p \in Pair |-> IF p[1] = k THEN Dark ELSE S.row[p]]
  BY <1>3 DEF Sets
<1> HIDE DEF swept
<1>5. gone \in Sets /\ gone.row = swept.row
  BY <1>4, ForgetFacts
<1> HIDE DEF gone
<1>6. CollapseBank(S, k, reason).row = gone.row
  BY <1>2, <1>5, TurnFacts
<1> QED BY <1>4, <1>5, <1>6

\* A bank goes with its own rows, and no wire runs over those.
LEMMA WiresCollapse ==
  ASSUME NEW S, Sound(S), NEW k \in BankId, S.manager[k] = "tmux", NEW reason \in BOOLEAN
  PROVE  WiresKept(S, CollapseBank(S, k, reason))
<1> DEFINE T == CollapseBank(S, k, reason)
<1>a. /\ T.manager = [S.manager EXCEPT ![k] = "none"]
      /\ T.carrier = [S.carrier EXCEPT ![k] = NoPair]
  BY CollapseSound
<1>b. \A q \in Pair : q[1] # k => T.row[q] = S.row[q]
  <2>1. T.row = [q \in Pair |-> IF q[1] = k THEN Dark ELSE S.row[q]]
    BY CollapseRows, Zenon DEF Sound, Frame
  <2> HIDE DEF T
  <2> QED BY <2>1
<1> HIDE DEF T
<1>2. S.manager \in [BankId -> Managers] /\ S.carrier \in [BankId -> Pair \cup {NoPair}]
  BY DEF Sound, Frame, Sets
<1>3. \A j \in BankId : S.carrier[j] # NoPair => S.carrier[j] \in Pair /\ S.carrier[j][1] # k
  BY DEF Sound, Frame, WiresHold, Anchored, Rows
<1>4. ~Held(T, k)
  BY <1>a, <1>2 DEF Held
<1>5. \A j \in BankId : j # k => T.carrier[j] = S.carrier[j]
  BY <1>a, <1>2
<1> QED BY <1>b, <1>3, <1>4, <1>5 DEF WiresKept, T

\* The new bank's id was nobody's, so no wire runs to it yet.
LEMMA WiresPush ==
  ASSUME NEW S, Frame(S), S.nextBankId <= MaxBank,
         NEW m \in Managers, NEW w \in Pair \cup {NoPair}
  PROVE  WiresKept(S, PushBank(S, m, w))
<1> DEFINE n == S.nextBankId
           T == PushBank(S, m, w)
<1>1. /\ n \in BankId /\ n # 0 /\ S.manager[n] = "none"
      /\ T \in Sets
      /\ T.manager = [S.manager EXCEPT ![n] = m]
      /\ T.carrier = [S.carrier EXCEPT ![n] = w]
      /\ T.row = S.row /\ T.nextBankId = n + 1
  BY PushFacts
<1> HIDE DEF T, n
<1>2. S.carrier \in [BankId -> Pair \cup {NoPair}] /\ S.carrier[n] = NoPair
  BY <1>1 DEF Frame, Sets, WiresHold
<1> QED BY <1>1, <1>2 DEF WiresKept, T

\* Two steps that keep the wires, the second raising no bank, keep them.
LEMMA WiresTrans ==
  ASSUME NEW S, NEW T, NEW U, WiresKept(S, T), WiresKept(T, U),
         \A k \in BankId : T.manager[k] = "none" => U.manager[k] = "none"
  PROVE  WiresKept(S, U)
BY DEF WiresKept, Held

\* A session the user opened on a dark slot.
LEMMA WiresOpened ==
  ASSUME NEW S, Frame(S), NEW p \in Pair, ~Open(S, p), NEW s \in Session, NEW q
  PROVE  WiresKept(S, SetCurrent(InsertRow(S, p, s), q))
<1> DEFINE T == InsertRow(S, p, s)
<1>1. T \in Sets /\ T.carrier = S.carrier /\ T.row = [S.row EXCEPT ![p] = s]
  BY DEF Frame, Sets, InsertRow
<1> HIDE DEF T
<1>2. SetCurrent(T, q).carrier = S.carrier /\ SetCurrent(T, q).row = [S.row EXCEPT ![p] = s]
  BY <1>1, TurnFacts
<1> QED BY <1>2, WiresInsert DEF T

\* A connection on a bank of its own.
LEMMA WiresSsh ==
  ASSUME NEW S, Frame(S), S.nextBankId <= MaxBank, NEW s \in Session
  PROVE  WiresKept(S, OpenSshBank(S, s))
<1> DEFINE n     == S.nextBankId
           first == <<n, 1>>
           T     == PushBank(S, "ssh", NoPair)
           U     == InsertRow(T, first, s)
<1>1. /\ n \in BankId /\ S.manager[n] = "none" /\ T \in Sets
      /\ T.carrier = [S.carrier EXCEPT ![n] = NoPair] /\ T.row = S.row
      /\ \A p \in Rows(S) : p[1] # n
  <2>0. "ssh" \in Managers /\ NoPair \in Pair \cup {NoPair}
    BY DEF Managers
  <2>1. Pushed(S, "ssh", NoPair, T)
    BY <2>0, Pushes
  <2> QED BY <2>1 DEF Pushed
<1> HIDE DEF T
<1>2. first \in Pair /\ first[1] = n /\ first \notin Rows(S)
  BY <1>1, ChannelsAssumption DEF Pair, Slot
<1> HIDE DEF first, n
<1>3. U \in Sets /\ U.carrier = T.carrier /\ U.row = [S.row EXCEPT ![first] = s]
  BY <1>1, <1>2 DEF InsertRow, Sets
<1> HIDE DEF U
<1>4. U.carrier = S.carrier
  <2>1. S.carrier \in [BankId -> Pair \cup {NoPair}] /\ S.carrier[n] = NoPair
    BY <1>1 DEF Frame, Sets, WiresHold
  <2> QED BY <2>1, <1>1, <1>3
<1>5. SetCurrent(U, first).carrier = S.carrier
      /\ SetCurrent(U, first).row = [S.row EXCEPT ![first] = s]
  BY <1>3, <1>4, TurnFacts
<1>6. WiresKept(S, SetCurrent(U, first))
  BY <1>2, <1>5, WiresInsert DEF Rows
<1> QED BY <1>6 DEF OpenSshBank, U, T, first, n

\* A tmux window, on a slot of a bank no wire runs over.
LEMMA WiresWindow ==
  ASSUME NEW S, Frame(S), NEW b \in BankId, S.manager[b] = "tmux",
         NEW s \in Session, NEW r \in Pending
  PROVE  WiresKept(S, OpenTmuxWindow(S, b, s, r))
<1> DEFINE c     == WindowSlot(S, b, r)
           taken == [S EXCEPT !.newWindowPending[b] = None]
           lit   == InsertRow(taken, <<b, c>>, s)
<1>1. S \in Sets /\ (c = 0 \/ c \in Slot)
  BY WindowSlotFacts DEF Frame
<1>2. taken \in Sets /\ taken.carrier = S.carrier /\ taken.row = S.row
  BY <1>1 DEF Sets, Pending
<1>3. OpenTmuxWindow(S, b, s, r)
        = IF c = 0 THEN taken
          ELSE IF S.newWindowPending[b] # None THEN SetCurrent(lit, <<b, c>>) ELSE lit
  BY DEF OpenTmuxWindow
<1> HIDE DEF taken, c
<1>4. WiresKept(S, taken)
  BY <1>2, WiresSame
<1>5. CASE c # 0
  <2>1. <<b, c>> \in Pair /\ <<b, c>>[1] = b
    BY <1>1, <1>5 DEF Pair
  <2>2. lit \in Sets /\ lit.carrier = S.carrier /\ lit.row = [S.row EXCEPT ![<<b, c>>] = s]
    BY <1>2, <2>1 DEF InsertRow, Sets
  <2> HIDE DEF lit
  <2>3. /\ SetCurrent(lit, <<b, c>>).carrier = S.carrier
        /\ SetCurrent(lit, <<b, c>>).row = [S.row EXCEPT ![<<b, c>>] = s]
    BY <2>2, TurnFacts
  <2>4. WiresKept(S, lit)
    BY <2>1, <2>2, WiresInsert
  <2>5. WiresKept(S, SetCurrent(lit, <<b, c>>))
    BY <2>1, <2>3, WiresInsert
  <2> QED BY <1>3, <1>4, <2>4, <2>5
<1> QED BY <1>3, <1>4, <1>5

\* A store exchanges two slots and neither is a wire's.
LEMMA WiresStore ==
  ASSUME NEW S, Frame(S), NEW b \in BankId, NEW c \in Slot, CanStore(S, b, c)
  PROVE  WiresKept(S, MoveCurrentTo(S, b, c))
<1> DEFINE from  == OnAir(S)
           to    == <<b, c>>
           other(p) == IF p = from THEN to ELSE IF p = to THEN from ELSE p
           moved == [S EXCEPT !.row = [p \in Pair |-> S.row[other(p)]],
                              !.attachmentEnded = {p \in Pair : other(p) \in S.attachmentEnded},
                              !.degaussArmed = FALSE]
           T     == SetCurrent(moved, to)
<1>1. /\ S \in Sets /\ S.row \in [Pair -> Session \cup {Dark}]
      /\ S.carrier \in [BankId -> Pair \cup {NoPair}]
  BY DEF Frame, Sets
<1>2. from \in Pair /\ to \in Pair /\ from # NoPair /\ to # NoPair
  BY ChannelsAssumption DEF CanStore, Rows, Pair, NoPair, Slot
<1>3. \A k \in BankId : S.carrier[k] # NoPair => S.carrier[k] # from /\ S.carrier[k] # to
  BY <1>2 DEF CanStore, IsCarrier, CarriedBanks
<1> HIDE DEF from, to
<1>4. \A p \in Pair : other(p) \in Pair
  BY <1>2
<1>5. \A k \in BankId : S.carrier[k] # NoPair =>
        S.carrier[k] \in Pair /\ other(S.carrier[k]) = S.carrier[k]
  BY <1>1, <1>3
<1> HIDE DEF other
<1>6. /\ moved \in Sets /\ moved.carrier = S.carrier
      /\ moved.row = [p \in Pair |-> S.row[other(p)]]
  <2>1. [p \in Pair |-> S.row[other(p)]] \in [Pair -> Session \cup {Dark}]
    BY <1>1, <1>4
  <2> QED BY <1>1, <2>1 DEF Sets
<1> HIDE DEF moved
<1>7. T \in Sets /\ T.carrier = S.carrier /\ T.row = moved.row
  BY <1>2, <1>6, TurnFacts, SetCurrentFacts
<1> HIDE DEF T
<1>8. MoveCurrentTo(S, b, c) = [T EXCEPT !.degaussArmed = S.degaussArmed]
  BY DEF MoveCurrentTo, T, moved, other, from, to
<1>9. [T EXCEPT !.degaussArmed = S.degaussArmed].carrier = S.carrier
      /\ [T EXCEPT !.degaussArmed = S.degaussArmed].row = moved.row
  BY <1>7 DEF Sets
<1> QED BY <1>5, <1>6, <1>8, <1>9 DEF WiresKept

\* Before the first channel there is no wire.
LEMMA OffIsNew == (power = "off" => set = New) /\ [Next]_vars => (power = "off" => set = New)'
<1> SUFFICES ASSUME power = "off" => set = New, [Next]_vars, power' = "off"
             PROVE  power = "off" /\ set' = set
  BY DEF New
<1>1. ~Start /\ ~TakeDegauss /\ ~TypeAtRow /\ ~Closed
  BY DEF Start, TakeDegauss, TypeAtRow, Closed, On, vars
<1>2. ~UserCall
  BY DEF UserCall, OpenHome, NewChannel, TurnToBank, AskSlot, OpenSshChannel, Store, OpenSsh,
         CloseChannel, CloseRow, Select, CycleOpen, On
<1>3. ~GatewayCall
  BY DEF GatewayCall, WindowOpened, WindowClosed, Settle, Collapse, AttachFound, On
<1>4. ASSUME NEW p \in Pair PROVE ~RowCall(p)
  BY DEF RowCall, SessionDied, Attach, On
<1> QED BY <1>1, <1>2, <1>3, <1>4 DEF Next, vars

\* Every step keeps every wire, or takes its bank down.
LEMMA WiresStep ==
  IInv /\ (power = "off" => set = New) /\ [Next]_vars => WiresKept(set, set')
<1> SUFFICES ASSUME IInv, power = "off" => set = New, [Next]_vars
             PROVE  WiresKept(set, set')
  OBVIOUS
<1>0. /\ Sound(set) /\ Frame(set) /\ set \in Sets /\ Fresh \subseteq Session
      /\ 0 \in BankId /\ 1 \in Slot
  BY ChannelsAssumption DEF IInv, Sound, Frame, Fresh, BankId, Slot
<1>1. CASE Start
  <2>1. \A k \in BankId : set.carrier[k] = NoPair
    BY <1>1 DEF Start, New
  <2> QED BY <2>1 DEF WiresKept
<1>2. CASE TakeDegauss \/ TypeAtRow \/ Closed \/ UNCHANGED vars
  <2>1. set'.carrier = set.carrier /\ set'.row = set.row
    BY <1>0, <1>2 DEF TakeDegauss, TypeAtRow, Closed, vars, Sets
  <2> QED BY <2>1, WiresSame
<1>3. CASE UserCall
  <2>1. ASSUME NEW c \in Slot, NEW s \in Session, ~Open(set, <<0, c>>)
        PROVE  WiresKept(set, OpenChannel(set, c, s))
    <3>1. <<0, c>> \in Pair
      BY <1>0 DEF Pair
    <3> QED BY <1>0, <2>1, <3>1, WiresOpened DEF OpenChannel
  <2>2. ASSUME NEW c \in Slot, OpenHome(c) PROVE WiresKept(set, set')
    BY <1>0, <2>1, <2>2 DEF OpenHome
  <2>3. ASSUME NEW b \in BankId, NewChannel(b) PROVE WiresKept(set, set')
    <3>1. CASE set.manager[b] = "tmux"
      <4>1. set'.carrier = set.carrier /\ set'.row = set.row
        BY <1>0, <2>3, <3>1 DEF NewChannel, AskForWindow, Sets
      <4> QED BY <4>1, WiresSame
    <3>2. CASE set.manager[b] # "tmux"
      <4>1. NextSlot(set, 0) \in Slot \ Slots(set, 0)
        BY <2>3, <3>2, NextSlotFacts DEF NewChannel
      <4>2. \E s \in Fresh : set' = OpenChannel(set, NextSlot(set, 0), s)
        BY <2>3, <3>2 DEF NewChannel
      <4>3. NextSlot(set, 0) \in Slot /\ ~Open(set, <<0, NextSlot(set, 0)>>)
        BY <4>1 DEF Slots
      <4> QED BY <1>0, <2>1, <4>2, <4>3
    <3> QED BY <3>1, <3>2
  <2>4. ASSUME NEW b \in BankId, TurnToBank(b) PROVE WiresKept(set, set')
    <3>1. set'.carrier = set.carrier /\ set'.row = set.row
      BY <1>0, <2>4, TurnFacts DEF TurnToBank, SelectBank
    <3> QED BY <3>1, WiresSame
  <2>5. ASSUME NEW b \in BankId, NEW c \in Slot, AskSlot(b, c) PROVE WiresKept(set, set')
    <3>1. set'.carrier = set.carrier /\ set'.row = set.row
      BY <1>0, <2>5 DEF AskSlot, AskForWindow, Sets
    <3> QED BY <3>1, WiresSame
  <2>6. ASSUME NEW b \in BankId, NEW c \in Slot, OpenSshChannel(b, c)
        PROVE  WiresKept(set, set')
    <3>1. <<b, c>> \in Pair
      BY DEF Pair
    <3> QED BY <1>0, <2>6, <3>1, WiresOpened DEF OpenSshChannel
  <2>7. ASSUME NEW b \in BankId, NEW c \in Slot, Store(b, c) PROVE WiresKept(set, set')
    BY <1>0, <2>7, WiresStore DEF Store
  <2>8. CASE OpenSsh
    BY <1>0, <2>8, WiresSsh DEF OpenSsh, CanRaise
  <2>9. CASE CloseChannel
    <3>1. CASE set' = set
      BY <3>1, WiresSame
    <3>2. CASE set' # set
      BY <1>0, <2>9, <3>2, WiresRemove DEF CloseChannel, CloseRow
    <3> QED BY <3>1, <3>2
  <2>10. ASSUME NEW p, set' = SetCurrent(set, p) PROVE WiresKept(set, set')
    <3>1. set'.carrier = set.carrier /\ set'.row = set.row
      BY <1>0, <2>10, TurnFacts
    <3> QED BY <3>1, WiresSame
  <2> QED BY <1>3, <2>2, <2>3, <2>4, <2>5, <2>6, <2>7, <2>8, <2>9, <2>10
          DEF UserCall, Select, CycleOpen
<1>4. CASE GatewayCall
  <2>1. ASSUME NEW b \in BankId, NEW r \in Pending, WindowOpened(b, r)
        PROVE  WiresKept(set, set')
    BY <1>0, <2>1, WiresWindow DEF WindowOpened
  <2>2. ASSUME NEW b \in BankId, NEW c \in Slot, WindowClosed(b, c) PROVE WiresKept(set, set')
    <3>1. <<b, c>> \in Rows(set) /\ set.manager[<<b, c>>[1]] = "tmux"
          /\ set' = RemoveRow(set, <<b, c>>)
      BY <2>2 DEF WindowClosed, Rows, Pair
    <3> QED BY <1>0, <3>1, TmuxRowCarriesNothing, WiresRemove
  <2>3. ASSUME NEW b \in BankId, Settle(b) PROVE WiresKept(set, set')
    <3>1. set'.carrier = set.carrier /\ set'.row = set.row
      BY <1>0, <2>3, TurnFacts DEF Settle, SettleOnOpenRow, SelectBank
    <3> QED BY <3>1, WiresSame
  <2>4. ASSUME NEW b \in BankId, NEW reason \in BOOLEAN, Collapse(b, reason)
        PROVE  WiresKept(set, set')
    BY <1>0, <2>4, WiresCollapse DEF Collapse
  <2>5. CASE AttachFound
    <3>1. set' = PushBank(set, "tmux", NoPair) /\ set.nextBankId <= MaxBank
      BY <2>5 DEF AttachFound, CanRaise
    <3>2. "tmux" \in Managers
      BY DEF Managers
    <3> QED BY <1>0, <3>1, <3>2, WiresPush
  <2> QED BY <1>4, <2>1, <2>2, <2>3, <2>4, <2>5 DEF GatewayCall
<1>5. ASSUME NEW p \in Pair, SessionDied(p) PROVE WiresKept(set, set')
  <2> DEFINE down == CarrierDown(set, p)
             k    == CHOOSE a \in CarriedBanks(set, p) : TRUE
  <2>1. p \in Rows(set) /\ set.manager[p[1]] # "tmux"
    BY <1>5 DEF SessionDied, Rows
  <2>2. Sound(down) /\ p \in Rows(down) /\ ~IsCarrier(down, p)
    BY <1>0, <2>1, CarrierDownSound
  <2>3. WiresKept(set, down)
    <3>1. CASE ~IsCarrier(set, p)
      BY <3>1, WiresSame DEF CarrierDown
    <3>2. CASE IsCarrier(set, p)
      <4>1. k \in BankId /\ set.carrier[k] = p /\ p # NoPair
        BY <3>2 DEF IsCarrier, CarriedBanks
      <4>2. set.manager[k] = "tmux" /\ down = CollapseBank(set, k, FALSE)
        BY <1>0, <3>2, <4>1 DEF Frame, WiresHold, CarrierDown
      <4> HIDE DEF k, down
      <4> QED BY <1>0, <4>1, <4>2, WiresCollapse
    <3> QED BY <3>1, <3>2
  <2>4. set' = down \/ set' = RemoveRow(down, p)
    BY <1>5 DEF SessionDied
  <2> HIDE DEF down
  <2>5. WiresKept(set, RemoveRow(down, p))
    BY <2>2, <2>3, WiresRemove, WiresTrans
  <2> QED BY <2>3, <2>4, <2>5
<1>6. ASSUME NEW p \in Pair, Attach(p) PROVE WiresKept(set, set')
  <2> DEFINE T == PushBank(set, "tmux", p)
  <2>1. set.nextBankId <= MaxBank /\ set' = AttachOver(set, p) /\ "tmux" \in Managers
    BY <1>6 DEF Attach, CanRaise, Managers
  <2>2. WiresKept(set, T) /\ T \in Sets
    BY <1>0, <2>1, WiresPush, PushFacts
  <2> HIDE DEF T
  <2>3. \A q : WiresKept(set, SetCurrent(T, q))
    BY <2>2, TurnFacts DEF WiresKept, Held
  <2> QED BY <2>1, <2>2, <2>3 DEF AttachOver, T
<1> QED BY <1>1, <1>2, <1>3, <1>4, <1>5, <1>6 DEF Next, RowCall

(***************************************************************************)
(* The invariant holds throughout.                                         *)
(***************************************************************************)
THEOREM Invariance == Spec => []IInv
BY InitIInv, StepKeeps, PTL DEF Spec

(***************************************************************************)
(* The set keeps its type: no call hands out a bank id, a slot or a        *)
(* remembered channel outside its range (Channels).                        *)
(***************************************************************************)
THEOREM TypeCorrect == Spec => []TypeOK
<1>1. IInv => TypeOK
  BY DEF IInv, Sound, Frame, TypeOK
<1> QED BY <1>1, Invariance, PTL

(***************************************************************************)
(* The air stands on a bank the set holds, and where that bank is no       *)
(* attachment and has channels, on one of them (set_current's callers).    *)
(***************************************************************************)
THEOREM AirAlwaysStands == Spec => []AirStands
<1>1. IInv => AirStands
  BY DEF IInv, Sound, AirStands
<1> QED BY <1>1, Invariance, PTL

(***************************************************************************)
(* A wire is never pulled from under its attachment: its row stands, off   *)
(* every tmux bank, carrying no other (can_store, close_channel,           *)
(* session_died, attach).                                                  *)
(***************************************************************************)
THEOREM CarriersAlwaysStand == Spec => []CarrierStands
<1>1. IInv => CarrierStands
  BY DEF IInv, Sound, Frame, CarrierStands
<1> QED BY <1>1, Invariance, PTL

(***************************************************************************)
(* Every channel is on a bank the set holds and no SSH bank outlives its   *)
(* last channel (remove_row, collapse_bank).                               *)
(***************************************************************************)
THEOREM BanksAlwaysStand == Spec => []BanksStand
<1>1. IInv => BanksStand
  BY DEF IInv, Sound, Frame, BanksStand
<1> QED BY <1>1, Invariance, PTL

(***************************************************************************)
(* While any channel stands an anchored one does: tmux windows never keep  *)
(* the appliance on by themselves (anchored_rows).                         *)
(***************************************************************************)
THEOREM AnAnchorAlwaysStands == Spec => []AnchorStands
<1>1. IInv => AnchorStands
  BY DEF IInv, Sound, Frame, AnchorHolds, AnchorStands
<1> QED BY <1>1, Invariance, PTL

(***************************************************************************)
(* Together: whatever is called, in whatever order, no wire, row, bank or  *)
(* window is left hanging (remove_row, collapse_bank, session_died).       *)
(***************************************************************************)
THEOREM NothingEverHangs == Spec => []NothingHangs
BY CarriersAlwaysStand, BanksAlwaysStand, AnAnchorAlwaysStands, PTL DEF NothingHangs

(***************************************************************************)
(* The session that carries a wire stays on its slot for as long as the    *)
(* attachment lasts: no store, close, death, collapse or arrival moves,    *)
(* replaces or removes it and leaves the bank standing (can_store,         *)
(* close_channel, session_died, collapse_bank).                            *)
(***************************************************************************)
THEOREM WiresNeverMove == Spec => WireNeverMoves
<1> DEFINE J == IInv /\ (power = "off" => set = New)
<1>1. Init => J
  BY InitIInv DEF Init
<1>2. J /\ [Next]_vars => J'
  BY StepKeeps, OffIsNew
<1>3. J /\ [Next]_vars => [WiresKept(set, set')]_vars
  BY WiresStep
<1> QED BY <1>1, <1>2, <1>3, PTL DEF Spec, WireNeverMoves

-----------------------------------------------------------------------------
(***************************************************************************)
(* Slots are stable.                                                       *)
(*                                                                         *)
(* A session is on one slot. It is what makes the slot of a session mean   *)
(* something, and what stability needs to be inductive: were a session on  *)
(* two slots, the end of one of them would leave it in use and gone from   *)
(* where it was.                                                           *)
(***************************************************************************)
OneSlotEach(S) == \A p, q \in Rows(S) : S.row[p] = S.row[q] => p = q

\* What a step from S to T does to the slots of S's sessions.
Kept(S, T) == \A p \in Rows(S) : S.row[p] \in InUse(T) => T.row[p] = S.row[p]

Swapped(S, T) ==
  LET from == OnAir(S)
      to   == OnAir(T)
  IN  /\ from \in Pair /\ to \in Pair
      /\ from[1] = to[1]
      /\ T.row = [S.row EXCEPT ![from] = S.row[to], ![to] = S.row[from]]

Steady(S, T) == OneSlotEach(T) /\ (Kept(S, T) \/ Swapped(S, T))

\* Rows may end; none appears and none changes what it holds.
Pruned(S, T) == \A p \in Pair : T.row[p] = S.row[p] \/ T.row[p] = Dark

LEMMA PrunedSteady ==
  ASSUME NEW S, NEW T, OneSlotEach(S), Pruned(S, T)
  PROVE  Steady(S, T)
<1>1. \A p \in Rows(T) : p \in Rows(S) /\ T.row[p] = S.row[p]
  BY DEF Pruned, Rows, Open
<1>2. OneSlotEach(T)
  BY <1>1 DEF OneSlotEach
<1>3. ASSUME NEW p \in Rows(S), S.row[p] \in InUse(T) PROVE T.row[p] = S.row[p]
  <2>1. PICK q \in Rows(T) : T.row[q] = S.row[p]
    BY <1>3 DEF InUse
  <2>2. q = p
    BY <1>1, <2>1 DEF OneSlotEach
  <2> QED BY <2>1, <2>2
<1> QED BY <1>2, <1>3 DEF Steady, Kept

\* Where the rows do not change.
LEMMA SameSteady ==
  ASSUME NEW S, NEW T, OneSlotEach(S), T.row = S.row
  PROVE  Steady(S, T)
BY PrunedSteady DEF Pruned

LEMMA PrunedTrans ==
  ASSUME NEW S, NEW T, NEW U, Pruned(S, T), Pruned(T, U)
  PROVE  Pruned(S, U)
BY DEF Pruned

\* A session no slot holds, put on a dark one.
LEMMA InsertSteady ==
  ASSUME NEW S \in Sets, NEW T, OneSlotEach(S), NEW p \in Pair, ~Open(S, p),
         NEW s \in Session \ InUse(S), T.row = [S.row EXCEPT ![p] = s]
  PROVE  Steady(S, T)
<1>1. S.row \in [Pair -> Session \cup {Dark}]
  BY DEF Sets
<1>2. T.row[p] = s /\ \A q \in Pair : q # p => T.row[q] = S.row[q]
  BY <1>1
<1>3. \A q \in Rows(S) : q \in Pair /\ q # p /\ S.row[q] # s
  BY DEF Rows, InUse
<1>4. \A q \in Rows(T) : q = p \/ q \in Rows(S)
  BY <1>2 DEF Rows, Open
<1>5. OneSlotEach(T)
  BY <1>2, <1>3, <1>4 DEF OneSlotEach
<1>6. Kept(S, T)
  BY <1>2, <1>3 DEF Kept
<1> QED BY <1>5, <1>6 DEF Steady

LEMMA OpenedSteady ==
  ASSUME NEW S \in Sets, OneSlotEach(S), NEW p \in Pair, ~Open(S, p),
         NEW s \in Session \ InUse(S), NEW q
  PROVE  Steady(S, SetCurrent(InsertRow(S, p, s), q))
<1> DEFINE T == InsertRow(S, p, s)
<1>1. T \in Sets /\ T.row = [S.row EXCEPT ![p] = s]
  BY DEF Sets, InsertRow
<1> HIDE DEF T
<1>2. SetCurrent(T, q).row = [S.row EXCEPT ![p] = s]
  BY <1>1, TurnFacts
<1> QED BY <1>2, InsertSteady DEF T

\* A connection on a bank of its own, which held no row.
LEMMA SshSteady ==
  ASSUME NEW S, Frame(S), OneSlotEach(S), S.nextBankId <= MaxBank,
         NEW s \in Session \ InUse(S)
  PROVE  Steady(S, OpenSshBank(S, s))
<1> DEFINE n     == S.nextBankId
           first == <<n, 1>>
           T     == PushBank(S, "ssh", NoPair)
           U     == InsertRow(T, first, s)
<1>1. n \in BankId /\ T \in Sets /\ T.row = S.row /\ \A p \in Rows(S) : p[1] # n
  BY PushFacts DEF Managers
<1> HIDE DEF T
<1>2. first \in Pair /\ first \notin Rows(S)
  BY <1>1, ChannelsAssumption DEF Pair, Slot
<1> HIDE DEF first, n
<1>3. U \in Sets /\ U.row = [S.row EXCEPT ![first] = s]
  BY <1>1, <1>2 DEF InsertRow, Sets
<1> HIDE DEF U
<1>4. SetCurrent(U, first).row = [S.row EXCEPT ![first] = s]
  BY <1>3, TurnFacts
<1>5. S \in Sets /\ ~Open(S, first)
  BY <1>2 DEF Frame, Rows
<1>6. Steady(S, SetCurrent(U, first))
  BY <1>2, <1>4, <1>5, InsertSteady
<1> QED BY <1>6 DEF OpenSshBank, U, T, first, n

\* The slot a window lands on is dark.
LEMMA WindowSlotDark ==
  ASSUME NEW S, NEW b, NEW r
  PROVE  WindowSlot(S, b, r) = 0 \/ WindowSlot(S, b, r) \in Slot \ Slots(S, b)
BY FirstFreeFacts DEF WindowSlot

LEMMA WindowSteady ==
  ASSUME NEW S \in Sets, OneSlotEach(S), NEW b \in BankId,
         NEW s \in Session \ InUse(S), NEW r
  PROVE  Steady(S, OpenTmuxWindow(S, b, s, r))
<1> DEFINE c     == WindowSlot(S, b, r)
           taken == [S EXCEPT !.newWindowPending[b] = None]
           lit   == InsertRow(taken, <<b, c>>, s)
<1>1. c = 0 \/ c \in Slot \ Slots(S, b)
  BY WindowSlotDark
<1>2. taken \in Sets /\ taken.row = S.row
  BY DEF Sets, Pending
<1>3. OpenTmuxWindow(S, b, s, r)
        = IF c = 0 THEN taken
          ELSE IF S.newWindowPending[b] # None THEN SetCurrent(lit, <<b, c>>) ELSE lit
  BY DEF OpenTmuxWindow
<1> HIDE DEF taken, c
<1>4. CASE c = 0
  BY <1>2, <1>3, <1>4, SameSteady
<1>5. CASE c # 0
  <2>1. <<b, c>> \in Pair /\ ~Open(S, <<b, c>>)
    BY <1>1, <1>5 DEF Pair, Slots
  <2>2. lit \in Sets /\ lit.row = [S.row EXCEPT ![<<b, c>>] = s]
    BY <1>2, <2>1 DEF InsertRow, Sets
  <2> HIDE DEF lit
  <2>3. SetCurrent(lit, <<b, c>>).row = [S.row EXCEPT ![<<b, c>>] = s]
    BY <2>2, TurnFacts
  <2>4. Steady(S, lit) /\ Steady(S, SetCurrent(lit, <<b, c>>))
    BY <2>1, <2>2, <2>3, InsertSteady
  <2> QED BY <1>3, <1>5, <2>4
<1> QED BY <1>4, <1>5

-----------------------------------------------------------------------------
\* A row that goes takes nothing else with it.
LEMMA RemovePrunes ==
  ASSUME NEW S \in Sets, NEW p \in Rows(S)
  PROVE  Pruned(S, RemoveRow(S, p))
<1> DEFINE gone   == [S EXCEPT !.row[p] = Dark, !.attachmentEnded = @ \ {p}]
           landed == IF OnAir(S) = p /\ Rows(gone) # {}
                     THEN SetCurrent(gone, NearestRow(Rows(gone), p, p[1]))
                     ELSE gone
<1>1. p \in Pair /\ p[1] \in BankId /\ S.row \in [Pair -> Session \cup {Dark}]
  BY PairParts DEF Rows, Sets
<1>2. gone \in Sets /\ gone.row = [S.row EXCEPT ![p] = Dark]
  BY <1>1 DEF Sets
<1>3. RemoveRow(S, p) = IF S.manager[p[1]] = "ssh" /\ Slots(gone, p[1]) = {}
                        THEN Forget(landed, p[1]) ELSE landed
  BY DEF RemoveRow
<1> HIDE DEF gone
<1>4. landed \in Sets /\ landed.row = [S.row EXCEPT ![p] = Dark]
  <2>1. Rows(gone) # {} => NearestRow(Rows(gone), p, p[1]) \in Pair
    BY NearestIn DEF Rows
  <2> QED BY <1>2, <2>1, SetCurrentFacts
<1> HIDE DEF landed
<1>5. Forget(landed, p[1]).row = [S.row EXCEPT ![p] = Dark]
  BY <1>1, <1>4, ForgetFacts
<1>6. RemoveRow(S, p).row = [S.row EXCEPT ![p] = Dark]
  BY <1>3, <1>4, <1>5
<1> QED BY <1>1, <1>6 DEF Pruned

\* A bank that goes takes its own rows and no other.
LEMMA CollapsePrunes ==
  ASSUME NEW S \in Sets, NEW k \in BankId, NEW reason \in BOOLEAN
  PROVE  Pruned(S, CollapseBank(S, k, reason))
<1> DEFINE T == CollapseBank(S, k, reason)
<1>1. T.row = [p \in Pair |-> IF p[1] = k THEN Dark ELSE S.row[p]]
  BY CollapseRows
<1> HIDE DEF T
<1>2. Pruned(S, T)
  BY <1>1 DEF Pruned
<1> QED BY <1>2 DEF T

LEMMA CarrierDownPrunes ==
  ASSUME NEW S \in Sets, NEW p
  PROVE  Pruned(S, CarrierDown(S, p))
<1> DEFINE k == CHOOSE a \in CarriedBanks(S, p) : TRUE
<1>1. CASE ~IsCarrier(S, p)
  BY <1>1 DEF CarrierDown, Pruned
<1>2. CASE IsCarrier(S, p)
  <2>1. k \in BankId /\ S.carrier[k] = p /\ p # NoPair
    BY <1>2 DEF IsCarrier, CarriedBanks
  <2>2. CarrierDown(S, p) = CollapseBank(S, k, FALSE)
    BY <1>2 DEF CarrierDown
  <2> HIDE DEF k
  <2> QED BY <2>1, <2>2, CollapsePrunes
<1> QED BY <1>1, <1>2

-----------------------------------------------------------------------------
\* A store exchanges two slots, and the air goes along.
LEMMA StoreSteady ==
  ASSUME NEW S, Sound(S), OneSlotEach(S), NEW b \in BankId, NEW c \in Slot, CanStore(S, b, c)
  PROVE  Steady(S, MoveCurrentTo(S, b, c))
<1> DEFINE from  == OnAir(S)
           to    == <<b, c>>
           other(p) == IF p = from THEN to ELSE IF p = to THEN from ELSE p
           moved == [S EXCEPT !.row = [p \in Pair |-> S.row[other(p)]],
                              !.attachmentEnded = {p \in Pair : other(p) \in S.attachmentEnded},
                              !.degaussArmed = FALSE]
           T     == SetCurrent(moved, to)
           U     == [T EXCEPT !.degaussArmed = S.degaussArmed]
<1>1. S \in Sets /\ S.row \in [Pair -> Session \cup {Dark}] /\ b = S.currentBank /\ Held(S, b)
  BY DEF Sound, Frame, Sets, AirHeld, CanStore
<1>2. from \in Pair /\ to \in Pair /\ from[1] = b /\ to[1] = b /\ to[2] = c
  BY <1>1 DEF CanStore, Rows, Pair, OnAir
<1>3. \A p \in Pair : other(p) \in Pair /\ other(other(p)) = p
  BY <1>2
<1>4. [p \in Pair |-> S.row[other(p)]] = [S.row EXCEPT ![from] = S.row[to], ![to] = S.row[from]]
  BY <1>1, <1>2
<1>5. /\ moved \in Sets /\ moved.manager = S.manager
      /\ moved.row = [p \in Pair |-> S.row[other(p)]]
  <2>1. [p \in Pair |-> S.row[other(p)]] \in [Pair -> Session \cup {Dark}]
    BY <1>1, <1>3
  <2> QED BY <1>1, <2>1 DEF Sets
<1>6. MoveCurrentTo(S, b, c) = U
  BY DEF MoveCurrentTo
<1> HIDE DEF moved
<1>7. T \in Sets /\ T.row = moved.row
  BY <1>2, <1>5, SetCurrentFacts
<1>8. T.currentBank = b /\ T.channel[b] = c /\ T.manager = S.manager
  BY <1>1, <1>2, <1>5 DEF SetCurrent, Sets, Held
<1> HIDE DEF T
<1>9. /\ U.row = moved.row /\ U.currentBank = b /\ U.channel[b] = c /\ U.manager = S.manager
  BY <1>7, <1>8 DEF Sets
<1> HIDE DEF U
<1>10. OnAir(U) = to
  BY <1>1, <1>9 DEF OnAir, Held
<1>11. Swapped(S, U)
  BY <1>2, <1>4, <1>5, <1>9, <1>10 DEF Swapped
<1>12. OneSlotEach(U)
  <2> SUFFICES ASSUME NEW p \in Rows(U), NEW q \in Rows(U), U.row[p] = U.row[q] PROVE p = q
    BY DEF OneSlotEach
  <2>1. p \in Pair /\ q \in Pair /\ S.row[other(p)] = U.row[p] /\ S.row[other(q)] = U.row[q]
    BY <1>5, <1>9 DEF Rows
  <2>2. other(p) \in Rows(S) /\ other(q) \in Rows(S)
    BY <1>3, <2>1 DEF Rows, Open
  <2>3. other(p) = other(q)
    BY <2>1, <2>2 DEF OneSlotEach
  <2> QED BY <1>3, <2>1, <2>3
<1> QED BY <1>6, <1>11, <1>12 DEF Steady

-----------------------------------------------------------------------------
Placed == IInv /\ (power = "off" => set = New) /\ OneSlotEach(set)

\* Before the first channel every slot is dark.
LEMMA StartSteady == Placed /\ Start => Steady(set, set')
<1> SUFFICES ASSUME Placed, Start PROVE Steady(set, set')
  OBVIOUS
<1>1. /\ set = New /\ Frame(set) /\ set \in Sets /\ OneSlotEach(set)
      /\ 0 \in BankId /\ 1 \in Slot /\ Fresh = Session \ InUse(set)
  BY ChannelsAssumption DEF Placed, Start, IInv, Sound, Frame, Fresh, BankId, Slot
<1>2. <<0, 1>> \in Pair /\ ~Open(set, <<0, 1>>)
  BY <1>1 DEF New, Pair, Open
<1>3. ASSUME NEW s \in Fresh, set' = Started(OpenChannel(set, 1, s)) PROVE Steady(set, set')
  <2> DEFINE T == OpenChannel(set, 1, s)
  <2>1. T \in Sets /\ T.row = [set.row EXCEPT ![<<0, 1>>] = s]
    <3> DEFINE U == InsertRow(set, <<0, 1>>, s)
    <3>1. U \in Sets /\ U.row = [set.row EXCEPT ![<<0, 1>>] = s]
      BY <1>1, <1>2 DEF InsertRow, Sets
    <3> HIDE DEF U
    <3>2. T = SetCurrent(U, <<0, 1>>)
      BY DEF OpenChannel, U
    <3> QED BY <1>2, <3>1, <3>2, SetCurrentFacts
  <2> HIDE DEF T
  <2>2. Started(T).row = [set.row EXCEPT ![<<0, 1>>] = s]
    BY <2>1 DEF Started, Sets
  <2> QED BY <1>1, <1>2, <1>3, <2>2, InsertSteady DEF T
<1>4. ASSUME NEW s \in Fresh, CanRaise, set' = Started(OpenSshBank(set, s))
      PROVE  Steady(set, set')
  <2> DEFINE T == OpenSshBank(set, s)
  <2>1. Steady(set, T) /\ T \in Sets
    BY <1>1, <1>4, SshSteady, OpenSshBankSound DEF CanRaise, Placed, IInv, Sound, Frame
  <2> HIDE DEF T
  <2>2. set'.row = T.row
    BY <1>4, <2>1 DEF Started, Sets, T
  <2>3. \A p \in Pair : set.row[p] = Dark
    BY <1>1 DEF New
  <2>4. Rows(set) = {}
    BY <2>3 DEF Rows, Open
  <2> QED BY <2>1, <2>2, <2>4 DEF Steady, OneSlotEach, Kept, Rows, Open
<1>5. CASE set' = Started(set)
  <2>1. set'.row = set.row
    BY <1>1, <1>5 DEF Started, Sets
  <2> QED BY <1>1, <2>1, SameSteady
<1> QED BY <1>3, <1>4, <1>5 DEF Start

\* One step per call of the user's.
LEMMA UserSteady == Placed /\ UserCall => Steady(set, set')
<1> SUFFICES ASSUME Placed, UserCall PROVE Steady(set, set')
  OBVIOUS
<1>0. /\ Sound(set) /\ Frame(set) /\ set \in Sets /\ OneSlotEach(set)
      /\ Fresh = Session \ InUse(set) /\ 0 \in BankId
  BY ChannelsAssumption DEF Placed, IInv, Sound, Frame, Fresh, BankId
<1>1. ASSUME NEW c \in Slot, NEW s \in Fresh, ~Open(set, <<0, c>>)
      PROVE  Steady(set, OpenChannel(set, c, s))
  <2>1. <<0, c>> \in Pair
    BY <1>0 DEF Pair
  <2> QED BY <1>0, <1>1, <2>1, OpenedSteady DEF OpenChannel
<1>2. ASSUME NEW c \in Slot, OpenHome(c) PROVE Steady(set, set')
  BY <1>1, <1>2 DEF OpenHome
<1>3. ASSUME NEW b \in BankId, NewChannel(b) PROVE Steady(set, set')
  <2>1. CASE set.manager[b] = "tmux"
    <3>1. set'.row = set.row
      BY <1>0, <1>3, <2>1 DEF NewChannel, AskForWindow, Sets
    <3> QED BY <1>0, <3>1, SameSteady
  <2>2. CASE set.manager[b] # "tmux"
    <3>1. NextSlot(set, 0) \in Slot \ Slots(set, 0)
      BY <1>3, <2>2, NextSlotFacts DEF NewChannel
    <3>2. \E s \in Fresh : set' = OpenChannel(set, NextSlot(set, 0), s)
      BY <1>3, <2>2 DEF NewChannel
    <3>3. NextSlot(set, 0) \in Slot /\ ~Open(set, <<0, NextSlot(set, 0)>>)
      BY <3>1 DEF Slots
    <3> QED BY <1>1, <3>2, <3>3
  <2> QED BY <2>1, <2>2
<1>4. ASSUME NEW b \in BankId, TurnToBank(b) PROVE Steady(set, set')
  <2>1. set'.row = set.row
    BY <1>0, <1>4, TurnFacts DEF TurnToBank, SelectBank
  <2> QED BY <1>0, <2>1, SameSteady
<1>5. ASSUME NEW b \in BankId, NEW c \in Slot, AskSlot(b, c) PROVE Steady(set, set')
  <2>1. set'.row = set.row
    BY <1>0, <1>5 DEF AskSlot, AskForWindow, Sets
  <2> QED BY <1>0, <2>1, SameSteady
<1>6. ASSUME NEW b \in BankId, NEW c \in Slot, OpenSshChannel(b, c) PROVE Steady(set, set')
  <2>1. <<b, c>> \in Pair
    BY DEF Pair
  <2> QED BY <1>0, <1>6, <2>1, OpenedSteady DEF OpenSshChannel
<1>7. ASSUME NEW b \in BankId, NEW c \in Slot, Store(b, c) PROVE Steady(set, set')
  BY <1>0, <1>7, StoreSteady DEF Store
<1>8. CASE OpenSsh
  BY <1>0, <1>8, SshSteady DEF OpenSsh, CanRaise
<1>9. CASE CloseChannel
  <2>1. CASE set' = set
    BY <1>0, <2>1, SameSteady
  <2>2. CASE set' # set
    BY <1>0, <1>9, <2>2, RemovePrunes, PrunedSteady DEF CloseChannel, CloseRow
  <2> QED BY <2>1, <2>2
<1>10. ASSUME NEW p, set' = SetCurrent(set, p) PROVE Steady(set, set')
  <2>1. set'.row = set.row
    BY <1>0, <1>10, TurnFacts
  <2> QED BY <1>0, <2>1, SameSteady
<1> QED BY <1>2, <1>3, <1>4, <1>5, <1>6, <1>7, <1>8, <1>9, <1>10
        DEF UserCall, Select, CycleOpen

\* One step per call of a gateway's.
LEMMA GatewaySteady == Placed /\ GatewayCall => Steady(set, set')
<1> SUFFICES ASSUME Placed, GatewayCall PROVE Steady(set, set')
  OBVIOUS
<1>0. /\ Frame(set) /\ set \in Sets /\ OneSlotEach(set) /\ Fresh = Session \ InUse(set)
  BY DEF Placed, IInv, Sound, Frame, Fresh
<1>1. ASSUME NEW b \in BankId, NEW r \in Pending, WindowOpened(b, r) PROVE Steady(set, set')
  BY <1>0, <1>1, WindowSteady DEF WindowOpened
<1>2. ASSUME NEW b \in BankId, NEW c \in Slot, WindowClosed(b, c) PROVE Steady(set, set')
  <2>1. <<b, c>> \in Rows(set) /\ set' = RemoveRow(set, <<b, c>>)
    BY <1>2 DEF WindowClosed, Rows, Pair
  <2> QED BY <1>0, <2>1, RemovePrunes, PrunedSteady
<1>3. ASSUME NEW b \in BankId, Settle(b) PROVE Steady(set, set')
  <2>1. set'.row = set.row
    BY <1>0, <1>3, TurnFacts DEF Settle, SettleOnOpenRow, SelectBank
  <2> QED BY <1>0, <2>1, SameSteady
<1>4. ASSUME NEW b \in BankId, NEW reason \in BOOLEAN, Collapse(b, reason)
      PROVE  Steady(set, set')
  BY <1>0, <1>4, CollapsePrunes, PrunedSteady DEF Collapse
<1>5. CASE AttachFound
  <2>1. set'.row = set.row
    BY <1>0, <1>5 DEF AttachFound, PushBank, Sets
  <2> QED BY <1>0, <2>1, SameSteady
<1> QED BY <1>1, <1>2, <1>3, <1>4, <1>5 DEF GatewayCall

\* A program that dies may take a bank with it, and then its own row.
LEMMA RowSteady == ASSUME NEW p \in Pair PROVE Placed /\ RowCall(p) => Steady(set, set')
<1> SUFFICES ASSUME Placed, RowCall(p) PROVE Steady(set, set')
  OBVIOUS
<1>0. Sound(set) /\ Frame(set) /\ set \in Sets /\ OneSlotEach(set)
  BY DEF Placed, IInv, Sound, Frame
<1>1. CASE SessionDied(p)
  <2> DEFINE down == CarrierDown(set, p)
  <2>1. p \in Rows(set) /\ set.manager[p[1]] # "tmux"
    BY <1>1 DEF SessionDied, Rows
  <2>2. Pruned(set, down) /\ down \in Sets /\ p \in Rows(down)
    BY <1>0, <2>1, CarrierDownPrunes, CarrierDownSound DEF Sound, Frame
  <2>3. set' = down \/ set' = RemoveRow(down, p)
    BY <1>1 DEF SessionDied
  <2> HIDE DEF down
  <2>4. Pruned(set, RemoveRow(down, p))
    BY <2>2, RemovePrunes, PrunedTrans
  <2> QED BY <1>0, <2>2, <2>3, <2>4, PrunedSteady
<1>2. CASE Attach(p)
  <2> DEFINE T == PushBank(set, "tmux", p)
  <2>1. set.nextBankId <= MaxBank /\ set' = AttachOver(set, p) /\ "tmux" \in Managers
    BY <1>2 DEF Attach, CanRaise, Managers
  <2>2. T \in Sets /\ T.row = set.row
    <3>1. p \in Pair \cup {NoPair}
      OBVIOUS
    <3>2. T \in Sets
      BY <1>0, <2>1, <3>1, PushFacts
    <3>3. T.row = set.row
      BY <1>0 DEF PushBank, Sets
    <3> QED BY <3>2, <3>3
  <2> HIDE DEF T
  <2>3. set'.row = set.row
    BY <2>1, <2>2, TurnFacts DEF AttachOver, T
  <2> QED BY <1>0, <2>3, SameSteady
<1> QED BY <1>1, <1>2 DEF RowCall

LEMMA StepSteady == Placed /\ [Next]_vars => Steady(set, set')
<1> SUFFICES ASSUME Placed, [Next]_vars PROVE Steady(set, set')
  OBVIOUS
<1>1. CASE TakeDegauss \/ TypeAtRow \/ Closed \/ UNCHANGED vars
  <2>1. set \in Sets /\ OneSlotEach(set)
    BY DEF Placed, IInv, Sound, Frame
  <2>2. set'.row = set.row
    BY <1>1, <2>1 DEF TakeDegauss, TypeAtRow, Closed, vars, Sets
  <2> QED BY <2>1, <2>2, SameSteady
<1> QED BY <1>1, StartSteady, UserSteady, GatewaySteady, RowSteady DEF Next

(***************************************************************************)
(* Slots are stable on every panel: whatever ends, arrives or is swept, a  *)
(* session that survives a step keeps its slot, unless the step is a store,*)
(* which exchanges the air's slot with one other of its bank (remove_row,  *)
(* collapse_bank, open_tmux_window, move_current_to).                      *)
(***************************************************************************)
THEOREM SlotsNeverMove == Spec => SlotsAreStable
<1>1. Init => Placed
  <2> SUFFICES ASSUME Init PROVE OneSlotEach(set) /\ set = New
    BY InitIInv DEF Placed
  <2>1. \A p \in Pair : set.row[p] = Dark
    BY DEF Init, New
  <2> QED BY <2>1 DEF OneSlotEach, Rows, Open, Init
<1>2. Placed /\ [Next]_vars => Placed'
  BY StepKeeps, OffIsNew, StepSteady DEF Placed, Steady, OneSlotEach
<1>3. Placed /\ [Next]_vars =>
        [\/ \A p \in Rows(set) : set.row[p] \in InUse(set') => set'.row[p] = set.row[p]
         \/ Exchanged]_vars
  BY StepSteady DEF Steady, Kept, Swapped, Exchanged
<1> QED BY <1>1, <1>2, <1>3, PTL DEF Spec, SlotsAreStable

(***************************************************************************)
(* A session stays where it was put, on every panel: under its wire while  *)
(* the attachment lasts, on its slot while it lives (can_store,            *)
(* close_channel, collapse_bank, move_current_to).                         *)
(***************************************************************************)
THEOREM SessionsAlwaysStayPut == Spec => SessionsStayPut
BY WiresNeverMove, SlotsNeverMove DEF SessionsStayPut

-----------------------------------------------------------------------------
(***************************************************************************)
(* Where the air goes: what each transition does to the pair on the air    *)
(* and to the tube's flinch.                                               *)
(***************************************************************************)
\* What a server fills, and what it owes.
Served(S) == {b \in BankId : S.manager[b] = "tmux"}
Owed(S)   == {b \in BankId : S.newWindowPending[b] # None}

\* Only a server's bank owes a window.
OwedByServer(S) == Owed(S) \subseteq Served(S)

\* The tube flinches when the air goes to another slot, and only then.
Glass(S, T) ==
  /\ T.degaussArmed = S.degaussArmed
  /\ T.degaussPending <=> S.degaussPending \/ (OnAir(T) # OnAir(S) /\ S.degaussArmed)

\* The parts of a set no change of the air touches.
SameBanks(S, T) ==
  /\ T.manager = S.manager
  /\ T.newWindowPending = S.newWindowPending
  /\ T.degaussArmed = S.degaussArmed

LEMMA AirIsPair ==
  ASSUME NEW S \in Sets, AirHeld(S)
  PROVE  /\ OnAir(S) \in Pair
         /\ OnAir(S) = <<S.currentBank, S.channel[S.currentBank]>>
         /\ OnAir(S)[1] = S.currentBank
BY DEF Sets, AirHeld, OnAir, Pair

\* The one writer of the pair puts it where it is told, and the tube flinches
\* when that is elsewhere.
LEMMA TurnAir ==
  ASSUME NEW S \in Sets, NEW p \in Pair, Held(S, p[1])
  PROVE  LET T == SetCurrent(S, p)
         IN  /\ T \in Sets /\ T.row = S.row /\ SameBanks(S, T)
             /\ OnAir(T) = p
             /\ T.degaussPending = (S.degaussPending \/ (p # OnAir(S) /\ S.degaussArmed))
<1> DEFINE T == SetCurrent(S, p)
<1>1. p[1] \in BankId /\ p[2] \in Slot /\ p = <<p[1], p[2]>>
  BY PairParts
<1>2. T \in Sets /\ T.row = S.row /\ T.manager = S.manager
  BY SetCurrentFacts
<1>3. /\ T.newWindowPending = S.newWindowPending /\ T.degaussArmed = S.degaussArmed
      /\ T.currentBank = p[1] /\ T.channel[p[1]] = p[2]
  BY <1>1 DEF SetCurrent, Sets
<1>4. T.degaussPending = (S.degaussPending \/ (p # OnAir(S) /\ S.degaussArmed))
  BY <1>1 DEF SetCurrent, Sets
<1> HIDE DEF T
<1>5. OnAir(T) = p
  BY <1>1, <1>2, <1>3 DEF OnAir, Held
<1> QED BY <1>2, <1>3, <1>4, <1>5 DEF SameBanks, T

\* The row nearest a hole is of the hole's bank while that has one.
LEMMA NearestOwn ==
  ASSUME NEW R, R \subseteq Pair, NEW hole, NEW b, \E p \in R : p[1] = b
  PROVE  NearestRow(R, hole, b) \in R /\ NearestRow(R, hole, b)[1] = b
<1> DEFINE own   == {p \in R : p[1] = b}
           after == {p \in own : Before(hole, p)}
<1>1. own # {} /\ own \subseteq Pair /\ after \subseteq own
  OBVIOUS
<1>2. NearestRow(R, hole, b) = IF after = {} THEN LastOf(own) ELSE FirstOf(after)
  BY <1>1 DEF NearestRow
<1> HIDE DEF after
<1>3. NearestRow(R, hole, b) \in own
  BY <1>1, <1>2, FirstIn, LastIn
<1> QED BY <1>3

-----------------------------------------------------------------------------
\* A row that goes moves the air only from itself, to the nearest row.
LEMMA RemoveAir ==
  ASSUME NEW S, Sound(S), NEW p \in Rows(S), ~IsCarrier(S, p),
         \E q \in Anchored(S) : q # p
  PROVE  LET T == RemoveRow(S, p)
         IN  /\ T \in Sets
             /\ T.row = [S.row EXCEPT ![p] = Dark]
             /\ Served(T) = Served(S) /\ (OwedByServer(S) => Owed(T) = Owed(S))
             /\ T.degaussArmed = S.degaussArmed
             /\ OnAir(S) # p => OnAir(T) = OnAir(S) /\ T.degaussPending = S.degaussPending
             /\ OnAir(S) = p => /\ OnAir(T) \in Rows(T) /\ OnAir(T) # p
                                /\ (\E q \in Rows(T) : q[1] = p[1]) => OnAir(T)[1] = p[1]
                                /\ T.degaussPending = (S.degaussPending \/ S.degaussArmed)
<1> DEFINE b      == p[1]
           gone   == [S EXCEPT !.row[p] = Dark, !.attachmentEnded = @ \ {p}]
           near   == NearestRow(Rows(gone), p, b)
           landed == IF OnAir(S) = p /\ Rows(gone) # {} THEN SetCurrent(gone, near) ELSE gone
<1>1. /\ S \in Sets /\ Frame(S) /\ AirHeld(S) /\ AirLit(S) /\ p \in Pair /\ b \in BankId
      /\ S.row \in [Pair -> Session \cup {Dark}]
  BY PairParts DEF Sound, Frame, Rows, Sets
<1>2. /\ gone \in Sets /\ gone.row = [S.row EXCEPT ![p] = Dark] /\ SameBanks(S, gone)
      /\ gone.currentBank = S.currentBank /\ gone.channel = S.channel
      /\ gone.degaussPending = S.degaussPending
  BY <1>1 DEF Sets, SameBanks
<1>3. RemoveRow(S, p) = IF S.manager[b] = "ssh" /\ Slots(gone, b) = {}
                        THEN Forget(landed, b) ELSE landed
  BY DEF RemoveRow
<1> HIDE DEF gone
<1>4. OnAir(gone) = OnAir(S)
  BY <1>2 DEF OnAir, Held, SameBanks
<1>5. Rows(gone) = Rows(S) \ {p} /\ Rows(gone) # {} /\ Rows(gone) \subseteq Pair
  BY <1>1, <1>2 DEF Rows, Open, Anchored
<1>6. near \in Rows(gone) /\ ((\E q \in Rows(gone) : q[1] = b) => near[1] = b)
  BY <1>5, NearestIn, NearestOwn
<1> HIDE DEF near
<1>7. near \in Pair /\ Held(gone, near[1])
  BY <1>1, <1>2, <1>5, <1>6 DEF Frame, RowsHeld, Held, SameBanks
<1>8. /\ landed \in Sets /\ landed.row = gone.row /\ SameBanks(S, landed)
      /\ OnAir(S) # p => landed = gone
      /\ OnAir(S) = p => /\ OnAir(landed) = near
                         /\ landed.degaussPending = (S.degaussPending \/ S.degaussArmed)
  BY <1>2, <1>4, <1>5, <1>6, <1>7, TurnAir DEF SameBanks
<1> HIDE DEF landed
<1>9. CASE ~(S.manager[b] = "ssh" /\ Slots(gone, b) = {})
  <2> DEFINE T == RemoveRow(S, p)
  <2>1. T = landed
    BY <1>3, <1>9
  <2> HIDE DEF T
  <2>2. Rows(T) = Rows(gone)
    BY <1>8, <2>1 DEF Rows, Open
  <2> QED BY <1>2, <1>4, <1>5, <1>6, <1>8, <2>1, <2>2 DEF SameBanks, Served, Owed, T
<1>10. CASE S.manager[b] = "ssh" /\ Slots(gone, b) = {}
  <2> DEFINE T == RemoveRow(S, p)
  <2>1. T = Forget(landed, b)
    BY <1>3, <1>10
  <2>0. /\ Forget(landed, b) \in Sets
        /\ Forget(landed, b).row = landed.row
        /\ Forget(landed, b).manager = [landed.manager EXCEPT ![b] = "none"]
        /\ Forget(landed, b).channel = [landed.channel EXCEPT ![b] = 1]
    BY <1>1, <1>8, ForgetFacts
  <2> HIDE DEF T
  <2>2. /\ T \in Sets /\ T.row = gone.row
        /\ T.manager = [S.manager EXCEPT ![b] = "none"]
        /\ T.channel = [landed.channel EXCEPT ![b] = 1]
    BY <1>8, <2>0, <2>1 DEF SameBanks
  <2>3. /\ T.newWindowPending = [S.newWindowPending EXCEPT ![b] = None]
        /\ T.degaussArmed = S.degaussArmed /\ T.degaussPending = landed.degaussPending
        /\ T.currentBank = landed.currentBank
    BY <1>8, <2>1 DEF Forget, SameBanks, Sets
  <2> HIDE DEF T
  <2>4. Rows(T) = Rows(gone) /\ \A q \in Rows(gone) : q[1] # b
    BY <1>5, <1>10, <2>2, PairParts DEF Rows, Open, Slots
  <2>5. Served(T) = Served(S)
    BY <1>1, <1>10, <2>2 DEF Served, Sets
  <2>6. OwedByServer(S) => Owed(T) = Owed(S)
    <3> HAVE OwedByServer(S)
    <3>1. S.newWindowPending[b] = None
      BY <1>1, <1>10 DEF OwedByServer, Owed, Served
    <3> QED BY <1>1, <2>3, <3>1 DEF Owed, Sets
  <2>7. landed.currentBank # b
    <3>1. CASE OnAir(S) = p
      BY <1>6, <1>8, <2>4, <3>1 DEF OnAir
    <3>2. CASE OnAir(S) # p
      <4>1. SUFFICES ASSUME S.currentBank = b PROVE FALSE
        BY <1>2, <1>8, <3>2
      <4>2. p[2] \in Slots(S, b)
        BY <1>1, PairParts DEF Slots, Rows
      <4>3. OnAir(S) \in Rows(S) /\ OnAir(S)[1] = b
        BY <1>1, <1>10, <4>1, <4>2, AirIsPair DEF AirLit
      <4> QED BY <1>5, <2>4, <3>2, <4>3
    <3> QED BY <3>1, <3>2
  <2>8. OnAir(T) = OnAir(landed)
    <3>1. /\ landed.currentBank \in BankId /\ landed.channel \in [BankId -> Slot]
          /\ S.manager \in [BankId -> Managers] /\ landed.manager = S.manager
      BY <1>1, <1>8 DEF Sets, SameBanks
    <3> QED BY <2>2, <2>3, <2>7, <3>1 DEF OnAir, Held
  <2> QED BY <1>2, <1>4, <1>5, <1>6, <1>8, <2>2, <2>3, <2>4, <2>5, <2>6, <2>8 DEF T
<1> QED BY <1>9, <1>10

\* A bank that goes moves the air only from itself, to a row that stands.
\* T is S without bank k: what is where the air is concerned.
AirCollapsed(S, k, T) ==
  /\ T \in Sets
  /\ T.row = [p \in Pair |-> IF p[1] = k THEN Dark ELSE S.row[p]]
  /\ Served(T) = Served(S) \ {k} /\ Owed(T) = Owed(S) \ {k}
  /\ T.degaussArmed = S.degaussArmed
  /\ S.currentBank # k => OnAir(T) = OnAir(S) /\ T.degaussPending = S.degaussPending
  /\ S.currentBank = k => /\ OnAir(T) \in Rows(T)
                          /\ T.degaussPending = (S.degaussPending \/ S.degaussArmed)

LEMMA CollapsesAir ==
  ASSUME NEW S, Sound(S), NEW k \in BankId, S.manager[k] = "tmux", NEW reason \in BOOLEAN
  PROVE  AirCollapsed(S, k, CollapseBank(S, k, reason))
<1> SUFFICES LET T == CollapseBank(S, k, reason)
           IN  /\ T \in Sets
               /\ T.row = [p \in Pair |-> IF p[1] = k THEN Dark ELSE S.row[p]]
               /\ Served(T) = Served(S) \ {k} /\ Owed(T) = Owed(S) \ {k}
               /\ T.degaussArmed = S.degaussArmed
               /\ S.currentBank # k => OnAir(T) = OnAir(S) /\ T.degaussPending = S.degaussPending
               /\ S.currentBank = k => /\ OnAir(T) \in Rows(T)
                                       /\ T.degaussPending = (S.degaussPending \/ S.degaussArmed)
  BY DEF AirCollapsed
<1> DEFINE carrier == S.carrier[k]
           stands  == carrier # NoPair /\ Open(S, carrier) /\ carrier[1] # k
           kept    == {p \in S.attachmentEnded : p[1] # k}
           ended   == IF ~stands THEN kept
                      ELSE IF reason THEN kept \cup {carrier} ELSE kept \ {carrier}
           swept   == [S EXCEPT !.row = [p \in Pair |-> IF p[1] = k THEN Dark ELSE S.row[p]],
                                !.attachmentEnded = ended]
           gone    == Forget(swept, k)
           hole    == IF Slots(S, k) = {} THEN NoPair ELSE <<k, 0>>
           near    == NearestRow(Rows(gone), hole, 0)
<1>1. /\ S \in Sets /\ Frame(S) /\ AirHeld(S)
      /\ S.manager \in [BankId -> Managers] /\ S.row \in [Pair -> Session \cup {Dark}]
      /\ S.newWindowPending \in [BankId -> Pending] /\ S.channel \in [BankId -> Slot]
      /\ S.currentBank \in BankId
  BY DEF Sound, Frame, Sets
<1>2. CollapseBank(S, k, reason)
        = IF S.currentBank # k THEN gone
          ELSE IF stands THEN SetCurrent(gone, carrier)
          ELSE IF Rows(gone) # {} THEN SetCurrent(gone, near)
          ELSE gone
  BY DEF CollapseBank
<1>3. ended \in SUBSET Pair
  BY <1>1 DEF Sets
<1> HIDE DEF ended
<1>4. /\ swept \in Sets
      /\ swept.row = [p \in Pair |-> IF p[1] = k THEN Dark ELSE S.row[p]]
      /\ SameBanks(S, swept) /\ swept.channel = S.channel
      /\ swept.currentBank = S.currentBank /\ swept.degaussPending = S.degaussPending
  BY <1>1, <1>3 DEF Sets, SameBanks
<1> HIDE DEF swept
<1>5a. /\ gone \in Sets /\ gone.row = swept.row
       /\ gone.manager = [swept.manager EXCEPT ![k] = "none"]
       /\ gone.channel = [swept.channel EXCEPT ![k] = 1]
  BY <1>4, ForgetFacts
<1>6. /\ gone.newWindowPending = [S.newWindowPending EXCEPT ![k] = None]
      /\ gone.degaussArmed = S.degaussArmed /\ gone.degaussPending = S.degaussPending
      /\ gone.currentBank = S.currentBank
  BY <1>4 DEF Forget, Sets, SameBanks
<1> HIDE DEF gone
<1>5. /\ gone \in Sets /\ gone.row = swept.row
      /\ gone.manager = [S.manager EXCEPT ![k] = "none"]
      /\ gone.channel = [S.channel EXCEPT ![k] = 1]
  BY <1>4, <1>5a DEF SameBanks
<1>7. Served(gone) = Served(S) \ {k} /\ Owed(gone) = Owed(S) \ {k}
  BY <1>1, <1>5, <1>6 DEF Served, Owed
<1>8. Rows(gone) \subseteq Pair /\ \A q \in Rows(gone) : q \in Rows(S) /\ q[1] # k
  BY <1>4, <1>5 DEF Rows, Open
<1>9. \A q \in Rows(gone) : Held(gone, q[1])
  BY <1>1, <1>5, <1>8, PairParts DEF Frame, RowsHeld, Held
<1>10. CASE S.currentBank # k
  <2>1. OnAir(gone) = OnAir(S)
    BY <1>1, <1>5, <1>6, <1>10 DEF OnAir, Held
  <2> QED BY <1>2, <1>4, <1>5, <1>6, <1>7, <1>10, <2>1
<1>11. CASE S.currentBank = k
  <2>1. OnAir(S)[1] = k
    BY <1>1, <1>11, AirIsPair
  <2>2. OnAir(gone) = <<k, 0>>
    BY <1>1, <1>5, <1>6, <1>11 DEF OnAir, Held
  <2>3. Rows(gone) # {}
    <3>1. PICK q \in Anchored(S) : TRUE
      BY <1>1 DEF Frame, AnchorHolds
    <3>2. q \in Pair /\ Open(S, q) /\ q[1] # k
      BY <3>1 DEF Anchored, Rows
    <3> QED BY <1>4, <1>5, <3>2 DEF Rows, Open
  <2> DEFINE at == IF stands THEN carrier ELSE near
  <2>4. at \in Rows(gone)
    <3>1. CASE stands
      <4>1. carrier \in Pair /\ Open(S, carrier) /\ carrier[1] # k
        BY <1>1, <3>1 DEF Sets, stands
      <4> QED BY <1>4, <1>5, <3>1, <4>1 DEF Rows, Open
    <3>2. CASE ~stands
      BY <1>8, <2>3, <3>2, NearestIn
    <3> QED BY <3>1, <3>2
  <2>5. CollapseBank(S, k, reason) = SetCurrent(gone, at)
    BY <1>2, <1>11, <2>3
  <2> HIDE DEF at
  <2>6. at \in Pair /\ Held(gone, at[1]) /\ at # OnAir(gone)
    <3>1. at[1] # k
      BY <1>8, <2>4
    <3> QED BY <1>8, <1>9, <2>2, <2>4, <3>1
  <2> DEFINE T == SetCurrent(gone, at)
  <2>7. /\ T \in Sets /\ T.row = gone.row /\ SameBanks(gone, T) /\ OnAir(T) = at
        /\ T.degaussPending = (S.degaussPending \/ S.degaussArmed)
    BY <1>5, <1>6, <2>6, TurnAir
  <2> HIDE DEF T
  <2>8. Rows(T) = Rows(gone) /\ Served(T) = Served(gone) /\ Owed(T) = Owed(gone)
    BY <2>7 DEF Rows, Open, Served, Owed, SameBanks
  <2>9. CollapseBank(S, k, reason) = T
    BY <2>5 DEF T
  <2> QED BY <1>4, <1>5, <1>6, <1>7, <1>11, <2>4, <2>7, <2>8, <2>9 DEF SameBanks
<1> QED BY <1>10, <1>11

LEMMA CollapseAir ==
  ASSUME NEW S, Sound(S), NEW k \in BankId, S.manager[k] = "tmux", NEW reason \in BOOLEAN
  PROVE  LET T == CollapseBank(S, k, reason)
         IN  /\ T \in Sets
             /\ T.row = [p \in Pair |-> IF p[1] = k THEN Dark ELSE S.row[p]]
             /\ Served(T) = Served(S) \ {k} /\ Owed(T) = Owed(S) \ {k}
             /\ T.degaussArmed = S.degaussArmed
             /\ S.currentBank # k => OnAir(T) = OnAir(S) /\ T.degaussPending = S.degaussPending
             /\ S.currentBank = k => /\ OnAir(T) \in Rows(T)
                                     /\ T.degaussPending = (S.degaussPending \/ S.degaussArmed)
BY CollapsesAir DEF AirCollapsed

-----------------------------------------------------------------------------
\* A turn of the glass: onto a row, or onto a bank with none.
Turns(S, T) ==
  /\ T.row = S.row /\ Served(T) = Served(S) /\ Owed(T) = Owed(S) /\ Glass(S, T)
  /\ OnAir(T) \in Pair
  /\ OnAir(T) \in Rows(S) \/ Slots(S, OnAir(T)[1]) = {}

LEMMA TurnTo ==
  ASSUME NEW S, Frame(S), NEW p \in Pair, Held(S, p[1]),
         p \in Rows(S) \/ Slots(S, p[1]) = {}
  PROVE  Turns(S, SetCurrent(S, p))
<1> DEFINE T == SetCurrent(S, p)
<1>1. /\ T.row = S.row /\ SameBanks(S, T) /\ OnAir(T) = p
      /\ T.degaussPending = (S.degaussPending \/ (p # OnAir(S) /\ S.degaussArmed))
  BY TurnAir DEF Frame
<1> HIDE DEF T
<1> QED BY <1>1 DEF Turns, Glass, SameBanks, Served, Owed, T

LEMMA TurnOnRow ==
  ASSUME NEW S, Frame(S), NEW p \in Rows(S)
  PROVE  Turns(S, SetCurrent(S, p))
<1>1. p \in Pair /\ Held(S, p[1])
  BY DEF Rows, Frame, RowsHeld
<1> QED BY <1>1, TurnTo

LEMMA SelectBankTurns ==
  ASSUME NEW S, Frame(S), NEW b \in BankId, Held(S, b)
  PROVE  Turns(S, SelectBank(S, b))
<1> DEFINE remembered == <<b, S.channel[b]>>
           low        == <<b, Min(Slots(S, b))>>
<1>1. remembered \in Pair /\ remembered[1] = b
  BY DEF Frame, Sets, Pair
<1>2. CASE Open(S, remembered) \/ Slots(S, b) = {}
  <2>1. remembered \in Rows(S) \/ Slots(S, b) = {}
    BY <1>1, <1>2 DEF Rows
  <2>2. SelectBank(S, b) = SetCurrent(S, remembered)
    BY <1>2 DEF SelectBank
  <2> HIDE DEF remembered
  <2> QED BY <1>1, <2>1, <2>2, TurnTo
<1>3. CASE ~Open(S, remembered) /\ Slots(S, b) # {}
  <2>1. Slots(S, b) \subseteq Nat
    BY ChannelsAssumption DEF Slots, Slot
  <2>2. Min(Slots(S, b)) \in Slots(S, b)
    BY <1>3, <2>1, MinIn
  <2>3. low \in Rows(S)
    BY <2>2 DEF Slots, Rows, Pair
  <2>4. SelectBank(S, b) = SetCurrent(S, low)
    BY <1>3 DEF SelectBank
  <2> HIDE DEF low
  <2> QED BY <2>3, <2>4, TurnOnRow
<1> QED BY <1>2, <1>3

\* A session the user opened takes the air.
OpensOn(S, T, p, s) ==
  /\ T.row = [S.row EXCEPT ![p] = s]
  /\ Served(T) = Served(S) /\ Owed(T) = Owed(S) /\ OnAir(T) = p /\ Glass(S, T)

LEMMA OpenedAir ==
  ASSUME NEW S \in Sets, NEW p \in Pair, Held(S, p[1]), NEW s \in Session
  PROVE  OpensOn(S, SetCurrent(InsertRow(S, p, s), p), p, s)
<1> DEFINE lit == InsertRow(S, p, s)
           T   == SetCurrent(lit, p)
<1>1. /\ lit \in Sets /\ lit.row = [S.row EXCEPT ![p] = s] /\ SameBanks(S, lit)
      /\ lit.currentBank = S.currentBank /\ lit.channel = S.channel
      /\ lit.degaussPending = S.degaussPending
  BY DEF InsertRow, Sets, SameBanks
<1> HIDE DEF lit
<1>2. OnAir(lit) = OnAir(S) /\ Held(lit, p[1])
  BY <1>1 DEF OnAir, Held, SameBanks
<1>3. /\ T.row = lit.row /\ SameBanks(lit, T) /\ OnAir(T) = p
      /\ T.degaussPending = (lit.degaussPending \/ (p # OnAir(lit) /\ lit.degaussArmed))
  BY <1>1, <1>2, TurnAir
<1> HIDE DEF T
<1>4. OpensOn(S, T, p, s)
  BY <1>1, <1>2, <1>3 DEF OpensOn, Glass, SameBanks, Served, Owed
<1> QED BY <1>4 DEF T, lit

LEMMA PushAir ==
  ASSUME NEW S, Sound(S), S.nextBankId <= MaxBank,
         NEW m \in Managers, NEW w \in Pair \cup {NoPair}
  PROVE  LET n == S.nextBankId
             T == PushBank(S, m, w)
         IN  /\ n \in BankId /\ n \notin Served(S) /\ Slots(S, n) = {}
             /\ m # "none" => Held(T, n)
             /\ T \in Sets /\ T.row = S.row /\ Owed(T) = Owed(S)
             /\ Served(T) = IF m = "tmux" THEN Served(S) \cup {n} ELSE Served(S)
             /\ OnAir(T) = OnAir(S)
             /\ T.degaussArmed = S.degaussArmed /\ T.degaussPending = S.degaussPending
<1> DEFINE n == S.nextBankId
           T == PushBank(S, m, w)
<1>0. Frame(S)
  BY DEF Sound
<1>1. /\ n \in BankId /\ S.manager[n] = "none" /\ T \in Sets
      /\ T.manager = [S.manager EXCEPT ![n] = m] /\ T.row = S.row
      /\ \A p \in Rows(S) : p[1] # n
  <2>1. n \in BankId /\ S.manager[n] = "none" /\ T \in Sets
    BY <1>0, PushFacts
  <2>2. \A p \in Rows(S) : p[1] # n
    BY <1>0, PushFacts
  <2>3. T.manager = [S.manager EXCEPT ![n] = m] /\ T.row = S.row
    BY <1>0 DEF PushBank, Frame, Sets
  <2> QED BY <2>1, <2>2, <2>3
<1>2. /\ T.currentBank = S.currentBank /\ T.channel = S.channel
      /\ T.newWindowPending = S.newWindowPending /\ T.degaussArmed = S.degaussArmed
      /\ T.degaussPending = S.degaussPending
  BY <1>0 DEF PushBank, Frame, Sets
<1>3. S.manager \in [BankId -> Managers] /\ S.currentBank \in BankId /\ S.currentBank # n
  BY <1>1 DEF Sound, Frame, Sets, AirHeld, Held
<1> HIDE DEF T, n
<1>4. n \notin Served(S) /\ (m # "none" => Held(T, n)) /\ Owed(T) = Owed(S)
  BY <1>1, <1>2, <1>3 DEF Served, Owed, Held
<1>5. Slots(S, n) = {}
  <2> SUFFICES ASSUME NEW c \in Slots(S, n) PROVE FALSE
    OBVIOUS
  <2>1. <<n, c>> \in Rows(S)
    BY <1>1 DEF Slots, Rows, Pair
  <2> QED BY <1>1, <2>1
<1>6. Served(T) = IF m = "tmux" THEN Served(S) \cup {n} ELSE Served(S)
  BY <1>1, <1>3 DEF Served
<1>7. OnAir(T) = OnAir(S)
  BY <1>1, <1>2, <1>3 DEF OnAir, Held
<1> QED BY <1>1, <1>2, <1>4, <1>5, <1>6, <1>7 DEF T, n

\* The glass turns to the new bank from the channel it came up on, or not.
LEMMA AttachAir ==
  ASSUME NEW S, Sound(S), S.nextBankId <= MaxBank, NEW p \in Pair
  PROVE  LET n == S.nextBankId
             T == AttachOver(S, p)
         IN  /\ n \in BankId \ Served(S) /\ Slots(S, n) = {}
             /\ T.row = S.row /\ Served(T) = Served(S) \cup {n} /\ Owed(T) = Owed(S)
             /\ OnAir(T) = IF OnAir(S) = p THEN <<n, 1>> ELSE OnAir(S)
             /\ Glass(S, T)
<1> DEFINE n == S.nextBankId
           U == PushBank(S, "tmux", p)
           T == AttachOver(S, p)
<1>1. /\ n \in BankId /\ n \notin Served(S) /\ Slots(S, n) = {} /\ Held(U, n)
      /\ U \in Sets /\ U.row = S.row /\ Owed(U) = Owed(S)
      /\ Served(U) = Served(S) \cup {n} /\ OnAir(U) = OnAir(S)
      /\ U.degaussArmed = S.degaussArmed /\ U.degaussPending = S.degaussPending
  BY PushAir DEF Managers
<1>2. T = IF OnAir(S) = p THEN SetCurrent(U, <<n, 1>>) ELSE U
  BY DEF AttachOver
<1>3. <<n, 1>> \in Pair
  BY <1>1, ChannelsAssumption DEF Pair, Slot
<1> HIDE DEF U, n, T
<1>4. CASE OnAir(S) = p
  <2> DEFINE V == SetCurrent(U, <<n, 1>>)
  <2>1. /\ V.row = U.row /\ SameBanks(U, V) /\ OnAir(V) = <<n, 1>>
        /\ V.degaussPending = (U.degaussPending \/ (<<n, 1>> # OnAir(U) /\ U.degaussArmed))
    BY <1>1, <1>3, TurnAir
  <2>2. T = V
    BY <1>2, <1>4
  <2> HIDE DEF V
  <2> QED BY <1>1, <1>4, <2>1, <2>2 DEF T, n, Glass, SameBanks, Served, Owed
<1>5. CASE OnAir(S) # p
  <2>1. T = U
    BY <1>2, <1>5
  <2>2. Glass(S, T)
    BY <1>1, <2>1 DEF Glass
  <2> QED BY <1>1, <1>5, <2>1, <2>2 DEF T, n
<1> QED BY <1>4, <1>5 DEF T, n

LEMMA SshAir ==
  ASSUME NEW S, Sound(S), S.nextBankId <= MaxBank, NEW s \in Session
  PROVE  LET first == <<S.nextBankId, 1>>
         IN  /\ first \in Pair /\ ~Open(S, first) /\ first[1] \notin Served(S)
             /\ OpensOn(S, OpenSshBank(S, s), first, s)
<1> DEFINE n     == S.nextBankId
           first == <<n, 1>>
           U     == PushBank(S, "ssh", NoPair)
           T     == SetCurrent(InsertRow(U, first, s), first)
<1>1. /\ n \in BankId /\ n \notin Served(S) /\ Slots(S, n) = {} /\ Held(U, n)
      /\ U \in Sets /\ U.row = S.row /\ Owed(U) = Owed(S)
      /\ Served(U) = Served(S) /\ OnAir(U) = OnAir(S)
      /\ U.degaussArmed = S.degaussArmed /\ U.degaussPending = S.degaussPending
  BY PushAir DEF Managers
<1> HIDE DEF U, n
<1>2. first \in Pair /\ ~Open(S, first) /\ first[1] = n
  BY <1>1, ChannelsAssumption DEF Pair, Slot, Slots
<1> HIDE DEF first
<1>3. OpensOn(U, T, first, s)
  BY <1>1, <1>2, OpenedAir
<1>4. OpenSshBank(S, s) = T
  BY DEF OpenSshBank, U, first, n
<1> HIDE DEF T
<1>5. OpensOn(S, T, first, s)
  BY <1>1, <1>3 DEF OpensOn, Glass
<1> QED BY <1>1, <1>2, <1>4, <1>5 DEF first, n

\* A server's window takes the air where its bank owes one.
LEMMA WindowAir ==
  ASSUME NEW S, Sound(S), NEW b \in BankId, S.manager[b] = "tmux", NEW s \in Session, NEW r
  PROVE  LET c == WindowSlot(S, b, r)
             p == <<b, c>>
             T == OpenTmuxWindow(S, b, s, r)
         IN  /\ Served(T) = Served(S) /\ Owed(T) = Owed(S) \ {b} /\ Glass(S, T)
             /\ \/ c = 0 /\ T.row = S.row /\ OnAir(T) = OnAir(S)
                \/ /\ p \in Pair /\ ~Open(S, p) /\ T.row = [S.row EXCEPT ![p] = s]
                   /\ OnAir(T) = IF b \in Owed(S) THEN p ELSE OnAir(S)
<1> DEFINE c     == WindowSlot(S, b, r)
           p     == <<b, c>>
           taken == [S EXCEPT !.newWindowPending[b] = None]
           lit   == InsertRow(taken, p, s)
           T     == OpenTmuxWindow(S, b, s, r)
<1>1. c = 0 \/ c \in Slot \ Slots(S, b)
  BY WindowSlotDark
<1>2. S \in Sets /\ Held(S, b)
  BY DEF Sound, Frame, Held
<1>3. /\ taken \in Sets /\ taken.row = S.row /\ taken.manager = S.manager
      /\ taken.newWindowPending = [S.newWindowPending EXCEPT ![b] = None]
      /\ taken.currentBank = S.currentBank /\ taken.channel = S.channel
      /\ taken.degaussArmed = S.degaussArmed /\ taken.degaussPending = S.degaussPending
  BY <1>2 DEF Sets, Pending
<1>4. T = IF c = 0 THEN taken
          ELSE IF S.newWindowPending[b] # None THEN SetCurrent(lit, p) ELSE lit
  BY DEF OpenTmuxWindow
<1>5. (b \in Owed(S)) <=> (S.newWindowPending[b] # None)
  BY DEF Owed
<1> HIDE DEF taken, c, T
<1>6. OnAir(taken) = OnAir(S) /\ Served(taken) = Served(S)
  BY <1>3 DEF OnAir, Held, Served
<1>7. Owed(taken) = Owed(S) \ {b}
  BY <1>2, <1>3 DEF Owed, Sets
<1>8. CASE c = 0
  <2>1. T = taken
    BY <1>4, <1>8
  <2>2. Glass(S, T)
    BY <1>3, <1>6, <2>1 DEF Glass
  <2>3. /\ Served(T) = Served(S) /\ Owed(T) = Owed(S) \ {b}
        /\ T.row = S.row /\ OnAir(T) = OnAir(S)
    BY <1>3, <1>6, <1>7, <2>1
  <2> QED BY <1>8, <2>2, <2>3 DEF c, T
<1>9. CASE c # 0
  <2>1. p \in Pair /\ ~Open(S, p) /\ p[1] = b
    BY <1>1, <1>9 DEF Pair, Slots
  <2> HIDE DEF p
  <2>2. Held(taken, b)
    BY <1>2, <1>3 DEF Held
  <2>3. CASE S.newWindowPending[b] # None
    <3>1. OpensOn(taken, SetCurrent(lit, p), p, s)
      BY <1>3, <2>1, <2>2, OpenedAir
    <3>2. T = SetCurrent(lit, p)
      BY <1>4, <1>9, <2>3
    <3> HIDE DEF lit
    <3>3. /\ Served(T) = Served(S) /\ Owed(T) = Owed(S) \ {b} /\ Glass(S, T)
          /\ T.row = [S.row EXCEPT ![p] = s] /\ OnAir(T) = p
      BY <1>3, <1>6, <1>7, <3>1, <3>2 DEF OpensOn, Glass
    <3> QED BY <1>5, <2>1, <2>3, <3>3 DEF c, p, T
  <2>4. CASE S.newWindowPending[b] = None
    <3>1. /\ lit.row = [S.row EXCEPT ![p] = s] /\ lit.manager = S.manager
          /\ lit.newWindowPending = taken.newWindowPending
          /\ lit.currentBank = S.currentBank /\ lit.channel = S.channel
          /\ lit.degaussArmed = S.degaussArmed /\ lit.degaussPending = S.degaussPending
      BY <1>3 DEF InsertRow, Sets
    <3>2. T = lit
      BY <1>4, <1>9, <2>4
    <3> HIDE DEF lit
    <3>3. OnAir(T) = OnAir(S) /\ Served(T) = Served(S) /\ Owed(T) = Owed(taken)
      BY <3>1, <3>2 DEF OnAir, Held, Served, Owed
    <3>4. T.degaussArmed = S.degaussArmed /\ T.degaussPending = S.degaussPending
      BY <3>1, <3>2
    <3>5. Glass(S, T)
      BY <3>3, <3>4 DEF Glass
    <3> QED BY <1>5, <1>7, <2>1, <2>4, <3>1, <3>2, <3>3, <3>5 DEF c, p, T
  <2> QED BY <2>3, <2>4
<1> QED BY <1>8, <1>9

\* A store carries the air along, and the tube holds steady.
LEMMA StoreAir ==
  ASSUME NEW S, Sound(S), NEW b \in BankId, NEW c \in Slot, CanStore(S, b, c)
  PROVE  LET from == OnAir(S)
             to   == <<b, c>>
             T    == MoveCurrentTo(S, b, c)
         IN  /\ from \in Rows(S) /\ from[1] = b /\ to \in Pair
             /\ T.row = [S.row EXCEPT ![from] = S.row[to], ![to] = S.row[from]]
             /\ Served(T) = Served(S) /\ Owed(T) = Owed(S) /\ OnAir(T) = to
             /\ T.degaussArmed = S.degaussArmed /\ T.degaussPending = S.degaussPending
<1> DEFINE from  == OnAir(S)
           to    == <<b, c>>
           other(p) == IF p = from THEN to ELSE IF p = to THEN from ELSE p
           moved == [S EXCEPT !.row = [p \in Pair |-> S.row[other(p)]],
                              !.attachmentEnded = {p \in Pair : other(p) \in S.attachmentEnded},
                              !.degaussArmed = FALSE]
           U     == SetCurrent(moved, to)
           T     == [U EXCEPT !.degaussArmed = S.degaussArmed]
<1>1. /\ S \in Sets /\ S.row \in [Pair -> Session \cup {Dark}] /\ b = S.currentBank
      /\ Held(S, b) /\ from \in Rows(S)
  BY DEF Sound, Frame, Sets, AirHeld, CanStore
<1>2. from \in Pair /\ to \in Pair /\ from[1] = b /\ to[1] = b
  BY <1>1 DEF Rows, Pair, OnAir
<1>3. [p \in Pair |-> S.row[other(p)]] = [S.row EXCEPT ![from] = S.row[to], ![to] = S.row[from]]
  BY <1>1, <1>2
<1>4. [p \in Pair |-> S.row[other(p)]] \in [Pair -> Session \cup {Dark}]
  BY <1>1, <1>2
<1>5. /\ moved \in Sets /\ moved.row = [p \in Pair |-> S.row[other(p)]]
      /\ moved.manager = S.manager /\ moved.newWindowPending = S.newWindowPending
      /\ moved.degaussArmed = FALSE /\ moved.degaussPending = S.degaussPending
  BY <1>1, <1>4 DEF Sets
<1>6. MoveCurrentTo(S, b, c) = T
  BY DEF MoveCurrentTo
<1> HIDE DEF moved
<1>7. Held(moved, b)
  BY <1>1, <1>5 DEF Held
<1>8. /\ U \in Sets /\ U.row = moved.row /\ SameBanks(moved, U) /\ OnAir(U) = to
      /\ U.degaussPending = (moved.degaussPending \/ (to # OnAir(moved) /\ moved.degaussArmed))
  <2> HIDE DEF to
  <2> QED BY <1>2, <1>5, <1>7, TurnAir
<1> HIDE DEF U
<1>9. /\ T.row = U.row /\ T.manager = U.manager /\ T.newWindowPending = U.newWindowPending
      /\ T.currentBank = U.currentBank /\ T.channel = U.channel
      /\ T.degaussArmed = S.degaussArmed /\ T.degaussPending = U.degaussPending
  BY <1>8 DEF Sets
<1> HIDE DEF T
<1>10. OnAir(T) = OnAir(U)
  BY <1>9 DEF OnAir, Held
<1>11. Served(T) = Served(S) /\ Owed(T) = Owed(S)
  BY <1>5, <1>8, <1>9 DEF Served, Owed, SameBanks
<1>12. T.degaussPending = S.degaussPending
  <2>1. U.degaussPending = (moved.degaussPending \/ (to # OnAir(moved) /\ moved.degaussArmed))
    BY <1>8
  <2>2. U.degaussPending \in BOOLEAN /\ moved.degaussPending \in BOOLEAN
    BY <1>5, <1>8 DEF Sets
  <2>3. U.degaussPending = moved.degaussPending
    BY <1>5, <2>1, <2>2
  <2> QED BY <1>5, <1>9, <2>3
<1> QED BY <1>1, <1>2, <1>3, <1>5, <1>6, <1>8, <1>9, <1>10, <1>11, <1>12

-----------------------------------------------------------------------------
(***************************************************************************)
(* The flinch law, of two sets.                                            *)
(***************************************************************************)
Flinches(S, T) ==
  S.degaussArmed =>
    /\ T.degaussPending /\ ~S.degaussPending =>
          /\ OnAir(T) # OnAir(S)
          /\ Shown(T) # Shown(S) \/ Shown(T) = Dark
    /\ Shown(T) # Shown(S) /\ Shown(T) # Dark =>
          \/ T.degaussPending
          \/ OnAir(T) = OnAir(S)

\* A session in use before a step is where it was, or gone.
Unmoved(S, T) == \A q \in Rows(T) : T.row[q] \in InUse(S) => S.row[q] = T.row[q]

LEMMA UnmovedPruned ==
  ASSUME NEW S, NEW T, Pruned(S, T)
  PROVE  Unmoved(S, T)
BY DEF Pruned, Unmoved, Rows, Open

LEMMA UnmovedInsert ==
  ASSUME NEW S \in Sets, NEW T, NEW p \in Pair, NEW s \in Session \ InUse(S),
         T.row = [S.row EXCEPT ![p] = s]
  PROVE  Unmoved(S, T)
<1>1. T.row[p] = s /\ \A q \in Pair : q # p => T.row[q] = S.row[q]
  BY DEF Sets
<1> QED BY <1>1 DEF Unmoved, Rows

\* The air goes to another slot and never to the session that was shown.
LEMMA GlassFlinches ==
  ASSUME NEW S, NEW T, OneSlotEach(S), Unmoved(S, T), Glass(S, T)
  PROVE  Flinches(S, T)
<1> SUFFICES ASSUME S.degaussArmed PROVE Flinches(S, T)
  BY DEF Flinches
<1>1. T.degaussPending <=> S.degaussPending \/ OnAir(T) # OnAir(S)
  BY DEF Glass
<1>2. ASSUME OnAir(T) # OnAir(S), Shown(T) = Shown(S), Shown(T) # Dark PROVE FALSE
  <2>1. /\ OnAir(T) \in Rows(T) /\ OnAir(S) \in Rows(S)
        /\ T.row[OnAir(T)] = S.row[OnAir(S)]
    BY <1>2 DEF Shown
  <2>2. T.row[OnAir(T)] \in InUse(S)
    BY <2>1 DEF InUse
  <2>3. S.row[OnAir(T)] = S.row[OnAir(S)] /\ OnAir(T) \in Rows(S)
    BY <2>1, <2>2 DEF Unmoved, Rows, Open
  <2> QED BY <1>2, <2>1, <2>3 DEF OneSlotEach
<1> QED BY <1>1, <1>2 DEF Flinches

-----------------------------------------------------------------------------
(***************************************************************************)
(* What each kind of step is to the board.                                 *)
(***************************************************************************)
LEMMA BoardReads ==
  /\ Board!Place = Pair
  /\ Board!Lit = Rows(set)
  /\ \A b \in BankId : Slots(set, b) = {} => Board!LitOn(b) = {}
<1>1. Board!Place = Pair /\ Board!Lit = Rows(set)
  BY DEF Board!Place, Board!Lit, Pair, Rows, Open
<1>2. ASSUME NEW b \in BankId, Slots(set, b) = {} PROVE Board!LitOn(b) = {}
  <2> SUFFICES ASSUME NEW p \in Rows(set), p[1] = b PROVE FALSE
    BY <1>1 DEF Board!LitOn
  <2>1. p = <<p[1], p[2]>> /\ p[2] \in Slot
    BY PairParts DEF Rows
  <2> QED BY <1>2, <2>1 DEF Slots, Rows
<1> QED BY <1>1, <1>2

Answers == [Board!Next]_(Board!bvars) /\ Flinches(set, set')

LEMMA BoardStays ==
  ASSUME set \in Sets, OneSlotEach(set), set'.row = set.row, Served(set') = Served(set),
         Owed(set') = Owed(set), OnAir(set') = OnAir(set), Glass(set, set')
  PROVE  Answers
<1>1. Flinches(set, set')
  BY UnmovedPruned, GlassFlinches DEF Pruned
<1>2. UNCHANGED Board!bvars
  BY DEF Board!bvars, Served, Owed
<1> QED BY <1>1, <1>2 DEF Answers

LEMMA BoardOpens ==
  ASSUME set \in Sets, OneSlotEach(set),
         NEW p \in Pair, NEW s \in Session \ InUse(set), ~Open(set, p), p[1] \notin Served(set),
         OpensOn(set, set', p, s)
  PROVE  Answers
<1>1. p \notin Board!Lit
  BY BoardReads DEF Rows
<1>2. Board!OpenByUser(p, s)
  BY <1>1 DEF Board!OpenByUser, OpensOn, Served, Owed
<1>3. Flinches(set, set')
  BY UnmovedInsert, GlassFlinches DEF OpensOn
<1> QED BY <1>2, <1>3, BoardReads DEF Board!Next, Answers

LEMMA BoardTurns ==
  ASSUME OneSlotEach(set), Turns(set, set')
  PROVE  Answers
<1>1. OnAir(set')[1] \in BankId
  BY PairParts DEF Turns
<1>2. Board!Turn(OnAir(set'))
  BY <1>1, BoardReads DEF Board!Turn, Turns, Served, Owed
<1>3. Flinches(set, set')
  BY UnmovedPruned, GlassFlinches DEF Turns, Pruned
<1>4. OnAir(set') \in Board!Place
  BY BoardReads DEF Turns
<1> QED BY <1>2, <1>3, <1>4 DEF Board!Next, Answers

LEMMA BoardServes ==
  ASSUME OneSlotEach(set), NEW n \in BankId \ Served(set), Slots(set, n) = {},
         set'.row = set.row, Served(set') = Served(set) \cup {n}, Owed(set') = Owed(set),
         OnAir(set') = OnAir(set) \/ (OnAir(set) \in Rows(set) /\ OnAir(set')[1] = n),
         Glass(set, set')
  PROVE  Answers
<1>1. Board!Serve(n)
  BY BoardReads DEF Board!Serve, Served, Owed
<1>2. Flinches(set, set')
  BY UnmovedPruned, GlassFlinches DEF Pruned
<1> QED BY <1>1, <1>2 DEF Board!Next, Answers

LEMMA BoardAsks ==
  ASSUME Sound(set), OneSlotEach(set), NEW b \in BankId, set.manager[b] = "tmux",
         NEW slot \in Slot \cup {0}, set' = AskForWindow(set, b, slot)
  PROVE  Answers
<1>1. set \in Sets /\ slot # None
  BY ChannelsAssumption DEF Sound, Frame, Slot, None
<1>2. /\ set'.row = set.row /\ set'.manager = set.manager
      /\ set'.currentBank = set.currentBank /\ set'.channel = set.channel
      /\ set'.degaussArmed = set.degaussArmed /\ set'.degaussPending = set.degaussPending
      /\ set'.newWindowPending = [set.newWindowPending EXCEPT ![b] = slot]
  BY <1>1 DEF AskForWindow, Sets
<1>3. Served(set') = Served(set) /\ OnAir(set') = OnAir(set)
  BY <1>2 DEF Served, OnAir, Held
<1>4. Owed(set') = Owed(set) \cup {b}
  BY <1>1, <1>2 DEF Owed, Sets
<1>5. Glass(set, set')
  BY <1>2, <1>3 DEF Glass
<1>6. Board!Ask(b)
  BY <1>2, <1>3, <1>4 DEF Board!Ask, Served, Owed
<1>7. Flinches(set, set')
  BY <1>2, <1>5, UnmovedPruned, GlassFlinches DEF Pruned
<1> QED BY <1>6, <1>7 DEF Board!Next, Answers

LEMMA BoardWindow ==
  ASSUME Sound(set), OneSlotEach(set), NEW b \in BankId, set.manager[b] = "tmux",
         NEW s \in Session \ InUse(set), NEW r, set' = OpenTmuxWindow(set, b, s, r)
  PROVE  Answers
<1> DEFINE c == WindowSlot(set, b, r)
           p == <<b, c>>
<1>1. /\ Served(set') = Served(set) /\ Owed(set') = Owed(set) \ {b} /\ Glass(set, set')
      /\ \/ c = 0 /\ set'.row = set.row /\ OnAir(set') = OnAir(set)
         \/ /\ p \in Pair /\ ~Open(set, p) /\ set'.row = [set.row EXCEPT ![p] = s]
            /\ OnAir(set') = IF b \in Owed(set) THEN p ELSE OnAir(set)
  BY WindowAir
<1>2. set \in Sets /\ b \in Served(set)
  BY DEF Sound, Frame, Served
<1>3. CASE c = 0 /\ set'.row = set.row /\ OnAir(set') = OnAir(set)
  <2>1. Slot \ Slots(set, b) = {}
    <3> DEFINE free == Slot \ Slots(set, b)
    <3>1. FirstFree(set, b) = 0
      BY <1>3, ChannelsAssumption DEF WindowSlot, Slot
    <3>2. free \subseteq Nat /\ 0 \notin free
      BY ChannelsAssumption DEF Slot
    <3>3. FirstFree(set, b) = IF free = {} THEN 0 ELSE Min(free)
      BY DEF FirstFree
    <3> HIDE DEF free
    <3>4. free = {}
      BY <3>1, <3>2, <3>3, MinIn
    <3> QED BY <3>4 DEF free
  <2>2. \A d \in Slot : <<b, d>> \in Board!Lit
    BY <2>1, BoardReads DEF Slots, Rows, Pair
  <2>3. Board!TurnedAway(b)
    BY <1>1, <1>3, <2>2 DEF Board!TurnedAway, Served, Owed
  <2>4. Flinches(set, set')
    BY <1>1, <1>3, UnmovedPruned, GlassFlinches DEF Pruned
  <2> QED BY <2>3, <2>4 DEF Board!Next, Answers
<1>4. CASE /\ p \in Pair /\ ~Open(set, p) /\ set'.row = [set.row EXCEPT ![p] = s]
           /\ OnAir(set') = IF b \in Owed(set) THEN p ELSE OnAir(set)
  <2>1. p[1] = b /\ p \notin Board!Lit /\ p \in Board!Place
    BY <1>4, BoardReads DEF Rows
  <2> HIDE DEF p
  <2>2. Board!Arrive(p, s)
    BY <1>1, <1>2, <1>4, <2>1 DEF Board!Arrive, Served, Owed
  <2>3. Flinches(set, set')
    BY <1>1, <1>2, <1>4, UnmovedInsert, GlassFlinches
  <2> QED BY <2>1, <2>2, <2>3 DEF Board!Next, Answers
<1> QED BY <1>1, <1>3, <1>4

\* A store carries the session shown along, and the tube holds steady.
LEMMA BoardStores ==
  ASSUME Sound(set), NEW b \in BankId, NEW c \in Slot, CanStore(set, b, c),
         set' = MoveCurrentTo(set, b, c)
  PROVE  Answers
<1> DEFINE from == OnAir(set)
           to   == <<b, c>>
<1>1. /\ from \in Rows(set) /\ from[1] = b /\ to \in Pair
      /\ set'.row = [set.row EXCEPT ![from] = set.row[to], ![to] = set.row[from]]
      /\ Served(set') = Served(set) /\ Owed(set') = Owed(set) /\ OnAir(set') = to
      /\ set'.degaussArmed = set.degaussArmed /\ set'.degaussPending = set.degaussPending
  BY StoreAir
<1>2. Board!Store(c)
  BY <1>1, BoardReads DEF Board!Store, Served, Owed
<1>3. set'.row[to] = set.row[from] /\ to \in Rows(set')
  <2>1. set.row \in [Pair -> Session \cup {Dark}] /\ from \in Pair /\ set.row[from] # Dark
    BY <1>1 DEF Sound, Frame, Sets, Rows, Open
  <2> HIDE DEF from, to
  <2> QED BY <1>1, <2>1 DEF Rows, Open
<1>4. Shown(set') = Shown(set)
  BY <1>1, <1>3 DEF Shown
<1>5. Flinches(set, set')
  BY <1>1, <1>4 DEF Flinches
<1> QED BY <1>2, <1>5 DEF Board!Next, Answers

\* What a row that goes does to the tube.
LEMMA RemoveGlass ==
  ASSUME NEW S, Sound(S), NEW p \in Rows(S), ~IsCarrier(S, p), \E q \in Anchored(S) : q # p
  PROVE  Glass(S, RemoveRow(S, p))
<1> DEFINE T == RemoveRow(S, p)
<1>1. /\ T.degaussArmed = S.degaussArmed
      /\ OnAir(S) # p => OnAir(T) = OnAir(S) /\ T.degaussPending = S.degaussPending
      /\ OnAir(S) = p => OnAir(T) # p /\ T.degaussPending = (S.degaussPending \/ S.degaussArmed)
  BY RemoveAir
<1> HIDE DEF T
<1>2. Glass(S, T)
  BY <1>1 DEF Glass
<1> QED BY <1>2 DEF T

LEMMA BoardEndsRow ==
  ASSUME Sound(set), OneSlotEach(set), OwedByServer(set), NEW p \in Rows(set),
         ~IsCarrier(set, p), \E q \in Anchored(set) : q # p, set' = RemoveRow(set, p)
  PROVE  Answers
<1>1. /\ set'.row = [set.row EXCEPT ![p] = Dark]
      /\ Served(set') = Served(set) /\ Owed(set') = Owed(set)
      /\ OnAir(set) # p => OnAir(set') = OnAir(set)
      /\ OnAir(set) = p => /\ OnAir(set') \in Rows(set')
                           /\ (\E q \in Rows(set') : q[1] = p[1]) => OnAir(set')[1] = p[1]
  BY RemoveAir
<1>2. Rows(set') = Rows(set) \ {p}
  BY <1>1 DEF Sound, Frame, Sets, Rows, Open
<1>3. p \in Board!Lit /\ p \in Board!Place
  BY BoardReads DEF Rows
<1>4. OnAir(set) = p => OnAir(set') \in Board!Landings(p[1], {p})
  BY <1>1, <1>2, BoardReads DEF Board!Landings
<1>5. Board!EndRow(p)
  BY <1>1, <1>3, <1>4 DEF Board!EndRow, Served, Owed
<1>6. Flinches(set, set')
  <2>1. Glass(set, set') /\ Pruned(set, set')
    BY RemoveGlass, RemovePrunes DEF Sound, Frame
  <2> QED BY <2>1, UnmovedPruned, GlassFlinches
<1> QED BY <1>3, <1>5, <1>6 DEF Board!Next, Answers

LEMMA CollapseGlass ==
  ASSUME NEW S, Sound(S), NEW k \in BankId, S.manager[k] = "tmux", NEW reason \in BOOLEAN
  PROVE  Glass(S, CollapseBank(S, k, reason))
<1> DEFINE T == CollapseBank(S, k, reason)
<1>1. /\ T.row = [p \in Pair |-> IF p[1] = k THEN Dark ELSE S.row[p]]
      /\ T.degaussArmed = S.degaussArmed
      /\ S.currentBank # k => OnAir(T) = OnAir(S) /\ T.degaussPending = S.degaussPending
      /\ S.currentBank = k => /\ OnAir(T) \in Rows(T)
                              /\ T.degaussPending = (S.degaussPending \/ S.degaussArmed)
  BY CollapseAir
<1> HIDE DEF T
<1>2. S.currentBank = k => OnAir(T) # OnAir(S)
  <2> HAVE S.currentBank = k
  <2>1. OnAir(S)[1] = k
    BY AirIsPair DEF Sound, Frame
  <2> QED BY <1>1, <2>1 DEF Rows, Open
<1>3. Glass(S, T)
  BY <1>1, <1>2 DEF Glass
<1> QED BY <1>3 DEF T

\* A bank ends, and with it a row that carried it or none.
LEMMA BoardEndsBank ==
  ASSUME Sound(set), NEW k \in BankId, NEW gone \in SUBSET Rows(set),
         gone = {} \/ \E p \in Rows(set) : gone = {p},
         set'.row = [q \in Pair |-> IF q[1] = k \/ q \in gone THEN Dark ELSE set.row[q]],
         Served(set') = Served(set) \ {k}, Owed(set') = Owed(set) \ {k},
         IF set.currentBank = k \/ OnAir(set) \in gone
         THEN OnAir(set') \in Rows(set') ELSE OnAir(set') = OnAir(set)
  PROVE  Board!Next
<1> DEFINE ended == Board!LitOn(k) \cup gone
<1>1. Board!LitOn(k) = {q \in Rows(set) : q[1] = k}
  BY BoardReads DEF Board!LitOn
<1>2. set'.row = [q \in Board!Place |-> IF q \in ended THEN Dark ELSE set.row[q]]
  BY <1>1, BoardReads DEF Rows, Open
<1>3. Rows(set') = Rows(set) \ ended
  BY <1>1 DEF Rows, Open
<1>4. OnAir(set)[1] = set.currentBank
  BY AirIsPair DEF Sound, Frame
<1>5. ASSUME Board!EndBank(k, gone) PROVE Board!Next
  <2>1. CASE gone = {}
    BY <1>5, <2>1 DEF Board!Next
  <2>2. CASE \E p \in Rows(set) : gone = {p}
    <3>1. \E p \in Board!Lit : gone = {p}
      BY <2>2, BoardReads
    <3>2. \E p \in Board!Lit : Board!EndBank(k, {p})
      BY <1>5, <3>1
    <3> QED BY <3>2 DEF Board!Next
  <2> QED BY <2>1, <2>2
<1>6. CASE set.currentBank = k \/ OnAir(set) \in gone
  <2> DEFINE at == OnAir(set')[1]
  <2>1. OnAir(set') \in Rows(set') /\ at \in BankId
    BY <1>6, PairParts DEF Rows
  <2>2. OnAir(set') \in Board!Landings(at, ended)
    BY <1>3, <2>1, BoardReads DEF Board!Landings
  <2>3. Board!EndBank(k, gone)
    BY <1>2, <1>4, <1>6, <2>1, <2>2 DEF Board!EndBank, Served, Owed
  <2> QED BY <1>5, <2>3
<1>7. CASE ~(set.currentBank = k \/ OnAir(set) \in gone)
  <2>1. Board!EndBank(k, gone)
    BY <1>2, <1>4, <1>7 DEF Board!EndBank, Served, Owed
  <2> QED BY <1>5, <2>1
<1> QED BY <1>6, <1>7

LEMMA BoardCollapses ==
  ASSUME Sound(set), OneSlotEach(set), NEW k \in BankId, set.manager[k] = "tmux",
         NEW reason \in BOOLEAN, set' = CollapseBank(set, k, reason)
  PROVE  Answers
<1>1. /\ set'.row = [p \in Pair |-> IF p[1] = k THEN Dark ELSE set.row[p]]
      /\ Served(set') = Served(set) \ {k} /\ Owed(set') = Owed(set) \ {k}
      /\ set.currentBank # k => OnAir(set') = OnAir(set)
      /\ set.currentBank = k => OnAir(set') \in Rows(set')
  BY CollapseAir
<1>2. Board!Next
  <2>1. {} \in SUBSET Rows(set)
    OBVIOUS
  <2>2. set'.row = [q \in Pair |-> IF q[1] = k \/ q \in {} THEN Dark ELSE set.row[q]]
    BY <1>1
  <2> QED BY <1>1, <2>1, <2>2, BoardEndsBank
<1>3. Flinches(set, set')
  <2>1. Glass(set, set') /\ Pruned(set, set')
    BY CollapseGlass, CollapsePrunes DEF Sound, Frame
  <2> QED BY <2>1, UnmovedPruned, GlassFlinches
<1> QED BY <1>2, <1>3 DEF Answers

\* The wire's program died: its bank goes, and then its own row.
LEMMA BoardLosesWire ==
  ASSUME Sound(set), OneSlotEach(set), OwedByServer(set),
         NEW k \in BankId, set.manager[k] = "tmux", NEW p \in Rows(set), p[1] # k,
         NEW down, down = CollapseBank(set, k, FALSE), Sound(down), p \in Rows(down),
         ~IsCarrier(down, p), ~OneAnchored(down), set' = RemoveRow(down, p)
  PROVE  Answers
<1>0. /\ set \in Sets /\ down \in Sets /\ p \in Pair
      /\ \E q \in Anchored(down) : q # p
  <2>1. \E q \in Anchored(down) : q # p
    BY DEF OneAnchored
  <2>2. set \in Sets /\ down \in Sets
    BY DEF Sound, Frame
  <2> QED BY <2>1, <2>2 DEF Rows
<1>1. /\ down.row = [q \in Pair |-> IF q[1] = k THEN Dark ELSE set.row[q]]
      /\ Served(down) = Served(set) \ {k} /\ Owed(down) = Owed(set) \ {k}
      /\ set.currentBank # k => OnAir(down) = OnAir(set)
      /\ set.currentBank = k => OnAir(down) \in Rows(down)
  <2>1. AirCollapsed(set, k, down)
    BY CollapsesAir
  <2> QED BY <2>1 DEF AirCollapsed
<1>2. OwedByServer(down)
  BY <1>1 DEF OwedByServer
<1>3. /\ set'.row = [down.row EXCEPT ![p] = Dark]
      /\ Served(set') = Served(down) /\ Owed(set') = Owed(down)
      /\ OnAir(down) # p => OnAir(set') = OnAir(down)
      /\ OnAir(down) = p => OnAir(set') \in Rows(set')
  BY <1>0, <1>2, RemoveAir
<1>4. set'.row = [q \in Pair |-> IF q[1] = k \/ q \in {p} THEN Dark ELSE set.row[q]]
  BY <1>0, <1>1, <1>3
<1>5. Rows(set') = Rows(down) \ {p} /\ \A q \in Rows(set') : q[1] # k
  <2>1. ASSUME NEW q \in Pair PROVE Open(set', q) <=> Open(down, q) /\ q # p
    <3>1. down.row[q] = (IF q[1] = k THEN Dark ELSE set.row[q])
      BY <1>1
    <3>2. set'.row[q] = (IF q[1] = k \/ q = p THEN Dark ELSE set.row[q])
      BY <1>4
    <3> QED BY <3>1, <3>2 DEF Open
  <2>2. \A q \in Pair : Open(set', q) => q[1] # k
    BY <1>4 DEF Open
  <2> QED BY <2>1, <2>2 DEF Rows
<1>6. IF set.currentBank = k \/ OnAir(set) \in {p}
      THEN OnAir(set') \in Rows(set') ELSE OnAir(set') = OnAir(set)
  BY <1>1, <1>3, <1>5
<1>7. Board!Next
  <2>1. Served(set') = Served(set) \ {k} /\ Owed(set') = Owed(set) \ {k}
    BY <1>1, <1>3
  <2>2. {p} \in SUBSET Rows(set)
    OBVIOUS
  <2> QED BY <1>4, <1>6, <2>1, <2>2, BoardEndsBank
<1>8. Glass(set, set')
  <2>1. Glass(set, down) /\ Glass(down, set')
    BY <1>0, CollapseGlass, RemoveGlass
  <2>2. CASE set.currentBank = k
    <3>1. OnAir(set)[1] = k
      BY <2>2, AirIsPair DEF Sound, Frame
    <3>2. OnAir(set') \in Rows(set') /\ OnAir(down) \in Rows(down)
      BY <1>1, <1>6, <2>2
    <3>3. \A q \in Rows(down) : q[1] # k
      BY <1>1 DEF Rows, Open
    <3>4. OnAir(set') # OnAir(set) /\ OnAir(down) # OnAir(set)
      BY <1>5, <3>1, <3>2, <3>3
    <3> QED BY <2>1, <3>4 DEF Glass
  <2>3. CASE set.currentBank # k
    BY <1>1, <2>1, <2>3 DEF Glass
  <2> QED BY <2>2, <2>3
<1>9. Flinches(set, set')
  <2>1. Pruned(set, down)
    BY <1>0, CollapsePrunes
  <2>2. Pruned(down, set')
    BY <1>0, RemovePrunes
  <2> QED BY <1>8, <2>1, <2>2, PrunedTrans, UnmovedPruned, GlassFlinches
<1> QED BY <1>7, <1>9 DEF Answers

-----------------------------------------------------------------------------
(***************************************************************************)
(* Every step is one of the kinds. A bank owes a window only while a       *)
(* server fills it, or a bank swept with its last row would take a debt    *)
(* with it.                                                                *)
(***************************************************************************)
Boarded == Placed /\ OwedByServer(set)

LEMMA UserAnswers == Boarded /\ UserCall => Answers
<1> SUFFICES ASSUME Boarded, UserCall PROVE Answers
  OBVIOUS
<1>0. /\ Sound(set) /\ Frame(set) /\ set \in Sets /\ OneSlotEach(set) /\ OwedByServer(set)
      /\ Fresh = Session \ InUse(set) /\ 0 \in BankId /\ AirHeld(set)
  BY ChannelsAssumption DEF Boarded, Placed, IInv, Sound, Frame, Fresh, BankId
<1>1. ASSUME set' = set PROVE Answers
  <2>1. Glass(set, set')
    BY <1>1 DEF Glass
  <2> QED BY <1>0, <1>1, <2>1, BoardStays
<1>2. ASSUME NEW c \in Slot, NEW s \in Fresh, ~Open(set, <<0, c>>),
             set' = OpenChannel(set, c, s)
      PROVE  Answers
  <2> DEFINE p == <<0, c>>
  <2>1. p \in Pair /\ p[1] = 0 /\ Held(set, 0) /\ 0 \notin Served(set)
    BY <1>0 DEF Pair, Frame, HomeStands, Held, Served
  <2>2. set' = SetCurrent(InsertRow(set, p, s), p) /\ ~Open(set, p)
    BY <1>2 DEF OpenChannel
  <2> HIDE DEF p
  <2>3. OpensOn(set, set', p, s)
    BY <1>0, <2>1, <2>2, OpenedAir
  <2> QED BY <1>0, <2>1, <2>2, <2>3, BoardOpens
<1>3. ASSUME NEW c \in Slot, OpenHome(c) PROVE Answers
  BY <1>2, <1>3 DEF OpenHome
<1>4. ASSUME NEW b \in BankId, NewChannel(b) PROVE Answers
  <2>1. NextSlot(set, b) \in Slot \cup {0}
    BY NextSlotFacts
  <2>2. CASE set.manager[b] = "tmux"
    BY <1>0, <1>4, <2>1, <2>2, BoardAsks DEF NewChannel
  <2>3. CASE set.manager[b] # "tmux"
    <3>1. NextSlot(set, 0) \in Slot \ Slots(set, 0)
      BY <1>4, <2>3, NextSlotFacts DEF NewChannel
    <3>2. \E s \in Fresh : set' = OpenChannel(set, NextSlot(set, 0), s)
      BY <1>4, <2>3 DEF NewChannel
    <3>3. NextSlot(set, 0) \in Slot /\ ~Open(set, <<0, NextSlot(set, 0)>>)
      BY <3>1 DEF Slots
    <3> QED BY <1>2, <3>2, <3>3
  <2> QED BY <2>2, <2>3
<1>5. ASSUME NEW b \in BankId, TurnToBank(b) PROVE Answers
  BY <1>0, <1>5, SelectBankTurns, BoardTurns DEF TurnToBank
<1>6. ASSUME NEW b \in BankId, NEW c \in Slot, AskSlot(b, c) PROVE Answers
  BY <1>0, <1>6, BoardAsks DEF AskSlot
<1>7. ASSUME NEW b \in BankId, NEW c \in Slot, OpenSshChannel(b, c) PROVE Answers
  <2> DEFINE p == <<b, c>>
  <2>1. PICK s \in Fresh : set' = SetCurrent(InsertRow(set, p, s), p)
    BY <1>7 DEF OpenSshChannel
  <2>2. p \in Pair /\ p[1] = b /\ Held(set, b) /\ b \notin Served(set) /\ ~Open(set, p)
    BY <1>7 DEF OpenSshChannel, Pair, Held, Served
  <2> HIDE DEF p
  <2>3. OpensOn(set, set', p, s)
    BY <1>0, <2>1, <2>2, OpenedAir
  <2> QED BY <1>0, <2>2, <2>3, BoardOpens
<1>8. ASSUME NEW b \in BankId, NEW c \in Slot, Store(b, c) PROVE Answers
  BY <1>0, <1>8, BoardStores DEF Store
<1>9. CASE OpenSsh
  <2>1. PICK s \in Fresh : set' = OpenSshBank(set, s)
    BY <1>9 DEF OpenSsh
  <2> DEFINE first == <<set.nextBankId, 1>>
  <2>2. /\ first \in Pair /\ ~Open(set, first) /\ first[1] \notin Served(set)
        /\ OpensOn(set, set', first, s)
    BY <1>0, <1>9, <2>1, SshAir DEF OpenSsh, CanRaise
  <2> HIDE DEF first
  <2> QED BY <1>0, <2>2, BoardOpens
<1>10. CASE CloseChannel
  <2>1. CASE set' # set
    BY <1>0, <1>10, <2>1, NotTheLast, BoardEndsRow DEF CloseChannel, CloseRow
  <2> QED BY <1>1, <2>1
<1>11. ASSUME NEW p \in Pair, Select(p) PROVE Answers
  BY <1>0, <1>11, TurnOnRow, BoardTurns DEF Select, Rows
<1>12. ASSUME NEW up \in BOOLEAN, CycleOpen(up) PROVE Answers
  <2> DEFINE p == <<set.currentBank, CycleSlot(set, up)>>
  <2>1. set' = SetCurrent(set, p) /\ OnAir(set) \in Rows(set)
    BY <1>12 DEF CycleOpen
  <2>2. p \in Rows(set)
    BY <1>0, <2>1, CycleLands
  <2> HIDE DEF p
  <2> QED BY <1>0, <2>1, <2>2, TurnOnRow, BoardTurns
<1> QED BY <1>3, <1>4, <1>5, <1>6, <1>7, <1>8, <1>9, <1>10, <1>11, <1>12 DEF UserCall

LEMMA GatewayAnswers == Boarded /\ GatewayCall => Answers
<1> SUFFICES ASSUME Boarded, GatewayCall PROVE Answers
  OBVIOUS
<1>0. /\ Sound(set) /\ Frame(set) /\ set \in Sets /\ OneSlotEach(set) /\ OwedByServer(set)
      /\ Fresh = Session \ InUse(set)
  BY DEF Boarded, Placed, IInv, Sound, Frame, Fresh
<1>1. ASSUME NEW b \in BankId, NEW r \in Pending, WindowOpened(b, r) PROVE Answers
  BY <1>0, <1>1, BoardWindow DEF WindowOpened
<1>2. ASSUME NEW b \in BankId, NEW c \in Slot, WindowClosed(b, c) PROVE Answers
  <2> DEFINE p == <<b, c>>
  <2>1. p \in Rows(set) /\ p[1] = b /\ set.manager[b] = "tmux" /\ set' = RemoveRow(set, p)
    BY <1>2 DEF WindowClosed, Rows, Pair
  <2> HIDE DEF p
  <2>2. ~IsCarrier(set, p) /\ \E q \in Anchored(set) : q # p
    BY <1>0, <2>1, TmuxRowCarriesNothing
  <2> QED BY <1>0, <2>1, <2>2, BoardEndsRow
<1>3. ASSUME NEW b \in BankId, Settle(b) PROVE Answers
  <2>1. CASE set' = set
    <3>1. Glass(set, set')
      BY <2>1 DEF Glass
    <3> QED BY <1>0, <2>1, <3>1, BoardStays
  <2>2. CASE set' # set
    <3>1. set' = SelectBank(set, b) /\ Held(set, b)
      BY <1>3, <2>2 DEF Settle, SettleOnOpenRow, Held
    <3> QED BY <1>0, <3>1, SelectBankTurns, BoardTurns
  <2> QED BY <2>1, <2>2
<1>4. ASSUME NEW b \in BankId, NEW reason \in BOOLEAN, Collapse(b, reason) PROVE Answers
  BY <1>0, <1>4, BoardCollapses DEF Collapse
<1>5. CASE AttachFound
  <2> DEFINE n == set.nextBankId
  <2>1. NoPair \in Pair \cup {NoPair} /\ "tmux" \in Managers
    BY DEF Managers
  <2>2. /\ n \in BankId /\ n \notin Served(set) /\ Slots(set, n) = {}
        /\ set'.row = set.row /\ Owed(set') = Owed(set) /\ Served(set') = Served(set) \cup {n}
        /\ OnAir(set') = OnAir(set)
        /\ set'.degaussArmed = set.degaussArmed /\ set'.degaussPending = set.degaussPending
    BY <1>0, <1>5, <2>1, PushAir DEF AttachFound, CanRaise
  <2> HIDE DEF n
  <2>3. Glass(set, set')
    BY <2>2 DEF Glass
  <2> QED BY <1>0, <2>2, <2>3, BoardServes
<1> QED BY <1>1, <1>2, <1>3, <1>4, <1>5 DEF GatewayCall

LEMMA RowAnswers == ASSUME NEW p \in Pair PROVE Boarded /\ RowCall(p) => Answers
<1> SUFFICES ASSUME Boarded, RowCall(p) PROVE Answers
  OBVIOUS
<1>0. Sound(set) /\ Frame(set) /\ set \in Sets /\ OneSlotEach(set) /\ OwedByServer(set)
  BY DEF Boarded, Placed, IInv, Sound, Frame
<1>1. ASSUME set' = set PROVE Answers
  <2>1. Glass(set, set')
    BY <1>1 DEF Glass
  <2> QED BY <1>0, <1>1, <2>1, BoardStays
<1>2. CASE SessionDied(p)
  <2> DEFINE k    == CHOOSE a \in CarriedBanks(set, p) : TRUE
             down == CarrierDown(set, p)
  <2>1. p \in Rows(set) /\ set.manager[p[1]] # "tmux"
    BY <1>2 DEF SessionDied, Rows
  <2>2. Sound(down) /\ p \in Rows(down) /\ ~IsCarrier(down, p)
    BY <1>0, <2>1, CarrierDownSound
  <2>3. IF OneAnchored(down) THEN set' = down ELSE set' = RemoveRow(down, p)
    BY <1>2 DEF SessionDied
  <2>4. CASE ~IsCarrier(set, p)
    <3>1. down = set
      BY <2>4 DEF CarrierDown
    <3> HIDE DEF down
    <3>2. CASE OneAnchored(set)
      BY <1>1, <2>3, <3>1, <3>2
    <3>3. CASE ~OneAnchored(set)
      <4>1. \E q \in Anchored(set) : q # p
        BY <3>3 DEF OneAnchored
      <4> QED BY <1>0, <2>1, <2>3, <2>4, <3>1, <3>3, <4>1, BoardEndsRow
    <3> QED BY <3>2, <3>3
  <2>5. CASE IsCarrier(set, p)
    <3>1. k \in BankId /\ set.carrier[k] = p /\ p # NoPair
      BY <2>5 DEF IsCarrier, CarriedBanks
    <3>2. set.manager[k] = "tmux" /\ p[1] # k
      BY <1>0, <2>1, <3>1 DEF Frame, WiresHold
    <3>3. down = CollapseBank(set, k, FALSE)
      BY <2>5 DEF CarrierDown
    <3> HIDE DEF k, down
    <3>4. CASE OneAnchored(down)
      BY <1>0, <2>3, <3>1, <3>2, <3>3, <3>4, BoardCollapses
    <3>5. CASE ~OneAnchored(down)
      BY <1>0, <2>1, <2>2, <2>3, <3>1, <3>2, <3>3, <3>5, BoardLosesWire
    <3> QED BY <3>4, <3>5
  <2> QED BY <2>4, <2>5
<1>3. CASE Attach(p)
  <2> DEFINE n == set.nextBankId
  <2>1. set.nextBankId <= MaxBank /\ set' = AttachOver(set, p) /\ p \in Rows(set)
    BY <1>3 DEF Attach, CanRaise, Rows
  <2>2. /\ n \in BankId \ Served(set) /\ Slots(set, n) = {}
        /\ set'.row = set.row /\ Served(set') = Served(set) \cup {n}
        /\ Owed(set') = Owed(set)
        /\ OnAir(set') = IF OnAir(set) = p THEN <<n, 1>> ELSE OnAir(set)
        /\ Glass(set, set')
    BY <1>0, <2>1, AttachAir
  <2> HIDE DEF n
  <2>3. OnAir(set') = OnAir(set) \/ (OnAir(set) \in Rows(set) /\ OnAir(set')[1] = n)
    BY <2>1, <2>2
  <2> QED BY <1>0, <2>2, <2>3, BoardServes
<1> QED BY <1>2, <1>3 DEF RowCall

\* The tube is not armed before the first channel, and what the first channel
\* is put on is the user's.
LEMMA StartAnswers == Boarded /\ Start => Answers
<1> SUFFICES ASSUME Boarded, Start PROVE Answers
  OBVIOUS
<1>1. /\ set = New /\ Sound(set) /\ Frame(set) /\ set \in Sets /\ ~set.degaussArmed
      /\ Fresh = Session \ InUse(set) /\ 0 \in BankId /\ 1 \in Slot
  BY ChannelsAssumption
     DEF Boarded, Placed, Start, IInv, Sound, Frame, Fresh, New, BankId, Slot
<1>2. Flinches(set, set')
  BY <1>1 DEF Flinches
<1>3. ASSUME NEW T \in Sets, set' = Started(T)
      PROVE  /\ set'.row = T.row /\ Served(set') = Served(T)
             /\ Owed(set') = Owed(T) /\ OnAir(set') = OnAir(T)
  <2>1. /\ set'.row = T.row /\ set'.manager = T.manager /\ set'.channel = T.channel
        /\ set'.currentBank = T.currentBank /\ set'.newWindowPending = T.newWindowPending
    BY <1>3 DEF Started, Sets
  <2> QED BY <2>1 DEF Served, Owed, OnAir, Held
<1>4. ASSUME NEW p \in Pair, NEW s \in Session, ~Open(set, p), p[1] \notin Served(set),
             NEW T \in Sets, OpensOn(set, T, p, s), set' = Started(T)
      PROVE  Answers
  <2>1. /\ set'.row = [set.row EXCEPT ![p] = s]
        /\ Served(set') = Served(set) /\ Owed(set') = Owed(set) /\ OnAir(set') = p
    BY <1>3, <1>4 DEF OpensOn
  <2>2. p \in Board!Place /\ p \notin Board!Lit
    BY <1>4, BoardReads DEF Rows
  <2>3. Board!OpenByUser(p, s)
    BY <1>4, <2>1, <2>2 DEF Board!OpenByUser, Served, Owed
  <2> QED BY <1>2, <2>2, <2>3 DEF Board!Next, Answers
<1>5. ASSUME NEW s \in Fresh, set' = Started(OpenChannel(set, 1, s)) PROVE Answers
  <2> DEFINE p == <<0, 1>>
             T == OpenChannel(set, 1, s)
  <2>1. /\ p \in Pair /\ p[1] = 0 /\ Held(set, 0) /\ 0 \notin Served(set) /\ ~Open(set, p)
        /\ s \in Session
    BY <1>1 DEF Pair, Frame, HomeStands, Held, Served, New, Open
  <2>2. T = SetCurrent(InsertRow(set, p, s), p)
    BY DEF OpenChannel
  <2>3. T \in Sets
    BY <1>1, <2>1, OpenChannelSound DEF Sound, Frame
  <2> HIDE DEF p, T
  <2>4. OpensOn(set, T, p, s)
    BY <1>1, <2>1, <2>2, OpenedAir
  <2> QED BY <1>4, <1>5, <2>1, <2>3, <2>4 DEF T
<1>6. ASSUME NEW s \in Fresh, CanRaise, set' = Started(OpenSshBank(set, s)) PROVE Answers
  <2> DEFINE p == <<set.nextBankId, 1>>
             T == OpenSshBank(set, s)
  <2>1. s \in Session /\ set.nextBankId <= MaxBank
    BY <1>1, <1>6 DEF CanRaise
  <2>2. T \in Sets
    BY <1>1, <2>1, OpenSshBankSound DEF Sound, Frame
  <2>3. p \in Pair /\ ~Open(set, p) /\ p[1] \notin Served(set) /\ OpensOn(set, T, p, s)
    BY <1>1, <2>1, SshAir
  <2> HIDE DEF p, T
  <2> QED BY <1>4, <1>6, <2>1, <2>2, <2>3 DEF T
<1>7. CASE set' = Started(set)
  <2>1. UNCHANGED Board!bvars
    BY <1>1, <1>3, <1>7 DEF Board!bvars, Served, Owed
  <2> QED BY <1>2, <2>1 DEF Answers
<1> QED BY <1>5, <1>6, <1>7 DEF Start

\* What the tube and the carriers' rows keep to themselves.
LEMMA QuietAnswers ==
  Boarded /\ (TakeDegauss \/ TypeAtRow \/ Closed \/ UNCHANGED vars) => Answers
<1> SUFFICES ASSUME Boarded, TakeDegauss \/ TypeAtRow \/ Closed \/ UNCHANGED vars
             PROVE  Answers
  OBVIOUS
<1>1. set \in Sets
  BY DEF Boarded, Placed, IInv, Sound, Frame
<1>2. /\ set'.row = set.row /\ set'.manager = set.manager /\ set'.channel = set.channel
      /\ set'.currentBank = set.currentBank /\ set'.newWindowPending = set.newWindowPending
      /\ set'.degaussArmed = set.degaussArmed
      /\ set'.degaussPending = set.degaussPending \/ set'.degaussPending = FALSE
  BY <1>1 DEF TakeDegauss, TypeAtRow, Closed, vars, Sets
<1>3. Served(set') = Served(set) /\ Owed(set') = Owed(set) /\ OnAir(set') = OnAir(set)
  BY <1>2 DEF Served, Owed, OnAir, Held
<1>4. Shown(set') = Shown(set)
  BY <1>2, <1>3 DEF Shown, Rows, Open
<1>5. UNCHANGED Board!bvars
  BY <1>2, <1>3 DEF Board!bvars, Served, Owed
<1>6. Flinches(set, set')
  BY <1>2, <1>3, <1>4 DEF Flinches
<1> QED BY <1>5, <1>6 DEF Answers

LEMMA StepAnswers == Boarded /\ [Next]_vars => Answers
BY StartAnswers, UserAnswers, GatewayAnswers, RowAnswers, QuietAnswers DEF Next

\* Only a server's bank is asked for a window, and a bank's debt goes with it.
LEMMA DebtStaysServed == OwedByServer(set) /\ [Board!Next]_(Board!bvars) => OwedByServer(set')
<1> SUFFICES ASSUME OwedByServer(set), [Board!Next]_(Board!bvars) PROVE OwedByServer(set')
  OBVIOUS
<1>1. CASE UNCHANGED Board!bvars
  BY <1>1 DEF OwedByServer, Board!bvars, Served, Owed
<1>2. CASE Board!Next
  <2>1. CASE \E p \in Board!Place, s \in Session : Board!OpenByUser(p, s) \/ Board!Arrive(p, s)
    BY <2>1 DEF OwedByServer, Served, Owed, Board!OpenByUser, Board!Arrive
  <2>2. CASE \E b \in BankId : Board!Serve(b) \/ Board!Ask(b) \/ Board!TurnedAway(b)
    BY <2>2 DEF OwedByServer, Served, Owed, Board!Serve, Board!Ask, Board!TurnedAway
  <2>3. CASE \E p \in Board!Place : Board!Turn(p) \/ Board!EndRow(p)
    BY <2>3 DEF OwedByServer, Served, Owed, Board!Turn, Board!EndRow
  <2>4. CASE \E c \in Slot : Board!Store(c)
    BY <2>4 DEF OwedByServer, Served, Owed, Board!Store
  <2>5. ASSUME NEW b \in BankId, NEW w, Board!EndBank(b, w) PROVE OwedByServer(set')
    BY <2>5 DEF OwedByServer, Served, Owed, Board!EndBank
  <2> QED BY <1>2, <2>1, <2>2, <2>3, <2>4, <2>5 DEF Board!Next
<1> QED BY <1>1, <1>2

LEMMA InitBoarded == Init => Boarded /\ Board!Init
<1> SUFFICES ASSUME Init PROVE Boarded /\ Board!Init
  OBVIOUS
<1>1. set = New /\ IInv
  BY InitIInv DEF Init
<1>2. \A p \in Pair : ~Open(set, p)
  BY <1>1 DEF New, Open
<1>3. Served(set) = {} /\ Owed(set) = {}
  BY <1>1 DEF Served, Owed, New
<1>4. OnAir(set) = <<0, 1>>
  BY <1>1, ChannelsAssumption DEF OnAir, Held, New, BankId
<1>5. Boarded
  BY <1>1, <1>2, <1>3 DEF Boarded, Placed, OneSlotEach, Rows, OwedByServer
<1>6. Board!Init
  BY <1>1, <1>3, <1>4 DEF Board!Init, Board!Place, Pair, New, Served, Owed
<1> QED BY <1>5, <1>6

LEMMA StepBoarded == Boarded /\ [Next]_vars => Boarded'
<1> SUFFICES ASSUME Boarded, [Next]_vars PROVE Boarded'
  OBVIOUS
<1>1. Placed'
  BY StepKeeps, OffIsNew, StepSteady DEF Boarded, Placed, Steady, OneSlotEach
<1>2. OwedByServer(set')
  BY StepAnswers, DebtStaysServed DEF Boarded, Answers
<1> QED BY <1>1, <1>2 DEF Boarded

-----------------------------------------------------------------------------
(***************************************************************************)
(* The set implements the board on every panel: whatever ends, arrives or  *)
(* is swept behind the glass, the air moves only for the user, for a window*)
(* the user asked for, or because what was on it has gone (channels.rs,    *)
(* every transition).                                                      *)
(***************************************************************************)
THEOREM TheSetIsABoard == Spec => ImplementsBoard
<1>1. Boarded /\ [Next]_vars => [Board!Next]_(Board!bvars)
  BY StepAnswers DEF Answers
<1> QED BY <1>1, InitBoarded, StepBoarded, PTL DEF Spec, ImplementsBoard, Board!Spec

(***************************************************************************)
(* The tube flinches when the glass turns to another session and only then *)
(* (set_current, move_current_to).                                         *)
(***************************************************************************)
THEOREM TheTubeFlinchesAtATurn == Spec => FlinchLaw
<1>1. Boarded /\ [Next]_vars =>
        [set.degaussArmed =>
          /\ set'.degaussPending /\ ~set.degaussPending =>
                /\ OnAir(set') # OnAir(set)
                /\ Shown(set') # Shown(set) \/ Shown(set') = Dark
          /\ Shown(set') # Shown(set) /\ Shown(set') # Dark =>
                \/ set'.degaussPending
                \/ OnAir(set') = OnAir(set)]_vars
  BY StepAnswers DEF Answers, Flinches
<1> QED BY <1>1, InitBoarded, StepBoarded, PTL DEF Spec, FlinchLaw

-----------------------------------------------------------------------------
(***************************************************************************)
(* The bank beside the glass, for every panel size, number of banks, height*)
(* of the window and radix: the digits a person has typed stand against the*)
(* labels they were typed at, a find line can be left, every slot has a    *)
(* page, and no drop or choice of the picker's pulls a wire or a last      *)
(* channel away.                                                           *)
(***************************************************************************)

-----------------------------------------------------------------------------
(***************************************************************************)
(* Numbers: a clamped index, a slot's place on its page, a numeral's start.*)
(***************************************************************************)
LEMMA TwoMin == ASSUME NEW a \in Int, NEW b \in Int PROVE Min({a, b}) = IF a <= b THEN a ELSE b
BY DEF Min

LEMMA TwoMax == ASSUME NEW a \in Int, NEW b \in Int PROVE Max({a, b}) = IF a >= b THEN a ELSE b
BY DEF Max

LEMMA ClampedFacts ==
  ASSUME NEW i \in Int, NEW n \in Nat
  PROVE  Clamped(i, n) \in Nat /\ (n > 0 => Clamped(i, n) \in 0 .. n - 1)
<1> DEFINE m == Min({i, n - 1})
<1>1. m \in Int /\ m <= n - 1
  BY TwoMin
<1> HIDE DEF m
<1>2. Max({0, m}) = IF 0 >= m THEN 0 ELSE m
  BY <1>1, TwoMax
<1> QED BY <1>1, <1>2 DEF Clamped, m

\* The slots before the page of slot c, and where c is on it.
LEMMA PageBase ==
  ASSUME NEW c \in Nat \ {0}, NEW r \in Nat \ {0}
  PROVE  LET base == r * ((c - 1) \div r)
         IN  base \in 0 .. c - 1 /\ base % r = 0 /\ c - base \in 1 .. r
<1>1. PICK k \in Int : k = (c - 1) \div r
  OBVIOUS
<1>2. c - 1 = r * k + ((c - 1) % r) /\ (c - 1) % r \in 0 .. r - 1
  BY <1>1
<1>3. k >= 0
  BY <1>1
<1>4. r * k \in Nat /\ (r * k) % r = 0
  BY <1>3
<1> QED BY <1>1, <1>2, <1>4

\* What is left of a numeral without its last digits is smaller.
LEMMA StartIsSmaller ==
  ASSUME NEW n \in Nat \ {0}, NEW w \in 2 .. n
  PROVE  n \div w \in 1 .. n - 1
<1>1. PICK k \in Int : k = n \div w
  OBVIOUS
<1>2. n = w * k + (n % w) /\ n % w \in 0 .. w - 1
  BY <1>1
<1>3. k >= 1
  BY <1>1, <1>2
<1>4. w * k >= 2 * k
  BY <1>3
<1> QED BY <1>1, <1>2, <1>3, <1>4

-----------------------------------------------------------------------------
(***************************************************************************)
(* Pages: a page has a place among them, and each place has its page.      *)
(***************************************************************************)
\* Pairs of numbers stand in one line.
LEMMA InLine ==
  ASSUME NEW p \in Nat \X Nat, NEW q \in Nat \X Nat, NEW r \in Nat \X Nat
  PROVE  /\ ~Before(p, p)
         /\ p # q => Before(p, q) \/ Before(q, p)
         /\ Before(p, q) => ~Before(q, p)
         /\ Before(p, q) /\ Before(q, r) => Before(p, r)
BY DEF Before

\* So many stand before each that every number below the whole is somebody's.
LEMMA EveryPlaceIsTaken ==
  ASSUME NEW T, T \subseteq Nat \X Nat, IsFiniteSet(T), NEW i \in 0 .. Cardinality(T) - 1
  PROVE  \E p \in T : Cardinality({q \in T : Before(q, p)}) = i
<1> DEFINE Below(p) == {q \in T : Before(q, p)}
           n        == Cardinality(T)
           Missed   == {j \in 0 .. n - 1 : \A p \in T : Cardinality(Below(p)) # j}
<1>1. n \in Nat
  BY FS_CardinalityType
<1>2. \A p \in T : IsFiniteSet(Below(p)) /\ Cardinality(Below(p)) \in Nat
  <2> TAKE p \in T
  <2>1. Below(p) \in SUBSET T
    OBVIOUS
  <2> HIDE DEF Below
  <2> QED BY <2>1, FS_Subset, FS_CardinalityType
<1>3. ASSUME Missed # {} PROVE FALSE
  <2>1. Missed \subseteq Nat
    OBVIOUS
  <2>2. PICK m \in Missed : \A j \in Missed : m <= j
    <3> HIDE DEF Missed
    <3> QED BY <1>3, <2>1, LeastNat
  <2>3. m \in 0 .. n - 1 /\ \A p \in T : Cardinality(Below(p)) # m
    BY <2>2
  <2>4. T # {}
    <3>1. n # 0
      BY <1>1, <2>3
    <3> QED BY <3>1, FS_EmptySet
  <2>5. m # 0
    <3>1. PICK p \in T : \A q \in T : q # p => Before(p, q)
      BY <2>4, FirstPair
    <3>2. ASSUME NEW q \in T PROVE ~Before(q, p)
      BY <3>1, InLine
    <3>3. Below(p) = {}
      BY <3>2
    <3> QED BY <2>3, <3>3, FS_EmptySet
  <2>6. m - 1 \in 0 .. n - 1 /\ m - 1 \notin Missed
    <3>1. m \in Nat /\ m <= n - 1
      BY <1>1, <2>3
    <3> HIDE DEF Missed, n
    <3> QED BY <1>1, <2>2, <2>5, <3>1
  <2>7. PICK p \in T : Cardinality(Below(p)) = m - 1
    BY <2>6
  <2> DEFINE Above == {q \in T : Before(p, q)}
  <2>8. Above # {}
    <3>1. p \notin Below(p)
      BY InLine
    <3>2. Cardinality(Below(p) \cup {p}) = m
      <4>1. IsFiniteSet(Below(p)) /\ m \in Nat
        BY <1>1, <1>2, <2>3
      <4> HIDE DEF Below
      <4>2. Cardinality(Below(p) \cup {p}) = Cardinality(Below(p)) + 1
        BY <3>1, <4>1, FS_AddElement
      <4> QED BY <2>7, <4>1, <4>2
    <3>3. Below(p) \cup {p} # T
      BY <1>1, <2>3, <3>2
    <3>4. PICK q \in T : q # p /\ ~Before(q, p)
      BY <3>3
    <3> QED BY <3>4, InLine
  <2>9. PICK r \in Above : \A q \in Above : q # r => Before(r, q)
    <3>1. Above \subseteq Nat \X Nat
      OBVIOUS
    <3> HIDE DEF Above
    <3> QED BY <2>8, <3>1, FirstPair
  <2>10. Below(r) = Below(p) \cup {p}
    <3>1. r \in T /\ Before(p, r)
      BY <2>9
    <3>2. ASSUME NEW q \in T, Before(q, r), q # p PROVE Before(q, p)
      <4>1. q # r
        BY <3>2, InLine
      <4>2. ~Before(p, q)
        BY <2>9, <3>1, <3>2, <4>1, InLine
      <4> QED BY <3>2, <4>2, InLine
    <3>3. \A q \in T : Before(q, p) => Before(q, r)
      BY <3>1, InLine
    <3> QED BY <3>1, <3>2, <3>3
  <2>11. Cardinality(Below(r)) = m
    <3>1. p \notin Below(p)
      BY InLine
    <3>2. Cardinality(Below(p) \cup {p}) = m
      <4>1. IsFiniteSet(Below(p)) /\ m \in Nat
        BY <1>1, <1>2, <2>3
      <4> HIDE DEF Below
      <4>2. Cardinality(Below(p) \cup {p}) = Cardinality(Below(p)) + 1
        BY <3>1, <4>1, FS_AddElement
      <4> QED BY <2>7, <4>1, <4>2
    <3> QED BY <2>10, <3>2
  <2> QED BY <2>3, <2>9, <2>11
<1> QED BY <1>1, <1>3

Views  == BankId \X (0 .. CHANNEL_CAP - 1)
Pagers == [rows_visible : Nat \ {0}, page_index : Nat, last_view : {NoView} \cup Views]

LEMMA PageRowsFacts ==
  ASSUME NEW S, NEW P \in Pagers, NEW b
  PROVE  PageRows(S, P, b) \in Nat \ {0}
BY DEF PageRows, Pagers

LEMMA PagesFinite ==
  ASSUME NEW S, NEW P
  PROVE  /\ ViewPages(S, P) \subseteq Views /\ Views \subseteq Nat \X Nat
         /\ IsFiniteSet(ViewPages(S, P)) /\ Cardinality(ViewPages(S, P)) \in Nat
<1>1. MaxBank \in Nat /\ CHANNEL_CAP \in Nat
  BY ChannelsAssumption
<1>2. IsFiniteSet(BankId) /\ IsFiniteSet(0 .. CHANNEL_CAP - 1)
  BY <1>1, FS_Interval DEF BankId
<1>3. IsFiniteSet(Views)
  BY <1>2, FS_Product DEF Views
<1>4. ViewPages(S, P) \subseteq Views
  BY DEF ViewPages, Views
<1>5. IsFiniteSet(ViewPages(S, P)) /\ Cardinality(ViewPages(S, P)) \in Nat
  BY <1>3, <1>4, FS_Subset, FS_CardinalityType
<1>6. Views \subseteq Nat \X Nat
  BY <1>1 DEF Views, BankId
<1> QED BY <1>4, <1>5, <1>6

\* A bank the set holds has a page, and a page with each slot it must reach.
LEMMA PageOfBank ==
  ASSUME NEW S, NEW P \in Pagers, NEW b \in BankId, Held(S, b), NEW c \in Slot,
         c \in Reached(S, b)
  PROVE  LET r    == PageRows(S, P, b)
             base == r * ((c - 1) \div r)
         IN  <<b, base>> \in ViewPages(S, P) /\ c - base \in 1 .. r
<1>1. PICK r \in Nat \ {0} : r = PageRows(S, P, b)
  BY PageRowsFacts
<1>2. PICK base : base = r * ((c - 1) \div r)
  OBVIOUS
<1>3. c \in Nat \ {0} /\ c <= CHANNEL_CAP /\ CHANNEL_CAP \in Nat
  BY ChannelsAssumption DEF Slot
<1>4. base \in 0 .. c - 1 /\ base % r = 0 /\ c - base \in 1 .. r
  BY <1>2, <1>3, PageBase
<1>5. base \in 0 .. CHANNEL_CAP - 1 /\ c > base
  BY <1>3, <1>4
<1>6. <<b, base>> \in ViewPages(S, P)
  BY <1>1, <1>4, <1>5 DEF ViewPages
<1> QED BY <1>1, <1>2, <1>4, <1>6

\* What is on view is a page: there is always one.
LEMMA ViewIsAPage ==
  ASSUME NEW S, HomeStands(S), NEW P \in Pagers
  PROVE  /\ View(S, P) \in ViewPages(S, P) /\ View(S, P) \in Views /\ View(S, P) # NoView
         /\ Held(S, View(S, P)[1])
<1> DEFINE T == ViewPages(S, P)
           i == Clamped(P.page_index, Cardinality(T))
<1>1. T \subseteq Views /\ Views \subseteq Nat \X Nat /\ IsFiniteSet(T) /\ Cardinality(T) \in Nat
  BY PagesFinite
<1>2. T # {}
  <2>1. 0 \in BankId /\ 1 \in Slot /\ Held(S, 0) /\ 1 \in Reached(S, 0)
    BY ChannelsAssumption DEF BankId, Slot, HomeStands, Held, Reached
  <2> QED BY <2>1, PageOfBank
<1>3. Cardinality(T) > 0
  BY <1>1, <1>2, FS_EmptySet
<1>4. i \in 0 .. Cardinality(T) - 1
  BY <1>1, <1>3, ClampedFacts DEF Pagers
<1>5. \E p \in T : Cardinality({q \in T : Before(q, p)}) = i
  <2> HIDE DEF T, i
  <2> QED BY <1>1, <1>4, EveryPlaceIsTaken
<1>6. \E p \in ViewPages(S, P) : \E U \in {ViewPages(S, P)} :
        Cardinality({q \in U : Before(q, p)}) = Clamped(P.page_index, Cardinality(U))
  BY <1>5
<1>7. View(S, P) \in ViewPages(S, P)
  BY <1>6 DEF View
<1>8. View(S, P) # NoView
  BY <1>1, <1>7 DEF Views, NoView
<1>9. Held(S, View(S, P)[1])
  BY <1>7 DEF ViewPages
<1> QED BY <1>1, <1>7, <1>8, <1>9

-----------------------------------------------------------------------------
(***************************************************************************)
(* The inductive invariant. To what the channel set keeps it adds what     *)
(* stands between two turns of the event loop and what a handler or a pump *)
(* leaves for channel_changed to answer: the labels the digits stand       *)
(* against are the last ones looked at, and a find line whose row a pump   *)
(* took, or a handler left, is off the air until then.                     *)
(***************************************************************************)
\* Until the first channel there is nothing to answer.
QuietWhileOff ==
  power = "off" => set = New /\ chord = NoChord /\ ~strip.held /\ doing = "none"

Typed ==
  /\ pager \in Pagers
  /\ chord.digits \in {NoDigits} \cup (1 .. CHANNEL_CAP - 1) /\ chord.deadline \in BOOLEAN
  /\ strip \in [held : BOOLEAN, target : Slot \cup {0}]
  /\ doing \in {"none", "handler", "pump"}
  /\ doing = "none" => on_air = OnAir(set)

LabelsStand ==
  /\ chord.digits # NoDigits => chord.labels = pager.last_view /\ pager.last_view # NoView
  /\ doing = "none" /\ power # "off" => pager.last_view = View(set, pager)

LineStands ==
  find # NoFind =>
    /\ find.on = on_air /\ find.on \in Pair /\ find.screen # Dark
    /\ set.manager[find.on[1]] # "tmux" =>
         \/ set.row[find.on] = find.screen
         \/ /\ OnAir(set) # find.on
            /\ doing = "handler" \/ set.row[find.on] = Dark

\* A page, or the row put in its place, keeps the window.
PickerStands == picker # 0 => Rows(set) # {}

StripInv == IInv /\ QuietWhileOff /\ Typed /\ LabelsStand /\ LineStands /\ PickerStands

-----------------------------------------------------------------------------
(***************************************************************************)
(* The pager.                                                              *)
(***************************************************************************)
\* The view reads the banks, the rows and the channels, and the page.
LEMMA ViewSame ==
  ASSUME NEW S, NEW T, T.manager = S.manager, T.row = S.row, T.channel = S.channel,
         NEW P, NEW Q, Q.rows_visible = P.rows_visible, Q.page_index = P.page_index
  PROVE  View(T, Q) = View(S, P)
<1>1. \A b : Held(T, b) = Held(S, b) /\ Slots(T, b) = Slots(S, b)
  BY DEF Held, Slots, Open
<1>2. \A b : NextSlot(T, b) = NextSlot(S, b)
  BY <1>1 DEF NextSlot, FirstFree
<1>3. \A b : Reached(T, b) = Reached(S, b) /\ PageRows(T, Q, b) = PageRows(S, P, b)
  BY <1>1, <1>2 DEF Reached, PageRows
<1>4. ViewPages(T, Q) = ViewPages(S, P)
  BY <1>1, <1>3 DEF ViewPages
<1> QED BY <1>4 DEF View

LEMMA RefreshedFacts ==
  ASSUME NEW S, HomeStands(S), NEW P \in Pagers
  PROVE  /\ Refreshed(S, P) \in Pagers
         /\ Refreshed(S, P).last_view = View(S, P)
         /\ View(S, Refreshed(S, P)) = View(S, P)
         /\ View(S, P) # NoView
<1> DEFINE Q == Refreshed(S, P)
<1>1. View(S, P) \in Views /\ View(S, P) # NoView
  BY ViewIsAPage
<1>2. /\ Q \in Pagers /\ Q.last_view = View(S, P)
      /\ Q.rows_visible = P.rows_visible /\ Q.page_index = P.page_index
  BY <1>1 DEF Refreshed, Pagers
<1> HIDE DEF Q
<1>3. View(S, Q) = View(S, P)
  BY <1>2, ViewSame
<1> QED BY <1>1, <1>2, <1>3 DEF Q

\* Whatever page is sought, the pager stays a pager and keeps what it showed.
LEMMA EnsureVisibleFacts ==
  ASSUME NEW S \in Sets, NEW P \in Pagers
  PROVE  /\ EnsureVisible(S, P) \in Pagers
         /\ EnsureVisible(S, P).last_view = P.last_view
<1>1. CASE ~Held(S, S.currentBank)
  BY <1>1 DEF EnsureVisible
<1>2. CASE Held(S, S.currentBank)
  <2> DEFINE p    == OnAir(S)
             T    == ViewPages(S, P)
             r    == PageRows(S, P, p[1])
             n    == Cardinality({q \in T : q[1] = p[1]})
  <2>1. S.currentBank \in BankId /\ S.channel[S.currentBank] \in Slot
    BY DEF Sets
  <2>2. p[2] \in Slot /\ p[2] \in Int
    BY <1>2, <2>1, ChannelsAssumption DEF OnAir, Slot
  <2>3. r \in Nat \ {0}
    BY PageRowsFacts
  <2>4. IsFiniteSet(T)
    BY PagesFinite
  <2>5. n \in Nat /\ Cardinality({q \in T : q[1] < p[1]}) \in Nat
    <3>1. {q \in T : q[1] = p[1]} \in SUBSET T /\ {q \in T : q[1] < p[1]} \in SUBSET T
      OBVIOUS
    <3> HIDE DEF T
    <3> QED BY <2>4, <3>1, FS_Subset, FS_CardinalityType
  <2>6. (p[2] - 1) \div r \in Int
    BY <2>2, <2>3
  <2>7. Clamped((p[2] - 1) \div r, n) \in Nat
    BY <2>5, <2>6, ClampedFacts
  <2>8. PageOfSlot(S, P, p) \in Nat
    BY <2>5, <2>7 DEF PageOfSlot
  <2> HIDE DEF p
  <2> QED BY <1>2, <2>8 DEF EnsureVisible, Pagers, p
<1> QED BY <1>1, <1>2

\* One page, and no other, has a row for a slot the pages reach.
LEMMA OnePageOfSlot ==
  ASSUME NEW S, NEW P \in Pagers, NEW b \in BankId, Held(S, b), NEW c \in Slot,
         c \in Reached(S, b)
  PROVE  LET r == PageRows(S, P, b)
             V == <<b, r * ((c - 1) \div r)>>
         IN  /\ V \in ViewPages(S, P)
             /\ \A W \in ViewPages(S, P) : ShowsSlot(S, P, W, <<b, c>>) <=> W = V
<1> DEFINE r    == PageRows(S, P, b)
           base == r * ((c - 1) \div r)
           V    == <<b, base>>
<1>1. V \in ViewPages(S, P) /\ c - base \in 1 .. r
  BY PageOfBank
<1>2. base \in 0 .. CHANNEL_CAP - 1 /\ r \in Nat \ {0}
  BY <1>1, PageRowsFacts DEF ViewPages
<1>3. c \in 1 .. CHANNEL_CAP /\ CHANNEL_CAP \in Nat
  BY ChannelsAssumption DEF Slot
<1>4. PICK k \in Int : k = (c - 1) \div r
  BY <1>2, <1>3
<1>5. base = r * k
  BY <1>4
<1>6. ASSUME NEW w \in 0 .. CHANNEL_CAP - 1
      PROVE  c - w \in 1 .. Min({r, CHANNEL_CAP - w}) <=> c - w \in 1 .. r
  <2> HIDE DEF r
  <2>1. Min({r, CHANNEL_CAP - w}) = IF r <= CHANNEL_CAP - w THEN r ELSE CHANNEL_CAP - w
    BY <1>2, <1>3, TwoMin
  <2> QED BY <1>2, <1>3, <2>1
<1> HIDE DEF r, base
<1>7. ASSUME NEW W \in ViewPages(S, P) PROVE ShowsSlot(S, P, W, <<b, c>>) <=> W = V
  <2>1. PICK d \in BankId, w \in 0 .. CHANNEL_CAP - 1 : W = <<d, w>> /\ w % PageRows(S, P, d) = 0
    BY DEF ViewPages
  <2>2. ShowsSlot(S, P, W, <<b, c>>) <=> d = b /\ c - w \in 1 .. r
    <3>1. ShowsSlot(S, P, W, <<b, c>>) <=> d = b /\ c - w \in 1 .. RowsOnPage(S, P, <<d, w>>)
      BY <2>1 DEF ShowsSlot
    <3>2. d = b => RowsOnPage(S, P, <<d, w>>) = Min({r, CHANNEL_CAP - w})
      BY DEF RowsOnPage, r
    <3> QED BY <1>6, <3>1, <3>2
  <2>3. ASSUME d = b, c - w \in 1 .. r PROVE w = base
    <3>1. w % r = 0
      BY <2>1, <2>3 DEF r
    <3>2. PICK j \in Int : j = w \div r
      BY <1>2
    <3>3. w = r * j
      BY <1>2, <3>1, <3>2
    <3>4. r * j <= c - 1 /\ c - 1 < r * j + r /\ r * k <= c - 1 /\ c - 1 < r * k + r
      BY <1>1, <1>2, <1>3, <1>5, <2>3, <3>3
    <3>5. ~(j >= k + 1)
      <4>1. j >= k + 1 => r * j >= r * (k + 1)
        BY <1>2
      <4>2. r * (k + 1) = r * k + r
        BY <1>2
      <4> QED BY <1>2, <1>3, <3>4, <4>1, <4>2
    <3>6. ~(k >= j + 1)
      <4>1. k >= j + 1 => r * k >= r * (j + 1)
        BY <1>2
      <4>2. r * (j + 1) = r * j + r
        BY <1>2
      <4> QED BY <1>2, <1>3, <3>4, <4>1, <4>2
    <3> QED BY <1>5, <3>3, <3>5, <3>6
  <2> QED BY <1>1, <2>1, <2>2, <2>3
<1> QED BY <1>1, <1>7 DEF r, base

\* The page a bank is brought to: those before it are the earlier banks' and the
\* fuller pages of its own.
LEMMA PlaceOfPage ==
  ASSUME NEW S, NEW P \in Pagers, NEW b \in BankId, Held(S, b), NEW c \in Slot,
         c \in Reached(S, b)
  PROVE  LET r == PageRows(S, P, b)
             V == <<b, r * ((c - 1) \div r)>>
         IN  Cardinality({q \in ViewPages(S, P) : Before(q, V)}) = PageOfSlot(S, P, <<b, c>>)
<1> DEFINE T    == ViewPages(S, P)
           r    == PageRows(S, P, b)
           k    == (c - 1) \div r
           base == r * k
           V    == <<b, base>>
           A    == {q \in T : q[1] < b}
           B    == {q \in T : q[1] = b /\ q[2] < base}
           C    == {q \in T : q[1] = b}
<1>1. V \in T /\ c - base \in 1 .. r
  BY PageOfBank
<1>2. r \in Nat \ {0} /\ c \in 1 .. CHANNEL_CAP /\ CHANNEL_CAP \in Nat
  BY PageRowsFacts, ChannelsAssumption DEF Slot
<1>3. k \in Nat /\ base \in Nat /\ base < c
  <2> HIDE DEF r
  <2> QED BY <1>1, <1>2
<1>4. T \subseteq Nat \X Nat /\ IsFiniteSet(T)
  BY PagesFinite
<1>5. /\ IsFiniteSet(A) /\ IsFiniteSet(B) /\ IsFiniteSet(C)
      /\ Cardinality(A) \in Nat /\ Cardinality(B) \in Nat /\ Cardinality(C) \in Nat
  <2>1. A \in SUBSET T /\ B \in SUBSET T /\ C \in SUBSET T
    OBVIOUS
  <2> HIDE DEF T, A, B, C
  <2> QED BY <1>4, <2>1, FS_Subset, FS_CardinalityType
<1>6. Cardinality(B) = k
  <2> DEFINE page(j) == <<b, r * j>>
             f       == [j \in 0 .. k - 1 |-> page(j)]
  <2> HIDE DEF r, k
  <2>1. ASSUME NEW j \in 0 .. k - 1 PROVE page(j) \in B
    <3>1. j \in Nat /\ j + 1 <= k
      BY <1>3
    <3>2. r * j \in Nat /\ r * (j + 1) = r * j + r /\ r * (j + 1) <= r * k
      BY <1>2, <1>3, <3>1
    <3>3. r * j < base /\ r * j < c /\ r * j \in 0 .. CHANNEL_CAP - 1
      BY <1>2, <1>3, <3>2
    <3>4. (r * j) % r = 0
      BY <1>2, <3>1
    <3>5. page(j) \in T
      BY <3>3, <3>4 DEF ViewPages, r
    <3> QED BY <3>3, <3>5
  <2>2. ASSUME NEW i \in 0 .. k - 1, NEW j \in 0 .. k - 1, page(i) = page(j) PROVE i = j
    <3>1. i \in Nat /\ j \in Nat /\ r * i = r * j
      BY <1>3, <2>2
    <3>2. i > j => r * i >= r * (j + 1) /\ r * (j + 1) = r * j + r
      BY <1>2, <3>1
    <3>3. j > i => r * j >= r * (i + 1) /\ r * (i + 1) = r * i + r
      BY <1>2, <3>1
    <3>4. r * i \in Nat /\ r * j \in Nat
      BY <1>2, <3>1
    <3> QED BY <1>2, <3>1, <3>2, <3>3, <3>4
  <2>3. ASSUME NEW q \in B PROVE \E j \in 0 .. k - 1 : page(j) = q
    <3>1. q = <<b, q[2]>> /\ q[2] \in Nat /\ q[2] < base /\ q[2] % PageRows(S, P, q[1]) = 0
      BY <1>4 DEF ViewPages
    <3>2. q[2] % r = 0
      BY <3>1 DEF r
    <3>3. PICK w \in Nat : w = q[2]
      BY <3>1
    <3>4. PICK j \in Int : j = w \div r
      BY <1>2
    <3>5. w = r * j /\ j >= 0
      BY <1>2, <3>2, <3>3, <3>4
    <3>6. j < k
      <4>1. j >= k => r * j >= r * k
        BY <1>2, <1>3
      <4> QED BY <1>2, <1>3, <3>1, <3>3, <3>5, <4>1
    <3> QED BY <1>3, <3>1, <3>3, <3>5, <3>6
  <2> HIDE DEF page, B
  <2>4. f \in Bijection(0 .. k - 1, B)
    <3>1. f \in [0 .. k - 1 -> B]
      BY <2>1
    <3>2. \A i, j \in 0 .. k - 1 : f[i] = f[j] => i = j
      BY <2>2
    <3>3. \A q \in B : \E j \in 0 .. k - 1 : f[j] = q
      BY <2>3
    <3>4. f \in Injection(0 .. k - 1, B)
      BY <3>1, <3>2 DEF Injection, IsInjective
    <3>5. f \in Surjection(0 .. k - 1, B)
      BY <3>1, <3>3 DEF Surjection
    <3> QED BY <3>4, <3>5 DEF Bijection
  <2>5. IsFiniteSet(0 .. k - 1) /\ Cardinality(0 .. k - 1) = k
    <3>1. PICK e \in Int : e = k - 1
      BY <1>3
    <3>2. IsFiniteSet(0 .. e) /\ Cardinality(0 .. e) = IF 0 > e THEN 0 ELSE e - 0 + 1
      BY FS_Interval
    <3> QED BY <1>3, <3>1, <3>2
  <2>6. ExistsBijection(0 .. k - 1, B)
    BY <2>4 DEF ExistsBijection
  <2> QED BY <2>5, <2>6, FS_Bijection
<1>7. Cardinality(C) >= k + 1
  <2>1. V \notin B /\ B \cup {V} \in SUBSET C
    <3> HIDE DEF T, r, k
    <3> QED BY <1>1, <1>3
  <2> HIDE DEF B, C, V
  <2>2. Cardinality(B \cup {V}) = Cardinality(B) + 1
    BY <1>5, <2>1, FS_AddElement
  <2>3. Cardinality(B \cup {V}) <= Cardinality(C)
    BY <1>5, <2>1, FS_Subset
  <2> QED BY <1>5, <1>6, <2>2, <2>3
<1>8. Clamped(k, Cardinality(C)) = k
  <2> HIDE DEF k, C
  <2> DEFINE n == Cardinality(C)
  <2>1. n \in Nat /\ n >= k + 1
    BY <1>5, <1>7
  <2> HIDE DEF n
  <2>2. Min({k, n - 1}) = k
    BY <1>3, <2>1, TwoMin
  <2>3. Max({0, k}) = k
    BY <1>3, TwoMax
  <2>4. Clamped(k, n) = k
    BY <2>2, <2>3 DEF Clamped
  <2> QED BY <2>4 DEF n
<1>9. {q \in T : Before(q, V)} = A \cup B /\ A \cap B = {}
  <2> HIDE DEF base, r, k
  <2>1. b \in Nat
    BY ChannelsAssumption DEF BankId
  <2> QED BY <1>4, <2>1 DEF Before
<1>10. Cardinality(A \cup B) = Cardinality(A) + Cardinality(B)
  <2> HIDE DEF A, B
  <2>1. Cardinality(A \cup B) = Cardinality(A) + Cardinality(B) - Cardinality(A \cap B)
    BY <1>5, FS_Union
  <2>2. Cardinality(A \cap B) = 0
    BY <1>9, FS_EmptySet
  <2> QED BY <1>5, <2>1, <2>2
<1>11. PageOfSlot(S, P, <<b, c>>) = Cardinality(A) + Clamped(k, Cardinality(C))
  BY DEF PageOfSlot
<1>12. Cardinality({q \in T : Before(q, V)}) = PageOfSlot(S, P, <<b, c>>)
  <2> HIDE DEF A, B, C, T, V, k
  <2> QED BY <1>6, <1>8, <1>9, <1>10, <1>11
<1> QED BY <1>12

\* With the index at its place, that page is the one on view.
LEMMA ViewAtItsPlace ==
  ASSUME NEW S, NEW P \in Pagers, NEW V \in ViewPages(S, P),
         P.page_index = Cardinality({q \in ViewPages(S, P) : Before(q, V)})
  PROVE  View(S, P) = V
<1> DEFINE T        == ViewPages(S, P)
           Below(p) == {q \in T : Before(q, p)}
           n        == Cardinality(T)
           i        == Clamped(P.page_index, n)
<1>1. T \subseteq Nat \X Nat /\ IsFiniteSet(T) /\ n \in Nat
  BY PagesFinite
<1>2. \A p \in T : /\ Below(p) \in SUBSET T /\ p \notin Below(p)
                   /\ IsFiniteSet(Below(p)) /\ Cardinality(Below(p)) \in Nat
  <2> TAKE p \in T
  <2>1. Below(p) \in SUBSET T /\ p \notin Below(p)
    BY <1>1, InLine
  <2> HIDE DEF Below, T
  <2> QED BY <1>1, <2>1, FS_Subset, FS_CardinalityType
<1>3. ASSUME NEW p \in T, NEW U \in SUBSET T, Below(p) \cup {p} \subseteq U
      PROVE  Cardinality(Below(p)) + 1 <= Cardinality(U)
  <2> HIDE DEF Below, T
  <2>1. Cardinality(Below(p) \cup {p}) = Cardinality(Below(p)) + 1
    BY <1>2, FS_AddElement
  <2>2. IsFiniteSet(U) /\ Below(p) \cup {p} \in SUBSET U
    BY <1>1, <1>3, FS_Subset
  <2> QED BY <2>1, <2>2, FS_Subset
<1>4. ASSUME NEW p \in T, NEW q \in T, Before(p, q)
      PROVE  Cardinality(Below(p)) < Cardinality(Below(q))
  <2>1. Below(p) \cup {p} \subseteq Below(q)
    BY <1>1, <1>4, InLine
  <2>2. Below(q) \in SUBSET T
    BY <1>2
  <2> HIDE DEF Below, T
  <2>3. Cardinality(Below(p)) + 1 <= Cardinality(Below(q))
    BY <1>3, <2>1, <2>2
  <2> QED BY <1>2, <2>3
<1>5. i = Cardinality(Below(V))
  <2>1. T \in SUBSET T /\ Below(V) \cup {V} \subseteq T /\ V \in T
    BY <1>2
  <2>2. P.page_index = Cardinality(Below(V))
    OBVIOUS
  <2> HIDE DEF Below, T
  <2>3. Cardinality(Below(V)) + 1 <= n
    BY <1>3, <2>1
  <2> DEFINE m == P.page_index
  <2>4. m \in Nat /\ m + 1 <= n
    BY <1>2, <2>1, <2>2, <2>3
  <2> HIDE DEF m, n
  <2>5. Min({m, n - 1}) = m
    BY <1>1, <2>4, TwoMin
  <2>6. Max({0, m}) = m
    BY <2>4, TwoMax
  <2>7. Clamped(m, n) = m
    BY <2>5, <2>6 DEF Clamped
  <2> QED BY <2>2, <2>7 DEF m
<1>6. \A p \in T : Cardinality(Below(p)) = i <=> p = V
  <2> SUFFICES ASSUME NEW p \in T, p # V PROVE Cardinality(Below(p)) # i
    BY <1>5
  <2>1. Before(p, V) \/ Before(V, p)
    BY <1>1, InLine
  <2>2. V \in T
    OBVIOUS
  <2> HIDE DEF Below, T, i
  <2> QED BY <1>2, <1>4, <1>5, <2>1, <2>2
<1>7. \A p \in T : (\E U \in {T} : Cardinality({q \in U : Before(q, p)}) = Clamped(P.page_index, Cardinality(U)))
                     <=> p = V
  BY <1>6
<1>8. View(S, P) = CHOOSE p \in T : p = V
  <2>1. View(S, P) = CHOOSE p \in T :
          \E U \in {T} : Cardinality({q \in U : Before(q, p)}) = Clamped(P.page_index, Cardinality(U))
    BY DEF View
  <2> HIDE DEF T
  <2> QED BY <1>7, <2>1
<1> QED BY <1>8

\* What ensure_visible leaves shows the channel on the air.
LEMMA SeeksTheAir ==
  ASSUME NEW S, Sound(S), NEW P \in Pagers, Open(S, OnAir(S))
  PROVE  LET Q == Refreshed(S, EnsureVisible(S, P))
         IN  ShowsSlot(S, Q, View(S, Q), OnAir(S))
<1> DEFINE Q == EnsureVisible(S, P)
           R == Refreshed(S, Q)
           b == S.currentBank
           c == S.channel[b]
           r == PageRows(S, P, b)
           V == <<b, r * ((c - 1) \div r)>>
<1>1. S \in Sets /\ HomeStands(S) /\ Held(S, b) /\ b \in BankId /\ c \in Slot
  BY DEF Sound, Frame, AirHeld, Sets
<1>2. OnAir(S) = <<b, c>> /\ c \in Reached(S, b)
  BY <1>1 DEF OnAir, Reached, Slots, Open
<1> HIDE DEF b, c
<1>3. V \in ViewPages(S, P) /\ \A W \in ViewPages(S, P) : ShowsSlot(S, P, W, <<b, c>>) <=> W = V
  BY <1>1, <1>2, OnePageOfSlot
<1>4. Cardinality({q \in ViewPages(S, P) : Before(q, V)}) = PageOfSlot(S, P, <<b, c>>)
  BY <1>1, <1>2, PlaceOfPage
<1> HIDE DEF V
<1>5. Q \in Pagers
  BY <1>1, EnsureVisibleFacts
<1>6. Q.page_index = PageOfSlot(S, P, <<b, c>>) /\ Q.rows_visible = P.rows_visible
  BY <1>1, <1>2 DEF EnsureVisible, Pagers, b
<1> HIDE DEF Q
<1>7. R \in Pagers /\ R.rows_visible = P.rows_visible /\ View(S, R) = View(S, Q)
  <2>1. R \in Pagers /\ View(S, R) = View(S, Q)
    BY <1>1, <1>5, RefreshedFacts
  <2>2. R.rows_visible = Q.rows_visible
    BY <1>5 DEF Refreshed, Pagers
  <2> QED BY <1>6, <2>1, <2>2
<1> HIDE DEF R
<1>8. \A d : PageRows(S, Q, d) = PageRows(S, P, d) /\ PageRows(S, R, d) = PageRows(S, P, d)
  BY <1>6, <1>7 DEF PageRows
<1>9. ViewPages(S, Q) = ViewPages(S, P)
  BY <1>8 DEF ViewPages
<1>10. View(S, Q) = V
  BY <1>3, <1>4, <1>5, <1>6, <1>9, ViewAtItsPlace
<1>11. ShowsSlot(S, R, V, <<b, c>>) <=> ShowsSlot(S, P, V, <<b, c>>)
  BY <1>8 DEF ShowsSlot, RowsOnPage
<1> QED BY <1>2, <1>3, <1>7, <1>10, <1>11 DEF R, Q

\* A numeral's slot is a slot of the view's bank, or none.
LEMMA AbsoluteSlotFacts ==
  ASSUME NEW V \in Views, NEW n \in Int, pager \in Pagers
  PROVE  AbsoluteSlot(V, n) \in Slot \cup {0}
<1> DEFINE r == PageRows(set, pager, V[1])
<1>1. V[2] \in 0 .. CHANNEL_CAP - 1 /\ CHANNEL_CAP \in Nat
  BY ChannelsAssumption DEF Views
<1>2. r \in Nat \ {0}
  BY PageRowsFacts
<1> HIDE DEF r
<1>3. Min({r, CHANNEL_CAP - V[2]}) <= CHANNEL_CAP - V[2]
  BY <1>1, <1>2, TwoMin
<1>4. Min({r, CHANNEL_CAP - V[2]}) \in Int
  BY <1>1, <1>2, TwoMin
<1>5. n \in 1 .. RowsOnPage(set, pager, V) => V[2] + n \in Slot
  BY <1>1, <1>3, <1>4 DEF RowsOnPage, Slot, r
<1> QED BY <1>5 DEF AbsoluteSlot

\* A buffer that waits for another digit is a small number.
LEMMA WaitingFacts ==
  ASSUME NEW buf, NEW store, HomeStands(set), pager \in Pagers, SlotPrefixExists(buf, store)
  PROVE  buf \in 1 .. CHANNEL_CAP - 1
<1> DEFINE V == View(set, pager)
           r == PageRows(set, pager, V[1])
<1>1. V \in Views
  BY ViewIsAPage
<1>2. V[2] \in 0 .. CHANNEL_CAP - 1 /\ CHANNEL_CAP \in Nat
  BY <1>1, ChannelsAssumption DEF Views
<1>3. r \in Nat \ {0}
  BY PageRowsFacts
<1>4. PICK n \in 1 .. RowsOnPage(set, pager, V) : StrictPrefix(buf, n)
  BY DEF SlotPrefixExists
<1> HIDE DEF V, r
<1>5. Min({r, CHANNEL_CAP - V[2]}) \in Int /\ Min({r, CHANNEL_CAP - V[2]}) <= CHANNEL_CAP
  BY <1>2, <1>3, TwoMin
<1>6. n \in Nat \ {0} /\ n <= CHANNEL_CAP
  BY <1>2, <1>4, <1>5 DEF RowsOnPage, r
<1>7. PICK w \in Radix .. n : n \div w = buf
  BY <1>4 DEF StrictPrefix
<1>8. w \in 2 .. n
  BY <1>6, <1>7, StripAssumption
<1>9. n \div w \in 1 .. n - 1
  BY <1>6, <1>8, StartIsSmaller
<1> QED BY <1>2, <1>6, <1>7, <1>9

-----------------------------------------------------------------------------
(***************************************************************************)
(* What a handler may do to the set before channel_changed. A row left on  *)
(* the air is the row that was there, and no bank stops being a server's.  *)
(***************************************************************************)
StaysLit(S, T) == Rows(S) # {} => Rows(T) # {}

Turned(S, T) ==
  /\ Served(S) \subseteq Served(T)
  /\ OnAir(S) \in Rows(S) /\ OnAir(T) = OnAir(S) => T.row[OnAir(S)] = S.row[OnAir(S)]

Handled(S, T) == Sound(T) /\ WiresKept(S, T) /\ Turned(S, T) /\ StaysLit(S, T)

\* A handler that leaves the rows be.
LEMMA HandledSame ==
  ASSUME NEW S, NEW T, Sound(T), T.row = S.row, T.manager = S.manager, T.carrier = S.carrier
  PROVE  Handled(S, T)
<1>1. WiresKept(S, T)
  BY WiresSame
<1>2. Rows(T) = Rows(S)
  BY DEF Rows, Open
<1> QED BY <1>1, <1>2 DEF Handled, Turned, StaysLit, Served

LEMMA HandledTurn ==
  ASSUME NEW S, Sound(S), NEW p \in Rows(S)
  PROVE  Handled(S, SetCurrent(S, p))
<1> DEFINE T == SetCurrent(S, p)
<1>1. Sound(T) /\ T.row = S.row /\ T.manager = S.manager /\ T.carrier = S.carrier
  BY LandingOnRow, TurnFacts DEF Sound, Frame
<1> HIDE DEF T
<1>2. Handled(S, T)
  BY <1>1, HandledSame
<1> QED BY <1>2 DEF T

LEMMA HandledBank ==
  ASSUME NEW S, Sound(S), NEW b \in BankId, Held(S, b)
  PROVE  Handled(S, SelectBank(S, b))
<1> DEFINE T == SelectBank(S, b)
<1>1. Sound(T)
  BY SelectBankSound DEF Sound
<1>2. T.row = S.row /\ T.manager = S.manager /\ T.carrier = S.carrier
  BY TurnFacts DEF SelectBank, Sound, Frame
<1> HIDE DEF T
<1>3. Handled(S, T)
  BY <1>1, <1>2, HandledSame
<1> QED BY <1>3 DEF T

LEMMA HandledAsk ==
  ASSUME NEW S, Sound(S), NEW b \in BankId, NEW slot \in Pending
  PROVE  Handled(S, AskForWindow(S, b, slot))
<1> DEFINE T == AskForWindow(S, b, slot)
<1>1. Sound(T)
  BY AskSound
<1>2. T.row = S.row /\ T.manager = S.manager /\ T.carrier = S.carrier
  BY DEF AskForWindow, Sound, Frame, Sets
<1> HIDE DEF T
<1>3. Handled(S, T)
  BY <1>1, <1>2, HandledSame
<1> QED BY <1>3 DEF T

\* A session opened on a slot that was dark takes the air there.
LEMMA HandledOpening ==
  ASSUME NEW S \in Sets, NEW T, Sound(T), WiresKept(S, T),
         NEW p \in Pair, ~Open(S, p), NEW s \in Session, OpensOn(S, T, p, s)
  PROVE  Handled(S, T)
<1>1. T.row[p] = s /\ s # Dark
  BY ChannelsAssumption DEF OpensOn, Sets
<1>2. p \in Rows(T) /\ p \notin Rows(S)
  BY <1>1 DEF Rows, Open
<1> QED BY <1>2 DEF Handled, Turned, StaysLit, OpensOn

LEMMA OpenedOn ==
  ASSUME NEW S, Sound(S), NEW p \in Pair, Held(S, p[1]), ~Open(S, p), NEW s \in Session
  PROVE  LET T == SetCurrent(InsertRow(S, p, s), p)
         IN  Handled(S, T) /\ OpensOn(S, T, p, s)
<1> DEFINE T == SetCurrent(InsertRow(S, p, s), p)
<1>1. S \in Sets /\ Sound(T) /\ WiresKept(S, T) /\ OpensOn(S, T, p, s)
  BY InsertOnAir, WiresOpened, OpenedAir DEF Sound, Frame
<1> HIDE DEF T
<1>2. Handled(S, T)
  BY <1>1, HandledOpening
<1> QED BY <1>1, <1>2 DEF T

LEMMA OpenedAtHome ==
  ASSUME NEW S, Sound(S), NEW c \in Slot \ Slots(S, 0), NEW s \in Session
  PROVE  LET T == OpenChannel(S, c, s)
         IN  <<0, c>> \in Pair /\ Handled(S, T) /\ OpensOn(S, T, <<0, c>>, s)
<1>1. <<0, c>> \in Pair /\ Held(S, <<0, c>>[1]) /\ ~Open(S, <<0, c>>)
  BY ChannelsAssumption DEF Pair, BankId, Sound, Frame, HomeStands, Held, Slots
<1> QED BY <1>1, OpenedOn DEF OpenChannel

LEMMA OpenedSsh ==
  ASSUME NEW S, Sound(S), S.nextBankId <= MaxBank, NEW s \in Session
  PROVE  LET first == <<S.nextBankId, 1>>
             T     == OpenSshBank(S, s)
         IN  /\ first \in Pair /\ ~Open(S, first)
             /\ Handled(S, T) /\ OpensOn(S, T, first, s)
<1> DEFINE first == <<S.nextBankId, 1>>
           T     == OpenSshBank(S, s)
<1>1. first \in Pair /\ ~Open(S, first) /\ OpensOn(S, T, first, s)
  BY SshAir
<1>2. S \in Sets /\ Sound(T) /\ WiresKept(S, T)
  BY OpenSshBankSound, WiresSsh DEF Sound, Frame
<1> HIDE DEF first, T
<1>3. Handled(S, T)
  BY <1>1, <1>2, HandledOpening
<1> QED BY <1>1, <1>3 DEF first, T

LEMMA HandledStore ==
  ASSUME NEW S, Sound(S), NEW b \in BankId, NEW c \in Slot, CanStore(S, b, c)
  PROVE  Handled(S, MoveCurrentTo(S, b, c))
<1> DEFINE T    == MoveCurrentTo(S, b, c)
           from == OnAir(S)
           to   == <<b, c>>
<1>1. Sound(T) /\ WiresKept(S, T)
  BY StoreSound, WiresStore DEF Sound
<1>2. /\ from \in Rows(S) /\ to \in Pair /\ Served(T) = Served(S) /\ OnAir(T) = to
      /\ T.row = [S.row EXCEPT ![from] = S.row[to], ![to] = S.row[from]]
  BY StoreAir
<1>3. to # from
  BY DEF CanStore
<1>4. T.row[to] = S.row[from] /\ S.row[from] # Dark
  BY <1>2, <1>3 DEF Sound, Frame, Sets, Rows, Open
<1>5. to \in Rows(T)
  BY <1>2, <1>4 DEF Rows, Open
<1> HIDE DEF T, from, to
<1>6. Handled(S, T)
  BY <1>1, <1>2, <1>3, <1>5 DEF Handled, Turned, StaysLit, from
<1> QED BY <1>6 DEF T

\* A row that was neither a wire's nor the last.
LEMMA HandledRemoval ==
  ASSUME NEW S, Sound(S), NEW p \in Rows(S), ~IsCarrier(S, p), \E q \in Anchored(S) : q # p
  PROVE  Handled(S, RemoveRow(S, p))
<1> DEFINE T == RemoveRow(S, p)
<1>1. Sound(T) /\ WiresKept(S, T)
  BY RemoveSound, WiresRemove
<1>2. /\ T.row = [S.row EXCEPT ![p] = Dark] /\ Served(T) = Served(S)
      /\ OnAir(S) = p => OnAir(T) # p
  BY RemoveAir
<1>3. PICK q \in Rows(S) : q # p
  BY DEF Anchored
<1>4. q \in Rows(T)
  BY <1>2, <1>3 DEF Rows, Open, Sound, Frame, Sets
<1>5. OnAir(S) # p => T.row[OnAir(S)] = S.row[OnAir(S)] \/ OnAir(S) \notin Rows(S)
  BY <1>2 DEF Rows, Sound, Frame, Sets
<1> HIDE DEF T
<1>6. Handled(S, T)
  BY <1>1, <1>2, <1>4, <1>5 DEF Handled, Turned, StaysLit
<1> QED BY <1>6 DEF T

\* The user's close.
LEMMA HandledClose ==
  ASSUME NEW S, Sound(S), NEW p, CloseRow(S, p)
  PROVE  Handled(S, set')
<1>1. CASE set' = S
  BY <1>1, HandledSame
<1>2. CASE set' # S
  <2>1. p \in Rows(S) /\ ~IsCarrier(S, p) /\ ~OneAnchored(S) /\ set' = RemoveRow(S, p)
    BY <1>2 DEF CloseRow
  <2> QED BY <2>1, NotTheLast, HandledRemoval
<1> QED BY <1>1, <1>2

\* A row no server fills anchors the window.
LEMMA AnchoredRows ==
  ASSUME NEW S, Frame(S)
  PROVE  Anchored(S) = {p \in Rows(S) : p[1] \notin Served(S)}
<1>1. ASSUME NEW p \in Rows(S)
      PROVE  S.manager[p[1]] \in {"home", "ssh"} <=> p[1] \notin Served(S)
  <2>1. p[1] \in BankId /\ S.manager[p[1]] \in Managers /\ S.manager[p[1]] # "none"
    BY PairParts DEF Frame, Sets, RowsHeld, Rows, Held
  <2> QED BY <2>1 DEF Managers, Served
<1> QED BY <1>1 DEF Anchored

\* What took the page's place leaves two anchored rows, or the page was none.
LEMMA PageIsNotTheLast ==
  ASSUME NEW S, Sound(S), Rows(S) # {}, OnAir(S) = PageRow, NEW U, Sound(U),
         NEW q \in Pair, ~Open(S, q), q[1] \notin Served(S), NEW s \in Session,
         OpensOn(S, U, q, s), PageRow \in Rows(U)
  PROVE  ~OneAnchored(U)
<1>1. S \in Sets /\ Frame(S) /\ Frame(U) /\ s # Dark
  BY ChannelsAssumption DEF Sound, Frame
<1>2. U.row = [S.row EXCEPT ![q] = s] /\ Served(U) = Served(S)
  BY DEF OpensOn
<1>3. Rows(U) = Rows(S) \cup {q} /\ q \notin Rows(S)
  BY <1>1, <1>2 DEF Rows, Open, Sets
<1>4. Anchored(U) = Anchored(S) \cup {q}
  BY <1>1, <1>2, <1>3, AnchoredRows
<1>5. PageRow[1] = 0 /\ S.manager[0] = "home"
  BY <1>1 DEF PageRow, Frame, HomeStands
<1>6. CASE PageRow = q
  <2>1. Anchored(S) # {}
    BY <1>1 DEF Frame, AnchorHolds
  <2>2. q \notin Anchored(S)
    BY <1>3 DEF Anchored
  <2> QED BY <1>4, <2>1, <2>2 DEF OneAnchored
<1>7. CASE PageRow # q
  <2>1. PageRow \in Rows(S)
    BY <1>3, <1>7
  <2>2. PageRow \in Anchored(S)
    BY <1>5, <2>1 DEF Anchored
  <2> QED BY <1>4, <1>7, <2>2 DEF OneAnchored
<1> QED BY <1>6, <1>7

\* The page goes once what it was to make way for stands.
LEMMA HandledRetire ==
  ASSUME NEW S, Sound(S), OnAir(S) = PageRow, NEW U, Handled(S, U),
         NEW q \in Pair, ~Open(S, q), NEW s \in Session, OpensOn(S, U, q, s),
         CloseRow(U, PageRow)
  PROVE  Handled(S, set')
<1>1. CASE set' = U
  BY <1>1
<1>2. CASE set' # U
  <2> DEFINE T == RemoveRow(U, PageRow)
  <2>1. /\ PageRow \in Rows(U) /\ ~IsCarrier(U, PageRow) /\ ~OneAnchored(U)
        /\ set' = T
    BY <1>2 DEF CloseRow
  <2>2. Sound(U) /\ \E a \in Anchored(U) : a # PageRow
    BY <2>1, NotTheLast DEF Handled
  <2>3. Handled(U, T)
    BY <2>1, <2>2, HandledRemoval
  <2>4. \A k \in BankId : U.manager[k] = "none" => T.manager[k] = "none"
    BY <2>1, <2>2, WiresRemove
  <2>5. OnAir(U) # PageRow => OnAir(T) = OnAir(U)
    BY <2>1, <2>2, RemoveAir
  <2>6. OnAir(U) = q /\ q \notin Rows(S)
    BY DEF OpensOn, Rows
  <2> HIDE DEF T
  <2>7. WiresKept(S, T)
    BY <2>3, <2>4, WiresTrans DEF Handled
  <2>8. Handled(S, T)
    BY <2>3, <2>5, <2>6, <2>7 DEF Handled, Turned, StaysLit
  <2> QED BY <2>1, <2>8
<1> QED BY <1>1, <1>2

-----------------------------------------------------------------------------
(***************************************************************************)
(* What a pump may do before channel_changed. A slot that no server fills  *)
(* keeps its row or goes dark off the air; no dark one takes the air.      *)
(***************************************************************************)
Drifts(S, T) ==
  \A q \in Pair : T.manager[q[1]] # "tmux" =>
    \/ T.row[q] = Dark /\ OnAir(T) # q
    \/ /\ S.manager[q[1]] # "tmux" /\ T.row[q] = S.row[q]
       /\ OnAir(T) = q => OnAir(S) = q \/ q \in Rows(T)

LEMMA DriftTrans ==
  ASSUME NEW S, NEW T, NEW U, Drifts(S, T), Drifts(T, U)
  PROVE  Drifts(S, U)
BY DEF Drifts, Rows, Open

\* A pump that leaves the rows and the air of every other bank be.
LEMMA DriftSame ==
  ASSUME NEW S, NEW T, T.row = S.row, Served(S) \subseteq Served(T),
         OnAir(T) = OnAir(S) \/ OnAir(T) \in Rows(T) \/ OnAir(T)[1] \in Served(T)
  PROVE  Drifts(S, T)
<1> SUFFICES ASSUME NEW q \in Pair, T.manager[q[1]] # "tmux"
             PROVE  /\ S.manager[q[1]] # "tmux" /\ T.row[q] = S.row[q]
                    /\ OnAir(T) = q => OnAir(S) = q \/ q \in Rows(T)
  BY DEF Drifts
<1>1. q[1] \in BankId
  BY PairParts
<1> QED BY <1>1 DEF Served

LEMMA DriftWindow ==
  ASSUME NEW S, Sound(S), NEW b \in BankId, S.manager[b] = "tmux", NEW s \in Session, NEW r
  PROVE  Drifts(S, OpenTmuxWindow(S, b, s, r))
<1> DEFINE T == OpenTmuxWindow(S, b, s, r)
           p == <<b, WindowSlot(S, b, r)>>
<1>1. /\ Served(T) = Served(S)
      /\ \/ T.row = S.row /\ OnAir(T) = OnAir(S)
         \/ /\ p \in Pair /\ T.row = [S.row EXCEPT ![p] = s]
            /\ OnAir(T) = p \/ OnAir(T) = OnAir(S)
  BY WindowAir
<1>2. p[1] = b /\ S \in Sets
  BY DEF Sound, Frame
<1> HIDE DEF T, p
<1> SUFFICES ASSUME NEW q \in Pair, T.manager[q[1]] # "tmux"
             PROVE  /\ S.manager[q[1]] # "tmux" /\ T.row[q] = S.row[q]
                    /\ OnAir(T) = q => OnAir(S) = q
  BY DEF Drifts, T
<1>3. q[1] \in BankId
  BY PairParts
<1>4. S.manager[q[1]] # "tmux"
  BY <1>1, <1>3 DEF Served
<1>5. q # p
  BY <1>2, <1>4
<1> QED BY <1>1, <1>2, <1>4, <1>5 DEF Sets

LEMMA DriftRemove ==
  ASSUME NEW S, Sound(S), NEW p \in Rows(S), ~IsCarrier(S, p), \E q \in Anchored(S) : q # p
  PROVE  Drifts(S, RemoveRow(S, p))
<1> DEFINE T == RemoveRow(S, p)
<1>1. /\ T.row = [S.row EXCEPT ![p] = Dark] /\ Served(T) = Served(S)
      /\ OnAir(S) # p => OnAir(T) = OnAir(S)
      /\ OnAir(S) = p => OnAir(T) \in Rows(T) /\ OnAir(T) # p
  BY RemoveAir
<1>2. S \in Sets
  BY DEF Sound, Frame
<1> HIDE DEF T
<1> SUFFICES ASSUME NEW q \in Pair, T.manager[q[1]] # "tmux"
             PROVE  \/ T.row[q] = Dark /\ OnAir(T) # q
                    \/ /\ S.manager[q[1]] # "tmux" /\ T.row[q] = S.row[q]
                       /\ OnAir(T) = q => OnAir(S) = q \/ q \in Rows(T)
  BY DEF Drifts, T
<1>3. q[1] \in BankId
  BY PairParts
<1>4. S.manager[q[1]] # "tmux"
  BY <1>1, <1>3 DEF Served
<1>5. CASE q = p
  BY <1>1, <1>2, <1>5 DEF Sets
<1>6. CASE q # p
  BY <1>1, <1>2, <1>4, <1>6 DEF Sets
<1> QED BY <1>5, <1>6

LEMMA DriftCollapse ==
  ASSUME NEW S, Sound(S), NEW k \in BankId, S.manager[k] = "tmux", NEW reason \in BOOLEAN
  PROVE  Drifts(S, CollapseBank(S, k, reason))
<1> DEFINE T == CollapseBank(S, k, reason)
<1>1. /\ T.row = [p \in Pair |-> IF p[1] = k THEN Dark ELSE S.row[p]]
      /\ Served(T) = Served(S) \ {k}
      /\ S.currentBank # k => OnAir(T) = OnAir(S)
      /\ S.currentBank = k => OnAir(T) \in Rows(T)
  BY CollapseAir
<1>2. OnAir(S)[1] = S.currentBank
  BY DEF OnAir
<1> HIDE DEF T
<1> SUFFICES ASSUME NEW q \in Pair, T.manager[q[1]] # "tmux"
             PROVE  \/ T.row[q] = Dark /\ OnAir(T) # q
                    \/ /\ S.manager[q[1]] # "tmux" /\ T.row[q] = S.row[q]
                       /\ OnAir(T) = q => OnAir(S) = q \/ q \in Rows(T)
  BY DEF Drifts, T
<1>3. q[1] \in BankId
  BY PairParts
<1>4. CASE q[1] = k
  <2>1. T.row[q] = Dark
    BY <1>1, <1>4
  <2>2. q \notin Rows(T)
    BY <2>1 DEF Rows, Open
  <2> QED BY <1>1, <1>2, <1>4, <2>1, <2>2
<1>5. CASE q[1] # k
  <2>1. S.manager[q[1]] # "tmux" /\ T.row[q] = S.row[q]
    BY <1>1, <1>3, <1>5 DEF Served
  <2> QED BY <1>1, <2>1
<1> QED BY <1>4, <1>5

\* A bank's end leaves an anchored row.
LEMMA CollapseLeavesRows ==
  ASSUME NEW S, Sound(S), NEW k \in BankId, S.manager[k] = "tmux", NEW reason \in BOOLEAN
  PROVE  Rows(CollapseBank(S, k, reason)) # {}
<1> DEFINE T == CollapseBank(S, k, reason)
<1>1. T.row = [p \in Pair |-> IF p[1] = k THEN Dark ELSE S.row[p]]
  BY CollapseRows DEF Sound, Frame
<1> HIDE DEF T
<1>2. PICK a \in Anchored(S) : TRUE
  BY DEF Sound, Frame, AnchorHolds
<1>3. a \in Rows(S) /\ a[1] # k
  BY <1>2 DEF Anchored
<1>4. a \in Rows(T)
  BY <1>1, <1>3 DEF Rows, Open
<1> QED BY <1>4 DEF T

LEMMA PumpDrifts ==
  IInv /\ (GatewayCall \/ \E p \in Pair : RowCall(p)) => Drifts(set, set') /\ StaysLit(set, set')
<1> SUFFICES ASSUME IInv, GatewayCall \/ \E p \in Pair : RowCall(p)
             PROVE  Drifts(set, set') /\ StaysLit(set, set')
  OBVIOUS
<1>0. Sound(set) /\ set \in Sets /\ Fresh \subseteq Session
  BY DEF IInv, Sound, Frame, Fresh
<1>1. ASSUME set'.row = set.row PROVE StaysLit(set, set')
  BY <1>1 DEF StaysLit, Rows, Open
<1>2. ASSUME NEW b \in BankId, NEW r \in Pending, WindowOpened(b, r)
      PROVE  Drifts(set, set') /\ StaysLit(set, set')
  <2>1. PICK s \in Fresh : set' = OpenTmuxWindow(set, b, s, r) /\ set.manager[b] = "tmux"
    BY <1>2 DEF WindowOpened
  <2>2. s \in Session /\ s # Dark
    BY <1>0, <2>1, ChannelsAssumption
  <2>3. Drifts(set, set')
    BY <1>0, <2>1, <2>2, DriftWindow
  <2> DEFINE q == <<b, WindowSlot(set, b, r)>>
             T == OpenTmuxWindow(set, b, s, r)
  <2>4. T.row = set.row \/ (q \in Pair /\ T.row = [set.row EXCEPT ![q] = s])
    BY <1>0, <2>1, <2>2, WindowAir
  <2> HIDE DEF q, T
  <2>5. Rows(set) \subseteq Rows(set')
    <3>1. Rows(set) \subseteq Rows(T)
      BY <1>0, <2>2, <2>4 DEF Rows, Open, Sets
    <3> QED BY <2>1, <3>1 DEF T
  <2> QED BY <2>3, <2>5 DEF StaysLit
<1>3. ASSUME NEW b \in BankId, NEW c \in Slot, WindowClosed(b, c)
      PROVE  Drifts(set, set') /\ StaysLit(set, set')
  <2> DEFINE p == <<b, c>>
  <2>1. p \in Rows(set) /\ set.manager[p[1]] = "tmux" /\ set' = RemoveRow(set, p)
    BY <1>3 DEF WindowClosed, Rows, Pair
  <2> HIDE DEF p
  <2>2. ~IsCarrier(set, p) /\ \E q \in Anchored(set) : q # p
    BY <1>0, <2>1, TmuxRowCarriesNothing
  <2> QED BY <1>0, <2>1, <2>2, DriftRemove, HandledRemoval DEF Handled
<1>4. ASSUME NEW b \in BankId, Settle(b) PROVE Drifts(set, set') /\ StaysLit(set, set')
  <2>1. set.manager[b] = "tmux" /\ Held(set, b) /\ (set' = set \/ set' = SelectBank(set, b))
    BY <1>4 DEF Settle, SettleOnOpenRow, Held
  <2>2. SelectBank(set, b).row = set.row /\ SelectBank(set, b).manager = set.manager
    BY <1>0, TurnFacts DEF SelectBank
  <2>3. SelectBank(set, b).currentBank = b
    BY <1>0 DEF SelectBank, SetCurrent, Sets
  <2>4. set'.row = set.row /\ Served(set') = Served(set)
    BY <2>1, <2>2 DEF Served
  <2>5. OnAir(set') = OnAir(set) \/ OnAir(set')[1] \in Served(set')
    BY <2>1, <2>3, <2>4 DEF OnAir, Served
  <2>6. Drifts(set, set')
    BY <2>4, <2>5, DriftSame
  <2> QED BY <1>1, <2>4, <2>6
<1>5. ASSUME NEW b \in BankId, NEW reason \in BOOLEAN, Collapse(b, reason)
      PROVE  Drifts(set, set') /\ StaysLit(set, set')
  BY <1>0, <1>5, DriftCollapse, CollapseLeavesRows DEF Collapse, StaysLit
<1>6. CASE AttachFound
  <2>1. /\ set.nextBankId <= MaxBank /\ set' = PushBank(set, "tmux", NoPair)
        /\ "tmux" \in Managers
    BY <1>6 DEF AttachFound, CanRaise, Managers
  <2>2. /\ set'.row = set.row /\ OnAir(set') = OnAir(set)
        /\ Served(set') = Served(set) \cup {set.nextBankId}
    BY <1>0, <2>1, PushAir
  <2>3. Drifts(set, set')
    BY <2>2, DriftSame
  <2> QED BY <1>1, <2>2, <2>3
<1>7. ASSUME NEW p \in Pair, Attach(p) PROVE Drifts(set, set') /\ StaysLit(set, set')
  <2>1. set.nextBankId <= MaxBank /\ set' = AttachOver(set, p)
    BY <1>7 DEF Attach, CanRaise
  <2>2. /\ set'.row = set.row /\ Served(set') = Served(set) \cup {set.nextBankId}
        /\ OnAir(set') = <<set.nextBankId, 1>> \/ OnAir(set') = OnAir(set)
    BY <1>0, <2>1, AttachAir
  <2>3. Drifts(set, set')
    BY <2>2, DriftSame
  <2> QED BY <1>1, <2>2, <2>3
<1>8. ASSUME NEW p \in Pair, SessionDied(p) PROVE Drifts(set, set') /\ StaysLit(set, set')
  <2> DEFINE down == CarrierDown(set, p)
             k    == CHOOSE a \in CarriedBanks(set, p) : TRUE
  <2>1. p \in Rows(set) /\ set.manager[p[1]] # "tmux"
    BY <1>8 DEF SessionDied, Rows
  <2>2. Sound(down) /\ p \in Rows(down) /\ ~IsCarrier(down, p)
    BY <1>0, <2>1, CarrierDownSound
  <2>3. Drifts(set, down)
    <3>1. CASE ~IsCarrier(set, p)
      BY <3>1, DriftSame DEF CarrierDown
    <3>2. CASE IsCarrier(set, p)
      <4>1. k \in BankId /\ set.carrier[k] = p /\ p # NoPair
        BY <3>2 DEF IsCarrier, CarriedBanks
      <4>2. set.manager[k] = "tmux" /\ down = CollapseBank(set, k, FALSE)
        BY <1>0, <3>2, <4>1 DEF Sound, Frame, WiresHold, CarrierDown
      <4> HIDE DEF k, down
      <4> QED BY <1>0, <4>1, <4>2, DriftCollapse
    <3> QED BY <3>1, <3>2
  <2>4. set' = down \/ (~OneAnchored(down) /\ set' = RemoveRow(down, p))
    BY <1>8 DEF SessionDied
  <2> HIDE DEF down
  <2>5. CASE set' = down
    BY <2>2, <2>3, <2>5 DEF StaysLit
  <2>6. CASE ~OneAnchored(down) /\ set' = RemoveRow(down, p)
    <3>1. \E q \in Anchored(down) : q # p
      BY <2>6, NotTheLast
    <3>2. Drifts(down, set') /\ StaysLit(down, set')
      BY <2>2, <2>6, <3>1, DriftRemove, HandledRemoval DEF Handled
    <3> QED BY <2>2, <2>3, <3>2, DriftTrans DEF StaysLit
  <2> QED BY <2>4, <2>5, <2>6
<1> QED BY <1>2, <1>3, <1>4, <1>5, <1>6, <1>7, <1>8 DEF GatewayCall, RowCall

-----------------------------------------------------------------------------
(***************************************************************************)
(* The handlers' calls.                                                    *)
(***************************************************************************)
LEMMA StoredHandled ==
  ASSUME Sound(set), NEW b \in BankId, NEW c \in Slot \cup {0}
  PROVE  Handled(set, Stored(b, c))
<1>1. CASE c # 0 /\ CanStore(set, b, c)
  <2>1. c \in Slot /\ Stored(b, c) = MoveCurrentTo(set, b, c)
    BY <1>1 DEF Stored
  <2> QED BY <1>1, <2>1, HandledStore
<1>2. CASE ~(c # 0 /\ CanStore(set, b, c))
  <2>1. Stored(b, c) = set
    BY <1>2 DEF Stored
  <2> QED BY <2>1, HandledSame
<1> QED BY <1>1, <1>2

LEMMA SelectedHandled ==
  ASSUME Sound(set), NEW b \in BankId, NEW c \in Slot \cup {0}
  PROVE  Handled(set, Selected(<<b, c>>))
<1>1. CASE c # 0 /\ Open(set, <<b, c>>)
  <2>1. <<b, c>> \in Rows(set) /\ Selected(<<b, c>>) = SetCurrent(set, <<b, c>>)
    BY <1>1 DEF Rows, Pair, Selected
  <2> QED BY <2>1, HandledTurn
<1>2. CASE ~(c # 0 /\ Open(set, <<b, c>>))
  <2>1. Selected(<<b, c>>) = set
    BY <1>2 DEF Selected
  <2> QED BY <2>1, HandledSame
<1> QED BY <1>1, <1>2

LEMMA ChordHandled ==
  ASSUME Sound(set), pager \in Pagers, NEW buf \in Int, NEW store, ApplyChord(buf, store)
  PROVE  Handled(set, set') /\ doing' = "handler"
<1> DEFINE V    == View(set, pager)
           slot == AbsoluteSlot(V, Named(buf))
<1>1. V \in Views /\ V[1] \in BankId
  BY ViewIsAPage DEF Views, Sound, Frame
<1>2. Named(buf) \in Int
  BY StripAssumption DEF Named
<1>3. slot \in Slot \cup {0}
  BY <1>1, <1>2, AbsoluteSlotFacts
<1>4. set' = IF store THEN Stored(V[1], slot) ELSE Selected(<<V[1], slot>>)
  BY DEF ApplyChord
<1> HIDE DEF V, slot
<1>5. Handled(set, set')
  BY <1>1, <1>3, <1>4, StoredHandled, SelectedHandled
<1> QED BY <1>5 DEF ApplyChord

LEMMA UserHandled ==
  ASSUME Sound(set), UserCall PROVE Handled(set, set')
<1>0. set \in Sets /\ Fresh \subseteq Session /\ 0 \in BankId
  BY ChannelsAssumption DEF Sound, Frame, Fresh, BankId
<1>1. ASSUME NEW c \in Slot, OpenHome(c) PROVE Handled(set, set')
  <2>1. c \in Slot \ Slots(set, 0)
    BY <1>1 DEF OpenHome, Slots
  <2> QED BY <1>0, <1>1, <2>1, OpenedAtHome DEF OpenHome
<1>2. ASSUME NEW b \in BankId, NewChannel(b) PROVE Handled(set, set')
  <2>1. CASE set.manager[b] = "tmux"
    <3>1. NextSlot(set, b) \in Pending
      BY NextSlotFacts DEF Pending
    <3>2. set' = AskForWindow(set, b, NextSlot(set, b))
      BY <1>2, <2>1 DEF NewChannel
    <3> QED BY <3>1, <3>2, HandledAsk
  <2>2. CASE set.manager[b] # "tmux"
    <3>1. NextSlot(set, 0) \in Slot \ Slots(set, 0)
      BY <1>2, <2>2, NextSlotFacts DEF NewChannel
    <3>2. \E s \in Fresh : set' = OpenChannel(set, NextSlot(set, 0), s)
      BY <1>2, <2>2 DEF NewChannel
    <3> QED BY <1>0, <3>1, <3>2, OpenedAtHome
  <2> QED BY <2>1, <2>2
<1>3. ASSUME NEW b \in BankId, TurnToBank(b) PROVE Handled(set, set')
  BY <1>3, HandledBank DEF TurnToBank
<1>4. ASSUME NEW b \in BankId, NEW c \in Slot, AskSlot(b, c) PROVE Handled(set, set')
  <2>1. c \in Pending
    BY DEF Pending
  <2> QED BY <1>4, <2>1, HandledAsk DEF AskSlot
<1>5. ASSUME NEW b \in BankId, NEW c \in Slot, OpenSshChannel(b, c) PROVE Handled(set, set')
  <2> DEFINE p == <<b, c>>
  <2>1. /\ p \in Pair /\ Held(set, p[1]) /\ ~Open(set, p)
        /\ \E s \in Session : set' = SetCurrent(InsertRow(set, p, s), p)
    BY <1>0, <1>5 DEF OpenSshChannel, Pair, Held
  <2> HIDE DEF p
  <2> QED BY <2>1, OpenedOn
<1>6. ASSUME NEW b \in BankId, NEW c \in Slot, Store(b, c) PROVE Handled(set, set')
  BY <1>6, HandledStore DEF Store
<1>7. CASE OpenSsh
  BY <1>0, <1>7, OpenedSsh DEF OpenSsh, CanRaise
<1>8. CASE CloseChannel
  BY <1>8, HandledClose DEF CloseChannel
<1>9. ASSUME NEW p \in Pair, Select(p) PROVE Handled(set, set')
  BY <1>9, HandledTurn DEF Select, Rows
<1>10. ASSUME NEW up \in BOOLEAN, CycleOpen(up) PROVE Handled(set, set')
  BY <1>10, CycleLands, HandledTurn DEF CycleOpen
<1> QED BY <1>1, <1>2, <1>3, <1>4, <1>5, <1>6, <1>7, <1>8, <1>9, <1>10 DEF UserCall

\* The picker's calls. A page, once up, is a row.
LEMMA PickerHandled ==
  ASSUME Sound(set), PickerCall
  PROVE  /\ Handled(set, set')
         /\ picker' = 0 \/ picker' = picker \/ Rows(set') # {}
<1>0. set \in Sets /\ Fresh \subseteq Session
  BY DEF Sound, Frame, Fresh
<1>1. CASE OpenPicker /\ PageRow \in Rows(set)
  BY <1>1, HandledTurn DEF OpenPicker
<1>2. CASE OpenPicker /\ PageRow \notin Rows(set)
  <2>1. picker' = FirstFree(set, 0)
    BY <1>2 DEF OpenPicker
  <2>2. CASE picker' = 0
    <3>1. set' = set
      BY <1>2, <2>2 DEF OpenPicker
    <3> QED BY <2>2, <3>1, HandledSame
  <2>3. CASE picker' # 0
    <3>1. PICK s \in Fresh : set' = OpenChannel(set, picker', s)
      BY <1>2, <2>3 DEF OpenPicker
    <3>2. picker' \in Slot \ Slots(set, 0)
      BY <2>1, <2>3, FirstFreeFacts
    <3>3. /\ <<0, picker'>> \in Pair /\ Handled(set, set')
          /\ OpensOn(set, set', <<0, picker'>>, s)
      BY <1>0, <3>1, <3>2, OpenedAtHome
    <3>4. <<0, picker'>> \in Rows(set')
      BY <1>0, <3>1, <3>3, ChannelsAssumption DEF OpensOn, Rows, Open, Sets
    <3> QED BY <3>3, <3>4
  <2> QED BY <2>2, <2>3
<1>3. CASE ChooseLocalhost
  <2>1. picker' = 0
    BY <1>3 DEF ChooseLocalhost, Retire
  <2>2. CASE Retire(set)
    BY <2>1, <2>2, HandledClose DEF Retire
  <2>3. CASE ~Retire(set)
    <3> DEFINE c == FirstFree(set, 0)
    <3>1. OnAir(set) = PageRow /\ c # 0
      BY <1>3, <2>3 DEF ChooseLocalhost, OnPage
    <3>2. PICK s \in Fresh : CloseRow(OpenChannel(set, c, s), PageRow)
      BY <1>3, <2>3 DEF ChooseLocalhost, Retire
    <3>3. c \in Slot \ Slots(set, 0)
      BY <3>1, FirstFreeFacts
    <3> HIDE DEF c
    <3>4. /\ <<0, c>> \in Pair /\ Handled(set, OpenChannel(set, c, s))
          /\ OpensOn(set, OpenChannel(set, c, s), <<0, c>>, s) /\ ~Open(set, <<0, c>>)
      BY <1>0, <3>3, OpenedAtHome DEF Slots
    <3> QED BY <1>0, <2>1, <3>1, <3>2, <3>4, HandledRetire
  <2> QED BY <2>2, <2>3
<1>4. CASE ChooseHost
  <2>1. picker' = 0
    BY <1>4 DEF ChooseHost, Retire
  <2>2. CASE Retire(set)
    BY <2>1, <2>2, HandledClose DEF Retire
  <2>3. CASE ~Retire(set)
    <3> DEFINE first == <<set.nextBankId, 1>>
    <3>1. OnAir(set) = PageRow /\ set.nextBankId <= MaxBank
      BY <1>4, <2>3 DEF ChooseHost, OnPage, CanRaise
    <3>2. PICK s \in Fresh : CloseRow(OpenSshBank(set, s), PageRow)
      BY <1>4, <2>3 DEF ChooseHost, Retire
    <3>3. /\ first \in Pair /\ Handled(set, OpenSshBank(set, s))
          /\ OpensOn(set, OpenSshBank(set, s), first, s) /\ ~Open(set, first)
      BY <1>0, <3>1, <3>2, OpenedSsh
    <3> HIDE DEF first
    <3> QED BY <1>0, <2>1, <3>1, <3>2, <3>3, HandledRetire
  <2> QED BY <2>2, <2>3
<1>5. CASE Cancel
  BY <1>5, HandledClose DEF Cancel, Retire
<1> QED BY <1>1, <1>2, <1>3, <1>4, <1>5 DEF PickerCall

\* The window's first channel: there was none to keep.
LEMMA StartHandled ==
  ASSUME IInv, set = New, Start PROVE Handled(set, set')
<1>1. Sound(set') /\ WiresKept(set, set')
  BY StepKeeps, WiresStep DEF Next, IInv
<1>2. Rows(set) = {} /\ Served(set) = {}
  BY DEF New, Rows, Open, Served
<1> QED BY <1>1, <1>2 DEF Handled, Turned, StaysLit

-----------------------------------------------------------------------------
(***************************************************************************)
(* The steps, by what they leave for channel_changed: a handler that moved *)
(* the set, labels looked at again, or nothing.                            *)
(***************************************************************************)
HandlerStep ==
  /\ doing = "none" /\ doing' = "handler" /\ on_air' = on_air
  /\ Handled(set, set') /\ power' \in {"on", "closing"}
  /\ pager' \in Pagers /\ pager'.last_view = pager.last_view
  /\ chord' \in {chord, NoChord}
  /\ strip' \in [held : BOOLEAN, target : Slot \cup {0}]
  /\ find' = find
  /\ picker' = 0 \/ picker' = picker \/ Rows(set') # {}

LEMMA HandlerKeeps == StripInv /\ HandlerStep => StripInv'
<1> SUFFICES ASSUME StripInv, HandlerStep PROVE StripInv'
  OBVIOUS
<1>1. Sound(set') /\ Turned(set, set') /\ StaysLit(set, set')
  BY DEF HandlerStep, Handled
<1>2. IInv' /\ QuietWhileOff'
  BY <1>1 DEF HandlerStep, IInv, QuietWhileOff
<1>3. NoChord.digits = NoDigits /\ NoChord.deadline = FALSE
  BY DEF NoChord
<1>4. Typed'
  BY <1>3 DEF HandlerStep, StripInv, Typed
<1>5. LabelsStand'
  BY <1>3 DEF HandlerStep, StripInv, LabelsStand
<1>6. LineStands'
  <2> SUFFICES ASSUME find # NoFind
               PROVE  /\ find.on = on_air /\ find.on \in Pair /\ find.screen # Dark
                      /\ set'.manager[find.on[1]] # "tmux" =>
                           set'.row[find.on] = find.screen \/ OnAir(set') # find.on
    BY DEF HandlerStep, LineStands
  <2>1. /\ find.on = on_air /\ find.on \in Pair /\ find.screen # Dark /\ on_air = OnAir(set)
        /\ set.manager[find.on[1]] # "tmux" =>
             set.row[find.on] = find.screen \/ OnAir(set) # find.on
    BY DEF StripInv, LineStands, Typed, HandlerStep
  <2>2. ASSUME set'.manager[find.on[1]] # "tmux", OnAir(set') = find.on
        PROVE  set'.row[find.on] = find.screen
    <3>1. find.on[1] \in BankId
      BY <2>1, PairParts
    <3>2. set.manager[find.on[1]] # "tmux"
      BY <1>1, <2>2, <3>1 DEF Turned, Served
    <3>3. OnAir(set) = find.on /\ set.row[find.on] = find.screen
      BY <2>1, <3>2
    <3>4. OnAir(set) \in Rows(set)
      BY <2>1, <3>3 DEF Rows, Open
    <3> QED BY <1>1, <2>2, <3>3, <3>4 DEF Turned
  <2> QED BY <2>1, <2>2
<1>7. PickerStands'
  BY <1>1 DEF HandlerStep, StripInv, PickerStands, StaysLit
<1> QED BY <1>2, <1>4, <1>5, <1>6, <1>7 DEF StripInv

\* The numerals looked at again, with the set where it was.
LooksAgain ==
  /\ doing = "none" /\ UNCHANGED <<set, power, strip, on_air, doing, picker, find>>
  /\ \E P \in Pagers : P.last_view = pager.last_view /\ pager' = Refreshed(set, P)
  /\ chord' = Settled(pager')

\* What settle_bank leaves of the digits stands against what is on view.
LEMMA SettledStands ==
  ASSUME Typed, LabelsStand, NEW S, HomeStands(S), NEW P \in Pagers,
         P.last_view = pager.last_view,
         pager' = Refreshed(S, P), chord' = Settled(pager')
  PROVE  /\ pager' \in Pagers /\ pager'.last_view = View(S, pager')
         /\ chord' \in {chord, NoChord}
         /\ chord'.digits # NoDigits =>
              chord'.labels = pager'.last_view /\ pager'.last_view # NoView
<1>1. /\ pager' \in Pagers /\ pager'.last_view = View(S, P) /\ View(S, pager') = View(S, P)
      /\ pager'.last_view # NoView
  BY RefreshedFacts
<1>2. chord' = NoChord \/ (chord' = chord /\ ~Relabelled(pager, pager'))
  BY DEF Settled
<1>3. NoChord.digits = NoDigits
  BY DEF NoChord
<1> QED BY <1>1, <1>2, <1>3 DEF Relabelled, LabelsStand

LEMMA LookingKeeps == StripInv /\ LooksAgain => StripInv'
<1> SUFFICES ASSUME StripInv, LooksAgain PROVE StripInv'
  OBVIOUS
<1>1. HomeStands(set) /\ Typed /\ LabelsStand
  BY DEF StripInv, IInv, Sound, Frame
<1>2. PICK P \in Pagers : P.last_view = pager.last_view /\ pager' = Refreshed(set, P)
  BY DEF LooksAgain
<1>3. /\ pager' \in Pagers /\ pager'.last_view = View(set, pager')
      /\ chord' \in {chord, NoChord}
      /\ chord'.digits # NoDigits =>
           chord'.labels = pager'.last_view /\ pager'.last_view # NoView
  BY <1>1, <1>2, SettledStands DEF LooksAgain
<1>4. UNCHANGED <<set, power, strip, on_air, doing, picker, find>>
  BY DEF LooksAgain
<1>5. NoChord.digits = NoDigits /\ NoChord.deadline = FALSE
  BY DEF NoChord
<1>6. IInv' /\ QuietWhileOff'
  BY <1>3, <1>4 DEF StripInv, IInv, QuietWhileOff
<1>7. Typed'
  BY <1>3, <1>4, <1>5 DEF StripInv, Typed
<1>8. LabelsStand'
  BY <1>3, <1>4 DEF LabelsStand
<1>9. LineStands' /\ PickerStands'
  BY <1>4 DEF StripInv, LineStands, PickerStands
<1> QED BY <1>6, <1>7, <1>8, <1>9 DEF StripInv

\* The pointer, with the set where it was.
StripMoves ==
  /\ UNCHANGED <<vars, pager, chord, on_air, doing, picker, find>>
  /\ strip' \in [held : BOOLEAN, target : Slot \cup {0}]
  /\ strip'.held => strip.held

LEMMA StripMovesKeep == StripInv /\ StripMoves => StripInv'
<1> SUFFICES ASSUME StripInv, StripMoves PROVE StripInv'
  OBVIOUS
<1>1. UNCHANGED <<set, power, pager, chord, on_air, doing, picker, find>>
  BY DEF StripMoves, vars
<1>2. IInv' /\ QuietWhileOff'
  BY <1>1 DEF StripInv, IInv, QuietWhileOff, StripMoves
<1>3. Typed'
  BY <1>1 DEF StripInv, Typed, StripMoves
<1>4. LabelsStand'
  BY <1>1 DEF StripInv, LabelsStand
<1>5. LineStands' /\ PickerStands'
  BY <1>1 DEF StripInv, LineStands, PickerStands
<1> QED BY <1>2, <1>3, <1>4, <1>5 DEF StripInv

\* A digit that waits for another.
DigitWaits ==
  /\ power = "on" /\ doing = "none"
  /\ UNCHANGED <<vars, pager, strip, on_air, doing, picker, find>>
  /\ chord'.digits \in 1 .. CHANNEL_CAP - 1 /\ chord'.deadline = TRUE
  /\ chord'.labels = IF chord.digits = NoDigits THEN View(set, pager) ELSE chord.labels

LEMMA WaitingKeeps == StripInv /\ DigitWaits => StripInv'
<1> SUFFICES ASSUME StripInv, DigitWaits PROVE StripInv'
  OBVIOUS
<1>1. UNCHANGED <<set, power, pager, strip, on_air, doing, picker, find>>
  BY DEF DigitWaits, vars
<1>2. IInv' /\ QuietWhileOff'
  BY <1>1 DEF StripInv, IInv, QuietWhileOff, DigitWaits
<1>3. Typed'
  BY <1>1 DEF StripInv, Typed, DigitWaits
<1>4. LabelsStand'
  <2>1. View(set, pager) # NoView /\ pager.last_view = View(set, pager)
    BY ViewIsAPage DEF StripInv, IInv, Sound, Frame, Typed, LabelsStand, DigitWaits
  <2>2. chord'.labels = pager.last_view
    BY <2>1 DEF DigitWaits, StripInv, LabelsStand
  <2> QED BY <1>1, <2>1, <2>2 DEF LabelsStand
<1>5. LineStands' /\ PickerStands'
  BY <1>1 DEF StripInv, LineStands, PickerStands
<1> QED BY <1>2, <1>3, <1>4, <1>5 DEF StripInv

\* What takes the keyboard, with the air where it was: an end of an attachment
\* read, the find line raised over the row on the air or let go.
LEMMA LinesKeep ==
  ASSUME StripInv, doing = "none", OpenFind \/ FindEscape \/ Key,
         UNCHANGED <<pager, chord, strip, on_air, doing>>
  PROVE  StripInv' /\ WiresKept(set, set')
<1>0. Sound(set) /\ set \in Sets /\ power = "on" /\ power' = "on" /\ on_air = OnAir(set)
  BY DEF StripInv, IInv, Sound, Frame, Typed, OpenFind, FindEscape, Key, On
<1>1. /\ set' \in Sets /\ set'.manager = set.manager /\ set'.carrier = set.carrier
      /\ set'.row = set.row /\ set'.nextBankId = set.nextBankId
      /\ set'.currentBank = set.currentBank /\ set'.channel = set.channel
  BY <1>0 DEF OpenFind, FindEscape, Key, Sets
<1>2. Sound(set') /\ WiresKept(set, set') /\ OnAir(set') = OnAir(set) /\ Rows(set') = Rows(set)
  BY <1>0, <1>1, SoundKept, WiresSame DEF OnAir, Held, Rows, Open
<1>3. IInv' /\ QuietWhileOff'
  BY <1>0, <1>2 DEF IInv, QuietWhileOff
<1>4. Typed'
  BY <1>2 DEF StripInv, Typed
<1>5. LabelsStand'
  <2>1. View(set', pager) = View(set, pager)
    BY <1>1, ViewSame
  <2>2. pager.last_view = View(set, pager)
    BY <1>0 DEF StripInv, LabelsStand
  <2> QED BY <2>1, <2>2 DEF StripInv, LabelsStand
<1>6. LineStands'
  <2>1. CASE find' = find
    BY <1>1, <1>2, <2>1 DEF StripInv, LineStands
  <2>2. CASE find' = NoFind
    BY <2>2 DEF LineStands
  <2>3. CASE OpenFind
    <3>1. /\ find'.on = OnAir(set) /\ find'.screen = set.row[OnAir(set)]
          /\ OnAir(set) \in Rows(set)
      BY <2>3 DEF OpenFind
    <3>2. find'.on \in Pair /\ find'.screen # Dark
      BY <3>1 DEF Rows, Open
    <3> QED BY <1>0, <1>1, <3>1, <3>2 DEF LineStands
  <2> QED BY <2>1, <2>2, <2>3 DEF FindEscape, Key
<1>7. PickerStands'
  <2>1. picker' = picker \/ picker' = 0 \/ PageRow \in Rows(set)
    BY DEF OpenFind, FindEscape, Key, Remembered
  <2>2. picker' # 0 => picker # 0 \/ Rows(set) # {}
    BY <2>1
  <2> QED BY <1>2, <2>2 DEF StripInv, PickerStands
<1> QED BY <1>2, <1>3, <1>4, <1>5, <1>6, <1>7 DEF StripInv

-----------------------------------------------------------------------------
(***************************************************************************)
(* The pump, and channel_changed.                                          *)
(***************************************************************************)
LEMMA PumpKeeps ==
  ASSUME StripInv, Pumped, UNCHANGED keyboardVars
  PROVE  StripInv' /\ WiresKept(set, set')
<1>1. GatewayCall \/ \E p \in Pair : RowCall(p)
  BY DEF Pumped, Rows
<1>2. IInv /\ power = "on" /\ power' # "off" /\ [Next]_vars
  BY <1>1 DEF StripInv, Next, GatewayCall, RowCall, WindowOpened, WindowClosed, Settle, Collapse,
              AttachFound, SessionDied, Attach, On
<1>3. IInv' /\ WiresKept(set, set')
  BY <1>2, StepKeeps, WiresStep
<1>4. Drifts(set, set') /\ StaysLit(set, set')
  BY <1>1, <1>2, PumpDrifts
<1>5. /\ doing' = "pump" /\ doing \in {"none", "pump"}
      /\ UNCHANGED <<pager, chord, strip, on_air, picker, find>>
  BY DEF Pumped, keyboardVars
<1>6. QuietWhileOff' /\ Typed'
  BY <1>2, <1>5 DEF StripInv, QuietWhileOff, Typed
<1>7. LabelsStand' /\ PickerStands'
  BY <1>4, <1>5 DEF StripInv, LabelsStand, PickerStands, StaysLit
<1>8. LineStands'
  <2> SUFFICES ASSUME find # NoFind
               PROVE  /\ find.on = on_air /\ find.on \in Pair /\ find.screen # Dark
                      /\ set'.manager[find.on[1]] # "tmux" =>
                           \/ set'.row[find.on] = find.screen
                           \/ OnAir(set') # find.on /\ set'.row[find.on] = Dark
    BY <1>5 DEF LineStands
  <2>1. /\ find.on = on_air /\ find.on \in Pair /\ find.screen # Dark
        /\ set.manager[find.on[1]] # "tmux" =>
             \/ set.row[find.on] = find.screen
             \/ OnAir(set) # find.on /\ set.row[find.on] = Dark
    BY <1>5 DEF StripInv, LineStands
  <2> QED BY <1>4, <2>1 DEF Drifts, Rows, Open
<1> QED BY <1>3, <1>6, <1>7, <1>8 DEF StripInv

LEMMA ChangedKeeps ==
  ASSUME StripInv, ChannelChanged
  PROVE  StripInv' /\ WiresKept(set, set')
<1>0. Sound(set) /\ set \in Sets /\ HomeStands(set) /\ Typed /\ LabelsStand
  BY DEF StripInv, IInv, Sound, Frame
<1>1. /\ set' \in Sets /\ set'.manager = set.manager /\ set'.carrier = set.carrier
      /\ set'.row = set.row /\ set'.nextBankId = set.nextBankId
      /\ set'.currentBank = set.currentBank /\ set'.channel = set.channel
  BY <1>0 DEF ChannelChanged, Sets
<1>2. Sound(set') /\ WiresKept(set, set') /\ OnAir(set') = OnAir(set) /\ Rows(set') = Rows(set)
  BY <1>0, <1>1, SoundKept, WiresSame DEF OnAir, Held, Rows, Open
<1>3. power # "off" /\ UNCHANGED <<power, strip, picker>> /\ doing' = "none" /\ on_air' = OnAir(set)
  BY DEF StripInv, QuietWhileOff, ChannelChanged
<1>4. PICK P \in Pagers : P.last_view = pager.last_view /\ pager' = Refreshed(set, P)
  BY <1>0, EnsureVisibleFacts DEF ChannelChanged, Typed
<1>5. /\ pager' \in Pagers /\ pager'.last_view = View(set, pager')
      /\ chord' \in {chord, NoChord}
      /\ chord'.digits # NoDigits =>
           chord'.labels = pager'.last_view /\ pager'.last_view # NoView
  BY <1>0, <1>4, SettledStands DEF ChannelChanged
<1>6. View(set', pager') = View(set, pager')
  BY <1>1, ViewSame
<1>7. NoChord.digits = NoDigits /\ NoChord.deadline = FALSE
  BY DEF NoChord
<1>8. IInv' /\ QuietWhileOff'
  BY <1>2, <1>3 DEF StripInv, IInv, QuietWhileOff
<1>9. Typed'
  BY <1>2, <1>3, <1>5, <1>7 DEF StripInv, Typed
<1>10. LabelsStand'
  BY <1>5, <1>6 DEF LabelsStand
<1>11. LineStands'
  <2>1. CASE on_air # OnAir(set)
    BY <2>1 DEF ChannelChanged, FindLeft, LineStands
  <2>2. CASE on_air = OnAir(set)
    <3>1. find' = find
      BY <2>2 DEF ChannelChanged, FindLeft
    <3> QED BY <1>1, <1>2, <1>3, <2>2, <3>1 DEF StripInv, LineStands
  <2> QED BY <2>1, <2>2
<1>12. PickerStands'
  BY <1>2, <1>3 DEF StripInv, PickerStands
<1> QED BY <1>2, <1>8, <1>9, <1>10, <1>11, <1>12 DEF StripInv

-----------------------------------------------------------------------------
(***************************************************************************)
(* Every action is one of these.                                           *)
(***************************************************************************)
\* A handler whose only business is the set.
LEMMA HandlerIs ==
  ASSUME StripInv, doing = "none", doing' = "handler", Handled(set, set'),
         power' \in {"on", "closing"}, UNCHANGED <<pager, on_air, keyboardVars>>,
         chord' \in {chord, NoChord}, strip' \in [held : BOOLEAN, target : Slot \cup {0}]
  PROVE  HandlerStep
BY DEF HandlerStep, StripInv, Typed, keyboardVars

\* The slots and banks the view names.
LEMMA OnView ==
  ASSUME StripInv
  PROVE  /\ Sound(set) /\ pager \in Pagers /\ strip \in [held : BOOLEAN, target : Slot \cup {0}]
         /\ View(set, pager) \in Views /\ View(set, pager)[1] \in BankId
         /\ \A n \in Int : AbsoluteSlot(View(set, pager), n) \in Slot \cup {0}
<1>1. Sound(set) /\ pager \in Pagers /\ strip \in [held : BOOLEAN, target : Slot \cup {0}]
  BY DEF StripInv, IInv, Typed
<1>2. View(set, pager) \in Views
  BY <1>1, ViewIsAPage DEF Sound, Frame
<1>3. View(set, pager)[1] \in BankId
  BY <1>2 DEF Views
<1> QED BY <1>1, <1>2, <1>3, AbsoluteSlotFacts

\* The chord commits once there is a digit, and none is typed before the start.
LEMMA CommitIs ==
  ASSUME StripInv, doing = "none", Commit, chord.digits # NoDigits \/ chord.deadline,
         UNCHANGED <<power, pager, on_air, keyboardVars>>,
         strip' \in [held : BOOLEAN, target : Slot \cup {0}]
  PROVE  HandlerStep
<1>1. Sound(set) /\ pager \in Pagers
  BY OnView
<1>2. chord.digits \in Int
  BY ChannelsAssumption DEF StripInv, Typed, NoDigits
<1>3. Handled(set, set') /\ doing' = "handler"
  BY <1>1, <1>2, ChordHandled DEF Commit
<1>4. power' \in {"on", "closing"}
  BY DEF StripInv, IInv, QuietWhileOff, NoChord
<1> QED BY <1>3, <1>4, HandlerIs DEF Commit

LEMMA KeyIs ==
  ASSUME StripInv, Keys, UNCHANGED keyboardVars
  PROVE  HandlerStep \/ LooksAgain \/ DigitWaits
<1>0. /\ Sound(set) /\ pager \in Pagers /\ strip \in [held : BOOLEAN, target : Slot \cup {0}]
      /\ View(set, pager) \in Views /\ View(set, pager)[1] \in BankId
  BY OnView
<1>1. CASE SwitchedOn
  <2>1. Start /\ doing = "none" /\ doing' = "handler" /\ UNCHANGED <<pager, on_air, chord, strip>>
    BY <1>1 DEF SwitchedOn, Handler
  <2>2. set = New /\ IInv /\ power' = "on"
    BY <2>1 DEF StripInv, QuietWhileOff, Start
  <2>3. Handled(set, set')
    BY <2>1, <2>2, StartHandled
  <2> QED BY <1>0, <2>1, <2>2, <2>3, HandlerIs
<1>2. ASSUME UserCall, power' \in {"on", "closing"}, doing = "none", doing' = "handler",
             UNCHANGED <<pager, on_air, chord, strip>>
      PROVE  HandlerStep
  <2>1. Handled(set, set')
    BY <1>0, <1>2, UserHandled
  <2> QED BY <1>0, <1>2, <2>1, HandlerIs
<1>3. CASE NewChannelOnView
  BY <1>0, <1>2, <1>3 DEF NewChannelOnView, Handler, UserCall, OpenSshChannel, NewChannel, OpenSsh, On
<1>4. CASE CloseOnAir
  BY <1>2, <1>4 DEF CloseOnAir, Handler, UserCall, CloseChannel, CloseRow
<1>5. CASE Cycled
  BY <1>2, <1>5 DEF Cycled, Handler, UserCall, CycleOpen, On
<1>6. CASE MoveChannel
  <2>1. /\ doing = "none" /\ doing' = "handler" /\ UNCHANGED <<pager, on_air, chord, strip>>
        /\ power' = "on" /\ \E c \in Slot : set' = Stored(set.currentBank, c)
    BY <1>6 DEF MoveChannel, Handler, On
  <2>2. set.currentBank \in BankId
    BY <1>0 DEF Sound, Frame, Sets
  <2>3. Handled(set, set')
    BY <1>0, <2>1, <2>2, StoredHandled
  <2> QED BY <1>0, <2>1, <2>3, HandlerIs
<1>7. ASSUME NEW d \in {-1, 1}, StepBank(d) PROVE HandlerStep \/ LooksAgain
  <2> DEFINE stepped == [pager EXCEPT !.page_index = SteppedTo(d)]
             landed  == View(set, stepped)[1]
  <2>1. SteppedTo(d) \in Nat
    <3>1. pager.page_index + d \in Int
      BY <1>0, <1>7 DEF Pagers
    <3> QED BY <3>1, PagesFinite, ClampedFacts DEF SteppedTo
  <2>2. stepped \in Pagers /\ stepped.last_view = pager.last_view
    BY <1>0, <2>1 DEF Pagers
  <2>3. landed \in BankId /\ Held(set, landed)
    BY <1>0, <2>2, ViewIsAPage DEF Sound, Frame, Views
  <2>4. power = "on" /\ doing = "none" /\ UNCHANGED <<power, strip, on_air>>
    BY <1>7 DEF StepBank
  <2>5. CASE landed = View(set, pager)[1]
    <3>1. pager' = Refreshed(set, stepped) /\ chord' = Settled(pager') /\ UNCHANGED <<set, doing>>
      BY <1>7, <2>5 DEF StepBank
    <3> HIDE DEF stepped
    <3> QED BY <2>2, <2>4, <3>1 DEF LooksAgain, keyboardVars
  <2>6. CASE landed # View(set, pager)[1]
    <3>1. pager' = stepped /\ set' = SelectBank(set, landed) /\ doing' = "handler" /\ chord' = chord
      BY <1>7, <2>6 DEF StepBank
    <3> HIDE DEF stepped, landed
    <3>2. Handled(set, set')
      BY <1>0, <2>3, <3>1, HandledBank
    <3> QED BY <1>0, <2>2, <2>4, <3>1, <3>2 DEF HandlerStep, keyboardVars
  <2> QED BY <2>5, <2>6
<1>8. ASSUME NEW d \in 0 .. Radix - 1, NEW asked \in BOOLEAN, ChordDigit(d, asked)
      PROVE  HandlerStep \/ DigitWaits
  <2> DEFINE first == chord.digits = NoDigits
             store == IF first THEN asked ELSE chord.store
             buf   == IF first THEN d ELSE chord.digits * Radix + d
  <2>1. power = "on" /\ doing = "none" /\ UNCHANGED <<power, pager, strip, on_air>>
    BY <1>8 DEF ChordDigit
  <2>2. CASE SlotPrefixExists(buf, store)
    <3>1. buf \in 1 .. CHANNEL_CAP - 1
      BY <1>0, <2>2, WaitingFacts DEF Sound, Frame
    <3>2. /\ chord' = Waiting(buf, store, IF first THEN View(set, pager) ELSE chord.labels)
          /\ UNCHANGED <<set, doing>>
      BY <1>8, <2>2 DEF ChordDigit
    <3> HIDE DEF buf, store
    <3> QED BY <2>1, <3>1, <3>2 DEF DigitWaits, Waiting, keyboardVars, vars
  <2>3. CASE ~SlotPrefixExists(buf, store)
    <3>1. chord.digits \in Int /\ Radix \in Int /\ d \in Int
      BY ChannelsAssumption, StripAssumption DEF StripInv, Typed, NoDigits
    <3>2. buf \in Int
      BY <3>1
    <3>3. ApplyChord(buf, store) /\ chord' = NoChord
      BY <1>8, <2>3 DEF ChordDigit
    <3> HIDE DEF buf, store
    <3>4. Handled(set, set') /\ doing' = "handler"
      BY <1>0, <3>2, <3>3, ChordHandled
    <3> QED BY <1>0, <2>1, <3>3, <3>4, HandlerIs
  <2> QED BY <2>2, <2>3
<1>9. CASE ModifierReleased
  BY <1>0, <1>9, CommitIs DEF ModifierReleased, Handler
<1> QED BY <1>1, <1>3, <1>4, <1>5, <1>6, <1>7, <1>8, <1>9 DEF Keys

LEMMA PointerIs ==
  ASSUME StripInv, Pointer, UNCHANGED keyboardVars
  PROVE  HandlerStep \/ StripMoves
<1> DEFINE V == View(set, pager)
<1>0. /\ Sound(set) /\ pager \in Pagers /\ strip \in [held : BOOLEAN, target : Slot \cup {0}]
      /\ V \in Views /\ V[1] \in BankId
  BY OnView
<1>1. strip.held => power \in {"on", "closing"}
  BY DEF StripInv, IInv, QuietWhileOff
<1>2. \A n \in Slot \cup {0} : AbsoluteSlot(V, n) \in Slot \cup {0}
  BY OnView, ChannelsAssumption DEF Slot
<1>3. ASSUME NEW n \in Slot, StripPressed(n) PROVE HandlerStep
  <2> DEFINE b == V[1]
             c == AbsoluteSlot(V, n)
  <2>1. /\ doing = "none" /\ doing' = "handler" /\ c # 0
        /\ \/ Select(<<b, c>>) \/ OpenHome(c) \/ OpenSshChannel(b, c) \/ AskSlot(b, c)
        /\ strip' = [strip EXCEPT !.held = Open(set, <<b, c>>)]
        /\ UNCHANGED <<pager, chord, on_air>>
    BY <1>3 DEF StripPressed
  <2>2. c \in Slot /\ b \in BankId /\ <<b, c>> \in Pair
    BY <1>0, <1>2, <2>1 DEF Pair
  <2>3. Open(set, <<b, c>>) \in BOOLEAN
    BY DEF Open
  <2> HIDE DEF V, b, c
  <2>4. UserCall /\ power' = "on"
    BY <2>1, <2>2 DEF UserCall, Select, OpenHome, OpenSshChannel, AskSlot, On
  <2>5. Handled(set, set')
    BY <1>0, <2>4, UserHandled
  <2>6. strip' \in [held : BOOLEAN, target : Slot \cup {0}]
    BY <1>0, <2>1, <2>3
  <2> QED BY <2>1, <2>4, <2>5, <2>6, HandlerIs
<1>4. ASSUME NEW n \in Slot \cup {0}, StripDragged(n) PROVE StripMoves
  <2>1. strip'.held = strip.held /\ strip' \in [held : BOOLEAN, target : Slot \cup {0}]
    BY <1>0, <1>2, <1>4 DEF StripDragged
  <2> QED BY <1>4, <2>1 DEF StripDragged, StripMoves, keyboardVars
<1>5. NotHeld \in [held : BOOLEAN, target : Slot \cup {0}] /\ NotHeld.held = FALSE
  BY DEF NotHeld
<1>6. CASE StripReleased
  <2>1. strip.held /\ doing = "none" /\ strip' = NotHeld /\ UNCHANGED <<power, pager, chord, on_air>>
    BY <1>6 DEF StripReleased
  <2>2. CASE strip.target = 0
    <3>1. UNCHANGED <<set, doing>>
      BY <1>6, <2>2 DEF StripReleased
    <3> QED BY <1>5, <2>1, <3>1 DEF StripMoves, keyboardVars, vars
  <2>3. CASE strip.target # 0
    <3>1. set' = Stored(V[1], strip.target) /\ doing' = "handler"
      BY <1>6, <2>3 DEF StripReleased
    <3>2. Handled(set, set')
      BY <1>0, <3>1, StoredHandled
    <3> QED BY <1>1, <1>5, <2>1, <3>1, <3>2, HandlerIs
  <2> QED BY <2>2, <2>3
<1>7. CASE FocusLost
  <2>1. doing = "none" /\ strip' = NotHeld /\ UNCHANGED <<power, pager, on_air>>
    BY <1>7 DEF FocusLost
  <2>2. CASE chord.digits = NoDigits
    <3>1. UNCHANGED <<set, chord, doing>>
      BY <1>7, <2>2 DEF FocusLost
    <3> QED BY <1>5, <2>1, <3>1 DEF StripMoves, keyboardVars, vars
  <2>3. CASE chord.digits # NoDigits
    <3>1. Commit
      BY <1>7, <2>3 DEF FocusLost
    <3> QED BY <1>5, <2>1, <2>3, <3>1, CommitIs
  <2> QED BY <2>2, <2>3
<1> QED BY <1>3, <1>4, <1>6, <1>7 DEF Pointer

LEMMA RowsAre ==
  ASSUME StripInv, SettleRows, UNCHANGED keyboardVars
  PROVE  LooksAgain
<1>0. /\ set \in Sets /\ pager \in Pagers
  BY DEF StripInv, IInv, Sound, Frame, Typed
<1>1. PICK n \in RowCounts :
        pager' = Refreshed(set, EnsureVisible(set, [pager EXCEPT !.rows_visible = n]))
  BY DEF SettleRows
<1>2. [pager EXCEPT !.rows_visible = n] \in Pagers
      /\ [pager EXCEPT !.rows_visible = n].last_view = pager.last_view
  BY <1>0, StripAssumption DEF Pagers
<1> DEFINE P == EnsureVisible(set, [pager EXCEPT !.rows_visible = n])
<1>3. P \in Pagers /\ P.last_view = pager.last_view
  BY <1>0, <1>2, EnsureVisibleFacts
<1>4. pager' = Refreshed(set, P)
  BY <1>1
<1> HIDE DEF P
<1> QED BY <1>3, <1>4 DEF SettleRows, LooksAgain, keyboardVars, vars

LEMMA PickerIs ==
  ASSUME StripInv, Handler(PickerCall), UNCHANGED chord
  PROVE  HandlerStep
<1>1. /\ doing = "none" /\ doing' = "handler" /\ UNCHANGED <<pager, strip, on_air, chord>>
      /\ PickerCall
  BY DEF Handler
<1>2. Sound(set) /\ pager \in Pagers /\ strip \in [held : BOOLEAN, target : Slot \cup {0}]
  BY OnView
<1>3. Handled(set, set') /\ (picker' = 0 \/ picker' = picker \/ Rows(set') # {})
  BY <1>1, <1>2, PickerHandled
<1>4. find' = find /\ power' \in {"on", "closing"}
  BY <1>1 DEF PickerCall, OpenPicker, ChooseLocalhost, ChooseHost, Cancel, Retire, CloseRow, On
<1> QED BY <1>1, <1>2, <1>3, <1>4 DEF HandlerStep

LEMMA StripStart == StripInit => StripInv
<1> SUFFICES ASSUME StripInit PROVE StripInv
  OBVIOUS
<1>1. IInv /\ set = New /\ power = "off"
  BY InitIInv DEF StripInit, Init
<1>2. /\ chord = NoChord /\ strip = NotHeld /\ on_air = OnAir(set) /\ doing = "none"
      /\ find = NoFind /\ picker = 0
      /\ pager = [rows_visible |-> CHANNEL_CAP, page_index |-> 0, last_view |-> NoView]
  BY DEF StripInit, KeyboardInit
<1>3. Typed
  BY <1>2, ChannelsAssumption DEF Typed, Pagers, NoChord, NotHeld
<1>4. QuietWhileOff
  BY <1>1, <1>2 DEF QuietWhileOff, NotHeld
<1>5. LabelsStand /\ LineStands /\ PickerStands
  BY <1>1, <1>2 DEF LabelsStand, NoChord, LineStands, PickerStands
<1> QED BY <1>1, <1>3, <1>4, <1>5 DEF StripInv

LEMMA StripStep ==
  StripInv /\ [StripNext]_stripVars => StripInv' /\ WiresKept(set, set')
<1> SUFFICES ASSUME StripInv, [StripNext]_stripVars
             PROVE  StripInv' /\ WiresKept(set, set')
  OBVIOUS
<1>1. ASSUME HandlerStep PROVE StripInv' /\ WiresKept(set, set')
  BY <1>1, HandlerKeeps DEF HandlerStep, Handled
<1>2. ASSUME LooksAgain PROVE StripInv' /\ WiresKept(set, set')
  BY <1>2, LookingKeeps, WiresSame DEF LooksAgain
<1>3. ASSUME StripMoves PROVE StripInv' /\ WiresKept(set, set')
  BY <1>3, StripMovesKeep, WiresSame DEF StripMoves, vars
<1>4. ASSUME DigitWaits PROVE StripInv' /\ WiresKept(set, set')
  BY <1>4, WaitingKeeps, WiresSame DEF DigitWaits, vars
<1>5. CASE Keys /\ UNCHANGED keyboardVars
  BY <1>1, <1>2, <1>4, <1>5, KeyIs
<1>6. CASE Pointer /\ UNCHANGED keyboardVars
  BY <1>1, <1>3, <1>6, PointerIs
<1>7. CASE SettleRows /\ UNCHANGED keyboardVars
  BY <1>2, <1>7, RowsAre
<1>8. CASE Pumped /\ UNCHANGED keyboardVars
  BY <1>8, PumpKeeps
<1>9. CASE Tick /\ UNCHANGED keyboardVars
  <2>1. /\ chord.deadline /\ doing = "none" /\ Commit
        /\ UNCHANGED <<power, pager, strip, on_air>>
    BY <1>9 DEF Tick, Handler
  <2> QED BY <1>1, <1>9, <2>1, OnView, CommitIs
<1>10. CASE Lines
  <2>1. CASE Handler(PickerCall) /\ UNCHANGED chord
    BY <1>1, <2>1, PickerIs
  <2>2. CASE ~(Handler(PickerCall) /\ UNCHANGED chord)
    BY <1>10, <2>2, LinesKeep DEF Lines
  <2> QED BY <2>1, <2>2
<1>11. CASE ChannelChanged
  BY <1>11, ChangedKeeps
<1>12. CASE UNCHANGED stripVars
  <2>1. StripMoves
    BY <1>12, OnView DEF stripVars, keyboardVars, StripMoves
  <2> QED BY <1>3, <2>1
<1> QED BY <1>5, <1>6, <1>7, <1>8, <1>9, <1>10, <1>11, <1>12 DEF StripNext

\* The window ends on a set no channel was just opened in.
LEMMA EndsOnWhatStood ==
  StripInv /\ [StripNext]_stripVars /\ power = "on" /\ power' = "closing"
    => Rows(set') \subseteq Rows(set)
<1> SUFFICES ASSUME StripInv, [StripNext]_stripVars, power = "on", power' = "closing"
             PROVE  Rows(set') \subseteq Rows(set)
  OBVIOUS
<1>0. Sound(set) /\ set \in Sets /\ Fresh \subseteq Session /\ 0 \in BankId
  BY ChannelsAssumption DEF StripInv, IInv, Sound, Frame, Fresh, BankId
<1>1. CASE Keys
  <2>1. CloseChannel
    BY <1>1 DEF Keys, SwitchedOn, NewChannelOnView, CloseOnAir, Cycled, MoveChannel, StepBank,
                ChordDigit, ModifierReleased, Handler, Start, OpenSshChannel, NewChannel,
                OpenSsh, CycleOpen, On
  <2>2. set' = set
    BY <2>1 DEF CloseChannel, CloseRow
  <2> QED BY <2>2
<1>2. CASE Pumped
  <2>1. PICK p \in Pair : SessionDied(p)
    BY <1>2 DEF Pumped, GatewayCall, WindowOpened, WindowClosed, Settle, Collapse, AttachFound,
                RowCall, Attach, On, Rows
  <2>2. set' = CarrierDown(set, p)
    BY <2>1 DEF SessionDied
  <2>3. Pruned(set, set')
    BY <1>0, <2>2, CarrierDownPrunes
  <2> QED BY <2>3 DEF Pruned, Rows, Open
<1>3. CASE Lines
  <2>1. PickerCall /\ ~OpenPicker
    BY <1>3 DEF Lines, Handler, PickerCall, OpenPicker, OpenFind, FindEscape, Key, On
  <2>2. CASE Retire(set)
    BY <2>2 DEF Retire, CloseRow
  <2>3. CASE ~Retire(set)
    <3>1. picker # 0 /\ OnAir(set) = PageRow
      BY <2>1, <2>3 DEF PickerCall, ChooseLocalhost, ChooseHost, Cancel, OnPage
    <3>2. Rows(set) # {}
      BY <3>1 DEF StripInv, PickerStands
    <3>3. \A U : Retire(U) => PageRow \in Rows(U) /\ OneAnchored(U)
      BY DEF Retire, CloseRow
    <3>4. CASE ChooseLocalhost
      <4> DEFINE c == FirstFree(set, 0)
      <4>1. PICK s \in Fresh : c # 0 /\ Retire(OpenChannel(set, c, s))
        BY <2>3, <3>4 DEF ChooseLocalhost
      <4>2. c \in Slot \ Slots(set, 0)
        BY <4>1, FirstFreeFacts
      <4> HIDE DEF c
      <4>3. <<0, c>>[1] \notin Served(set) /\ ~Open(set, <<0, c>>)
        BY <1>0, <4>2 DEF Sound, Frame, HomeStands, Served, Slots
      <4>4. /\ <<0, c>> \in Pair /\ Sound(OpenChannel(set, c, s))
            /\ OpensOn(set, OpenChannel(set, c, s), <<0, c>>, s)
        BY <1>0, <4>1, <4>2, OpenedAtHome DEF Handled
      <4> QED BY <1>0, <3>1, <3>2, <3>3, <4>1, <4>3, <4>4, PageIsNotTheLast
    <3>5. CASE ChooseHost
      <4> DEFINE first == <<set.nextBankId, 1>>
      <4>1. PICK s \in Fresh : set.nextBankId <= MaxBank /\ Retire(OpenSshBank(set, s))
        BY <2>3, <3>5 DEF ChooseHost, CanRaise
      <4>2. first[1] \notin Served(set) /\ ~Open(set, first)
        BY <1>0, <4>1, SshAir
      <4>3. /\ first \in Pair /\ Sound(OpenSshBank(set, s))
            /\ OpensOn(set, OpenSshBank(set, s), first, s)
        BY <1>0, <4>1, OpenedSsh DEF Handled
      <4> HIDE DEF first
      <4> QED BY <1>0, <3>1, <3>2, <3>3, <4>1, <4>2, <4>3, PageIsNotTheLast
    <3> QED BY <2>1, <2>3, <3>4, <3>5 DEF PickerCall, Cancel
  <2> QED BY <2>2, <2>3
<1>4. ASSUME Pointer \/ SettleRows \/ Tick \/ ChannelChanged \/ UNCHANGED stripVars PROVE FALSE
  BY <1>4 DEF Pointer, StripPressed, StripDragged, StripReleased, FocusLost, Select, OpenHome,
              OpenSshChannel, AskSlot, On, SettleRows, Tick, Handler, ChannelChanged, stripVars, vars
<1> QED BY <1>1, <1>2, <1>3, <1>4 DEF StripNext

-----------------------------------------------------------------------------
(***************************************************************************)
(* The invariant holds throughout.                                         *)
(***************************************************************************)
THEOREM StripInvariant == StripSpec => []StripInv
BY StripStart, StripStep, PTL DEF StripSpec

LEMMA AirIsSought == StripInv /\ [StripNext]_stripVars => AirComesToView
<1> SUFFICES ASSUME StripInv, [StripNext]_stripVars,
                    on_air' # on_air \/ pager'.rows_visible # pager.rows_visible,
                    Open(set', OnAir(set'))
             PROVE  ShowsSlot(set', pager', View(set', pager'), OnAir(set'))
  BY DEF AirComesToView
<1>1. Sound(set) /\ set \in Sets /\ pager \in Pagers
  BY DEF StripInv, IInv, Sound, Frame, Typed
<1>2. CASE ChannelChanged
  <2>1. on_air # OnAir(set)
    BY <1>1, <1>2 DEF ChannelChanged, Refreshed, Pagers
  <2>2. pager' = Refreshed(set, EnsureVisible(set, pager))
    BY <1>2, <2>1 DEF ChannelChanged
  <2>3. /\ set'.manager = set.manager /\ set'.row = set.row /\ set'.channel = set.channel
        /\ set'.currentBank = set.currentBank
    BY <1>1, <1>2 DEF ChannelChanged, Sets
  <2>4. OnAir(set') = OnAir(set) /\ Open(set, OnAir(set))
    BY <2>3 DEF OnAir, Held, Open
  <2>5. View(set', pager') = View(set, pager')
    BY <2>3, ViewSame
  <2>6. \A b : PageRows(set', pager', b) = PageRows(set, pager', b)
    BY <2>3 DEF PageRows
  <2>7. ShowsSlot(set, pager', View(set, pager'), OnAir(set))
    BY <1>1, <2>2, <2>4, SeeksTheAir
  <2> QED BY <2>4, <2>5, <2>6, <2>7 DEF ShowsSlot, RowsOnPage
<1>3. CASE SettleRows
  <2>1. PICK n \in RowCounts :
          pager' = Refreshed(set, EnsureVisible(set, [pager EXCEPT !.rows_visible = n]))
    BY <1>3 DEF SettleRows
  <2>2. [pager EXCEPT !.rows_visible = n] \in Pagers
    BY <1>1, StripAssumption DEF Pagers
  <2>3. set' = set
    BY <1>3 DEF SettleRows, vars
  <2>4. Open(set, OnAir(set))
    BY <2>3
  <2>5. ShowsSlot(set, pager', View(set, pager'), OnAir(set))
    BY <1>1, <2>1, <2>2, <2>4, SeeksTheAir
  <2> QED BY <2>3, <2>5
<1>4. CASE (Keys \/ Pointer \/ Pumped \/ Tick) /\ UNCHANGED keyboardVars
  <2>1. CASE \E d \in {-1, 1} : StepBank(d)
    <3>1. PICK d \in {-1, 1} : StepBank(d)
      BY <2>1
    <3> DEFINE stepped == [pager EXCEPT !.page_index = SteppedTo(d)]
    <3>2. /\ stepped.rows_visible = pager.rows_visible
          /\ Refreshed(set, stepped).rows_visible = pager.rows_visible
      BY <1>1 DEF Pagers, Refreshed
    <3>3. on_air' = on_air /\ (pager' = stepped \/ pager' = Refreshed(set, stepped))
      BY <3>1 DEF StepBank
    <3> HIDE DEF stepped
    <3> QED BY <3>2, <3>3
  <2>2. CASE ~\E d \in {-1, 1} : StepBank(d)
    <3>1. on_air' = on_air /\ pager' = pager
      BY <1>4, <2>2 DEF Keys, SwitchedOn, NewChannelOnView, CloseOnAir, Cycled, MoveChannel,
         ModifierReleased, ChordDigit, Handler, Pointer, StripPressed, StripDragged,
         StripReleased, FocusLost, Pumped, Tick
    <3> QED BY <3>1
  <2> QED BY <2>1, <2>2
<1>5. CASE Lines
  BY <1>5 DEF Lines, Handler
<1>6. CASE UNCHANGED stripVars
  BY <1>6 DEF stripVars
<1> QED BY <1>2, <1>3, <1>4, <1>5, <1>6 DEF StripNext

(***************************************************************************)
(* For every page height, one page and no other has a row for each open    *)
(* slot and for the one a new channel will take, and what is on view is a  *)
(* page though page_index be stale (view_pages, BankPager::view). The      *)
(* pager, the chord and the carried strip keep their types.                *)
(***************************************************************************)
THEOREM EverySlotHasAPage == StripSpec => []StripSound
<1>1. ASSUME StripInv PROVE StripTypeOK
  BY <1>1 DEF StripInv, Typed, StripTypeOK, Pagers, Views
<1>2. ASSUME StripInv PROVE EverySlotReachable
  <2>1. View(set, pager) \in ViewPages(set, pager)
    BY <1>2, OnView, ViewIsAPage DEF Sound, Frame
  <2>2. ASSUME NEW b \in BankId, Held(set, b),
               NEW c \in Slots(set, b) \cup ({NextSlot(set, b)} \cap Slot)
        PROVE  \E V \in ViewPages(set, pager) :
                 \A W \in ViewPages(set, pager) : ShowsSlot(set, pager, W, <<b, c>>) <=> W = V
    <3>1. pager \in Pagers /\ c \in Slot /\ c \in Reached(set, b)
      BY <1>2, <2>2, OnView DEF Slots, Reached
    <3> DEFINE V == <<b, PageRows(set, pager, b) * ((c - 1) \div PageRows(set, pager, b))>>
    <3>2. /\ V \in ViewPages(set, pager)
          /\ \A W \in ViewPages(set, pager) : ShowsSlot(set, pager, W, <<b, c>>) <=> W = V
      BY <2>2, <3>1, OnePageOfSlot
    <3> QED BY <3>2
  <2> QED BY <2>1, <2>2 DEF EverySlotReachable
<1> QED BY <1>1, <1>2, StripInvariant, PTL DEF StripSound

(***************************************************************************)
(* Between two handlers the digits that wait stand against the labels they *)
(* were typed at, whatever opened, closed or was carried off meanwhile     *)
(* (settle_bank, ChordInput).                                              *)
(***************************************************************************)
THEOREM DigitsKeepTheirLabels == StripSpec => []DigitsMeanTheirLabels
<1>1. NoChord.digits = NoDigits
  BY DEF NoChord
<1>2. StripInv => DigitsMeanTheirLabels
  BY <1>1 DEF StripInv, QuietWhileOff, LabelsStand, DigitsMeanTheirLabels
<1> QED BY <1>2, StripInvariant, PTL

(***************************************************************************)
(* Between two handlers a find line is on the channel on the air, and over *)
(* the screen it was raised on unless a server fills the bank, though a    *)
(* pump may take the air away and bring it back before channel_changed is  *)
(* asked (prompt.rs, channel_changed).                                     *)
(***************************************************************************)
THEOREM FindCanAlwaysBeLeft == StripSpec => []FindHasAWayOut
<1>1. StripInv => FindHasAWayOut
  BY DEF StripInv, Typed, LineStands, FindHasAWayOut
<1> QED BY <1>1, StripInvariant, PTL

(***************************************************************************)
(* Between two handlers a key goes where the glass says it does: a digit   *)
(* to the slot its numeral is engraved on, Escape to the line that is up   *)
(* (ChordInput, channel_changed).                                          *)
(***************************************************************************)
THEOREM KeysGoWhereTheyShould == StripSpec => []KeysGoWhereTheGlassSays
BY DigitsKeepTheirLabels, FindCanAlwaysBeLeft, PTL DEF KeysGoWhereTheGlassSays

(***************************************************************************)
(* No chord, drop, destination or pump pulls a wire out from under its     *)
(* bank or moves the row that carries it, whatever the drag's last motion  *)
(* was told (can_store, strip_released). And where the air moves or the    *)
(* height does, the channel on the air has a row on the page then shown,   *)
(* whatever was paged to before (ensure_visible).                          *)
(***************************************************************************)
THEOREM WiresAndViewAlwaysFollow == StripSpec => WiresAndViewFollow
<1>1. StripInv /\ [StripNext]_stripVars => [WiresKept(set, set') /\ AirComesToView]_stripVars
  BY StripStep, AirIsSought
<1> QED BY <1>1, StripInvariant, PTL DEF StripSpec, WiresAndViewFollow

(***************************************************************************)
(* Choosing a destination never ends the window it was opening a channel   *)
(* in: the replacement stands before the page goes, and two rows anchor    *)
(* the window when the page is closed (picker_key, close_channel).         *)
(***************************************************************************)
THEOREM TheReplacementStandsFirst == StripSpec => ReplacementFirst
<1>1. StripInv /\ [StripNext]_stripVars =>
        [power = "on" /\ power' = "closing" => Rows(set') \subseteq Rows(set)]_<<vars, keyboardVars>>
  BY EndsOnWhatStood
<1> QED BY <1>1, StripInvariant, PTL DEF StripSpec, ReplacementFirst
=============================================================================
