--------------------------- MODULE RegisterProofs ---------------------------
(***************************************************************************)
(* What is noted of a tmux server's sessions, the banks that stand and the *)
(* clients behind them agree, whatever the server does meanwhile: for any  *)
(* number of sessions, banks, clients and changes, and any cap and backoff.*)
(***************************************************************************)
EXTENDS Register, Folding, FiniteSetTheorems

-----------------------------------------------------------------------------
(***************************************************************************)
(* What each part is.                                                      *)
(***************************************************************************)
Entries ==
  {Absent} \cup {Spawning(b) : b \in BankId} \cup {Banked(b) : b \in BankId}
  \cup {Failed(age) : age \in 0 .. RESPAWN_BACKOFF}

Banks    == [kind : {"none", "typed", "found"}, gateway : BOOLEAN, session : 0 .. MaxSession]
Surfaces == [sessions : [SessionId -> Entries], bank : [BankId -> Banks], next : 1 .. MaxBank + 1]

Message == [says : {"listing", "switched", "changed", "exit"}, of : SUBSET SessionId]
Clients == [on : 0 .. MaxSession, opened : BOOLEAN, gone : BOOLEAN, line : Seq(Message), asks : Nat]
Servers == [alive : SUBSET SessionId, next : Nat, changes : Nat]

\* The numbers the constants are.
LEMMA Bounds ==
  /\ MaxSession \in Nat \ {0} /\ MaxBank \in Nat \ {0} /\ FOUND_BANK_CAP \in Nat \ {0}
  /\ RESPAWN_BACKOFF \in Nat \ {0} /\ MaxChanges \in Nat
  /\ SessionId \subseteq Nat \ {0} /\ BankId \subseteq Nat \ {0} /\ 1 \in BankId /\ 1 \in SessionId
BY RegisterAssumption DEF SessionId, BankId

\* What an entry is read for: the bank it names, or how long ago a client died.
LEMMA Named ==
  ASSUME NEW b \in BankId
  PROVE  /\ Spawning(b) \in Entries /\ SlotBank(Spawning(b)) = b /\ Spawning(b).slot = "spawning"
         /\ Banked(b) \in Entries /\ SlotBank(Banked(b)) = b /\ Banked(b).slot = "banked"
BY DEF Entries, Spawning, Banked, SlotBank

LEMMA Unnamed ==
  /\ Absent \in Entries /\ SlotBank(Absent) = 0 /\ Absent.slot = "absent"
  /\ \A age \in 0 .. RESPAWN_BACKOFF :
       Failed(age) \in Entries /\ SlotBank(Failed(age)) = 0 /\ Failed(age).slot = "failed" /\ Failed(age).n = age
BY DEF Entries, Absent, Failed, SlotBank

LEMMA ClientFacts ==
  /\ NoClient \in Clients /\ NoClient.on = 0 /\ NoClient.line = <<>>
  /\ \A s \in SessionId, opened \in BOOLEAN :
       /\ Client(s, opened) \in Clients /\ Client(s, opened).on = s /\ Client(s, opened).line = <<>>
       /\ [Client(s, opened) EXCEPT !.asks = 1] \in Clients
       /\ [Client(s, opened) EXCEPT !.asks = 1].on = s /\ [Client(s, opened) EXCEPT !.asks = 1].line = <<>>
<1>1. <<>> \in Seq(Message) /\ 0 \in Nat /\ 1 \in Nat
  OBVIOUS
<1>2. 0 \in 0 .. MaxSession /\ \A s \in SessionId : s \in 0 .. MaxSession
  BY Bounds DEF SessionId
<1>3. NoClient = [on |-> 0, opened |-> FALSE, gone |-> FALSE, line |-> <<>>, asks |-> 0]
  BY DEF NoClient
<1>4. NoClient \in Clients /\ NoClient.on = 0 /\ NoClient.line = <<>>
  BY <1>1, <1>2, <1>3 DEF Clients
<1>5. ASSUME NEW s \in SessionId, NEW opened \in BOOLEAN
      PROVE  Client(s, opened) \in Clients /\ Client(s, opened).on = s /\ Client(s, opened).line = <<>>
  BY <1>2, <1>4 DEF Client, Clients
<1>6. ASSUME NEW s \in SessionId, NEW opened \in BOOLEAN
      PROVE  /\ [Client(s, opened) EXCEPT !.asks = 1] \in Clients
             /\ [Client(s, opened) EXCEPT !.asks = 1].on = s /\ [Client(s, opened) EXCEPT !.asks = 1].line = <<>>
  BY <1>1, <1>5 DEF Clients
<1> QED BY <1>4, <1>5, <1>6

LEMMA EntryFacts ==
  ASSUME NEW e \in Entries
  PROVE  /\ SlotBank(e) \in {0} \cup BankId
         /\ e.slot \in {"absent", "spawning", "banked", "failed"}
         /\ SlotBank(e) # 0 => e \in {Spawning(SlotBank(e)), Banked(SlotBank(e))} /\ e.slot \in {"spawning", "banked"}
         /\ e.slot = "spawning" => SlotBank(e) # 0
         /\ e.slot = "failed" => e.n \in 0 .. RESPAWN_BACKOFF /\ e = Failed(e.n)
         /\ Owed(e) => SlotBank(e) = 0 /\ (e.slot = "failed" => e.n = RESPAWN_BACKOFF)
<1>1. CASE e = Absent
  BY <1>1, Unnamed DEF Owed
<1>2. ASSUME NEW b \in BankId, e = Spawning(b) PROVE e.n = b /\ e.slot = "spawning" /\ SlotBank(e) = b
  BY <1>2 DEF Spawning, SlotBank
<1>3. ASSUME NEW b \in BankId, e = Banked(b) PROVE e.n = b /\ e.slot = "banked" /\ SlotBank(e) = b
  BY <1>3 DEF Banked, SlotBank
<1>4. ASSUME NEW age \in 0 .. RESPAWN_BACKOFF, e = Failed(age) PROVE e.n = age /\ e.slot = "failed" /\ SlotBank(e) = 0
  BY <1>4, Unnamed
<1>5. CASE \E b \in BankId : e = Spawning(b)
  BY <1>2, <1>5, Bounds, Unnamed DEF Owed
<1>6. CASE \E b \in BankId : e = Banked(b)
  BY <1>3, <1>6, Bounds, Unnamed DEF Owed
<1>7. CASE \E age \in 0 .. RESPAWN_BACKOFF : e = Failed(age)
  BY <1>4, <1>7, Bounds, Unnamed DEF Owed
<1> QED BY <1>1, <1>5, <1>6, <1>7 DEF Entries

-----------------------------------------------------------------------------
(***************************************************************************)
(* The inductive invariant, part by part. H: the sessions a person's own   *)
(* client has been on, or a client was switched to or from.                *)
(***************************************************************************)
\* Banks are raised once, at the next number, each on a session.
Numbered(S) ==
  \A b \in BankId : S.bank[b].kind # "none" => b < S.next /\ S.bank[b].session \in SessionId

\* An entry names a bank that stands.
NamesStand(S) == \A s \in SessionId : SlotBank(S.sessions[s]) # 0 => SlotBank(S.sessions[s]) \in Held(S)

\* A bank's session is one of H, or is the bank's own on the register.
EachHasItsOwn(S, H) ==
  \A b \in Held(S) :
    S.bank[b].session \in H \/ (b \in Found(S) /\ SlotBank(S.sessions[S.bank[b].session]) = b)

\* A bank whose client has not spoken has no entry but its session's.
UnheardHaveOne(S) ==
  \A b \in Held(S), s \in SessionId :
    ~S.bank[b].gateway /\ SlotBank(S.sessions[s]) = b => s = S.bank[b].session

Capped(S) == Cardinality(Found(S)) <= FOUND_BANK_CAP

Stands(S, H) ==
  S \in Surfaces /\ Numbered(S) /\ NamesStand(S) /\ EachHasItsOwn(S, H) /\ UnheardHaveOne(S) /\ Capped(S)

\* A failure is as old as it is; whoever has none may have a client.
Aged(S, H, died) ==
  \A s \in SessionId \ H :
    died[s] = IF S.sessions[s].slot = "failed" THEN S.sessions[s].n ELSE RESPAWN_BACKOFF

\* Whoever has heard that its client was switched is on a session of H, and so
\* is what it heard of.
Tells(line, on, H) ==
  \A i \in 1 .. Len(line) : line[i].says = "switched" => on \in H /\ \E s \in H : line[i].of = {s}

\* A bank that stands has a client, on the bank's session or on one of H.
Manned(S, C, H) ==
  /\ C \in [BankId -> Clients]
  /\ \A b \in BankId :
       /\ b \in Held(S) <=> C[b].on # 0
       /\ b \in Held(S) => C[b].on \in H \/ C[b].on = S.bank[b].session
       /\ Tells(C[b].line, C[b].on, H)

\* What is still owed a turn is a bank that stands and has spoken.
Turning(S, C, H, owed) ==
  \A b \in DOMAIN owed :
    /\ b \in Held(S) /\ S.bank[b].gateway
    /\ owed[b] \in Seq(Message) /\ Tells(owed[b], C[b].on, H)

Remembers(h) ==
  /\ DOMAIN h = {"owed", "steady", "capped", "shared", "died"}
  /\ h.shared \subseteq SessionId /\ h.died \in [SessionId -> 0 .. RESPAWN_BACKOFF]

IInv ==
  /\ server \in Servers /\ Remembers(history)
  /\ Stands(surface, history.shared) /\ Aged(surface, history.shared, history.died)
  /\ Manned(surface, client, history.shared)
  /\ Turning(surface, client, history.shared, turn)

\* What it is for: two found banks on one session would both be its own.
LEMMA InvariantSays == IInv => RegisterSound
<1> SUFFICES ASSUME IInv PROVE RegisterSound
  OBVIOUS
<1> DEFINE H == history.shared
<1>1. /\ Stands(surface, H) /\ Manned(surface, client, H) /\ Turning(surface, client, H, turn)
      /\ server \in Servers /\ Remembers(history)
  BY DEF IInv
<1>2. surface \in Surfaces /\ client \in [BankId -> Clients]
  BY <1>1 DEF Stands, Manned
<1>3. \A b \in BankId : surface.bank[b] \in Banks
  BY <1>2 DEF Surfaces
<1>4. \A s \in SessionId : surface.sessions[s] \in Entries
  BY <1>2 DEF Surfaces
<1>5. RegisterTypeOK
  <2>1. DOMAIN turn \subseteq Held(surface)
    BY <1>1 DEF Turning
  <2>2. server.alive \subseteq SessionId
    BY <1>1 DEF Servers
  <2>3. \A b \in BankId : b \in Held(surface) <=> client[b].on # 0
    BY <1>1 DEF Manned
  <2> QED BY <1>2, <2>1, <2>2, <2>3 DEF RegisterTypeOK, Surfaces, Banks, Entries
<1>6. RegisterFollows
  <2>1. ASSUME NEW b \in Found(surface), surface.bank[b].session \notin H
        PROVE  surface.sessions[surface.bank[b].session] \in {Spawning(b), Banked(b)}
    <3>1. b \in Held(surface) /\ b \in BankId
      BY <2>1 DEF Found, Held
    <3>2. SlotBank(surface.sessions[surface.bank[b].session]) = b
      BY <1>1, <2>1, <3>1 DEF Stands, EachHasItsOwn
    <3>3. surface.bank[b].session \in SessionId
      BY <1>1, <3>1 DEF Stands, Numbered, Held
    <3> QED BY <1>4, <3>1, <3>2, <3>3, EntryFacts, Bounds
  <2>2. \A s \in SessionId : SlotBank(surface.sessions[s]) # 0 => SlotBank(surface.sessions[s]) \in Held(surface)
    BY <1>1 DEF Stands, NamesStand
  <2> QED BY <2>1, <2>2 DEF RegisterFollows
<1>7. OneFoundBankPerSession
  <2> SUFFICES ASSUME NEW b \in Found(surface), NEW c \in Found(surface), b # c,
                      client[b].on = client[c].on, client[b].on \notin H
               PROVE  FALSE
    BY DEF OneFoundBankPerSession
  <2>1. b \in Held(surface) /\ c \in Held(surface) /\ b \in BankId /\ c \in BankId
    BY DEF Found, Held
  <2>2. client[b].on = surface.bank[b].session /\ client[c].on = surface.bank[c].session
    BY <1>1, <2>1 DEF Manned
  <2>3. /\ SlotBank(surface.sessions[surface.bank[b].session]) = b
        /\ SlotBank(surface.sessions[surface.bank[c].session]) = c
    BY <1>1, <2>1, <2>2 DEF Stands, EachHasItsOwn
  <2> QED BY <2>2, <2>3
<1>8. FoundBanksCapped
  BY <1>1 DEF Stands, Capped, FoundBanksCapped
<1> QED BY <1>5, <1>6, <1>7, <1>8 DEF RegisterSound

LEMMA InitHolds == Init => IInv
<1> SUFFICES ASSUME Init PROVE IInv
  OBVIOUS
<1>1. surface.next = 2 /\ surface.bank[1] = [kind |-> "typed", gateway |-> TRUE, session |-> 1]
  BY Bounds DEF Init
<1>2. \A b \in BankId : b # 1 => surface.bank[b] = NoBank
  BY DEF Init
<1>3. \A s \in SessionId : surface.sessions[s] = Absent
  BY DEF Init
<1>4. Held(surface) = {1} /\ Found(surface) = {}
  <2>1. NoBank.kind = "none" /\ surface.bank[1].kind = "typed"
    BY <1>1 DEF NoBank
  <2> QED BY <1>2, <2>1, Bounds DEF Held, Found
<1>5. surface \in Surfaces
  <2>1. NoBank \in Banks /\ surface.bank[1] \in Banks
    BY <1>1, Bounds DEF NoBank, Banks
  <2>2. surface.bank \in [BankId -> Banks]
    BY <1>2, <2>1, Bounds DEF Init
  <2>3. surface.sessions \in [SessionId -> Entries]
    BY <1>3, Unnamed DEF Init
  <2>4. surface = [sessions |-> surface.sessions, next |-> 2, bank |-> surface.bank] /\ 2 \in 1 .. MaxBank + 1
    BY Bounds DEF Init
  <2> QED BY <2>2, <2>3, <2>4 DEF Surfaces
<1>6. Stands(surface, {1})
  <2>1. Numbered(surface)
    BY <1>1, <1>2, Bounds DEF Numbered, NoBank
  <2>2. NamesStand(surface) /\ UnheardHaveOne(surface)
    BY <1>3, <1>4, Unnamed DEF NamesStand, UnheardHaveOne
  <2>3. EachHasItsOwn(surface, {1})
    BY <1>1, <1>4 DEF EachHasItsOwn
  <2>4. Capped(surface)
    BY <1>4, FS_EmptySet, Bounds DEF Capped
  <2> QED BY <1>5, <2>1, <2>2, <2>3, <2>4 DEF Stands
<1>7. Aged(surface, {1}, [s \in SessionId |-> RESPAWN_BACKOFF])
  BY <1>3, Unnamed DEF Aged
<1>8. Manned(surface, client, {1})
  <2>1. <<>> \in Seq(Message) /\ Len(<<>>) = 0
    OBVIOUS
  <2>2. NoClient \in Clients /\ NoClient.on = 0 /\ NoClient.line = <<>>
    BY ClientFacts
  <2>3. client[1] \in Clients /\ client[1].on = 1 /\ client[1].line = <<>>
    <3>1. client[1] = [Client(1, TRUE) EXCEPT !.asks = 1]
      BY Bounds DEF Init
    <3>2. 1 \in SessionId /\ TRUE \in BOOLEAN
      BY Bounds
    <3> QED BY <3>1, <3>2, ClientFacts
  <2>4. \A b \in BankId : b # 1 => client[b] = NoClient
    BY DEF Init
  <2>5. client \in [BankId -> Clients]
    BY <2>2, <2>3, <2>4 DEF Init
  <2>6. \A on : Tells(<<>>, on, {1})
    BY <2>1 DEF Tells
  <2> QED BY <1>4, <2>2, <2>3, <2>4, <2>5, <2>6 DEF Manned
<1>9. Remembers(history) /\ history.shared = {1} /\ history.died = [s \in SessionId |-> RESPAWN_BACKOFF]
  BY Bounds DEF Init, Remembers
<1>10. server \in Servers
  <2>1. {1, 2} \cap SessionId \in SUBSET SessionId
    OBVIOUS
  <2> QED BY <2>1, Bounds DEF Init, Servers
<1>11. Turning(surface, client, {1}, turn)
  <2>1. DOMAIN turn = {}
    BY DEF Init
  <2> QED BY <2>1 DEF Turning
<1> QED BY <1>6, <1>7, <1>8, <1>9, <1>10, <1>11 DEF IInv

-----------------------------------------------------------------------------
(***************************************************************************)
(* The server's own steps.                                                 *)
(***************************************************************************)
\* What is told stays told as H grows, wherever a switched client is now; and
\* one line more.
LEMMA TellsOn ==
  ASSUME NEW line \in Seq(Message), NEW on, NEW o, NEW H, NEW K, H \subseteq K, o = on \/ o \in K, Tells(line, on, H)
  PROVE  /\ Tells(line, o, K)
         /\ \A m \in Message :
              (m.says = "switched" => o \in K /\ \E s \in K : m.of = {s}) => Tells(Append(line, m), o, K)
<1>1. Tells(line, o, K)
  BY DEF Tells
<1>2. ASSUME NEW m \in Message, m.says = "switched" => o \in K /\ \E s \in K : m.of = {s}
      PROVE  Tells(Append(line, m), o, K)
  <2> SUFFICES ASSUME NEW i \in 1 .. Len(Append(line, m)), Append(line, m)[i].says = "switched"
               PROVE  o \in K /\ \E s \in K : Append(line, m)[i].of = {s}
    BY DEF Tells
  <2>1. Len(Append(line, m)) = Len(line) + 1 /\ Len(line) \in Nat
    OBVIOUS
  <2>2. CASE i = Len(line) + 1
    <3>1. Append(line, m)[i] = m
      BY <2>2
    <3> QED BY <1>2, <3>1
  <2>3. CASE i \in 1 .. Len(line)
    <3>1. Append(line, m)[i] = line[i]
      BY <2>3
    <3> QED BY <1>1, <2>3, <3>1 DEF Tells
  <2> QED BY <2>1, <2>2, <2>3
<1> QED BY <1>1, <1>2

LEMMA NothingTold == \A on, H : Tells(<<>>, on, H)
<1>1. Len(<<>>) = 0
  OBVIOUS
<1> QED BY <1>1 DEF Tells

\* A client that goes on is where it was, and has said nothing of a switch.
GoesOn(C, D) ==
  D \in Clients /\ D.on = C.on /\ \A H : Tells(C.line, C.on, H) => Tells(D.line, C.on, H)

LEMMA SaysFacts ==
  ASSUME NEW what \in {"listing", "switched", "changed", "exit"}, NEW S \in SUBSET SessionId
  PROVE  Says(what, S) \in Message /\ Says(what, S).says = what /\ Says(what, S).of = S
BY DEF Says, Message

LEMMA HearsOn ==
  ASSUME NEW C \in Clients, NEW m \in Message, m.says # "switched"
  PROVE  /\ GoesOn(C, C) /\ GoesOn(C, Hears(C, m))
         /\ GoesOn(C, Gone(C))
         /\ \A asks \in Nat : GoesOn(C, [C EXCEPT !.asks = asks, !.line = Append(@, m)])
<1>1. C.line \in Seq(Message)
  BY DEF Clients
<1>2. ASSUME NEW n \in Message, n.says # "switched"
      PROVE  Append(C.line, n) \in Seq(Message) /\ \A H : Tells(C.line, C.on, H) => Tells(Append(C.line, n), C.on, H)
  <2>1. Append(C.line, n) \in Seq(Message)
    BY <1>1
  <2>2. ASSUME NEW H, Tells(C.line, C.on, H) PROVE Tells(Append(C.line, n), C.on, H)
    BY <1>1, <1>2, <2>2, TellsOn
  <2> QED BY <2>1, <2>2
<1>3. ASSUME NEW n \in Message, n.says # "switched" PROVE GoesOn(C, Hears(C, n))
  <2>1. CASE C.opened /\ ~C.gone
    <3>1. Hears(C, n) = [C EXCEPT !.line = Append(C.line, n)]
      BY <2>1 DEF Hears
    <3>2. Hears(C, n) \in Clients /\ Hears(C, n).on = C.on /\ Hears(C, n).line = Append(C.line, n)
      BY <1>2, <1>3, <3>1 DEF Clients
    <3> QED BY <1>2, <1>3, <3>2 DEF GoesOn
  <2>2. CASE ~(C.opened /\ ~C.gone)
    BY <2>2 DEF GoesOn, Hears
  <2> QED BY <2>1, <2>2
<1>4. GoesOn(C, Gone(C))
  <2> DEFINE e == Says("exit", {})
             D == Hears(C, e)
  <2>1. e \in Message /\ e.says # "switched"
    BY SaysFacts
  <2>2. GoesOn(C, D)
    BY <1>3, <2>1
  <2>3. Gone(C) = [D EXCEPT !.gone = TRUE, !.asks = 0]
    BY DEF Gone
  <2> HIDE DEF D, e
  <2>4. D \in Clients
    BY <2>2 DEF GoesOn
  <2>5. Gone(C) \in Clients /\ Gone(C).on = D.on /\ Gone(C).line = D.line
    <3>1. D = [on |-> D.on, opened |-> D.opened, gone |-> D.gone, line |-> D.line, asks |-> D.asks]
      BY <2>4 DEF Clients
    <3>2. Gone(C) = [on |-> D.on, opened |-> D.opened, gone |-> TRUE, line |-> D.line, asks |-> 0]
      BY <2>3, <3>1
    <3>3. D.on \in 0 .. MaxSession /\ D.opened \in BOOLEAN /\ D.line \in Seq(Message) /\ 0 \in Nat
      BY <2>4 DEF Clients
    <3> QED BY <3>2, <3>3 DEF Clients
  <2> QED BY <2>2, <2>5 DEF GoesOn
<1>5. ASSUME NEW asks \in Nat PROVE GoesOn(C, [C EXCEPT !.asks = asks, !.line = Append(@, m)])
  <2> DEFINE D == [C EXCEPT !.asks = asks, !.line = Append(@, m)]
  <2>1. D \in Clients /\ D.on = C.on /\ D.line = Append(C.line, m)
    BY <1>2 DEF Clients
  <2> HIDE DEF D
  <2> QED BY <1>2, <2>1 DEF GoesOn, D
<1> QED BY <1>3, <1>4, <1>5 DEF GoesOn

\* Nothing is lost as H grows.
LEMMA GrowsWithH ==
  ASSUME NEW S, NEW C, NEW owed, NEW died, NEW H, NEW K, H \subseteq K,
         Stands(S, H), Aged(S, H, died), Manned(S, C, H), Turning(S, C, H, owed)
  PROVE  Stands(S, K) /\ Aged(S, K, died) /\ Manned(S, C, K) /\ Turning(S, C, K, owed)
<1>1. Stands(S, K)
  BY DEF Stands, EachHasItsOwn
<1>2. Aged(S, K, died)
  BY DEF Aged
<1>3. Manned(S, C, K)
  BY DEF Manned, Tells
<1>4. Turning(S, C, K, owed)
  BY DEF Turning, Tells
<1> QED BY <1>1, <1>2, <1>3, <1>4

\* What the server does while the surface looks away.
LEMMA ServerKeeps ==
  ASSUME IInv, UNCHANGED <<surface, turn>>, server' \in Servers, Remembers(history'),
         history'.shared = history.shared, history'.died = history.died,
         client' \in [BankId -> Clients], \A b \in BankId : GoesOn(client[b], client'[b])
  PROVE  IInv'
<1> DEFINE H == history.shared
<1>1. Stands(surface, H) /\ Aged(surface, H, history.died) /\ Manned(surface, client, H) /\ Turning(surface, client, H, turn)
  BY DEF IInv
<1>2. Manned(surface, client', H)
  BY <1>1 DEF Manned, GoesOn
<1>3. Turning(surface, client', H, turn)
  BY <1>1 DEF Turning, GoesOn, Held
<1> QED BY <1>1, <1>2, <1>3 DEF IInv

LEMMA NewSessionKeeps == IInv /\ NewSession => IInv'
<1> SUFFICES ASSUME IInv, NewSession PROVE IInv'
  OBVIOUS
<1> DEFINE m == Says("changed", {})
<1>1. m \in Message /\ m.says # "switched"
  BY SaysFacts
<1> HIDE DEF m
<1>2. server \in Servers /\ Remembers(history) /\ client \in [BankId -> Clients]
  BY DEF IInv, Manned
<1>3. server' \in Servers
  <2>1. server' = [alive |-> server.alive \cup {server.next}, next |-> server.next + 1, changes |-> server.changes - 1]
    BY DEF NewSession
  <2>2. server.next \in SessionId /\ server.changes > 0
    BY DEF NewSession
  <2> QED BY <1>2, <2>1, <2>2 DEF Servers
<1>4. client' = [b \in BankId |-> Hears(client[b], m)]
  BY DEF NewSession, m
<1>5. \A b \in BankId : GoesOn(client[b], client'[b])
  BY <1>1, <1>2, <1>4, HearsOn
<1>6. client' \in [BankId -> Clients]
  BY <1>4, <1>5 DEF GoesOn
<1>7. Remembers(history') /\ history'.shared = history.shared /\ history'.died = history.died
  <2> DEFINE x == history.owed \cup {server.next}
             y == IF Enumerator(surface) = 0 THEN history.steady ELSE Enumerator(surface)
  <2>1. history' = [history EXCEPT !.owed = x, !.capped = FALSE, !.steady = y]
    BY DEF NewSession
  <2> HIDE DEF x, y
  <2> QED BY <1>2, <2>1 DEF Remembers
<1> QED BY <1>3, <1>5, <1>6, <1>7, ServerKeeps DEF NewSession

LEMMA KillSessionKeeps == IInv /\ KillSession => IInv'
<1> SUFFICES ASSUME IInv, KillSession PROVE IInv'
  OBVIOUS
<1> DEFINE m == Says("changed", {})
<1>1. m \in Message /\ m.says # "switched"
  BY SaysFacts
<1>2. server \in Servers /\ Remembers(history) /\ client \in [BankId -> Clients]
  BY DEF IInv, Manned
<1>3. PICK s \in server.alive :
        /\ server' = [server EXCEPT !.alive = @ \ {s}, !.changes = @ - 1]
        /\ client' = [b \in BankId |-> IF Lives(b) /\ client[b].on = s THEN Gone(client[b]) ELSE Hears(client[b], m)]
        /\ history' = [history EXCEPT !.owed = @ \ {s}]
  BY DEF KillSession
<1> HIDE DEF m
<1>4. server' \in Servers
  <2>1. server.changes > 0
    BY DEF KillSession
  <2>2. server.alive \ {s} \in SUBSET SessionId /\ server.changes - 1 \in Nat
    BY <1>2, <2>1 DEF Servers
  <2> QED BY <1>2, <1>3, <2>2 DEF Servers
<1>5. \A b \in BankId : GoesOn(client[b], client'[b])
  BY <1>1, <1>2, <1>3, HearsOn
<1>6. client' \in [BankId -> Clients]
  BY <1>3, <1>5 DEF GoesOn
<1>7. Remembers(history') /\ history'.shared = history.shared /\ history'.died = history.died
  BY <1>2, <1>3 DEF Remembers
<1> QED BY <1>4, <1>5, <1>6, <1>7, ServerKeeps DEF KillSession

\* One client comes up, ends or answers.
LEMMA ClientKeeps == IInv /\ (\E b \in BankId : ClientOpens(b) \/ ClientGoes(b) \/ Lists(b)) => IInv'
<1> SUFFICES ASSUME IInv, NEW b \in BankId, ClientOpens(b) \/ ClientGoes(b) \/ Lists(b) PROVE IInv'
  OBVIOUS
<1> DEFINE l == Says("listing", server.alive)
<1>1. server \in Servers /\ Remembers(history) /\ client \in [BankId -> Clients]
  BY DEF IInv, Manned
<1>2. l \in Message /\ l.says # "switched"
  <2>1. server.alive \in SUBSET SessionId
    BY <1>1 DEF Servers
  <2> QED BY <2>1, SaysFacts
<1>3. ASSUME NEW D, GoesOn(client[b], D), client' = [client EXCEPT ![b] = D]
      PROVE  client' \in [BankId -> Clients] /\ \A c \in BankId : GoesOn(client[c], client'[c])
  <2>1. \A c \in BankId : GoesOn(client[c], client[c])
    BY <1>1, <1>2, HearsOn
  <2> QED BY <1>1, <1>3, <2>1 DEF GoesOn
<1>4. CASE ClientOpens(b)
  <2>1. GoesOn(client[b], [client[b] EXCEPT !.opened = TRUE])
    <3> DEFINE D == [client[b] EXCEPT !.opened = TRUE]
    <3>1. D \in Clients /\ D.on = client[b].on /\ D.line = client[b].line
      BY <1>1 DEF Clients
    <3> HIDE DEF D
    <3> QED BY <3>1 DEF GoesOn, D
  <2>2. client' = [client EXCEPT ![b] = [client[b] EXCEPT !.opened = TRUE]]
    BY <1>4 DEF ClientOpens
  <2>3. client' \in [BankId -> Clients] /\ \A c \in BankId : GoesOn(client[c], client'[c])
    BY <1>3, <2>1, <2>2
  <2> QED BY <1>1, <1>4, <2>3, ServerKeeps DEF ClientOpens
<1>5. CASE ClientGoes(b)
  <2>1. client' = [client EXCEPT ![b] = Gone(client[b])]
    BY <1>5 DEF ClientGoes
  <2>2. client' \in [BankId -> Clients] /\ \A c \in BankId : GoesOn(client[c], client'[c])
    BY <1>1, <1>2, <1>3, <2>1, HearsOn
  <2>3. server' \in Servers
    BY <1>1, <1>5 DEF ClientGoes, Servers
  <2> QED BY <1>1, <1>5, <2>2, <2>3, ServerKeeps DEF ClientGoes
<1>6. CASE Lists(b)
  <2> DEFINE D == [client[b] EXCEPT !.asks = client[b].asks - 1, !.line = Append(@, l)]
  <2>1. client[b].asks - 1 \in Nat
    BY <1>1, <1>6 DEF Lists, Clients
  <2>2. client[b] \in Clients
    BY <1>1
  <2> HIDE DEF l
  <2>3. GoesOn(client[b], D)
    BY <1>2, <2>1, <2>2, HearsOn
  <2>4. client' = [client EXCEPT ![b] = D]
    BY <1>1, <1>6 DEF Lists, l
  <2> HIDE DEF D
  <2>5. client' \in [BankId -> Clients] /\ \A c \in BankId : GoesOn(client[c], client'[c])
    BY <1>3, <2>3, <2>4
  <2> QED BY <1>1, <1>6, <2>5, ServerKeeps DEF Lists
<1> QED BY <1>4, <1>5, <1>6

\* A switched client is on a session of H from then on, and will say so.
LEMMA SwitchKeeps == IInv /\ (\E b \in BankId : SwitchClient(b)) => IInv'
<1> SUFFICES ASSUME IInv, NEW b \in BankId, SwitchClient(b) PROVE IInv'
  OBVIOUS
<1> DEFINE H == history.shared
<1>1. /\ server \in Servers /\ Remembers(history) /\ client \in [BankId -> Clients]
      /\ Stands(surface, H) /\ Aged(surface, H, history.died) /\ Manned(surface, client, H)
      /\ Turning(surface, client, H, turn)
  BY DEF IInv, Manned
<1>2. PICK s \in server.alive \ {client[b].on} :
        /\ client' = [client EXCEPT ![b].on = s, ![b].line = Append(@, Says("switched", {s}))]
        /\ history' = [history EXCEPT !.shared = @ \cup {s, client[b].on}]
  BY DEF SwitchClient
<1> DEFINE K == H \cup {s, client[b].on}
           m == Says("switched", {s})
<1>3. s \in SessionId /\ client[b].on \in SessionId
  <2>1. client[b].on # 0 /\ client[b].on \in 0 .. MaxSession
    BY <1>1 DEF SwitchClient, Talks, Lives, Clients
  <2> QED BY <1>1, <2>1, Bounds DEF Servers, SessionId
<1>4. m \in Message /\ m.says = "switched" /\ m.of = {s}
  BY <1>3, SaysFacts
<1>5. Remembers(history') /\ history'.shared = K /\ history'.died = history.died
  BY <1>1, <1>2, <1>3 DEF Remembers
<1>6. Stands(surface, K) /\ Aged(surface, K, history.died) /\ Manned(surface, client, K) /\ Turning(surface, client, K, turn)
  <2>1. H \subseteq K
    OBVIOUS
  <2> HIDE DEF H, K
  <2> QED BY <1>1, <2>1, GrowsWithH
<1>7. client[b].line \in Seq(Message) /\ Append(client[b].line, m) \in Seq(Message)
  BY <1>1, <1>4 DEF Clients
<1>8. /\ client'[b].on = s /\ client'[b].line = Append(client[b].line, m) /\ client'[b] \in Clients
      /\ \A c \in BankId : c # b => client'[c] = client[c]
      /\ client' \in [BankId -> Clients]
  <2> DEFINE D == [client[b] EXCEPT !.on = s, !.line = Append(@, m)]
  <2>1. client' = [client EXCEPT ![b] = D]
    BY <1>1, <1>2
  <2>2. s \in 0 .. MaxSession
    BY <1>3, Bounds DEF SessionId
  <2>3. client[b] \in Clients
    BY <1>1
  <2> HIDE DEF m
  <2>4. D \in Clients /\ D.on = s /\ D.line = Append(client[b].line, m)
    BY <1>7, <2>2, <2>3 DEF Clients
  <2> HIDE DEF D
  <2> QED BY <1>1, <2>1, <2>4
<1>9. s \in K /\ K \subseteq K
  OBVIOUS
<1> HIDE DEF K, m
<1>10. Tells(client'[b].line, s, K)
  <2>1. Tells(client[b].line, client[b].on, K)
    BY <1>6 DEF Manned
  <2>2. \A n \in Message :
          (n.says = "switched" => s \in K /\ \E r \in K : n.of = {r}) => Tells(Append(client[b].line, n), s, K)
    BY <1>7, <1>9, <2>1, TellsOn
  <2> QED BY <1>4, <1>8, <1>9, <2>2
<1>11. Manned(surface, client', K)
  <2>1. b \in Held(surface)
    BY DEF SwitchClient, Held, Talks, Lives, IInv, Manned
  <2>2. s # 0
    BY <1>3, Bounds
  <2>3. b \in Held(surface) <=> client'[b].on # 0
    BY <1>8, <2>1, <2>2
  <2> QED BY <1>6, <1>8, <1>9, <1>10, <2>3 DEF Manned
<1>12. Turning(surface, client', K, turn)
  <2> SUFFICES ASSUME NEW c \in DOMAIN turn PROVE Tells(turn[c], client'[c].on, K)
    BY <1>6 DEF Turning
  <2>1. turn[c] \in Seq(Message) /\ Tells(turn[c], client[c].on, K) /\ c \in BankId
    BY <1>6 DEF Turning, Held
  <2>2. client'[c].on = client[c].on \/ client'[c].on \in K
    BY <1>8, <1>9, <2>1
  <2> QED BY <1>9, <2>1, <2>2, TellsOn
<1>13. server' \in Servers
  BY <1>1 DEF SwitchClient, Servers
<1> QED BY <1>5, <1>6, <1>11, <1>12, <1>13 DEF IInv, SwitchClient

-----------------------------------------------------------------------------
(***************************************************************************)
(* Time, and a bank raised over a client that was typed.                   *)
(***************************************************************************)
LEMMA SurfaceFacts ==
  ASSUME NEW S \in Surfaces
  PROVE  /\ S = [sessions |-> S.sessions, bank |-> S.bank, next |-> S.next]
         /\ S.sessions \in [SessionId -> Entries] /\ S.bank \in [BankId -> Banks]
         /\ S.next \in 1 .. MaxBank + 1 /\ S.next \in Nat
         /\ Held(S) \subseteq BankId /\ Found(S) \subseteq Held(S)
         /\ IsFiniteSet(Found(S)) /\ Cardinality(Found(S)) \in Nat
<1>1. Found(S) \subseteq Held(S) /\ Held(S) \subseteq BankId
  BY DEF Found, Held
<1>2. IsFiniteSet(BankId)
  BY FS_Interval, Bounds DEF BankId
<1>3. IsFiniteSet(Found(S)) /\ Cardinality(Found(S)) \in Nat
  BY <1>1, <1>2, FS_Subset, FS_CardinalityType
<1>4. S.next \in 1 .. MaxBank + 1 /\ S.next \in Nat
  BY Bounds DEF Surfaces
<1> QED BY <1>1, <1>3, <1>4 DEF Surfaces

\* What holds of the banks holds while the entries name the same of them.
LEMMA SameNames ==
  ASSUME NEW S, NEW R, NEW H, Stands(S, H), R \in Surfaces, R.bank = S.bank, R.next = S.next,
         \A s \in SessionId : SlotBank(R.sessions[s]) = SlotBank(S.sessions[s])
  PROVE  Stands(R, H) /\ Held(R) = Held(S) /\ Found(R) = Found(S)
<1>1. Held(R) = Held(S) /\ Found(R) = Found(S)
  BY DEF Held, Found
<1>2. Numbered(R)
  BY DEF Stands, Numbered
<1>3. NamesStand(R) /\ UnheardHaveOne(R)
  BY <1>1 DEF Stands, NamesStand, UnheardHaveOne
<1>4. EachHasItsOwn(R, H)
  BY <1>1, <1>2 DEF Stands, EachHasItsOwn, Numbered, Held
<1>5. Capped(R)
  BY <1>1 DEF Stands, Capped
<1> QED BY <1>1, <1>2, <1>3, <1>4, <1>5 DEF Stands

LEMMA TickKeeps == IInv /\ Tick => IInv'
<1> SUFFICES ASSUME IInv, Tick PROVE IInv'
  OBVIOUS
<1> DEFINE H == history.shared
           Later(e) == IF e.slot = "failed" /\ e.n < RESPAWN_BACKOFF THEN Failed(e.n + 1) ELSE e
           died == [s \in SessionId |-> IF history.died[s] < RESPAWN_BACKOFF THEN history.died[s] + 1 ELSE history.died[s]]
<1>1. /\ Stands(surface, H) /\ Aged(surface, H, history.died) /\ Manned(surface, client, H)
      /\ Turning(surface, client, H, turn) /\ Remembers(history) /\ surface \in Surfaces
  BY DEF IInv, Stands
<1>2. surface.sessions \in [SessionId -> Entries] /\ surface.bank \in [BankId -> Banks] /\ surface.next \in 1 .. MaxBank + 1
  BY <1>1, SurfaceFacts
<1>3. surface' = [surface EXCEPT !.sessions = [s \in SessionId |-> Later(surface.sessions[s])]]
  BY DEF Tick
<1>4. ASSUME NEW e \in Entries
      PROVE  /\ Later(e) \in Entries /\ SlotBank(Later(e)) = SlotBank(e) /\ Later(e).slot = e.slot
             /\ e.slot = "failed" => Later(e).n = IF e.n < RESPAWN_BACKOFF THEN e.n + 1 ELSE e.n
  <2>1. CASE e.slot = "failed" /\ e.n < RESPAWN_BACKOFF
    <3>1. e.n \in 0 .. RESPAWN_BACKOFF /\ e = Failed(e.n)
      BY <2>1, EntryFacts
    <3>2. e.n + 1 \in 0 .. RESPAWN_BACKOFF
      BY <2>1, <3>1, Bounds
    <3>3. SlotBank(e) = 0
      BY <3>1, Unnamed
    <3> QED BY <2>1, <3>2, <3>3, Unnamed
  <2>2. CASE ~(e.slot = "failed" /\ e.n < RESPAWN_BACKOFF)
    BY <2>2
  <2> QED BY <2>1, <2>2
<1> HIDE DEF Later
<1>5. \A s \in SessionId : surface'.sessions[s] = Later(surface.sessions[s])
  BY <1>1, <1>3 DEF Surfaces
<1>6. surface'.bank = surface.bank /\ surface'.next = surface.next /\ surface' \in Surfaces
  <2>1. [s \in SessionId |-> Later(surface.sessions[s])] \in [SessionId -> Entries]
    BY <1>2, <1>4
  <2> QED BY <1>1, <1>3, <2>1 DEF Surfaces
<1>7. \A s \in SessionId : SlotBank(surface'.sessions[s]) = SlotBank(surface.sessions[s])
  BY <1>2, <1>4, <1>5
<1>8. Stands(surface', H) /\ Held(surface') = Held(surface)
  BY <1>1, <1>6, <1>7, SameNames
<1>9. history' = [history EXCEPT !.died = died]
  BY DEF Tick
<1>10. history.died \in [SessionId -> 0 .. RESPAWN_BACKOFF]
  BY <1>1 DEF Remembers
<1>11. died \in [SessionId -> 0 .. RESPAWN_BACKOFF]
  BY <1>10, Bounds
<1>12. Aged(surface', H, died)
  <2> SUFFICES ASSUME NEW s \in SessionId \ H
               PROVE  died[s] = IF surface'.sessions[s].slot = "failed" THEN surface'.sessions[s].n ELSE RESPAWN_BACKOFF
    BY DEF Aged
  <2> DEFINE e == surface.sessions[s]
  <2>1. e \in Entries /\ surface'.sessions[s] = Later(e)
    BY <1>2, <1>5
  <2>2. history.died[s] = IF e.slot = "failed" THEN e.n ELSE RESPAWN_BACKOFF
    BY <1>1 DEF Aged
  <2>3. died[s] = IF history.died[s] < RESPAWN_BACKOFF THEN history.died[s] + 1 ELSE history.died[s]
    OBVIOUS
  <2> HIDE DEF e, died
  <2>4. CASE e.slot = "failed"
    BY <1>4, <2>1, <2>2, <2>3, <2>4
  <2>5. CASE e.slot # "failed"
    BY <1>4, <2>1, <2>2, <2>3, <2>5, Bounds
  <2> QED BY <2>4, <2>5
<1> HIDE DEF died
<1>13. Remembers(history') /\ history'.shared = H /\ history'.died = died
  BY <1>1, <1>9, <1>11 DEF Remembers
<1>14. Manned(surface', client, H) /\ Turning(surface', client, H, turn)
  BY <1>1, <1>6, <1>8 DEF Manned, Turning
<1>15. UNCHANGED <<turn, server, client>>
  BY DEF Tick
<1> QED BY <1>8, <1>12, <1>13, <1>14, <1>15 DEF IInv

\* The next bank stands on its session, and nothing else is changed.
LEMMA RaiseIs ==
  ASSUME NEW S \in Surfaces, S.next \in BankId, NEW kind \in {"typed", "found"}, NEW s \in SessionId
  PROVE  LET R == Raise(S, kind, s)
             n == S.next
         IN  /\ R \in Surfaces /\ R.sessions = S.sessions /\ R.next = n + 1
             /\ R.bank[n].kind = kind /\ R.bank[n].session = s /\ (R.bank[n].gateway <=> kind = "typed")
             /\ \A b \in BankId : b # n => R.bank[b] = S.bank[b]
<1> DEFINE n == S.next
           one == [kind |-> kind, gateway |-> kind = "typed", session |-> s]
<1>1. S.bank \in [BankId -> Banks] /\ S.sessions \in [SessionId -> Entries] /\ n \in Nat
  BY SurfaceFacts
<1>2. one \in Banks
  <2>1. s \in 0 .. MaxSession
    BY Bounds DEF SessionId
  <2>2. (kind = "typed") \in BOOLEAN
    OBVIOUS
  <2> QED BY <2>1, <2>2 DEF Banks
<1>3. one.kind = kind /\ one.session = s /\ (one.gateway <=> kind = "typed")
  OBVIOUS
<1>4. Raise(S, kind, s) = [S EXCEPT !.bank[n] = one, !.next = @ + 1]
  BY DEF Raise
<1> HIDE DEF one
<1>5. Raise(S, kind, s) = [sessions |-> S.sessions, bank |-> [S.bank EXCEPT ![n] = one], next |-> n + 1]
  BY <1>4, SurfaceFacts
<1>6. n + 1 \in 1 .. MaxBank + 1
  BY <1>1, Bounds DEF BankId
<1> QED BY <1>1, <1>2, <1>3, <1>5, <1>6 DEF Surfaces

\* A bank raised over a typed client is on a session of K, and nothing names it yet.
LEMMA TypedStands ==
  ASSUME NEW S, NEW K, Stands(S, K), S.next \in BankId, NEW s \in SessionId, s \in K
  PROVE  LET R == Raise(S, "typed", s)
         IN  Stands(R, K) /\ Held(R) = Held(S) \cup {S.next}
<1> DEFINE R == Raise(S, "typed", s)
           n == S.next
<1>1. S \in Surfaces /\ Numbered(S) /\ NamesStand(S) /\ EachHasItsOwn(S, K) /\ UnheardHaveOne(S) /\ Capped(S)
  BY DEF Stands
<1>2. /\ R \in Surfaces /\ R.sessions = S.sessions /\ R.next = n + 1
      /\ R.bank[n].kind = "typed" /\ R.bank[n].session = s /\ R.bank[n].gateway
      /\ \A b \in BankId : b # n => R.bank[b] = S.bank[b]
  BY <1>1, RaiseIs
<1> HIDE DEF R
<1>3. n \notin Held(S) /\ Held(S) \subseteq BankId /\ n \in Nat
  BY <1>1, SurfaceFacts DEF Numbered, Held
<1>4. Held(R) = Held(S) \cup {n} /\ Found(R) = Found(S)
  BY <1>2, <1>3 DEF Held, Found
<1>5. Numbered(R)
  BY <1>1, <1>2, <1>3, Bounds DEF Numbered
<1>6. NamesStand(R)
  BY <1>1, <1>2, <1>4 DEF NamesStand
<1>7. EachHasItsOwn(R, K)
  BY <1>1, <1>2, <1>3, <1>4 DEF EachHasItsOwn
<1>8. UnheardHaveOne(R)
  BY <1>1, <1>2, <1>3, <1>4 DEF UnheardHaveOne
<1>9. Capped(R)
  BY <1>1, <1>4 DEF Capped
<1> QED BY <1>2, <1>4, <1>5, <1>6, <1>7, <1>8, <1>9 DEF Stands, R

\* A bank raised for a session found is that session's, while the cap lets it.
LEMMA FoundStands ==
  ASSUME NEW S, NEW H, Stands(S, H), S.next \in BankId, NEW s \in SessionId,
         SlotBank(S.sessions[s]) = 0, MayRaise(S)
  PROVE  LET R == RaiseFound(S, s)
         IN  /\ Stands(R, H) /\ Held(R) = Held(S) \cup {S.next} /\ ~R.bank[S.next].gateway
             /\ \A b \in Held(S) : R.bank[b] = S.bank[b]
             /\ \A r \in SessionId : R.sessions[r] = IF r = s THEN Spawning(S.next) ELSE S.sessions[r]
<1> DEFINE Q == Raise(S, "found", s)
           R == RaiseFound(S, s)
           n == S.next
<1>1. S \in Surfaces /\ Numbered(S) /\ NamesStand(S) /\ EachHasItsOwn(S, H) /\ UnheardHaveOne(S) /\ Capped(S)
  BY DEF Stands
<1>2. /\ Q \in Surfaces /\ Q.sessions = S.sessions /\ Q.next = n + 1
      /\ Q.bank[n].kind = "found" /\ Q.bank[n].session = s /\ ~Q.bank[n].gateway
      /\ \A b \in BankId : b # n => Q.bank[b] = S.bank[b]
  BY <1>1, RaiseIs
<1>3. R = [Q EXCEPT !.sessions[s] = Spawning(n)]
  BY DEF RaiseFound
<1> HIDE DEF Q, R
<1>4. S.sessions \in [SessionId -> Entries] /\ Spawning(n) \in Entries /\ SlotBank(Spawning(n)) = n
  BY <1>1, SurfaceFacts, Named
<1>5. /\ R \in Surfaces /\ R.bank = Q.bank /\ R.next = n + 1
      /\ \A r \in SessionId : R.sessions[r] = IF r = s THEN Spawning(n) ELSE S.sessions[r]
  <2>1. Q = [sessions |-> S.sessions, bank |-> Q.bank, next |-> n + 1] /\ Q.bank \in [BankId -> Banks] /\ n + 1 \in 1 .. MaxBank + 1
    BY <1>2, SurfaceFacts
  <2>2. R = [sessions |-> [S.sessions EXCEPT ![s] = Spawning(n)], bank |-> Q.bank, next |-> n + 1]
    BY <1>3, <2>1
  <2> QED BY <1>4, <2>1, <2>2 DEF Surfaces
<1>6. n \notin Held(S) /\ Held(S) \subseteq BankId /\ n \in Nat /\ n # 0
  BY <1>1, SurfaceFacts, Bounds DEF Numbered, Held
<1>7. Held(R) = Held(S) \cup {n} /\ Found(R) = Found(S) \cup {n} /\ n \notin Found(S)
  <2>1. n \notin Found(S)
    BY <1>1, <1>6, SurfaceFacts
  <2> QED BY <1>2, <1>5, <1>6, <2>1 DEF Held, Found
<1>8. Numbered(R)
  BY <1>1, <1>2, <1>5, <1>6, Bounds DEF Numbered
<1>9. \A r \in SessionId : SlotBank(R.sessions[r]) = IF r = s THEN n ELSE SlotBank(S.sessions[r])
  BY <1>4, <1>5
<1>10. \A r \in SessionId : SlotBank(S.sessions[r]) # n
  BY <1>1, <1>6 DEF NamesStand
<1>11. NamesStand(R)
  BY <1>1, <1>7, <1>9 DEF NamesStand
<1>12. EachHasItsOwn(R, H)
  <2> SUFFICES ASSUME NEW b \in Held(R), R.bank[b].session \notin H
               PROVE  b \in Found(R) /\ SlotBank(R.sessions[R.bank[b].session]) = b
    BY DEF EachHasItsOwn
  <2>1. CASE b = n
    BY <1>2, <1>5, <1>7, <1>9, <2>1
  <2>2. CASE b \in Held(S)
    <3>1. b # n /\ b \in BankId /\ R.bank[b] = S.bank[b]
      BY <1>2, <1>5, <1>6, <2>2
    <3>2. b \in Found(S) /\ SlotBank(S.sessions[S.bank[b].session]) = b /\ S.bank[b].session \in SessionId
      BY <1>1, <2>2, <3>1 DEF EachHasItsOwn, Numbered, Held
    <3>3. S.bank[b].session # s
      BY <3>1, <3>2, Bounds
    <3> QED BY <1>7, <1>9, <3>1, <3>2, <3>3
  <2> QED BY <1>7, <2>1, <2>2
<1>13. UnheardHaveOne(R)
  <2> SUFFICES ASSUME NEW b \in Held(R), NEW r \in SessionId, ~R.bank[b].gateway, SlotBank(R.sessions[r]) = b
               PROVE  r = R.bank[b].session
    BY DEF UnheardHaveOne
  <2>1. CASE b = n
    BY <1>2, <1>5, <1>9, <1>10, <2>1
  <2>2. CASE b \in Held(S)
    <3>1. b # n /\ b \in BankId /\ R.bank[b] = S.bank[b]
      BY <1>2, <1>5, <1>6, <2>2
    <3>2. SlotBank(S.sessions[r]) = b
      BY <1>9, <3>1
    <3> QED BY <1>1, <2>2, <3>1, <3>2 DEF UnheardHaveOne
  <2> QED BY <1>7, <2>1, <2>2
<1>14. Capped(R)
  <2>1. IsFiniteSet(Found(S)) /\ Cardinality(Found(S)) \in Nat
    BY <1>1, SurfaceFacts
  <2>2. Cardinality(Found(S) \cup {n}) = Cardinality(Found(S)) + 1
    BY <1>7, <2>1, FS_AddElement
  <2> QED BY <1>7, <2>1, <2>2, Bounds DEF Capped, MayRaise
<1>15. \A b \in Held(S) : R.bank[b] = S.bank[b]
  BY <1>2, <1>5, <1>6
<1>16. ~R.bank[n].gateway
  BY <1>2, <1>5
<1> QED BY <1>5, <1>7, <1>8, <1>11, <1>12, <1>13, <1>14, <1>15, <1>16 DEF Stands, R

LEMMA AttachKeeps == IInv /\ (\E s \in SessionId : TypeAttach(s)) => IInv'
<1> SUFFICES ASSUME IInv, NEW s \in SessionId, TypeAttach(s) PROVE IInv'
  OBVIOUS
<1> DEFINE H == history.shared
           K == H \cup {s}
           n == surface.next
           D == [Client(s, TRUE) EXCEPT !.asks = 1]
<1>1. /\ server \in Servers /\ Remembers(history) /\ client \in [BankId -> Clients]
      /\ Stands(surface, H) /\ Aged(surface, H, history.died) /\ Manned(surface, client, H)
      /\ Turning(surface, client, H, turn) /\ surface \in Surfaces
  BY DEF IInv, Manned, Stands
<1>2. /\ n \in BankId /\ surface' = Raise(surface, "typed", s) /\ client' = [client EXCEPT ![n] = D]
      /\ history' = [history EXCEPT !.shared = K] /\ turn' = turn /\ DOMAIN turn = {}
      /\ server' = [server EXCEPT !.changes = server.changes - 1] /\ server.changes > 0
  BY DEF TypeAttach, Idle
<1>3. Stands(surface, K) /\ Aged(surface, K, history.died) /\ Manned(surface, client, K)
  <2>1. H \subseteq K
    OBVIOUS
  <2> HIDE DEF H, K
  <2> QED BY <1>1, <2>1, GrowsWithH
<1>4. s \in K
  OBVIOUS
<1>5. Remembers(history') /\ history'.shared = K /\ history'.died = history.died
  BY <1>1, <1>2 DEF Remembers
<1> HIDE DEF K
<1>6. Stands(surface', K) /\ Held(surface') = Held(surface) \cup {n}
  BY <1>2, <1>3, <1>4, TypedStands
<1>7. /\ surface'.sessions = surface.sessions /\ surface'.bank[n].session = s
      /\ \A b \in BankId : b # n => surface'.bank[b] = surface.bank[b]
  BY <1>1, <1>2, RaiseIs
<1>8. Aged(surface', K, history.died)
  BY <1>3, <1>7 DEF Aged
<1>9. D \in Clients /\ D.on = s /\ D.line = <<>>
  <2>1. TRUE \in BOOLEAN
    OBVIOUS
  <2> QED BY <2>1, ClientFacts
<1> HIDE DEF D
<1>10. Manned(surface', client', K)
  <2>1. client' \in [BankId -> Clients] /\ client'[n] = D /\ \A b \in BankId : b # n => client'[b] = client[b]
    BY <1>1, <1>2, <1>9
  <2>2. s # 0
    BY Bounds
  <2>3. Tells(D.line, D.on, K)
    BY <1>9, NothingTold
  <2> QED BY <1>2, <1>3, <1>6, <1>7, <1>9, <2>1, <2>2, <2>3 DEF Manned
<1>11. Turning(surface', client', K, turn')
  BY <1>2 DEF Turning
<1>12. server' \in Servers
  BY <1>1, <1>2 DEF Servers
<1> QED BY <1>5, <1>6, <1>8, <1>10, <1>11, <1>12 DEF IInv

-----------------------------------------------------------------------------
(***************************************************************************)
(* Banks that go.                                                          *)
(***************************************************************************)
\* Banks go with the entries that name them, and no other bank notices.
LEMMA DropStands ==
  ASSUME NEW S, NEW R, NEW H, NEW D \in SUBSET BankId, Stands(S, H), R \in Surfaces, R.next = S.next,
         \A b \in BankId : R.bank[b] = IF b \in D THEN NoBank ELSE S.bank[b],
         \A s \in SessionId : SlotBank(R.sessions[s]) = IF SlotBank(S.sessions[s]) \in D THEN 0 ELSE SlotBank(S.sessions[s])
  PROVE  Stands(R, H) /\ Held(R) = Held(S) \ D
<1>1. S \in Surfaces /\ Numbered(S) /\ NamesStand(S) /\ EachHasItsOwn(S, H) /\ UnheardHaveOne(S) /\ Capped(S)
  BY DEF Stands
<1>2. Held(R) = Held(S) \ D /\ Found(R) = Found(S) \ D
  BY DEF Held, Found, NoBank
<1>3. Numbered(R)
  BY <1>1 DEF Numbered, NoBank
<1>4. NamesStand(R)
  BY <1>1, <1>2 DEF NamesStand
<1>5. EachHasItsOwn(R, H)
  <2> SUFFICES ASSUME NEW b \in Held(R), R.bank[b].session \notin H
               PROVE  b \in Found(R) /\ SlotBank(R.sessions[R.bank[b].session]) = b
    BY DEF EachHasItsOwn
  <2>1. b \in Held(S) /\ b \notin D /\ b \in BankId /\ R.bank[b] = S.bank[b]
    BY <1>1, <1>2, SurfaceFacts
  <2>2. b \in Found(S) /\ SlotBank(S.sessions[S.bank[b].session]) = b /\ S.bank[b].session \in SessionId
    BY <1>1, <2>1 DEF EachHasItsOwn, Numbered, Held
  <2> QED BY <1>2, <2>1, <2>2
<1>6. UnheardHaveOne(R)
  <2> SUFFICES ASSUME NEW b \in Held(R), NEW s \in SessionId, ~R.bank[b].gateway, SlotBank(R.sessions[s]) = b
               PROVE  s = R.bank[b].session
    BY DEF UnheardHaveOne
  <2>1. b \in Held(S) /\ b \notin D /\ b \in BankId /\ R.bank[b] = S.bank[b] /\ b # 0
    BY <1>1, <1>2, SurfaceFacts, Bounds
  <2> QED BY <1>1, <2>1 DEF UnheardHaveOne
<1>7. Capped(R)
  <2>1. IsFiniteSet(Found(S)) /\ Cardinality(Found(S)) \in Nat /\ Found(R) \subseteq Found(S)
    BY <1>1, <1>2, SurfaceFacts
  <2>2. IsFiniteSet(Found(R)) /\ Cardinality(Found(R)) \in Nat /\ Cardinality(Found(R)) <= Cardinality(Found(S))
    BY <2>1, FS_Subset, FS_CardinalityType
  <2> QED BY <1>1, <2>1, <2>2, Bounds DEF Capped
<1> QED BY <1>2, <1>3, <1>4, <1>5, <1>6, <1>7 DEF Stands

\* A surface is its parts.
LEMMA SameSurface ==
  ASSUME NEW S \in Surfaces, NEW R \in Surfaces, R.next = S.next,
         \A s \in SessionId : R.sessions[s] = S.sessions[s], \A b \in BankId : R.bank[b] = S.bank[b]
  PROVE  R = S
<1>1. R.sessions = S.sessions /\ R.bank = S.bank
  <2>1. /\ R.sessions \in [SessionId -> Entries] /\ S.sessions \in [SessionId -> Entries]
        /\ R.bank \in [BankId -> Banks] /\ S.bank \in [BankId -> Banks]
    BY SurfaceFacts
  <2> QED BY <2>1
<1>2. /\ S = [sessions |-> S.sessions, bank |-> S.bank, next |-> S.next]
      /\ R = [sessions |-> R.sessions, bank |-> R.bank, next |-> R.next]
  BY SurfaceFacts
<1> QED BY <1>1, <1>2

LEMMA ForgetIs ==
  ASSUME NEW S \in Surfaces, NEW b \in BankId, NEW left \in Entries
  PROVE  LET R == ForgetBank(S, b, left)
         IN  /\ R \in Surfaces /\ R.next = S.next /\ R.bank = S.bank
             /\ \A s \in SessionId : R.sessions[s] = IF SlotBank(S.sessions[s]) = b THEN left ELSE S.sessions[s]
<1> DEFINE e == [s \in SessionId |-> IF SlotBank(S.sessions[s]) = b THEN left ELSE S.sessions[s]]
           R == ForgetBank(S, b, left)
<1>1. S.sessions \in [SessionId -> Entries]
  BY SurfaceFacts
<1>2. e \in [SessionId -> Entries]
  BY <1>1
<1>3. R = [S EXCEPT !.sessions = e]
  BY DEF ForgetBank
<1>4. \A s \in SessionId : e[s] = IF SlotBank(S.sessions[s]) = b THEN left ELSE S.sessions[s]
  OBVIOUS
<1> HIDE DEF e, R
<1>5. R \in Surfaces /\ R.next = S.next /\ R.bank = S.bank /\ R.sessions = e
  BY <1>2, <1>3 DEF Surfaces
<1> QED BY <1>4, <1>5 DEF R

LEMMA CollapseIs ==
  ASSUME NEW S \in Surfaces, NEW b \in BankId
  PROVE  LET R == CollapseBank(S, b)
         IN  /\ R \in Surfaces /\ R.next = S.next
             /\ \A c \in BankId : R.bank[c] = IF c = b THEN NoBank ELSE S.bank[c]
             /\ \A s \in SessionId : R.sessions[s] = IF SlotBank(S.sessions[s]) # b THEN S.sessions[s] ELSE Absent
<1> DEFINE Q == [S EXCEPT !.bank[b] = NoBank]
<1>1. NoBank \in Banks
  BY Bounds DEF NoBank, Banks
<1>2. Q \in Surfaces /\ Q.next = S.next /\ Q.sessions = S.sessions /\ Q.bank = [S.bank EXCEPT ![b] = NoBank]
  BY <1>1 DEF Surfaces
<1>3. \A c \in BankId : Q.bank[c] = IF c = b THEN NoBank ELSE S.bank[c]
  BY <1>2 DEF Surfaces
<1>4. CollapseBank(S, b) = ForgetBank(Q, b, Absent) /\ Absent \in Entries
  BY Unnamed DEF CollapseBank
<1> DEFINE R == ForgetBank(Q, b, Absent)
<1> HIDE DEF Q
<1>5. /\ R \in Surfaces /\ R.next = Q.next /\ R.bank = Q.bank
      /\ \A s \in SessionId : R.sessions[s] = IF SlotBank(Q.sessions[s]) = b THEN Absent ELSE Q.sessions[s]
  BY <1>2, <1>4, ForgetIs
<1> HIDE DEF R
<1>6. CollapseBank(S, b) = R
  BY <1>4 DEF R
<1>7. /\ R \in Surfaces /\ R.next = S.next
      /\ \A c \in BankId : R.bank[c] = IF c = b THEN NoBank ELSE S.bank[c]
      /\ \A s \in SessionId : R.sessions[s] = IF SlotBank(S.sessions[s]) # b THEN S.sessions[s] ELSE Absent
  BY <1>2, <1>3, <1>5
<1> QED BY <1>6, <1>7

\* What is left when all of D have gone.
Shut(S, D) ==
  [sessions |-> [s \in SessionId |-> IF SlotBank(S.sessions[s]) \notin D THEN S.sessions[s]
                                     ELSE IF S.bank[SlotBank(S.sessions[s])].gateway THEN Absent ELSE Failed(0)],
   bank |-> [b \in BankId |-> IF b \in D THEN NoBank ELSE S.bank[b]],
   next |-> S.next]

LEMMA ShutIs ==
  ASSUME NEW S \in Surfaces, NEW D \in SUBSET BankId
  PROVE  /\ Shut(S, D) \in Surfaces /\ Shut(S, D).next = S.next
         /\ \A b \in BankId : Shut(S, D).bank[b] = IF b \in D THEN NoBank ELSE S.bank[b]
         /\ \A s \in SessionId :
              Shut(S, D).sessions[s] = IF SlotBank(S.sessions[s]) \notin D THEN S.sessions[s]
                                       ELSE IF S.bank[SlotBank(S.sessions[s])].gateway THEN Absent ELSE Failed(0)
<1>1. NoBank \in Banks
  BY Bounds DEF NoBank, Banks
<1>2. S.sessions \in [SessionId -> Entries] /\ S.bank \in [BankId -> Banks] /\ S.next \in 1 .. MaxBank + 1
  BY SurfaceFacts
<1>3. Failed(0) \in Entries /\ Absent \in Entries
  BY Unnamed, Bounds
<1>4. Shut(S, D).sessions \in [SessionId -> Entries]
  BY <1>2, <1>3 DEF Shut
<1>5. Shut(S, D).bank \in [BankId -> Banks]
  BY <1>1, <1>2 DEF Shut
<1>6. Shut(S, D) \in Surfaces
  BY <1>2, <1>4, <1>5 DEF Shut, Surfaces
<1> QED BY <1>6 DEF Shut

LEMMA DiedIs ==
  ASSUME NEW S \in Surfaces, NEW D \in SUBSET BankId, NEW k \in BankId, k \notin D
  PROVE  Died(Shut(S, D), k) = Shut(S, D \cup {k})
<1> DEFINE Q == Shut(S, D)
           R == Shut(S, D \cup {k})
           P == Died(Q, k)
<1>1. /\ Q \in Surfaces /\ Q.next = S.next
      /\ \A b \in BankId : Q.bank[b] = IF b \in D THEN NoBank ELSE S.bank[b]
      /\ \A s \in SessionId :
           Q.sessions[s] = IF SlotBank(S.sessions[s]) \notin D THEN S.sessions[s]
                           ELSE IF S.bank[SlotBank(S.sessions[s])].gateway THEN Absent ELSE Failed(0)
  BY ShutIs
<1>2. D \cup {k} \in SUBSET BankId
  OBVIOUS
<1>3. /\ R \in Surfaces /\ R.next = S.next
      /\ \A b \in BankId : R.bank[b] = IF b \in D \cup {k} THEN NoBank ELSE S.bank[b]
      /\ \A s \in SessionId :
           R.sessions[s] = IF SlotBank(S.sessions[s]) \notin D \cup {k} THEN S.sessions[s]
                           ELSE IF S.bank[SlotBank(S.sessions[s])].gateway THEN Absent ELSE Failed(0)
  BY <1>2, ShutIs
<1>4. SlotBank(Absent) = 0 /\ SlotBank(Failed(0)) = 0 /\ k # 0 /\ 0 \notin D
  BY Unnamed, Bounds
<1>5. Q.bank[k].gateway = S.bank[k].gateway
  BY <1>1
<1> HIDE DEF Q, R
<1>6. /\ P \in Surfaces /\ P.next = S.next
      /\ \A b \in BankId : P.bank[b] = IF b = k THEN NoBank ELSE Q.bank[b]
      /\ \A s \in SessionId : P.sessions[s] = IF SlotBank(Q.sessions[s]) # k THEN Q.sessions[s]
                                              ELSE IF Q.bank[k].gateway THEN Absent ELSE Failed(0)
  <2>1. CASE Q.bank[k].gateway
    <3>1. P = CollapseBank(Q, k)
      BY <2>1 DEF Died
    <3> QED BY <1>1, <2>1, <3>1, CollapseIs
  <2>2. CASE ~Q.bank[k].gateway
    <3> DEFINE F == ForgetBank(Q, k, Failed(0))
    <3>1. P = CollapseBank(F, k) /\ Failed(0) \in Entries
      BY <2>2, Unnamed, Bounds DEF Died
    <3>2. /\ F \in Surfaces /\ F.next = Q.next /\ F.bank = Q.bank
          /\ \A s \in SessionId : F.sessions[s] = IF SlotBank(Q.sessions[s]) # k THEN Q.sessions[s] ELSE Failed(0)
      BY <1>1, <3>1, ForgetIs
    <3> HIDE DEF F
    <3>3. /\ P \in Surfaces /\ P.next = F.next
          /\ \A c \in BankId : P.bank[c] = IF c = k THEN NoBank ELSE F.bank[c]
          /\ \A s \in SessionId : P.sessions[s] = IF SlotBank(F.sessions[s]) # k THEN F.sessions[s] ELSE Absent
      BY <3>1, <3>2, CollapseIs
    <3> QED BY <1>1, <1>4, <2>2, <3>2, <3>3
  <2> QED BY <2>1, <2>2
<1> HIDE DEF P
<1>7. \A b \in BankId : P.bank[b] = R.bank[b]
  BY <1>1, <1>3, <1>6
<1>8. \A s \in SessionId : P.sessions[s] = R.sessions[s]
  BY <1>1, <1>3, <1>4, <1>5, <1>6
<1>9. P = R
  BY <1>3, <1>6, <1>7, <1>8, SameSurface
<1> QED BY <1>9 DEF P, Q, R

LEMMA DiedStays == ASSUME NEW S \in Surfaces, NEW b \in BankId PROVE Died(S, b) \in Surfaces
<1>1. Failed(0) \in Entries
  BY Unnamed, Bounds
<1>2. CASE S.bank[b].gateway
  BY <1>2, CollapseIs DEF Died
<1>3. CASE ~S.bank[b].gateway
  <2> DEFINE F == ForgetBank(S, b, Failed(0))
  <2>1. F \in Surfaces
    BY <1>1, ForgetIs
  <2>2. Died(S, b) = CollapseBank(F, b)
    BY <1>3 DEF Died
  <2> HIDE DEF F
  <2> QED BY <2>1, <2>2, CollapseIs
<1> QED BY <1>2, <1>3

\* One after the other or all at once.
LEMMA BuriedIs ==
  ASSUME NEW S \in Surfaces, NEW eof \in SUBSET BankId
  PROVE  Buried(S, eof) = Shut(S, eof)
<1> DEFINE n == MaxBank
           s == [b \in BankId |-> b]
           One(R, b) == IF b \in eof THEN Died(R, b) ELSE R
           T == Surfaces
           G == [p \in (1 .. n) \X T |-> One(p[2], p[1])]
           Fold(it) == it = [U \in SUBSET DOMAIN s |-> IF U = {} THEN S ELSE One(it[U \ {Max(U)}], s[Max(U)])]
           it == CHOOSE it : it = [U \in SUBSET DOMAIN s |-> IF U = {} THEN S ELSE One(it[U \ {Max(U)}], s[Max(U)])]
<1>1. n \in Nat /\ DOMAIN s = 1 .. n /\ BankId = 1 .. n /\ \A k \in 1 .. n : s[k] = k
  BY Bounds DEF BankId
<1>2. Buried(S, eof) = it[DOMAIN s]
  BY DEF Buried, FoldLeft, MapThenFoldSet
<1>3. S \in T
  OBVIOUS
<1>4. ASSUME NEW k \in 1 .. n, NEW v \in T PROVE G[<<k, v>>] = One(v, k) /\ G[<<k, v>>] \in T
  BY <1>1, DiedStays
<1> HIDE DEF G, n, s, One
<1>5. PICK f \in [SUBSET (1 .. n) -> T] : Folding(n, S, G, f)
  <2> HIDE DEF T
  <2> QED BY <1>1, <1>3, <1>4, FoldExists
<1>6. ASSUME NEW U \in SUBSET (1 .. n), U # {} PROVE Max(U) \in 1 .. n /\ U \ {Max(U)} \in SUBSET (1 .. n)
  BY <1>1, <1>6, MaxOfPositions
<1> HIDE DEF T
<1>7. Fold(f)
  <2>1. ASSUME NEW U \in SUBSET (1 .. n), U # {}
        PROVE  G[<<Max(U), f[U \ {Max(U)}]>>] = One(f[U \ {Max(U)}], s[Max(U)])
    <3>1. Max(U) \in 1 .. n /\ U \ {Max(U)} \in SUBSET (1 .. n)
      BY <1>6, <2>1
    <3> QED BY <1>1, <1>4, <3>1
  <2> QED BY <1>1, <1>5, <2>1 DEF Folding
<1>8. Fold(it)
  BY <1>7
<1> HIDE DEF it
<1>9. it[{}] = S
  BY <1>8
<1>10. Steps(n, T, S, G, it)
  <2> SUFFICES ASSUME NEW U \in SUBSET (1 .. n), U # {}, it[U \ {Max(U)}] \in T
               PROVE  it[U] = G[<<Max(U), it[U \ {Max(U)}]>>]
    BY <1>1, <1>3, <1>4, <1>9 DEF Steps
  <2>1. Max(U) \in 1 .. n /\ s[Max(U)] = Max(U)
    BY <1>1, <1>6
  <2>2. it[U] = One(it[U \ {Max(U)}], s[Max(U)])
    BY <1>1, <1>8
  <2> QED BY <1>4, <2>1, <2>2
<1>11. Walks(n, T, S, G, it[1 .. n])
  BY <1>10, FoldWalks
<1>12. PICK h \in [0 .. n -> T] : h[0] = S /\ h[n] = it[1 .. n] /\ \A k \in 1 .. n : h[k] = G[<<k, h[k - 1]>>]
  BY <1>11 DEF Walks
<1> DEFINE B == {k \in 0 .. n : h[k] = Shut(S, eof \cap (1 .. k))}
<1>13. 0 \in B
  <2>1. eof \cap (1 .. 0) = {} /\ 0 \in 0 .. n /\ {} \in SUBSET BankId
    BY <1>1
  <2>2. Shut(S, {}) = S
    <3>1. /\ Shut(S, {}) \in Surfaces /\ Shut(S, {}).next = S.next
          /\ \A b \in BankId : Shut(S, {}).bank[b] = S.bank[b]
          /\ \A r \in SessionId : Shut(S, {}).sessions[r] = S.sessions[r]
      BY <2>1, ShutIs
    <3> QED BY <3>1, SameSurface
  <2> QED BY <1>12, <2>1, <2>2
<1>14. ASSUME NEW k \in 1 .. n, k - 1 \in B PROVE k \in B
  <2> DEFINE D == eof \cap (1 .. k - 1)
  <2>1. D \in SUBSET BankId /\ k \in BankId /\ k \notin D /\ k \in 0 .. n
    BY <1>1
  <2>2. h[k - 1] = Shut(S, D) /\ h[k - 1] \in T
    BY <1>12, <1>14
  <2>3. h[k] = One(Shut(S, D), k)
    BY <1>4, <1>12, <2>2
  <2>4. CASE k \in eof
    <3>1. eof \cap (1 .. k) = D \cup {k}
      BY <2>4
    <3>2. h[k] = Died(Shut(S, D), k)
      BY <2>3, <2>4 DEF One
    <3> HIDE DEF D
    <3>3. h[k] = Shut(S, D \cup {k})
      BY <2>1, <3>2, DiedIs
    <3> QED BY <2>1, <3>1, <3>3
  <2>5. CASE k \notin eof
    <3>1. eof \cap (1 .. k) = D
      BY <2>5
    <3>2. h[k] = Shut(S, D)
      BY <2>3, <2>5 DEF One
    <3> HIDE DEF D
    <3> QED BY <2>1, <3>1, <3>2
  <2> QED BY <2>4, <2>5
<1>15. n \in B
  <2>1. n \in Nat
    BY <1>1
  <2> HIDE DEF B
  <2>2. \A k \in 0 .. n : k \in B
    BY <1>13, <1>14, <2>1, StepByStep
  <2> QED BY <2>1, <2>2
<1>16. eof \cap (1 .. n) = eof
  BY <1>1
<1> QED BY <1>1, <1>2, <1>12, <1>15, <1>16

LEMMA SteadyFacts ==
  ASSUME NEW h, Remembers(h), NEW S
  PROVE  /\ Remembers(Steady(h, S)) /\ Steady(h, S).shared = h.shared /\ Steady(h, S).died = h.died
         /\ Steady(h, S).steady = IF h.steady \in Held(S) /\ Enumerator(S) \in {0, h.steady} THEN h.steady ELSE 0
         /\ Steady(h, S).owed = {s \in h.owed : S.sessions[s] = Absent}
         /\ Steady(h, S).capped = h.capped
BY DEF Remembers, Steady

\* The history is Steady's of what the step leaves, but for what capped says.
Steadied ==
  /\ history'.shared = history.shared
  /\ history'.steady # 0 =>
       /\ history'.steady = history.steady /\ history.steady \in Held(surface')
       /\ Enumerator(surface') \in {0, history.steady}
  /\ history'.owed = {s \in history.owed : surface'.sessions[s] = Absent}
  /\ ~history'.capped => ~history.capped

\* What the wires leave of a bank that still stands: its client has been
\* asked where it has just opened, and what it said is to be heard.
WiresLeave ==
  /\ server' = server /\ Steadied
  /\ \A s \in SessionId : surface'.sessions[s].slot = "spawning" => surface.sessions[s].slot = "spawning"
  /\ \A b \in Held(surface') :
       /\ b \in Held(surface)
       /\ client'[b].opened <=> client[b].opened
       /\ client'[b].gone <=> client[b].gone
       /\ client[b].asks # 0 => client'[b].asks # 0
       /\ surface'.bank[b].gateway =>
            surface.bank[b].gateway \/ (client[b].opened /\ (client[b].gone \/ client'[b].asks # 0))
       /\ client'[b].line = client[b].line \/ (b \in DOMAIN turn' /\ turn'[b] = client[b].line)

\* The wires that closed, among them the failed, while others opened and spoke.
LEMMA WiresKeep == IInv /\ PumpWires => IInv' /\ WiresLeave
<1> SUFFICES ASSUME IInv, PumpWires PROVE IInv' /\ WiresLeave
  OBVIOUS
<1> DEFINE H == history.shared
<1>1. /\ server \in Servers /\ Remembers(history) /\ client \in [BankId -> Clients]
      /\ Stands(surface, H) /\ Aged(surface, H, history.died) /\ Manned(surface, client, H) /\ surface \in Surfaces
  BY DEF IInv, Manned, Stands
<1>2. PICK late : \E eof \in SUBSET Found(surface) : TurnToWires(late, eof)
  <2>1. PICK late : \E eof \in SUBSET {b \in Found(surface) \ late : client[b].gone} : TurnToWires(late, eof)
    BY DEF PumpWires
  <2>2. PICK eof : eof \subseteq {b \in Found(surface) \ late : client[b].gone} /\ TurnToWires(late, eof)
    BY <2>1
  <2>3. eof \in SUBSET Found(surface)
    BY <2>2
  <2> QED BY <2>2, <2>3
<1>0. PICK eof \in SUBSET Found(surface) : TurnToWires(late, eof)
  BY <1>2
<1> DEFINE opened == {b \in Found(surface) \ (late \cup eof) : ~surface.bank[b].gateway /\ client[b].opened}
           S1     == [surface EXCEPT !.bank = [b \in BankId |-> IF b \in opened THEN [surface.bank[b] EXCEPT !.gateway = TRUE] ELSE surface.bank[b]]]
           S2     == surface'
           reads  == {b \in Held(S2) \ late : S2.bank[b].gateway /\ client[b].line # <<>>}
           failed == {s \in SessionId : \E b \in eof : ~surface.bank[b].gateway /\ surface.bank[b].session = s}
           died   == [s \in SessionId |-> IF s \in failed THEN 0 ELSE history.died[s]]
<1>3. /\ S2 = Buried(S1, eof)
      /\ turn' = [b \in reads |-> client[b].line]
      /\ \A b \in BankId : b \in eof => client'[b] = NoClient
      /\ \A b \in BankId : b \notin eof =>
           client'[b] = [client[b] EXCEPT !.line = IF b \in reads THEN <<>> ELSE @,
                                          !.asks = IF b \in opened /\ Lives(b) THEN @ + 1 ELSE @]
      /\ DOMAIN client' = BankId /\ client' = [b \in BankId |-> client'[b]]
      /\ server' = server
  BY <1>0 DEF TurnToWires
<1>4. eof \subseteq BankId /\ eof \subseteq Held(surface) /\ eof \in SUBSET BankId
  BY <1>1, SurfaceFacts
<1>5. history' = [Steady(history, S2) EXCEPT !.died = died]
  <2>1. Steady(history, S2).died = history.died
    BY <1>1, SteadyFacts
  <2> QED BY <1>0, <2>1 DEF TurnToWires
<1>6. opened \cap eof = {}
  OBVIOUS
<1>7. /\ S1 \in Surfaces /\ S1.sessions = surface.sessions /\ S1.next = surface.next
      /\ \A b \in BankId : /\ S1.bank[b].kind = surface.bank[b].kind /\ S1.bank[b].session = surface.bank[b].session
                           /\ S1.bank[b].gateway <=> b \in opened \/ surface.bank[b].gateway
  <2> DEFINE bank == [b \in BankId |-> IF b \in opened THEN [surface.bank[b] EXCEPT !.gateway = TRUE] ELSE surface.bank[b]]
  <2>1. \A b \in BankId : surface.bank[b] \in Banks
    BY <1>1, SurfaceFacts
  <2>2. ASSUME NEW one \in Banks
        PROVE  LET two == [one EXCEPT !.gateway = TRUE]
               IN  two \in Banks /\ two.kind = one.kind /\ two.session = one.session /\ two.gateway
    BY DEF Banks
  <2>3. S1 = [surface EXCEPT !.bank = bank]
    OBVIOUS
  <2> HIDE DEF opened
  <2>4. \A b \in BankId : /\ bank[b] \in Banks /\ bank[b].kind = surface.bank[b].kind /\ bank[b].session = surface.bank[b].session
                          /\ bank[b].gateway <=> b \in opened \/ surface.bank[b].gateway
    BY <2>1, <2>2
  <2>5. bank \in [BankId -> Banks]
    BY <2>4
  <2> HIDE DEF bank
  <2> QED BY <1>1, <2>3, <2>4, <2>5 DEF Surfaces
<1> HIDE DEF S1, opened
<1>8. Stands(S1, H) /\ Held(S1) = Held(surface)
  <2>1. Held(S1) = Held(surface) /\ Found(S1) = Found(surface)
    BY <1>7 DEF Held, Found
  <2>2. Numbered(S1) /\ NamesStand(S1) /\ Capped(S1)
    BY <1>1, <1>7, <2>1 DEF Stands, Numbered, NamesStand, Capped
  <2>3. EachHasItsOwn(S1, H)
    BY <1>1, <1>7, <2>1 DEF Stands, EachHasItsOwn, Held
  <2>4. UnheardHaveOne(S1)
    BY <1>1, <1>7, <2>1 DEF Stands, UnheardHaveOne, Held
  <2> QED BY <1>7, <2>1, <2>2, <2>3, <2>4 DEF Stands
<1>9. /\ S2 \in Surfaces /\ S2.next = S1.next
      /\ \A b \in BankId : S2.bank[b] = IF b \in eof THEN NoBank ELSE S1.bank[b]
      /\ \A s \in SessionId :
           S2.sessions[s] = IF SlotBank(S1.sessions[s]) \notin eof THEN S1.sessions[s]
                            ELSE IF S1.bank[SlotBank(S1.sessions[s])].gateway THEN Absent ELSE Failed(0)
  <2>1. S2 = Shut(S1, eof)
    BY <1>3, <1>4, <1>7, BuriedIs
  <2> HIDE DEF S2
  <2> QED BY <1>4, <1>7, <2>1, ShutIs
<1> HIDE DEF S2
<1>10. Stands(S2, H) /\ Held(S2) = Held(surface) \ eof
  <2>1. SlotBank(Absent) = 0 /\ SlotBank(Failed(0)) = 0
    BY Unnamed, Bounds
  <2>2. \A s \in SessionId : SlotBank(S2.sessions[s]) = IF SlotBank(S1.sessions[s]) \in eof THEN 0 ELSE SlotBank(S1.sessions[s])
    BY <1>9, <2>1
  <2> QED BY <1>4, <1>8, <1>9, <2>2, DropStands
<1>11. Aged(S2, H, died)
  <2> SUFFICES ASSUME NEW s \in SessionId \ H
               PROVE  died[s] = IF S2.sessions[s].slot = "failed" THEN S2.sessions[s].n ELSE RESPAWN_BACKOFF
    BY DEF Aged
  <2> DEFINE e == surface.sessions[s]
             c == SlotBank(e)
  <2>1. died[s] = IF s \in failed THEN 0 ELSE history.died[s]
    OBVIOUS
  <2>2. history.died[s] = IF e.slot = "failed" THEN e.n ELSE RESPAWN_BACKOFF
    BY <1>1 DEF Aged
  <2>3. e \in Entries
    BY <1>1, SurfaceFacts
  <2>4. s \in failed => c \in eof /\ ~surface.bank[c].gateway
    <3> SUFFICES ASSUME NEW b \in eof, ~surface.bank[b].gateway, surface.bank[b].session = s
                 PROVE  c \in eof /\ ~surface.bank[c].gateway
      OBVIOUS
    <3>1. c = b
      BY <1>1, <1>4 DEF Stands, EachHasItsOwn
    <3> QED BY <3>1
  <2>5. S2.sessions[s] = IF c \notin eof THEN e ELSE IF surface.bank[c].gateway THEN Absent ELSE Failed(0)
    BY <1>4, <1>6, <1>7, <1>9
  <2>6. Failed(0).slot = "failed" /\ Failed(0).n = 0 /\ Absent.slot = "absent"
    BY Unnamed, Bounds
  <2>7. c \in eof /\ ~surface.bank[c].gateway => s \in failed
    BY <1>1, <1>4 DEF Stands, UnheardHaveOne
  <2>8. c \in eof => e.slot # "failed"
    BY <1>4, <2>3, EntryFacts, Bounds
  <2> HIDE DEF died, failed, e, c
  <2> QED BY <2>1, <2>2, <2>4, <2>5, <2>6, <2>7, <2>8
<1>12. died \in [SessionId -> 0 .. RESPAWN_BACKOFF]
  <2>1. history.died \in [SessionId -> 0 .. RESPAWN_BACKOFF] /\ 0 \in 0 .. RESPAWN_BACKOFF
    BY <1>1, Bounds DEF Remembers
  <2> QED BY <2>1
<1> HIDE DEF died
<1>13. Remembers(history') /\ history'.shared = H /\ history'.died = died
  <2> DEFINE h == Steady(history, S2)
  <2>1. Remembers(h) /\ h.shared = H
    BY <1>1, SteadyFacts
  <2>2. history' = [h EXCEPT !.died = died]
    BY <1>5
  <2> HIDE DEF h
  <2> QED BY <1>12, <2>1, <2>2 DEF Remembers
<1>14. \A b \in BankId : b \notin eof =>
         /\ client'[b] \in Clients /\ client'[b].on = client[b].on
         /\ client'[b].line = client[b].line \/ client'[b].line = <<>>
  <2> SUFFICES ASSUME NEW b \in BankId, b \notin eof
               PROVE  /\ client'[b] \in Clients /\ client'[b].on = client[b].on
                      /\ client'[b].line = client[b].line \/ client'[b].line = <<>>
    OBVIOUS
  <2>1. PICK line, asks : /\ client'[b] = [client[b] EXCEPT !.line = line, !.asks = asks]
                          /\ line \in {<<>>, client[b].line} /\ asks \in {client[b].asks, client[b].asks + 1}
    <3> DEFINE line == IF b \in reads THEN <<>> ELSE client[b].line
               asks == IF b \in opened /\ Lives(b) THEN client[b].asks + 1 ELSE client[b].asks
    <3>1. client'[b] = [client[b] EXCEPT !.line = line, !.asks = asks]
      BY <1>3
    <3> HIDE DEF reads
    <3>2. line \in {<<>>, client[b].line} /\ asks \in {client[b].asks, client[b].asks + 1}
      OBVIOUS
    <3> HIDE DEF line, asks
    <3> QED BY <3>1, <3>2
  <2>2. client[b] \in Clients /\ client[b].line \in Seq(Message) /\ client[b].asks \in Nat
    BY <1>1 DEF Clients
  <2>3. line \in Seq(Message) /\ asks \in Nat
    <3>1. <<>> \in Seq(Message)
      OBVIOUS
    <3>2. line = <<>> \/ line = client[b].line
      BY <2>1
    <3>3. line \in Seq(Message)
      BY <2>2, <3>1, <3>2
    <3>4. asks \in Nat
      BY <2>1, <2>2
    <3> QED BY <3>3, <3>4
  <2> QED BY <2>1, <2>2, <2>3 DEF Clients
<1>15. Manned(S2, client', H)
  <2>1. client' \in [BankId -> Clients]
    BY <1>3, <1>14, ClientFacts
  <2> SUFFICES ASSUME NEW b \in BankId
               PROVE  /\ b \in Held(S2) <=> client'[b].on # 0
                      /\ b \in Held(S2) => client'[b].on \in H \/ client'[b].on = S2.bank[b].session
                      /\ Tells(client'[b].line, client'[b].on, H)
    BY <2>1 DEF Manned
  <2>2. CASE b \in eof
    <3>1. client'[b].on = 0 /\ client'[b].line = <<>> /\ b \notin Held(S2)
      BY <1>3, <1>10, <2>2, ClientFacts
    <3> QED BY <3>1, NothingTold
  <2>3. CASE b \notin eof
    <3>1. S2.bank[b].session = surface.bank[b].session /\ (b \in Held(S2) <=> b \in Held(surface))
      BY <1>7, <1>9, <1>10, <2>3
    <3>2. /\ b \in Held(surface) <=> client[b].on # 0
          /\ b \in Held(surface) => client[b].on \in H \/ client[b].on = surface.bank[b].session
          /\ Tells(client[b].line, client[b].on, H)
      BY <1>1 DEF Manned
    <3> QED BY <1>14, <2>3, <3>1, <3>2, NothingTold
  <2> QED BY <2>2, <2>3
<1>16. Turning(S2, client', H, turn')
  <2> SUFFICES ASSUME NEW b \in DOMAIN turn'
               PROVE  /\ b \in Held(S2) /\ S2.bank[b].gateway
                      /\ turn'[b] \in Seq(Message) /\ Tells(turn'[b], client'[b].on, H)
    BY DEF Turning
  <2>1. b \in Held(S2) /\ S2.bank[b].gateway /\ turn'[b] = client[b].line
    BY <1>3
  <2>2. b \in BankId /\ b \notin eof
    BY <1>4, <1>10, <2>1, SurfaceFacts, <1>1
  <2>3. client[b].line \in Seq(Message) /\ Tells(client[b].line, client[b].on, H) /\ client'[b].on = client[b].on
    BY <1>1, <1>14, <2>2 DEF Manned, Clients
  <2> QED BY <2>1, <2>3
<1>17. IInv'
  BY <1>1, <1>3, <1>10, <1>11, <1>13, <1>15, <1>16 DEF IInv, S2
<1>18. Steadied
  <2> DEFINE h == Steady(history, S2)
  <2>1. /\ h.steady = IF history.steady \in Held(S2) /\ Enumerator(S2) \in {0, history.steady} THEN history.steady ELSE 0
        /\ h.owed = {s \in history.owed : S2.sessions[s] = Absent} /\ h.capped = history.capped
    BY <1>1, SteadyFacts
  <2>2. history' = [h EXCEPT !.died = died]
    BY <1>5
  <2> HIDE DEF h
  <2>3. history'.steady = h.steady /\ history'.owed = h.owed /\ history'.capped = h.capped
    BY <2>2
  <2> QED BY <1>13, <2>1, <2>3 DEF Steadied, S2
<1>19. \A s \in SessionId : S2.sessions[s].slot = "spawning" => surface.sessions[s].slot = "spawning"
  <2>1. Failed(0).slot = "failed" /\ Absent.slot = "absent"
    BY Unnamed, Bounds
  <2> QED BY <1>7, <1>9, <2>1
<1>20. ASSUME NEW b \in Held(S2)
       PROVE  /\ b \in Held(surface)
              /\ client'[b].opened <=> client[b].opened
              /\ client'[b].gone <=> client[b].gone
              /\ client[b].asks # 0 => client'[b].asks # 0
              /\ S2.bank[b].gateway =>
                   surface.bank[b].gateway \/ (client[b].opened /\ (client[b].gone \/ client'[b].asks # 0))
              /\ client'[b].line = client[b].line \/ (b \in DOMAIN turn' /\ turn'[b] = client[b].line)
  <2> DEFINE line == IF b \in reads THEN <<>> ELSE client[b].line
             asks == IF b \in opened /\ Lives(b) THEN client[b].asks + 1 ELSE client[b].asks
  <2>1. b \in Held(surface) /\ b \notin eof /\ b \in BankId /\ client[b].on # 0
    BY <1>1, <1>10, SurfaceFacts DEF Manned
  <2>2. client'[b] = [client[b] EXCEPT !.line = line, !.asks = asks]
    BY <1>3, <2>1
  <2>3. client[b] \in Clients
    BY <1>1, <2>1
  <2> HIDE DEF line, asks
  <2>4. client'[b].opened = client[b].opened /\ client'[b].gone = client[b].gone /\ client'[b].line = line /\ client'[b].asks = asks
    BY <2>2, <2>3 DEF Clients
  <2>5. client[b].asks # 0 => asks # 0
    BY <2>3 DEF asks, Clients
  <2>6. b \in opened => client[b].opened /\ (client[b].gone \/ asks # 0)
    BY <2>1, <2>3 DEF asks, opened, Clients, Lives
  <2>7. S2.bank[b].gateway => b \in opened \/ surface.bank[b].gateway
    BY <1>7, <1>9, <2>1
  <2>8. line = client[b].line \/ (b \in DOMAIN turn' /\ turn'[b] = client[b].line)
    BY <1>3 DEF line
  <2> QED BY <2>1, <2>4, <2>5, <2>6, <2>7, <2>8
<1>21. WiresLeave
  BY <1>3, <1>18, <1>19, <1>20 DEF WiresLeave, S2
<1> QED BY <1>17, <1>21

-----------------------------------------------------------------------------
(***************************************************************************)
(* A gateway's turn.                                                       *)
(***************************************************************************)
\* What a listing leaves of S: more banks may stand, each as it should.
Grown(S, H, died) ==
  {R \in Surfaces : /\ Stands(R, H) /\ Aged(R, H, died) /\ Held(S) \subseteq Held(R)
                    /\ \A c \in Held(S) : R.bank[c] = S.bank[c]
                    /\ \A c \in Held(R) \ Held(S) : ~R.bank[c].gateway}

\* And who is named stays so while banks are raised.
After(S, H, died) ==
  {R \in Grown(S, H, died) : \A r \in SessionId : SlotBank(S.sessions[r]) # 0 => R.sessions[r] = S.sessions[r]}

OnRegister(S, b) == \E r \in SessionId : SlotBank(S.sessions[r]) = b

LEMMA RaisesOne ==
  ASSUME NEW S, NEW H, NEW died, NEW R \in After(S, H, died), NEW s \in SessionId,
         Owed(R.sessions[s]), R.next \in BankId, MayRaise(R)
  PROVE  RaiseFound(R, s) \in After(S, H, died)
<1> DEFINE Q == RaiseFound(R, s)
<1>1. /\ Stands(R, H) /\ Aged(R, H, died) /\ Held(S) \subseteq Held(R) /\ R \in Surfaces
      /\ \A c \in Held(S) : R.bank[c] = S.bank[c]
      /\ \A c \in Held(R) \ Held(S) : ~R.bank[c].gateway
      /\ \A r \in SessionId : SlotBank(S.sessions[r]) # 0 => R.sessions[r] = S.sessions[r]
  BY DEF After, Grown
<1>2. R.sessions[s] \in Entries
  BY <1>1, SurfaceFacts
<1>3. SlotBank(R.sessions[s]) = 0 /\ (R.sessions[s].slot = "failed" => R.sessions[s].n = RESPAWN_BACKOFF)
  BY <1>2, EntryFacts
<1>4. /\ Stands(Q, H) /\ Held(Q) = Held(R) \cup {R.next} /\ ~Q.bank[R.next].gateway
      /\ \A b \in Held(R) : Q.bank[b] = R.bank[b]
      /\ \A r \in SessionId : Q.sessions[r] = IF r = s THEN Spawning(R.next) ELSE R.sessions[r]
  BY <1>1, <1>3, FoundStands
<1> HIDE DEF Q
<1>5. Spawning(R.next).slot = "spawning"
  BY Named
<1>6. Aged(Q, H, died)
  BY <1>1, <1>3, <1>4, <1>5 DEF Aged
<1>7. Q \in Surfaces
  BY <1>4 DEF Stands
<1>8. /\ Held(S) \subseteq Held(Q) /\ \A c \in Held(S) : Q.bank[c] = S.bank[c]
      /\ \A c \in Held(Q) \ Held(S) : ~Q.bank[c].gateway
  BY <1>1, <1>4
<1>9. ASSUME NEW r \in SessionId, SlotBank(S.sessions[r]) # 0 PROVE Q.sessions[r] = S.sessions[r]
  <2>1. R.sessions[r] = S.sessions[r]
    BY <1>1, <1>9
  <2>2. r # s
    BY <1>3, <1>9, <2>1
  <2> QED BY <1>4, <2>1, <2>2
<1>10. Q \in After(S, H, died)
  BY <1>4, <1>6, <1>7, <1>8, <1>9 DEF After, Grown
<1> QED BY <1>10 DEF Q

LEMMA RaisedKeeps ==
  ASSUME NEW S \in Surfaces, NEW H, NEW died, Stands(S, H), Aged(S, H, died), NEW listed
  PROVE  Raised(S, listed) \in After(S, H, died)
<1> DEFINE n == MaxSession
           s == [r \in SessionId |-> r]
           One(R, r) == IF r \in listed /\ Owed(R.sessions[r]) /\ R.next \in BankId /\ MayRaise(R) THEN RaiseFound(R, r) ELSE R
           T == After(S, H, died)
           G == [p \in (1 .. n) \X T |-> One(p[2], p[1])]
           Fold(it) == it = [U \in SUBSET DOMAIN s |-> IF U = {} THEN S ELSE One(it[U \ {Max(U)}], s[Max(U)])]
           it == CHOOSE it : it = [U \in SUBSET DOMAIN s |-> IF U = {} THEN S ELSE One(it[U \ {Max(U)}], s[Max(U)])]
<1>1. n \in Nat /\ DOMAIN s = 1 .. n /\ SessionId = 1 .. n /\ \A k \in 1 .. n : s[k] = k
  BY Bounds DEF SessionId
<1>2. Raised(S, listed) = it[DOMAIN s]
  BY DEF Raised, FoldLeft, MapThenFoldSet
<1>3. S \in T
  BY DEF After, Grown
<1> HIDE DEF T
<1>4. ASSUME NEW k \in 1 .. n, NEW v \in T PROVE G[<<k, v>>] = One(v, k) /\ G[<<k, v>>] \in T
  <2>1. One(v, k) \in T
    BY <1>1, RaisesOne DEF T
  <2> HIDE DEF One
  <2> QED BY <2>1
<1> HIDE DEF G, n, s, One
<1>5. PICK f \in [SUBSET (1 .. n) -> T] : Folding(n, S, G, f)
  BY <1>1, <1>3, <1>4, FoldExists
<1>6. ASSUME NEW U \in SUBSET (1 .. n), U # {} PROVE Max(U) \in 1 .. n /\ U \ {Max(U)} \in SUBSET (1 .. n)
  BY <1>1, <1>6, MaxOfPositions
<1>7. Fold(f)
  <2>1. ASSUME NEW U \in SUBSET (1 .. n), U # {}
        PROVE  G[<<Max(U), f[U \ {Max(U)}]>>] = One(f[U \ {Max(U)}], s[Max(U)])
    <3>1. Max(U) \in 1 .. n /\ U \ {Max(U)} \in SUBSET (1 .. n)
      BY <1>6, <2>1
    <3> QED BY <1>1, <1>4, <3>1
  <2> QED BY <1>1, <1>5, <2>1 DEF Folding
<1>8. Fold(it)
  BY <1>7
<1> HIDE DEF it
<1>9. it[{}] = S
  BY <1>8
<1>10. Steps(n, T, S, G, it)
  <2> SUFFICES ASSUME NEW U \in SUBSET (1 .. n), U # {}, it[U \ {Max(U)}] \in T
               PROVE  it[U] = G[<<Max(U), it[U \ {Max(U)}]>>]
    BY <1>1, <1>3, <1>4, <1>9 DEF Steps
  <2>1. Max(U) \in 1 .. n /\ s[Max(U)] = Max(U)
    BY <1>1, <1>6
  <2>2. it[U] = One(it[U \ {Max(U)}], s[Max(U)])
    BY <1>1, <1>8
  <2> QED BY <1>4, <2>1, <2>2
<1>11. Walks(n, T, S, G, it[1 .. n])
  BY <1>10, FoldWalks
<1>12. PICK h \in [0 .. n -> T] : h[n] = it[1 .. n]
  BY <1>11 DEF Walks
<1>13. n \in 0 .. n
  BY <1>1
<1> QED BY <1>1, <1>2, <1>12, <1>13 DEF T

\* A listing says first which session its own bank is on.
LEMMA ListingKeeps ==
  ASSUME NEW S, NEW H, NEW died, Stands(S, H), Aged(S, H, died),
         NEW b \in Held(S), S.bank[b].gateway, NEW listed
  PROVE  BankSessions(S, b, listed) \in Grown(S, H, died) /\ OnRegister(BankSessions(S, b, listed), b)
<1> DEFINE s == S.bank[b].session
           T == [S EXCEPT !.sessions[s] = Banked(b)]
<1>1. S \in Surfaces /\ Numbered(S) /\ NamesStand(S) /\ EachHasItsOwn(S, H) /\ UnheardHaveOne(S) /\ Capped(S)
  BY DEF Stands
<1>2. b \in BankId /\ s \in SessionId /\ S.sessions \in [SessionId -> Entries]
  BY <1>1, SurfaceFacts DEF Numbered, Held
<1>3. Banked(b) \in Entries /\ SlotBank(Banked(b)) = b /\ Banked(b).slot = "banked" /\ b # 0
  BY <1>2, Named, Bounds
<1>4. /\ T \in Surfaces /\ T.bank = S.bank /\ T.next = S.next
      /\ \A r \in SessionId : T.sessions[r] = IF r = s THEN Banked(b) ELSE S.sessions[r]
  <2> HIDE DEF s
  <2>1. T = [sessions |-> [S.sessions EXCEPT ![s] = Banked(b)], bank |-> S.bank, next |-> S.next]
    BY <1>1, SurfaceFacts
  <2>2. [S.sessions EXCEPT ![s] = Banked(b)] \in [SessionId -> Entries]
    BY <1>2, <1>3
  <2> QED BY <1>1, <1>2, <2>1, <2>2 DEF Surfaces
<1> HIDE DEF T
<1>5. Held(T) = Held(S) /\ Found(T) = Found(S)
  BY <1>4 DEF Held, Found
<1>6. \A r \in SessionId : SlotBank(T.sessions[r]) = IF r = s THEN b ELSE SlotBank(S.sessions[r])
  BY <1>3, <1>4
<1>7. Stands(T, H)
  <2>1. Numbered(T) /\ Capped(T)
    BY <1>1, <1>4, <1>5 DEF Numbered, Capped
  <2>2. NamesStand(T)
    BY <1>1, <1>5, <1>6 DEF NamesStand
  <2>3. EachHasItsOwn(T, H)
    <3> SUFFICES ASSUME NEW c \in Held(S), S.bank[c].session \notin H
                 PROVE  c \in Found(S) /\ SlotBank(T.sessions[S.bank[c].session]) = c
      BY <1>4, <1>5 DEF EachHasItsOwn
    <3>1. c \in Found(S) /\ SlotBank(S.sessions[S.bank[c].session]) = c /\ S.bank[c].session \in SessionId
      BY <1>1 DEF EachHasItsOwn, Numbered, Held
    <3>2. S.bank[c].session = s => c = b
      BY <1>1, <3>1 DEF EachHasItsOwn
    <3> QED BY <1>6, <3>1, <3>2
  <2>4. UnheardHaveOne(T)
    BY <1>1, <1>4, <1>5, <1>6 DEF UnheardHaveOne
  <2> QED BY <1>4, <2>1, <2>2, <2>3, <2>4 DEF Stands
<1>8. Aged(T, H, died)
  <2> SUFFICES ASSUME NEW r \in SessionId \ H
               PROVE  died[r] = IF T.sessions[r].slot = "failed" THEN T.sessions[r].n ELSE RESPAWN_BACKOFF
    BY DEF Aged
  <2>1. died[r] = IF S.sessions[r].slot = "failed" THEN S.sessions[r].n ELSE RESPAWN_BACKOFF
    BY DEF Aged
  <2>2. CASE r # s
    BY <1>4, <2>1, <2>2
  <2>3. CASE r = s
    <3>1. SlotBank(S.sessions[r]) = b
      BY <1>1, <2>3 DEF EachHasItsOwn
    <3>2. S.sessions[r].slot \in {"spawning", "banked"}
      BY <1>2, <1>3, <3>1, EntryFacts
    <3> QED BY <1>3, <1>4, <2>1, <2>3, <3>2
  <2> QED BY <2>2, <2>3
<1>9. BankSessions(S, b, listed) = IF Answers(T, b) THEN Raised(T, listed) ELSE T
  BY DEF BankSessions, T
<1> DEFINE Q == BankSessions(S, b, listed)
<1>10. T \in After(T, H, died) /\ Raised(T, listed) \in After(T, H, died)
  BY <1>4, <1>7, <1>8, RaisedKeeps DEF After, Grown
<1>11. Q \in After(T, H, died)
  BY <1>9, <1>10
<1> HIDE DEF Q
<1>12. Q \in Grown(S, H, died)
  BY <1>4, <1>5, <1>11 DEF After, Grown
<1>13. SlotBank(Q.sessions[s]) = b
  BY <1>2, <1>3, <1>6, <1>11 DEF After
<1> QED BY <1>2, <1>12, <1>13 DEF OnRegister, Q

\* What a turn of b leaves of S while it is heard; on: where b's client is.
Hearing(S, b, on, H, died) ==
  {R \in Surfaces : /\ Stands(R, H) /\ Aged(R, H, died) /\ Held(S) \subseteq Held(R)
                    /\ \A c \in Held(S) \ {b} : R.bank[c] = S.bank[c]
                    /\ \A c \in Held(R) \ Held(S) : ~R.bank[c].gateway
                    /\ R.bank[b].gateway
                    /\ on \in H \/ on = R.bank[b].session}

\* Someone answers for the server while anyone is on the register.
LEMMA LowestIs ==
  ASSUME NEW T \in SUBSET BankId, T # {}
  PROVE  Lowest(T) \in T
<1>1. T \subseteq Nat
  BY Bounds
<1>2. PICK b \in T : \A c \in T : ~ (<<c, b>> \in OpToRel(<, Nat))
  BY <1>1, NatLessThanWellFounded, WFMin
<1>3. \A c \in T : ~ (c < b)
  BY <1>1, <1>2 DEF OpToRel
<1>4. \A c \in T : b <= c
  BY <1>1, <1>3
<1> QED BY <1>4 DEF Lowest

LEMMA SomeoneAnswers ==
  ASSUME NEW S \in Surfaces
  PROVE  /\ Enumerator(S) # 0 <=> \E b \in BankId : OnRegister(S, b)
         /\ Enumerator(S) # 0 => OnRegister(S, Enumerator(S))
<1> DEFINE T == {SlotBank(S.sessions[s]) : s \in SessionId} \ {0}
<1>1. T \in SUBSET BankId
  BY SurfaceFacts, EntryFacts
<1>2. \A b \in BankId : b \in T <=> OnRegister(S, b)
  BY Bounds DEF OnRegister
<1>3. Enumerator(S) = Lowest(T)
  BY DEF Enumerator
<1> HIDE DEF T
<1>4. CASE T = {}
  BY <1>1, <1>2, <1>3, <1>4 DEF Lowest
<1>5. CASE T # {}
  BY <1>1, <1>2, <1>3, <1>5, LowestIs, Bounds
<1> QED BY <1>4, <1>5

LEMMA HearsOne ==
  ASSUME NEW S, NEW b \in Held(S), NEW on, NEW H \in SUBSET SessionId, NEW died, NEW R \in Hearing(S, b, on, H, died),
         NEW l \in Message, l.says = "switched" => on \in H /\ \E s \in H : l.of = {s}
  PROVE  /\ Heard(R, b, l) \in Hearing(S, b, on, H, died)
         /\ l.says = "listing" \/ OnRegister(R, b) => OnRegister(Heard(R, b, l), b)
<1>1. /\ Stands(R, H) /\ Aged(R, H, died) /\ Held(S) \subseteq Held(R) /\ R \in Surfaces
      /\ \A c \in Held(S) \ {b} : R.bank[c] = S.bank[c]
      /\ \A c \in Held(R) \ Held(S) : ~R.bank[c].gateway
      /\ R.bank[b].gateway
      /\ on \in H \/ on = R.bank[b].session
      /\ b \in Held(R) /\ b \in BankId
  BY SurfaceFacts DEF Hearing
<1>2. CASE l.says = "listing"
  <2> DEFINE Q == BankSessions(R, b, l.of)
  <2>1. Q \in Grown(R, H, died) /\ OnRegister(Q, b)
    BY <1>1, ListingKeeps
  <2>2. Heard(R, b, l) = Q
    BY <1>2 DEF Heard
  <2> HIDE DEF Q
  <2>3. /\ Stands(Q, H) /\ Aged(Q, H, died) /\ Q \in Surfaces /\ Held(R) \subseteq Held(Q)
        /\ \A c \in Held(R) : Q.bank[c] = R.bank[c]
        /\ \A c \in Held(Q) \ Held(R) : ~Q.bank[c].gateway
    BY <2>1 DEF Grown
  <2>4. Q \in Hearing(S, b, on, H, died)
    BY <1>1, <2>3 DEF Hearing
  <2> QED BY <2>1, <2>2, <2>4
<1>3. CASE l.says = "switched"
  <2>1. PICK s \in H : l.of = {s}
    BY <1>3
  <2> DEFINE Q == [R EXCEPT !.bank[b].session = s]
  <2>2. Heard(R, b, l) = Q
    <3>1. (CHOOSE r \in l.of : TRUE) = s
      BY <2>1
    <3> QED BY <1>3, <3>1 DEF Heard
  <2>3. /\ Q \in Surfaces /\ Q.sessions = R.sessions /\ Q.next = R.next
        /\ Q.bank[b].kind = R.bank[b].kind /\ Q.bank[b].gateway = R.bank[b].gateway /\ Q.bank[b].session = s
        /\ \A c \in BankId : c # b => Q.bank[c] = R.bank[c]
    <3> DEFINE one == [R.bank[b] EXCEPT !.session = s]
    <3>1. R.bank \in [BankId -> Banks] /\ R.bank[b] \in Banks
      BY <1>1, SurfaceFacts
    <3>2. s \in 0 .. MaxSession
      BY Bounds DEF SessionId
    <3>3. one \in Banks /\ one.kind = R.bank[b].kind /\ one.gateway = R.bank[b].gateway /\ one.session = s
      BY <3>1, <3>2 DEF Banks
    <3>4. Q = [R EXCEPT !.bank = [R.bank EXCEPT ![b] = one]]
      BY <1>1, <3>1
    <3> HIDE DEF one, Q
    <3>5. [R.bank EXCEPT ![b] = one] \in [BankId -> Banks]
      BY <3>1, <3>3
    <3>6. Q \in Surfaces /\ Q.sessions = R.sessions /\ Q.next = R.next /\ Q.bank = [R.bank EXCEPT ![b] = one]
      BY <1>1, <3>4, <3>5 DEF Surfaces
    <3> QED BY <1>1, <3>1, <3>3, <3>6
  <2> HIDE DEF Q
  <2>4. Held(Q) = Held(R) /\ Found(Q) = Found(R)
    BY <1>1, <2>3 DEF Held, Found
  <2>5. Numbered(Q) /\ NamesStand(Q) /\ Capped(Q)
    BY <1>1, <2>3, <2>4 DEF Stands, Numbered, NamesStand, Capped
  <2>6. EachHasItsOwn(Q, H)
    BY <1>1, <2>3, <2>4, SurfaceFacts DEF Stands, EachHasItsOwn
  <2>7. UnheardHaveOne(Q)
    <3> SUFFICES ASSUME NEW c \in Held(R), NEW r \in SessionId, ~Q.bank[c].gateway, SlotBank(R.sessions[r]) = c
                 PROVE  r = Q.bank[c].session
      BY <2>3, <2>4 DEF UnheardHaveOne
    <3>1. c # b /\ c \in BankId
      BY <1>1, <2>3, SurfaceFacts
    <3>2. UnheardHaveOne(R) /\ Q.bank[c] = R.bank[c]
      BY <1>1, <2>3, <3>1 DEF Stands
    <3> QED BY <3>2 DEF UnheardHaveOne
  <2>8. Aged(Q, H, died)
    BY <1>1, <2>3 DEF Aged
  <2>9. \A c \in Held(S) \ {b} : Q.bank[c] = S.bank[c]
    BY <1>1, <2>3, SurfaceFacts
  <2>12. \A c \in Held(Q) \ Held(S) : ~Q.bank[c].gateway
    BY <1>1, <2>3, <2>4, SurfaceFacts
  <2>10. Q \in Hearing(S, b, on, H, died)
    BY <1>1, <1>3, <2>3, <2>4, <2>5, <2>6, <2>7, <2>8, <2>9, <2>12 DEF Hearing, Stands
  <2>11. OnRegister(R, b) => OnRegister(Q, b)
    BY <2>3 DEF OnRegister
  <2> QED BY <1>3, <2>2, <2>10, <2>11
<1>4. CASE l.says \notin {"listing", "switched"}
  BY <1>4 DEF Heard
<1> QED BY <1>2, <1>3, <1>4

\* The lines of a turn are a walk.
HeardWalks(S, b, lines, T) ==
  {h \in [0 .. Len(lines) -> T] :
     /\ h[0] = S /\ h[Len(lines)] = HeardAll(S, b, lines)
     /\ \A k \in 1 .. Len(lines) : h[k] = Heard(h[k - 1], b, lines[k])}

LEMMA HeardWalk ==
  ASSUME NEW S, NEW b \in Held(S), NEW on, NEW H \in SUBSET SessionId, NEW died, S \in Hearing(S, b, on, H, died),
         NEW lines \in Seq(Message), Tells(lines, on, H)
  PROVE  HeardWalks(S, b, lines, Hearing(S, b, on, H, died)) # {}
<1> DEFINE n == Len(lines)
           s == lines
           One(R, l) == Heard(R, b, l)
           T == Hearing(S, b, on, H, died)
           G == [p \in (1 .. n) \X T |-> One(p[2], s[p[1]])]
           Fold(it) == it = [U \in SUBSET DOMAIN s |-> IF U = {} THEN S ELSE One(it[U \ {Max(U)}], s[Max(U)])]
           it == CHOOSE it : it = [U \in SUBSET DOMAIN s |-> IF U = {} THEN S ELSE One(it[U \ {Max(U)}], s[Max(U)])]
<1>1. n \in Nat /\ DOMAIN s = 1 .. n
  OBVIOUS
<1>2. HeardAll(S, b, lines) = it[DOMAIN s]
  BY DEF HeardAll, FoldLeft, MapThenFoldSet
<1>3. S \in T
  OBVIOUS
<1> HIDE DEF T
<1>4. ASSUME NEW k \in 1 .. n, NEW v \in T PROVE G[<<k, v>>] = One(v, s[k]) /\ G[<<k, v>>] \in T
  <2>1. s[k] \in Message /\ (s[k].says = "switched" => on \in H /\ \E r \in H : s[k].of = {r})
    BY DEF Tells
  <2>2. One(v, s[k]) \in T
    BY <2>1, HearsOne DEF T
  <2> HIDE DEF One
  <2> QED BY <2>2
<1> HIDE DEF G, n, s, One
<1>5. PICK f \in [SUBSET (1 .. n) -> T] : Folding(n, S, G, f)
  BY <1>1, <1>3, <1>4, FoldExists
<1>6. ASSUME NEW U \in SUBSET (1 .. n), U # {} PROVE Max(U) \in 1 .. n /\ U \ {Max(U)} \in SUBSET (1 .. n)
  BY <1>1, <1>6, MaxOfPositions
<1>7. Fold(f)
  <2>1. ASSUME NEW U \in SUBSET (1 .. n), U # {}
        PROVE  G[<<Max(U), f[U \ {Max(U)}]>>] = One(f[U \ {Max(U)}], s[Max(U)])
    <3>1. Max(U) \in 1 .. n /\ U \ {Max(U)} \in SUBSET (1 .. n)
      BY <1>6, <2>1
    <3> QED BY <1>4, <3>1
  <2> QED BY <1>1, <1>5, <2>1 DEF Folding
<1>8. Fold(it)
  BY <1>7
<1> HIDE DEF it
<1>9. it[{}] = S
  BY <1>8
<1>10. Steps(n, T, S, G, it)
  <2> SUFFICES ASSUME NEW U \in SUBSET (1 .. n), U # {}, it[U \ {Max(U)}] \in T
               PROVE  it[U] = G[<<Max(U), it[U \ {Max(U)}]>>]
    BY <1>1, <1>3, <1>4, <1>9 DEF Steps
  <2>1. Max(U) \in 1 .. n
    BY <1>6
  <2>2. it[U] = One(it[U \ {Max(U)}], s[Max(U)])
    BY <1>1, <1>8
  <2> QED BY <1>4, <2>1, <2>2
<1>11. Walks(n, T, S, G, it[1 .. n])
  BY <1>10, FoldWalks
<1>12. PICK h \in [0 .. n -> T] : h[0] = S /\ h[n] = it[1 .. n] /\ \A k \in 1 .. n : h[k] = G[<<k, h[k - 1]>>]
  BY <1>11 DEF Walks
<1>13. ASSUME NEW k \in 1 .. n PROVE h[k] = Heard(h[k - 1], b, lines[k])
  <2>1. k - 1 \in 0 .. n
    BY <1>1
  <2> QED BY <1>4, <1>12, <2>1 DEF One, s
<1>14. h \in HeardWalks(S, b, lines, T)
  BY <1>1, <1>2, <1>12, <1>13 DEF HeardWalks, n
<1> QED BY <1>14 DEF T

\* A turn heard keeps what holds of the surface, and after a listing the bank
\* that heard it is on the register.
LEMMA AllHeard ==
  ASSUME NEW S, NEW b \in Held(S), NEW on, NEW H \in SUBSET SessionId, NEW died, S \in Hearing(S, b, on, H, died),
         NEW lines \in Seq(Message), Tells(lines, on, H)
  PROVE  /\ HeardAll(S, b, lines) \in Hearing(S, b, on, H, died)
         /\ (\E i \in 1 .. Len(lines) : lines[i].says = "listing") => OnRegister(HeardAll(S, b, lines), b)
<1> DEFINE n == Len(lines)
           T == Hearing(S, b, on, H, died)
<1>1. n \in Nat /\ n \in 0 .. n
  OBVIOUS
<1>2. PICK h \in [0 .. n -> T] :
        /\ h[0] = S /\ h[n] = HeardAll(S, b, lines)
        /\ \A k \in 1 .. n : h[k] = Heard(h[k - 1], b, lines[k])
  <2>1. HeardWalks(S, b, lines, T) # {}
    BY HeardWalk
  <2> HIDE DEF T
  <2> QED BY <2>1 DEF HeardWalks
<1>3. ASSUME NEW i \in 1 .. n, lines[i].says = "listing" PROVE OnRegister(h[n], b)
  <2> DEFINE B == {k \in 0 .. n : k >= i => OnRegister(h[k], b)}
  <2>1. 0 \in B
    BY <1>1
  <2>2. ASSUME NEW k \in 1 .. n, k - 1 \in B PROVE k \in B
    <3>1. k - 1 \in 0 .. n /\ k \in 0 .. n /\ h[k - 1] \in T
      BY <1>1, <1>2
    <3>2. lines[k] \in Message /\ (lines[k].says = "switched" => on \in H /\ \E s \in H : lines[k].of = {s})
      BY DEF Tells
    <3>3. lines[k].says = "listing" \/ OnRegister(h[k - 1], b) => OnRegister(Heard(h[k - 1], b, lines[k]), b)
      BY <3>1, <3>2, HearsOne
    <3>4. k >= i => k = i \/ k - 1 >= i
      BY <1>1
    <3> QED BY <1>2, <1>3, <2>2, <3>1, <3>3, <3>4
  <2> HIDE DEF B, n
  <2>3. \A k \in 0 .. n : k \in B
    BY <1>1, <2>1, <2>2, StepByStep
  <2>4. n \in B /\ n >= i
    BY <1>1, <2>3
  <2> QED BY <2>4 DEF B
<1> QED BY <1>1, <1>2, <1>3

\* What b's turn leaves: the other banks as they were, or raised and still to
\* speak; its own client asked again after whatever changed; and of what a
\* listing told, nothing owed but what the cap kept away.
TurnLeaves(b) ==
  /\ server' = server /\ Steadied /\ history'.died = history.died
  /\ \A c \in Held(surface') \ {b} :
       \/ ~surface'.bank[c].gateway
       \/ /\ c \in Held(surface) /\ surface'.bank[c] = surface.bank[c] /\ client'[c] = client[c]
          /\ c \in DOMAIN turn => c \in DOMAIN turn' /\ turn'[c] = turn[c]
  /\ b \in Held(surface') =>
       /\ b \in Held(surface) /\ surface.bank[b].gateway
       /\ client'[b].opened <=> client[b].opened
       /\ client'[b].gone <=> client[b].gone
       /\ client'[b].line = client[b].line
       /\ client[b].asks # 0 => client'[b].asks # 0
       /\ \A i \in 1 .. Len(turn[b]) :
            turn[b][i].says \in {"changed", "switched"} => client[b].gone \/ client'[b].asks # 0
       /\ history'.steady = b => \A i \in 1 .. Len(turn[b]), s \in history'.owed :
            turn[b][i].says = "listing" /\ s \in turn[b][i].of => history'.capped

\* The bank that read: it goes with its entries where the lines said the end,
\* and each bank its listing raised has its client.
LEMMA TurnKeeps ==
  ASSUME IInv, NEW b \in BankId, PumpGateway(b)
  PROVE  IInv' /\ TurnLeaves(b)
<1> DEFINE H == history.shared
           died == history.died
           on == client[b].on
           S == HeardAll(surface, b, turn[b])
           R == surface'
           ends == "exit" \in {l.says : l \in Range(turn[b])}
           C == CollapseBank(S, b)
<1>1. /\ server \in Servers /\ Remembers(history) /\ client \in [BankId -> Clients]
      /\ Stands(surface, H) /\ Aged(surface, H, died) /\ Manned(surface, client, H)
      /\ Turning(surface, client, H, turn) /\ surface \in Surfaces /\ H \in SUBSET SessionId
  BY DEF IInv, Manned, Stands, Remembers
<1>2. /\ b \in DOMAIN turn
      /\ R = IF ends THEN C ELSE S
      /\ turn' = [c \in DOMAIN turn \ {b} |-> turn[c]] /\ server' = server
      /\ DOMAIN client' = BankId /\ client' = [c \in BankId |-> client'[c]]
      /\ \A c \in BankId : c \in Held(S) \ Held(surface) => client'[c] = Client(S.bank[c].session, FALSE)
      /\ \A c \in BankId : c \notin Held(S) \ Held(surface) /\ c # b => client'[c] = client[c]
      /\ b \notin Held(S) \ Held(surface) /\ ends => client'[b] = NoClient
      /\ b \notin Held(S) \ Held(surface) /\ ~ends =>
           \E asks \in {client[b].asks, client[b].asks + 1} :
             /\ client'[b] = [client[b] EXCEPT !.asks = asks]
             /\ {l.says : l \in Range(turn[b])} \cap {"changed", "switched"} # {} /\ Lives(b) => asks = client[b].asks + 1
  BY DEF PumpGateway
<1>3. /\ b \in Held(surface) /\ surface.bank[b].gateway
      /\ turn[b] \in Seq(Message) /\ Tells(turn[b], on, H)
  BY <1>1, <1>2 DEF Turning
<1>4. surface \in Hearing(surface, b, on, H, died)
  BY <1>1, <1>3 DEF Hearing, Manned
<1> HIDE DEF on
<1>5. /\ S \in Hearing(surface, b, on, H, died)
      /\ (\E i \in 1 .. Len(turn[b]) : turn[b][i].says = "listing") => OnRegister(S, b)
  BY <1>1, <1>3, <1>4, AllHeard
<1>0. PICK full : /\ full <=> Answers(S, b) /\ \E s \in UNION {l.of : l \in Range(turn[b])} : S.sessions[s] = Absent
                  /\ history' = [Steady(history, R) EXCEPT !.capped = @ \/ full]
  BY DEF PumpGateway
<1> HIDE DEF S
<1>6. /\ S \in Surfaces /\ Stands(S, H) /\ Aged(S, H, died) /\ Held(surface) \subseteq Held(S)
      /\ \A c \in Held(surface) \ {b} : S.bank[c] = surface.bank[c]
      /\ \A c \in Held(S) \ Held(surface) : ~S.bank[c].gateway
      /\ on \in H \/ on = S.bank[b].session
  BY <1>5 DEF Hearing
<1>7. /\ C \in Surfaces /\ C.next = S.next
      /\ \A c \in BankId : C.bank[c] = IF c = b THEN NoBank ELSE S.bank[c]
      /\ \A s \in SessionId : C.sessions[s] = IF SlotBank(S.sessions[s]) # b THEN S.sessions[s] ELSE Absent
  BY <1>6, CollapseIs
<1> HIDE DEF C, ends
<1>8. Stands(C, H) /\ Held(C) = Held(S) \ {b}
  <2> DEFINE D == {b}
  <2>1. D \in SUBSET BankId /\ SlotBank(Absent) = 0
    BY Unnamed
  <2>2. \A s \in SessionId : SlotBank(C.sessions[s]) = IF SlotBank(S.sessions[s]) \in D THEN 0 ELSE SlotBank(S.sessions[s])
    BY <1>7, <2>1
  <2>3. \A c \in BankId : C.bank[c] = IF c \in D THEN NoBank ELSE S.bank[c]
    BY <1>7
  <2> HIDE DEF D
  <2>4. Stands(C, H) /\ Held(C) = Held(S) \ D
    BY <1>6, <1>7, <2>1, <2>2, <2>3, DropStands
  <2> QED BY <2>4 DEF D
<1>9. Aged(C, H, died)
  <2> SUFFICES ASSUME NEW s \in SessionId \ H
               PROVE  died[s] = IF C.sessions[s].slot = "failed" THEN C.sessions[s].n ELSE RESPAWN_BACKOFF
    BY DEF Aged
  <2>1. died[s] = IF S.sessions[s].slot = "failed" THEN S.sessions[s].n ELSE RESPAWN_BACKOFF
    BY <1>6 DEF Aged
  <2>2. S.sessions[s] \in Entries /\ b # 0
    BY <1>6, SurfaceFacts, Bounds
  <2>3. SlotBank(S.sessions[s]) = b => S.sessions[s].slot # "failed"
    BY <2>2, EntryFacts
  <2>4. Absent.slot = "absent"
    BY Unnamed
  <2> QED BY <1>7, <2>1, <2>3, <2>4
<1>10. /\ Stands(R, H) /\ Aged(R, H, died)
       /\ \A c \in BankId : c # b => R.bank[c] = S.bank[c] /\ (c \in Held(R) <=> c \in Held(S))
       /\ ends => b \notin Held(R)
       /\ ~ends => R = S
  <2>1. CASE ends
    BY <1>2, <1>7, <1>8, <1>9, <2>1
  <2>2. CASE ~ends
    BY <1>2, <1>6, <2>2
  <2> QED BY <2>1, <2>2
<1>11. Remembers(history') /\ history'.shared = H /\ history'.died = died
  <2> DEFINE h == Steady(history, R)
  <2>1. Remembers(h) /\ h.shared = H /\ h.died = died
    BY <1>1, SteadyFacts
  <2>2. PICK capped : history' = [h EXCEPT !.capped = capped]
    BY DEF PumpGateway
  <2> HIDE DEF h
  <2> QED BY <2>1, <2>2 DEF Remembers
<1> HIDE DEF R
<1>12. ASSUME NEW c \in BankId
       PROVE  /\ client'[c] \in Clients
              /\ c \in Held(R) <=> client'[c].on # 0
              /\ c \in Held(R) => client'[c].on \in H \/ client'[c].on = R.bank[c].session
              /\ Tells(client'[c].line, client'[c].on, H)
  <2>1. /\ c \in Held(surface) <=> client[c].on # 0
        /\ c \in Held(surface) => client[c].on \in H \/ client[c].on = surface.bank[c].session
        /\ Tells(client[c].line, client[c].on, H) /\ client[c] \in Clients
    BY <1>1 DEF Manned
  <2>2. CASE c \in Held(S) \ Held(surface)
    <3> DEFINE s == S.bank[c].session
    <3>1. s \in SessionId /\ c # b /\ FALSE \in BOOLEAN
      BY <1>3, <1>6, <2>2 DEF Stands, Numbered, Held
    <3> HIDE DEF s
    <3>2. client'[c] = Client(s, FALSE)
      BY <1>2, <2>2 DEF s
    <3>3. client'[c] \in Clients /\ client'[c].on = s /\ client'[c].line = <<>>
      BY <3>1, <3>2, ClientFacts
    <3>4. c \in Held(R) /\ R.bank[c].session = s
      BY <1>10, <2>2, <3>1 DEF s
    <3> QED BY <3>1, <3>3, <3>4, NothingTold, Bounds
  <2>3. CASE c \notin Held(S) \ Held(surface) /\ c # b
    <3>1. client'[c] = client[c] /\ (c \in Held(R) <=> c \in Held(surface))
      BY <1>2, <1>6, <1>10, <2>3
    <3>2. c \in Held(surface) => R.bank[c] = surface.bank[c]
      BY <1>6, <1>10, <2>3
    <3> QED BY <2>1, <3>1, <3>2
  <2>4. CASE c = b /\ ends
    <3>1. client'[c] = NoClient /\ c \notin Held(R)
      BY <1>2, <1>3, <1>10, <2>4
    <3> QED BY <3>1, ClientFacts, NothingTold
  <2>5. CASE c = b /\ ~ends
    <3>1. PICK asks \in {client[b].asks, client[b].asks + 1} : client'[b] = [client[b] EXCEPT !.asks = asks]
      BY <1>2, <1>3, <2>5
    <3>2. client'[b] \in Clients /\ client'[b].on = on /\ client'[b].line = client[b].line
      <4>1. client[b] \in Clients /\ client[b].asks \in Nat
        BY <2>1, <2>5 DEF Clients
      <4>2. asks \in Nat
        BY <4>1
      <4> QED BY <3>1, <4>1, <4>2 DEF Clients, on
    <3>3. b \in Held(R) /\ R = S
      BY <1>3, <1>6, <1>10, <2>5
    <3> QED BY <1>3, <1>6, <2>1, <2>5, <3>2, <3>3 DEF on
  <2> QED BY <2>2, <2>3, <2>4, <2>5
<1>13. Manned(R, client', H)
  <2>1. client' \in [BankId -> Clients]
    BY <1>2, <1>12
  <2> QED BY <1>12, <2>1 DEF Manned
<1>14. Turning(R, client', H, turn')
  <2> SUFFICES ASSUME NEW c \in DOMAIN turn'
               PROVE  /\ c \in Held(R) /\ R.bank[c].gateway
                      /\ turn'[c] \in Seq(Message) /\ Tells(turn'[c], client'[c].on, H)
    BY DEF Turning
  <2>1. c \in DOMAIN turn /\ c # b /\ turn'[c] = turn[c]
    BY <1>2
  <2>2. /\ c \in Held(surface) /\ surface.bank[c].gateway /\ c \in BankId
        /\ turn[c] \in Seq(Message) /\ Tells(turn[c], client[c].on, H)
    BY <1>1, <2>1, SurfaceFacts DEF Turning
  <2>3. client'[c] = client[c]
    BY <1>2, <2>1, <2>2
  <2>4. c \in Held(R) /\ R.bank[c] = surface.bank[c]
    BY <1>6, <1>10, <2>1, <2>2
  <2> QED BY <2>1, <2>2, <2>3, <2>4
<1>15. IInv'
  BY <1>1, <1>2, <1>10, <1>11, <1>13, <1>14 DEF IInv, R
<1>16. Steadied /\ (full => history'.capped)
  <2> DEFINE h == Steady(history, R)
  <2>1. /\ h.steady = IF history.steady \in Held(R) /\ Enumerator(R) \in {0, history.steady} THEN history.steady ELSE 0
        /\ h.owed = {s \in history.owed : R.sessions[s] = Absent} /\ h.capped = history.capped
        /\ Remembers(h)
    BY <1>1, SteadyFacts
  <2>2. history' = [h EXCEPT !.capped = h.capped \/ full]
    BY <1>0, <2>1 DEF R, Remembers
  <2> HIDE DEF h
  <2>3. history'.steady = h.steady /\ history'.owed = h.owed /\ history'.capped = (h.capped \/ full)
    BY <2>1, <2>2 DEF Remembers
  <2> QED BY <1>11, <2>1, <2>3 DEF Steadied, R
<1>17. ASSUME NEW c \in Held(R) \ {b}
       PROVE  \/ ~R.bank[c].gateway
              \/ /\ c \in Held(surface) /\ R.bank[c] = surface.bank[c] /\ client'[c] = client[c]
                 /\ c \in DOMAIN turn => c \in DOMAIN turn' /\ turn'[c] = turn[c]
  <2>1. c \in BankId /\ c \in Held(S) /\ R.bank[c] = S.bank[c]
    BY <1>10, SurfaceFacts DEF Stands
  <2>2. CASE c \notin Held(surface)
    BY <1>6, <2>1, <2>2
  <2>3. CASE c \in Held(surface)
    BY <1>2, <1>6, <2>1, <2>3
  <2> QED BY <2>2, <2>3
<1>18. ASSUME b \in Held(R)
       PROVE  /\ client'[b].opened <=> client[b].opened
              /\ client'[b].gone <=> client[b].gone
              /\ client'[b].line = client[b].line
              /\ client[b].asks # 0 => client'[b].asks # 0
              /\ \A i \in 1 .. Len(turn[b]) :
                   turn[b][i].says \in {"changed", "switched"} => client[b].gone \/ client'[b].asks # 0
  <2>1. ~ends
    BY <1>10, <1>18
  <2>2. PICK asks \in {client[b].asks, client[b].asks + 1} :
          /\ client'[b] = [client[b] EXCEPT !.asks = asks]
          /\ {l.says : l \in Range(turn[b])} \cap {"changed", "switched"} # {} /\ Lives(b) => asks = client[b].asks + 1
    BY <1>2, <1>3, <2>1
  <2>3. client[b] \in Clients /\ client[b].asks \in Nat /\ client[b].on # 0
    BY <1>1, <1>3 DEF Clients, Manned
  <2>4. client'[b].opened = client[b].opened /\ client'[b].gone = client[b].gone /\ client'[b].line = client[b].line /\ client'[b].asks = asks
    BY <2>2, <2>3 DEF Clients
  <2>5. client[b].asks # 0 => asks # 0
    BY <2>2, <2>3
  <2>6. ASSUME NEW i \in 1 .. Len(turn[b]), turn[b][i].says \in {"changed", "switched"}
        PROVE  client[b].gone \/ asks # 0
    <3>1. turn[b][i] \in Range(turn[b])
      BY <1>3 DEF Range
    <3>2. turn[b][i].says \in {l.says : l \in Range(turn[b])} \cap {"changed", "switched"}
      BY <2>6, <3>1
    <3>3. Lives(b) => asks = client[b].asks + 1
      BY <2>2, <3>2
    <3>4. asks = client[b].asks + 1 => asks # 0
      BY <2>3
    <3> QED BY <2>3, <3>3, <3>4 DEF Lives
  <2> QED BY <2>4, <2>5, <2>6
<1>19. ASSUME b \in Held(R), history'.steady = b, NEW i \in 1 .. Len(turn[b]), NEW s \in history'.owed,
              turn[b][i].says = "listing", s \in turn[b][i].of
       PROVE  history'.capped
  <2>1. R = S /\ R.sessions[s] = Absent
    BY <1>10, <1>16, <1>19 DEF Steadied, R
  <2>2. OnRegister(S, b)
    BY <1>5, <1>19
  <2>3. Enumerator(S) # 0
    BY <1>6, <2>2, SomeoneAnswers
  <2>4. Enumerator(S) = b
    <3>1. b # 0
      BY Bounds
    <3> QED BY <1>16, <1>19, <2>1, <2>3, <3>1 DEF Steadied, R
  <2>5. turn[b][i] \in Range(turn[b])
    BY <1>3 DEF Range
  <2>6. s \in UNION {l.of : l \in Range(turn[b])}
    BY <1>19, <2>5
  <2> QED BY <1>0, <1>16, <2>1, <2>4, <2>6 DEF Answers
<1>20. TurnLeaves(b)
  BY <1>2, <1>3, <1>11, <1>16, <1>17, <1>18, <1>19 DEF TurnLeaves, R
<1> QED BY <1>15, <1>20

-----------------------------------------------------------------------------
(***************************************************************************)
(* The register, whatever comes.                                           *)
(***************************************************************************)
LEMMA StepKeeps == IInv /\ [Next]_vars => IInv'
<1> SUFFICES ASSUME IInv, [Next]_vars PROVE IInv'
  OBVIOUS
<1>1. CASE UNCHANGED vars
  BY <1>1 DEF vars, IInv
<1>2. CASE Next
  BY <1>2, NewSessionKeeps, KillSessionKeeps, ClientKeeps, SwitchKeeps, AttachKeeps, TickKeeps, WiresKeep, TurnKeeps DEF Next
<1> QED BY <1>1, <1>2

-----------------------------------------------------------------------------
(***************************************************************************)
(* Whoever comes is served.                                                *)
(***************************************************************************)
\* A line that has bank e list the server, or tells it of s.
Brings(line, s) ==
  \E i \in 1 .. Len(line) :
    line[i].says \in {"changed", "switched"} \/ (line[i].says = "listing" /\ s \in line[i].of)

\* Bank e has yet to hear of s, or yet to go.
Coming(e, s) ==
  \/ ~surface.bank[e].gateway \/ client[e].gone \/ client[e].asks # 0
  \/ Brings(client[e].line, s)
  \/ e \in DOMAIN turn /\ Brings(turn[e], s)

\* Whoever steadily answers for the server has yet to hear of each session
\* that is owed its bank.
Serving ==
  /\ history.owed \subseteq server.alive
  /\ \A b \in Held(surface) : surface.bank[b].gateway => client[b].opened
  /\ history.steady # 0 => history.steady \in Held(surface)
  /\ history.steady # 0 /\ ~history.capped => \A s \in history.owed : Coming(history.steady, s)

LEMMA AppendBrings ==
  ASSUME NEW line \in Seq(Message), NEW m \in Message, NEW s
  PROVE  /\ Brings(line, s) => Brings(Append(line, m), s)
         /\ m.says \in {"changed", "switched"} \/ (m.says = "listing" /\ s \in m.of) => Brings(Append(line, m), s)
<1> DEFINE on == Append(line, m)
<1>1. Len(on) = Len(line) + 1 /\ Len(line) \in Nat
  OBVIOUS
<1>2. on[Len(on)] = m /\ \A i \in 1 .. Len(line) : on[i] = line[i]
  OBVIOUS
<1>3. Len(on) \in 1 .. Len(on) /\ \A i \in 1 .. Len(line) : i \in 1 .. Len(on)
  BY <1>1
<1> HIDE DEF on
<1>4. Brings(line, s) => Brings(on, s)
  BY <1>2, <1>3 DEF Brings
<1>5. m.says \in {"changed", "switched"} \/ (m.says = "listing" /\ s \in m.of) => Brings(on, s)
  BY <1>2, <1>3 DEF Brings
<1> QED BY <1>4, <1>5 DEF on

\* A client hears that something changed, or has yet to come up, or is gone.
LEMMA HearsOfChange ==
  ASSUME NEW C \in Clients
  PROVE  LET D == Hears(C, Says("changed", {}))
         IN  /\ D.opened <=> C.opened
             /\ D.gone <=> C.gone
             /\ C.opened => D.gone \/ \A s : Brings(D.line, s)
<1> DEFINE m == Says("changed", {})
<1>1. m \in Message /\ m.says = "changed" /\ C.line \in Seq(Message)
  BY SaysFacts DEF Clients
<1> HIDE DEF m
<1>2. CASE C.opened /\ ~C.gone
  <2>1. Hears(C, m) = [C EXCEPT !.line = Append(C.line, m)]
    BY <1>2 DEF Hears
  <2>2. Hears(C, m).opened = C.opened /\ Hears(C, m).gone = C.gone /\ Hears(C, m).line = Append(C.line, m)
    BY <2>1 DEF Clients
  <2>3. \A s : Brings(Append(C.line, m), s)
    BY <1>1, AppendBrings
  <2> QED BY <2>2, <2>3 DEF m
<1>3. CASE ~(C.opened /\ ~C.gone)
  BY <1>3 DEF Hears, m
<1> QED BY <1>2, <1>3

LEMMA GoneIsGone ==
  ASSUME NEW C \in Clients
  PROVE  Gone(C).gone /\ (Gone(C).opened <=> C.opened)
<1> DEFINE D == Hears(C, Says("exit", {}))
<1>1. D \in Clients /\ (D.opened <=> C.opened)
  <2>1. Says("exit", {}) \in Message /\ Says("exit", {}).says # "switched"
    BY SaysFacts
  <2>2. D \in Clients
    BY <2>1, HearsOn DEF GoesOn
  <2>3. D = C \/ D = [C EXCEPT !.line = Append(@, Says("exit", {}))]
    BY DEF Hears
  <2> HIDE DEF D
  <2> QED BY <2>2, <2>3 DEF Clients
<1>2. Gone(C) = [D EXCEPT !.gone = TRUE, !.asks = 0]
  BY DEF Gone
<1> HIDE DEF D
<1> QED BY <1>1, <1>2 DEF Clients

LEMMA ServesFirst == Init => Serving
<1> SUFFICES ASSUME Init PROVE Serving
  OBVIOUS
<1>1. history.owed = server.alive \ {1} /\ history.steady = 1
  BY DEF Init
<1>2. surface.bank[1] = [kind |-> "typed", gateway |-> TRUE, session |-> 1] /\ \A b \in BankId : b # 1 => surface.bank[b].kind = "none"
  BY Bounds DEF Init, NoBank
<1>3. Held(surface) = {1}
  <2>1. surface.bank[1].kind = "typed" /\ 1 \in BankId
    BY <1>2, Bounds
  <2> QED BY <1>2, <2>1 DEF Held
<1>4. client[1].opened /\ client[1].asks = 1
  <2>1. client[1] = [Client(1, TRUE) EXCEPT !.asks = 1]
    BY Bounds DEF Init
  <2> QED BY <2>1 DEF Client, NoClient
<1>5. \A s : Coming(1, s)
  BY <1>4 DEF Coming
<1> QED BY <1>1, <1>3, <1>4, <1>5 DEF Serving

\* Whatever comes or goes, whoever answers hears of it.
LEMMA ComersServe == IInv /\ Serving /\ NewSession => Serving'
<1> SUFFICES ASSUME IInv, Serving, NewSession PROVE Serving'
  OBVIOUS
<1>1. /\ surface \in Surfaces /\ NamesStand(surface) /\ client \in [BankId -> Clients] /\ Remembers(history)
      /\ UNCHANGED <<surface, turn>>
  BY DEF IInv, Stands, Manned, NewSession
<1>2. \A b \in BankId : client'[b] = Hears(client[b], Says("changed", {}))
  BY DEF NewSession
<1> DEFINE e == IF Enumerator(surface) = 0 THEN history.steady ELSE Enumerator(surface)
           owed == history.owed \cup {server.next}
<1>3. history'.owed = owed /\ history'.steady = e
  <2>1. history' = [history EXCEPT !.owed = owed, !.capped = FALSE, !.steady = e]
    BY DEF NewSession
  <2> HIDE DEF e, owed
  <2> QED BY <1>1, <2>1 DEF Remembers
<1>4. server'.alive = server.alive \cup {server.next}
  BY DEF NewSession
<1>5. e # 0 => e \in Held(surface)
  BY <1>1, SomeoneAnswers DEF Serving, NamesStand, OnRegister
<1> HIDE DEF e
<1>6. \A b \in Held(surface) : /\ surface.bank[b].gateway => client'[b].opened
                               /\ \A s : Coming(b, s)'
  <2> SUFFICES ASSUME NEW b \in Held(surface)
               PROVE  /\ surface.bank[b].gateway => client'[b].opened
                      /\ \A s : Coming(b, s)'
    OBVIOUS
  <2>1. b \in BankId /\ client[b] \in Clients
    BY <1>1, SurfaceFacts
  <2>2. /\ client'[b].opened <=> client[b].opened
        /\ client[b].opened => client'[b].gone \/ \A s : Brings(client'[b].line, s)
    BY <1>2, <2>1, HearsOfChange
  <2> QED BY <1>1, <2>2 DEF Serving, Coming
<1> QED BY <1>1, <1>3, <1>4, <1>5, <1>6 DEF Serving

LEMMA EndsServe == IInv /\ Serving /\ KillSession => Serving'
<1> SUFFICES ASSUME IInv, Serving, KillSession PROVE Serving'
  OBVIOUS
<1>1. surface \in Surfaces /\ client \in [BankId -> Clients] /\ Remembers(history) /\ UNCHANGED <<surface, turn>>
  BY DEF IInv, Stands, Manned, KillSession
<1>2. PICK s \in server.alive :
        /\ server' = [server EXCEPT !.alive = @ \ {s}, !.changes = @ - 1]
        /\ \A b \in BankId : client'[b] = IF Lives(b) /\ client[b].on = s THEN Gone(client[b])
                                          ELSE Hears(client[b], Says("changed", {}))
        /\ history' = [history EXCEPT !.owed = @ \ {s}]
  BY DEF KillSession
<1>3. history'.owed = history.owed \ {s} /\ history'.steady = history.steady
  BY <1>1, <1>2 DEF Remembers
<1>4. server'.alive = server.alive \ {s}
  BY <1>2 DEF IInv, Servers
<1>5. \A b \in Held(surface) : /\ surface.bank[b].gateway => client'[b].opened
                               /\ \A r : Coming(b, r)'
  <2> SUFFICES ASSUME NEW b \in Held(surface)
               PROVE  /\ surface.bank[b].gateway => client'[b].opened
                      /\ \A r : Coming(b, r)'
    OBVIOUS
  <2>1. b \in BankId /\ client[b] \in Clients
    BY <1>1, SurfaceFacts
  <2>2. /\ client'[b].opened <=> client[b].opened
        /\ client[b].opened => client'[b].gone \/ \A r : Brings(client'[b].line, r)
    <3>1. CASE Lives(b) /\ client[b].on = s
      BY <1>2, <2>1, <3>1, GoneIsGone
    <3>2. CASE ~(Lives(b) /\ client[b].on = s)
      <4>1. client'[b] = Hears(client[b], Says("changed", {}))
        BY <1>2, <2>1, <3>2
      <4> QED BY <2>1, <4>1, HearsOfChange
    <3> QED BY <3>1, <3>2
  <2> QED BY <1>1, <2>2 DEF Serving, Coming
<1> QED BY <1>1, <1>3, <1>4, <1>5 DEF Serving

\* One client's step: it comes up, goes, answers what it was asked, is switched.
LEMMA ClientServes ==
  ASSUME IInv, Serving, NEW b \in BankId, NEW D, client' = [client EXCEPT ![b] = D],
         UNCHANGED <<surface, turn>>, server'.alive = server.alive,
         history'.owed = history.owed, history'.steady = history.steady, history'.capped = history.capped,
         client[b].opened => D.opened, client[b].gone => D.gone,
         \A s \in server.alive :
           client[b].asks # 0 \/ Brings(client[b].line, s) => D.gone \/ D.asks # 0 \/ Brings(D.line, s)
  PROVE  Serving'
<1>1. client \in [BankId -> Clients] /\ Held(surface) \subseteq BankId
  BY DEF IInv, Manned, Held
<1>2. client'[b] = D /\ \A c \in BankId : c # b => client'[c] = client[c]
  BY <1>1
<1>3. \A c \in Held(surface) : surface.bank[c].gateway => client'[c].opened
  BY <1>1, <1>2 DEF Serving
<1>4. \A c \in Held(surface), s \in server.alive : Coming(c, s) => Coming(c, s)'
  <2> SUFFICES ASSUME NEW c \in Held(surface), NEW s \in server.alive, Coming(c, s) PROVE Coming(c, s)'
    OBVIOUS
  <2>1. CASE c # b
    BY <1>1, <1>2, <2>1 DEF Coming
  <2>2. CASE c = b
    BY <1>2, <2>2 DEF Coming
  <2> QED BY <2>1, <2>2
<1> QED BY <1>3, <1>4 DEF Serving

LEMMA OpensServe == ASSUME IInv, Serving, NEW b \in BankId, ClientOpens(b) PROVE Serving'
<1> DEFINE D == [client[b] EXCEPT !.opened = TRUE]
<1>1. client[b] \in Clients
  BY DEF IInv, Manned
<1>2. client' = [client EXCEPT ![b] = D]
  BY DEF ClientOpens
<1>3. D.opened /\ D.gone = client[b].gone /\ D.asks = client[b].asks /\ D.line = client[b].line
  BY <1>1 DEF Clients
<1> HIDE DEF D
<1> QED BY <1>2, <1>3, ClientServes DEF ClientOpens

LEMMA GoesServe == ASSUME IInv, Serving, NEW b \in BankId, ClientGoes(b) PROVE Serving'
<1> DEFINE D == Gone(client[b])
<1>1. client[b] \in Clients
  BY DEF IInv, Manned
<1>2. client' = [client EXCEPT ![b] = D]
  BY DEF ClientGoes
<1>3. D.gone /\ (D.opened <=> client[b].opened)
  BY <1>1, GoneIsGone
<1>4. server'.alive = server.alive
  BY DEF ClientGoes, IInv, Servers
<1> HIDE DEF D
<1> QED BY <1>2, <1>3, <1>4, ClientServes DEF ClientGoes

LEMMA ListsServe == ASSUME IInv, Serving, NEW b \in BankId, Lists(b) PROVE Serving'
<1> DEFINE m == Says("listing", server.alive)
           D == [client[b] EXCEPT !.asks = client[b].asks - 1, !.line = Append(client[b].line, m)]
<1>1. client[b] \in Clients /\ client[b].line \in Seq(Message)
  BY DEF IInv, Manned, Clients
<1>2. client' = [client EXCEPT ![b] = D]
  BY DEF Lists
<1>3. m \in Message /\ m.says = "listing" /\ m.of = server.alive
  BY SaysFacts DEF IInv, Servers
<1> HIDE DEF m
<1>4. D.opened = client[b].opened /\ D.gone = client[b].gone /\ D.line = Append(client[b].line, m)
  BY <1>1 DEF Clients
<1>5. \A s \in server.alive : Brings(D.line, s)
  BY <1>1, <1>3, <1>4, AppendBrings
<1> HIDE DEF D
<1> QED BY <1>2, <1>4, <1>5, ClientServes DEF Lists

LEMMA SwitchServes == ASSUME IInv, Serving, NEW b \in BankId, SwitchClient(b) PROVE Serving'
<1>1. client[b] \in Clients /\ client[b].line \in Seq(Message) /\ Remembers(history) /\ client \in [BankId -> Clients]
  BY DEF IInv, Manned, Clients
<1>2. PICK s \in server.alive \ {client[b].on} :
        /\ client' = [client EXCEPT ![b].on = s, ![b].line = Append(@, Says("switched", {s}))]
        /\ history' = [history EXCEPT !.shared = @ \cup {s, client[b].on}]
  BY DEF SwitchClient
<1> DEFINE m == Says("switched", {s})
           D == [client[b] EXCEPT !.on = s, !.line = Append(@, m)]
<1>3. client' = [client EXCEPT ![b] = D]
  BY <1>1, <1>2
<1>4. m \in Message /\ m.says = "switched"
  BY SaysFacts DEF IInv, Servers
<1> HIDE DEF m
<1>5. D.opened = client[b].opened /\ D.gone = client[b].gone /\ D.line = Append(client[b].line, m)
  BY <1>1 DEF Clients
<1>6. \A r : Brings(D.line, r)
  BY <1>1, <1>4, <1>5, AppendBrings
<1>7. server'.alive = server.alive
  BY DEF SwitchClient, IInv, Servers
<1>8. history'.owed = history.owed /\ history'.steady = history.steady /\ history'.capped = history.capped
  BY <1>1, <1>2 DEF Remembers
<1> HIDE DEF D
<1> QED BY <1>3, <1>5, <1>6, <1>7, <1>8, ClientServes DEF SwitchClient

LEMMA TickServes == IInv /\ Serving /\ Tick => Serving'
<1> SUFFICES ASSUME IInv, Serving, Tick PROVE Serving'
  OBVIOUS
<1>1. surface'.bank = surface.bank /\ UNCHANGED <<turn, server, client>>
  BY DEF Tick, IInv, Stands, Surfaces
<1>2. history'.owed = history.owed /\ history'.steady = history.steady /\ history'.capped = history.capped
  BY DEF Tick, IInv, Remembers
<1>3. Held(surface') = Held(surface)
  BY <1>1 DEF Held
<1> QED BY <1>1, <1>2, <1>3 DEF Serving, Coming

\* A bank just typed is another bank.
LEMMA AttachServes == ASSUME IInv, Serving, NEW s \in SessionId, TypeAttach(s) PROVE Serving'
<1> DEFINE n == surface.next
           D == [Client(s, TRUE) EXCEPT !.asks = 1]
<1>1. /\ n \in BankId /\ surface' = Raise(surface, "typed", s) /\ client' = [client EXCEPT ![n] = D]
      /\ history' = [history EXCEPT !.shared = @ \cup {s}] /\ turn' = turn
      /\ server' = [server EXCEPT !.changes = @ - 1]
  BY DEF TypeAttach
<1>2. surface \in Surfaces /\ Numbered(surface) /\ client \in [BankId -> Clients] /\ Remembers(history) /\ server \in Servers
  BY DEF IInv, Stands, Manned
<1>3. surface'.bank[n].kind = "typed" /\ \A b \in BankId : b # n => surface'.bank[b] = surface.bank[b]
  BY <1>1, <1>2, RaiseIs
<1>4. n \notin Held(surface) /\ Held(surface') = Held(surface) \cup {n} /\ Held(surface) \subseteq BankId
  <2>1. n \notin Held(surface)
    BY <1>2, SurfaceFacts DEF Numbered, Held
  <2> QED BY <1>1, <1>3, <2>1 DEF Held
<1>5. D.opened
  BY DEF Client, NoClient
<1>6. client'[n] = D /\ \A b \in BankId : b # n => client'[b] = client[b]
  BY <1>1, <1>2
<1>7. history'.owed = history.owed /\ history'.steady = history.steady /\ history'.capped = history.capped
  BY <1>1, <1>2 DEF Remembers
<1>8. server'.alive = server.alive
  BY <1>1, <1>2 DEF Servers
<1> HIDE DEF D
<1>9. \A b \in Held(surface') : surface'.bank[b].gateway => client'[b].opened
  BY <1>3, <1>4, <1>5, <1>6 DEF Serving
<1>10. \A b \in Held(surface) : \A r : Coming(b, r) => Coming(b, r)'
  BY <1>1, <1>3, <1>4, <1>6 DEF Coming
<1> QED BY <1>4, <1>7, <1>8, <1>9, <1>10 DEF Serving

\* What a wire brought is in its turn, and a client that came up has been asked.
LEMMA WiresServe == ASSUME IInv, Serving, PumpWires PROVE Serving'
<1>1. WiresLeave
  BY WiresKeep
<1>2. DOMAIN turn = {}
  BY DEF PumpWires, Idle
<1>3. \A b \in Held(surface') : surface'.bank[b].gateway => client'[b].opened
  BY <1>1 DEF WiresLeave, Serving
<1>4. ASSUME NEW b \in Held(surface'), NEW s, Coming(b, s) PROVE Coming(b, s)'
  <2>1. /\ client[b].gone => client'[b].gone
        /\ client[b].asks # 0 => client'[b].asks # 0
        /\ surface'.bank[b].gateway => surface.bank[b].gateway \/ client'[b].gone \/ client'[b].asks # 0
        /\ client'[b].line = client[b].line \/ (b \in DOMAIN turn' /\ turn'[b] = client[b].line)
    BY <1>1 DEF WiresLeave
  <2> QED BY <1>2, <1>4, <2>1 DEF Coming
<1>5. /\ history'.owed \subseteq history.owed /\ server' = server /\ (~history'.capped => ~history.capped)
      /\ history'.steady # 0 => history'.steady = history.steady /\ history.steady \in Held(surface')
  BY <1>1 DEF WiresLeave, Steadied
<1> QED BY <1>3, <1>4, <1>5 DEF Serving

\* A listing heard leaves nothing owed of what it told but what the cap kept
\* away, and whatever changed has the server listed again.
LEMMA TurnServes == ASSUME IInv, Serving, NEW b \in BankId, PumpGateway(b) PROVE Serving'
<1>1. TurnLeaves(b)
  BY TurnKeeps
<1>2. /\ history'.owed \subseteq history.owed /\ server' = server /\ (~history'.capped => ~history.capped)
      /\ history'.steady # 0 => history'.steady = history.steady /\ history.steady \in Held(surface')
  BY <1>1 DEF TurnLeaves, Steadied
<1>3. \A c \in Held(surface') : surface'.bank[c].gateway => client'[c].opened
  BY <1>1 DEF TurnLeaves, Serving
<1>4. ASSUME NEW e, e = history'.steady, e # 0, ~history'.capped, NEW s \in history'.owed
      PROVE  Coming(e, s)'
  <2>1. e \in Held(surface') /\ history'.steady = e /\ e # 0 /\ ~history.capped /\ Coming(e, s)
    BY <1>2, <1>4 DEF Serving
  <2>2. CASE e # b
    <3>1. \/ ~surface'.bank[e].gateway
          \/ /\ surface'.bank[e] = surface.bank[e] /\ client'[e] = client[e]
             /\ e \in DOMAIN turn => e \in DOMAIN turn' /\ turn'[e] = turn[e]
      BY <1>1, <2>1, <2>2 DEF TurnLeaves
    <3> QED BY <2>1, <3>1 DEF Coming
  <2>3. CASE e = b
    <3>1. /\ surface.bank[b].gateway
          /\ client'[b].gone <=> client[b].gone
          /\ client'[b].line = client[b].line
          /\ client[b].asks # 0 => client'[b].asks # 0
          /\ \A i \in 1 .. Len(turn[b]) :
               turn[b][i].says \in {"changed", "switched"} => client[b].gone \/ client'[b].asks # 0
          /\ \A i \in 1 .. Len(turn[b]), r \in history'.owed :
               turn[b][i].says = "listing" /\ r \in turn[b][i].of => history'.capped
      BY <1>1, <2>1, <2>3 DEF TurnLeaves
    <3>2. Brings(turn[b], s) => client[b].gone \/ client'[b].asks # 0
      BY <1>4, <3>1 DEF Brings
    <3> QED BY <2>1, <2>3, <3>1, <3>2 DEF Coming
  <2> QED BY <2>1, <2>2, <2>3
<1> QED BY <1>2, <1>3, <1>4 DEF Serving

LEMMA ServesOn == IInv /\ Serving /\ [Next]_vars => Serving'
<1> SUFFICES ASSUME IInv, Serving, [Next]_vars PROVE Serving'
  OBVIOUS
<1>1. CASE UNCHANGED vars
  BY <1>1 DEF vars, Serving, Coming
<1>2. CASE Next
  BY <1>2, ComersServe, EndsServe, OpensServe, GoesServe, ListsServe, SwitchServes, TickServes, AttachServes,
     WiresServe, TurnServes DEF Next
<1> QED BY <1>1, <1>2

\* Nothing is coming where all is quiet.
LEMMA ServingSays == IInv /\ Serving => ComersAreBanked
<1> SUFFICES ASSUME IInv, Serving, Quiet, history.steady # 0, ~history.capped, NEW s \in history.owed PROVE FALSE
  BY DEF ComersAreBanked
<1> DEFINE e == history.steady
<1>1. e \in Held(surface) /\ Coming(e, s)
  BY DEF Serving
<1> HIDE DEF e
<1>2. turn = <<>> /\ client[e].line = <<>> /\ client[e].asks = 0 /\ ~client[e].gone /\ surface.bank[e].gateway
  BY <1>1 DEF Quiet, Idle
<1>3. ~Brings(<<>>, s) /\ e \notin DOMAIN turn
  <2>1. Len(<<>>) = 0 /\ DOMAIN turn = {}
    BY <1>2
  <2> QED BY <2>1 DEF Brings
<1> QED BY <1>1, <1>2, <1>3 DEF Coming

-----------------------------------------------------------------------------
(***************************************************************************)
(* Whoever has just been given a client has no failure that is still young.*)
(***************************************************************************)
LEMMA StartsInTime ==
  ASSUME IInv, [Next]_vars, NEW s \in SessionId \ history.shared,
         surface'.sessions[s].slot = "spawning", surface.sessions[s].slot # "spawning"
  PROVE  history.died[s] = RESPAWN_BACKOFF
<1>1. IInv'
  BY StepKeeps
<1>2. ASSUME NEW b \in BankId, PumpGateway(b) PROVE history.died[s] = RESPAWN_BACKOFF
  <2>1. history'.shared = history.shared /\ history'.died = history.died
    BY <1>2, TurnKeeps DEF TurnLeaves, Steadied
  <2>2. history'.died[s] = RESPAWN_BACKOFF
    BY <1>1, <2>1 DEF IInv, Aged
  <2> QED BY <2>1, <2>2
<1>3. ~PumpWires
  BY WiresKeep DEF WiresLeave
<1>4. ~Tick
  <2> SUFFICES ASSUME Tick PROVE FALSE
    OBVIOUS
  <2>1. surface \in Surfaces /\ s \in SessionId
    BY DEF IInv, Stands
  <2>2. surface'.sessions[s] =
          IF surface.sessions[s].slot = "failed" /\ surface.sessions[s].n < RESPAWN_BACKOFF
            THEN Failed(surface.sessions[s].n + 1) ELSE surface.sessions[s]
    BY <2>1 DEF Tick, Surfaces
  <2> QED BY <2>2 DEF Failed
<1>5. \A r \in SessionId : ~TypeAttach(r)
  <2> SUFFICES ASSUME NEW r \in SessionId, TypeAttach(r) PROVE FALSE
    OBVIOUS
  <2>1. surface' = Raise(surface, "typed", r) /\ surface.next \in BankId /\ surface \in Surfaces
    BY DEF TypeAttach, IInv, Stands
  <2>2. surface'.sessions = surface.sessions
    BY <2>1, RaiseIs
  <2> QED BY <2>2
<1>6. surface' # surface
  OBVIOUS
<1>7. PICK b \in BankId : PumpGateway(b)
  BY <1>3, <1>4, <1>5, <1>6 DEF Next, vars, NewSession, KillSession, ClientOpens, ClientGoes, SwitchClient, Lists
<1> QED BY <1>2, <1>7

-----------------------------------------------------------------------------
(***************************************************************************)
(* Everything the register notes, the banks, their clients and what is     *)
(* still to be heard stay as IInv has them, in every order of listings,    *)
(* switches, ends and new clients.                                         *)
(***************************************************************************)
THEOREM RegisterInvariant == Spec => []IInv
BY InitHolds, StepKeeps, PTL DEF Spec

(***************************************************************************)
(* The register follows the banks, a session found has one client and the  *)
(* found banks stay within their cap, however many gateways list the server*)
(* and whichever client is switched, ends or fails meanwhile (forget_bank, *)
(* bank_sessions).                                                         *)
(***************************************************************************)
THEOREM RegisterIsSound == Spec => []RegisterSound
BY RegisterInvariant, InvariantSays, PTL

(***************************************************************************)
(* A session found gets no new client until the backoff has run since its  *)
(* last one died with its envelope unopened, whichever bank's listing finds*)
(* it (bank_sessions and its RESPAWN_BACKOFF).                             *)
(***************************************************************************)
THEOREM BackoffAlwaysKept == Spec => BackoffKept
<1>1. IInv /\ [Next]_vars =>
        [\A s \in SessionId \ history.shared :
           surface'.sessions[s].slot = "spawning" /\ surface.sessions[s].slot # "spawning"
             => history.died[s] = RESPAWN_BACKOFF]_vars
  BY StartsInTime
<1> QED BY <1>1, RegisterInvariant, PTL DEF Spec, BackoffKept

(***************************************************************************)
(* Once all is quiet, every session that came has had its bank, if whoever *)
(* answered for the server when it came still does and the cap let it: no  *)
(* listing is lost between a change told and the turn that asks again      *)
(* (pump_gateway, bank_sessions). And none has a second client too soon.   *)
(***************************************************************************)
THEOREM SessionsAlwaysServed == Spec => SessionsAreServed
<1>1. Spec => []Serving
  BY ServesFirst, ServesOn, RegisterInvariant, PTL DEF Spec
<1>2. Spec => []ComersAreBanked
  BY <1>1, ServingSays, RegisterInvariant, PTL
<1> QED BY <1>2, BackoffAlwaysKept, PTL DEF SessionsAreServed
=============================================================================
