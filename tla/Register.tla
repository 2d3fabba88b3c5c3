------------------------------ MODULE Register ------------------------------
(***************************************************************************)
(* The sessions of a tmux server and the banks they stand on: the register *)
(* of window/tmux.rs, the clients this surface starts for the sessions it  *)
(* finds, and the gateways' listings that find them.                       *)
(*                                                                         *)
(* A pump turns to the wires, sweeps, and gives each gateway a turn; the   *)
(* server and its clients go on meanwhile, and what they say reaches a     *)
(* wire whenever it does. One server, this machine's own.                  *)
(*                                                                         *)
(* Left out: a wire that cannot be duplicated, a client that cannot be     *)
(* spawned, a carrier row that closes, the banks' windows (see Gateway).   *)
(***************************************************************************)
EXTENDS Integers, Sequences, FiniteSets, SequencesExt

CONSTANTS
  MaxSession,        \* bound: sessions the server ever had; ids are not reused
  MaxBank,           \* bound: banks ever raised
  FOUND_BANK_CAP, RESPAWN_BACKOFF,
  MaxChanges         \* bound: what happens on the server by itself

ASSUME RegisterAssumption ==
  /\ {MaxSession, MaxBank, FOUND_BANK_CAP, RESPAWN_BACKOFF} \subseteq Nat \ {0}
  /\ MaxChanges \in Nat

VARIABLES
  surface,   \* sessions (the register), bank (model and runtime), next_bank_id
  turn,      \* the gateways this pump still owes a turn, with what they read
  server,    \* the sessions alive, the next id, the changes left to happen
  client,    \* each bank's tmux client: the far end of its wire
  history    \* for the properties

vars == <<surface, turn, server, client, history>>

SessionId == 1 .. MaxSession
BankId    == 1 .. MaxBank

\* SessionSlot, and no entry.
Absent      == [slot |-> "absent", n |-> 0]
Spawning(b) == [slot |-> "spawning", n |-> b]
Banked(b)   == [slot |-> "banked", n |-> b]
Failed(age) == [slot |-> "failed", n |-> age]

SlotBank(slot) == IF slot.slot \in {"spawning", "banked"} THEN slot.n ELSE 0

\* Without a client and owed one: never seen, or failed and past its backoff.
Owed(slot) == slot = Absent \/ (slot.slot = "failed" /\ slot.n >= RESPAWN_BACKOFF)

\* A bank: raised over a typed client or for a session found; its client half
\* up; the session that half believes it is on.
NoBank == [kind |-> "none", gateway |-> FALSE, session |-> 0]

Held(S)  == {b \in BankId : S.bank[b].kind # "none"}
Found(S) == {b \in BankId : S.bank[b].kind = "found"}

Lowest(T) == IF T = {} THEN 0 ELSE CHOOSE b \in T : \A c \in T : b <= c

\* Whoever answers for the server: its lowest bank on the register.
Enumerator(S) == Lowest({SlotBank(S.sessions[s]) : s \in SessionId} \ {0})

-----------------------------------------------------------------------------
(***************************************************************************)
(* The surface's operators.                                                *)
(***************************************************************************)
\* left: a failure of now, or no entry.
ForgetBank(S, b, left) ==
  [S EXCEPT !.sessions = [s \in SessionId |-> IF SlotBank(@[s]) = b THEN left ELSE @[s]]]

\* collapse_bank: the model's bank, then the register's entries for it.
CollapseBank(S, b) == ForgetBank([S EXCEPT !.bank[b] = NoBank], b, Absent)

\* attach and attach_found: the next bank.
Raise(S, kind, s) ==
  [S EXCEPT !.bank[S.next] = [kind |-> kind, gateway |-> kind = "typed", session |-> s], !.next = @ + 1]

MayRaise(S) == Cardinality(Found(S)) < FOUND_BANK_CAP

\* Mutant: a session is on the register once its own client has said so.
RaiseFoundUnregistered(S, s) == Raise(S, "found", s)

RaiseFound(S, s) == [Raise(S, "found", s) EXCEPT !.sessions[s] = Spawning(S.next)]

\* Mutant: the highest bank on the server answers for it.
AnswersLast(S, b) == \A s \in SessionId : SlotBank(S.sessions[s]) <= b

Answers(S, b) == Enumerator(S) = b

\* bank_sessions: the listing's own session, then whatever has no bank.
Raised(S, listed) ==
  LET One(R, s) == IF s \in listed /\ Owed(R.sessions[s]) /\ R.next \in BankId /\ MayRaise(R) THEN RaiseFound(R, s) ELSE R
  IN  FoldLeft(One, S, [s \in SessionId |-> s])

BankSessions(S, b, listed) ==
  LET T == [S EXCEPT !.sessions[S.bank[b].session] = Banked(b)]
  IN  IF Answers(T, b) THEN Raised(T, listed) ELSE T

-----------------------------------------------------------------------------
(***************************************************************************)
(* The server. A client hears what it asked for and what changed, in order.*)
(***************************************************************************)
Says(what, S) == [says |-> what, of |-> S]

NoClient == [on |-> 0, opened |-> FALSE, gone |-> FALSE, line |-> <<>>, asks |-> 0]
Client(s, opened) == [NoClient EXCEPT !.on = s, !.opened = opened]

Lives(b) == client[b].on # 0 /\ ~client[b].gone
Talks(b) == Lives(b) /\ client[b].opened

Hears(C, what) == IF C.opened /\ ~C.gone THEN [C EXCEPT !.line = Append(@, what)] ELSE C

\* A client that goes says so and closes its wire.
Gone(C) == [Hears(C, Says("exit", {})) EXCEPT !.gone = TRUE, !.asks = 0]

NewSession ==
  /\ server.changes > 0 /\ server.next \in SessionId
  /\ server' = [alive |-> server.alive \cup {server.next}, next |-> server.next + 1, changes |-> server.changes - 1]
  /\ client' = [b \in BankId |-> Hears(client[b], Says("changed", {}))]
  /\ history' = [history EXCEPT !.owed = history.owed \cup {server.next}, !.capped = FALSE,
                                !.steady = IF Enumerator(surface) = 0 THEN history.steady ELSE Enumerator(surface)]
  /\ UNCHANGED <<surface, turn>>

\* The clients on a session that ends go with it.
KillSession ==
  /\ server.changes > 0
  /\ \E s \in server.alive :
       /\ server' = [server EXCEPT !.alive = @ \ {s}, !.changes = @ - 1]
       /\ client' = [b \in BankId |-> IF Lives(b) /\ client[b].on = s THEN Gone(client[b])
                                      ELSE Hears(client[b], Says("changed", {}))]
       /\ history' = [history EXCEPT !.owed = @ \ {s}]
  /\ UNCHANGED <<surface, turn>>

\* A client comes up on its session.
ClientOpens(b) ==
  /\ Lives(b) /\ ~client[b].opened /\ client[b].on \in server.alive
  /\ client' = [client EXCEPT ![b].opened = TRUE]
  /\ UNCHANGED <<surface, turn, server, history>>

\* A client is detached or killed, or finds no session to come up on.
ClientGoes(b) ==
  /\ Lives(b)
  /\ \/ (server.changes > 0 /\ server' = [server EXCEPT !.changes = @ - 1])
     \/ (~client[b].opened /\ client[b].on \notin server.alive /\ UNCHANGED server)
  /\ client' = [client EXCEPT ![b] = Gone(@)]
  /\ UNCHANGED <<surface, turn, history>>

\* switch-client: the client is on another session of the server now.
SwitchClient(b) ==
  /\ Talks(b) /\ surface.bank[b].gateway /\ server.changes > 0
  /\ \E s \in server.alive \ {client[b].on} :
       /\ client' = [client EXCEPT ![b].on = s, ![b].line = Append(@, Says("switched", {s}))]
       /\ history' = [history EXCEPT !.shared = @ \cup {s, client[b].on}]
  /\ server' = [server EXCEPT !.changes = @ - 1]
  /\ UNCHANGED <<surface, turn>>

\* list-sessions is answered with what stands then.
Lists(b) ==
  /\ Talks(b) /\ client[b].asks > 0
  /\ client' = [client EXCEPT ![b].asks = @ - 1, ![b].line = Append(@, Says("listing", server.alive))]
  /\ UNCHANGED <<surface, turn, server, history>>

-----------------------------------------------------------------------------
(***************************************************************************)
(* The pump.                                                               *)
(***************************************************************************)
Idle == turn = <<>>

\* What a step leaves of the history: whether another answers, who is banked.
Steady(H, S) == [H EXCEPT !.steady = IF @ \in Held(S) /\ Enumerator(S) \in {0, @} THEN @ ELSE 0,
                          !.owed = {s \in @ : S.sessions[s] = Absent}]

\* A typed client: attach raises the bank and its client half in one go.
TypeAttach(s) ==
  /\ Idle /\ s \in server.alive /\ surface.next \in BankId /\ server.changes > 0
  /\ surface' = Raise(surface, "typed", s)
  /\ client' = [client EXCEPT ![surface.next] = [Client(s, TRUE) EXCEPT !.asks = 1]]
  /\ server' = [server EXCEPT !.changes = @ - 1]
  /\ history' = [history EXCEPT !.shared = @ \cup {s}]
  /\ UNCHANGED turn

\* Mutant: the bank collapses, and the failure is noted after it.
DiedLate(S, b) == IF S.bank[b].gateway THEN CollapseBank(S, b) ELSE ForgetBank(CollapseBank(S, b), b, Failed(0))

\* A wire that closed: a failure where its envelope never opened; then the
\* bank goes, and its record in the sweep.
Died(S, b) == IF S.bank[b].gateway THEN CollapseBank(S, b) ELSE CollapseBank(ForgetBank(S, b, Failed(0)), b)

\* Each in turn, from the lowest bank on.
Buried(S, eof) ==
  LET One(R, b) == IF b \in eof THEN Died(R, b) ELSE R
  IN  FoldLeft(One, S, [b \in BankId |-> b])

\* The wires but the late; eof: those at their end. What opened is asked its
\* sessions, what has spoken is owed a turn.
TurnToWires(late, eof) ==
  LET opened == {b \in Found(surface) \ (late \cup eof) : ~surface.bank[b].gateway /\ client[b].opened}
      S1     == [surface EXCEPT !.bank = [b \in BankId |-> IF b \in opened THEN [@[b] EXCEPT !.gateway = TRUE] ELSE @[b]]]
      S2     == Buried(S1, eof)
      reads  == {b \in Held(S2) \ late : S2.bank[b].gateway /\ client[b].line # <<>>}
      failed == {s \in SessionId : \E b \in eof : ~surface.bank[b].gateway /\ surface.bank[b].session = s}
  IN  /\ surface' = S2
      /\ turn' = [b \in reads |-> client[b].line]
      /\ opened \cup eof \cup reads # {}
      /\ client' = [b \in BankId |->
           IF b \in eof THEN NoClient
           ELSE [client[b] EXCEPT !.line = IF b \in reads THEN <<>> ELSE @,
                                  !.asks = IF b \in opened /\ Lives(b) THEN @ + 1 ELSE @]]
      /\ history' = [Steady(history, S2) EXCEPT !.died = [s \in SessionId |-> IF s \in failed THEN 0 ELSE @[s]]]
      /\ UNCHANGED server

\* pump_wires. late: the wires whose latest has not arrived. An end of file
\* can arrive with the last lines or after them.
PumpWires ==
  /\ Idle
  /\ \E late \in SUBSET {b \in Held(surface) : client[b].gone \/ client[b].line # <<>> \/ client[b].opened # surface.bank[b].gateway} :
     \E eof \in SUBSET {b \in Found(surface) \ late : client[b].gone} : TurnToWires(late, eof)

\* One line of a gateway's turn.
Heard(S, b, l) ==
  CASE l.says = "listing"  -> BankSessions(S, b, l.of)
    [] l.says = "switched" -> [S EXCEPT !.bank[b].session = CHOOSE s \in l.of : TRUE]
    [] OTHER               -> S

\* The lines of a turn, in order.
HeardAll(S, b, lines) ==
  LET One(R, l) == Heard(R, b, l)
  IN  FoldLeft(One, S, lines)

\* What it read, applied; the end, or one listing more for whatever
\* changed; a client for each bank it raised.
PumpGateway(b) ==
  /\ b \in DOMAIN turn
  /\ LET S     == HeardAll(surface, b, turn[b])
         said  == {l.says : l \in Range(turn[b])}
         ends  == "exit" \in said
         again == said \cap {"changed", "switched"} # {}
         full  == Answers(S, b) /\ \E s \in UNION {l.of : l \in Range(turn[b])} : S.sessions[s] = Absent
     IN  /\ S.next \in BankId \/ ~full       \* bound
         /\ surface' = IF ends THEN CollapseBank(S, b) ELSE S
         /\ client' = [c \in BankId |->
              IF c \in Held(S) \ Held(surface) THEN Client(S.bank[c].session, FALSE)
              ELSE IF c # b THEN client[c]
              ELSE IF ends THEN NoClient
              ELSE [client[b] EXCEPT !.asks = IF again /\ Lives(b) THEN @ + 1 ELSE @]]
         /\ history' = [Steady(history, surface') EXCEPT !.capped = @ \/ full]
  /\ turn' = [c \in DOMAIN turn \ {b} |-> turn[c]]
  /\ UNCHANGED server

\* Time towards a backoff.
Tick ==
  /\ \E s \in SessionId : history.died[s] < RESPAWN_BACKOFF
  /\ surface' = [surface EXCEPT !.sessions = [s \in SessionId |->
                   IF @[s].slot = "failed" /\ @[s].n < RESPAWN_BACKOFF THEN Failed(@[s].n + 1) ELSE @[s]]]
  /\ history' = [history EXCEPT !.died = [s \in SessionId |-> IF @[s] < RESPAWN_BACKOFF THEN @[s] + 1 ELSE @[s]]]
  /\ UNCHANGED <<turn, server, client>>

-----------------------------------------------------------------------------
\* A client typed at the server's first session, one other standing by.
Init ==
  /\ server = [alive |-> {1, 2} \cap SessionId, next |-> 3, changes |-> MaxChanges]
  /\ surface = [sessions |-> [s \in SessionId |-> Absent], next |-> 2,
                bank |-> [b \in BankId |-> IF b = 1 THEN [kind |-> "typed", gateway |-> TRUE, session |-> 1] ELSE NoBank]]
  /\ turn = <<>>
  /\ client = [b \in BankId |-> IF b = 1 THEN [Client(1, TRUE) EXCEPT !.asks = 1] ELSE NoClient]
  /\ history = [owed |-> server.alive \ {1}, steady |-> 1, capped |-> FALSE, shared |-> {1},
                died |-> [s \in SessionId |-> RESPAWN_BACKOFF]]

Next ==
  \/ NewSession \/ KillSession \/ PumpWires \/ Tick
  \/ \E s \in SessionId : TypeAttach(s)
  \/ \E b \in BankId : ClientOpens(b) \/ ClientGoes(b) \/ SwitchClient(b) \/ Lists(b) \/ PumpGateway(b)

Spec == Init /\ [][Next]_vars

-----------------------------------------------------------------------------
(***************************************************************************)
(* Properties.                                                             *)
(***************************************************************************)
\* Every part is of its kind, and a bank that does not stand has no client.
RegisterTypeOK ==
  /\ surface.sessions \in [SessionId -> {Absent} \cup {Spawning(b) : b \in BankId} \cup {Banked(b) : b \in BankId}
                                        \cup {Failed(age) : age \in 0 .. RESPAWN_BACKOFF}]
  /\ surface.bank \in [BankId -> [kind : {"none", "typed", "found"}, gateway : BOOLEAN, session : 0 .. MaxSession]]
  /\ surface.next \in 1 .. MaxBank + 1
  /\ DOMAIN turn \subseteq Held(surface)
  /\ server.alive \subseteq SessionId
  /\ \A b \in BankId : b \in Held(surface) <=> client[b].on # 0

\* The register follows the banks: an entry names a bank that stands, and a
\* bank raised for a session found is that session's entry, unless a client
\* somebody typed or switched took the session over.
RegisterFollows ==
  /\ \A s \in SessionId : SlotBank(surface.sessions[s]) # 0 => SlotBank(surface.sessions[s]) \in Held(surface)
  /\ \A b \in Found(surface) :
       LET s == surface.bank[b].session
       IN  s \in history.shared \/ surface.sessions[s] \in {Spawning(b), Banked(b)}

\* However many gateways list one server, and however often, a session found
\* gets one client.
OneFoundBankPerSession ==
  \A b, c \in Found(surface) :
    b # c /\ client[b].on = client[c].on => client[b].on \in history.shared

\* FOUND_BANK_CAP holds, whatever one listing brings.
FoundBanksCapped == Cardinality(Found(surface)) <= FOUND_BANK_CAP

\* Together: what is noted, what stands and what the server has agree.
RegisterSound ==
  RegisterTypeOK /\ RegisterFollows /\ OneFoundBankPerSession /\ FoundBanksCapped

\* No client is started for a session whose last one died before its envelope
\* opened, until the backoff has run.
BackoffKept ==
  [][\A s \in SessionId \ history.shared :
       surface'.sessions[s].slot = "spawning" /\ surface.sessions[s].slot # "spawning"
         => history.died[s] = RESPAWN_BACKOFF]_vars

\* Nothing on its way, and nobody coming up or going.
Quiet == Idle /\ \A b \in Held(surface) :
  client[b].line = <<>> /\ client[b].asks = 0 /\ ~client[b].gone /\ client[b].opened /\ surface.bank[b].gateway

\* Once all is quiet, a session that came has had its bank, if whoever
\* answered for the server when it came still does and the cap let it.
ComersAreBanked == Quiet /\ history.steady # 0 /\ ~history.capped => history.owed = {}

\* Together: every session that came has its client, and none two times too soon.
SessionsAreServed == []ComersAreBanked /\ BackoffKept
=============================================================================
