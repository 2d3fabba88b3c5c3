------------------------------ MODULE Instance ------------------------------
(***************************************************************************)
(* Which of several launches is the program (crates/app/src/instance.rs,   *)
(* called by main.rs): a lock file says who is primary, a socket beside it *)
(* takes the windows the others ask for. Every system call two processes   *)
(* can come between is a step.                                             *)
(*                                                                         *)
(* A lock is held on the file a process opened, whatever the path names by *)
(* then. Left out: errors of the file system, other platforms, messages    *)
(* that are no request, the fullscreen and ssh words of one that is.       *)
(***************************************************************************)
EXTENDS Integers, SequencesExt

CONSTANTS
  Proc,      \* bound: the launches
  Nobody

ASSUME InstanceAssumption == Nobody \notin Proc

VARIABLES
  pc,        \* how far each process has come
  lockFile,  \* the file at the lock's path, 0 when there is none
  files,     \* how many lock files were ever made
  opened,    \* the lock file each process opened
  socket,    \* whose listener the socket's path leads to
  backlog,   \* the connections waiting at each listener
  asked,     \* whom each process connected to
  hand,      \* the request a listener has acknowledged and not yet posted
  inbox,     \* the requests posted to each event loop
  windows,   \* the windows each process has open
  shown,     \* how many windows were opened for each launch
  gaveUp     \* the launches that waited five seconds

vars == <<pc, lockFile, files, opened, socket, backlog, asked, hand, inbox, windows, shown, gaveUp>>
lockVars == <<lockFile, files, opened>>
requestVars == <<backlog, asked, hand, inbox>>
windowVars == <<windows, shown, gaveUp>>

Holding   == {"locked", "cleared", "bound", "serving", "leaving", "unlinked", "forgotten"}
Listening == {"bound", "serving", "leaving", "unlinked", "forgotten"}
Serving   == Listening \ {"bound"}     \* the listener's thread runs
Leaving   == {"leaving", "unlinked", "forgotten"}
Over      == {"gone", "left"}          \* ended; "left" by its event loop

Locked(file) == \E q \in Proc : opened[q] = file /\ pc[q] \in Holding
Goes(p, to)  == pc' = [pc EXCEPT ![p] = to]
Shows(p, q)  ==
  /\ windows' = [windows EXCEPT ![p] = @ + 1]
  /\ shown' = [shown EXCEPT ![q] = @ + 1]

-----------------------------------------------------------------------------

(***************************************************************************)
(* acquire.                                                                *)
(***************************************************************************)
Open(p) ==
  /\ pc[p] = "start"
  /\ Goes(p, "opened")
  /\ files' = IF lockFile = 0 THEN files + 1 ELSE files
  /\ lockFile' = IF lockFile = 0 THEN files + 1 ELSE lockFile
  /\ opened' = [opened EXCEPT ![p] = lockFile']
  /\ UNCHANGED <<socket, requestVars, windowVars>>

\* Mutant: the socket decides who is primary.
LockBySocket(p) ==
  /\ pc[p] = "opened"
  /\ Goes(p, IF socket # Nobody THEN "contends" ELSE "locked")
  /\ UNCHANGED <<lockVars, socket, requestVars, windowVars>>

Lock(p) ==
  /\ pc[p] = "opened"
  /\ Goes(p, IF Locked(opened[p]) THEN "contends" ELSE "locked")
  /\ UNCHANGED <<lockVars, socket, requestVars, windowVars>>

\* A launch that is no one's client and no primary opens its window itself.
Alone(p) == Goes(p, "alone") /\ Shows(p, p)
\* ... and has not waited in vain.
AloneAtOnce(p) == Alone(p) /\ UNCHANGED gaveUp

Reachable == socket # Nobody /\ pc[socket] \in Listening

\* Mutant: a socket that is not there yet is waited for.
ConnectRetrying(p) ==
  /\ pc[p] = "contends"
  /\ Reachable
  /\ Goes(p, "waits")
  /\ asked' = [asked EXCEPT ![p] = socket]
  /\ backlog' = [backlog EXCEPT ![socket] = Append(@, p)]
  /\ UNCHANGED <<lockVars, socket, hand, inbox, windowVars>>

Connect(p) ==
  /\ pc[p] = "contends"
  /\ IF Reachable
     THEN /\ Goes(p, "waits")
          /\ asked' = [asked EXCEPT ![p] = socket]
          /\ backlog' = [backlog EXCEPT ![socket] = Append(@, p)]
          /\ UNCHANGED windowVars
     ELSE AloneAtOnce(p) /\ UNCHANGED <<asked, backlog>>
  /\ UNCHANGED <<lockVars, socket, hand, inbox>>

\* No acknowledgement: the primary is gone, or five seconds are.
Unanswered(p) ==
  /\ pc[p] = "waits"
  /\ gaveUp' = IF pc[asked[p]] \in Over THEN gaveUp ELSE gaveUp \cup {p}
  /\ Alone(p)
  /\ UNCHANGED <<lockVars, socket, requestVars>>

\* Mutant: the socket a dead primary left is not cleared away.
ClearNothing(p) ==
  /\ pc[p] = "locked"
  /\ Goes(p, "cleared")
  /\ UNCHANGED <<lockVars, socket, requestVars, windowVars>>

Clear(p) ==
  /\ pc[p] = "locked"
  /\ Goes(p, "cleared")
  /\ socket' = Nobody
  /\ UNCHANGED <<lockVars, requestVars, windowVars>>

\* A path that exists cannot be bound; the lock is let go with the attempt.
Bind(p) ==
  /\ pc[p] = "cleared"
  /\ IF socket = Nobody
     THEN Goes(p, "bound") /\ socket' = p /\ UNCHANGED windowVars
     ELSE AloneAtOnce(p) /\ UNCHANGED socket
  /\ UNCHANGED <<lockVars, requestVars>>

-----------------------------------------------------------------------------
(***************************************************************************)
(* The primary: its listener's thread, and its event loop.                 *)
(***************************************************************************)
Serve(p) ==
  /\ pc[p] = "bound"
  /\ Goes(p, "serving")
  /\ Shows(p, p)
  /\ UNCHANGED <<lockVars, socket, requestVars, gaveUp>>

\* Mutant: the request is taken and not acknowledged.
AcceptUnacknowledged(p) ==
  /\ pc[p] \in Serving
  /\ hand[p] = Nobody /\ backlog[p] # <<>>
  /\ hand' = [hand EXCEPT ![p] = Head(backlog[p])]
  /\ backlog' = [backlog EXCEPT ![p] = Tail(@)]
  /\ UNCHANGED <<pc, lockVars, socket, asked, inbox, windowVars>>

\* A request is read whether or not the one who sent it still waits.
Accept(p) ==
  /\ pc[p] \in Serving
  /\ hand[p] = Nobody /\ backlog[p] # <<>>
  /\ LET q == Head(backlog[p]) IN
       /\ hand' = [hand EXCEPT ![p] = q]
       /\ IF pc[q] = "waits" THEN Goes(q, "delivered") ELSE UNCHANGED pc
  /\ backlog' = [backlog EXCEPT ![p] = Tail(@)]
  /\ UNCHANGED <<lockVars, socket, asked, inbox, windowVars>>

\* Mutant: of the requests waiting only the newest is kept.
PostLast(p) ==
  /\ pc[p] \in Serving
  /\ hand[p] # Nobody
  /\ inbox' = [inbox EXCEPT ![p] = <<hand[p]>>]
  /\ hand' = [hand EXCEPT ![p] = Nobody]
  /\ UNCHANGED <<pc, lockVars, socket, backlog, asked, windowVars>>

Post(p) ==
  /\ pc[p] \in Serving
  /\ hand[p] # Nobody
  /\ inbox' = [inbox EXCEPT ![p] = Append(@, hand[p])]
  /\ hand' = [hand EXCEPT ![p] = Nobody]
  /\ UNCHANGED <<pc, lockVars, socket, backlog, asked, windowVars>>

OpenWindow(p) ==
  /\ pc[p] = "serving"
  /\ inbox[p] # <<>>
  /\ Shows(p, Head(inbox[p]))
  /\ inbox' = [inbox EXCEPT ![p] = Tail(@)]
  /\ UNCHANGED <<pc, lockVars, socket, backlog, asked, hand, gaveUp>>

\* The last window closed ends the event loop; so does Quit, and so does a
\* loop that could not be made. The listener's thread runs on.
CloseWindow(p) ==
  /\ windows[p] > 0
  /\ pc[p] \in {"serving", "alone"}
  /\ windows' = [windows EXCEPT ![p] = @ - 1]
  /\ IF windows[p] > 1 THEN UNCHANGED pc
     ELSE Goes(p, IF pc[p] = "serving" THEN "leaving" ELSE "gone")
  /\ UNCHANGED <<lockVars, socket, requestVars, shown, gaveUp>>

Leave(p) ==
  /\ pc[p] \in {"bound", "serving"}
  /\ Goes(p, "leaving")
  /\ windows' = [windows EXCEPT ![p] = 0]
  /\ UNCHANGED <<lockVars, socket, requestVars, shown, gaveUp>>

\* drop: the paths are unlinked whatever they lead to by then, the lock last.
UnlinkSocket(p) ==
  /\ pc[p] = "leaving"
  /\ Goes(p, "unlinked")
  /\ socket' = Nobody
  /\ UNCHANGED <<lockVars, requestVars, windowVars>>

UnlinkLock(p) ==
  /\ pc[p] = "unlinked"
  /\ Goes(p, "forgotten")
  /\ lockFile' = 0
  /\ UNCHANGED <<files, opened, socket, requestVars, windowVars>>

Exit(p) ==
  /\ pc[p] = "forgotten"
  /\ Goes(p, "left")
  /\ UNCHANGED <<lockVars, socket, requestVars, windowVars>>

\* Killed at any point, its files left behind.
Killed(p) ==
  /\ pc[p] \notin {"start", "delivered"} \cup Over
  /\ Goes(p, IF pc[p] \in Leaving THEN "left" ELSE "gone")
  /\ windows' = [windows EXCEPT ![p] = 0]
  /\ UNCHANGED <<lockVars, socket, requestVars, shown, gaveUp>>

-----------------------------------------------------------------------------
Init ==
  /\ pc = [p \in Proc |-> "start"]
  /\ lockFile = 0 /\ files = 0 /\ opened = [p \in Proc |-> 0]
  /\ socket = Nobody
  /\ backlog = [p \in Proc |-> <<>>] /\ asked = [p \in Proc |-> Nobody]
  /\ hand = [p \in Proc |-> Nobody] /\ inbox = [p \in Proc |-> <<>>]
  /\ windows = [p \in Proc |-> 0] /\ shown = [p \in Proc |-> 0] /\ gaveUp = {}

Acquire(p) ==
  Open(p) \/ Lock(p) \/ Connect(p) \/ Unanswered(p) \/ Clear(p) \/ Bind(p) \/ Serve(p)
Answers(p) == Accept(p) \/ Post(p) \/ OpenWindow(p)
Drop(p)    == UnlinkSocket(p) \/ UnlinkLock(p) \/ Exit(p)
Ends(p)    == CloseWindow(p) \/ Leave(p) \/ Drop(p) \/ Killed(p)

\* Every launch has settled, and what stands may stand for good.
Settled ==
  /\ \A p \in Proc : pc[p] \in {"delivered"} \cup Over
  /\ UNCHANGED vars

Next == (\E p \in Proc : Acquire(p) \/ Answers(p) \/ Ends(p)) \/ Settled

Spec == Init /\ [][Next]_vars

\* A process that can take its next system call does; a wait is five seconds.
FairSpec ==
  /\ Spec
  /\ \A p \in Proc :
       /\ WF_vars(Acquire(p)) /\ WF_vars(Drop(p))
       /\ WF_vars(Accept(p)) /\ WF_vars(Post(p)) /\ WF_vars(OpenWindow(p))

-----------------------------------------------------------------------------
InstanceTypeOK ==
  /\ pc \in [Proc -> Holding \cup Over \cup {"start", "opened", "contends", "waits", "alone",
                                           "delivered"}]
  /\ lockFile \in 0 .. files /\ files \in Nat /\ opened \in [Proc -> 0 .. files]
  /\ socket \in Proc \cup {Nobody} /\ gaveUp \subseteq Proc

NoOneLeft == \A p \in Proc : pc[p] \notin Leaving \cup {"left"}

(***************************************************************************)
(* "Take the lock or you are not primary": while none has left by its own  *)
(* door there are never two, whatever the killed left behind (acquire).    *)
(***************************************************************************)
OnePrimary ==
  NoOneLeft => \A p, q \in Proc : pc[p] \in Holding /\ pc[q] \in Holding => p = q

(***************************************************************************)
(* And the socket's path leads to the primary that bound it, so a launch   *)
(* that finds the lock held finds the one who holds it (acquire).          *)
(***************************************************************************)
SocketIsThePrimarys ==
  NoOneLeft => \A p \in Proc : pc[p] \in {"bound", "serving"} => socket = p

(***************************************************************************)
(* Together: who finds the lock held finds, behind the socket, the one     *)
(* primary there is (acquire).                                             *)
(***************************************************************************)
PrimaryIsReached == OnePrimary /\ SocketIsThePrimarys

(***************************************************************************)
(* And who takes the lock becomes primary, turned away by no socket a      *)
(* killed process left behind (acquire).                                   *)
(***************************************************************************)
LockHolderServes ==
  [][NoOneLeft => \A p \in Proc : pc[p] \in Holding => pc'[p] # "alone"]_vars

(***************************************************************************)
(* "Any socket file at that path is a corpse": what a new primary unlinks  *)
(* is never the socket of one that listens (acquire).                      *)
(***************************************************************************)
OnlyCorpsesAreCleared ==
  [][\A p \in Proc : pc[p] = "locked" /\ pc'[p] = "cleared" => ~Reachable]_vars

(***************************************************************************)
(* A launch that did not tire of waiting opens one window: by the primary, *)
(* or by itself (send, read_request).                                      *)
(***************************************************************************)
OneWindowPerLaunch == \A p \in Proc \ gaveUp : shown[p] <= 1

(***************************************************************************)
(* With the types, what holds in every state whoever has left.             *)
(***************************************************************************)
LaunchesSound == InstanceTypeOK /\ OneWindowPerLaunch

(***************************************************************************)
(* A request taken by a primary that stays is shown, however many came     *)
(* with it (serve, user_event).                                            *)
(***************************************************************************)
TakenIsShown ==
  \A p, q \in Proc :
    pc[p] = "delivered" /\ asked[p] = q ~> shown[p] > 0 \/ pc[q] # "serving"

(***************************************************************************)
(* "Never fails the process": every launch comes to a window, its own or   *)
(* the primary's word for one, unless it ends (acquire).                   *)
(***************************************************************************)
EveryLaunchDecides ==
  \A p \in Proc : pc[p] = "start" ~> pc[p] \in {"delivered"} \cup Over \/ windows[p] > 0

\* Together: a launch comes to a window, and a word given for one is kept while
\* the one that gave it serves.
LaunchesSettle == TakenIsShown /\ EveryLaunchDecides
=============================================================================
