---------------------------- MODULE ProgramProofs ----------------------------
(***************************************************************************)
(* What the program keeps with the other processes of its user: the single *)
(* instance, and the configuration they share.                             *)
(*                                                                         *)
(* While no primary has left by its own door - each is killed, or stays -  *)
(* one file is the lock for good, and the one who holds it is the one      *)
(* primary: for any number of launches, killed at any point.               *)
(***************************************************************************)
EXTENDS Instance, Settings, SequenceTheorems, TLAPS

States == Holding \cup Over \cup {"start", "opened", "contends", "waits", "alone", "delivered"}

\* Everyone who got as far as opening the lock opened the same one.
OneLock == \A p \in Proc : pc[p] # "start" => lockFile # 0 /\ opened[p] = lockFile

\* From the moment it is cleared the path is the holder's.
PathIsTheHolders == \A p \in Proc : pc[p] = "cleared" => socket = Nobody

OneHolder == \A p, q \in Proc : pc[p] \in Holding /\ pc[q] \in Holding => p = q
PathLeadsHome == \A p \in Proc : pc[p] \in {"bound", "serving"} => socket = p

Sound ==
  /\ pc \in [Proc -> States]
  /\ lockFile \in Nat /\ files \in Nat /\ opened \in [Proc -> Nat]
  /\ OneLock /\ NoOneLeft /\ PathIsTheHolders
  /\ OneHolder /\ PathLeadsHome

\* Once one has left nothing more is said but what the steps are.
IInv == pc \in [Proc -> States] /\ (NoOneLeft => Sound)

LEMMA InitSound == Init => Sound
BY InstanceAssumption
   DEF Init, Sound, States, Over, Leaving, OneLock, NoOneLeft, PathIsTheHolders, OneHolder,
       PathLeadsHome, Holding

\* A step of one process that moves neither files nor socket keeps the
\* invariant if it ends in a state that holds no lock, or holds it already.
LEMMA QuietStep ==
  ASSUME Sound, NEW p \in Proc, NEW to \in States,
         pc' = [pc EXCEPT ![p] = to], pc[p] # "start",
         UNCHANGED <<lockVars, socket>>,
         to \notin {"leaving", "unlinked", "forgotten", "left", "cleared", "start"},
         to \in Holding => pc[p] \in Holding,
         to \in {"bound", "serving"} => socket = p
  PROVE  Sound'
<1>1. \A q \in Proc : q # p => pc'[q] = pc[q]
  BY DEF Sound
<1>2. pc'[p] = to
  BY DEF Sound
<1>3. pc' \in [Proc -> States]
  BY DEF Sound
<1>4. OneHolder'
  BY <1>1, <1>2 DEF Sound, OneHolder
<1> QED
  BY <1>1, <1>2, <1>3, <1>4
     DEF Sound, lockVars, OneLock, NoOneLeft, Leaving, PathIsTheHolders, PathLeadsHome

\* A lock that is free is held by no one at all: there is only the one file.
LEMMA FreeLock ==
  ASSUME Sound, NEW p \in Proc, pc[p] = "opened", ~Locked(opened[p])
  PROVE  \A q \in Proc : pc[q] \notin Holding
BY DEF Sound, OneLock, Locked, Holding

LEMMA OpenKeeps == ASSUME Sound, NEW p \in Proc, Open(p) PROVE Sound'
<1>1. \A q \in Proc : q # p => pc'[q] = pc[q] /\ opened'[q] = opened[q]
  BY DEF Sound, Open, Goes
<1>2. pc[p] = "start" /\ pc'[p] = "opened" /\ opened'[p] = lockFile' /\ socket' = socket
  BY DEF Sound, Open, Goes
<1>3. /\ lockFile' \in Nat /\ lockFile' # 0 /\ files' \in Nat
      /\ lockFile # 0 => lockFile' = lockFile
  BY DEF Sound, Open
<1>4. pc' \in [Proc -> States] /\ opened' \in [Proc -> Nat]
  BY <1>3 DEF Sound, Open, Goes, States
<1>5. OneLock'
  BY <1>1, <1>2, <1>3 DEF Sound, OneLock
<1>6. NoOneLeft' /\ PathIsTheHolders' /\ PathLeadsHome' /\ OneHolder'
  BY <1>1, <1>2 DEF Sound, NoOneLeft, Leaving, PathIsTheHolders, PathLeadsHome, OneHolder, Holding
<1> QED BY <1>3, <1>4, <1>5, <1>6 DEF Sound

LEMMA LockKeeps == ASSUME Sound, NEW p \in Proc, Lock(p) PROVE Sound'
<1>1. CASE Locked(opened[p])
  BY <1>1, QuietStep DEF Lock, Goes, States, Holding
<1>2. CASE ~Locked(opened[p])
  <2>1. \A q \in Proc : pc[q] \notin Holding
    BY <1>2, FreeLock DEF Lock
  <2>2. \A q \in Proc : q # p => pc'[q] = pc[q]
    BY DEF Sound, Lock, Goes
  <2>3. pc'[p] = "locked" /\ pc[p] = "opened" /\ pc' \in [Proc -> States]
    BY <1>2 DEF Sound, Lock, Goes, States, Holding
  <2>4. OneHolder' /\ PathLeadsHome'
    BY <2>1, <2>2, <2>3 DEF OneHolder, PathLeadsHome, Holding
  <2> QED
    BY <2>2, <2>3, <2>4 DEF Sound, Lock, lockVars, OneLock, NoOneLeft, Leaving, PathIsTheHolders
<1> QED BY <1>1, <1>2

\* The one holder clears the path, so no one served from it.
LEMMA ClearKeeps == ASSUME Sound, NEW p \in Proc, Clear(p) PROVE Sound'
<1>1. \A q \in Proc : q # p => pc'[q] = pc[q] /\ pc[q] \notin Holding
  BY DEF Sound, Clear, Goes, OneHolder, Holding
<1>2. pc'[p] = "cleared" /\ pc[p] = "locked" /\ pc' \in [Proc -> States]
  BY DEF Sound, Clear, Goes, States, Holding
<1>3. OneHolder' /\ PathLeadsHome'
  BY <1>1, <1>2 DEF OneHolder, PathLeadsHome, Holding
<1> QED
  BY <1>1, <1>2, <1>3 DEF Sound, Clear, lockVars, OneLock, NoOneLeft, Leaving, PathIsTheHolders

\* The path a holder cleared is still clear when it binds.
LEMMA BindKeeps == ASSUME Sound, NEW p \in Proc, Bind(p) PROVE Sound' /\ pc'[p] = "bound"
<1>1. socket = Nobody
  BY DEF Sound, Bind, PathIsTheHolders
<1>2. \A q \in Proc : q # p => pc'[q] = pc[q] /\ pc[q] \notin Holding
  BY <1>1 DEF Sound, Bind, Goes, OneHolder, Holding
<1>3. pc'[p] = "bound" /\ pc[p] = "cleared" /\ socket' = p /\ pc' \in [Proc -> States]
  BY <1>1 DEF Sound, Bind, Goes, States, Holding
<1>4. OneHolder' /\ PathLeadsHome' /\ PathIsTheHolders'
  BY <1>2, <1>3 DEF OneHolder, PathLeadsHome, PathIsTheHolders, Holding
<1> QED
  BY <1>2, <1>3, <1>4 DEF Sound, Bind, lockVars, OneLock, NoOneLeft, Leaving

LEMMA ConnectKeeps == ASSUME Sound, NEW p \in Proc, Connect(p) PROVE Sound'
<1>1. CASE Reachable
  BY <1>1, QuietStep DEF Connect, Goes, States, Holding
<1>2. CASE ~Reachable
  BY <1>2, QuietStep DEF Connect, AloneAtOnce, Alone, Goes, States, Holding
<1> QED BY <1>1, <1>2

LEMMA UnansweredKeeps == ASSUME Sound, NEW p \in Proc, Unanswered(p) PROVE Sound'
BY QuietStep DEF Unanswered, Alone, Goes, States, Holding

LEMMA ServeKeeps == ASSUME Sound, NEW p \in Proc, Serve(p) PROVE Sound'
<1>1. pc[p] = "bound" /\ socket = p
  BY DEF Sound, Serve, PathLeadsHome
<1> QED
  BY <1>1, QuietStep DEF Serve, Goes, States, Holding

LEMMA KilledKeeps == ASSUME Sound, NEW p \in Proc, Killed(p) PROVE Sound'
BY QuietStep DEF Killed, Goes, Sound, NoOneLeft, Leaving, States, Over, Holding

\* What moves no process, no file and no path.
LEMMA StillKeeps == ASSUME Sound, UNCHANGED <<pc, lockVars, socket>> PROVE Sound'
BY DEF Sound, lockVars, OneLock, NoOneLeft, Leaving, PathIsTheHolders, OneHolder, PathLeadsHome

LEMMA AcceptKeeps == ASSUME Sound, NEW p \in Proc, Accept(p) PROVE Sound'
<1> DEFINE q == Head(backlog[p])
<1>1. CASE pc[q] = "waits"
  <2>1. pc' = [pc EXCEPT ![q] = "delivered"] /\ UNCHANGED <<lockVars, socket>>
    BY <1>1 DEF Accept, Goes
  <2> HIDE DEF q
  <2>2. CASE q \in Proc
    BY <1>1, <2>1, <2>2, QuietStep DEF States, Holding
  <2>3. CASE q \notin Proc
    <3>1. pc' = pc
      BY <2>1, <2>3 DEF Sound
    <3> QED BY <2>1, <3>1, StillKeeps
  <2> QED BY <2>2, <2>3
<1>2. CASE pc[q] # "waits"
  BY <1>2, StillKeeps DEF Accept
<1> QED BY <1>1, <1>2

\* A step after which no one has left is one before which no one had.
LEMMA StepKeeps ==
  ASSUME Sound, [Next]_vars, NoOneLeft'
  PROVE  Sound'
<1>1. CASE UNCHANGED vars
  BY <1>1, StillKeeps DEF vars, lockVars
<1>2. ASSUME NEW p \in Proc, Acquire(p) PROVE Sound'
  BY <1>2, OpenKeeps, LockKeeps, ConnectKeeps, UnansweredKeeps, ClearKeeps, BindKeeps,
     ServeKeeps DEF Acquire
<1>3. ASSUME NEW p \in Proc, Answers(p) PROVE Sound'
  <2>1. CASE Accept(p)
    BY <2>1, AcceptKeeps
  <2>2. CASE Post(p) \/ OpenWindow(p)
    BY <2>2, StillKeeps DEF Post, OpenWindow
  <2> QED BY <1>3, <2>1, <2>2 DEF Answers
<1>4. ASSUME NEW p \in Proc, Ends(p) PROVE Sound'
  <2>1. ~Drop(p)
    BY DEF Sound, NoOneLeft, Leaving, Drop, UnlinkSocket, UnlinkLock, Exit
  <2>2. ~Leave(p)
    BY DEF Sound, NoOneLeft, Leaving, Leave, Goes
  <2>3. CASE CloseWindow(p)
    <3>1. CASE windows[p] > 1
      BY <2>3, <3>1, StillKeeps DEF CloseWindow
    <3>2. CASE ~(windows[p] > 1)
      <4>1. pc[p] # "serving"
        BY <2>3, <3>2 DEF CloseWindow, Goes, Sound, NoOneLeft, Leaving
      <4> QED BY <2>3, <3>2, <4>1, QuietStep DEF CloseWindow, Goes, States, Over, Holding
    <3> QED BY <3>1, <3>2
  <2> QED BY <1>4, <2>1, <2>2, <2>3, KilledKeeps DEF Ends
<1> QED BY <1>1, <1>2, <1>3, <1>4 DEF Next, Settled

\* Who has left has left for good.
LEMMA LeftForGood ==
  ASSUME pc \in [Proc -> States], [Next]_vars
  PROVE  pc' \in [Proc -> States] /\ (NoOneLeft' => NoOneLeft)
<1> DEFINE Past(p) == pc[p] \in Leaving \cup {"left"} => pc'[p] \in Leaving \cup {"left"}
<1> SUFFICES pc' \in [Proc -> States] /\ \A p \in Proc : Past(p)
  BY DEF NoOneLeft
<1>1. CASE pc' = pc
  BY <1>1
<1>2. ASSUME NEW p, NEW to \in States, Goes(p, to),
             p \in Proc /\ pc[p] \in Leaving \cup {"left"} => to \in Leaving \cup {"left"}
      PROVE  pc' \in [Proc -> States] /\ \A q \in Proc : Past(q)
  BY <1>2 DEF Goes
<1>3. ASSUME NEW p \in Proc, Acquire(p) PROVE pc' \in [Proc -> States] /\ \A q \in Proc : Past(q)
  BY <1>2, <1>3 DEF Acquire, Open, Lock, Connect, Unanswered, AloneAtOnce, Alone, Clear, Bind, Serve,
                    States, Holding, Over, Leaving
<1>4. ASSUME NEW p \in Proc, Answers(p) PROVE pc' \in [Proc -> States] /\ \A q \in Proc : Past(q)
  <2>1. CASE Accept(p)
    BY <1>1, <1>2, <2>1 DEF Accept, States, Holding, Over, Leaving
  <2> QED BY <1>1, <1>4, <2>1 DEF Answers, Post, OpenWindow
<1>5. ASSUME NEW p \in Proc, Ends(p) PROVE pc' \in [Proc -> States] /\ \A q \in Proc : Past(q)
  <2>1. CASE CloseWindow(p) \/ Leave(p)
    BY <1>1, <1>2, <2>1 DEF CloseWindow, Leave, States, Holding, Over, Leaving
  <2>2. CASE Drop(p) \/ Killed(p)
    BY <1>2, <2>2 DEF Drop, UnlinkSocket, UnlinkLock, Exit, Killed, States, Holding, Over, Leaving
  <2> QED BY <1>5, <2>1, <2>2 DEF Ends
<1> QED BY <1>1, <1>3, <1>4, <1>5 DEF Next, Settled, vars

THEOREM Invariance == Spec => []IInv
<1>1. Init => IInv
  BY InitSound DEF IInv, Sound
<1>2. IInv /\ [Next]_vars => IInv'
  BY LeftForGood, StepKeeps DEF IInv
<1> QED BY <1>1, <1>2, PTL DEF Spec

(***************************************************************************)
(* Killed as they may be, launches give no two primaries until one leaves  *)
(* by the event loop's door: the lock decides, and nothing a dead process  *)
(* left behind (acquire).                                                  *)
(***************************************************************************)
THEOREM OnePrimaryAtATime == Spec => []OnePrimary
<1>1. IInv => OnePrimary
  BY DEF IInv, Sound, OneHolder, OnePrimary
<1> QED BY Invariance, <1>1, PTL

(***************************************************************************)
(* Nor does the socket's path lead away from a primary that has bound it:  *)
(* a launch that finds the lock held and the path bound finds the holder   *)
(* (acquire).                                                              *)
(***************************************************************************)
THEOREM TheSocketIsThePrimarys == Spec => []SocketIsThePrimarys
<1>1. IInv => SocketIsThePrimarys
  BY DEF IInv, Sound, PathLeadsHome, SocketIsThePrimarys
<1> QED BY Invariance, <1>1, PTL

(***************************************************************************)
(* So a launch that finds the lock held finds the one primary there is     *)
(* (acquire).                                                              *)
(***************************************************************************)
THEOREM ThePrimaryIsReached == Spec => []PrimaryIsReached
BY OnePrimaryAtATime, TheSocketIsThePrimarys, PTL DEF PrimaryIsReached

(***************************************************************************)
(* And who takes the lock becomes primary: a socket left by a killed       *)
(* process turns no holder away (acquire).                                 *)
(***************************************************************************)
THEOREM LockHoldersServe == Spec => LockHolderServes
<1>1. ASSUME IInv, [Next]_vars, NoOneLeft, NEW p \in Proc, pc[p] \in Holding, pc'[p] = "alone"
      PROVE  FALSE
  <2>1. Sound
    BY <1>1 DEF IInv
  <2>2. ASSUME NEW q \in Proc, Acquire(q) PROVE FALSE
    <3>1. CASE Bind(q)
      <4>1. pc[q] = "cleared" /\ pc'[q] = "bound"
        BY <2>1, <3>1, BindKeeps DEF Bind
      <4>2. q = p
        BY <1>1, <2>1, <4>1 DEF Sound, OneHolder, Holding
      <4> QED BY <1>1, <4>1, <4>2
    <3>2. CASE Open(q) \/ Lock(q) \/ Clear(q) \/ Serve(q)
      BY <1>1, <2>1, <3>2 DEF Sound, Open, Lock, Clear, Serve, Goes, Holding
    <3>3. CASE Connect(q) \/ Unanswered(q)
      BY <1>1, <2>1, <3>3 DEF Sound, Connect, Unanswered, AloneAtOnce, Alone, Goes, Holding
    <3> QED BY <2>2, <3>1, <3>2, <3>3 DEF Acquire
  <2>3. ASSUME NEW q \in Proc, Answers(q) PROVE FALSE
    <3>1. CASE Accept(q)
      BY <1>1, <2>1, <3>1 DEF Sound, Accept, Goes, Holding
    <3>2. CASE Post(q) \/ OpenWindow(q)
      BY <1>1, <3>2 DEF Post, OpenWindow, Holding
    <3> QED BY <2>3, <3>1, <3>2 DEF Answers
  <2>4. ASSUME NEW q \in Proc, Ends(q) PROVE FALSE
    BY <1>1, <2>1, <2>4 DEF Sound, Ends, CloseWindow, Leave, Drop, UnlinkSocket, UnlinkLock,
                            Exit, Killed, Goes, Holding
  <2>5. pc' # pc
    BY <1>1 DEF Holding
  <2> QED BY <1>1, <2>2, <2>3, <2>4, <2>5 DEF Next, Settled, vars
<1>2. IInv /\ [Next]_vars
        => [NoOneLeft => \A p \in Proc : pc[p] \in Holding => pc'[p] # "alone"]_vars
  BY <1>1
<1> QED BY Invariance, <1>2, PTL DEF Spec, LockHolderServes

-----------------------------------------------------------------------------
(***************************************************************************)
(* One window for a launch, whoever has left. A request is in one place of *)
(* the process it was sent to, and there once; a window opened for it is   *)
(* opened when it leaves the last of them.                                 *)
(***************************************************************************)
Early == {"start", "opened", "contends", "locked", "cleared", "bound"}

\* No one stands in s twice.
Once(s) == \A i, j \in 1 .. Len(s) : s[i] = s[j] => i = j

\* p has q's request: waiting, acknowledged, or posted.
With(p, q) == Contains(backlog[p], q) \/ hand[p] = q \/ Contains(inbox[p], q)

\* Every request is with the one it was sent to, in one place and there once,
\* and no one waits for the word on a request that was read.
Kept(p) ==
  /\ Once(backlog[p]) /\ Once(inbox[p])
  /\ \A q \in Proc : With(p, q) => asked[q] = p
  /\ \A q \in Proc : /\ Contains(backlog[p], q) => hand[p] # q /\ ~Contains(inbox[p], q)
                     /\ hand[p] = q => ~Contains(inbox[p], q)
  /\ \A q \in Proc : hand[p] = q \/ Contains(inbox[p], q) => pc[q] # "waits"

\* A launch that has its window has no request with anyone who could open another.
OneWindow(q) ==
  /\ pc[q] \in Early => shown[q] = 0 /\ asked[q] = Nobody
  /\ pc[q] = "waits" => shown[q] = 0 /\ asked[q] \in Proc
  /\ q \notin gaveUp =>
       /\ shown[q] <= 1
       /\ shown[q] = 1 /\ asked[q] \in Proc /\ pc[asked[q]] \notin Over => ~With(asked[q], q)

LaunchTypes ==
  /\ InstanceTypeOK
  /\ backlog \in [Proc -> Seq(Proc)] /\ inbox \in [Proc -> Seq(Proc)]
  /\ hand \in [Proc -> Proc \cup {Nobody}] /\ asked \in [Proc -> Proc \cup {Nobody}]
  /\ shown \in [Proc -> Nat]

LaunchInv == LaunchTypes /\ \A p \in Proc : Kept(p) /\ OneWindow(p)

-----------------------------------------------------------------------------
\* What joins a queue, and what leaves it.
LEMMA Joins ==
  ASSUME NEW s \in Seq(Proc), NEW e \in Proc, Once(s), ~Contains(s, e)
  PROVE  /\ Append(s, e) \in Seq(Proc) /\ Once(Append(s, e))
         /\ \A x : Contains(Append(s, e), x) <=> Contains(s, x) \/ x = e
<1> DEFINE t == Append(s, e)
<1>1. t \in Seq(Proc) /\ Len(t) = Len(s) + 1 /\ Len(s) \in Nat
  OBVIOUS
<1>2. (\A i \in 1 .. Len(s) : t[i] = s[i]) /\ t[Len(s) + 1] = e
  OBVIOUS
<1> HIDE DEF t
<1>3. Once(t)
  BY <1>1, <1>2 DEF Once, Contains
<1>4. ASSUME NEW x PROVE Contains(t, x) <=> Contains(s, x) \/ x = e
  BY <1>1, <1>2 DEF Contains
<1> QED BY <1>1, <1>3, <1>4 DEF t

LEMMA Leaves ==
  ASSUME NEW s \in Seq(Proc), Once(s), s # <<>>
  PROVE  /\ Head(s) \in Proc /\ Contains(s, Head(s))
         /\ Tail(s) \in Seq(Proc) /\ Once(Tail(s))
         /\ \A x : Contains(Tail(s), x) <=> Contains(s, x) /\ x # Head(s)
<1> DEFINE t == Tail(s)
<1>1. t \in Seq(Proc) /\ Len(t) = Len(s) - 1 /\ Len(s) \in Nat \ {0}
  OBVIOUS
<1>2. \A i \in 1 .. Len(t) : t[i] = s[i + 1]
  OBVIOUS
<1>3. Head(s) = s[1] /\ Head(s) \in Proc
  OBVIOUS
<1> HIDE DEF t
<1>4. Once(t)
  BY <1>1, <1>2 DEF Once
<1>5. ASSUME NEW x PROVE Contains(t, x) <=> Contains(s, x) /\ x # s[1]
  <2>1. ASSUME Contains(t, x) PROVE Contains(s, x) /\ x # s[1]
    BY <1>1, <1>2, <2>1 DEF Contains, Once
  <2>2. ASSUME Contains(s, x), x # s[1] PROVE Contains(t, x)
    <3>1. PICK i \in 1 .. Len(s) : s[i] = x
      BY <2>2 DEF Contains
    <3>2. i - 1 \in 1 .. Len(t) /\ t[i - 1] = x
      BY <1>1, <1>2, <2>2, <3>1
    <3> QED BY <3>2 DEF Contains
  <2> QED BY <2>1, <2>2
<1>6. Contains(s, Head(s))
  BY <1>1, <1>3 DEF Contains
<1> QED BY <1>1, <1>3, <1>4, <1>5, <1>6 DEF t

\* The types, whatever the step.
LEMMA InstanceTypesKept ==
  ASSUME LaunchTypes, [Next]_vars
  PROVE  InstanceTypeOK'
<1>1. pc \in [Proc -> States]
  BY DEF LaunchTypes, InstanceTypeOK, States
<1>2. pc' \in [Proc -> States]
  BY <1>1, LeftForGood
<1> DEFINE Rest == /\ lockFile \in 0 .. files /\ files \in Nat /\ opened \in [Proc -> 0 .. files]
                   /\ socket \in Proc \cup {Nobody} /\ gaveUp \subseteq Proc
<1>3. Rest
  BY DEF LaunchTypes, InstanceTypeOK
<1>4. ASSUME NEW p \in Proc, Acquire(p) PROVE Rest'
  <2>1. CASE Open(p)
    <3>1. files' \in Nat /\ files <= files' /\ lockFile' \in 0 .. files'
      BY <1>3, <2>1 DEF Open
    <3>2. opened' \in [Proc -> 0 .. files']
      BY <1>3, <2>1, <3>1 DEF Open
    <3> QED BY <1>3, <2>1, <3>1, <3>2 DEF Open, windowVars
  <2>2. CASE Lock(p) \/ Clear(p) \/ Bind(p) \/ Serve(p)
    BY <1>3, <2>2 DEF Lock, Clear, Bind, Serve, AloneAtOnce, lockVars, windowVars
  <2>3. CASE Connect(p) \/ Unanswered(p)
    BY <1>3, <2>3 DEF Connect, Unanswered, AloneAtOnce, lockVars, windowVars
  <2> QED BY <1>4, <2>1, <2>2, <2>3 DEF Acquire
<1>5. ASSUME NEW p \in Proc, Answers(p) PROVE Rest'
  BY <1>3, <1>5 DEF Answers, Accept, Post, OpenWindow, lockVars, windowVars
<1>6. ASSUME NEW p \in Proc, Ends(p) PROVE Rest'
  BY <1>3, <1>6 DEF Ends, CloseWindow, Leave, Drop, UnlinkSocket, UnlinkLock, Exit, Killed, lockVars, windowVars
<1>7. ASSUME UNCHANGED vars PROVE Rest'
  BY <1>3, <1>7 DEF vars
<1>8. Rest'
  BY <1>4, <1>5, <1>6, <1>7 DEF Next, Settled
<1> QED BY <1>2, <1>8 DEF InstanceTypeOK, States

\* A step of one process that touches no request and shows no window.
LEMMA SilentStep ==
  ASSUME LaunchInv, InstanceTypeOK', NEW p \in Proc, NEW to \in States,
         pc' = [pc EXCEPT ![p] = to], to # "waits",
         to \in Early => pc[p] \in Early, pc[p] \in Over => to \in Over,
         UNCHANGED <<backlog, asked, hand, inbox, shown, gaveUp>>
  PROVE  LaunchInv'
<1>1. pc'[p] = to /\ \A q \in Proc : q # p => pc'[q] = pc[q]
  BY DEF LaunchInv, LaunchTypes, InstanceTypeOK
<1>2. LaunchTypes'
  BY DEF LaunchInv, LaunchTypes
<1>3. ASSUME NEW q \in Proc PROVE Kept(q)'
  BY <1>1 DEF LaunchInv, Kept, With
<1>4. ASSUME NEW q \in Proc PROVE OneWindow(q)'
  <2>1. OneWindow(q)
    BY DEF LaunchInv
  <2>2. (pc'[q] \in Early => pc[q] \in Early) /\ (pc'[q] = "waits" => pc[q] = "waits")
    BY <1>1
  <2>3. asked[q] \in Proc /\ pc'[asked[q]] \notin Over => pc[asked[q]] \notin Over
    BY <1>1
  <2> QED BY <2>1, <2>2, <2>3 DEF OneWindow, With
<1> QED BY <1>2, <1>3, <1>4 DEF LaunchInv

\* A launch that has no window opens its own: it never asked, or whom it
\* asked is no more, or it waited and tired of it.
LEMMA OwnWindow ==
  ASSUME LaunchInv, InstanceTypeOK', NEW p \in Proc, NEW to \in States,
         pc' = [pc EXCEPT ![p] = to], to # "waits", to \notin Early, pc[p] \notin Over,
         shown[p] = 0, shown' = [shown EXCEPT ![p] = @ + 1],
         gaveUp' = gaveUp \/ gaveUp' = gaveUp \cup {p},
         asked[p] \in Proc /\ pc[asked[p]] \notin Over => p \in gaveUp',
         UNCHANGED <<backlog, asked, hand, inbox>>
  PROVE  LaunchInv'
<1>1. pc'[p] = to /\ \A q \in Proc : q # p => pc'[q] = pc[q]
  BY DEF LaunchInv, LaunchTypes, InstanceTypeOK
<1>2. shown' \in [Proc -> Nat] /\ shown'[p] = 1 /\ \A q \in Proc : q # p => shown'[q] = shown[q]
  BY DEF LaunchInv, LaunchTypes
<1>3. LaunchTypes'
  BY <1>2 DEF LaunchInv, LaunchTypes
<1>4. ASSUME NEW q \in Proc PROVE Kept(q)'
  BY <1>1 DEF LaunchInv, Kept, With
<1>5. ASSUME NEW q \in Proc PROVE OneWindow(q)'
  <2>1. OneWindow(q)
    BY DEF LaunchInv
  <2>2. asked[q] \in Proc /\ pc'[asked[q]] \notin Over => pc[asked[q]] \notin Over
    BY <1>1
  <2>3. CASE q = p
    <3>1. pc'[q] \notin Early /\ pc'[q] # "waits" /\ shown'[q] = 1
      BY <1>1, <1>2, <2>3
    <3>2. q \notin gaveUp' => ~(asked[q] \in Proc /\ pc'[asked[q]] \notin Over)
      BY <2>2, <2>3
    <3> QED BY <3>1, <3>2 DEF OneWindow
  <2>4. CASE q # p
    <3>1. pc'[q] = pc[q] /\ shown'[q] = shown[q] /\ (q \in gaveUp' <=> q \in gaveUp)
      BY <1>1, <1>2, <2>4
    <3> QED BY <2>1, <2>2, <3>1 DEF OneWindow, With
  <2> QED BY <2>3, <2>4
<1> QED BY <1>3, <1>4, <1>5 DEF LaunchInv

LEMMA ConnectKeepsLaunches ==
  ASSUME LaunchInv, InstanceTypeOK', NEW p \in Proc, Connect(p) PROVE LaunchInv'
<1>1. pc[p] = "contends" /\ shown[p] = 0 /\ asked[p] = Nobody
  BY DEF Connect, LaunchInv, OneWindow, Early
<1>2. CASE ~Reachable
  <2>1. /\ pc' = [pc EXCEPT ![p] = "alone"] /\ shown' = [shown EXCEPT ![p] = @ + 1]
        /\ UNCHANGED <<backlog, asked, hand, inbox, gaveUp>>
    BY <1>2 DEF Connect, AloneAtOnce, Alone, Goes, Shows
  <2> QED BY <1>1, <2>1, OwnWindow, InstanceAssumption DEF States, Early, Over
<1>3. CASE Reachable
  <2>1. PICK d \in Proc : d = socket
    BY <1>3 DEF Reachable, LaunchInv, LaunchTypes, InstanceTypeOK
  <2>2. /\ pc' = [pc EXCEPT ![p] = "waits"] /\ asked' = [asked EXCEPT ![p] = d]
        /\ backlog' = [backlog EXCEPT ![d] = Append(backlog[d], p)]
        /\ UNCHANGED <<hand, inbox, shown, gaveUp>>
    BY <1>3, <2>1 DEF Connect, Goes, windowVars
  <2>3. LaunchTypes
    BY DEF LaunchInv
  <2>4. \A q \in Proc : ~With(q, p)
    BY <1>1, InstanceAssumption DEF LaunchInv, Kept
  <2>5. /\ Append(backlog[d], p) \in Seq(Proc) /\ Once(Append(backlog[d], p))
        /\ \A x : Contains(Append(backlog[d], p), x) <=> Contains(backlog[d], x) \/ x = p
    BY <2>3, <2>4, Joins DEF LaunchTypes, LaunchInv, Kept, With
  <2>6. /\ pc'[p] = "waits" /\ asked'[p] = d
        /\ \A q \in Proc : q # p => pc'[q] = pc[q] /\ asked'[q] = asked[q]
    BY <2>2, <2>3 DEF LaunchTypes, InstanceTypeOK
  <2>7. backlog'[d] = Append(backlog[d], p) /\ \A q \in Proc : q # d => backlog'[q] = backlog[q]
    BY <2>2, <2>3 DEF LaunchTypes
  <2>8. \A a, q \in Proc : q # p => (With(a, q)' <=> With(a, q))
    BY <2>2, <2>5, <2>7 DEF With
  <2>9. LaunchTypes'
    BY <2>2, <2>3, <2>5 DEF LaunchTypes
  <2>10. ASSUME NEW a \in Proc PROVE Kept(a)'
    <3>1. Kept(a)
      BY DEF LaunchInv
    <3>2. Once(backlog'[a]) /\ Once(inbox'[a])
      BY <2>2, <2>5, <2>7, <3>1 DEF Kept
    <3>3. ASSUME NEW q \in Proc
          PROVE  /\ With(a, q)' => asked'[q] = a
                 /\ Contains(backlog'[a], q) => hand'[a] # q /\ ~Contains(inbox'[a], q)
                 /\ hand'[a] = q => ~Contains(inbox'[a], q)
                 /\ hand'[a] = q \/ Contains(inbox'[a], q) => pc'[q] # "waits"
      <4>1. CASE q = p
        <5>1. hand[a] # p /\ ~Contains(inbox[a], p) /\ ~Contains(backlog[a], p)
          BY <2>4 DEF With
        <5>2. Contains(backlog'[a], p) => a = d
          BY <2>7, <5>1
        <5> QED BY <2>2, <2>6, <4>1, <5>1, <5>2 DEF With
      <4>2. CASE q # p
        <5>1. With(a, q)' <=> With(a, q)
          BY <2>8, <4>2
        <5>2. Contains(backlog'[a], q) <=> Contains(backlog[a], q)
          BY <2>5, <2>7, <4>2
        <5> QED BY <2>2, <2>6, <3>1, <4>2, <5>1, <5>2 DEF Kept
      <4> QED BY <4>1, <4>2
    <3> QED BY <3>2, <3>3 DEF Kept
  <2>11. ASSUME NEW q \in Proc PROVE OneWindow(q)'
    <3>1. OneWindow(q)
      BY DEF LaunchInv
    <3>2. CASE q = p
      <4>1. pc'[q] = "waits" /\ shown'[q] = 0 /\ asked'[q] \in Proc
        BY <1>1, <2>2, <2>6, <3>2
      <4> QED BY <4>1 DEF OneWindow, Early
    <3>3. CASE q # p
      <4>1. asked[q] \in Proc =>
              (Contains(backlog'[asked[q]], q) \/ hand'[asked[q]] = q \/ Contains(inbox'[asked[q]], q)
                  <=> With(asked[q], q))
        BY <2>8, <3>3 DEF With
      <4>2. pc'[q] = pc[q] /\ asked'[q] = asked[q]
        BY <2>6, <3>3
      <4>3. asked[q] \in Proc /\ pc'[asked[q]] \notin Over => pc[asked[q]] \notin Over
        BY <1>1, <2>6 DEF Over
      <4> QED BY <2>2, <3>1, <4>1, <4>2, <4>3 DEF OneWindow, With
    <3> QED BY <3>2, <3>3
  <2> QED BY <2>9, <2>10, <2>11 DEF LaunchInv
<1> QED BY <1>2, <1>3

LEMMA UnansweredKeepsLaunches ==
  ASSUME LaunchInv, InstanceTypeOK', NEW p \in Proc, Unanswered(p) PROVE LaunchInv'
<1>1. pc[p] = "waits" /\ shown[p] = 0
  BY DEF Unanswered, LaunchInv, OneWindow
<1>2. /\ pc' = [pc EXCEPT ![p] = "alone"] /\ shown' = [shown EXCEPT ![p] = @ + 1]
      /\ UNCHANGED <<backlog, asked, hand, inbox>>
      /\ gaveUp' = IF pc[asked[p]] \in Over THEN gaveUp ELSE gaveUp \cup {p}
  BY DEF Unanswered, Alone, Goes, Shows, requestVars
<1> QED BY <1>1, <1>2, OwnWindow DEF States, Early, Over

LEMMA BindKeepsLaunches ==
  ASSUME LaunchInv, InstanceTypeOK', NEW p \in Proc, Bind(p) PROVE LaunchInv'
<1>1. pc[p] = "cleared" /\ UNCHANGED <<backlog, asked, hand, inbox>>
  BY DEF Bind, requestVars
<1>2. CASE socket = Nobody
  <2>1. pc' = [pc EXCEPT ![p] = "bound"] /\ UNCHANGED <<shown, gaveUp>>
    BY <1>2 DEF Bind, Goes, windowVars
  <2> QED BY <1>1, <2>1, SilentStep DEF States, Holding, Early, Over
<1>3. CASE socket # Nobody
  <2>1. pc' = [pc EXCEPT ![p] = "alone"] /\ shown' = [shown EXCEPT ![p] = @ + 1] /\ gaveUp' = gaveUp
    BY <1>3 DEF Bind, AloneAtOnce, Alone, Goes, Shows
  <2>2. shown[p] = 0 /\ asked[p] = Nobody
    BY <1>1 DEF LaunchInv, OneWindow, Early
  <2> QED BY <1>1, <2>1, <2>2, OwnWindow, InstanceAssumption DEF States, Early, Over
<1> QED BY <1>2, <1>3

LEMMA ServeKeepsLaunches ==
  ASSUME LaunchInv, InstanceTypeOK', NEW p \in Proc, Serve(p) PROVE LaunchInv'
<1>1. pc[p] = "bound" /\ shown[p] = 0 /\ asked[p] = Nobody
  BY DEF Serve, LaunchInv, OneWindow, Early
<1>2. /\ pc' = [pc EXCEPT ![p] = "serving"] /\ shown' = [shown EXCEPT ![p] = @ + 1]
      /\ UNCHANGED <<backlog, asked, hand, inbox, gaveUp>>
  BY DEF Serve, Goes, Shows, requestVars
<1> QED BY <1>1, <1>2, OwnWindow, InstanceAssumption DEF States, Holding, Early, Over

\* The steps that only move a process.
LEMMA MovesKeepLaunches ==
  ASSUME LaunchInv, InstanceTypeOK', NEW p \in Proc,
         \/ Open(p) \/ Lock(p) \/ Clear(p) \/ CloseWindow(p) \/ Leave(p) \/ Drop(p) \/ Killed(p)
  PROVE  LaunchInv'
<1>1. UNCHANGED <<backlog, asked, hand, inbox, shown, gaveUp>>
  BY DEF Open, Lock, Clear, CloseWindow, Leave, Drop, UnlinkSocket, UnlinkLock, Exit, Killed,
         requestVars, windowVars
<1>2. pc \in [Proc -> States]
  BY DEF LaunchInv, LaunchTypes, InstanceTypeOK, States
<1>3. ASSUME NEW to \in States, Goes(p, to), to # "waits", to \in Early => pc[p] \in Early,
             pc[p] \in Over => to \in Over
      PROVE  LaunchInv'
  BY <1>1, <1>3, SilentStep DEF Goes
<1>4. CASE Open(p)
  BY <1>3, <1>4 DEF Open, States, Early, Over
<1>5. CASE Lock(p)
  BY <1>3, <1>5 DEF Lock, States, Holding, Early, Over
<1>6. CASE Clear(p)
  BY <1>3, <1>6 DEF Clear, States, Holding, Early, Over
<1>7. CASE CloseWindow(p)
  <2>1. CASE windows[p] > 1
    <3>1. Goes(p, pc[p]) /\ pc[p] \in {"serving", "alone"}
      BY <1>2, <1>7, <2>1 DEF CloseWindow, Goes
    <3> QED BY <1>2, <1>3, <3>1 DEF Early, Over
  <2>2. CASE ~(windows[p] > 1)
    BY <1>3, <1>7, <2>2 DEF CloseWindow, States, Holding, Over, Early
  <2> QED BY <2>1, <2>2
<1>8. CASE Leave(p)
  BY <1>3, <1>8 DEF Leave, States, Holding, Early, Over
<1>9. CASE Drop(p)
  BY <1>3, <1>9 DEF Drop, UnlinkSocket, UnlinkLock, Exit, States, Holding, Early, Over
<1>10. CASE Killed(p)
  <2>1. Goes(p, "left") \/ Goes(p, "gone")
    BY <1>10 DEF Killed
  <2> QED BY <1>3, <2>1 DEF States, Over, Early
<1> QED BY <1>4, <1>5, <1>6, <1>7, <1>8, <1>9, <1>10

\* A request taken from the queue is still with the primary, in hand.
LEMMA AcceptKeepsLaunches ==
  ASSUME LaunchInv, InstanceTypeOK', NEW p \in Proc, Accept(p) PROVE LaunchInv'
<1>1. LaunchTypes /\ Kept(p)
  BY DEF LaunchInv
<1>2. PICK r : r = Head(backlog[p])
  OBVIOUS
<1>3. PICK t : t = Tail(backlog[p])
  OBVIOUS
<1>4. /\ r \in Proc /\ Contains(backlog[p], r) /\ t \in Seq(Proc) /\ Once(t)
      /\ \A x : Contains(t, x) <=> Contains(backlog[p], x) /\ x # r
  BY <1>1, <1>2, <1>3, Leaves DEF Accept, LaunchTypes, Kept
<1>5. /\ hand[p] = Nobody /\ pc[p] \in Serving
      /\ hand' = [hand EXCEPT ![p] = r] /\ backlog' = [backlog EXCEPT ![p] = t]
      /\ pc' = IF pc[r] = "waits" THEN [pc EXCEPT ![r] = "delivered"] ELSE pc
      /\ UNCHANGED <<asked, inbox, shown, gaveUp>>
  BY <1>2, <1>3 DEF Accept, Goes, windowVars
<1>6. /\ hand'[p] = r /\ backlog'[p] = t
      /\ \A a \in Proc : a # p => hand'[a] = hand[a] /\ backlog'[a] = backlog[a]
  BY <1>1, <1>5 DEF LaunchTypes
<1>7. /\ pc'[r] # "waits"
      /\ \A a \in Proc : /\ pc'[a] = pc[a] \/ (pc[a] = "waits" /\ pc'[a] = "delivered")
  BY <1>1, <1>4, <1>5 DEF LaunchTypes, InstanceTypeOK
<1>8. \A a, q \in Proc : With(a, q)' <=> With(a, q)
  BY <1>4, <1>5, <1>6, InstanceAssumption DEF With
<1>9. LaunchTypes'
  BY <1>1, <1>4, <1>5 DEF LaunchTypes
<1>10. ASSUME NEW a \in Proc PROVE Kept(a)'
  <2>1. Kept(a)
    BY DEF LaunchInv
  <2>2. Once(backlog'[a]) /\ Once(inbox'[a])
    BY <1>4, <1>5, <1>6, <2>1 DEF Kept
  <2>3. ASSUME NEW q \in Proc
        PROVE  /\ With(a, q)' => asked'[q] = a
               /\ Contains(backlog'[a], q) => hand'[a] # q /\ ~Contains(inbox'[a], q)
               /\ hand'[a] = q => ~Contains(inbox'[a], q)
               /\ hand'[a] = q \/ Contains(inbox'[a], q) => pc'[q] # "waits"
    <3>1. With(a, q)' => asked'[q] = a
      BY <1>5, <1>8, <2>1 DEF Kept
    <3>2. pc'[q] = "waits" => pc[q] = "waits" /\ q # r
      BY <1>7
    <3>3. CASE a = p
      BY <1>4, <1>5, <1>6, <2>1, <3>1, <3>2, <3>3 DEF Kept
    <3>4. CASE a # p
      BY <1>5, <1>6, <2>1, <3>1, <3>2, <3>4 DEF Kept
    <3> QED BY <3>3, <3>4
  <2> QED BY <2>2, <2>3 DEF Kept
<1>11. ASSUME NEW q \in Proc PROVE OneWindow(q)'
  <2>1. OneWindow(q)
    BY DEF LaunchInv
  <2>2. pc'[q] \in Early => pc[q] \in Early
    BY <1>7 DEF Early
  <2>3. pc'[q] = "waits" => pc[q] = "waits"
    BY <1>7
  <2>4. asked[q] \in Proc /\ pc'[asked[q]] \notin Over => pc[asked[q]] \notin Over
    BY <1>7 DEF Over
  <2>5. asked[q] \in Proc =>
          (Contains(backlog'[asked[q]], q) \/ hand'[asked[q]] = q \/ Contains(inbox'[asked[q]], q)
              <=> With(asked[q], q))
    BY <1>8 DEF With
  <2> QED BY <1>5, <2>1, <2>2, <2>3, <2>4, <2>5 DEF OneWindow, With
<1> QED BY <1>9, <1>10, <1>11 DEF LaunchInv

\* A request posted is still with the primary, in its event loop's queue.
LEMMA PostKeepsLaunches ==
  ASSUME LaunchInv, InstanceTypeOK', NEW p \in Proc, Post(p) PROVE LaunchInv'
<1>1. LaunchTypes /\ Kept(p)
  BY DEF LaunchInv
<1>2. PICK r \in Proc : r = hand[p]
  BY <1>1 DEF Post, LaunchTypes
<1>3. PICK t : t = Append(inbox[p], r)
  OBVIOUS
<1>4. /\ t \in Seq(Proc) /\ Once(t)
      /\ \A x : Contains(t, x) <=> Contains(inbox[p], x) \/ x = r
  <2>1. inbox[p] \in Seq(Proc) /\ Once(inbox[p]) /\ ~Contains(inbox[p], r)
    BY <1>1, <1>2 DEF LaunchTypes, Kept
  <2> QED BY <1>3, <2>1, Joins
<1>5. /\ hand' = [hand EXCEPT ![p] = Nobody] /\ inbox' = [inbox EXCEPT ![p] = t]
      /\ UNCHANGED <<pc, backlog, asked, shown, gaveUp>>
  BY <1>2, <1>3 DEF Post, windowVars
<1>6. /\ hand'[p] = Nobody /\ inbox'[p] = t
      /\ \A a \in Proc : a # p => hand'[a] = hand[a] /\ inbox'[a] = inbox[a]
  BY <1>1, <1>5 DEF LaunchTypes
<1>7. \A a, q \in Proc : With(a, q)' <=> With(a, q)
  BY <1>2, <1>4, <1>5, <1>6, InstanceAssumption DEF With
<1>8. LaunchTypes'
  BY <1>1, <1>4, <1>5 DEF LaunchTypes
<1>9. ASSUME NEW a \in Proc PROVE Kept(a)'
  <2>1. Kept(a)
    BY DEF LaunchInv
  <2>2. Once(backlog'[a]) /\ Once(inbox'[a])
    BY <1>4, <1>5, <1>6, <2>1 DEF Kept
  <2>3. ASSUME NEW q \in Proc
        PROVE  /\ With(a, q)' => asked'[q] = a
               /\ Contains(backlog'[a], q) => hand'[a] # q /\ ~Contains(inbox'[a], q)
               /\ hand'[a] = q => ~Contains(inbox'[a], q)
               /\ hand'[a] = q \/ Contains(inbox'[a], q) => pc'[q] # "waits"
    <3>1. With(a, q)' => asked'[q] = a
      BY <1>5, <1>7, <2>1 DEF Kept
    <3>2. CASE a = p
      BY <1>2, <1>4, <1>5, <1>6, <2>1, <3>1, <3>2, InstanceAssumption DEF Kept
    <3>3. CASE a # p
      BY <1>5, <1>6, <2>1, <3>1, <3>3 DEF Kept
    <3> QED BY <3>2, <3>3
  <2> QED BY <2>2, <2>3 DEF Kept
<1>10. ASSUME NEW q \in Proc PROVE OneWindow(q)'
  <2>1. OneWindow(q)
    BY DEF LaunchInv
  <2>2. asked[q] \in Proc =>
          (Contains(backlog'[asked[q]], q) \/ hand'[asked[q]] = q \/ Contains(inbox'[asked[q]], q)
              <=> With(asked[q], q))
    BY <1>7 DEF With
  <2> QED BY <1>5, <2>1, <2>2 DEF OneWindow, With
<1> QED BY <1>8, <1>9, <1>10 DEF LaunchInv

\* The window is opened as the request leaves the last of its places.
LEMMA OpenWindowKeepsLaunches ==
  ASSUME LaunchInv, InstanceTypeOK', NEW p \in Proc, OpenWindow(p) PROVE LaunchInv'
<1>1. LaunchTypes /\ Kept(p)
  BY DEF LaunchInv
<1>2. PICK r : r = Head(inbox[p])
  OBVIOUS
<1>3. PICK t : t = Tail(inbox[p])
  OBVIOUS
<1>4. /\ r \in Proc /\ Contains(inbox[p], r) /\ t \in Seq(Proc) /\ Once(t)
      /\ \A x : Contains(t, x) <=> Contains(inbox[p], x) /\ x # r
  BY <1>1, <1>2, <1>3, Leaves DEF OpenWindow, LaunchTypes, Kept
<1>5. /\ pc[p] = "serving"
      /\ inbox' = [inbox EXCEPT ![p] = t] /\ shown' = [shown EXCEPT ![r] = @ + 1]
      /\ UNCHANGED <<pc, backlog, asked, hand, gaveUp>>
  BY <1>2, <1>3 DEF OpenWindow, Shows
<1>6. /\ inbox'[p] = t /\ \A a \in Proc : a # p => inbox'[a] = inbox[a]
      /\ shown'[r] = shown[r] + 1 /\ \A a \in Proc : a # r => shown'[a] = shown[a]
  BY <1>1, <1>4, <1>5 DEF LaunchTypes
<1>7. asked[r] = p /\ pc[r] # "waits" /\ ~Contains(backlog[p], r) /\ hand[p] # r
  BY <1>1, <1>4 DEF Kept, With
<1>8. \A a, q \in Proc : q # r => (With(a, q)' <=> With(a, q))
  BY <1>4, <1>5, <1>6 DEF With
<1>9. ~Contains(backlog'[p], r) /\ hand'[p] # r /\ ~Contains(inbox'[p], r)
  BY <1>4, <1>5, <1>6, <1>7
<1>10. LaunchTypes'
  BY <1>1, <1>4, <1>5 DEF LaunchTypes
<1>11. ASSUME NEW a \in Proc PROVE Kept(a)'
  <2>1. Kept(a)
    BY DEF LaunchInv
  <2>2. Once(backlog'[a]) /\ Once(inbox'[a])
    BY <1>4, <1>5, <1>6, <2>1 DEF Kept
  <2>3. \A q \in Proc : Contains(inbox'[a], q) => Contains(inbox[a], q)
    BY <1>4, <1>6
  <2> QED BY <1>5, <2>1, <2>2, <2>3 DEF Kept, With
<1>12. ASSUME NEW q \in Proc PROVE OneWindow(q)'
  <2>1. OneWindow(q)
    BY DEF LaunchInv
  <2>2. CASE q = r
    <3>1. pc'[q] \notin Early /\ pc'[q] # "waits"
      BY <1>1, <1>5, <1>7, <2>1, <2>2, InstanceAssumption DEF OneWindow
    <3>2. asked'[q] = p /\ ~With(p, q)'
      BY <1>5, <1>7, <1>9, <2>2 DEF With
    <3>3. q \notin gaveUp => shown[q] = 0
      <4>1. With(p, q) /\ pc[p] \notin Over
        BY <1>4, <1>5, <2>2 DEF With, Over
      <4>2. shown[q] \in Nat
        BY <1>1 DEF LaunchTypes
      <4> QED BY <1>7, <2>1, <2>2, <4>1, <4>2 DEF OneWindow
    <3> QED BY <1>5, <1>6, <2>2, <3>1, <3>2, <3>3 DEF OneWindow, With
  <2>3. CASE q # r
    <3>1. asked[q] \in Proc =>
            (Contains(backlog'[asked[q]], q) \/ hand'[asked[q]] = q \/ Contains(inbox'[asked[q]], q)
                <=> With(asked[q], q))
      BY <1>8, <2>3 DEF With
    <3> QED BY <1>5, <1>6, <2>1, <2>3, <3>1 DEF OneWindow, With
  <2> QED BY <2>2, <2>3
<1> QED BY <1>10, <1>11, <1>12 DEF LaunchInv

\* What every process and every request is, whoever has left.
THEOREM LaunchInvariant == Spec => []LaunchInv
<1>1. Init => LaunchInv
  <2> SUFFICES ASSUME Init PROVE LaunchInv
    OBVIOUS
  <2>1. LaunchTypes
    BY DEF Init, LaunchTypes, InstanceTypeOK, Holding, Over
  <2>2. ASSUME NEW p \in Proc PROVE Kept(p) /\ OneWindow(p)
    <3>1. \A q : ~Contains(backlog[p], q) /\ ~Contains(inbox[p], q)
      BY DEF Init, Contains
    <3>2. Once(backlog[p]) /\ Once(inbox[p])
      BY DEF Init, Once
    <3>3. hand[p] = Nobody /\ asked[p] = Nobody /\ shown[p] = 0 /\ pc[p] = "start"
      BY DEF Init
    <3> QED BY <3>1, <3>2, <3>3, InstanceAssumption DEF Kept, With, OneWindow
  <2> QED BY <2>1, <2>2 DEF LaunchInv
<1>2. LaunchInv /\ [Next]_vars => LaunchInv'
  <2> SUFFICES ASSUME LaunchInv, [Next]_vars PROVE LaunchInv'
    OBVIOUS
  <2>1. InstanceTypeOK'
    BY InstanceTypesKept DEF LaunchInv
  <2>2. ASSUME NEW p \in Proc, Acquire(p) PROVE LaunchInv'
    BY <2>1, <2>2, MovesKeepLaunches, ConnectKeepsLaunches, UnansweredKeepsLaunches,
       BindKeepsLaunches, ServeKeepsLaunches DEF Acquire
  <2>3. ASSUME NEW p \in Proc, Answers(p) PROVE LaunchInv'
    BY <2>1, <2>3, AcceptKeepsLaunches, PostKeepsLaunches, OpenWindowKeepsLaunches DEF Answers
  <2>4. ASSUME NEW p \in Proc, Ends(p) PROVE LaunchInv'
    BY <2>1, <2>4, MovesKeepLaunches DEF Ends
  <2>5. ASSUME UNCHANGED vars PROVE LaunchInv'
    <3>1. LaunchTypes'
      BY <2>5, <2>1 DEF LaunchInv, LaunchTypes, vars
    <3>2. ASSUME NEW p \in Proc PROVE Kept(p)' /\ OneWindow(p)'
      BY <2>5 DEF LaunchInv, Kept, OneWindow, With, vars
    <3> QED BY <3>1, <3>2 DEF LaunchInv
  <2> QED BY <2>2, <2>3, <2>4, <2>5 DEF Next, Settled
<1> QED BY <1>1, <1>2, PTL DEF Spec

(***************************************************************************)
(* A launch that did not tire of waiting has one window at most, its own   *)
(* or the primary's, for any number of launches, killed or leaving at any  *)
(* point: no request is read twice, and no launch opens its own window     *)
(* while one that can still open it has its request (acquire, send,        *)
(* read_request, user_event).                                              *)
(***************************************************************************)
THEOREM LaunchesAreSound == Spec => []LaunchesSound
<1>1. LaunchInv => LaunchesSound
  BY DEF LaunchInv, LaunchTypes, OneWindow, LaunchesSound, OneWindowPerLaunch
<1> QED BY LaunchInvariant, <1>1, PTL

-----------------------------------------------------------------------------
(***************************************************************************)
(* The settings, for every set of widths and looks and every number of     *)
(* edits, drags and signals.                                               *)
(***************************************************************************)

-----------------------------------------------------------------------------
(***************************************************************************)
(* The inductive invariant, part by part.                                  *)
(***************************************************************************)
\* The document a writer holds is one that parsed when it read it; what the
\* watcher tells parsed as well.
Writers ==
  /\ watcher \in [pc : {"idle", "store", "tell"}, read : Versions]
  /\ watcher.pc = "tell" => watcher.read \in Configs
  /\ forced \in [pc : {"idle", "store"}, read : Versions]
  /\ editor \in [pc : {"idle", "write"}, read : Versions]
  /\ ui \in [pc : {"idle", "write"}, read : Versions]
  /\ ui # Idle => ui.pc = "write" /\ ui.read \in Configs /\ pending # None

Values ==
  /\ file \in Versions /\ state \in Configs /\ told \in Configs /\ cabinet_cfg \in Configs
  /\ cabinet \in Widths /\ pending \in Widths \cup {None}

\* Every rename is said twice at most, and a drag not yet written is one to come.
Owed == IF pending = None THEN 0 ELSE 2
Counted ==
  /\ left \in [edits : 0 .. Edits, drags : 0 .. Drags, signals : 0 .. Signals]
  /\ events \in Nat
  /\ events + 2 * left.edits + 2 * left.drags + Owed <= 2 * (Edits + Drags)

\* What the watcher is about to tell is what it stored, but for a signal's.
TellsTheStored == watcher.pc = "tell" /\ "untold" \notin missed => watcher.read = state

SettingsInv == Writers /\ Values /\ Counted /\ TellsTheStored /\ ChangesAreTold

-----------------------------------------------------------------------------
\* What the constants are, and that the file that does not parse is no setting.
LEMMA ConstantFacts ==
  /\ Edits \in Nat /\ Drags \in Nat /\ Signals \in Nat /\ Widths \subseteq Nat \ {0}
  /\ None \notin Widths /\ Bad \notin Configs /\ Configs \subseteq Versions /\ Bad \in Versions
  /\ Idle \in [pc : {"idle"}, read : {Bad}] /\ Idle.pc = "idle"
BY SettingsAssumption DEF Configs, Versions, Bad, None, Idle, At

\* What a hand at a place is.
LEMMA AtFacts ==
  ASSUME NEW S, NEW p, NEW v \in S
  PROVE  At(p, v) \in [pc : {p}, read : S] /\ At(p, v).pc = p /\ At(p, v).read = v
BY DEF At

\* It holds of the file the program loads.
LEMMA SettingsInvInit == SettingsInit => SettingsInv
<1> SUFFICES ASSUME SettingsInit PROVE SettingsInv
  OBVIOUS
<1>1. Writers
  BY ConstantFacts DEF SettingsInit, Writers
<1>2. Values
  <2>1. file.width \in Widths
    BY DEF SettingsInit, Configs
  <2> QED BY <2>1, ConstantFacts DEF SettingsInit, Values
<1>3. Counted
  <2>1. /\ left \in [edits : 0 .. Edits, drags : 0 .. Drags, signals : 0 .. Signals]
        /\ left.edits = Edits /\ left.drags = Drags /\ events = 0 /\ Owed = 0
    BY ConstantFacts DEF SettingsInit, Owed
  <2> QED BY <2>1, ConstantFacts DEF Counted
<1>4. TellsTheStored /\ ChangesAreTold
  BY ConstantFacts DEF SettingsInit, TellsTheStored, ChangesAreTold
<1> QED BY <1>1, <1>2, <1>3, <1>4 DEF SettingsInv

\* A rename: one version for another, and one event or two.
LEMMA RenameCounts ==
  ASSUME Counted, NEW v \in Versions, Renamed(v), Owed' \in {0, 2},
         left' \in [edits : 0 .. Edits, drags : 0 .. Drags, signals : 0 .. Signals],
         2 * left'.edits + 2 * left'.drags + Owed' + 2 <= 2 * left.edits + 2 * left.drags + Owed
  PROVE  Counted' /\ file' \in Versions
<1>1. file' = v
  BY DEF Renamed
<1>2. PICK n \in 1 .. 2 : events' = events + n
  BY DEF Renamed
<1>3. /\ left'.edits \in Nat /\ left'.drags \in Nat /\ left.edits \in Nat /\ left.drags \in Nat
      /\ Owed \in {0, 2} /\ events \in Nat /\ Edits \in Nat /\ Drags \in Nat
  BY ConstantFacts DEF Counted, Owed
<1>4. events' \in Nat /\ events' <= events + 2
  BY <1>2, <1>3
<1>5. events' + 2 * left'.edits + 2 * left'.drags + Owed' <= 2 * (Edits + Drags)
  BY <1>3, <1>4 DEF Counted
<1> QED BY <1>1, <1>4, <1>5 DEF Counted

\* Another process reads the file, or writes it.
LEMMA EditKeeps ==
  ASSUME SettingsInv, Edit
  PROVE  SettingsInv'
<1> USE ConstantFacts DEF SettingsInv
<1>1. ASSUME EditRead PROVE SettingsInv'
  <2>1. editor' \in [pc : {"write"}, read : Versions]
    BY <1>1, AtFacts DEF EditRead, Values
  <2>2. Writers'
    BY <1>1, <2>1 DEF EditRead, Writers, diskVars, glassVars
  <2>3. Values' /\ Counted' /\ TellsTheStored' /\ ChangesAreTold'
    BY <1>1 DEF EditRead, Values, Counted, Owed, TellsTheStored, ChangesAreTold, diskVars, glassVars
  <2> QED BY <2>2, <2>3
<1>2. ASSUME NEW v \in Versions, EditWrite(v), editor' \in {editor, Idle} PROVE SettingsInv'
  <2>1. /\ UNCHANGED <<state, told, watcher, forced, ui, cabinet, cabinet_cfg, pending>>
        /\ Renamed(v) /\ ("untold" \notin missed' => "untold" \notin missed)
        /\ left.edits > 0 /\ left' = [left EXCEPT !.edits = @ - 1]
    BY <1>2 DEF EditWrite, glassVars
  <2>2. Writers'
    BY <1>2, <2>1 DEF Writers
  <2>3. Owed' = Owed /\ Owed \in {0, 2}
    BY <2>1 DEF Owed
  <2>4. left \in [edits : 0 .. Edits, drags : 0 .. Drags, signals : 0 .. Signals]
    BY DEF Counted
  <2>5. /\ left' \in [edits : 0 .. Edits, drags : 0 .. Drags, signals : 0 .. Signals]
        /\ left'.edits = left.edits - 1 /\ left'.drags = left.drags
    BY <2>1, <2>4
  <2>6. 2 * left'.edits + 2 * left'.drags + Owed' + 2 <= 2 * left.edits + 2 * left.drags + Owed
    BY <2>3, <2>4, <2>5
  <2>7. Counted' /\ file' \in Versions
    BY <2>1, <2>3, <2>5, <2>6, RenameCounts
  <2>8. Values' /\ TellsTheStored' /\ ChangesAreTold'
    BY <2>1, <2>7 DEF Values, TellsTheStored, ChangesAreTold
  <2> QED BY <2>2, <2>7, <2>8
<1>3. ASSUME EditKey PROVE SettingsInv'
  BY <1>2, <1>3 DEF EditKey
<1>4. ASSUME EditByHand PROVE SettingsInv'
  BY <1>2, <1>4 DEF EditByHand
<1> QED BY <1>1, <1>3, <1>4 DEF Edit

\* A reload, the watcher's or the signal's.
LEMMA ReloadKeeps ==
  ASSUME SettingsInv, Watch \/ Signal
  PROVE  SettingsInv'
<1> USE ConstantFacts DEF SettingsInv
<1>1. ASSUME NEW v \in Versions, Store(v) PROVE state' \in Configs /\ (Stores(v) => state' = v /\ v \in Configs)
  BY <1>1 DEF Store, Stores, Parses, Values, Versions
<1>2. ASSUME WatchRead PROVE SettingsInv'
  <2>1. watcher' \in [pc : {"store"}, read : Versions]
    BY <1>2, AtFacts DEF WatchRead, Values
  <2>2. Writers'
    BY <1>2, <2>1 DEF WatchRead, Writers, glassVars
  <2>3. watcher.pc = "idle" /\ watcher'.pc = "store"
    BY <1>2, <2>1 DEF WatchRead
  <2>4. Values' /\ TellsTheStored' /\ ChangesAreTold'
    BY <1>2, <2>3 DEF WatchRead, Values, TellsTheStored, ChangesAreTold, glassVars
  <2>5. Counted'
    <3>1. events' \in Nat /\ events' <= events /\ events \in Nat /\ left' = left /\ Owed' = Owed
      BY <1>2 DEF WatchRead, Counted, Owed, glassVars
    <3>2. left.edits \in Nat /\ left.drags \in Nat /\ Owed \in {0, 2}
      BY DEF Counted, Owed
    <3> QED BY <3>1, <3>2 DEF Counted
  <2> QED BY <2>2, <2>4, <2>5
<1>3. ASSUME WatchStore PROVE SettingsInv'
  <2>1. /\ watcher.pc = "store" /\ Store(watcher.read) /\ watcher.read \in Versions
        /\ watcher' = IF Stores(watcher.read) THEN At("tell", watcher.read) ELSE Idle
        /\ UNCHANGED <<file, events, told, forced, editor, ui, cabinet, cabinet_cfg, pending, left, missed>>
    BY <1>3 DEF WatchStore, Writers, diskVars, glassVars
  <2>2. state' \in Configs /\ (Stores(watcher.read) => state' = watcher.read /\ watcher.read \in Configs)
    BY <1>1, <2>1
  <2>3. Counted' /\ Values'
    BY <2>1, <2>2 DEF Counted, Values, Owed
  <2>4. CASE Stores(watcher.read)
    <3>1. watcher' \in [pc : {"tell"}, read : Configs] /\ watcher'.pc = "tell" /\ watcher'.read = watcher.read
      BY <2>1, <2>2, <2>4, AtFacts
    <3>2. Writers'
      BY <2>1, <3>1 DEF Writers
    <3> QED BY <2>2, <2>3, <2>4, <3>1, <3>2 DEF TellsTheStored, ChangesAreTold
  <2>5. CASE ~Stores(watcher.read)
    <3>1. watcher' = Idle /\ state' = state
      BY <2>1, <2>5 DEF Store
    <3>2. Writers'
      BY <2>1, <3>1 DEF Writers
    <3> QED BY <2>1, <2>3, <3>1, <3>2 DEF TellsTheStored, ChangesAreTold
  <2> QED BY <2>4, <2>5
<1>4. ASSUME WatchTell PROVE SettingsInv'
  <2>1. /\ watcher.pc = "tell" /\ watcher' = Idle /\ told' = watcher.read /\ watcher.read \in Configs
        /\ UNCHANGED <<file, events, state, forced, editor, ui, cabinet, cabinet_cfg, pending, left, missed>>
    BY <1>4 DEF WatchTell, Writers, diskVars, glassVars
  <2>2. Writers' /\ Values' /\ Counted'
    BY <2>1 DEF Writers, Values, Counted, Owed
  <2>3. TellsTheStored' /\ ChangesAreTold'
    BY <2>1 DEF TellsTheStored, ChangesAreTold
  <2> QED BY <2>2, <2>3
<1>5. ASSUME ForceRead PROVE SettingsInv'
  <2>1. forced' \in [pc : {"store"}, read : Versions]
    BY <1>5, AtFacts DEF ForceRead, Values
  <2>2. /\ UNCHANGED <<file, events, state, told, watcher, editor, ui, cabinet, cabinet_cfg, pending, missed>>
        /\ left.signals > 0 /\ left' = [left EXCEPT !.signals = @ - 1]
    BY <1>5 DEF ForceRead, diskVars, glassVars
  <2>3. Writers' /\ Values' /\ TellsTheStored' /\ ChangesAreTold'
    BY <2>1, <2>2 DEF Writers, Values, TellsTheStored, ChangesAreTold
  <2>4. Counted'
    BY <2>2 DEF Counted, Owed
  <2> QED BY <2>3, <2>4
<1>6. ASSUME ForceStore PROVE SettingsInv'
  <2>1. /\ forced' = Idle /\ Store(forced.read) /\ forced.read \in Versions
        /\ missed' = missed \cup (IF Stores(forced.read) THEN {"untold"} ELSE {})
        /\ UNCHANGED <<file, events, told, watcher, editor, ui, cabinet, cabinet_cfg, pending, left>>
    BY <1>6 DEF ForceStore, Writers, diskVars, glassVars
  <2>2. state' \in Configs
    BY <1>1, <2>1
  <2>3. "untold" \notin missed' => state' = state /\ "untold" \notin missed
    BY <2>1 DEF Store
  <2>4. Writers'
    BY <2>1 DEF Writers
  <2>5. Values' /\ Counted'
    BY <2>1, <2>2 DEF Values, Counted, Owed
  <2>6. TellsTheStored' /\ ChangesAreTold'
    BY <2>1, <2>3 DEF TellsTheStored, ChangesAreTold
  <2> QED BY <2>4, <2>5, <2>6
<1> QED BY <1>2, <1>3, <1>4, <1>5, <1>6 DEF Watch, Signal

\* The event loop: the seam's drag, its end and its write, and a frame.
LEMMA LoopKeeps ==
  ASSUME SettingsInv, Loop
  PROVE  SettingsInv'
<1> USE ConstantFacts DEF SettingsInv
<1>0. /\ left \in [edits : 0 .. Edits, drags : 0 .. Drags, signals : 0 .. Signals]
      /\ left.edits \in Nat /\ left.drags \in Nat /\ events \in Nat /\ Owed \in {0, 2}
  BY DEF Counted, Owed
<1>1. ASSUME SeamMoved PROVE SettingsInv'
  <2>1. PICK w \in Widths \ {cabinet} : cabinet' = w /\ pending' = w
    BY <1>1 DEF SeamMoved
  <2>2. /\ ui = Idle /\ left.drags > 0 /\ left' = [left EXCEPT !.drags = @ - 1]
        /\ UNCHANGED <<file, events, state, told, watcher, forced, editor, ui, cabinet_cfg, missed>>
    BY <1>1 DEF SeamMoved, diskVars
  <2>3. /\ left' \in [edits : 0 .. Edits, drags : 0 .. Drags, signals : 0 .. Signals]
        /\ left'.edits = left.edits /\ left'.drags = left.drags - 1 /\ Owed' = 2
    BY <1>0, <2>1, <2>2 DEF Owed
  <2>4. events' + 2 * left'.edits + 2 * left'.drags + Owed' <= 2 * (Edits + Drags)
    BY <1>0, <2>2, <2>3 DEF Counted
  <2>5. Counted' /\ Values'
    BY <2>1, <2>2, <2>3, <2>4 DEF Counted, Values
  <2>6. Writers' /\ TellsTheStored' /\ ChangesAreTold'
    BY <2>2 DEF Writers, TellsTheStored, ChangesAreTold
  <2> QED BY <2>5, <2>6
<1>2. ASSUME SeamReleased PROVE SettingsInv'
  <2>1. /\ ui = Idle /\ pending # None
        /\ UNCHANGED <<file, events, state, told, watcher, forced, editor, cabinet, cabinet_cfg, left>>
        /\ "untold" \notin missed' => "untold" \notin missed
    BY <1>2 DEF SeamReleased, diskVars
  <2>2. TellsTheStored' /\ ChangesAreTold'
    BY <2>1 DEF TellsTheStored, ChangesAreTold
  <2>3. CASE file = Bad
    <3>1. pending' = None /\ ui' = ui /\ Owed' = 0
      BY <1>2, <2>3 DEF SeamReleased, Owed
    <3>2. events' + 2 * left'.edits + 2 * left'.drags + Owed' <= 2 * (Edits + Drags)
      BY <1>0, <2>1, <3>1 DEF Counted
    <3>3. Writers' /\ Values' /\ Counted'
      BY <2>1, <3>1, <3>2 DEF Writers, Values, Counted
    <3> QED BY <2>2, <3>3
  <2>4. CASE file # Bad
    <3>1. ui' = At("write", file) /\ pending' = pending
      BY <1>2, <2>4 DEF SeamReleased
    <3>2. ui' \in [pc : {"write"}, read : Configs]
      BY <2>4, <3>1, AtFacts DEF Values, Versions
    <3>3. Writers' /\ Values' /\ Counted'
      BY <2>1, <3>1, <3>2 DEF Writers, Values, Counted, Owed
    <3> QED BY <2>2, <3>3
  <2> QED BY <2>3, <2>4
<1>3. ASSUME WriteKey PROVE SettingsInv'
  <2>1. /\ ui # Idle /\ ui' = Idle /\ pending' = None /\ ui.read \in Configs /\ pending \in Widths
        /\ UNCHANGED <<state, told, watcher, forced, editor, cabinet, cabinet_cfg, left>>
    BY <1>3 DEF WriteKey, Writers, Values
  <2>2. "untold" \notin missed' => "untold" \notin missed
    BY <1>3 DEF WriteKey
  <2>3. TellsTheStored' /\ ChangesAreTold' /\ Writers'
    BY <2>1, <2>2 DEF TellsTheStored, ChangesAreTold, Writers
  <2>4. Owed' = 0 /\ Owed = 2
    BY <2>1 DEF Owed
  <2>5. CASE Renamed([ui.read EXCEPT !.width = pending])
    <3>1. [ui.read EXCEPT !.width = pending] \in Versions
      BY <2>1 DEF Configs, Versions
    <3>2. Counted' /\ file' \in Versions
      BY <1>0, <2>1, <2>4, <2>5, <3>1, RenameCounts
    <3> QED BY <2>1, <2>3, <3>2 DEF Values
  <2>6. CASE UNCHANGED diskVars
    <3>1. events' + 2 * left'.edits + 2 * left'.drags + Owed' <= 2 * (Edits + Drags)
      BY <1>0, <2>1, <2>4, <2>6 DEF Counted, diskVars
    <3> QED BY <2>1, <2>3, <2>6, <3>1 DEF Values, Counted, diskVars
  <2> QED BY <1>3, <2>5, <2>6 DEF WriteKey
<1>4. ASSUME Frame PROVE SettingsInv'
  <2>1. /\ cabinet_cfg' = state /\ cabinet' = state.width /\ state.width \in Widths
        /\ "untold" \notin missed' => "untold" \notin missed
        /\ UNCHANGED <<file, events, state, told, watcher, forced, editor, ui, pending, left>>
    BY <1>4 DEF Frame, Values, Configs, diskVars
  <2>2. Values' /\ Counted'
    BY <2>1 DEF Values, Counted, Owed
  <2>3. Writers' /\ TellsTheStored' /\ ChangesAreTold'
    BY <2>1 DEF Writers, TellsTheStored, ChangesAreTold
  <2> QED BY <2>2, <2>3
<1> QED BY <1>1, <1>2, <1>3, <1>4 DEF Loop

\* It is kept by every step, and by none.
LEMMA SettingsInvNext == SettingsInv /\ [SettingsNext]_settingsVars => SettingsInv'
<1> SUFFICES ASSUME SettingsInv, [SettingsNext]_settingsVars PROVE SettingsInv'
  OBVIOUS
<1>1. CASE SettingsNext
  BY <1>1, EditKeeps, ReloadKeeps, LoopKeeps DEF SettingsNext
<1>2. CASE UNCHANGED settingsVars
  BY <1>2 DEF settingsVars, diskVars, glassVars, SettingsInv, Writers, Values, Counted, Owed, TellsTheStored, ChangesAreTold
<1> QED BY <1>1, <1>2

-----------------------------------------------------------------------------
\* However many writers share the file, one that does not parse never becomes
\* the settings, and what on_reload was told is what the snapshot holds, but for
\* what the signal's thread stored (watch.rs, reload_into).
THEOREM SettingsAreSound == SettingsSpec => []SettingsSound
<1>1. SettingsInit => SettingsInv
  BY SettingsInvInit
<1>2. SettingsInv /\ [SettingsNext]_settingsVars => SettingsInv'
  BY SettingsInvNext
<1>3. SettingsInv => SettingsSound
  <2> SUFFICES ASSUME SettingsInv PROVE SettingsSound
    OBVIOUS
  <2>1. events \in 0 .. 2 * (Edits + Drags)
    <3>1. left.edits \in Nat /\ left.drags \in Nat /\ Owed \in {0, 2}
      BY DEF SettingsInv, Counted, Owed
    <3> QED BY <3>1, ConstantFacts DEF SettingsInv, Counted
  <2>2. \A who \in {watcher, forced, editor, ui} : who.read \in Versions
    BY DEF SettingsInv, Writers
  <2> QED BY <2>1, <2>2 DEF SettingsInv, Values, SettingsSound, SettingsTypeOK
<1> QED BY <1>1, <1>2, <1>3, PTL DEF SettingsSpec
=============================================================================
