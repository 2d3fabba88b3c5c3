---------------------------- MODULE SshLinkProofs ----------------------------
(* Proofs about SshLink, for every number of channels, queue and budget. *)
EXTENDS SshLink, SequenceTheorems, WellFoundedInduction, TLAPS

-----------------------------------------------------------------------------
(***************************************************************************)
(* The inductive invariant, part by part.                                  *)
(***************************************************************************)
\* The stages in which only the first channel is known and nobody is let in
\* yet, and those of them that ask.
Auth == {"connect", "host", "probe", "named", "agent", "defaults", "prompted", "challenge",
         "respond", "last", "password"}
AskStages == {"host", "named", "defaults", "respond", "password"}

\* e stands in q; f stands in q somewhere behind e.
Has(q, e)       == \E i \in 1 .. Len(q) : q[i] = e
Behind(q, e, f) == \E i, j \in 1 .. Len(q) : i < j /\ q[i] = e /\ q[j] = f

\* What is left to try fits the stage that tries it.
LeftFits ==
  /\ stage \in {"named", "defaults"} => left \in 1 .. KeyFiles
  /\ stage = "agent" => left \in 0 .. KeyFiles
  /\ stage \in {"challenge", "respond"} => left \in 0 .. Rounds

\* A question is held once, and only by a stage that asks with all said.
Asked == QuestionHeldOnce /\ (waiting => stage \in AskStages /\ script = <<>>)

\* What the supervisor may have yet to say: nothing, or one of these.
Remark   == <<"notice">>
Closing  == <<"eof">>
Refusal  == <<"epitaph", "eof">>
Farewell == <<"notice", "epitaph", "eof">>

ScriptFits ==
  /\ stage \in Auth \cup {"raise"} => script \in {<<>>, Remark}
  /\ stage = "serve" => script \in {<<>>, Closing, Refusal}
  /\ stage \in {"hanging", "leaving"} => script = <<>>
  /\ stage = "over" => script \in {<<>>, Closing, Refusal, Farewell}

\* Channels are raised in the order of their numbers: below `to` all have been,
\* above it they are queued in `opens` or not opened.
InTurn ==
  /\ stage \in Auth => to = 1
  /\ stage \in Auth \cup {"raise"} \/ script # <<>> => task[to] = "queued"
  /\ stage = "serve" /\ script = <<>> => task[to] # "queued"
  /\ task[to] # "none"
  /\ \A c \in Chan : c > to => task[c] \in {"none", "queued"} \/ (Over /\ task[c] = "gone")
  /\ \A c, d \in Chan : task[c] = "none" /\ d >= c => task[d] = "none"
  /\ \A c \in Chan : task[c] = "queued" => c = to \/ Has(opens, c)
  /\ \A i \in 1 .. Len(opens) : opens[i] > to /\ task[opens[i]] = "queued"
  /\ \A i, j \in 1 .. Len(opens) : i < j => opens[i] < opens[j]

\* There is no connection before it is made; who hangs up has been let go, and
\* only this side's hanging up closes.
LetGo ==
  /\ stage = "connect" => conn = "none"
  /\ hanging => ~record
  /\ stage \in {"hanging", "leaving"} => hanging /\ opens = <<>>
  /\ conn = "closed" => hanging

\* An event queue: nothing behind an Eof, after its epitaph only the Eof, and
\* behind bytes no notice but the loss of the connection.
InOrder(c) ==
  /\ \A e \in Events : ~Behind(queue[c], "eof", e)
  /\ \A e \in Events \ {"eof"} : ~Behind(queue[c], "epitaph", e)
  /\ ~Behind(queue[c], "data", "notice")
  /\ Behind(queue[c], "data", "epitaph") => conn = "down"

\* What a row has read, against what it has yet to read.
Heard(c) ==
  /\ ~Up(c) => row[c] = NoRow /\ queue[c] = <<>>
  /\ row[c].told => \A e \in Events \ {"eof"} : ~Has(queue[c], e)
  /\ row[c].lived => ~Has(queue[c], "notice") /\ (Has(queue[c], "epitaph") => conn = "down")
  /\ row[c].ended => queue[c] = <<>> /\ task[c] = "gone"
  /\ Has(queue[c], "eof") => task[c] = "gone"
  /\ row[c].lost => row[c].told /\ conn = "down"
  /\ row[c].told /\ row[c].lived => row[c].lost

\* The end of a channel has been put in words; there is a reason for it.
Said(c) == row[c].told \/ Has(queue[c], "epitaph")
Why(c)  == Said(c) \/ FarClosed(c) \/ ~record

\* A task, against what its row hears of it.
OnTask(c) ==
  /\ task[c] = "none" => ~Up(c) /\ cmds[c] = <<>>
  /\ task[c] \in {"none", "queued"} => ~row[c].lived /\ ~Has(queue[c], "data")
  /\ c > to => queue[c] = <<>> /\ ~row[c].told /\ ~row[c].lived
  /\ task[c] = "queued" /\ Said(c) => c = to /\ script = Closing
  /\ c = to /\ script = Closing /\ Up(c) => Said(c)
  /\ task[c] \in {"driving", "holding", "saying"} => ~Said(c) /\ conn # "none"
  /\ task[c] = "holding" => far[c] # <<>> /\ Head(far[c]) = "data"
  /\ task[c] = "saying" => conn = "down"
  /\ task[c] = "ending" /\ Up(c) => Why(c)
  /\ task[c] = "gone" /\ Up(c) => Why(c) \/ (Over /\ c > to)
  /\ Up(c) => ~Has(cmds[c], Close)

\* A channel, its row and its task tell one story.
Honest(c) == InOrder(c) /\ Heard(c) /\ OnTask(c)

\* The writes come to n, none of them taking from the total.
Fits(writes, n) ==
  \E total \in [0 .. Len(writes) -> 0 .. INPUT_CAP] :
    /\ Adds(total, writes) /\ total[Len(writes)] = n
    /\ \A i, j \in 0 .. Len(writes) : i <= j => total[i] <= total[j]
InBudget(c) == queued[c] <= INPUT_CAP /\ (task[c] # "gone" => Fits(cmds[c], queued[c]))

\* The pump is at a row; while a question stands, what it has been past on the
\* question's slot is read.
Follows ==
  /\ pump \in Chan => Up(pump)
  /\ prompt /\ pump \in 1 .. Sweeping => \A c \in At(1) : c < pump => queue[c] = <<>>

LinkInv ==
  /\ SshTypeOK /\ LeftFits /\ Asked /\ ScriptFits /\ InTurn /\ LetGo /\ Follows
  /\ \A c \in Chan : Honest(c) /\ InBudget(c)

-----------------------------------------------------------------------------
\* A nonempty set of naturals has a least element.
LEMMA LeastNat ==
  ASSUME NEW T, T \subseteq Nat, T # {}
  PROVE  \E x \in T : \A y \in T : x <= y
<1>1. IsWellFoundedOn(OpToRel(<, Nat), Nat)
  BY NatLessThanWellFounded
<1>2. PICK x \in T : \A y \in T : ~ (<<y, x>> \in OpToRel(<, Nat))
  BY <1>1, WFMin
<1>3. \A y \in T : ~ (y < x)
  BY <1>2 DEF OpToRel
<1> QED BY <1>3

(***************************************************************************)
(* Sequences: what Append and Tail do to what stands in one, and behind it.*)
(***************************************************************************)
\* Nothing stands in the empty sequence, and something in any other.
LEMMA HasEmpty ==
  /\ \A e : ~Has(<<>>, e)
  /\ \A e, f : ~Behind(<<>>, e, f)
BY DEF Has, Behind

\* Something stands in a sequence that is not empty.
LEMMA HasSome ==
  ASSUME NEW S, NEW q \in Seq(S), \A e \in S : ~Has(q, e)
  PROVE  q = <<>>
<1> SUFFICES ASSUME q # <<>> PROVE FALSE
  OBVIOUS
<1>1. Len(q) \in Nat \ {0}
  BY EmptySeq
<1>2. q[1] \in S /\ 1 \in 1 .. Len(q)
  BY <1>1, ElementOfSeq
<1> QED BY <1>2 DEF Has

\* Append puts e last: in the sequence, and behind all that stood there.
LEMMA HasAppend ==
  ASSUME NEW S, NEW q \in Seq(S), NEW e \in S
  PROVE  /\ Append(q, e) \in Seq(S) /\ Len(Append(q, e)) = Len(q) + 1
         /\ \A f : Has(Append(q, e), f) <=> Has(q, f) \/ f = e
         /\ \A f, g : Behind(Append(q, e), f, g) <=> Behind(q, f, g) \/ (Has(q, f) /\ g = e)
<1> DEFINE r == Append(q, e)
<1>1. /\ r \in Seq(S) /\ Len(r) = Len(q) + 1 /\ Len(q) \in Nat
      /\ \A i \in 1 .. Len(q) : r[i] = q[i]
      /\ r[Len(q) + 1] = e
  BY AppendProperties, LenProperties
<1> HIDE DEF r
<1>2. \A i : i \in 1 .. Len(r) <=> i \in 1 .. Len(q) \/ i = Len(q) + 1
  BY <1>1
<1>3. ASSUME NEW f PROVE Has(r, f) <=> Has(q, f) \/ f = e
  BY <1>1, <1>2 DEF Has
<1>4. ASSUME NEW f, NEW g PROVE Behind(r, f, g) <=> Behind(q, f, g) \/ (Has(q, f) /\ g = e)
  <2>1. ASSUME Behind(r, f, g) PROVE Behind(q, f, g) \/ (Has(q, f) /\ g = e)
    <3>1. PICK i \in 1 .. Len(r), j \in 1 .. Len(r) : i < j /\ r[i] = f /\ r[j] = g
      BY <2>1 DEF Behind
    <3>2. i \in 1 .. Len(q) /\ q[i] = f
      BY <1>1, <3>1
    <3> QED BY <1>1, <1>2, <3>1, <3>2 DEF Behind, Has
  <2>2. ASSUME Behind(q, f, g) PROVE Behind(r, f, g)
    BY <1>1, <1>2, <2>2 DEF Behind
  <2>3. ASSUME Has(q, f), g = e PROVE Behind(r, f, g)
    <3>1. PICK i \in 1 .. Len(q) : q[i] = f
      BY <2>3 DEF Has
    <3>2. i < Len(q) + 1 /\ r[i] = f /\ r[Len(q) + 1] = g
      BY <1>1, <2>3, <3>1
    <3>3. i \in 1 .. Len(r) /\ Len(q) + 1 \in 1 .. Len(r)
      BY <1>1
    <3> QED BY <3>2, <3>3 DEF Behind
  <2> QED BY <2>1, <2>2, <2>3
<1> QED BY <1>1, <1>3, <1>4 DEF r

\* Tail takes the first away, and what was behind it alone.
LEMMA HasTail ==
  ASSUME NEW S, NEW q \in Seq(S), q # <<>>
  PROVE  /\ Tail(q) \in Seq(S) /\ Len(Tail(q)) = Len(q) - 1 /\ Head(q) \in S
         /\ \A f : Has(q, f) <=> Head(q) = f \/ Has(Tail(q), f)
         /\ \A f, g : Behind(q, f, g) <=> Behind(Tail(q), f, g) \/ (Head(q) = f /\ Has(Tail(q), g))
<1> DEFINE r == Tail(q)
<1>1. /\ r \in Seq(S) /\ Len(q) = Len(r) + 1 /\ Len(r) \in Nat /\ Head(q) \in S
      /\ \A i \in 1 .. Len(r) : q[i + 1] = r[i]
      /\ q[1] = Head(q)
  BY HeadTailProperties, LenProperties, EmptySeq
<1> HIDE DEF r
<1>2. \A i : i \in 1 .. Len(q) <=> i = 1 \/ (i \in Int /\ i - 1 \in 1 .. Len(r))
  BY <1>1
<1>3. \A i \in 1 .. Len(r) : i + 1 \in 1 .. Len(q) /\ 1 < i + 1 /\ q[i + 1] = r[i]
  BY <1>1
<1>4. \A i \in 1 .. Len(q) : i # 1 => i - 1 \in 1 .. Len(r) /\ r[i - 1] = q[i]
  BY <1>1
<1>5. 1 \in 1 .. Len(q)
  BY <1>1
<1>6. ASSUME NEW f PROVE Has(q, f) <=> Head(q) = f \/ Has(r, f)
  <2>1. ASSUME Has(q, f) PROVE Head(q) = f \/ Has(r, f)
    <3>1. PICK i \in 1 .. Len(q) : q[i] = f
      BY <2>1 DEF Has
    <3>2. CASE i = 1
      BY <1>1, <3>1, <3>2
    <3>3. CASE i # 1
      BY <1>4, <3>1, <3>3 DEF Has
    <3> QED BY <3>2, <3>3
  <2>2. ASSUME Head(q) = f PROVE Has(q, f)
    BY <1>1, <1>5, <2>2 DEF Has
  <2>3. ASSUME Has(r, f) PROVE Has(q, f)
    <3>1. PICK i \in 1 .. Len(r) : r[i] = f
      BY <2>3 DEF Has
    <3> QED BY <1>3, <3>1 DEF Has
  <2> QED BY <2>1, <2>2, <2>3
<1>7. ASSUME NEW f, NEW g PROVE Behind(q, f, g) <=> Behind(r, f, g) \/ (Head(q) = f /\ Has(r, g))
  <2>1. ASSUME Behind(q, f, g) PROVE Behind(r, f, g) \/ (Head(q) = f /\ Has(r, g))
    <3>1. PICK i \in 1 .. Len(q), j \in 1 .. Len(q) : i < j /\ q[i] = f /\ q[j] = g
      BY <2>1 DEF Behind
    <3>2. j - 1 \in 1 .. Len(r) /\ r[j - 1] = g
      BY <1>4, <3>1
    <3>3. CASE i = 1
      BY <1>1, <3>1, <3>2, <3>3 DEF Has
    <3>4. CASE i # 1
      <4>1. i - 1 \in 1 .. Len(r) /\ r[i - 1] = f /\ i - 1 < j - 1
        BY <1>4, <3>1, <3>4
      <4> QED BY <3>2, <4>1 DEF Behind
    <3> QED BY <3>3, <3>4
  <2>2. ASSUME Behind(r, f, g) PROVE Behind(q, f, g)
    <3>1. PICK i \in 1 .. Len(r), j \in 1 .. Len(r) : i < j /\ r[i] = f /\ r[j] = g
      BY <2>2 DEF Behind
    <3>2. i + 1 < j + 1
      BY <3>1
    <3> QED BY <1>3, <3>1, <3>2 DEF Behind
  <2>3. ASSUME Head(q) = f, Has(r, g) PROVE Behind(q, f, g)
    <3>1. PICK j \in 1 .. Len(r) : r[j] = g
      BY <2>3 DEF Has
    <3> QED BY <1>1, <1>3, <1>5, <2>3, <3>1 DEF Behind
  <2> QED BY <2>1, <2>2, <2>3
<1>8. Len(r) = Len(q) - 1
  BY <1>1
<1> QED BY <1>1, <1>6, <1>7, <1>8 DEF r

-----------------------------------------------------------------------------
(***************************************************************************)
(* The budget: a write counted, a Close behind the writes, a write taken.  *)
(***************************************************************************)
\* Nothing to take comes to nothing.
LEMMA FitsNothing == Fits(<<>>, 0)
<1> DEFINE total == [i \in 0 .. 0 |-> 0]
<1>1. total \in [0 .. Len(<<>>) -> 0 .. INPUT_CAP]
  BY SshLinkAssumption
<1>2. Adds(total, <<>>) /\ total[Len(<<>>)] = 0
  BY DEF Adds
<1>3. \A i, j \in 0 .. Len(<<>>) : i <= j => total[i] <= total[j]
  OBVIOUS
<1> HIDE DEF total
<1> QED BY <1>1, <1>2, <1>3 DEF Fits

\* A write of k put behind the others adds k.
LEMMA FitsAppend ==
  ASSUME NEW w \in Seq(0 .. 2), NEW n \in Nat, NEW k \in 0 .. 2, Fits(w, n), n + k <= INPUT_CAP
  PROVE  Fits(Append(w, k), n + k)
<1> DEFINE r == Append(w, k)
<1>1. /\ Len(r) = Len(w) + 1 /\ Len(w) \in Nat /\ INPUT_CAP \in Nat
      /\ \A i \in 1 .. Len(w) : r[i] = w[i]
      /\ r[Len(w) + 1] = k
  BY AppendProperties, LenProperties, SshLinkAssumption
<1>2. PICK old \in [0 .. Len(w) -> 0 .. INPUT_CAP] :
        /\ old[0] = 0 /\ \A i \in 1 .. Len(w) : old[i] = old[i - 1] + w[i]
        /\ old[Len(w)] = n
        /\ \A i, j \in 0 .. Len(w) : i <= j => old[i] <= old[j]
  BY DEF Fits, Adds
<1> HIDE DEF r
<1> DEFINE total == [i \in 0 .. Len(r) |-> IF i = Len(r) THEN n + k ELSE old[i]]
<1>3. /\ \A i \in 0 .. Len(w) : total[i] = old[i] /\ old[i] \in 0 .. INPUT_CAP /\ old[i] <= n
      /\ total[Len(r)] = n + k
  BY <1>1, <1>2
<1>4. total \in [0 .. Len(r) -> 0 .. INPUT_CAP]
  BY <1>1, <1>2
<1> HIDE DEF total
<1>5. ASSUME NEW i \in 1 .. Len(r) PROVE total[i] = total[i - 1] + r[i]
  <2>1. CASE i \in 1 .. Len(w)
    BY <1>1, <1>2, <1>3, <2>1
  <2>2. CASE i = Len(w) + 1
    BY <1>1, <1>2, <1>3, <2>2
  <2> QED BY <1>1, <2>1, <2>2
<1>6. total[0] = 0
  BY <1>1, <1>2, <1>3
<1>7. ASSUME NEW i \in 0 .. Len(r), NEW j \in 0 .. Len(r), i <= j
      PROVE  total[i] <= total[j]
  <2>1. CASE j \in 0 .. Len(w)
    BY <1>1, <1>2, <1>3, <1>7, <2>1
  <2>2. CASE j = Len(r) /\ i \in 0 .. Len(w)
    BY <1>1, <1>3, <2>2
  <2>3. CASE j = Len(r) /\ i = Len(r)
    BY <1>3, <2>3
  <2> QED BY <1>1, <1>7, <2>1, <2>2, <2>3
<1> QED BY <1>3, <1>4, <1>5, <1>6, <1>7 DEF Fits, Adds, r

\* The first write taken, the others come to what is left.
LEMMA FitsTail ==
  ASSUME NEW w \in Seq(0 .. 2), w # <<>>, NEW n \in Nat, Fits(w, n)
  PROVE  /\ n - Head(w) \in Nat /\ n - Head(w) <= n
         /\ Fits(Tail(w), n - Head(w))
<1> DEFINE r == Tail(w)
           k == Head(w)
<1>1. /\ Len(w) = Len(r) + 1 /\ Len(r) \in Nat /\ INPUT_CAP \in Nat /\ k \in 0 .. 2 /\ k = w[1]
      /\ \A i \in 1 .. Len(r) : r[i] = w[i + 1]
  BY HeadTailProperties, LenProperties, EmptySeq, SshLinkAssumption
<1>2. PICK old \in [0 .. Len(w) -> 0 .. INPUT_CAP] :
        /\ old[0] = 0 /\ \A i \in 1 .. Len(w) : old[i] = old[i - 1] + w[i]
        /\ old[Len(w)] = n
        /\ \A i, j \in 0 .. Len(w) : i <= j => old[i] <= old[j]
  BY DEF Fits, Adds
<1> HIDE DEF r, k
<1>3. old[1] = k
  <2>1. 1 \in 1 .. Len(w) /\ old[1] = old[1 - 1] + w[1]
    BY <1>1, <1>2
  <2> QED BY <1>1, <1>2, <2>1
<1> DEFINE total == [i \in 0 .. Len(r) |-> old[i + 1] - k]
<1>4. \A i \in 0 .. Len(r) : old[i + 1] \in 0 .. INPUT_CAP /\ k <= old[i + 1] /\ old[i + 1] <= n
  <2> SUFFICES ASSUME NEW i \in 0 .. Len(r)
               PROVE  old[i + 1] \in 0 .. INPUT_CAP /\ k <= old[i + 1] /\ old[i + 1] <= n
    OBVIOUS
  <2>1. i + 1 \in 0 .. Len(w) /\ 1 \in 0 .. Len(w) /\ Len(w) \in 0 .. Len(w) /\ 1 <= i + 1 /\ i + 1 <= Len(w)
    BY <1>1
  <2> QED BY <1>2, <1>3, <2>1
<1>5. total \in [0 .. Len(r) -> 0 .. INPUT_CAP]
  BY <1>1, <1>4
<1>6. \A i \in 0 .. Len(r) : total[i] = old[i + 1] - k
  OBVIOUS
<1> HIDE DEF total
<1>7. total[0] = 0 /\ total[Len(r)] = n - k
  <2>1. 0 \in 0 .. Len(r) /\ Len(r) \in 0 .. Len(r) /\ 0 + 1 = 1
    BY <1>1
  <2>2. total[0] = old[1] - k /\ total[Len(r)] = old[Len(w)] - k
    BY <1>1, <1>6, <2>1
  <2> QED BY <1>1, <1>2, <1>3, <2>2
<1>8. ASSUME NEW i \in 1 .. Len(r) PROVE total[i] = total[i - 1] + r[i]
  <2>1. /\ i \in 0 .. Len(r) /\ i - 1 \in 0 .. Len(r) /\ i + 1 \in 1 .. Len(w)
        /\ (i - 1) + 1 = i /\ (i + 1) - 1 = i
    BY <1>1
  <2>2. total[i] = old[i + 1] - k /\ total[i - 1] = old[i] - k
    BY <1>6, <2>1
  <2>3. old[i + 1] = old[i] + w[i + 1] /\ r[i] = w[i + 1]
    BY <1>1, <1>2, <2>1
  <2>4. w[i + 1] \in 0 .. 2
    BY <2>1, ElementOfSeq
  <2>5. i \in 0 .. Len(w) /\ old[i] \in Int
    BY <1>1, <1>2
  <2> QED BY <1>1, <2>2, <2>3, <2>4, <2>5
<1>9. ASSUME NEW i \in 0 .. Len(r), NEW j \in 0 .. Len(r), i <= j
      PROVE  total[i] <= total[j]
  <2>1. i + 1 \in 0 .. Len(w) /\ j + 1 \in 0 .. Len(w) /\ i + 1 <= j + 1
    BY <1>1, <1>9
  <2>2. old[i + 1] <= old[j + 1]
    BY <1>2, <2>1
  <2> QED BY <1>1, <1>4, <1>6, <2>2
<1>10. n - k \in Nat /\ n - k <= n
  <2>1. Len(r) \in 0 .. Len(r)
    BY <1>1
  <2>2. k <= n
    BY <1>1, <1>2, <1>4, <2>1
  <2> QED BY <1>1, <2>2
<1>11. Fits(r, n - k)
  BY <1>5, <1>7, <1>8, <1>9 DEF Fits, Adds
<1> QED BY <1>10, <1>11 DEF r, k

-----------------------------------------------------------------------------
(***************************************************************************)
(* The question: put on the desk, taken from it to the glass, answered.    *)
(***************************************************************************)
\* Where a question stands on this desk and glass.
Standing(d, p) == {i \in 1 .. Len(d) : d[i] = "question"} \cup (IF p THEN {0} ELSE {})

\* A saying put on the desk is no question; a question is one more.
LEMMA StandingAppend ==
  ASSUME NEW d \in Seq({"say", "question"}), NEW p \in BOOLEAN
  PROVE  /\ Standing(Append(d, "say"), p) = Standing(d, p)
         /\ Standing(d, p) = {} => Standing(Append(d, "question"), p) = {Len(d) + 1}
<1>1. ASSUME NEW e \in {"say", "question"}
      PROVE  /\ Len(Append(d, e)) = Len(d) + 1 /\ Len(d) \in Nat
             /\ \A i \in 1 .. Len(d) : Append(d, e)[i] = d[i]
             /\ Append(d, e)[Len(d) + 1] = e
  BY AppendProperties, LenProperties
<1>2. Standing(Append(d, "say"), p) = Standing(d, p)
  <2> DEFINE r == Append(d, "say")
  <2>1. /\ Len(r) = Len(d) + 1 /\ Len(d) \in Nat
        /\ \A i \in 1 .. Len(d) : r[i] = d[i]
        /\ r[Len(d) + 1] = "say"
    BY <1>1
  <2> HIDE DEF r
  <2>2. {i \in 1 .. Len(r) : r[i] = "question"} = {i \in 1 .. Len(d) : d[i] = "question"}
    BY <2>1
  <2> QED BY <2>2 DEF Standing, r
<1>3. ASSUME Standing(d, p) = {} PROVE Standing(Append(d, "question"), p) = {Len(d) + 1}
  <2> DEFINE r == Append(d, "question")
  <2>1. /\ Len(r) = Len(d) + 1 /\ Len(d) \in Nat
        /\ \A i \in 1 .. Len(d) : r[i] = d[i]
        /\ r[Len(d) + 1] = "question"
    BY <1>1
  <2> HIDE DEF r
  <2>2. ~p /\ \A i \in 1 .. Len(d) : d[i] # "question"
    BY <1>3 DEF Standing
  <2>3. {i \in 1 .. Len(r) : r[i] = "question"} = {Len(d) + 1}
    BY <2>1, <2>2
  <2> QED BY <2>2, <2>3 DEF Standing, r
<1> QED BY <1>2, <1>3

\* The first word of the desk taken: to the glass when it is the question.
LEMMA StandingTail ==
  ASSUME NEW d \in Seq({"say", "question"}), d # <<>>
  PROVE  /\ Standing(d, FALSE) = {} => Standing(Tail(d), Head(d) = "question") = {}
         /\ \A x : Standing(d, FALSE) = {x} =>
              \E y : Standing(Tail(d), Head(d) = "question") = {y}
<1> DEFINE r == Tail(d)
<1>1. /\ Len(d) = Len(r) + 1 /\ Len(r) \in Nat /\ Head(d) = d[1] /\ 1 \in 1 .. Len(d)
      /\ \A i \in 1 .. Len(r) : r[i] = d[i + 1] /\ i + 1 \in 1 .. Len(d) /\ i + 1 # 1
      /\ \A i \in 1 .. Len(d) : i # 1 => i - 1 \in 1 .. Len(r) /\ r[i - 1] = d[i]
  BY HeadTailProperties, LenProperties, EmptySeq
<1> HIDE DEF r
<1>2. ASSUME Standing(d, FALSE) = {} PROVE Standing(r, Head(d) = "question") = {}
  BY <1>1, <1>2 DEF Standing
<1>3. ASSUME NEW x, Standing(d, FALSE) = {x}
      PROVE  \E y : Standing(r, Head(d) = "question") = {y}
  <2>1. x \in 1 .. Len(d) /\ d[x] = "question" /\ \A i \in 1 .. Len(d) : d[i] = "question" => i = x
    BY <1>3 DEF Standing
  <2>2. CASE x = 1
    <3>1. Head(d) = "question" /\ \A i \in 1 .. Len(r) : r[i] # "question"
      BY <1>1, <2>1, <2>2
    <3>2. Standing(r, TRUE) = {0}
      BY <3>1 DEF Standing
    <3> QED BY <3>1, <3>2
  <2>3. CASE x # 1
    <3>1. Head(d) # "question"
      BY <1>1, <2>1, <2>3
    <3>2. x - 1 \in 1 .. Len(r) /\ r[x - 1] = "question"
      BY <1>1, <2>1, <2>3
    <3>3. ASSUME NEW i \in 1 .. Len(r), r[i] = "question" PROVE i = x - 1
      <4>1. i + 1 = x
        BY <1>1, <2>1, <3>3
      <4> QED BY <1>1, <2>1, <4>1
    <3>4. Standing(r, FALSE) = {x - 1}
      BY <3>2, <3>3 DEF Standing
    <3> QED BY <3>1, <3>4
  <2> QED BY <2>2, <2>3
<1> QED BY <1>2, <1>3 DEF r

\* An answer takes the question from the glass, and there was no other.
LEMMA StandingAnswered ==
  ASSUME NEW d \in Seq({"say", "question"}), NEW x, Standing(d, TRUE) = {x}
  PROVE  Standing(d, FALSE) = {}
<1>1. 0 \notin 1 .. Len(d) /\ x = 0
  BY LenProperties DEF Standing
<1> QED BY <1>1 DEF Standing

\* An empty desk and a clear glass hold none.
LEMMA StandingNone == Standing(<<>>, FALSE) = {}
BY DEF Standing

-----------------------------------------------------------------------------
(***************************************************************************)
(* The first channel's authentication: eleven actions, one kind of step.   *)
(***************************************************************************)
\* What a step of it may do to all but its own locals: say a notice, ask, end
\* with an epitaph, or go on to raise.
AuthStep ==
  /\ stage \in Auth /\ script = <<>> /\ ~(waiting /\ answer = "none")
  /\ stage' \in (Auth \ {"connect"}) \cup {"raise", "over"}
  /\ IF stage' = "over" THEN script' \in {Refusal, Farewell} ELSE script' \in {<<>>, Remark}
  /\ conn' = conn \/ (conn = "none" /\ conn' = "up")
  /\ answer' \in Answers \cup {"none"}
  /\ \/ ~waiting' /\ waiting' \in BOOLEAN /\ desk' \in {desk, Append(desk, "say")}
     \/ Asks /\ stage' \in AskStages /\ script' = <<>>
  /\ UNCHANGED <<to, prompt, opens, record, far, taskVars, rowVars>>

\* What it may do to its locals.
AuthLocals ==
  /\ left' \in 0 .. KeyFiles \cup 0 .. Rounds /\ tries' \in 0 .. PASSPHRASE_TRIES
  /\ offered' \subseteq Methods /\ LeftFits'

AuthAction ==
  \/ Connect \/ HostAnswered \/ Probe \/ KeyFile \/ Passphrase \/ Agent \/ Prompted
  \/ Challenge \/ Respond \/ AskPassword \/ Password

\* A word put behind one word, and behind two.
LEMMA TwoWords ==
  ASSUME NEW S, NEW a \in S, NEW b \in S
  PROVE  Append(<<a>>, b) = <<a, b>> /\ Tail(<<a, b>>) = <<b>>
<1> DEFINE q == <<a>>
           r == Append(q, b)
           t == <<a, b>>
<1>1. q \in Seq(S) /\ Len(q) = 1 /\ q[1] = a /\ q # <<>> /\ Tail(q) = <<>>
  OBVIOUS
<1>2. t \in Seq(S) /\ Len(t) = 2 /\ t[1] = a /\ t[2] = b
  OBVIOUS
<1>3. Append(<<>>, b) = <<b>> /\ <<>> \in Seq(S)
  OBVIOUS
<1> HIDE DEF q, t
<1>4. /\ r \in Seq(S) /\ Len(r) = Len(q) + 1 /\ r[Len(q) + 1] = b
      /\ \A i \in 1 .. Len(q) : r[i] = q[i]
  <2>1. r \in Seq(S) /\ Len(r) = Len(q) + 1 /\ r[Len(q) + 1] = b
    BY <1>1, AppendProperties
  <2>2. \A i \in 1 .. Len(q) : r[i] = q[i]
    BY <1>1, AppendProperties
  <2> QED BY <2>1, <2>2
<1>5. Tail(r) = Append(<<>>, b)
  BY <1>1, HeadTailAppend
<1> HIDE DEF r
<1>6. Len(r) = 2 /\ r[1] = a /\ r[2] = b
  BY <1>1, <1>4
<1>7. \A i \in 1 .. Len(r) : r[i] = t[i]
  BY <1>2, <1>6
<1>8. r = t
  BY <1>2, <1>4, <1>6, <1>7, SeqEqual
<1>9. Tail(t) = <<b>>
  BY <1>3, <1>5, <1>8
<1> QED BY <1>8, <1>9 DEF q, r, t

\* The same of a third.
LEMMA ThreeWords ==
  ASSUME NEW S, NEW a \in S, NEW b \in S, NEW c \in S
  PROVE  Append(<<a, b>>, c) = <<a, b, c>> /\ Tail(<<a, b, c>>) = <<b, c>>
<1> DEFINE q == <<a, b>>
           r == Append(q, c)
           t == <<a, b, c>>
<1>1. q \in Seq(S) /\ Len(q) = 2 /\ q[1] = a /\ q[2] = b /\ q # <<>>
  OBVIOUS
<1>2. t \in Seq(S) /\ Len(t) = 3 /\ t[1] = a /\ t[2] = b /\ t[3] = c
  OBVIOUS
<1>3. Append(<<b>>, c) = <<b, c>> /\ Tail(q) = <<b>>
  BY TwoWords
<1> HIDE DEF q, t
<1>4. /\ r \in Seq(S) /\ Len(r) = Len(q) + 1 /\ r[Len(q) + 1] = c
      /\ \A i \in 1 .. Len(q) : r[i] = q[i]
  <2>1. q \in Seq(S)
    BY <1>1
  <2> QED BY ONLY <2>1, c \in S, AppendProperties
<1>5. Tail(r) = Append(Tail(q), c)
  BY <1>1, HeadTailAppend
<1> HIDE DEF r
<1>6. Len(r) = 3 /\ r[1] = a /\ r[2] = b /\ r[3] = c
  BY <1>1, <1>4
<1>7. \A i \in 1 .. Len(r) : r[i] = t[i]
  BY <1>2, <1>6
<1>8. r = t
  BY <1>2, <1>4, <1>6, <1>7, SeqEqual
<1>9. Tail(t) = <<b, c>>
  BY <1>3, <1>5, <1>8
<1> QED BY <1>8, <1>9 DEF q, r, t

\* The words that end an authentication.
LEMMA LastWords ==
  Append(<<"epitaph">>, "eof") = Refusal /\ Append(<<"notice", "epitaph">>, "eof") = Farewell
<1> DEFINE S == {"notice", "epitaph", "eof"}
<1>1. "notice" \in S /\ "epitaph" \in S /\ "eof" \in S
  OBVIOUS
<1> HIDE DEF S
<1> QED BY <1>1, TwoWords, ThreeWords DEF Refusal, Farewell

\* One word after another: each script ends in the next, the last in nothing.
LEMMA Scripts ==
  LET S == {"notice", "epitaph", "eof"} IN
  /\ <<>> \in Seq(S) /\ Remark \in Seq(S) /\ Closing \in Seq(S) /\ Refusal \in Seq(S) /\ Farewell \in Seq(S)
  /\ Remark # <<>> /\ Closing # <<>> /\ Refusal # <<>> /\ Farewell # <<>>
  /\ Remark # Closing /\ Remark # Refusal /\ Remark # Farewell
  /\ Closing # Refusal /\ Closing # Farewell /\ Refusal # Farewell
  /\ Head(Remark) = "notice" /\ Tail(Remark) = <<>>
  /\ Head(Closing) = "eof" /\ Tail(Closing) = <<>>
  /\ Head(Refusal) = "epitaph" /\ Tail(Refusal) = Closing
  /\ Head(Farewell) = "notice" /\ Tail(Farewell) = Refusal
<1> DEFINE S == {"notice", "epitaph", "eof"}
<1>1. /\ Remark \in Seq(S) /\ Len(Remark) = 1 /\ Remark[1] = "notice" /\ Head(Remark) = "notice"
      /\ Tail(Remark) = <<>>
  BY DEF Remark
<1>2. Closing \in Seq(S) /\ Len(Closing) = 1 /\ Closing[1] = "eof" /\ Head(Closing) = "eof" /\ Tail(Closing) = <<>>
  BY DEF Closing
<1>3. Refusal \in Seq(S) /\ Len(Refusal) = 2 /\ Head(Refusal) = "epitaph"
  BY DEF Refusal
<1>4. /\ Farewell \in Seq(S) /\ Len(Farewell) = 3 /\ Head(Farewell) = "notice"
  BY DEF Farewell
<1>5. <<>> \in Seq(S) /\ Len(<<>>) = 0
  OBVIOUS
<1>6. "notice" \in S /\ "epitaph" \in S /\ "eof" \in S
  OBVIOUS
<1> HIDE DEF S
<1>7. Tail(Refusal) = Closing
  BY <1>6, TwoWords DEF Refusal, Closing
<1>8. Tail(Farewell) = Refusal
  BY <1>6, ThreeWords DEF Refusal, Farewell
<1>9. Remark # <<>> /\ Closing # <<>> /\ Refusal # <<>> /\ Farewell # <<>>
  BY <1>1, <1>2, <1>3, <1>4, <1>5
<1>10. /\ Remark # Closing /\ Remark # Refusal /\ Remark # Farewell
       /\ Closing # Refusal /\ Closing # Farewell /\ Refusal # Farewell
  <2>1. Remark # Closing
    BY <1>1, <1>2
  <2>2. Refusal # Farewell
    BY <1>3, <1>4
  <2>4. Refusal # Remark /\ Refusal # Closing
    <3>1. Len(Remark) = 1 /\ Len(Closing) = 1 /\ Len(Refusal) = 2
      BY <1>1, <1>2, <1>3
    <3> QED BY ONLY <3>1
  <2>3. Farewell # Remark /\ Farewell # Closing
    <3>1. Len(Remark) = 1 /\ Len(Closing) = 1 /\ Len(Farewell) = 3
      BY <1>1, <1>2, <1>4
    <3> QED BY ONLY <3>1
  <2> QED BY <2>1, <2>2, <2>3, <2>4
<1> QED BY <1>1, <1>2, <1>3, <1>4, <1>5, <1>7, <1>8, <1>9, <1>10 DEF S

\* Each of the eleven is such a step.
LEMMA AuthIsAStep ==
  ASSUME SshTypeOK, LeftFits, Asked, ScriptFits, LetGo, AuthAction
  PROVE  AuthStep /\ AuthLocals
<1>0. /\ KeyFiles \in Nat /\ Rounds \in Nat /\ PASSPHRASE_TRIES \in Nat
      /\ \A o \in Offers : o \subseteq Methods
  BY SshLinkAssumption DEF Methods
<1>a. /\ left \in 0 .. KeyFiles \cup 0 .. Rounds /\ tries \in 0 .. PASSPHRASE_TRIES
      /\ offered \subseteq Methods /\ waiting \in BOOLEAN /\ answer \in Answers \cup {"none"}
  BY DEF SshTypeOK
<1> USE <1>0, <1>a, LastWords
<1>1. ASSUME Connect PROVE AuthStep /\ AuthLocals
  <2>1. AuthStep
    BY <1>1 DEF Connect, Ends, Does, Says, Asks, askVars, authVars, Awake,
       AuthStep, Auth, AskStages, Asked, ScriptFits, LetGo, Answers, Remark
  <2>2. AuthLocals
    BY <1>1 DEF Connect, Ends, Does, Says, Asks, askVars, authVars, Awake,
       AuthLocals, LeftFits
  <2> QED BY <2>1, <2>2
<1>2. ASSUME HostAnswered PROVE AuthStep /\ AuthLocals
  <2>1. AuthStep
    BY <1>2 DEF HostAnswered, Answered, Ends, Does, Says, Asks, Woken, Elsewhere, farVars, authVars,
       AuthStep, Auth, AskStages, Asked, ScriptFits, LetGo, Answers, Remark
  <2>2. AuthLocals
    BY <1>2 DEF HostAnswered, Answered, Ends, Does, Says, Asks, Woken, Elsewhere, farVars, authVars,
       AuthLocals, LeftFits
  <2> QED BY <2>1, <2>2
<1>3. ASSUME Probe PROVE AuthStep /\ AuthLocals
  <2>1. AuthStep
    BY <1>3 DEF Probe, Awake, Ends, Does, Says, Rejected, askVars, authVars, Elsewhere, farVars,
       AuthStep, Auth, AskStages, Asked, ScriptFits, LetGo, Answers, Remark
  <2>2. AuthLocals
    BY <1>3 DEF Probe, Awake, Ends, Does, Says, Rejected, askVars, authVars, Elsewhere, farVars,
       AuthLocals, LeftFits
  <2> QED BY <2>1, <2>2
<1>4. ASSUME KeyFile PROVE AuthStep /\ AuthLocals
  <2>1. AuthStep
    BY <1>4 DEF KeyFile, Awake, Sign, Accepted, Returns, Rejected, GiveUpFile, NextFile, Asks, Does, Says, askVars, Elsewhere, farVars,
       AuthStep, Auth, AskStages, Asked, ScriptFits, LetGo, Answers, Remark
  <2>2. AuthLocals
    BY <1>4 DEF KeyFile, Awake, Sign, Accepted, Returns, Rejected, GiveUpFile, NextFile, Asks, Does, Says, askVars, Elsewhere, farVars,
       AuthLocals, LeftFits
  <2> QED BY <2>1, <2>2
<1>5. ASSUME Passphrase PROVE AuthStep /\ AuthLocals
  <2>1. AuthStep
    BY <1>5 DEF Passphrase, Answered, Cancelled, Ends, Woken, Sign, Accepted, Returns, Rejected, GiveUpFile, NextFile, Says, authVars, Elsewhere, farVars,
       AuthStep, Auth, AskStages, Asked, ScriptFits, LetGo, Answers, Remark
  <2>2. AuthLocals
    BY <1>5 DEF Passphrase, Answered, Cancelled, Ends, Woken, Sign, Accepted, Returns, Rejected, GiveUpFile, NextFile, Says, authVars, Elsewhere, farVars,
       AuthLocals, LeftFits
  <2> QED BY <2>1, <2>2
<1>6. ASSUME Agent PROVE AuthStep /\ AuthLocals
  <2>1. AuthStep
    BY <1>6 DEF Agent, Awake, Accepted, Returns, Rejected, Says, askVars, Elsewhere, farVars,
       AuthStep, Auth, AskStages, Asked, ScriptFits, LetGo, Answers, Remark
  <2>2. AuthLocals
    BY <1>6 DEF Agent, Awake, Accepted, Returns, Rejected, Says, askVars, Elsewhere, farVars,
       AuthLocals, LeftFits
  <2> QED BY <2>1, <2>2
<1>7. ASSUME Prompted PROVE AuthStep /\ AuthLocals
  <2>1. AuthStep
    BY <1>7 DEF Prompted, Awake, Does, Ends, Says, Returns, askVars, authVars, Elsewhere, farVars,
       AuthStep, Auth, AskStages, Asked, ScriptFits, LetGo, Answers, Remark
  <2>2. AuthLocals
    BY <1>7 DEF Prompted, Awake, Does, Ends, Says, Returns, askVars, authVars, Elsewhere, farVars,
       AuthLocals, LeftFits
  <2> QED BY <2>1, <2>2
<1>8. ASSUME Challenge PROVE AuthStep /\ AuthLocals
  <2>1. AuthStep
    BY <1>8 DEF Challenge, Awake, Accepted, Returns, Rejected, Says, askVars, Elsewhere, farVars,
       AuthStep, Auth, AskStages, Asked, ScriptFits, LetGo, Answers, Remark
  <2>2. AuthLocals
    BY <1>8 DEF Challenge, Awake, Accepted, Returns, Rejected, Says, askVars, Elsewhere, farVars,
       AuthLocals, LeftFits
  <2> QED BY <2>1, <2>2
<1>9. ASSUME Respond PROVE AuthStep /\ AuthLocals
  <2>1. AuthStep
    BY <1>9 DEF Respond, Awake, Answered, Asks, Does, Cancelled, Ends, Says, Returns, Woken, authVars, Elsewhere, farVars,
       AuthStep, Auth, AskStages, Asked, ScriptFits, LetGo, Answers, Remark
  <2>2. AuthLocals
    BY <1>9 DEF Respond, Awake, Answered, Asks, Does, Cancelled, Ends, Says, Returns, Woken, authVars, Elsewhere, farVars,
       AuthLocals, LeftFits
  <2> QED BY <2>1, <2>2
<1>10. ASSUME AskPassword PROVE AuthStep /\ AuthLocals
  <2>1. AuthStep
    BY <1>10 DEF AskPassword, Awake, Asks, Does, Ends, Says, Returns, askVars, Elsewhere, farVars,
       AuthStep, Auth, AskStages, Asked, ScriptFits, LetGo, Answers, Remark
  <2>2. AuthLocals
    BY <1>10 DEF AskPassword, Awake, Asks, Does, Ends, Says, Returns, askVars, Elsewhere, farVars,
       AuthLocals, LeftFits
  <2> QED BY <2>1, <2>2
<1>11. ASSUME Password PROVE AuthStep /\ AuthLocals
  <2>1. AuthStep
    BY <1>11 DEF Password, Answered, Cancelled, Accepted, Ends, Says, Returns, Rejected, Woken, Elsewhere, farVars,
       AuthStep, Auth, AskStages, Asked, ScriptFits, LetGo, Answers, Remark
  <2>2. AuthLocals
    BY <1>11 DEF Password, Answered, Cancelled, Accepted, Ends, Says, Returns, Rejected, Woken, Elsewhere, farVars,
       AuthLocals, LeftFits
  <2> QED BY <2>1, <2>2
<1> QED BY <1>1, <1>2, <1>3, <1>4, <1>5, <1>6, <1>7, <1>8, <1>9, <1>10, <1>11 DEF AuthAction

-----------------------------------------------------------------------------
(***************************************************************************)
(* Types.                                                                  *)
(***************************************************************************)
\* What a send does to the queues.
LEMMA SendQueues ==
  ASSUME queue \in [Chan -> Seq(Events)], \A d \in Chan : Len(queue[d]) <= EVENT_QUEUE,
         NEW c \in Chan, NEW e \in Events, Send(c, e)
  PROVE  /\ queue' \in [Chan -> Seq(Events)] /\ \A d \in Chan : Len(queue'[d]) <= EVENT_QUEUE
         /\ \A d \in Chan : queue'[d] = IF d = c /\ Up(c) THEN Append(queue[c], e) ELSE queue[d]
<1>1. Append(queue[c], e) \in Seq(Events) /\ Len(Append(queue[c], e)) = Len(queue[c]) + 1
  BY HasAppend
<1>2. Len(queue[c]) \in Nat /\ EVENT_QUEUE \in Nat
  BY SshLinkAssumption, LenProperties
<1>3. CASE Up(c)
  <2>1. queue' = [queue EXCEPT ![c] = Append(queue[c], e)] /\ Len(queue[c]) < EVENT_QUEUE
    BY <1>3 DEF Send, CanSend
  <2>2. \A d \in Chan : queue'[d] = IF d = c THEN Append(queue[c], e) ELSE queue[d]
    BY <2>1
  <2>3. queue' \in [Chan -> Seq(Events)]
    BY <1>1, <2>1
  <2> QED BY <1>1, <1>2, <1>3, <2>1, <2>2, <2>3
<1>4. CASE ~Up(c)
  BY <1>4 DEF Send
<1> QED BY <1>3, <1>4

\* What a task's end does to the writes.
LEMMA DropWritesTypes ==
  ASSUME cmds \in [Chan -> Seq(0 .. 2)], DropWrites
  PROVE  /\ cmds' \in [Chan -> Seq(0 .. 2)]
         /\ \A d \in Chan : cmds'[d] = IF task'[d] = "gone" THEN <<>> ELSE cmds[d]
<1>1. <<>> \in Seq(0 .. 2)
  BY EmptySeq
<1> QED BY <1>1 DEF DropWrites

\* What rows gone take with them.
LEMMA DropsTypes ==
  ASSUME SshTypeOK, NEW gone \in SUBSET Chan, Drops(gone)
  PROVE  /\ row' \in [Chan -> [slot : Slot \cup {0}, lived : BOOLEAN, lost : BOOLEAN,
                               told : BOOLEAN, ended : BOOLEAN]]
         /\ queue' \in [Chan -> Seq(Events)] /\ \A d \in Chan : Len(queue'[d]) <= EVENT_QUEUE
         /\ cmds' \in [Chan -> Seq(0 .. 2)]
         /\ \A d \in Chan :
              /\ row'[d] = IF d \in gone THEN NoRow ELSE row[d]
              /\ queue'[d] = IF d \in gone THEN <<>> ELSE queue[d]
              /\ cmds'[d] = IF d \in gone /\ task[d] # "gone" THEN Append(cmds[d], Close)
                            ELSE cmds[d]
<1>1. <<>> \in Seq(Events) /\ Len(<<>>) = 0 /\ EVENT_QUEUE \in Nat
  BY EmptySeq, SshLinkAssumption
<1>2. \A d \in Chan : Append(cmds[d], Close) \in Seq(0 .. 2)
  BY AppendProperties DEF SshTypeOK, Close
<1>3. NoRow \in [slot : Slot \cup {0}, lived : BOOLEAN, lost : BOOLEAN, told : BOOLEAN, ended : BOOLEAN]
  BY DEF NoRow
<1> QED BY <1>1, <1>2, <1>3 DEF SshTypeOK, Drops

\* Where the pump goes next: past where it was, over rows that have ended.
LEMMA AfterProperties ==
  ASSUME SshTypeOK, NEW c \in 0 .. Channels
  PROVE  /\ After(c) \in 1 .. Sweeping /\ After(c) > c
         /\ \A d \in Rows : c < d /\ d < After(c) => row[d].ended
         /\ After(c) \in Chan => After(c) \in Rows /\ ~row[After(c)].ended
<1> DEFINE S == {Sweeping} \cup {d \in Rows : d > c /\ ~row[d].ended}
<1>1. Channels \in Nat /\ Sweeping = Channels + 1 /\ Chan = 1 .. Channels
  BY SshLinkAssumption DEF Sweeping, Chan
<1>2. S \subseteq 1 .. Sweeping /\ Sweeping \in S /\ \A d \in S : d > c
  BY <1>1 DEF Rows
<1> HIDE DEF S
<1>3. \E x \in S : \A y \in S : x <= y
  <2>1. S \subseteq Nat /\ S # {}
    BY <1>1, <1>2
  <2> QED BY <2>1, LeastNat
<1>4. Min(S) \in S /\ \A y \in S : Min(S) <= y
  BY <1>3 DEF Min
<1>5. After(c) = Min(S)
  BY DEF After, S
<1>6. ASSUME NEW d \in Rows, c < d, d < After(c), ~row[d].ended PROVE FALSE
  <2>1. d \in Nat /\ c \in Nat
    BY <1>1 DEF Rows
  <2>2. d \in S
    BY <1>6, <2>1 DEF S
  <2>3. Min(S) <= d /\ Min(S) \in 1 .. Sweeping
    BY <1>2, <1>4, <2>2
  <2>4. After(c) <= d /\ After(c) \in Nat
    BY <1>1, <1>5, <2>3
  <2> QED BY <1>6, <2>1, <2>4
<1>7. After(c) \in Chan => After(c) \in Rows /\ ~row[After(c)].ended
  <2>1. Sweeping \notin Chan
    BY <1>1
  <2> QED BY <1>4, <1>5, <2>1 DEF S
<1> QED BY <1>1, <1>2, <1>4, <1>5, <1>6, <1>7

-----------------------------------------------------------------------------
\* Every step keeps the types.
LEMMA TypesKept ==
  ASSUME LinkInv, Next
  PROVE  SshTypeOK'
<1> USE DEF LinkInv
<1>0. /\ Channels \in Nat \ {0} /\ Chan = 1 .. Channels /\ Slot = 1 .. Channels
      /\ Sweeping = Channels + 1 /\ AtDesk = Channels + 2 /\ 1 \in Chan
  BY SshLinkAssumption DEF Chan, Slot, Sweeping, AtDesk
<1>1. CASE AuthAction
  <2>1. AuthStep /\ AuthLocals
    BY <1>1, AuthIsAStep
  <2>2. script' \in Seq({"notice", "epitaph", "eof"})
    BY <2>1, Scripts DEF AuthStep
  <2>3. stage' \in Stages
    BY <2>1 DEF AuthStep, Auth, Stages
  <2>4. waiting' \in BOOLEAN /\ desk' \in Seq({"say", "question"})
    <3>1. /\ desk \in Seq({"say", "question"}) /\ Append(desk, "say") \in Seq({"say", "question"})
          /\ Append(desk, "question") \in Seq({"say", "question"})
      BY AppendProperties DEF SshTypeOK
    <3>2. desk' \in {desk, Append(desk, "say"), Append(desk, "question")} /\ waiting' \in BOOLEAN
      BY <2>1 DEF AuthStep, Asks
    <3> QED BY <3>1, <3>2
  <2> QED BY <2>1, <2>2, <2>3, <2>4 DEF AuthStep, AuthLocals, SshTypeOK, taskVars, rowVars
<1>2. CASE SupSend
  <2>1. script # <<>> /\ Head(script) \in Events /\ Tail(script) \in Seq({"notice", "epitaph", "eof"})
    BY <1>2, HeadTailProperties DEF SupSend, SshTypeOK, Events
  <2>2. queue' \in [Chan -> Seq(Events)] /\ \A d \in Chan : Len(queue'[d]) <= EVENT_QUEUE
    BY <1>2, <2>1, SendQueues DEF SupSend, SshTypeOK
  <2>3. cmds' \in [Chan -> Seq(0 .. 2)]
    BY <1>2, DropWritesTypes DEF SupSend, SshTypeOK
  <2>4. task' \in [Chan -> {"none", "queued", "driving", "holding", "saying", "ending", "gone"}]
    BY <1>2 DEF SupSend, SshTypeOK
  <2>5. opens' \in Seq(Chan)
    BY <1>2, EmptySeq DEF SupSend, SshTypeOK
  <2> QED BY <1>2, <2>1, <2>2, <2>3, <2>4, <2>5 DEF SupSend, SshTypeOK, authVars, askVars, farVars, rowVars
<1>3. CASE Raise
  <2>1. script' \in Seq({"notice", "epitaph", "eof"})
    BY <1>3, Scripts DEF Raise, Does, Says, Refusal, SshTypeOK
  <2>2. task' \in [Chan -> {"none", "queued", "driving", "holding", "saying", "ending", "gone"}]
    BY <1>3 DEF Raise, SshTypeOK
  <2> QED BY <1>3, <2>1, <2>2 DEF Raise, Does, Says, Stages, SshTypeOK, authVars, askVars, farVars, rowVars
<1>4. CASE Serve
  <2>1. opens' \in Seq(Chan) /\ to' \in Chan
    <3>1. CASE opens # <<>>
      <4>1. Tail(opens) \in Seq(Chan) /\ Head(opens) \in Chan
        BY <3>1, HeadTailProperties DEF SshTypeOK
      <4> QED BY <1>4, <3>1, <4>1 DEF Serve
    <3>2. CASE opens = <<>>
      BY <1>4, <3>2 DEF Serve, Does, SshTypeOK
    <3> QED BY <3>1, <3>2
  <2> QED BY <1>4, <2>1 DEF Serve, Does, Stages, SshTypeOK, authVars, askVars, farVars, rowVars
<1>5. CASE HangUp
  BY <1>5 DEF HangUp, Does, Stages, SshTypeOK, authVars, askVars, taskVars, rowVars
<1>6. CASE Leave
  <2>1. cmds' \in [Chan -> Seq(0 .. 2)]
    BY <1>6, DropWritesTypes DEF Leave, SshTypeOK
  <2> QED BY <1>6, <2>1 DEF Leave, Does, Stages, SshTypeOK, authVars, askVars, farVars, rowVars
<1>7. ASSUME NEW c \in Chan, TakeWrite(c) PROVE SshTypeOK'
  <2>1. cmds[c] \in Seq(0 .. 2) /\ cmds[c] # <<>> /\ queued[c] \in Nat /\ task[c] # "gone"
    BY <1>7 DEF TakeWrite, SshTypeOK
  <2>2. Tail(cmds[c]) \in Seq(0 .. 2) /\ queued[c] - Head(cmds[c]) \in Nat
    BY <2>1, HeadTailProperties, FitsTail DEF InBudget
  <2>3. cmds' \in [Chan -> Seq(0 .. 2)] /\ queued' \in [Chan -> Nat]
    BY <1>7, <2>2 DEF TakeWrite, SshTypeOK
  <2>4. task' \in [Chan -> {"none", "queued", "driving", "holding", "saying", "ending", "gone"}]
    BY <1>7 DEF TakeWrite, Ending, Lost, SshTypeOK
  <2> QED BY <1>7, <2>3, <2>4 DEF TakeWrite, SshTypeOK, wordVars, authVars, askVars, farVars, rowVars
<1>8. ASSUME NEW c \in Chan, TakeMessage(c) PROVE SshTypeOK'
  <2>1. task' \in [Chan -> {"none", "queued", "driving", "holding", "saying", "ending", "gone"}]
    BY <1>8 DEF TakeMessage, Ending, Lost, SshTypeOK
  <2> QED BY <1>8, <2>1 DEF TakeMessage, SshTypeOK, wordVars, authVars, askVars, farVars, rowVars
<1>9. ASSUME NEW c \in Chan, HandOver(c) PROVE SshTypeOK'
  <2>1. far[c] # <<>> /\ Head(far[c]) = "data"
    BY <1>9 DEF HandOver, Honest, OnTask
  <2>2. far' \in [Chan -> Seq({"data", "close"})]
    BY <1>9, <2>1, HeadTailProperties DEF HandOver, SshTypeOK
  <2>3. queue' \in [Chan -> Seq(Events)] /\ \A d \in Chan : Len(queue'[d]) <= EVENT_QUEUE
    BY <1>9, <2>1, SendQueues DEF HandOver, SshTypeOK, Events
  <2>4. task' \in [Chan -> {"none", "queued", "driving", "holding", "saying", "ending", "gone"}]
    BY <1>9 DEF HandOver, SshTypeOK
  <2> QED BY <1>9, <2>2, <2>3, <2>4 DEF HandOver, SshTypeOK, wordVars, authVars, askVars, rowVars
<1>10. ASSUME NEW c \in Chan, TaskEnds(c) PROVE SshTypeOK'
  <2>1. queue' \in [Chan -> Seq(Events)] /\ \A d \in Chan : Len(queue'[d]) <= EVENT_QUEUE
    BY <1>10, SendQueues DEF TaskEnds, SshTypeOK, Events
  <2>2. cmds' \in [Chan -> Seq(0 .. 2)]
    BY <1>10, DropWritesTypes DEF TaskEnds, SshTypeOK
  <2>3. task' \in [Chan -> {"none", "queued", "driving", "holding", "saying", "ending", "gone"}]
    BY <1>10 DEF TaskEnds, Ending, SshTypeOK
  <2> QED BY <1>10, <2>1, <2>2, <2>3 DEF TaskEnds, SshTypeOK, wordVars, authVars, askVars, farVars, rowVars
<1>11. ASSUME NEW c \in Chan, FarSends(c) PROVE SshTypeOK'
  <2>1. far' \in [Chan -> Seq({"data", "close"})]
    BY <1>11, AppendProperties DEF FarSends, SshTypeOK
  <2>2. moved' \in 0 .. Traffic
    BY <1>11, SshLinkAssumption DEF FarSends, SshTypeOK
  <2> QED BY <1>11, <2>1, <2>2 DEF FarSends, SshTypeOK, wordVars, authVars, askVars, taskVars
<1>12. CASE ConnDies
  BY <1>12 DEF ConnDies, SshTypeOK, wordVars, authVars, askVars, taskVars, rowVars
<1>13. CASE PumpStart
  <2>1. pump' \in 0 .. AtDesk
    BY <1>0, <1>13, AfterProperties DEF PumpStart
  <2> QED BY <1>13, <2>1 DEF PumpStart, SshTypeOK, wordVars, authVars, askVars, farVars, taskVars
<1>14. ASSUME NEW c \in Chan, PumpRow(c) PROVE SshTypeOK'
  <2>1. pump' \in 0 .. AtDesk
    <3>1. After(c) \in 0 .. AtDesk
      BY <1>0, AfterProperties
    <3> QED BY <1>14, <3>1 DEF PumpRow, SshTypeOK
  <2>2. queue' \in [Chan -> Seq(Events)] /\ \A d \in Chan : Len(queue'[d]) <= EVENT_QUEUE
    <3>1. CASE queue[c] = <<>>
      BY <1>14, <3>1 DEF PumpRow, SshTypeOK
    <3>2. CASE queue[c] # <<>>
      <4>1. queue' = [queue EXCEPT ![c] = Tail(queue[c])]
        BY <1>14, <3>2 DEF PumpRow
      <4>2. Tail(queue[c]) \in Seq(Events) /\ Len(Tail(queue[c])) = Len(queue[c]) - 1
        BY <3>2, HeadTailProperties DEF SshTypeOK
      <4>3. Len(queue[c]) \in Nat /\ Len(queue[c]) <= EVENT_QUEUE /\ EVENT_QUEUE \in Nat
        BY LenProperties, SshLinkAssumption DEF SshTypeOK
      <4>4. queue \in [Chan -> Seq(Events)] /\ \A d \in Chan : Len(queue[d]) <= EVENT_QUEUE
        BY DEF SshTypeOK
      <4>5. queue' \in [Chan -> Seq(Events)] /\ \A d \in Chan : queue'[d] = IF d = c THEN Tail(queue[c]) ELSE queue[d]
        BY <4>1, <4>2, <4>4
      <4>6. Len(Tail(queue[c])) <= EVENT_QUEUE
        BY <4>2, <4>3
      <4>7. ASSUME NEW d \in Chan PROVE Len(queue'[d]) <= EVENT_QUEUE
        <5>1. CASE d = c
          BY <4>5, <4>6, <5>1
        <5>2. CASE d # c
          BY <4>4, <4>5, <5>2
        <5> QED BY <5>1, <5>2
      <4> QED BY <4>5, <4>7
    <3> QED BY <3>1, <3>2
  <2>3. row' \in [Chan -> [slot : Slot \cup {0}, lived : BOOLEAN, lost : BOOLEAN,
                         told : BOOLEAN, ended : BOOLEAN]]
    <3>1. row[c] \in [slot : Slot \cup {0}, lived : BOOLEAN, lost : BOOLEAN, told : BOOLEAN, ended : BOOLEAN]
      BY DEF SshTypeOK
    <3>2. \/ UNCHANGED row \/ Ended(c) \/ row' = [row EXCEPT ![c].lived = TRUE] \/ Speaks(c)
      BY <1>14 DEF PumpRow
    <3>3. CASE Speaks(c)
      <4>1. (row[c].lost \/ row[c].lived) \in BOOLEAN /\ (row[c].told \/ Head(queue[c]) = "epitaph") \in BOOLEAN
        BY <3>1
      <4> QED BY <3>1, <3>3, <4>1 DEF Speaks, SshTypeOK
    <3>4. CASE Ended(c)
      BY <3>1, <3>4 DEF Ended, SshTypeOK
    <3>5. CASE row' = [row EXCEPT ![c].lived = TRUE]
      BY <3>1, <3>5 DEF SshTypeOK
    <3>6. CASE UNCHANGED row
      BY <3>6 DEF SshTypeOK
    <3> QED BY <3>2, <3>3, <3>4, <3>5, <3>6
  <2> QED BY <1>14, <2>1, <2>2, <2>3 DEF PumpRow, SshTypeOK, wordVars, authVars, askVars, farVars
<1>15. CASE PumpSweep
  <2>1. Died \in SUBSET Chan
    BY DEF Died, Rows
  <2>2. /\ row' \in [Chan -> [slot : Slot \cup {0}, lived : BOOLEAN, lost : BOOLEAN,
                            told : BOOLEAN, ended : BOOLEAN]]
        /\ queue' \in [Chan -> Seq(Events)] /\ \A d \in Chan : Len(queue'[d]) <= EVENT_QUEUE
        /\ cmds' \in [Chan -> Seq(0 .. 2)]
    BY <1>15, <2>1, DropsTypes DEF PumpSweep
  <2>3. /\ record' \in BOOLEAN /\ desk' \in Seq({"say", "question"}) /\ prompt' \in BOOLEAN
        /\ answer' \in Answers \cup {"none"}
    BY <1>15, EmptySeq DEF PumpSweep, DropRecord, SshTypeOK, Answers
  <2>4. pump' \in 0 .. AtDesk
    BY <1>0, <1>15 DEF PumpSweep
  <2> QED BY <1>15, <2>2, <2>3, <2>4 DEF PumpSweep, SshTypeOK, wordVars, authVars, farVars
<1>16. CASE PumpAsks
  <2>1. desk' \in Seq({"say", "question"}) /\ prompt' \in BOOLEAN
    <3>1. CASE prompt \/ desk = <<>>
      BY <1>16, <3>1 DEF PumpAsks, SshTypeOK
    <3>2. CASE ~(prompt \/ desk = <<>>)
      <4>1. desk' = Tail(desk) /\ prompt' = (Head(desk) = "question")
        BY <1>16, <3>2 DEF PumpAsks
      <4>2. Tail(desk) \in Seq({"say", "question"}) /\ (Head(desk) = "question") \in BOOLEAN
        BY <3>2, HeadTailProperties DEF SshTypeOK
      <4> QED BY <4>1, <4>2
    <3> QED BY <3>1, <3>2
  <2>2. pump' \in 0 .. AtDesk
    <3>1. pump \in 0 .. AtDesk /\ 0 \in 0 .. AtDesk
      BY <1>0 DEF SshTypeOK
    <3>2. pump' = 0 \/ pump' = pump
      BY <1>16 DEF PumpAsks
    <3> QED BY <3>1, <3>2
  <2> QED BY <1>16, <2>1, <2>2 DEF PumpAsks, SshTypeOK, wordVars, authVars, farVars, taskVars
<1>17. CASE PromptKey
  BY <1>17 DEF PromptKey, Answers, SshTypeOK, wordVars, authVars, farVars, taskVars, rowVars
<1>18. ASSUME NEW c \in Chan, Type(c) PROVE SshTypeOK'
  <2>1. PICK n \in 1 .. 2 :
          /\ queued' = [queued EXCEPT ![c] = @ + n]
          /\ cmds' = IF task[c] = "gone" THEN cmds ELSE [cmds EXCEPT ![c] = Append(@, n)]
    BY <1>18 DEF Type
  <2>2. Append(cmds[c], n) \in Seq(0 .. 2)
    BY AppendProperties DEF SshTypeOK
  <2>3. cmds' \in [Chan -> Seq(0 .. 2)] /\ queued' \in [Chan -> Nat]
    <3>1. cmds \in [Chan -> Seq(0 .. 2)] /\ queued \in [Chan -> Nat]
      BY DEF SshTypeOK
    <3>2. queued[c] + n \in Nat
      BY <3>1
    <3>3. queued' \in [Chan -> Nat]
      BY <2>1, <3>1, <3>2
    <3>4. CASE task[c] = "gone"
      BY <2>1, <3>1, <3>3, <3>4
    <3>5. CASE task[c] # "gone"
      <4>1. cmds' = [cmds EXCEPT ![c] = Append(cmds[c], n)]
        BY <2>1, <3>5
      <4> QED BY <2>2, <3>1, <3>3, <4>1
    <3> QED BY <3>4, <3>5
  <2>4. moved' \in 0 .. Traffic
    BY <1>18, SshLinkAssumption DEF Type, SshTypeOK
  <2> QED BY <1>18, <2>3, <2>4 DEF Type, SshTypeOK, wordVars, authVars, askVars, farVars
<1>19. ASSUME NEW c \in Chan, CloseRow(c) PROVE SshTypeOK'
  <2>1. /\ row' \in [Chan -> [slot : Slot \cup {0}, lived : BOOLEAN, lost : BOOLEAN,
                            told : BOOLEAN, ended : BOOLEAN]]
        /\ queue' \in [Chan -> Seq(Events)] /\ \A d \in Chan : Len(queue'[d]) <= EVENT_QUEUE
        /\ cmds' \in [Chan -> Seq(0 .. 2)]
    BY <1>19, DropsTypes DEF CloseRow
  <2> QED BY <1>19, <2>1 DEF CloseRow, SshTypeOK, wordVars, authVars, askVars, farVars
<1>20. ASSUME NEW c \in Chan, NEW s \in Slot, Store(c, s) PROVE SshTypeOK'
  <2>1. row' \in [Chan -> [slot : Slot \cup {0}, lived : BOOLEAN, lost : BOOLEAN,
                         told : BOOLEAN, ended : BOOLEAN]]
    BY <1>20 DEF Store, SshTypeOK
  <2> QED BY <1>20, <2>1 DEF Store, SshTypeOK, wordVars, authVars, askVars, farVars, taskVars
<1>21. CASE Detach
  BY <1>21, EmptySeq DEF Detach, DropRecord, Answers, SshTypeOK, wordVars, authVars, farVars, taskVars, rowVars
<1>22. ASSUME NEW s \in Slot, OpenChannel(s) PROVE SshTypeOK'
  <2>1. PICK c \in Chan : /\ task' = [task EXCEPT ![c] = "queued"]
                          /\ row' = [row EXCEPT ![c] = NewRow(s)] /\ opens' = Append(opens, c)
    BY <1>22 DEF OpenChannel
  <2>2. opens' \in Seq(Chan)
    BY <2>1, AppendProperties DEF SshTypeOK
  <2>3. NewRow(s) \in [slot : Slot \cup {0}, lived : BOOLEAN, lost : BOOLEAN, told : BOOLEAN, ended : BOOLEAN]
    BY DEF NewRow, NoRow
  <2>4. row' \in [Chan -> [slot : Slot \cup {0}, lived : BOOLEAN, lost : BOOLEAN,
                         told : BOOLEAN, ended : BOOLEAN]]
    BY <2>1, <2>3 DEF SshTypeOK
  <2>5. task' \in [Chan -> {"none", "queued", "driving", "holding", "saying", "ending", "gone"}]
    BY <2>1 DEF SshTypeOK
  <2> QED BY <1>22, <2>2, <2>4, <2>5 DEF OpenChannel, SshTypeOK, wordVars, authVars, askVars, farVars
<1> QED
  BY <1>1, <1>2, <1>3, <1>4, <1>5, <1>6, <1>7, <1>8, <1>9, <1>10, <1>11, <1>12, <1>13, <1>14,
     <1>15, <1>16, <1>17, <1>18, <1>19, <1>20, <1>21, <1>22
     DEF Next, Supervisor, Window, Person, ChannelTask, AuthAction

-----------------------------------------------------------------------------
(***************************************************************************)
(* The supervisor's parts: its locals, the question, its words, its turns. *)
(***************************************************************************)
\* The steps that are the supervisor's own, and those that leave its stage and
\* words and the question alone.
TaskStep == \E c \in Chan : TakeWrite(c) \/ TakeMessage(c) \/ HandOver(c) \/ TaskEnds(c) \/ FarSends(c)
RowStep  == PumpStart \/ \E c \in Chan : PumpRow(c) \/ Type(c) \/ CloseRow(c) \/ \E s \in Slot : Store(c, s)
Opening  == \E s \in Slot : OpenChannel(s)

\* Next is these.
LEMMA StepKinds ==
  ASSUME Next
  PROVE  \/ AuthAction \/ SupSend \/ Raise \/ Serve \/ HangUp \/ Leave \/ TaskStep \/ ConnDies
         \/ RowStep \/ PumpSweep \/ PumpAsks \/ PromptKey \/ Detach \/ Opening
BY DEF Next, Supervisor, Window, Person, ChannelTask, AuthAction, TaskStep, RowStep, Opening

\* What tasks, rows and openings leave alone.
LEMMA QuietSteps ==
  ASSUME TaskStep \/ RowStep \/ Opening \/ ConnDies
  PROVE  UNCHANGED <<stage, script, to, left, tries, offered, waiting, answer, desk, prompt, record, hanging>>
<1>1. ASSUME NEW c \in Chan, TakeWrite(c) \/ TakeMessage(c) \/ HandOver(c) \/ TaskEnds(c) \/ FarSends(c)
      PROVE  UNCHANGED <<stage, script, to, left, tries, offered, waiting, answer, desk, prompt, record, hanging>>
  BY <1>1 DEF TakeWrite, TakeMessage, HandOver, TaskEnds, FarSends, wordVars, authVars, askVars, taskVars
<1>2. ASSUME NEW c \in Chan, NEW s \in Slot, PumpRow(c) \/ Type(c) \/ CloseRow(c) \/ Store(c, s)
      PROVE  UNCHANGED <<stage, script, to, left, tries, offered, waiting, answer, desk, prompt, record, hanging>>
  BY <1>2 DEF PumpRow, Type, CloseRow, Store, wordVars, authVars, askVars, taskVars
<1>3. ASSUME PumpStart \/ ConnDies
      PROVE  UNCHANGED <<stage, script, to, left, tries, offered, waiting, answer, desk, prompt, record, hanging>>
  BY <1>3 DEF PumpStart, ConnDies, wordVars, authVars, askVars, taskVars
<1>4. ASSUME NEW s \in Slot, OpenChannel(s)
      PROVE  UNCHANGED <<stage, script, to, left, tries, offered, waiting, answer, desk, prompt, record, hanging>>
  BY <1>4 DEF OpenChannel, wordVars, authVars, askVars
<1>5. 1 \in Slot
  BY SshLinkAssumption DEF Slot
<1> QED BY <1>1, <1>2, <1>3, <1>4, <1>5 DEF TaskStep, RowStep, Opening

\* What is left to try keeps to the stage.
LEMMA LeftKept ==
  ASSUME LinkInv, Next
  PROVE  LeftFits'
<1>1. CASE AuthAction
  BY <1>1, AuthIsAStep DEF LinkInv, AuthLocals
<1>2. CASE UNCHANGED <<stage, left>>
  BY <1>2 DEF LinkInv, LeftFits
<1>3. CASE stage' \in {"raise", "serve", "hanging", "leaving", "over"}
  BY <1>3 DEF LeftFits
<1>4. CASE SupSend \/ PumpSweep \/ PumpAsks \/ PromptKey \/ Detach
  <2>1. UNCHANGED <<stage, left>>
    BY <1>4 DEF SupSend, PumpSweep, PumpAsks, PromptKey, Detach, wordVars, authVars
  <2> QED BY <1>2, <2>1
<1>5. CASE Raise \/ Serve \/ HangUp \/ Leave
  <2>1. stage' \in {"raise", "serve", "hanging", "leaving", "over"}
    BY <1>5 DEF Raise, Serve, HangUp, Leave, Does, Says
  <2> QED BY <1>3, <2>1
<1> QED BY <1>1, <1>2, <1>4, <1>5, StepKinds, QuietSteps

\* Where a question stands, in the words of Standing.
LEMMA HeldOnce ==
  /\ QuestionHeldOnce <=> IF waiting /\ answer = "none" THEN \E x : Standing(desk, prompt) = {x}
                          ELSE Standing(desk, prompt) = {}
  /\ QuestionHeldOnce' <=> IF waiting' /\ answer' = "none" THEN \E x : Standing(desk', prompt') = {x}
                           ELSE Standing(desk', prompt') = {}
<1>1. Places = Standing(desk, prompt) /\ Places' = Standing(desk', prompt')
  BY DEF Places, Standing
<1>2. \A T : (\E x \in T : T = {x}) <=> (\E x : T = {x})
  OBVIOUS
<1> QED BY <1>1, <1>2 DEF QuestionHeldOnce

\* A question is held once after every step.
LEMMA AskedKept ==
  ASSUME LinkInv, Next
  PROVE  Asked'
<1> DEFINE Held(w, a, d, p) == IF w /\ a = "none" THEN \E x : Standing(d, p) = {x}
                               ELSE Standing(d, p) = {}
<1>0. /\ desk \in Seq({"say", "question"}) /\ prompt \in BOOLEAN /\ waiting \in BOOLEAN
      /\ answer \in Answers \cup {"none"}
  BY DEF LinkInv, SshTypeOK
<1>1. Held(waiting, answer, desk, prompt) /\ (waiting => stage \in AskStages /\ script = <<>>)
  BY HeldOnce DEF LinkInv, Asked
<1>2. SUFFICES /\ Held(waiting', answer', desk', prompt')
               /\ waiting' => stage' \in AskStages /\ script' = <<>>
  BY HeldOnce DEF Asked
<1>3. CASE UNCHANGED <<stage, script, waiting, answer, desk, prompt>>
  BY <1>1, <1>3
<1>4. CASE AuthAction
  <2>1. AuthStep
    BY <1>4, AuthIsAStep DEF LinkInv
  <2>2. Standing(desk, prompt) = {} /\ UNCHANGED prompt
    BY <1>1, <2>1 DEF AuthStep
  <2>3. CASE ~waiting' /\ desk' \in {desk, Append(desk, "say")}
    <3>1. Standing(desk', prompt) = {}
      BY <1>0, <2>2, <2>3, StandingAppend
    <3> QED BY <2>2, <2>3, <3>1
  <2>4. CASE Asks /\ stage' \in AskStages /\ script' = <<>>
    <3>1. CASE record
      <4>1. waiting' = TRUE /\ answer' = "none" /\ desk' = Append(desk, "question")
        BY <2>4, <3>1 DEF Asks
      <4>2. Standing(desk', prompt') = {Len(desk) + 1}
        BY <1>0, <2>2, <4>1, StandingAppend
      <4> QED BY <2>4, <4>1, <4>2
    <3>2. CASE ~record
      <4>1. answer' = "cancel" /\ desk' = desk
        BY <2>4, <3>2 DEF Asks
      <4> QED BY <2>2, <2>4, <4>1
    <3> QED BY <3>1, <3>2
  <2> QED BY <2>1, <2>3, <2>4 DEF AuthStep
<1>5. CASE SupSend
  <2>1. script # <<>> /\ UNCHANGED <<stage, waiting, answer, desk, prompt>>
    BY <1>5 DEF SupSend, askVars
  <2> QED BY <1>1, <2>1
<1>6. CASE Raise \/ Serve \/ HangUp \/ Leave
  <2>1. stage \notin AskStages /\ UNCHANGED <<waiting, answer, desk, prompt>>
    BY <1>6 DEF Raise, Serve, HangUp, Leave, AskStages, askVars
  <2> QED BY <1>1, <2>1
<1>7. CASE PumpSweep \/ Detach
  <2>1. UNCHANGED <<stage, script, waiting>>
    BY <1>7 DEF PumpSweep, Detach, wordVars
  <2>2. DropRecord \/ UNCHANGED <<desk, prompt, answer>>
    BY <1>7 DEF PumpSweep, Detach
  <2>3. CASE DropRecord
    <3>1. desk' = <<>> /\ prompt' = FALSE /\ ~(waiting /\ answer' = "none")
      BY <2>3 DEF DropRecord
    <3> QED BY <1>1, <2>1, <3>1, StandingNone
  <2> QED BY <1>3, <2>1, <2>2, <2>3
<1>8. CASE PumpAsks
  <2>1. UNCHANGED <<stage, script, waiting, answer>>
    BY <1>8 DEF PumpAsks, wordVars
  <2>2. CASE prompt \/ desk = <<>>
    <3>1. UNCHANGED <<desk, prompt>>
      BY <1>8, <2>2 DEF PumpAsks
    <3> QED BY <1>3, <2>1, <3>1
  <2>3. CASE ~(prompt \/ desk = <<>>)
    <3>1. desk' = Tail(desk) /\ prompt' = (Head(desk) = "question") /\ prompt = FALSE
      BY <1>0, <1>8, <2>3 DEF PumpAsks
    <3>2. /\ Standing(desk, prompt) = {} => Standing(desk', prompt') = {}
          /\ \A x : Standing(desk, prompt) = {x} => \E y : Standing(desk', prompt') = {y}
      BY <1>0, <2>3, <3>1, StandingTail
    <3> QED BY <1>1, <2>1, <3>2
  <2> QED BY <2>2, <2>3
<1>9. CASE PromptKey
  <2>1. prompt = TRUE /\ prompt' = FALSE /\ answer' # "none" /\ UNCHANGED <<stage, script, waiting, desk>>
    BY <1>0, <1>9 DEF PromptKey, Answers, wordVars
  <2>2. Standing(desk, TRUE) # {}
    BY DEF Standing
  <2>3. Standing(desk, FALSE) = {}
    BY <1>0, <1>1, <2>1, <2>2, StandingAnswered
  <2> QED BY <1>1, <2>1, <2>3
<1> QED BY <1>3, <1>4, <1>5, <1>6, <1>7, <1>8, <1>9, StepKinds, QuietSteps

\* The supervisor's words keep to its stage.
LEMMA ScriptKept ==
  ASSUME LinkInv, Next
  PROVE  ScriptFits'
<1>1. CASE UNCHANGED <<stage, script>>
  BY <1>1 DEF LinkInv, ScriptFits
<1>2. CASE AuthAction
  <2>1. AuthStep
    BY <1>2, AuthIsAStep DEF LinkInv
  <2> QED BY <2>1 DEF AuthStep, ScriptFits, Auth
<1>3. CASE SupSend
  <2>1. script # <<>> /\ script' = Tail(script) /\ stage' = stage
    BY <1>3 DEF SupSend
  <2> QED BY <2>1, Scripts DEF LinkInv, ScriptFits
<1>4. CASE Raise
  <2>1. script' \in {<<>>, Refusal} /\ stage' = "serve"
    BY <1>4 DEF Raise, Awake, Does, Says, Refusal
  <2> QED BY <2>1 DEF ScriptFits, Auth
<1>5. CASE Serve
  <2>1. script = <<>> /\ script' = script /\ stage' \in {"raise", "hanging"}
    BY <1>5 DEF Serve, Awake, Does
  <2> QED BY <2>1 DEF ScriptFits, Auth
<1>6. CASE HangUp \/ Leave
  <2>1. script = <<>> /\ script' = script
    BY <1>6 DEF HangUp, Leave, Does, LinkInv, ScriptFits
  <2> QED BY <2>1 DEF ScriptFits
<1>7. CASE PumpSweep \/ PumpAsks \/ PromptKey \/ Detach
  <2>1. UNCHANGED <<stage, script>>
    BY <1>7 DEF PumpSweep, PumpAsks, PromptKey, Detach, wordVars
  <2> QED BY <1>1, <2>1
<1> QED BY <1>1, <1>2, <1>3, <1>4, <1>5, <1>6, <1>7, StepKinds, QuietSteps

\* Hanging up, the connection and the record keep to one another.
LEMMA LetGoKept ==
  ASSUME LinkInv, Next
  PROVE  LetGo'
<1>1. CASE AuthAction
  <2>1. AuthStep
    BY <1>1, AuthIsAStep DEF LinkInv
  <2> QED BY <2>1 DEF AuthStep, Auth, LinkInv, LetGo, taskVars
<1>2. CASE SupSend \/ Raise
  <2>1. /\ UNCHANGED <<conn, record, hanging>> /\ stage' \in {stage, "serve"}
        /\ opens' \in {opens, <<>>}
    BY <1>2 DEF SupSend, Raise, Does, Says, farVars
  <2> QED BY <2>1 DEF LinkInv, LetGo
<1>3. CASE Serve
  BY <1>3 DEF Serve, Does, LinkInv, LetGo, farVars
<1>4. CASE HangUp \/ Leave
  BY <1>4 DEF HangUp, Leave, Does, LinkInv, LetGo, farVars, taskVars
<1>5. CASE TaskStep \/ RowStep
  <2>1. UNCHANGED <<conn, opens>>
    <3>1. ASSUME NEW c \in Chan, TakeWrite(c) \/ TakeMessage(c) \/ HandOver(c) \/ TaskEnds(c) \/ FarSends(c)
          PROVE  UNCHANGED <<conn, opens>>
      BY <3>1 DEF TakeWrite, TakeMessage, HandOver, TaskEnds, FarSends, farVars
    <3>2. ASSUME NEW c \in Chan, NEW s \in Slot, PumpRow(c) \/ Type(c) \/ CloseRow(c) \/ Store(c, s)
          PROVE  UNCHANGED <<conn, opens>>
      BY <3>2 DEF PumpRow, Type, CloseRow, Store, farVars
    <3>3. 1 \in Slot
      BY SshLinkAssumption DEF Slot
    <3>4. PumpStart => UNCHANGED <<conn, opens>>
      BY DEF PumpStart, farVars
    <3> QED BY <1>5, <3>1, <3>2, <3>3, <3>4 DEF TaskStep, RowStep
  <2> QED BY <1>5, <2>1, QuietSteps DEF LinkInv, LetGo
<1>6. CASE ConnDies
  BY <1>6 DEF ConnDies, LinkInv, LetGo, wordVars, taskVars
<1>7. CASE PumpSweep \/ PumpAsks \/ PromptKey \/ Detach
  <2>1. UNCHANGED <<stage, conn, opens, hanging>> /\ (record' => record)
    BY <1>7 DEF PumpSweep, PumpAsks, PromptKey, Detach, DropRecord, wordVars, farVars, taskVars
  <2> QED BY <2>1 DEF LinkInv, LetGo
<1>8. CASE Opening
  <2>1. record /\ UNCHANGED <<conn, stage, record, hanging>>
    BY <1>8 DEF Opening, OpenChannel, farVars, wordVars
  <2> QED BY <2>1 DEF LinkInv, LetGo
<1> QED BY <1>1, <1>2, <1>3, <1>4, <1>5, <1>6, <1>7, <1>8, StepKinds

\* What a step may do to the tasks, besides the supervisor: a task that runs may
\* go on, end or be gone.
Running == {"driving", "holding", "saying", "ending", "gone"}
Moves(t, u) == u = t \/ (t \in Running \ {"gone"} /\ u \in Running)

\* The tasks' steps and the rows' are such.
LEMMA TasksMove ==
  ASSUME LinkInv, TaskStep \/ RowStep \/ ConnDies \/ PumpSweep \/ PumpAsks \/ PromptKey \/ Detach
  PROVE  (\A d \in Chan : Moves(task[d], task'[d])) /\ opens' = opens
<1>1. ASSUME NEW c \in Chan, TakeWrite(c) \/ TakeMessage(c) \/ HandOver(c) \/ TaskEnds(c) \/ FarSends(c)
      PROVE  (\A d \in Chan : Moves(task[d], task'[d])) /\ opens' = opens
  <2>0. task \in [Chan -> {"none", "queued", "driving", "holding", "saying", "ending", "gone"}]
    BY DEF LinkInv, SshTypeOK
  <2>1. CASE TakeWrite(c)
    BY <2>0, <2>1 DEF TakeWrite, Ending, Lost, Moves, Running
  <2>2. CASE TakeMessage(c)
    BY <2>0, <2>2 DEF TakeMessage, Ending, Lost, Moves, Running
  <2>3. CASE HandOver(c)
    BY <2>0, <2>3 DEF HandOver, Moves, Running
  <2>4. CASE TaskEnds(c)
    BY <2>0, <2>4 DEF TaskEnds, Ending, Moves, Running
  <2>5. CASE FarSends(c)
    BY <2>5 DEF FarSends, Moves, taskVars
  <2> QED BY <1>1, <2>1, <2>2, <2>3, <2>4, <2>5
<1>2. ASSUME NEW c \in Chan, NEW s \in Slot, PumpRow(c) \/ Type(c) \/ CloseRow(c) \/ Store(c, s)
      PROVE  UNCHANGED <<task, opens>>
  BY <1>2 DEF PumpRow, Type, CloseRow, Store, taskVars
<1>3. PumpStart \/ ConnDies \/ PumpSweep \/ PumpAsks \/ PromptKey \/ Detach => UNCHANGED <<task, opens>>
  BY DEF PumpStart, ConnDies, PumpSweep, PumpAsks, PromptKey, Detach, taskVars
<1>4. 1 \in Slot
  BY SshLinkAssumption DEF Slot
<1>5. UNCHANGED <<task, opens>> => (\A d \in Chan : Moves(task[d], task'[d])) /\ opens' = opens
  BY DEF Moves
<1> QED BY <1>1, <1>2, <1>3, <1>4, <1>5 DEF TaskStep, RowStep

\* Such a step keeps the turns, as long as the supervisor stays.
LEMMA TurnKept ==
  ASSUME LinkInv, \A d \in Chan : Moves(task[d], task'[d]), UNCHANGED <<opens, stage, script, to>>
  PROVE  InTurn'
<1>1. \A d \in Chan : (task'[d] = "none" <=> task[d] = "none") /\ (task'[d] = "queued" <=> task[d] = "queued")
  BY DEF Moves, Running
<1>2. \A d \in Chan : task[d] \in {"none", "queued", "gone"} => task'[d] = task[d]
  BY DEF Moves, Running
<1>3. Over' <=> Over
  BY DEF Over
<1>4. to \in Chan /\ \A i \in 1 .. Len(opens) : opens[i] \in Chan
  BY ElementOfSeq DEF LinkInv, SshTypeOK
<1>5. InTurn
  BY DEF LinkInv
<1> QED BY <1>1, <1>2, <1>3, <1>4, <1>5 DEF InTurn

\* The supervisor raises the channels in the order of their numbers.
LEMMA InTurnKept ==
  ASSUME LinkInv, Next
  PROVE  InTurn'
<1>0. InTurn /\ SshTypeOK
  BY DEF LinkInv
<1>1. CASE AuthAction
  <2>1. AuthStep
    BY <1>1, AuthIsAStep DEF LinkInv
  <2>2. UNCHANGED <<to, task, opens>> /\ stage \in Auth /\ script = <<>> /\ (stage' \in Auth => to = 1)
    BY <1>0, <2>1 DEF AuthStep, InTurn, taskVars
  <2>3. ~Over /\ stage' # "serve" /\ task[to] = "queued"
    BY <1>0, <2>1 DEF AuthStep, InTurn, Auth, Over
  <2> QED BY <1>0, <2>2, <2>3 DEF InTurn
<1>2. CASE TaskStep \/ RowStep \/ ConnDies
  BY <1>2, TasksMove, TurnKept, QuietSteps
<1>3. CASE PumpSweep \/ PumpAsks \/ PromptKey \/ Detach
  <2>1. UNCHANGED <<stage, script, to>>
    BY <1>3 DEF PumpSweep, PumpAsks, PromptKey, Detach, wordVars
  <2> QED BY <1>3, <2>1, TasksMove, TurnKept
<1>4. CASE SupSend
  <2> DEFINE last == Tail(script) = <<>> /\ Head(script) = "eof"
             ends == last /\ stage = "over"
  <2>1. /\ script # <<>> /\ script' = Tail(script) /\ UNCHANGED <<stage, to>>
        /\ task' = [c \in Chan |-> IF (last /\ c = to) \/ (ends /\ task[c] = "queued") THEN "gone" ELSE task[c]]
        /\ opens' = IF ends THEN <<>> ELSE opens
    BY <1>4 DEF SupSend
  <2>2. /\ task[to] = "queued" /\ to \in Chan
        /\ \A i \in 1 .. Len(opens) : opens[i] \in Chan
    BY <1>0, <2>1, ElementOfSeq DEF InTurn, SshTypeOK
  <2>3. /\ last <=> script = Closing
        /\ script = Closing => stage \in {"serve", "over"} /\ script' = <<>>
        /\ script # Closing /\ script' = <<>> => stage # "serve"
    <3>1. ScriptFits /\ stage \in Stages
      BY DEF LinkInv, SshTypeOK
    <3>2. /\ script \in {Remark, Closing, Refusal, Farewell}
          /\ script = Closing => stage \in {"serve", "over"}
          /\ stage = "serve" => script # Remark
      BY <2>1, <3>1, Scripts DEF ScriptFits, Auth, Stages
    <3>3. CASE script = Remark
      BY <2>1, <3>2, <3>3, Scripts
    <3>4. CASE script = Closing
      BY <2>1, <3>2, <3>4, Scripts
    <3>5. CASE script = Refusal
      BY <2>1, <3>5, Scripts
    <3>6. CASE script = Farewell
      BY <2>1, <3>6, Scripts
    <3> QED BY <3>2, <3>3, <3>4, <3>5, <3>6
  <2> HIDE DEF last, ends
  <2>4. CASE ends
    <3>1. script' = <<>> /\ stage' = "over" /\ Over' /\ opens' = <<>>
      BY <2>1, <2>3, <2>4 DEF ends, Over
    <3>2. \A c \in Chan : task'[c] = IF c = to \/ task[c] = "queued" THEN "gone" ELSE task[c]
      BY <2>1, <2>4 DEF ends
    <3>3. Len(<<>>) = 0 /\ 1 .. 0 = {}
      OBVIOUS
    <3>4. /\ stage' \notin Auth /\ stage' # "raise" /\ stage' # "serve"
          /\ to' = to
      BY <2>1, <3>1 DEF Auth
    <3> QED BY <1>0, <2>2, <3>1, <3>2, <3>3, <3>4 DEF InTurn
  <2>5. CASE last /\ ~ends
    <3>1. script' = <<>> /\ stage' = "serve" /\ stage = "serve" /\ opens' = opens
      BY <2>1, <2>3, <2>5 DEF ends
    <3>2. \A c \in Chan : task'[c] = IF c = to THEN "gone" ELSE task[c]
      BY <2>1, <2>5
    <3>3. "serve" \notin Auth /\ ~Over
      BY <3>1 DEF Auth, Over
    <3>4. \A c \in Chan : c > to => c # to
      BY SshLinkAssumption DEF Chan
    <3>5. \A c \in Chan, d \in Chan : task[c] = "none" /\ d >= c => d # to
      BY <1>0, <2>2 DEF InTurn
    <3>6. \A i \in 1 .. Len(opens) : opens[i] # to
      BY <1>0, <2>2, <3>4 DEF InTurn
    <3> QED BY <1>0, <2>1, <2>2, <3>1, <3>2, <3>3, <3>4, <3>5, <3>6 DEF InTurn
  <2>6. CASE ~last
    <3>1. task' = task /\ opens' = opens
      BY <1>0, <2>1, <2>6 DEF ends, SshTypeOK
    <3>2. script' = <<>> => stage # "serve"
      BY <2>3, <2>6
    <3>3. ~Over
      BY <2>1 DEF Over
    <3> QED BY <1>0, <2>1, <2>2, <3>1, <3>2, <3>3 DEF InTurn
  <2> QED BY <2>4, <2>5, <2>6
<1>5. CASE Raise
  <2>1. /\ stage = "raise" /\ stage' = "serve" /\ UNCHANGED <<to, opens>> /\ script = <<>> /\ task[to] = "queued"
        /\ \/ task' = [task EXCEPT ![to] = "driving"] /\ script' = <<>>
           \/ task' = task /\ script' = Refusal
    BY <1>0, <1>5 DEF Raise, Awake, Does, Says, InTurn, Refusal
  <2>2. /\ to \in Chan /\ "serve" \notin Auth /\ ~Over
        /\ \A i \in 1 .. Len(opens) : opens[i] \in Chan
    BY <1>0, <2>1, ElementOfSeq DEF SshTypeOK, Auth, Over
  <2>3. CASE task' = task /\ script' = Refusal
    BY <1>0, <2>1, <2>2, <2>3, Scripts DEF InTurn
  <2>4. CASE task' = [task EXCEPT ![to] = "driving"] /\ script' = <<>>
    <3>1. \A c \in Chan : task'[c] = IF c = to THEN "driving" ELSE task[c]
      BY <1>0, <2>4 DEF SshTypeOK
    <3>2. \A c \in Chan : c > to => c # to
      BY SshLinkAssumption DEF Chan
    <3>3. \A c \in Chan, d \in Chan : task[c] = "none" /\ d >= c => d # to
      BY <1>0, <2>1, <2>2 DEF InTurn
    <3>4. \A i \in 1 .. Len(opens) : opens[i] # to
      BY <1>0, <2>2, <3>2 DEF InTurn
    <3> QED BY <1>0, <2>1, <2>2, <2>4, <3>1, <3>2, <3>3, <3>4 DEF InTurn
  <2> QED BY <2>1, <2>3, <2>4
<1>6. CASE Serve
  <2>1. stage = "serve" /\ script = <<>> /\ task' = task /\ script' = <<>>
    BY <1>6 DEF Serve, Awake, Does
  <2>2. ~Over /\ task[to] # "queued" /\ "raise" \notin Auth /\ "hanging" \notin Auth
    BY <1>0, <2>1 DEF InTurn, Auth, Over
  <2>3. CASE opens = <<>>
    <3>1. UNCHANGED <<to, opens>> /\ stage' = "hanging"
      BY <1>6, <2>3 DEF Serve, Does
    <3> QED BY <1>0, <2>1, <2>2, <3>1 DEF InTurn
  <2>4. CASE opens # <<>>
    <3>1. stage' = "raise" /\ to' = Head(opens) /\ opens' = Tail(opens)
      BY <1>6, <2>4 DEF Serve
    <3>2. /\ Head(opens) \in Chan /\ Tail(opens) \in Seq(Chan) /\ Len(Tail(opens)) = Len(opens) - 1
          /\ Len(opens) \in Nat \ {0} /\ Head(opens) = opens[1]
          /\ \A i \in 1 .. Len(Tail(opens)) : Tail(opens)[i] = opens[i + 1]
      BY <1>0, <2>4, HeadTailProperties, EmptySeq DEF SshTypeOK
    <3>3. 1 \in 1 .. Len(opens) /\ \A i \in 1 .. Len(opens') : i + 1 \in 1 .. Len(opens) /\ 1 < i + 1
      BY <3>1, <3>2
    <3>4. task[to'] = "queued" /\ to' > to /\ to' \in Chan /\ to \in Chan
      BY <1>0, <3>1, <3>2, <3>3 DEF InTurn, SshTypeOK
    <3>5. \A i \in 1 .. Len(opens') : opens'[i] > to' /\ task[opens'[i]] = "queued"
      BY <1>0, <3>1, <3>2, <3>3 DEF InTurn
    <3>6. \A i, j \in 1 .. Len(opens') : i < j => opens'[i] < opens'[j]
      <4> SUFFICES ASSUME NEW i \in 1 .. Len(opens'), NEW j \in 1 .. Len(opens'), i < j
                   PROVE  opens'[i] < opens'[j]
        OBVIOUS
      <4>1. i + 1 < j + 1 /\ i + 1 \in 1 .. Len(opens) /\ j + 1 \in 1 .. Len(opens)
        BY <3>3
      <4>2. opens[i + 1] < opens[j + 1]
        BY <1>0, <4>1 DEF InTurn
      <4> QED BY <3>1, <3>2, <4>2
    <3>7. ASSUME NEW c \in Chan, task[c] = "queued" PROVE c = to' \/ Has(opens', c)
      <4>1. Has(opens, c)
        BY <1>0, <2>2, <3>7 DEF InTurn
      <4> QED BY <1>0, <2>4, <3>1, <4>1, HasTail DEF SshTypeOK
    <3>8. \A c \in Chan : c > to' => c > to
      BY <3>4, SshLinkAssumption DEF Chan
    <3> QED BY <1>0, <2>1, <2>2, <3>1, <3>4, <3>5, <3>6, <3>7, <3>8 DEF InTurn
  <2> QED BY <2>3, <2>4
<1>7. CASE HangUp
  <2>1. stage = "hanging" /\ stage' = "leaving" /\ UNCHANGED <<script, to, task, opens>>
    BY <1>7 DEF HangUp, Does, taskVars
  <2>2. script = <<>> /\ ~Over /\ stage' \notin Auth
    BY <2>1 DEF LinkInv, ScriptFits, Over, Auth
  <2> QED BY <1>0, <2>1, <2>2 DEF InTurn
<1>8. CASE Leave
  <2>1. /\ stage = "leaving" /\ stage' = "over" /\ UNCHANGED <<script, to, opens>>
        /\ \A c \in Chan : task'[c] = IF task[c] = "none" THEN "none" ELSE "gone"
    BY <1>8 DEF Leave, Does
  <2>2. script = <<>> /\ Over' /\ opens = <<>> /\ stage' \notin Auth /\ to \in Chan
    BY <1>0, <2>1 DEF LinkInv, ScriptFits, LetGo, Over, Auth, SshTypeOK
  <2>3. Len(opens') = 0 /\ 1 .. 0 = {}
    BY <2>1, <2>2
  <2> QED BY <1>0, <2>1, <2>2, <2>3 DEF InTurn
<1>9. CASE Opening
  <2>1. PICK s \in Slot, c \in Chan :
          /\ task[c] = "none" /\ \A d \in 1 .. c - 1 : task[d] # "none"
          /\ task' = [task EXCEPT ![c] = "queued"] /\ opens' = Append(opens, c)
          /\ ~Over /\ UNCHANGED <<stage, script, to>>
    BY <1>9 DEF Opening, OpenChannel, wordVars
  <2>2. \A d \in Chan : task'[d] = IF d = c THEN "queued" ELSE task[d]
    BY <1>0, <2>1 DEF SshTypeOK
  <2>3. to \in Chan /\ to # c /\ c > to /\ c \in Nat /\ to \in Nat
    <3>1. to \in Chan /\ c \in Nat /\ to \in Nat /\ ~ (to >= c)
      BY <1>0, <2>1, SshLinkAssumption DEF InTurn, SshTypeOK, Chan
    <3> QED BY <3>1
  <2>4. /\ Len(opens') = Len(opens) + 1 /\ Len(opens) \in Nat
        /\ \A i \in 1 .. Len(opens) : opens'[i] = opens[i] /\ opens[i] \in Chan
        /\ opens'[Len(opens) + 1] = c
    BY <1>0, <2>1, AppendProperties, LenProperties, ElementOfSeq DEF SshTypeOK
  <2>5. \A i \in 1 .. Len(opens) : opens[i] # c /\ opens[i] < c
    <3> SUFFICES ASSUME NEW i \in 1 .. Len(opens) PROVE opens[i] # c /\ opens[i] < c
      OBVIOUS
    <3>1. opens[i] \in Chan /\ task[opens[i]] = "queued"
      BY <1>0, <2>4 DEF InTurn
    <3>2. ~ (opens[i] >= c)
      BY <1>0, <2>1, <3>1 DEF InTurn
    <3> QED BY <2>3, <3>1, <3>2, SshLinkAssumption DEF Chan
  <2>6. \A i \in 1 .. Len(opens') : opens'[i] > to' /\ task'[opens'[i]] = "queued"
    <3> SUFFICES ASSUME NEW i \in 1 .. Len(opens') PROVE opens'[i] > to' /\ task'[opens'[i]] = "queued"
      OBVIOUS
    <3>1. CASE i \in 1 .. Len(opens)
      BY <1>0, <2>1, <2>2, <2>4, <2>5, <3>1 DEF InTurn
    <3>2. CASE i = Len(opens) + 1
      BY <2>1, <2>2, <2>3, <2>4, <3>2
    <3> QED BY <2>4, <3>1, <3>2
  <2>7. \A i, j \in 1 .. Len(opens') : i < j => opens'[i] < opens'[j]
    <3> SUFFICES ASSUME NEW i \in 1 .. Len(opens'), NEW j \in 1 .. Len(opens'), i < j
                 PROVE  opens'[i] < opens'[j]
      OBVIOUS
    <3>1. i \in 1 .. Len(opens)
      BY <2>4
    <3>2. CASE j \in 1 .. Len(opens)
      BY <1>0, <2>4, <3>1, <3>2 DEF InTurn
    <3>3. CASE j = Len(opens) + 1
      BY <2>4, <2>5, <3>1, <3>3
    <3> QED BY <2>4, <3>2, <3>3
  <2>8. ASSUME NEW d \in Chan, task'[d] = "queued" PROVE d = to' \/ Has(opens', d)
    BY <1>0, <2>1, <2>2, <2>8, HasAppend DEF InTurn, SshTypeOK
  <2>9. ASSUME NEW d \in Chan, NEW e \in Chan, task'[d] = "none", e >= d PROVE task'[e] = "none"
    <3>1. task[d] = "none" /\ d # c /\ d \in Nat /\ e \in Nat
      BY <2>2, <2>9, SshLinkAssumption DEF Chan
    <3>2. ~ (d <= c - 1)
      BY <2>1, <3>1, SshLinkAssumption DEF Chan
    <3> QED BY <1>0, <2>2, <2>3, <2>9, <3>1, <3>2 DEF InTurn
  <2>10. Over' <=> Over
    BY <2>1 DEF Over
  <2> QED BY <1>0, <2>1, <2>2, <2>3, <2>6, <2>7, <2>8, <2>9, <2>10 DEF InTurn
<1> QED BY <1>1, <1>2, <1>3, <1>4, <1>5, <1>6, <1>7, <1>8, <1>9, StepKinds

-----------------------------------------------------------------------------
(***************************************************************************)
(* Each channel.                                                           *)
(***************************************************************************)
\* What the rest of the system must not do to channel d's story: bring a
\* connection back, or the record; lower `to`; or speak of its end unsaid.
Steady(d) ==
  /\ conn = "down" => conn' = "down"
  /\ conn # "none" => conn' # "none"
  /\ record' => record
  /\ d > to' => d > to
  /\ Over /\ d > to => Over' /\ d > to'
  /\ task[d] = "queued" /\ Said(d) => d = to' /\ script' = Closing
  /\ d = to' /\ script' = Closing /\ Up(d) => Said(d)

\* A step that leaves the supervisor where it is does none of it.
LEMMA SteadyStep ==
  ASSUME LinkInv, UNCHANGED <<stage, script, to>>, record' => record,
         conn' = conn \/ (conn = "up" /\ conn' = "down"), NEW d \in Chan
  PROVE  Steady(d)
<1>1. OnTask(d) /\ (Over' <=> Over)
  BY DEF LinkInv, Honest, Over
<1> QED BY <1>1 DEF Steady, OnTask

\* A channel whose queue, task and far side the step leaves alone keeps its story.
LEMMA Undisturbed ==
  ASSUME LinkInv, NEW d \in Chan, Steady(d),
         queue'[d] = queue[d], task'[d] = task[d], far'[d] = far[d],
         row'[d].lived = row[d].lived, row'[d].lost = row[d].lost,
         row'[d].told = row[d].told, row'[d].ended = row[d].ended,
         (row'[d].slot # 0) <=> Up(d), ~Up(d) => row'[d] = row[d],
         Up(d) => ~Has(cmds'[d], Close), task[d] = "none" => cmds'[d] = cmds[d]
  PROVE  Honest(d)'
<1>0. InOrder(d) /\ Heard(d) /\ OnTask(d)
  BY DEF LinkInv, Honest
<1>1. InOrder(d)'
  BY <1>0 DEF InOrder, Steady
<1>2. Up(d)' <=> Up(d)
  BY DEF Up
<1>3. Heard(d)'
  BY <1>0, <1>2 DEF Heard, Steady
<1>4. (Said(d)' <=> Said(d)) /\ (FarClosed(d)' <=> FarClosed(d))
  BY DEF Said, FarClosed
<1>5. Why(d) => Why(d)'
  BY <1>4 DEF Why, Steady
<1>6. OnTask(d)'
  BY <1>0, <1>2, <1>4, <1>5 DEF OnTask, Steady
<1> QED BY <1>1, <1>3, <1>6 DEF Honest

\* An event put behind the others, of a kind that may stand there, keeps the
\* order and what the row has heard of it.
LEMMA OneMoreEvent ==
  ASSUME LinkInv, NEW d \in Chan, NEW e \in Events, Up(d),
         queue'[d] = Append(queue[d], e), row' = row, conn' = conn,
         task[d] # "gone", task'[d] = "gone" <=> e = "eof",
         e # "eof" => ~Said(d),
         e = "notice" => ~row[d].lived /\ ~Has(queue[d], "data"),
         e = "epitaph" => conn = "down" \/ (~row[d].lived /\ ~Has(queue[d], "data"))
  PROVE  /\ InOrder(d)' /\ Heard(d)' /\ Up(d)'
         /\ Said(d)' <=> Said(d) \/ e = "epitaph"
         /\ Has(queue'[d], "data") <=> Has(queue[d], "data") \/ e = "data"
<1>0. InOrder(d) /\ Heard(d) /\ queue[d] \in Seq(Events)
  BY DEF LinkInv, Honest, SshTypeOK
<1>1. /\ \A f : Has(queue'[d], f) <=> Has(queue[d], f) \/ f = e
      /\ \A f, g : Behind(queue'[d], f, g) <=> Behind(queue[d], f, g) \/ (Has(queue[d], f) /\ g = e)
  BY <1>0, HasAppend
<1>2. ~Has(queue[d], "eof") /\ ~row[d].ended
  BY <1>0 DEF Heard
<1>3. InOrder(d)'
  BY <1>0, <1>1, <1>2 DEF InOrder, Said, Events
<1>4. Up(d)' <=> Up(d)
  BY DEF Up
<1>5. Heard(d)'
  BY <1>0, <1>1, <1>2, <1>4 DEF Heard, Said, Events
<1>6. Said(d)' <=> Said(d) \/ e = "epitaph"
  BY <1>1 DEF Said
<1> QED BY <1>1, <1>3, <1>4, <1>5, <1>6

\* The tasks' steps.
LEMMA TaskHonest ==
  ASSUME LinkInv, TaskStep
  PROVE  \A d \in Chan : Honest(d)'
<1>1. PICK c \in Chan : TakeWrite(c) \/ TakeMessage(c) \/ HandOver(c) \/ TaskEnds(c) \/ FarSends(c)
  BY DEF TaskStep
<1>2. UNCHANGED <<stage, script, to, record, conn, row, hanging>>
  BY <1>1 DEF TakeWrite, TakeMessage, HandOver, TaskEnds, FarSends, wordVars, farVars, rowVars, taskVars
<1>3. \A d \in Chan : Steady(d) /\ (Up(d)' <=> Up(d))
  BY <1>2, SteadyStep DEF Up
<1>4. \A d \in Chan : InOrder(d) /\ Heard(d) /\ OnTask(d) /\ (Over' <=> Over)
  BY <1>2 DEF LinkInv, Honest, Over
<1>5. /\ task \in [Chan -> {"none", "queued", "driving", "holding", "saying", "ending", "gone"}]
      /\ queue \in [Chan -> Seq(Events)] /\ \A d \in Chan : Len(queue[d]) <= EVENT_QUEUE
      /\ cmds \in [Chan -> Seq(0 .. 2)] /\ far \in [Chan -> Seq({"data", "close"})]
      /\ conn \in {"none", "up", "down", "closed"}
  BY DEF LinkInv, SshTypeOK
<1>6. ASSUME NEW d \in Chan, d # c PROVE Honest(d)'
  <2>1. queue'[d] = queue[d] /\ task'[d] = task[d] /\ far'[d] = far[d]
    <3>1. CASE TakeWrite(c)
      BY <1>5, <1>6, <3>1 DEF TakeWrite, Ending, Lost, farVars
    <3>2. CASE TakeMessage(c)
      BY <1>5, <1>6, <3>2 DEF TakeMessage, Ending, Lost, farVars
    <3>3. CASE HandOver(c)
      BY <1>5, <1>6, <3>3 DEF HandOver, Send
    <3>4. CASE TaskEnds(c)
      BY <1>5, <1>6, <3>4 DEF TaskEnds, Ending, Send, farVars
    <3>5. CASE FarSends(c)
      BY <1>5, <1>6, <3>5 DEF FarSends, taskVars
    <3> QED BY <1>1, <3>1, <3>2, <3>3, <3>4, <3>5
  <2>2. cmds'[d] \in {cmds[d], <<>>}
    <3>1. CASE TakeWrite(c)
      BY <1>5, <1>6, <3>1 DEF TakeWrite
    <3>2. CASE TakeMessage(c) \/ HandOver(c) \/ FarSends(c)
      BY <1>5, <1>6, <3>2 DEF TakeMessage, HandOver, FarSends, taskVars
    <3>4. CASE TaskEnds(c)
      BY <1>5, <1>6, <3>4 DEF TaskEnds, DropWrites
    <3> QED BY <1>1, <3>1, <3>2, <3>4
  <2>3. /\ Up(d) => ~Has(cmds'[d], Close)
        /\ task[d] = "none" => cmds'[d] = cmds[d]
    BY <1>4, <2>2, HasEmpty DEF OnTask
  <2>4. row'[d] = row[d] /\ ((row'[d].slot # 0) <=> Up(d))
    BY <1>2 DEF Up
  <2> QED BY <1>3, <2>1, <2>3, <2>4, Undisturbed
<1>7. CASE TakeWrite(c)
  <2>1. /\ task[c] = "driving" /\ cmds[c] # <<>> /\ UNCHANGED <<queue, far>>
        /\ cmds'[c] = Tail(cmds[c])
    BY <1>5, <1>7 DEF TakeWrite, farVars
  <2>2. Up(c) => Head(cmds[c]) # Close /\ ~Has(cmds'[c], Close)
    BY <1>4, <1>5, <2>1, HasTail DEF OnTask
  <2>3. /\ task'[c] \in {"driving", "saying", "ending"}
        /\ task'[c] = "saying" => conn = "down"
        /\ task'[c] = "ending" => Head(cmds[c]) = Close \/ hanging
    <3>1. conn = "closed" => hanging
      BY DEF LinkInv, LetGo
    <3>2. conn # "none"
      BY <1>4, <2>1 DEF OnTask
    <3> QED BY <1>5, <1>7, <2>1, <3>1, <3>2 DEF TakeWrite, Ending, Lost
  <2>4. hanging => ~record
    BY DEF LinkInv, LetGo
  <2>5. /\ InOrder(c)' /\ Heard(c)'
        /\ (Said(c)' <=> Said(c)) /\ (Why(c)' <=> Why(c))
    BY <1>2, <1>3, <1>4, <2>1, <2>3 DEF InOrder, Heard, Said, Why, FarClosed
  <2>6. OnTask(c)'
    BY <1>2, <1>3, <1>4, <2>1, <2>2, <2>3, <2>4, <2>5 DEF OnTask, Why
  <2> QED BY <1>6, <2>5, <2>6 DEF Honest
<1>8. CASE TakeMessage(c)
  <2>1. task[c] = "driving" /\ UNCHANGED <<queue, far, cmds>>
    BY <1>8 DEF TakeMessage, farVars
  <2>2. /\ task'[c] \in {"holding", "saying", "ending"}
        /\ task'[c] = "holding" => far[c] # <<>> /\ Head(far[c]) = "data"
        /\ task'[c] = "saying" => conn = "down"
        /\ task'[c] = "ending" => FarClosed(c) \/ hanging
    <3>1. conn = "closed" => hanging
      BY DEF LinkInv, LetGo
    <3>2. conn # "none"
      BY <1>4, <2>1 DEF OnTask
    <3>3. far[c] # <<>> => Head(far[c]) \in {"data", "close"}
      BY <1>5, HeadTailProperties
    <3> QED BY <1>5, <1>8, <3>1, <3>2, <3>3 DEF TakeMessage, Ending, Lost, FarClosed
  <2>3. hanging => ~record
    BY DEF LinkInv, LetGo
  <2>4. /\ InOrder(c)' /\ Heard(c)'
        /\ (Said(c)' <=> Said(c)) /\ (Why(c)' <=> Why(c))
    BY <1>2, <1>3, <1>4, <2>1, <2>2 DEF InOrder, Heard, Said, Why, FarClosed
  <2>5. OnTask(c)'
    BY <1>2, <1>3, <1>4, <2>1, <2>2, <2>3, <2>4 DEF OnTask, Why
  <2> QED BY <1>6, <2>4, <2>5 DEF Honest
<1>9. CASE HandOver(c)
  <2>1. /\ task[c] = "holding" /\ Head(far[c]) = "data" /\ UNCHANGED cmds /\ ~Said(c)
        /\ task'[c] = IF Up(c) THEN "driving" ELSE "ending"
    BY <1>4, <1>5, <1>9 DEF HandOver, OnTask
  <2>2. queue'[c] = IF Up(c) THEN Append(queue[c], "data") ELSE queue[c]
    BY <1>5, <1>9, <2>1, SendQueues DEF HandOver, Events
  <2>3. CASE Up(c)
    <3>1. InOrder(c)' /\ Heard(c)' /\ Up(c)' /\ ~Said(c)'
      <4> DEFINE e == "data"
      <4>1. /\ task[c] # "gone" /\ (task'[c] = "gone" <=> e = "eof")
            /\ row' = row /\ conn' = conn /\ queue'[c] = Append(queue[c], e)
            /\ ~Said(c) /\ e # "epitaph" /\ e # "notice" /\ e \in Events
        BY <1>2, <2>1, <2>2, <2>3 DEF Events
      <4> HIDE DEF e
      <4> QED BY <2>3, <4>1, OneMoreEvent
    <3>2. ~ (c > to)
      BY <2>1 DEF LinkInv, InTurn
    <3>3. OnTask(c)'
      BY <1>2, <1>4, <2>1, <2>3, <3>1, <3>2 DEF OnTask
    <3> QED BY <1>6, <3>1, <3>3 DEF Honest
  <2>4. CASE ~Up(c)
    <3>1. queue'[c] = queue[c] /\ ~Up(c)'
      BY <1>3, <2>2, <2>4
    <3>2. InOrder(c)' /\ Heard(c)' /\ (Said(c)' <=> Said(c))
      BY <1>2, <1>4, <2>1, <2>4, <3>1 DEF InOrder, Heard, Said
    <3>3. OnTask(c)'
      BY <1>2, <1>4, <2>1, <2>4, <3>1, <3>2 DEF OnTask
    <3> QED BY <1>6, <3>2, <3>3 DEF Honest
  <2> QED BY <2>3, <2>4
<1>10. CASE TaskEnds(c)
  <2> DEFINE e == IF task[c] = "saying" THEN "epitaph" ELSE "eof"
  <2>1. /\ task[c] \in {"saying", "ending"} /\ UNCHANGED far /\ Send(c, e)
        /\ task'[c] = IF task[c] = "saying" THEN "ending" ELSE "gone"
        /\ cmds'[c] \in {cmds[c], <<>>}
    BY <1>5, <1>10 DEF TaskEnds, Ending, DropWrites, farVars
  <2>2. e \in Events /\ (e = "eof" <=> task[c] = "ending") /\ (e = "epitaph" <=> task[c] = "saying")
        /\ e # "data" /\ e # "notice"
    BY <2>1 DEF Events
  <2> HIDE DEF e
  <2>3. queue'[c] = IF Up(c) THEN Append(queue[c], e) ELSE queue[c]
    BY <1>5, <2>1, <2>2, SendQueues
  <2>4. /\ task[c] = "saying" => ~Said(c) /\ conn = "down"
        /\ Up(c) => ~Has(cmds'[c], Close)
    BY <1>4, <2>1, HasEmpty DEF OnTask
  <2>5. CASE Up(c)
    <3>1. /\ InOrder(c)' /\ Heard(c)' /\ Up(c)'
          /\ Said(c)' <=> Said(c) \/ e = "epitaph"
          /\ Has(queue'[c], "data") <=> Has(queue[c], "data")
      <4>1. /\ task[c] # "gone" /\ (task'[c] = "gone" <=> e = "eof")
            /\ row' = row /\ conn' = conn /\ queue'[c] = Append(queue[c], e)
            /\ e # "eof" => ~Said(c)
            /\ e = "epitaph" => conn = "down"
        BY <1>2, <2>1, <2>2, <2>3, <2>4, <2>5
      <4> QED BY <2>2, <2>5, <4>1, OneMoreEvent
    <3>2. task[c] = "ending" => Why(c)
      BY <1>4, <2>5 DEF OnTask
    <3>3. Why(c)'
      BY <1>2, <2>1, <2>2, <3>1, <3>2 DEF Why, FarClosed
    <3>4. ~ (c > to)
      <4>1. task[c] \in {"saying", "ending"}
        BY <2>1
      <4> QED BY <4>1 DEF LinkInv, InTurn
    <3>5. /\ task'[c] \in {"ending", "gone"} /\ ~Has(cmds'[c], Close)
          /\ Said(c) => Said(c)'
      BY <2>1, <2>4, <2>5, <3>1
    <3>6. OnTask(c)'
      BY <1>2, <1>4, <2>5, <3>1, <3>3, <3>4, <3>5 DEF OnTask
    <3> QED BY <1>6, <3>1, <3>6 DEF Honest
  <2>6. CASE ~Up(c)
    <3>1. queue'[c] = queue[c] /\ ~Up(c)' /\ queue[c] = <<>> /\ row[c] = NoRow
      BY <1>3, <1>4, <2>3, <2>6 DEF Heard
    <3>2. InOrder(c)' /\ Heard(c)' /\ (Said(c)' <=> Said(c)) /\ ~Said(c)
      BY <1>2, <1>4, <2>1, <2>6, <3>1, HasEmpty DEF InOrder, Heard, Said, NoRow
    <3>3. OnTask(c)'
      BY <1>2, <1>4, <2>1, <2>6, <3>1, <3>2 DEF OnTask
    <3> QED BY <1>6, <3>2, <3>3 DEF Honest
  <2> QED BY <2>5, <2>6
<1>11. CASE FarSends(c)
  <2>1. /\ task[c] \in {"driving", "holding"} /\ UNCHANGED <<queue, task, cmds>>
        /\ \E m \in {"data", "close"} : far'[c] = Append(far[c], m)
    BY <1>5, <1>11 DEF FarSends, taskVars
  <2>2. far[c] # <<>> => far'[c] # <<>> /\ Head(far'[c]) = Head(far[c])
    <3>1. PICK m \in {"data", "close"} : far'[c] = Append(far[c], m)
      BY <2>1
    <3>2. far[c] \in Seq({"data", "close"})
      BY <1>5
    <3> QED BY <3>1, <3>2, HeadTailAppend, AppendProperties
  <2>3. InOrder(c)' /\ Heard(c)' /\ (Said(c)' <=> Said(c))
    BY <1>2, <1>3, <1>4, <2>1 DEF InOrder, Heard, Said
  <2>4. OnTask(c)'
    BY <1>2, <1>3, <1>4, <2>1, <2>2, <2>3 DEF OnTask
  <2> QED BY <1>6, <2>3, <2>4 DEF Honest
<1> QED BY <1>1, <1>7, <1>8, <1>9, <1>10, <1>11

\* A step that leaves every task, queue and row alone keeps every story.
LEMMA StoriesKept ==
  ASSUME LinkInv, UNCHANGED <<task, queue, cmds, row, far>>, \A d \in Chan : Steady(d)
  PROVE  \A d \in Chan : Honest(d)'
<1> SUFFICES ASSUME NEW d \in Chan PROVE Honest(d)'
  OBVIOUS
<1>1. OnTask(d)
  BY DEF LinkInv, Honest
<1>2. /\ queue'[d] = queue[d] /\ task'[d] = task[d] /\ far'[d] = far[d] /\ row'[d] = row[d]
      /\ cmds'[d] = cmds[d] /\ ((row'[d].slot # 0) <=> Up(d))
  BY DEF Up
<1>3. Up(d) => ~Has(cmds'[d], Close)
  BY <1>1, <1>2 DEF OnTask
<1> QED BY <1>2, <1>3, Undisturbed

\* The supervisor's steps but its sends and its leaving.
LEMMA SupervisorHonest ==
  ASSUME LinkInv, AuthAction \/ Raise \/ Serve \/ HangUp
  PROVE  \A d \in Chan : Honest(d)'
<1>0. /\ \A d \in Chan : InOrder(d) /\ Heard(d) /\ OnTask(d)
      /\ task \in [Chan -> {"none", "queued", "driving", "holding", "saying", "ending", "gone"}]
      /\ to \in Chan /\ \A d \in Chan : d \in Nat
  BY SshLinkAssumption DEF LinkInv, Honest, SshTypeOK, Chan
<1>1. script = <<>> /\ (script' = Closing => FALSE)
  <2>1. CASE AuthAction
    <3>1. AuthStep
      BY <2>1, AuthIsAStep DEF LinkInv
    <3> QED BY <3>1, Scripts DEF AuthStep
  <2>2. CASE Raise
    BY <2>2, Scripts DEF Raise, Awake, Does, Says, Refusal
  <2>3. CASE Serve
    BY <2>3, Scripts DEF Serve, Awake, Does
  <2>4. CASE HangUp
    BY <2>4, Scripts DEF HangUp, Does, LinkInv, ScriptFits
  <2> QED BY <2>1, <2>2, <2>3, <2>4
<1>2. stage # "over" /\ UNCHANGED <<queue, cmds, row, far, record>>
  <2>1. CASE AuthAction
    <3>1. AuthStep
      BY <2>1, AuthIsAStep DEF LinkInv
    <3> QED BY <3>1 DEF AuthStep, Auth, taskVars, rowVars
  <2>2. CASE Raise \/ Serve \/ HangUp
    BY <2>2 DEF Raise, Serve, HangUp, farVars, taskVars, rowVars
  <2> QED BY <2>1, <2>2
<1>3. /\ conn = "down" => conn' = "down"
      /\ conn # "none" => conn' # "none"
  <2>1. CASE AuthAction
    <3>1. AuthStep
      BY <2>1, AuthIsAStep DEF LinkInv
    <3> QED BY <3>1 DEF AuthStep
  <2>2. CASE Raise \/ Serve \/ HangUp
    BY <2>2 DEF Raise, Serve, HangUp, farVars
  <2> QED BY <2>1, <2>2
<1>4. \A d \in Chan : d > to' => d > to
  <2>1. CASE AuthAction
    <3>1. AuthStep
      BY <2>1, AuthIsAStep DEF LinkInv
    <3> QED BY <3>1 DEF AuthStep
  <2>2. CASE Raise \/ HangUp
    BY <2>2 DEF Raise, HangUp, Does, Says
  <2>3. CASE Serve
    <3>1. CASE opens = <<>>
      BY <2>3, <3>1 DEF Serve, Does
    <3>2. CASE opens # <<>>
      <4>1. to' = Head(opens)
        BY <2>3, <3>2 DEF Serve
      <4>2. Head(opens) \in Chan /\ Head(opens) = opens[1] /\ 1 \in 1 .. Len(opens)
        BY <3>2, HeadTailProperties, EmptySeq DEF LinkInv, SshTypeOK
      <4>3. to' > to /\ to' \in Chan
        BY <4>1, <4>2 DEF LinkInv, InTurn
      <4> QED BY <1>0, <4>3
    <3> QED BY <3>1, <3>2
  <2> QED BY <2>1, <2>2, <2>3
<1>5. \A d \in Chan : Steady(d)
  BY <1>0, <1>1, <1>2, <1>3, <1>4, Scripts DEF Steady, OnTask, Over
<1>6. CASE UNCHANGED task
  BY <1>2, <1>5, <1>6, StoriesKept
<1>7. CASE Raise /\ task' = [task EXCEPT ![to] = "driving"]
  <2>1. /\ stage = "raise" /\ UNCHANGED <<to, conn>> /\ task[to] = "queued"
        /\ \A d \in Chan : task'[d] = IF d = to THEN "driving" ELSE task[d]
    BY <1>0, <1>7 DEF Raise, Does, Says, LinkInv, InTurn, farVars
  <2>2. conn = "up"
    <3>1. task' # task
      BY <1>0, <2>1
    <3> QED BY <1>7, <3>1 DEF Raise
  <2>3. ASSUME NEW d \in Chan, d # to PROVE Honest(d)'
    <3>1. /\ queue'[d] = queue[d] /\ task'[d] = task[d] /\ far'[d] = far[d] /\ row'[d] = row[d]
          /\ cmds'[d] = cmds[d] /\ ((row'[d].slot # 0) <=> Up(d))
      BY <1>2, <2>1, <2>3 DEF Up
    <3>2. Up(d) => ~Has(cmds'[d], Close)
      BY <1>0, <3>1 DEF OnTask
    <3> QED BY <1>5, <3>1, <3>2, Undisturbed
  <2>4. ASSUME NEW d \in Chan, d = to PROVE Honest(d)'
    <3>1. ~Said(d) /\ (Said(d)' <=> Said(d)) /\ (Up(d)' <=> Up(d)) /\ task'[d] = "driving"
      BY <1>0, <1>1, <1>2, <2>1, <2>4, Scripts DEF OnTask, Said, Up
    <3>2. InOrder(d)' /\ Heard(d)'
      BY <1>0, <1>2, <2>1, <2>4, <3>1 DEF InOrder, Heard
    <3>3. OnTask(d)'
      <4>1. conn' # "none"
        BY <2>1, <2>2
      <4>2. d = to' /\ ~ (d > to')
        BY <1>0, <2>1, <2>4
      <4> QED BY <1>0, <1>1, <1>2, <2>1, <2>4, <3>1, <4>1, <4>2 DEF OnTask
    <3> QED BY <3>2, <3>3 DEF Honest
  <2> QED BY <2>3, <2>4
<1>8. UNCHANGED task \/ (Raise /\ task' = [task EXCEPT ![to] = "driving"])
  <2>1. CASE AuthAction
    <3>1. AuthStep
      BY <2>1, AuthIsAStep DEF LinkInv
    <3> QED BY <3>1 DEF AuthStep, taskVars
  <2>2. CASE Raise
    BY <2>2 DEF Raise
  <2>3. CASE Serve \/ HangUp
    BY <2>3 DEF Serve, HangUp, taskVars
  <2> QED BY <2>1, <2>2, <2>3
<1> QED BY <1>6, <1>7, <1>8

\* The supervisor says a word, and with its last lets the wire go.
LEMMA SendHonest ==
  ASSUME LinkInv, SupSend
  PROVE  \A d \in Chan : Honest(d)'
<1> DEFINE last == Tail(script) = <<>> /\ Head(script) = "eof"
           ends == last /\ stage = "over"
           e    == Head(script)
<1>0. /\ \A d \in Chan : InOrder(d) /\ Heard(d) /\ OnTask(d)
      /\ task \in [Chan -> {"none", "queued", "driving", "holding", "saying", "ending", "gone"}]
      /\ queue \in [Chan -> Seq(Events)] /\ \A d \in Chan : Len(queue[d]) <= EVENT_QUEUE
      /\ cmds \in [Chan -> Seq(0 .. 2)]
      /\ to \in Chan /\ \A d \in Chan : d \in Nat
  BY SshLinkAssumption DEF LinkInv, Honest, SshTypeOK, Chan
<1>1. /\ script # <<>> /\ Send(to, e) /\ script' = Tail(script) /\ DropWrites
      /\ UNCHANGED <<stage, to, record, conn, far, row>>
  BY DEF SupSend, farVars, rowVars
<1>2. task' = [c \in Chan |-> IF (last /\ c = to) \/ (ends /\ task[c] = "queued") THEN "gone" ELSE task[c]]
  BY DEF SupSend
<1>3. /\ script \in {Remark, Closing, Refusal, Farewell}
      /\ task[to] = "queued"
  BY <1>1 DEF LinkInv, ScriptFits, InTurn, SshTypeOK, Stages, Auth
<1>4. /\ last <=> script = Closing
      /\ e = "eof" <=> script = Closing
      /\ e = "epitaph" <=> script = Refusal
      /\ script' = Closing <=> script = Refusal
      /\ e \in {"notice", "epitaph", "eof"}
      /\ last => script' = <<>>
  <2>1. CASE script = Remark
    BY <1>1, <2>1, Scripts
  <2>2. CASE script = Closing
    BY <1>1, <2>2, Scripts
  <2>3. CASE script = Refusal
    BY <1>1, <2>3, Scripts
  <2>4. CASE script = Farewell
    BY <1>1, <2>4, Scripts
  <2> QED BY <1>3, <2>1, <2>2, <2>3, <2>4
<1>5. ends => Over'
  BY <1>1, <1>4 DEF Over
<1>6. e \in Events
  BY <1>4 DEF Events
<1> HIDE DEF last, e
<1>7. /\ \A d \in Chan : queue'[d] = IF d = to /\ Up(to) THEN Append(queue[to], e) ELSE queue[d]
      /\ \A d \in Chan : cmds'[d] = IF task'[d] = "gone" THEN <<>> ELSE cmds[d]
      /\ \A d \in Chan : Up(d)' <=> Up(d)
  BY <1>0, <1>1, <1>6, SendQueues, DropWritesTypes DEF Up
<1>8. \A d \in Chan : task'[d] = IF (last /\ d = to) \/ (ends /\ task[d] = "queued") THEN "gone" ELSE task[d]
  BY <1>2
<1> HIDE DEF ends
<1>9. ASSUME NEW d \in Chan, d # to PROVE Honest(d)'
  <2>1. Steady(d)
    BY <1>0, <1>1, <1>9 DEF Steady, OnTask, Over
  <2>2. queue'[d] = queue[d] /\ far'[d] = far[d] /\ row'[d] = row[d]
    BY <1>1, <1>7, <1>9
  <2>3. CASE task'[d] = task[d]
    <3>1. Up(d) => ~Has(cmds'[d], Close)
      BY <1>0, <1>7, HasEmpty DEF OnTask
    <3>2. (row'[d].slot # 0) <=> Up(d)
      BY <2>2 DEF Up
    <3>3. task[d] = "none" => cmds'[d] = cmds[d]
      BY <1>7, <2>3
    <3> QED BY <2>1, <2>2, <2>3, <3>1, <3>2, <3>3, Undisturbed
  <2>4. CASE ends /\ task[d] = "queued" /\ task'[d] = "gone"
    <3>1. d > to
      <4>1. Has(opens, d)
        BY <1>9, <2>4 DEF LinkInv, InTurn
      <4> QED BY <4>1 DEF Has, LinkInv, InTurn
    <3>2. InOrder(d)' /\ Heard(d)'
      BY <1>0, <1>1, <1>7, <2>2, <2>4 DEF InOrder, Heard
    <3>3. OnTask(d)'
      <4>1. cmds'[d] = <<>>
        BY <1>7, <2>4
      <4> QED BY <1>0, <1>1, <1>5, <1>9, <2>2, <2>4, <3>1, <4>1, HasEmpty DEF OnTask
    <3> QED BY <3>2, <3>3 DEF Honest
  <2> QED BY <1>8, <1>9, <2>3, <2>4
<1>10. ASSUME NEW d \in Chan, d = to PROVE Honest(d)'
  <2>1. /\ e # "eof" => ~Said(d)
        /\ task'[d] = IF e = "eof" THEN "gone" ELSE "queued"
        /\ e = "eof" /\ Up(d) => Said(d)
        /\ ~row[d].lived /\ ~Has(queue[d], "data") /\ e # "data"
    <3>1. ends => last
      BY DEF ends
    <3> QED BY <1>0, <1>3, <1>4, <1>8, <1>10, <3>1, Scripts DEF OnTask
  <2>2. Up(d) => ~Has(cmds'[d], Close)
    BY <1>0, <1>7, HasEmpty DEF OnTask
  <2>3. d = to /\ to' = to /\ ~ (d > to)
    BY <1>0, <1>1, <1>10
  <2>4. CASE Up(d)
    <3>1. /\ InOrder(d)' /\ Heard(d)' /\ Up(d)'
          /\ Said(d)' <=> Said(d) \/ e = "epitaph"
          /\ Has(queue'[d], "data") <=> Has(queue[d], "data") \/ e = "data"
      <4>1. /\ task[d] # "gone" /\ (task'[d] = "gone" <=> e = "eof")
            /\ row' = row /\ conn' = conn /\ queue'[d] = Append(queue[d], e)
            /\ e # "eof" => ~Said(d)
            /\ e = "notice" => ~row[d].lived /\ ~Has(queue[d], "data")
            /\ e = "epitaph" => conn = "down" \/ (~row[d].lived /\ ~Has(queue[d], "data"))
        BY <1>1, <1>3, <1>7, <2>1, <2>3, <2>4
      <4>2. /\ InOrder(d)' /\ Heard(d)' /\ Up(d)'
            /\ Said(d)' <=> Said(d) \/ e = "epitaph"
            /\ Has(queue'[d], "data") <=> Has(queue[d], "data") \/ e = "data"
        BY <1>0, <1>6, <2>4, <4>1, OneMoreEvent
      <4> QED BY <2>3, <4>2
    <3>2. script' = Closing <=> e = "epitaph"
      BY <1>4
    <3>3. task'[d] = "gone" => Why(d)'
      BY <2>1, <2>4, <3>1 DEF Why
    <3>4. row'[d] = row[d]
      BY <1>1
    <3>5. OnTask(d)'
      BY <2>1, <2>2, <2>3, <2>4, <3>1, <3>2, <3>3, <3>4 DEF OnTask
    <3> QED BY <2>3, <3>1, <3>5 DEF Honest
  <2>5. CASE ~Up(d)
    <3>1. queue'[d] = <<>> /\ ~Up(d)' /\ row'[d] = NoRow /\ queue[d] = <<>> /\ row[d] = NoRow
      BY <1>0, <1>1, <1>7, <2>5 DEF Heard
    <3>2. ~Said(d)'
      BY <2>3, <3>1, HasEmpty DEF Said, NoRow
    <3>3. InOrder(d)' /\ Heard(d)'
      BY <3>1, <2>3, HasEmpty DEF InOrder, Heard, NoRow
    <3>4. OnTask(d)'
      BY <2>1, <2>3, <3>1, <3>2, HasEmpty DEF OnTask, NoRow
    <3> QED BY <2>3, <3>3, <3>4 DEF Honest
  <2> QED BY <2>4, <2>5
<1> QED BY <1>9, <1>10

\* The connection's thread returns: its tasks go with it.
LEMMA LeaveHonest ==
  ASSUME LinkInv, Leave
  PROVE  \A d \in Chan : Honest(d)'
<1> SUFFICES ASSUME NEW d \in Chan PROVE Honest(d)'
  OBVIOUS
<1>0. /\ InOrder(d) /\ Heard(d) /\ OnTask(d)
      /\ task \in [Chan -> {"none", "queued", "driving", "holding", "saying", "ending", "gone"}]
      /\ cmds \in [Chan -> Seq(0 .. 2)]
  BY DEF LinkInv, Honest, SshTypeOK
<1>1. /\ stage = "leaving" /\ UNCHANGED <<script, to, record, conn, far, row, queue>> /\ DropWrites
      /\ task'[d] = IF task[d] = "none" THEN "none" ELSE "gone"
  BY DEF Leave, Does, farVars, rowVars
<1>2. script = <<>> /\ ~record /\ ~Over
  BY <1>1 DEF LinkInv, ScriptFits, LetGo, Over
<1>3. cmds'[d] = IF task'[d] = "gone" THEN <<>> ELSE cmds[d]
  BY <1>0, <1>1, DropWritesTypes
<1>4. (Up(d)' <=> Up(d)) /\ (Said(d)' <=> Said(d)) /\ (task'[d] = "gone" => Why(d)')
  BY <1>1, <1>2 DEF Up, Said, Why
<1>5. InOrder(d)' /\ Heard(d)'
  BY <1>0, <1>1, <1>4 DEF InOrder, Heard
<1>6. OnTask(d)'
  BY <1>0, <1>1, <1>2, <1>3, <1>4, HasEmpty, Scripts DEF OnTask
<1> QED BY <1>5, <1>6 DEF Honest

\* Rows go, and what they had not read.
LEMMA DropsHonest ==
  ASSUME LinkInv, NEW gone \in SUBSET Rows, Drops(gone), UNCHANGED <<task, far>>,
         \A d \in Chan : Steady(d)
  PROVE  \A d \in Chan : Honest(d)'
<1> SUFFICES ASSUME NEW d \in Chan PROVE Honest(d)'
  OBVIOUS
<1>0. InOrder(d) /\ Heard(d) /\ OnTask(d)
  BY DEF LinkInv, Honest
<1>1. /\ row'[d] = IF d \in gone THEN NoRow ELSE row[d]
      /\ queue'[d] = IF d \in gone THEN <<>> ELSE queue[d]
      /\ cmds'[d] = IF d \in gone /\ task[d] # "gone" THEN Append(cmds[d], Close) ELSE cmds[d]
  BY DropsTypes DEF LinkInv, Rows
<1>2. CASE d \in gone
  <2>1. Up(d) /\ row'[d] = NoRow /\ queue'[d] = <<>> /\ ~Up(d)' /\ task[d] # "none"
    BY <1>0, <1>1, <1>2 DEF Rows, Up, NoRow, OnTask
  <2>2. ~Said(d)'
    BY <2>1, HasEmpty DEF Said, NoRow
  <2>3. InOrder(d)' /\ Heard(d)'
    BY <2>1, HasEmpty DEF InOrder, Heard, NoRow
  <2>4. OnTask(d)'
    BY <1>0, <2>1, <2>2, HasEmpty DEF OnTask, NoRow, Steady
  <2> QED BY <2>3, <2>4 DEF Honest
<1>3. CASE d \notin gone
  <2>1. /\ queue'[d] = queue[d] /\ task'[d] = task[d] /\ far'[d] = far[d] /\ row'[d] = row[d]
        /\ cmds'[d] = cmds[d] /\ ((row'[d].slot # 0) <=> Up(d))
    BY <1>1, <1>3 DEF Up
  <2>2. Up(d) => ~Has(cmds'[d], Close)
    BY <1>0, <2>1 DEF OnTask
  <2> QED BY <2>1, <2>2, Undisturbed
<1> QED BY <1>2, <1>3

\* A row reads what its queue holds first, or finds its sender gone.
LEMMA ReadHonest ==
  ASSUME LinkInv, NEW c \in Chan, PumpRow(c)
  PROVE  \A d \in Chan : Honest(d)'
<1>0. /\ \A d \in Chan : InOrder(d) /\ Heard(d) /\ OnTask(d)
      /\ queue \in [Chan -> Seq(Events)] /\ Up(c)
      /\ row \in [Chan -> [slot : Slot \cup {0}, lived : BOOLEAN, lost : BOOLEAN, told : BOOLEAN, ended : BOOLEAN]]
  BY DEF LinkInv, Honest, SshTypeOK, PumpRow, Follows
<1>1. UNCHANGED <<stage, script, to, record, conn, far, task, cmds>>
  BY DEF PumpRow, wordVars, farVars
<1>2. \A d \in Chan : Steady(d)
  BY <1>1, SteadyStep
<1>3. ASSUME NEW d \in Chan, row'[d] = row[d], queue'[d] = queue[d] PROVE Honest(d)'
  <2>1. task'[d] = task[d] /\ far'[d] = far[d] /\ cmds'[d] = cmds[d] /\ ((row'[d].slot # 0) <=> Up(d))
    BY <1>1, <1>3 DEF Up
  <2>2. Up(d) => ~Has(cmds'[d], Close)
    BY <1>0, <2>1 DEF OnTask
  <2> QED BY <1>2, <1>3, <2>1, <2>2, Undisturbed
<1>4. \A d \in Chan : d # c => row'[d] = row[d] /\ queue'[d] = queue[d]
  BY <1>0 DEF PumpRow, Ended, Speaks
<1>5. ASSUME Up(c)', Said(c)' <=> Said(c),
             task[c] \in {"none", "queued"} => ~row'[c].lived /\ ~Has(queue'[c], "data"),
             c > to => queue'[c] = <<>> /\ ~row'[c].told /\ ~row'[c].lived
      PROVE  OnTask(c)'
  <2>1. /\ task[c] # "none" /\ ~Has(cmds[c], Close) /\ (Why(c)' <=> Why(c)) /\ (Over' <=> Over)
    BY <1>0, <1>1, <1>5 DEF OnTask, Why, FarClosed, Over
  <2> QED BY <1>0, <1>1, <1>5, <2>1 DEF OnTask
<1>6. CASE queue[c] = <<>>
  <2>1. queue' = queue /\ (UNCHANGED row \/ (task[c] = "gone" /\ Ended(c)))
    BY <1>6 DEF PumpRow
  <2>2. CASE UNCHANGED row
    BY <1>3, <2>1, <2>2
  <2>3. CASE task[c] = "gone" /\ Ended(c)
    <3>1. /\ row'[c].slot = row[c].slot /\ row'[c].lived = row[c].lived /\ row'[c].lost = row[c].lost
          /\ row'[c].told = row[c].told /\ queue'[c] = queue[c]
      BY <1>0, <2>1, <2>3 DEF Ended
    <3>2. Up(c)' /\ (Said(c)' <=> Said(c))
      BY <1>0, <3>1 DEF Up, Said
    <3>3. InOrder(c)' /\ Heard(c)'
      BY <1>0, <1>1, <1>6, <2>3, <3>1, <3>2 DEF InOrder, Heard
    <3>4. OnTask(c)'
      BY <1>0, <1>5, <3>1, <3>2 DEF OnTask
    <3> QED BY <1>3, <1>4, <3>3, <3>4 DEF Honest
  <2> QED BY <2>1, <2>2, <2>3
<1>7. CASE queue[c] # <<>>
  <2> DEFINE q == queue[c]
             t == Tail(queue[c])
             h == Head(queue[c])
  <2>1. /\ t \in Seq(Events) /\ h \in Events
        /\ \A f : Has(q, f) <=> h = f \/ Has(t, f)
        /\ \A f, g : Behind(q, f, g) <=> Behind(t, f, g) \/ (h = f /\ Has(t, g))
    BY <1>0, <1>7, HasTail
  <2>2. /\ queue' = [queue EXCEPT ![c] = t]
        /\ CASE h = "eof"  -> Ended(c)
             [] h = "data" -> row' = [row EXCEPT ![c].lived = TRUE]
             [] OTHER      -> Speaks(c)
    BY <1>7 DEF PumpRow
  <2>3. queue'[c] = t
    BY <1>0, <2>2
  <2>4. InOrder(c)'
    <3> HIDE DEF t, h
    <3>1. \A f, g : Behind(queue'[c], f, g) => Behind(q, f, g)
      BY <2>1, <2>3
    <3> QED BY <1>0, <1>1, <3>1 DEF InOrder
  <2>5. ~ (c > to)
    BY <1>0, <1>7 DEF OnTask
  <2>6. SUFFICES Heard(c)' /\ Up(c)' /\ (Said(c)' <=> Said(c)) /\
                 (task[c] \in {"none", "queued"} => ~row'[c].lived /\ ~Has(queue'[c], "data"))
    BY <1>3, <1>4, <1>5, <2>4, <2>5 DEF Honest
  <2>7. h = "eof" \/ h = "data" \/ h = "notice" \/ h = "epitaph"
    BY <2>1 DEF Events
  <2>8. CASE h = "eof"
    <3>1. /\ row'[c].slot = row[c].slot /\ row'[c].lived = row[c].lived /\ row'[c].lost = row[c].lost
          /\ row'[c].told = row[c].told
      BY <1>0, <2>2, <2>8 DEF Ended
    <3> HIDE DEF t, h
    <3>2. \A f \in Events : ~Has(t, f)
      BY <1>0, <2>1, <2>8 DEF InOrder
    <3>3. t = <<>>
      BY <2>1, <3>2, HasSome
    <3>4. \A f : Has(q, f) <=> f = "eof"
      BY <2>1, <2>8, <3>3, HasEmpty
    <3>5. task[c] = "gone" /\ queue'[c] = <<>>
      BY <1>0, <2>3, <3>3, <3>4 DEF Heard
    <3>6. Up(c)' /\ (Said(c)' <=> Said(c))
      BY <1>0, <3>1, <3>4, <3>5, HasEmpty DEF Up, Said
    <3> QED BY <1>0, <1>1, <3>1, <3>4, <3>5, <3>6, HasEmpty DEF Heard
  <2>9. CASE h = "data"
    <3>1. /\ row'[c].slot = row[c].slot /\ row'[c].lived /\ row'[c].lost = row[c].lost
          /\ row'[c].told = row[c].told /\ row'[c].ended = row[c].ended
      BY <1>0, <2>2, <2>9
    <3> HIDE DEF t, h
    <3>2. ~Has(t, "notice") /\ (Has(t, "epitaph") => conn = "down")
      BY <1>0, <2>1, <2>9 DEF InOrder
    <3>3. ~row[c].told /\ task[c] \notin {"none", "queued"} /\ ~row[c].ended /\ ~row[c].lost
      <4>1. Has(q, "data") /\ "data" \in Events \ {"eof"}
        BY <2>1, <2>9 DEF Events
      <4> QED BY <1>0, <1>7, <4>1 DEF Heard, OnTask
    <3>4. Up(c)' /\ (Said(c)' <=> Said(c))
      BY <1>0, <2>1, <2>3, <2>9, <3>1 DEF Up, Said
    <3>5. Has(t, "eof") => task[c] = "gone"
      BY <1>0, <2>1 DEF Heard
    <3> QED BY <1>1, <2>3, <3>1, <3>2, <3>3, <3>4, <3>5 DEF Heard
  <2>10. CASE h = "notice"
    <3>1. Has(q, "notice") /\ "notice" \in Events \ {"eof"}
      BY <2>1, <2>10 DEF Events
    <3>2. ~row[c].lived /\ ~row[c].told /\ ~row[c].ended
      BY <1>0, <1>7, <3>1 DEF Heard
    <3>3. /\ row'[c].slot = row[c].slot /\ row'[c].lived = row[c].lived /\ row'[c].lost = row[c].lost
          /\ row'[c].told = row[c].told /\ row'[c].ended = row[c].ended
      BY <1>0, <2>2, <2>10, <3>2 DEF Speaks
    <3> HIDE DEF t, h
    <3>4. Up(c)' /\ (Said(c)' <=> Said(c))
      BY <1>0, <2>1, <2>3, <2>10, <3>3 DEF Up, Said
    <3>5. \A f : Has(queue'[c], f) => Has(q, f)
      BY <2>1, <2>3
    <3> QED BY <1>0, <1>1, <3>2, <3>3, <3>4, <3>5 DEF Heard, OnTask
  <2>11. CASE h = "epitaph"
    <3>1. Has(q, "epitaph") /\ "epitaph" \in Events \ {"eof"}
      BY <2>1, <2>11 DEF Events
    <3>2. ~row[c].told /\ ~row[c].ended /\ ~row[c].lost /\ (row[c].lived => conn = "down")
      BY <1>0, <1>7, <3>1 DEF Heard
    <3>3. /\ row'[c].slot = row[c].slot /\ row'[c].lived = row[c].lived
          /\ row'[c].lost = row[c].lived /\ row'[c].told /\ row'[c].ended = row[c].ended
      <4>1. row[c].lived \in BOOLEAN /\ row[c].lost = FALSE
        BY <1>0, <3>2
      <4> QED BY <1>0, <2>2, <2>11, <4>1 DEF Speaks
    <3> HIDE DEF t, h
    <3>4. \A f \in Events \ {"eof"} : ~Has(t, f)
      BY <1>0, <2>1, <2>11 DEF InOrder
    <3>5. Up(c)' /\ Said(c)' /\ Said(c)
      BY <1>0, <3>1, <3>3 DEF Up, Said
    <3>6. \A f : Has(queue'[c], f) => Has(q, f)
      BY <2>1, <2>3
    <3>7. "notice" \in Events \ {"eof"} /\ "epitaph" \in Events \ {"eof"}
      BY DEF Events
    <3> QED BY <1>0, <1>1, <2>3, <3>2, <3>3, <3>4, <3>5, <3>6, <3>7 DEF Heard, OnTask
  <2> QED BY <2>7, <2>8, <2>9, <2>10, <2>11
<1> QED BY <1>6, <1>7

\* The rest of the window's and the person's steps.
LEMMA WindowHonest ==
  ASSUME LinkInv, RowStep \/ PumpSweep \/ PumpAsks \/ PromptKey \/ Detach \/ ConnDies
  PROVE  \A d \in Chan : Honest(d)'
<1>0. /\ \A d \in Chan : InOrder(d) /\ Heard(d) /\ OnTask(d)
      /\ row \in [Chan -> [slot : Slot \cup {0}, lived : BOOLEAN, lost : BOOLEAN, told : BOOLEAN, ended : BOOLEAN]]
      /\ cmds \in [Chan -> Seq(0 .. 2)] /\ 0 \notin Slot
  BY SshLinkAssumption DEF LinkInv, Honest, SshTypeOK, Slot
<1>1. CASE PumpStart \/ PumpAsks \/ PromptKey \/ Detach \/ ConnDies
  <2>1. /\ UNCHANGED <<stage, script, to, task, queue, cmds, row, far>> /\ (record' => record)
        /\ conn' = conn \/ (conn = "up" /\ conn' = "down")
    BY <1>1 DEF PumpStart, PumpAsks, PromptKey, Detach, ConnDies, DropRecord,
       wordVars, farVars, taskVars, rowVars
  <2>2. \A d \in Chan : Steady(d)
    BY <2>1, SteadyStep
  <2> QED BY <2>1, <2>2, StoriesKept
<1>2. CASE PumpSweep
  <2>1. /\ UNCHANGED <<stage, script, to, task, conn, far>> /\ (record' => record) /\ Drops(Died)
        /\ Died \in SUBSET Rows
    BY <1>2 DEF PumpSweep, DropRecord, wordVars, farVars, Died
  <2>2. \A d \in Chan : Steady(d)
    BY <2>1, SteadyStep
  <2> QED BY <2>1, <2>2, DropsHonest
<1>3. ASSUME NEW c \in Chan, CloseRow(c) PROVE \A d \in Chan : Honest(d)'
  <2>1. UNCHANGED <<stage, script, to, task, conn, far, record>> /\ Drops({c}) /\ {c} \in SUBSET Rows
    BY <1>3 DEF CloseRow, wordVars, farVars, Rows
  <2>2. \A d \in Chan : Steady(d)
    BY <2>1, SteadyStep
  <2> QED BY <2>1, <2>2, DropsHonest
<1>4. ASSUME NEW c \in Chan, Type(c), NEW d \in Chan PROVE Honest(d)'
  <2>1. UNCHANGED <<stage, script, to, task, conn, far, record, queue, row>> /\ Up(c)
    BY <1>4 DEF Type, wordVars, farVars
  <2>2. PICK n \in 1 .. 2 : cmds' = IF task[c] = "gone" THEN cmds ELSE [cmds EXCEPT ![c] = Append(@, n)]
    BY <1>4 DEF Type
  <2>3. cmds'[d] = cmds[d] \/ (d = c /\ cmds'[d] = Append(cmds[d], n))
    BY <1>0, <2>2
  <2>4. Up(d) => ~Has(cmds'[d], Close)
    <3>1. n \in 0 .. 2 /\ n # Close
      BY DEF Close
    <3>2. cmds[d] \in Seq(0 .. 2)
      BY <1>0
    <3>3. Has(Append(cmds[d], n), Close) <=> Has(cmds[d], Close) \/ Close = n
      BY <3>1, <3>2, HasAppend
    <3> QED BY <1>0, <2>3, <3>1, <3>3 DEF OnTask
  <2>5. task[d] = "none" => cmds'[d] = cmds[d]
    BY <1>0, <2>1, <2>3 DEF OnTask
  <2>6. Steady(d)
    BY <2>1, SteadyStep
  <2>7. /\ queue'[d] = queue[d] /\ task'[d] = task[d] /\ far'[d] = far[d] /\ row'[d] = row[d]
        /\ ((row'[d].slot # 0) <=> Up(d))
    BY <2>1 DEF Up
  <2> QED BY <2>4, <2>5, <2>6, <2>7, Undisturbed
<1>5. ASSUME NEW c \in Chan, NEW s \in Slot, Store(c, s), NEW d \in Chan PROVE Honest(d)'
  <2>1. UNCHANGED <<stage, script, to, task, conn, far, record, queue, cmds>> /\ Up(c)
    BY <1>5 DEF Store, wordVars, farVars, taskVars
  <2>2. row'[d] = IF d = c THEN [row[d] EXCEPT !.slot = s]
                  ELSE IF row[d].slot = s THEN [row[d] EXCEPT !.slot = row[c].slot]
                  ELSE row[d]
    BY <1>5 DEF Store
  <2>3. /\ row'[d].lived = row[d].lived /\ row'[d].lost = row[d].lost
        /\ row'[d].told = row[d].told /\ row'[d].ended = row[d].ended
        /\ (row'[d].slot # 0) <=> Up(d)
        /\ ~Up(d) => row'[d] = row[d]
    BY <1>0, <2>1, <2>2 DEF Up
  <2>4. Steady(d)
    BY <2>1, SteadyStep
  <2>5. queue'[d] = queue[d] /\ task'[d] = task[d] /\ far'[d] = far[d] /\ cmds'[d] = cmds[d]
    BY <2>1
  <2>6. Up(d) => ~Has(cmds'[d], Close)
    BY <1>0, <2>5 DEF OnTask
  <2> QED BY <2>3, <2>4, <2>5, <2>6, Undisturbed
<1> QED BY <1>1, <1>2, <1>3, <1>4, <1>5, ReadHonest DEF RowStep

\* A channel is opened: its row hears nothing yet.
LEMMA OpeningHonest ==
  ASSUME LinkInv, Opening
  PROVE  \A d \in Chan : Honest(d)'
<1>0. /\ \A d \in Chan : InOrder(d) /\ Heard(d) /\ OnTask(d)
      /\ task \in [Chan -> {"none", "queued", "driving", "holding", "saying", "ending", "gone"}]
      /\ row \in [Chan -> [slot : Slot \cup {0}, lived : BOOLEAN, lost : BOOLEAN, told : BOOLEAN, ended : BOOLEAN]]
      /\ 0 \notin Slot
  BY SshLinkAssumption DEF LinkInv, Honest, SshTypeOK, Slot
<1>1. PICK s \in Slot, c \in Chan :
        /\ task[c] = "none" /\ task' = [task EXCEPT ![c] = "queued"] /\ row' = [row EXCEPT ![c] = NewRow(s)]
        /\ UNCHANGED <<stage, script, to, record, conn, far, queue, cmds>>
  BY DEF Opening, OpenChannel, wordVars, farVars
<1>2. \A d \in Chan : Steady(d)
  BY <1>1, SteadyStep
<1>3. ASSUME NEW d \in Chan, d # c PROVE Honest(d)'
  <2>1. /\ queue'[d] = queue[d] /\ task'[d] = task[d] /\ far'[d] = far[d] /\ row'[d] = row[d]
        /\ cmds'[d] = cmds[d] /\ ((row'[d].slot # 0) <=> Up(d))
    BY <1>0, <1>1, <1>3 DEF Up
  <2>2. Up(d) => ~Has(cmds'[d], Close)
    BY <1>0, <2>1 DEF OnTask
  <2> QED BY <1>2, <2>1, <2>2, Undisturbed
<1>4. Honest(c)'
  <2>1. ~Up(c) /\ queue[c] = <<>> /\ cmds[c] = <<>>
    BY <1>0, <1>1 DEF OnTask, Heard
  <2>2. /\ queue'[c] = <<>> /\ cmds'[c] = <<>> /\ task'[c] = "queued" /\ row'[c] = NewRow(s)
    BY <1>0, <1>1, <2>1
  <2>3. /\ Up(c)' /\ ~row'[c].lived /\ ~row'[c].lost /\ ~row'[c].told /\ ~row'[c].ended
    BY <1>0, <2>2 DEF NewRow, NoRow, Up
  <2>4. InOrder(c)' /\ Heard(c)' /\ ~Said(c)'
    BY <2>2, <2>3, HasEmpty DEF InOrder, Heard, Said
  <2>5. c # to
    BY <1>1 DEF LinkInv, InTurn
  <2>6. OnTask(c)'
    BY <1>1, <2>2, <2>3, <2>4, <2>5, HasEmpty DEF OnTask
  <2> QED BY <2>4, <2>6 DEF Honest
<1> QED BY <1>3, <1>4

\* So every step keeps every story.
LEMMA HonestKept ==
  ASSUME LinkInv, Next
  PROVE  \A d \in Chan : Honest(d)'
BY StepKinds, SupervisorHonest, SendHonest, LeaveHonest, TaskHonest, WindowHonest, OpeningHonest

-----------------------------------------------------------------------------
(***************************************************************************)
(* The budget, and what a question follows.                                *)
(***************************************************************************)
\* Every step keeps the counter to the writes.
LEMMA BudgetKept ==
  ASSUME LinkInv, Next
  PROVE  \A d \in Chan : InBudget(d)'
<1>0. /\ \A d \in Chan : InBudget(d)
      /\ task \in [Chan -> {"none", "queued", "driving", "holding", "saying", "ending", "gone"}]
      /\ cmds \in [Chan -> Seq(0 .. 2)] /\ queued \in [Chan -> Nat] /\ INPUT_CAP \in Nat
  BY SshLinkAssumption DEF LinkInv, SshTypeOK
<1>1. ASSUME NEW d \in Chan, queued'[d] = queued[d],
             task'[d] # "gone" => cmds'[d] = cmds[d] /\ task[d] # "gone"
      PROVE  InBudget(d)'
  BY <1>0, <1>1 DEF InBudget
<1>2. ASSUME UNCHANGED queued, UNCHANGED cmds \/ DropWrites,
             \A d \in Chan : task[d] = "gone" => task'[d] = "gone"
      PROVE  \A d \in Chan : InBudget(d)'
  BY <1>0, <1>1, <1>2, DropWritesTypes
<1>3. CASE AuthAction
  <2>1. AuthStep
    BY <1>3, AuthIsAStep DEF LinkInv
  <2>2. UNCHANGED <<queued, cmds, task>>
    BY <2>1 DEF AuthStep, taskVars
  <2> QED BY <1>2, <2>2
<1>4. CASE SupSend \/ Raise \/ Serve \/ HangUp \/ Leave
  <2>1. UNCHANGED queued /\ (UNCHANGED cmds \/ DropWrites)
    BY <1>4 DEF SupSend, Raise, Serve, HangUp, Leave, taskVars
  <2>2. \A d \in Chan : task[d] = "gone" => task'[d] = "gone"
    <3>1. CASE SupSend
      BY <1>0, <3>1 DEF SupSend
    <3>2. CASE Raise
      <4>1. task[to] = "queued"
        BY <3>2 DEF Raise, LinkInv, InTurn
      <4> QED BY <1>0, <3>2, <4>1 DEF Raise
    <3>3. CASE Serve \/ HangUp \/ Leave
      BY <3>3 DEF Serve, HangUp, Leave, taskVars
    <3> QED BY <1>4, <3>1, <3>2, <3>3
  <2> QED BY <1>2, <2>1, <2>2
<1>5. ASSUME NEW c \in Chan, TakeMessage(c) \/ HandOver(c) \/ TaskEnds(c) \/ FarSends(c)
      PROVE  \A d \in Chan : InBudget(d)'
  <2>1. UNCHANGED queued /\ (UNCHANGED cmds \/ DropWrites)
    BY <1>5 DEF TakeMessage, HandOver, TaskEnds, FarSends, taskVars
  <2>2. \A d \in Chan : task[d] = "gone" => task'[d] = "gone"
    <3>1. TaskStep
      BY <1>5 DEF TaskStep
    <3> QED BY <3>1, TasksMove DEF Moves
  <2> QED BY <1>2, <2>1, <2>2
<1>6. ASSUME NEW c \in Chan, TakeWrite(c), NEW d \in Chan PROVE InBudget(d)'
  <2>1. /\ task[c] = "driving" /\ cmds[c] # <<>>
        /\ queued' = [queued EXCEPT ![c] = queued[c] - Head(cmds[c])]
        /\ cmds' = [cmds EXCEPT ![c] = Tail(cmds[c])]
    BY <1>6 DEF TakeWrite
  <2>2. task[d] = "gone" => task'[d] = "gone"
    <3>1. TaskStep
      BY <1>6 DEF TaskStep
    <3> QED BY <3>1, TasksMove DEF Moves
  <2>3. CASE d = c
    <3>1. /\ queued[c] - Head(cmds[c]) <= queued[c] /\ queued[c] - Head(cmds[c]) \in Nat
          /\ Fits(Tail(cmds[c]), queued[c] - Head(cmds[c]))
      BY <1>0, <2>1, FitsTail DEF InBudget
    <3>2. cmds'[c] = Tail(cmds[c]) /\ queued'[c] = queued[c] - Head(cmds[c])
      BY <1>0, <2>1
    <3>3. queued[c] \in Nat /\ queued[c] <= INPUT_CAP
      BY <1>0 DEF InBudget
    <3>4. queued'[c] <= INPUT_CAP /\ Fits(cmds'[c], queued'[c])
      BY <1>0, <3>1, <3>2, <3>3
    <3> QED BY <2>3, <3>4 DEF InBudget
  <2>4. CASE d # c
    BY <1>0, <1>1, <2>1, <2>2, <2>4
  <2> QED BY <2>3, <2>4
<1>7. ASSUME NEW c \in Chan, Type(c), NEW d \in Chan PROVE InBudget(d)'
  <2>1. UNCHANGED task
    BY <1>7 DEF Type
  <2>2. PICK n \in 1 .. 2 :
          /\ queued[c] + n <= INPUT_CAP
          /\ queued' = [queued EXCEPT ![c] = @ + n]
          /\ cmds' = IF task[c] = "gone" THEN cmds ELSE [cmds EXCEPT ![c] = Append(@, n)]
    BY <1>7 DEF Type
  <2>3. CASE d = c
    <3>1. queued'[c] = queued[c] + n
      BY <1>0, <2>2
    <3>2. CASE task[c] = "gone"
      BY <2>1, <2>2, <2>3, <3>1, <3>2 DEF InBudget
    <3>3. CASE task[c] # "gone"
      <4>1. cmds'[c] = Append(cmds[c], n)
        BY <1>0, <2>2, <3>3
      <4>2. n \in 0 .. 2 /\ queued[c] \in Nat /\ cmds[c] \in Seq(0 .. 2) /\ Fits(cmds[c], queued[c])
        BY <1>0, <3>3 DEF InBudget
      <4>3. Fits(cmds'[c], queued'[c])
        BY <2>2, <3>1, <4>1, <4>2, FitsAppend
      <4> QED BY <2>2, <2>3, <3>1, <4>3 DEF InBudget
    <3> QED BY <3>2, <3>3
  <2>4. CASE d # c
    BY <1>0, <1>1, <2>1, <2>2, <2>4
  <2> QED BY <2>3, <2>4
<1>8. ASSUME NEW gone \in SUBSET Chan, Drops(gone), UNCHANGED <<task, queued>>, NEW d \in Chan
      PROVE  InBudget(d)'
  <2>1. cmds'[d] = IF d \in gone /\ task[d] # "gone" THEN Append(cmds[d], Close) ELSE cmds[d]
    BY <1>8, DropsTypes DEF LinkInv
  <2>2. CASE d \in gone /\ task[d] # "gone"
    <3>1. cmds'[d] = Append(cmds[d], Close) /\ queued'[d] = queued[d] /\ queued[d] + Close = queued[d]
      BY <1>0, <1>8, <2>1, <2>2 DEF Close
    <3>2. Close \in 0 .. 2 /\ queued[d] \in Nat /\ cmds[d] \in Seq(0 .. 2) /\ Fits(cmds[d], queued[d])
          /\ queued[d] <= INPUT_CAP
      BY <1>0, <2>2 DEF InBudget, Close
    <3>3. Fits(cmds'[d], queued[d] + Close)
      BY <3>1, <3>2, FitsAppend
    <3>4. Fits(cmds'[d], queued'[d])
      BY <3>1, <3>3
    <3> QED BY <3>1, <3>2, <3>4 DEF InBudget
  <2>3. CASE ~ (d \in gone /\ task[d] # "gone")
    BY <1>1, <1>8, <2>1, <2>3
  <2> QED BY <2>2, <2>3
<1>9. CASE PumpSweep
  <2>1. Died \in SUBSET Chan /\ Drops(Died) /\ UNCHANGED <<task, queued>>
    BY <1>9 DEF PumpSweep, Died, Rows
  <2> QED BY <1>8, <2>1
<1>10. ASSUME NEW c \in Chan, CloseRow(c) PROVE \A d \in Chan : InBudget(d)'
  <2>1. {c} \in SUBSET Chan /\ Drops({c}) /\ UNCHANGED <<task, queued>>
    BY <1>10 DEF CloseRow
  <2> QED BY <1>8, <2>1
<1>11. CASE PumpStart \/ PumpAsks \/ PromptKey \/ Detach \/ ConnDies
  <2>1. UNCHANGED <<queued, cmds, task>>
    BY <1>11 DEF PumpStart, PumpAsks, PromptKey, Detach, ConnDies, taskVars
  <2> QED BY <1>2, <2>1
<1>12. ASSUME NEW c \in Chan, NEW s \in Slot, PumpRow(c) \/ Store(c, s) PROVE \A d \in Chan : InBudget(d)'
  <2>1. UNCHANGED <<queued, cmds, task>>
    BY <1>12 DEF PumpRow, Store, taskVars
  <2> QED BY <1>2, <2>1
<1>13. CASE Opening
  <2>1. PICK c \in Chan : /\ task[c] = "none" /\ task' = [task EXCEPT ![c] = "queued"]
                          /\ UNCHANGED <<cmds, queued>>
    BY <1>13 DEF Opening, OpenChannel
  <2>2. \A d \in Chan : task[d] = "gone" => task'[d] = "gone"
    BY <1>0, <2>1
  <2> QED BY <1>2, <2>1, <2>2
<1>14. 1 \in Slot
  BY SshLinkAssumption DEF Slot
<1> QED BY <1>3, <1>4, <1>5, <1>6, <1>7, <1>9, <1>10, <1>11, <1>12, <1>13, <1>14, StepKinds
        DEF TaskStep, RowStep

\* While a question stands nothing is said on a wire: the connection's thread
\* is parked, and no task runs yet.
LEMMA NothingSpeaks ==
  ASSUME LinkInv, prompt
  PROVE  ~SupSend /\ ~TaskStep
<1>1. waiting
  <2>1. 0 \in Places
    BY DEF Places
  <2> QED BY <2>1 DEF LinkInv, Asked, QuestionHeldOnce
<1>2. stage \in Auth /\ script = <<>> /\ ~Over
  BY <1>1 DEF LinkInv, Asked, AskStages, Auth, Over
<1>3. to = 1 /\ task[to] = "queued" /\ \A c \in Chan : c > to => task[c] \in {"none", "queued"}
  BY <1>2 DEF LinkInv, InTurn
<1>4. \A c \in Chan : task[c] \in {"none", "queued"}
  <2>1. \A c \in Chan : c = 1 \/ c > 1
    BY SshLinkAssumption DEF Chan
  <2> QED BY <1>3, <2>1
<1>5. ~SupSend
  BY <1>2 DEF SupSend
<1>6. ASSUME NEW c \in Chan
      PROVE  ~ (TakeWrite(c) \/ TakeMessage(c) \/ HandOver(c) \/ TaskEnds(c) \/ FarSends(c))
  <2>1. task[c] \notin {"driving", "holding", "saying", "ending"}
    BY <1>4
  <2> QED BY <2>1 DEF TakeWrite, TakeMessage, HandOver, TaskEnds, FarSends
<1> QED BY <1>5, <1>6 DEF TaskStep

\* The pump goes past a row when it has read it.
LEMMA FollowsKept ==
  ASSUME LinkInv, Next
  PROVE  Follows'
<1>0. /\ Follows /\ \A d \in Chan : InOrder(d) /\ Heard(d)
      /\ queue \in [Chan -> Seq(Events)]
      /\ row \in [Chan -> [slot : Slot \cup {0}, lived : BOOLEAN, lost : BOOLEAN, told : BOOLEAN, ended : BOOLEAN]]
      /\ pump \in 0 .. AtDesk /\ prompt \in BOOLEAN
  BY DEF LinkInv, Honest, SshTypeOK
<1>n. /\ Channels \in Nat /\ Chan = 1 .. Channels /\ Sweeping = Channels + 1 /\ AtDesk = Channels + 2
  BY SshLinkAssumption DEF Chan, Sweeping, AtDesk
<1>1. CASE UNCHANGED <<row, pump>> /\ (prompt' => prompt /\ UNCHANGED queue)
  BY <1>0, <1>1 DEF Follows, Up, At
<1>2. CASE pump' \notin 1 .. Sweeping
  BY <1>n, <1>2 DEF Follows
<1>3. CASE AuthAction
  <2>1. AuthStep
    BY <1>3, AuthIsAStep DEF LinkInv
  <2>2. UNCHANGED <<row, pump, queue>> /\ UNCHANGED prompt
    BY <2>1 DEF AuthStep, taskVars, rowVars
  <2> QED BY <1>1, <2>2
<1>4. CASE Raise \/ Serve \/ HangUp \/ Leave \/ ConnDies
  <2>1. UNCHANGED <<row, pump, queue, prompt>>
    BY <1>4 DEF Raise, Serve, HangUp, Leave, ConnDies, taskVars, rowVars, askVars
  <2> QED BY <1>1, <2>1
<1>5. CASE SupSend \/ TaskStep
  <2>1. ~prompt
    BY <1>5, NothingSpeaks
  <2>2. UNCHANGED <<row, pump, prompt>>
    <3>1. CASE SupSend
      BY <3>1 DEF SupSend, rowVars, askVars
    <3>2. CASE TaskStep
      BY <3>2 DEF TaskStep, TakeWrite, TakeMessage, HandOver, TaskEnds, FarSends, rowVars, askVars
    <3> QED BY <1>5, <3>1, <3>2
  <2> QED BY <1>1, <2>1, <2>2
<1>6. CASE PumpSweep \/ PumpAsks
  <2>1. pump' \in {0, AtDesk}
    BY <1>6 DEF PumpSweep, PumpAsks
  <2>2. 0 \notin 1 .. Sweeping /\ AtDesk \notin 1 .. Sweeping
    BY <1>n
  <2> QED BY <1>2, <2>1, <2>2
<1>7. CASE PromptKey \/ Detach
  <2>1. UNCHANGED <<row, pump>> /\ prompt' = FALSE
    BY <1>7 DEF PromptKey, Detach, DropRecord, rowVars
  <2> QED BY <1>1, <2>1
<1>8. ASSUME NEW c \in Chan, NEW s \in Slot, Type(c) \/ CloseRow(c) \/ Store(c, s) \/ OpenChannel(s)
      PROVE  Follows'
  <2>1. pump' = 0
    BY <1>8 DEF Type, CloseRow, Store, OpenChannel, Idle
  <2>2. 0 \notin 1 .. Sweeping
    BY <1>n
  <2> QED BY <1>2, <2>1, <2>2
<1>9. CASE PumpStart
  <2>1. pump' = After(0) /\ UNCHANGED <<row, queue, prompt>>
    BY <1>9 DEF PumpStart, taskVars, askVars
  <2>2. /\ \A d \in Rows : 0 < d /\ d < After(0) => row[d].ended
        /\ After(0) \in Chan => After(0) \in Rows
    BY <1>n, AfterProperties DEF LinkInv
  <2>3. \A d \in Chan : Up(d) /\ d < After(0) => queue[d] = <<>>
    BY <1>0, <1>n, <2>2 DEF Rows, Heard
  <2>4. \A d \in Chan : row'[d].slot = 1 => Up(d)
    BY <2>1 DEF Up
  <2> QED BY <2>1, <2>2, <2>3, <2>4 DEF Follows, At, Rows, Up
<1>10. ASSUME NEW c \in Chan, PumpRow(c) PROVE Follows'
  <2>1. pump = c /\ UNCHANGED prompt
    BY <1>10 DEF PumpRow, askVars
  <2>2. /\ \A d \in Chan : row'[d].slot = row[d].slot
        /\ \A d \in Chan : d # c => queue'[d] = queue[d]
    <3>1. UNCHANGED row \/ Ended(c) \/ row' = [row EXCEPT ![c].lived = TRUE] \/ Speaks(c)
      BY <1>10 DEF PumpRow
    <3>2. \A d \in Chan : row'[d].slot = row[d].slot
      BY <1>0, <3>1 DEF Ended, Speaks
    <3>3. UNCHANGED queue \/ queue' = [queue EXCEPT ![c] = Tail(@)]
      BY <1>10 DEF PumpRow
    <3> QED BY <1>0, <3>2, <3>3
  <2>3. pump' = c \/ (pump' = After(c) /\ queue'[c] = <<>>)
    <3>1. CASE queue[c] = <<>>
      BY <1>10, <3>1 DEF PumpRow
    <3>2. CASE queue[c] # <<>> /\ Head(queue[c]) # "eof"
      BY <1>10, <2>1, <3>2 DEF PumpRow
    <3>3. CASE queue[c] # <<>> /\ Head(queue[c]) = "eof"
      <4>1. pump' = After(c) /\ queue' = [queue EXCEPT ![c] = Tail(@)]
        BY <1>10, <3>3 DEF PumpRow
      <4>2. \A e \in Events : ~Behind(queue[c], "eof", e)
        BY <1>0 DEF InOrder
      <4>3. Tail(queue[c]) \in Seq(Events) /\ \A e \in Events : ~Has(Tail(queue[c]), e)
        BY <1>0, <3>3, <4>2, HasTail
      <4>4. Tail(queue[c]) = <<>>
        BY <4>3, HasSome
      <4> QED BY <1>0, <4>1, <4>4
    <3> QED BY <3>1, <3>2, <3>3
  <2>4. /\ \A d \in Rows : c < d /\ d < After(c) => row[d].ended
        /\ After(c) \in Chan => After(c) \in Rows
    <3>1. c \in 0 .. Channels
      BY <1>n
    <3> QED BY <3>1, AfterProperties DEF LinkInv
  <2>5. pump' \in Chan => row'[pump'].slot # 0
    <3>1. Up(c)
      BY <1>0, <2>1 DEF Follows
    <3> QED BY <2>2, <2>3, <2>4, <3>1 DEF Up, Rows
  <2>6. ASSUME prompt', NEW d \in Chan, row'[d].slot = 1, d < pump', pump' \in 1 .. Sweeping
        PROVE  queue'[d] = <<>>
    <3>1. row[d].slot = 1 /\ prompt /\ c \in 1 .. Sweeping /\ c \in Nat /\ d \in Nat /\ pump' \in Nat
      BY <1>n, <2>1, <2>2, <2>6
    <3>2. CASE d < c
      <4>1. queue[d] = <<>>
        BY <1>0, <2>1, <3>1, <3>2 DEF Follows, At
      <4> QED BY <2>2, <3>1, <3>2, <4>1
    <3>3. CASE d = c
      BY <2>3, <2>6, <3>1, <3>3
    <3>4. CASE d > c
      <4>1. pump' = After(c)
        BY <2>3, <2>6, <3>1, <3>4
      <4>2. row[d].ended
        BY <2>4, <2>6, <3>1, <3>4, <4>1 DEF Rows, Up
      <4> QED BY <1>0, <2>2, <3>1, <3>4, <4>2 DEF Heard
    <3> QED BY <3>1, <3>2, <3>3, <3>4
  <2> QED BY <2>5, <2>6 DEF Follows, At, Up
<1>11. 1 \in Slot /\ 1 \in Chan
  BY SshLinkAssumption DEF Slot, Chan
<1> QED BY <1>3, <1>4, <1>5, <1>6, <1>7, <1>8, <1>9, <1>10, <1>11, StepKinds DEF RowStep, Opening

-----------------------------------------------------------------------------
(***************************************************************************)
(* The invariant.                                                          *)
(***************************************************************************)
\* It holds when the window opens on the connection.
LEMMA LinkInvInit == Init => LinkInv
<1> SUFFICES ASSUME Init PROVE LinkInv
  OBVIOUS
<1> USE DEF Init
<1>0. /\ Channels \in Nat \ {0} /\ Chan = 1 .. Channels /\ Slot = 1 .. Channels /\ 1 \in Chan /\ 1 \in Slot
      /\ AtDesk = Channels + 2 /\ EVENT_QUEUE \in Nat \ {0} /\ INPUT_CAP \in Nat
      /\ PASSPHRASE_TRIES \in Nat /\ KeyFiles \in Nat /\ Rounds \in Nat /\ Traffic \in Nat
  BY SshLinkAssumption DEF Chan, Slot, AtDesk
<1>1. \A c \in Chan : /\ task[c] = IF c = 1 THEN "queued" ELSE "none"
                      /\ row[c] = IF c = 1 THEN NewRow(1) ELSE NoRow
                      /\ queue[c] = <<>> /\ cmds[c] = <<>> /\ far[c] = <<>> /\ queued[c] = 0
  OBVIOUS
<1>2. ASSUME NEW r \in {NewRow(1), NoRow}
      PROVE  /\ r \in [slot : Slot \cup {0}, lived : BOOLEAN, lost : BOOLEAN, told : BOOLEAN, ended : BOOLEAN]
             /\ ~r.told /\ ~r.lived /\ ~r.lost /\ ~r.ended
             /\ r.slot = IF r = NoRow THEN 0 ELSE 1
  <2> HIDE DEF Init
  <2> DEFINE T == [slot : Slot \cup {0}, lived : BOOLEAN, lost : BOOLEAN, told : BOOLEAN, ended : BOOLEAN]
  <2>1. NoRow \in T /\ NoRow.slot = 0 /\ ~NoRow.told /\ ~NoRow.lived /\ ~NoRow.lost /\ ~NoRow.ended
    BY DEF NoRow
  <2>2. NewRow(1) \in T /\ NewRow(1).slot = 1 /\ NewRow(1).told = NoRow.told /\ NewRow(1).lived = NoRow.lived
        /\ NewRow(1).lost = NoRow.lost /\ NewRow(1).ended = NoRow.ended
    <3> HIDE DEF NoRow
    <3> QED BY <1>0, <2>1 DEF NewRow
  <2> HIDE DEF T
  <2>3. CASE r = NoRow
    BY <2>1, <2>3 DEF T
  <2>4. CASE r = NewRow(1)
    BY <2>1, <2>2, <2>4 DEF T
  <2> QED BY <1>2, <2>3, <2>4
<1>3. script = Remark /\ stage = "connect" /\ to = 1 /\ opens = <<>> /\ Len(opens) = 0 /\ 1 .. 0 = {}
  BY DEF Remark
<1>4. SshTypeOK
  <2>1. script \in Seq({"notice", "epitaph", "eof"}) /\ stage \in Stages
    <3> HIDE DEF Init
    <3>1. "connect" \in Stages
      BY DEF Stages
    <3>2. Remark \in Seq({"notice", "epitaph", "eof"})
      BY Scripts
    <3> QED BY <1>3, <3>1, <3>2
  <2>2. desk \in Seq({"say", "question"}) /\ opens \in Seq(Chan)
    <3>1. desk \in {<<>>, <<"say">>} /\ opens = <<>>
      OBVIOUS
    <3> HIDE DEF Init
    <3>2. <<>> \in Seq({"say", "question"}) /\ <<"say">> \in Seq({"say", "question"}) /\ <<>> \in Seq(Chan)
      OBVIOUS
    <3> QED BY <3>1, <3>2
  <2>3. far \in [Chan -> Seq({"data", "close"})] /\ queue \in [Chan -> Seq(Events)] /\ cmds \in [Chan -> Seq(0 .. 2)]
    OBVIOUS
  <2>4. \A c \in Chan : Len(queue[c]) <= EVENT_QUEUE
    <3>1. Len(<<>>) = 0
      OBVIOUS
    <3> QED BY <1>0, <1>1, <3>1
  <2>5. task \in [Chan -> {"none", "queued", "driving", "holding", "saying", "ending", "gone"}]
        /\ queued \in [Chan -> Nat]
    OBVIOUS
  <2>6. row \in [Chan -> [slot : Slot \cup {0}, lived : BOOLEAN, lost : BOOLEAN, told : BOOLEAN, ended : BOOLEAN]]
    <3>1. /\ NewRow(1) \in [slot : Slot \cup {0}, lived : BOOLEAN, lost : BOOLEAN, told : BOOLEAN, ended : BOOLEAN]
          /\ NoRow \in [slot : Slot \cup {0}, lived : BOOLEAN, lost : BOOLEAN, told : BOOLEAN, ended : BOOLEAN]
      BY <1>2
    <3> QED BY <3>1
  <2>7. left \in 0 .. KeyFiles /\ tries \in 0 .. PASSPHRASE_TRIES /\ pump \in 0 .. AtDesk /\ moved \in 0 .. Traffic
    BY <1>0
  <2>8. /\ offered \subseteq Methods /\ waiting \in BOOLEAN /\ answer \in Answers \cup {"none"}
        /\ record \in BOOLEAN /\ prompt \in BOOLEAN /\ hanging \in BOOLEAN
        /\ conn \in {"none", "up", "down", "closed"} /\ to \in Chan
    BY <1>0
  <2> HIDE DEF Init
  <2> QED BY <2>1, <2>2, <2>3, <2>4, <2>5, <2>6, <2>7, <2>8 DEF SshTypeOK
<1>5. LeftFits
  BY DEF LeftFits
<1>6. Asked
  <2>1. Standing(desk, FALSE) = {}
    <3>1. Append(<<>>, "say") = <<"say">> /\ <<>> \in Seq({"say", "question"})
      OBVIOUS
    <3>2. Standing(Append(<<>>, "say"), FALSE) = Standing(<<>>, FALSE)
      BY <3>1, StandingAppend
    <3> QED BY <3>1, <3>2, StandingNone
  <2>2. QuestionHeldOnce
    BY <2>1, HeldOnce
  <2> QED BY <2>2 DEF Asked
<1>7. ScriptFits
  BY <1>3 DEF ScriptFits, Auth
<1>8. InTurn
  <2>1. ~Over
    BY <1>3 DEF Over
  <2>2. "connect" \in Auth
    BY DEF Auth
  <2>3. \A c \in Chan : c \in Nat \ {0}
    BY <1>0
  <2> HIDE DEF Init
  <2> QED BY <1>0, <1>1, <1>3, <2>1, <2>2, <2>3 DEF InTurn
<1>9. LetGo
  BY DEF LetGo
<1>10. Follows
  <2>1. pump = 0 /\ 0 \notin Chan /\ prompt = FALSE
    BY <1>0
  <2> QED BY <2>1 DEF Follows
<1>11. ASSUME NEW c \in Chan PROVE Honest(c) /\ InBudget(c)
  <2>1. /\ queue[c] = <<>> /\ cmds[c] = <<>> /\ queued[c] = 0 /\ task[c] \in {"none", "queued"}
        /\ ~row[c].told /\ ~row[c].lived /\ ~row[c].lost /\ ~row[c].ended
        /\ ~Up(c) => row[c] = NoRow
        /\ task[c] = "none" => ~Up(c)
    BY <1>1, <1>2 DEF Up
  <2>2. ~Said(c)
    BY <2>1, HasEmpty DEF Said
  <2>3. InOrder(c) /\ Heard(c)
    BY <2>1, HasEmpty DEF InOrder, Heard
  <2>4. script # Closing
    BY <1>3, Scripts
  <2> HIDE DEF Init
  <2>5. OnTask(c)
    BY <2>1, <2>2, <2>4, HasEmpty DEF OnTask
  <2>6. InBudget(c)
    BY <1>0, <2>1, FitsNothing DEF InBudget
  <2> QED BY <2>3, <2>5, <2>6 DEF Honest
<1> QED BY <1>4, <1>5, <1>6, <1>7, <1>8, <1>9, <1>10, <1>11 DEF LinkInv

\* It is kept by every step, and by none.
LEMMA LinkInvNext == LinkInv /\ [Next]_vars => LinkInv'
<1> SUFFICES ASSUME LinkInv, [Next]_vars PROVE LinkInv'
  OBVIOUS
<1>1. CASE Next
  <2>1. SshTypeOK' /\ LeftFits' /\ Asked' /\ ScriptFits' /\ InTurn' /\ LetGo' /\ Follows'
    BY <1>1, TypesKept, LeftKept, AskedKept, ScriptKept, InTurnKept, LetGoKept, FollowsKept
  <2>2. \A c \in Chan : Honest(c)' /\ InBudget(c)'
    BY <1>1, HonestKept, BudgetKept
  <2> QED BY <2>1, <2>2 DEF LinkInv
<1>2. CASE UNCHANGED vars
  <2>1. /\ UNCHANGED <<stage, script, to, left, tries, offered, waiting, answer, desk, prompt>>
        /\ UNCHANGED <<opens, record, conn, far, task, queue, cmds, queued, hanging, row, pump, moved>>
    BY <1>2 DEF vars, wordVars, authVars, askVars, farVars, taskVars, rowVars
  <2>2. SshTypeOK'
    BY <2>1 DEF LinkInv, SshTypeOK
  <2>3. LeftFits' /\ ScriptFits' /\ LetGo'
    BY <2>1 DEF LinkInv, LeftFits, ScriptFits, LetGo
  <2>4. Asked'
    BY <2>1 DEF LinkInv, Asked, QuestionHeldOnce, Places
  <2>5. InTurn'
    <3>1. Over' <=> Over
      BY <2>1 DEF Over
    <3> QED BY <2>1, <3>1 DEF LinkInv, InTurn
  <2>6. Follows'
    BY <2>1 DEF LinkInv, Follows, At, Up
  <2>7. \A c \in Chan : Honest(c)' /\ InBudget(c)'
    <3>1. ASSUME NEW c \in Chan PROVE InBudget(c)'
      BY <2>1 DEF LinkInv, InBudget
    <3>2. \A c \in Chan : Honest(c)'
      <4>1. \A d \in Chan : Steady(d)
        BY <2>1, SteadyStep
      <4> QED BY <2>1, <4>1, StoriesKept
    <3> QED BY <3>1, <3>2
  <2> QED BY <2>2, <2>3, <2>4, <2>5, <2>6, <2>7 DEF LinkInv
<1> QED BY <1>1, <1>2

\* The inductive invariant holds of every behaviour.
THEOREM LinkInvariant == Spec => []LinkInv
<1>1. Init => LinkInv
  BY LinkInvInit
<1>2. LinkInv /\ [Next]_vars => LinkInv'
  BY LinkInvNext
<1> QED BY <1>1, <1>2, PTL DEF Spec

-----------------------------------------------------------------------------
(***************************************************************************)
(* What it gives.                                                          *)
(***************************************************************************)
\* No queue of the link passes its bound, and the budget two threads count in
\* (InputBudget of ssh-link) is exactly what a living task has yet to take.
THEOREM QueuesHoldAlways == Spec => []QueuesHold
<1>1. LinkInv => QueuesHold
  <2> SUFFICES ASSUME LinkInv PROVE QueuesHold
    OBVIOUS
  <2>1. ASSUME NEW c \in Chan PROVE queued[c] <= INPUT_CAP
    BY <2>1 DEF LinkInv, InBudget
  <2>2. ASSUME NEW c \in Chan, task[c] # "gone"
        PROVE  \E total \in [0 .. Len(cmds[c]) -> 0 .. INPUT_CAP] :
                 Adds(total, cmds[c]) /\ total[Len(cmds[c])] = queued[c]
    BY <2>2 DEF LinkInv, InBudget, Fits
  <2> QED BY <2>1, <2>2 DEF LinkInv, QueuesHold, BudgetHeld
<1> QED BY <1>1, LinkInvariant, PTL

\* A question is answered once or dropped once, and stands behind the line that
\* explains it (ask.rs, window/prompt.rs): on the desk, on the glass, or nowhere.
THEOREM QuestionsInPlaceAlways == Spec => []QuestionsInPlace
<1>1. LinkInv => QuestionsInPlace
  <2> SUFFICES ASSUME LinkInv PROVE QuestionsInPlace
    OBVIOUS
  <2>1. ASSUME pump = Sweeping, prompt, NEW c \in At(1) PROVE queue[c] = <<>>
    <3>1. c \in Chan /\ c < Sweeping /\ Sweeping \in 1 .. Sweeping
      BY SshLinkAssumption DEF At, Chan, Sweeping
    <3> QED BY <2>1, <3>1 DEF LinkInv, Follows
  <2> QED BY <2>1 DEF LinkInv, Asked, QuestionsInPlace, ExplanationFollows
<1> QED BY <1>1, LinkInvariant, PTL

\* What a row shows of its end is what happened to its channel: an end without
\* bytes is explained, a loss is one this side did not make, and only a channel
\* the far side closed leaves the bank by itself (the Eof law of ssh_channel.rs).
THEOREM EndsAreHonestAlways == Spec => []EndsAreHonest
<1>1. LinkInv => EndsAreHonest
  <2> SUFFICES ASSUME LinkInv PROVE EndsAreHonest
    OBVIOUS
  <2>1. ASSUME NEW c \in Rows, row[c].ended
        PROVE  \/ row[c].told \/ FarClosed(c) \/ ~record
               \/ c > to /\ ~row[c].lived
    <3>1. c \in Chan /\ Up(c) /\ Heard(c) /\ OnTask(c)
      BY DEF Rows, LinkInv, Honest
    <3>2. queue[c] = <<>> /\ task[c] = "gone"
      BY <2>1, <3>1 DEF Heard
    <3>3. Why(c) \/ c > to
      BY <3>1, <3>2 DEF OnTask
    <3>4. Said(c) => row[c].told
      BY <3>2, HasEmpty DEF Said
    <3>5. c > to => ~row[c].lived
      BY <3>1 DEF OnTask
    <3> QED BY <3>3, <3>4, <3>5 DEF Why
  <2>2. \A c \in Rows : (row[c].lost => row[c].told /\ conn = "down") /\ (row[c].told /\ row[c].lived => row[c].lost)
    BY DEF Rows, LinkInv, Honest, Heard
  <2> QED BY <2>1, <2>2 DEF EndsAreHonest, EndIsExplained, LostIsLost, RowLeavesWhenClosed, Died
<1> QED BY <1>1, LinkInvariant, PTL
=============================================================================
