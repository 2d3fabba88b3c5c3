--------------------------- MODULE EnvelopeProofs ---------------------------
(***************************************************************************)
(* Whatever the child writes and wherever the reads cut it: the grid gets  *)
(* the shell's bytes and the wire is the gateway's, for any number of      *)
(* clients, of writes and of keystrokes, and any tty and queue.            *)
(*                                                                         *)
(* Feed and Shells fold over a sequence. That such a fold takes the steps  *)
(* one expects is proved here from its definition, once for both.          *)
(***************************************************************************)
EXTENDS Envelope, FiniteSetTheorems, FunctionTheorems, SequenceTheorems, TLAPS

-----------------------------------------------------------------------------
(***************************************************************************)
(* Folds.                                                                  *)
(***************************************************************************)
\* What holds of 0 and passes from each number to the next holds up to n.
LEMMA StepByStep ==
  ASSUME NEW n \in Nat, NEW B, 0 \in B, \A k \in 1 .. n : k - 1 \in B => k \in B
  PROVE  \A k \in 0 .. n : k \in B
<1> DEFINE Bad == {k \in 0 .. n : k \notin B}
<1> SUFFICES ASSUME Bad # {} PROVE FALSE
  OBVIOUS
<1>1. Bad \subseteq Nat
  OBVIOUS
<1>2. PICK x \in Bad : \A y \in Bad : ~ (<<y, x>> \in OpToRel(<, Nat))
  <2> HIDE DEF Bad
  <2> QED BY <1>1, NatLessThanWellFounded, WFMin
<1>3. \A y \in Bad : ~ (y < x)
  BY <1>1, <1>2 DEF OpToRel
<1>4. x \in 1 .. n /\ x - 1 \in 0 .. n /\ x - 1 < x
  OBVIOUS
<1>5. x - 1 \in B
  BY <1>3, <1>4
<1> QED BY <1>4, <1>5

\* The last of an interval, and what is left without it.
LEMMA LastOfInterval ==
  ASSUME NEW k \in Nat, k > 0
  PROVE  Max(1 .. k) = k /\ (1 .. k) \ {k} = 1 .. k - 1
BY DEF Max

\* A set of positions has a last, and none but earlier ones without it.
LEMMA MaxOfPositions ==
  ASSUME NEW k \in Nat, NEW s \in SUBSET (1 .. k), s # {}
  PROVE  Max(s) \in s /\ s \ {Max(s)} \in SUBSET (1 .. k - 1)
<1> DEFINE up == {k - x : x \in s}
<1>1. up \subseteq Nat /\ up # {}
  OBVIOUS
<1>2. PICK u \in up : \A v \in up : ~ (<<v, u>> \in OpToRel(<, Nat))
  <2> HIDE DEF up
  <2> QED BY <1>1, NatLessThanWellFounded, WFMin
<1>3. \A v \in up : ~ (v < u)
  BY <1>1, <1>2 DEF OpToRel
<1>4. PICK x \in s : u = k - x
  BY <1>2
<1>5. \A y \in s : x >= y
  BY <1>3, <1>4
<1>6. Max(s) \in s /\ \A y \in s : Max(s) >= y
  BY <1>5 DEF Max
<1>7. Max(s) \in 1 .. k /\ \A y \in s : y \in 1 .. k
  BY <1>6
<1>8. ASSUME NEW y \in s, y # Max(s) PROVE y \in 1 .. k - 1
  BY <1>6, <1>7, <1>8
<1> QED BY <1>6, <1>8

\* What a fold with steps G and start base is: a value for each set of positions.
Folding(n, base, G, it) ==
  it = [s \in SUBSET (1 .. n) |-> IF s = {} THEN base ELSE G[<<Max(s), it[s \ {Max(s)}]>>]]

\* There is one, with its values where the steps stay.
LEMMA FoldExists ==
  ASSUME NEW n \in Nat, NEW T, NEW base \in T, NEW G,
         \A k \in 1 .. n, v \in T : G[<<k, v>>] \in T
  PROVE  \E it \in [SUBSET (1 .. n) -> T] : Folding(n, base, G, it)
<1> DEFINE B == {k \in 0 .. n : \E it \in [SUBSET (1 .. k) -> T] : Folding(k, base, G, it)}
<1>1. 0 \in B
  <2> DEFINE it == [s \in SUBSET (1 .. 0) |-> base]
  <2>1. \A s \in SUBSET (1 .. 0) : s = {}
    OBVIOUS
  <2>2. Folding(0, base, G, it)
    BY <2>1 DEF Folding
  <2>3. it \in [SUBSET (1 .. 0) -> T]
    OBVIOUS
  <2> QED BY <2>2, <2>3
<1>2. ASSUME NEW k \in 1 .. n, k - 1 \in B PROVE k \in B
  <2>1. PICK g \in [SUBSET (1 .. k - 1) -> T] : Folding(k - 1, base, G, g)
    BY <1>2
  <2> DEFINE it == [s \in SUBSET (1 .. k) |-> IF s = {} THEN base ELSE G[<<Max(s), g[s \ {Max(s)}]>>]]
  <2>2. \A s \in SUBSET (1 .. k - 1) : s \in SUBSET (1 .. k)
    OBVIOUS
  <2>3. \A s \in SUBSET (1 .. k - 1) : g[s] = it[s]
    <3> SUFFICES ASSUME NEW s \in SUBSET (1 .. k - 1) PROVE g[s] = it[s]
      OBVIOUS
    <3>1. g[s] = IF s = {} THEN base ELSE G[<<Max(s), g[s \ {Max(s)}]>>]
      BY <2>1 DEF Folding
    <3>2. it[s] = IF s = {} THEN base ELSE G[<<Max(s), g[s \ {Max(s)}]>>]
      BY <2>2
    <3> QED BY <3>1, <3>2
  <2>4. \A s \in SUBSET (1 .. k) : s # {} => Max(s) \in 1 .. n /\ s \ {Max(s)} \in SUBSET (1 .. k - 1)
    <3> SUFFICES ASSUME NEW s \in SUBSET (1 .. k), s # {} PROVE Max(s) \in 1 .. n /\ s \ {Max(s)} \in SUBSET (1 .. k - 1)
      OBVIOUS
    <3>1. Max(s) \in s /\ s \ {Max(s)} \in SUBSET (1 .. k - 1)
      BY MaxOfPositions
    <3>2. \A x \in 1 .. k : x \in 1 .. n
      OBVIOUS
    <3> QED BY <3>1, <3>2
  <2>5. \A s \in SUBSET (1 .. k) : s # {} => g[s \ {Max(s)}] = it[s \ {Max(s)}]
    BY <2>3, <2>4
  <2>6. Folding(k, base, G, it)
    BY <2>5 DEF Folding
  <2>7. it \in [SUBSET (1 .. k) -> T]
    BY <2>4
  <2>8. \E i \in [SUBSET (1 .. k) -> T] : Folding(k, base, G, i)
    <3> HIDE DEF it
    <3> QED BY <2>6, <2>7
  <2>9. k \in 0 .. n
    OBVIOUS
  <2> QED BY <2>8, <2>9
<1> HIDE DEF B
<1>3. n \in B
  BY <1>1, <1>2, StepByStep
<1> QED BY <1>3 DEF B
-----------------------------------------------------------------------------
(***************************************************************************)
(* What is written, the parser, and what of a stream the shell wrote.      *)
(***************************************************************************)
Words  == {"text", "esc", "ask", "P", "q", "st", "1000p", "line", "exit"}
Tokens == [k : Words, by : 0 .. Clients]
Parser == [state : {"scan", "esc", "intro", "env", "envesc"}, held : Seq(Tokens), active : BOOLEAN,
           by : 0 .. Clients, detected : BOOLEAN, ended : BOOLEAN, body : SUBSET Tokens, exited : BOOLEAN]
Fed    == [d : Parser, grid : Seq(Tokens)]

\* Three sequences in a row are one, however they are grouped.
LEMMA WordsRegrouped == \A x, y, z \in Seq(Words) : (x \o y) \o z = x \o (y \o z)
<1> SUFFICES ASSUME NEW x \in Seq(Words), NEW y \in Seq(Words), NEW z \in Seq(Words)
             PROVE  (x \o y) \o z = x \o (y \o z)
  OBVIOUS
<1> QED BY ConcatAssociative

LEMMA TokensRegrouped == \A x, y, z \in Seq(Tokens) : (x \o y) \o z = x \o (y \o z)
<1> SUFFICES ASSUME NEW x \in Seq(Tokens), NEW y \in Seq(Tokens), NEW z \in Seq(Tokens)
             PROVE  (x \o y) \o z = x \o (y \o z)
  OBVIOUS
<1> QED BY ConcatAssociative

LEMMA ConstantFacts ==
  /\ Clients \in Nat /\ Units \in Nat /\ Keystrokes \in Nat
  /\ TTY \in Nat /\ TTY > 0 /\ INPUT_CAP \in Nat /\ INPUT_CAP > 0
BY EnvelopeAssumption

\* The parser's answer to a byte is a parser's state and what it lets through.
LEMMA FeedOneTyped ==
  ASSUME NEW f \in Fed, NEW b \in Tokens
  PROVE  FeedOne(f, b) \in Fed
<1> DEFINE held == Append(f.d.held, b)
<1>1. f.d \in Parser /\ f.grid \in Seq(Tokens) /\ f = [d |-> f.d, grid |-> f.grid]
  BY DEF Fed
<1>2. held \in Seq(Tokens) /\ <<b>> \in Seq(Tokens) /\ <<>> \in Seq(Tokens)
  BY <1>1 DEF Parser
<1>3. ASSUME NEW more \in Seq(Tokens) PROVE ToGrid(f, more, "scan") \in Fed
  <2>1. f.grid \o more \in Seq(Tokens)
    BY <1>1
  <2>2. [f EXCEPT !.grid = f.grid \o more, !.d.held = <<>>, !.d.state = "scan"] \in Fed
    <3> HIDE DEF held
    <3>1. \A g \in Seq(Tokens) : [f EXCEPT !.grid = g, !.d.held = <<>>, !.d.state = "scan"] \in Fed
      BY <1>1, <1>2 DEF Fed, Parser
    <3> QED BY <2>1, <3>1
  <2> QED BY <1>1, <2>2 DEF ToGrid
<1>4. CASE f.d.state = "scan"
  <2>1. Scan(f, b) \in Fed
    <3>1. CASE b.k = "esc"
      BY <1>1, <1>2, <3>1 DEF Scan, Fed, Parser
    <3>2. CASE b.k # "esc"
      BY <1>2, <1>3, <3>2 DEF Scan
    <3> QED BY <3>1, <3>2
  <2> QED BY <1>4, <2>1 DEF FeedOne
<1>5. CASE f.d.state \in {"esc", "intro"}
  <2>1. Introducer(f, b) \in Fed
    <3> HIDE DEF held
    <3>1. [f EXCEPT !.d.held = held, !.d.state = "intro"] \in Fed
      BY <1>1, <1>2 DEF Fed, Parser
    <3>2. [f EXCEPT !.d.held = held] \in Fed
      BY <1>1, <1>2 DEF Fed, Parser
    <3>3. [f EXCEPT !.d = [Hook(f.d, b.by) EXCEPT !.held = <<>>, !.state = "env"]] \in Fed
      BY <1>1, <1>2 DEF Fed, Parser, Hook, Tokens
    <3>4. ToGrid(f, held, "scan") \in Fed
      BY <1>2, <1>3
    <3> QED BY <3>1, <3>2, <3>3, <3>4 DEF Introducer, held
  <2> QED BY <1>5, <2>1 DEF FeedOne
<1>6. CASE f.d.state \notin {"scan", "esc", "intro"}
  <2>1. ASSUME NEW d \in Parser, NEW c \in Tokens PROVE Put(d, c) \in Parser
    <3>1. Token(IF c.k = "exit" THEN "exit" ELSE "line", c.by) \in Tokens
      BY DEF Token, Tokens, Words
    <3> QED BY <2>1, <3>1 DEF Put, Parser
  <2>2. ASSUME NEW d \in Parser PROVE InEnvelope(d, b) \in Parser
    <3>1. CASE b.k = "esc"
      BY <2>2, <3>1 DEF InEnvelope, Parser
    <3>2. CASE b.k # "esc"
      <4>1. Put(d, b) \in Parser
        BY <2>1, <2>2
      <4> QED BY <3>2, <4>1 DEF InEnvelope, Parser
    <3> QED BY <3>1, <3>2
  <2>3. Unhook(f.d) \in Parser
    BY <1>1 DEF Unhook, Parser
  <2>4. Token("esc", b.by) \in Tokens
    BY DEF Token, Tokens, Words
  <2>5. InEnvelope(f.d, b) \in Parser /\ InEnvelope(Put(f.d, Token("esc", b.by)), b) \in Parser
    BY <1>1, <2>1, <2>2, <2>4
  <2>6. \A d \in Parser : [f EXCEPT !.d = d] \in Fed
    BY <1>1 DEF Fed
  <2>7. EnvelopeByte(f, b) \in Fed
    BY <2>3, <2>5, <2>6 DEF EnvelopeByte
  <2> QED BY <1>6, <2>7 DEF FeedOne
<1> QED BY <1>4, <1>5, <1>6

\* To feed a stream is to feed its bytes in order.
LEMMA FeedWalk ==
  ASSUME NEW f \in Fed, NEW s \in Seq(Tokens)
  PROVE  \E h \in [0 .. Len(s) -> Fed] :
           h[0] = f /\ h[Len(s)] = Feed(f, s) /\ \A k \in 1 .. Len(s) : h[k] = FeedOne(h[k - 1], s[k])
<1> DEFINE n == Len(s)
           G == [p \in (1 .. n) \X Fed |-> FeedOne(p[2], s[p[1]])]
           Fold(it) == it = [S \in SUBSET DOMAIN s |-> IF S = {} THEN f ELSE FeedOne(it[S \ {Max(S)}], s[Max(S)])]
           it == CHOOSE it : it = [S \in SUBSET DOMAIN s |-> IF S = {} THEN f ELSE FeedOne(it[S \ {Max(S)}], s[Max(S)])]
<1>1. n \in Nat /\ DOMAIN s = 1 .. n /\ \A k \in 1 .. n : s[k] \in Tokens
  OBVIOUS
<1>2. Feed(f, s) = it[DOMAIN s]
  BY DEF Feed, FoldLeft, MapThenFoldSet
<1>3. \A k \in 1 .. n, v \in Fed : G[<<k, v>>] = FeedOne(v, s[k]) /\ G[<<k, v>>] \in Fed
  BY <1>1, FeedOneTyped
<1> HIDE DEF n, G
<1>4. PICK g \in [SUBSET (1 .. n) -> Fed] : Folding(n, f, G, g)
  BY <1>1, <1>3, FoldExists
<1>5. Fold(g)
  <2>1. ASSUME NEW S \in SUBSET (1 .. n), S # {} PROVE G[<<Max(S), g[S \ {Max(S)}]>>] = FeedOne(g[S \ {Max(S)}], s[Max(S)])
    <3>1. Max(S) \in 1 .. n /\ S \ {Max(S)} \in SUBSET (1 .. n)
      BY <1>1, <2>1, MaxOfPositions
    <3> QED BY <1>3, <3>1
  <2> QED BY <1>1, <1>4, <2>1 DEF Folding
<1>6. Fold(it)
  BY <1>5
<1> HIDE DEF it
<1> DEFINE h == [k \in 0 .. n |-> it[1 .. k]]
<1>7. h[0] = f
  <2>1. 1 .. 0 = {} /\ 1 .. 0 \in SUBSET (1 .. n) /\ 0 \in 0 .. n
    BY <1>1
  <2> QED BY <1>1, <1>6, <2>1
<1>8. ASSUME NEW k \in 1 .. n PROVE h[k] = FeedOne(h[k - 1], s[k])
  <2>1. 1 .. k \in SUBSET (1 .. n) /\ k - 1 \in 0 .. n /\ k \in 0 .. n /\ k \in Nat /\ k > 0
    BY <1>1
  <2>0. 1 .. k # {}
    BY <2>1
  <2>2. it[1 .. k] = FeedOne(it[(1 .. k) \ {Max(1 .. k)}], s[Max(1 .. k)])
    BY <1>1, <1>6, <2>0, <2>1
  <2>3. Max(1 .. k) = k /\ (1 .. k) \ {k} = 1 .. k - 1
    BY <2>1, LastOfInterval
  <2>4. h[k] = it[1 .. k] /\ h[k - 1] = it[1 .. k - 1]
    BY <2>1
  <2> HIDE DEF h
  <2> QED BY <2>2, <2>3, <2>4
<1>9. h[n] = Feed(f, s)
  BY <1>1, <1>2
<1> HIDE DEF h
<1>10. \A k \in 0 .. n : h[k] \in Fed
  <2> DEFINE B == {k \in 0 .. n : h[k] \in Fed}
  <2>1. 0 \in B
    BY <1>1, <1>7
  <2>2. ASSUME NEW k \in 1 .. n, k - 1 \in B PROVE k \in B
    BY <1>1, <1>8, <2>2, FeedOneTyped
  <2> HIDE DEF B
  <2>3. \A k \in 0 .. n : k \in B
    BY <1>1, <2>1, <2>2, StepByStep
  <2> QED BY <2>3 DEF B
<1>11. h \in [0 .. n -> Fed]
  BY <1>10 DEF h
<1> QED BY <1>7, <1>8, <1>9, <1>11 DEF n
\* A byte more of a stream, for what the shell said in it.
Tell(said, b) == IF b.by = 0 THEN Append(said, b.k) ELSE said

LEMMA TellTyped ==
  ASSUME NEW said \in Seq(Words), NEW b \in Tokens
  PROVE  Tell(said, b) \in Seq(Words)
BY DEF Tell, Tokens

\* What the shell said in a stream is told a byte at a time.
LEMMA ShellsWalk ==
  ASSUME NEW s \in Seq(Tokens)
  PROVE  \E h \in [0 .. Len(s) -> Seq(Words)] :
           h[0] = <<>> /\ h[Len(s)] = Shells(s) /\ \A k \in 1 .. Len(s) : h[k] = Tell(h[k - 1], s[k])
<1> DEFINE n == Len(s)
           Said0 == Seq(Words)
           G == [p \in (1 .. n) \X Said0 |-> Tell(p[2], s[p[1]])]
           Fold(it) == it = [S \in SUBSET DOMAIN s |-> IF S = {} THEN <<>> ELSE Tell(it[S \ {Max(S)}], s[Max(S)])]
           it == CHOOSE it : it = [S \in SUBSET DOMAIN s |-> IF S = {} THEN <<>> ELSE Tell(it[S \ {Max(S)}], s[Max(S)])]
<1>1. n \in Nat /\ DOMAIN s = 1 .. n /\ \A k \in 1 .. n : s[k] \in Tokens
  OBVIOUS
<1>2. Shells(s) = it[DOMAIN s]
  BY DEF Shells, FoldLeft, MapThenFoldSet, Tell
<1>3. \A v \in Said0, b \in Tokens : Tell(v, b) \in Said0
  BY TellTyped
<1>4. <<>> \in Said0
  OBVIOUS
<1> HIDE DEF n, Said0
<1>5. \A k \in 1 .. n, v \in Said0 : G[<<k, v>>] = Tell(v, s[k]) /\ G[<<k, v>>] \in Said0
  BY <1>1, <1>3
<1> HIDE DEF G
<1>6. PICK g \in [SUBSET (1 .. n) -> Said0] : Folding(n, <<>>, G, g)
  BY <1>1, <1>4, <1>5, FoldExists
<1>7. Fold(g)
  <2>1. ASSUME NEW S \in SUBSET (1 .. n), S # {} PROVE G[<<Max(S), g[S \ {Max(S)}]>>] = Tell(g[S \ {Max(S)}], s[Max(S)])
    <3>1. Max(S) \in 1 .. n /\ S \ {Max(S)} \in SUBSET (1 .. n)
      BY <1>1, <2>1, MaxOfPositions
    <3> QED BY <1>5, <3>1
  <2> QED BY <1>1, <1>6, <2>1 DEF Folding
<1>8. Fold(it)
  BY <1>7
<1> HIDE DEF it
<1> DEFINE h == [k \in 0 .. n |-> it[1 .. k]]
<1>9. h[0] = <<>>
  <2>1. 1 .. 0 = {} /\ 1 .. 0 \in SUBSET (1 .. n) /\ 0 \in 0 .. n
    BY <1>1
  <2> QED BY <1>1, <1>8, <2>1
<1>10. ASSUME NEW k \in 1 .. n PROVE h[k] = Tell(h[k - 1], s[k])
  <2>1. 1 .. k \in SUBSET (1 .. n) /\ k - 1 \in 0 .. n /\ k \in 0 .. n /\ k \in Nat /\ k > 0
    BY <1>1
  <2>2. 1 .. k # {}
    <3>1. k \in Int /\ k > 0
      BY <2>1
    <3>2. k \in 1 .. k
      BY <3>1
    <3> QED BY <3>2
  <2>3. it[1 .. k] = Tell(it[(1 .. k) \ {Max(1 .. k)}], s[Max(1 .. k)])
    BY <1>1, <1>8, <2>1, <2>2
  <2>4. Max(1 .. k) = k /\ (1 .. k) \ {k} = 1 .. k - 1
    BY <2>1, LastOfInterval
  <2>5. h[k] = it[1 .. k] /\ h[k - 1] = it[1 .. k - 1]
    BY <2>1
  <2> HIDE DEF h
  <2> QED BY <2>3, <2>4, <2>5
<1>11. h[n] = Shells(s)
  BY <1>1, <1>2
<1> HIDE DEF h
<1>12. \A k \in 0 .. n : h[k] \in Said0
  <2> DEFINE B == {k \in 0 .. n : h[k] \in Said0}
  <2>1. 0 \in B
    BY <1>1, <1>4, <1>9
  <2>2. ASSUME NEW k \in 1 .. n, k - 1 \in B PROVE k \in B
    <3>1. h[k - 1] \in Said0 /\ s[k] \in Tokens /\ k \in 0 .. n
      BY <1>1, <2>2
    <3> QED BY <1>3, <1>10, <3>1
  <2> HIDE DEF B
  <2>3. \A k \in 0 .. n : k \in B
    BY <1>1, <2>1, <2>2, StepByStep
  <2> QED BY <2>3 DEF B
<1>13. h \in [0 .. n -> Said0]
  BY <1>12 DEF h
<1> QED BY <1>9, <1>10, <1>11, <1>13 DEF n, Said0

LEMMA ShellsTyped ==
  ASSUME NEW s \in Seq(Tokens)
  PROVE  Shells(s) \in Seq(Words)
BY ShellsWalk

LEMMA ShellsOfNothing == Shells(<<>>) = <<>>
<1>1. <<>> \in Seq(Tokens) /\ Len(<<>>) = 0
  OBVIOUS
<1> QED BY <1>1, ShellsWalk

LEMMA ShellsOfOne ==
  ASSUME NEW b \in Tokens
  PROVE  Shells(<<b>>) = IF b.by = 0 THEN <<b.k>> ELSE <<>>
<1>1. <<b>> \in Seq(Tokens) /\ Len(<<b>>) = 1 /\ <<b>>[1] = b
  OBVIOUS
<1>2. PICK h : h[0] = <<>> /\ h[1] = Shells(<<b>>) /\ \A k \in 1 .. 1 : h[k] = Tell(h[k - 1], <<b>>[k])
  BY <1>1, ShellsWalk
<1>3. h[1] = Tell(<<>>, b)
  BY <1>1, <1>2
<1> QED BY <1>2, <1>3 DEF Tell

\* To add to a sequence's end is to add to the end of what ends it.
LEMMA AppendIsLater ==
  ASSUME NEW s \in Seq(Words), NEW t \in Seq(Words), NEW w \in Words
  PROVE  Append(s \o t, w) = s \o Append(t, w)
<1>1. <<w>> \in Seq(Words) /\ s \o t \in Seq(Words)
  OBVIOUS
<1>2. Append(s \o t, w) = (s \o t) \o <<w>> /\ Append(t, w) = t \o <<w>>
  BY <1>1, AppendIsConcat
<1>3. (s \o t) \o <<w>> = s \o (t \o <<w>>)
  BY <1>1, ConcatAssociative
<1> QED BY <1>2, <1>3

\* What the shell said in two streams is what it said in one and the other.
LEMMA ShellsOfTwo ==
  ASSUME NEW s \in Seq(Tokens), NEW t \in Seq(Tokens)
  PROVE  Shells(s \o t) = Shells(s) \o Shells(t)
<1> DEFINE m == Len(s)
           n == Len(t)
           u == s \o t
<1>1. /\ m \in Nat /\ n \in Nat /\ u \in Seq(Tokens) /\ Len(u) = m + n
      /\ \A k \in 1 .. m : u[k] = s[k] /\ s[k] \in Tokens
      /\ \A k \in 1 .. n : u[m + k] = t[k] /\ t[k] \in Tokens
  OBVIOUS
<1> HIDE DEF m, n, u
<1>2. PICK f \in [0 .. m -> Seq(Words)] : f[0] = <<>> /\ f[m] = Shells(s) /\ \A k \in 1 .. m : f[k] = Tell(f[k - 1], s[k])
  BY ShellsWalk DEF m
<1>3. PICK g \in [0 .. n -> Seq(Words)] : g[0] = <<>> /\ g[n] = Shells(t) /\ \A k \in 1 .. n : g[k] = Tell(g[k - 1], t[k])
  BY ShellsWalk DEF n
<1>4. PICK h \in [0 .. m + n -> Seq(Words)] :
        h[0] = <<>> /\ h[m + n] = Shells(u) /\ \A k \in 1 .. m + n : h[k] = Tell(h[k - 1], u[k])
  <2>1. u \in Seq(Tokens) /\ Len(u) = m + n
    BY <1>1
  <2>2. \E h \in [0 .. Len(u) -> Seq(Words)] :
          h[0] = <<>> /\ h[Len(u)] = Shells(u) /\ \A k \in 1 .. Len(u) : h[k] = Tell(h[k - 1], u[k])
    BY <2>1, ShellsWalk
  <2> QED BY <2>1, <2>2
<1>5. h[m] = f[m]
  <2> DEFINE B == {k \in 0 .. m : h[k] = f[k]}
  <2>1. 0 \in B
    BY <1>1, <1>2, <1>4
  <2>2. ASSUME NEW k \in 1 .. m, k - 1 \in B PROVE k \in B
    <3>1. k \in 1 .. m + n /\ k \in 0 .. m
      BY <1>1
    <3>2. h[k] = Tell(h[k - 1], u[k]) /\ f[k] = Tell(f[k - 1], s[k])
      BY <1>2, <1>4, <3>1
    <3> QED BY <1>1, <2>2, <3>1, <3>2
  <2> HIDE DEF B
  <2>3. \A k \in 0 .. m : k \in B
    BY <1>1, <2>1, <2>2, StepByStep
  <2> QED BY <1>1, <2>3 DEF B
<1>6. \A k \in 0 .. n : h[m + k] = f[m] \o g[k]
  <2> DEFINE B == {k \in 0 .. n : h[m + k] = f[m] \o g[k]}
  <2>0. f[m] \in Seq(Words)
    BY <1>1
  <2>1. 0 \in B
    BY <1>1, <1>3, <1>5, <2>0, ConcatEmptySeq
  <2>2. ASSUME NEW k \in 1 .. n, k - 1 \in B PROVE k \in B
    <3>1. m + k \in 1 .. m + n /\ k \in 0 .. n /\ k - 1 \in 0 .. n /\ (m + k) - 1 = m + (k - 1)
      BY <1>1
    <3>2. h[m + k] = Tell(h[m + (k - 1)], u[m + k]) /\ g[k] = Tell(g[k - 1], t[k])
      BY <1>3, <1>4, <3>1
    <3>3. h[m + (k - 1)] = f[m] \o g[k - 1] /\ g[k - 1] \in Seq(Words) /\ u[m + k] = t[k]
      BY <1>1, <1>3, <2>2, <3>1
    <3>4. \A w \in Words : Append(f[m] \o g[k - 1], w) = f[m] \o Append(g[k - 1], w)
      <4> DEFINE a == f[m]
                 b == g[k - 1]
      <4>1. a \in Seq(Words) /\ b \in Seq(Words)
        BY <2>0, <3>3
      <4> HIDE DEF a, b
      <4>2. ASSUME NEW w \in Words PROVE Append(a \o b, w) = a \o Append(b, w)
        BY <4>1, AppendIsLater
      <4> QED BY <4>2 DEF a, b
    <3>5. t[k].k \in Words
      BY <1>1 DEF Tokens
    <3>6. Tell(f[m] \o g[k - 1], t[k]) = f[m] \o Tell(g[k - 1], t[k])
      BY <3>4, <3>5 DEF Tell
    <3>7. h[m + k] = f[m] \o g[k]
      BY <3>2, <3>3, <3>6
    <3> QED BY <3>1, <3>7
  <2> HIDE DEF B
  <2>3. \A k \in 0 .. n : k \in B
    BY <1>1, <2>1, <2>2, StepByStep
  <2> QED BY <2>3 DEF B
<1>7. h[m + n] = f[m] \o g[n]
  <2>1. n \in 0 .. n
    BY <1>1
  <2> QED BY <1>6, <2>1
<1> QED BY <1>2, <1>3, <1>4, <1>7 DEF u
-----------------------------------------------------------------------------
(***************************************************************************)
(* The questions in a stream: the grid never owes more answers than the    *)
(* shell wrote questions.                                                  *)
(***************************************************************************)
Asks(tokens) == {i \in 1 .. Len(tokens) : tokens[i].k = "ask"}

LEMMA QuestionsCounted ==
  ASSUME NEW s \in Seq(Tokens)
  PROVE  IsFiniteSet(Asks(s)) /\ Questions(s) = Cardinality(Asks(s)) /\ Questions(s) \in Nat
<1>1. IsFiniteSet(1 .. Len(s)) /\ Asks(s) \subseteq 1 .. Len(s)
  BY FS_Interval DEF Asks
<1>2. IsFiniteSet(Asks(s))
  BY <1>1, FS_Subset
<1>3. Cardinality(Asks(s)) \in Nat
  BY <1>2, FS_CardinalityType
<1> QED BY <1>2, <1>3 DEF Questions, Asks

LEMMA QuestionsOfNothing == Questions(<<>>) = 0
<1>1. <<>> \in Seq(Tokens) /\ Asks(<<>>) = {}
  BY DEF Asks
<1> QED BY <1>1, QuestionsCounted, FS_EmptySet

\* The questions of two streams are those of one and those of the other.
LEMMA QuestionsOfTwo ==
  ASSUME NEW s \in Seq(Tokens), NEW t \in Seq(Tokens)
  PROVE  Questions(s \o t) = Questions(s) + Questions(t)
<1> DEFINE m == Len(s)
           n == Len(t)
           u == s \o t
           later == {m + i : i \in Asks(t)}
           shift == [i \in Asks(t) |-> m + i]
<1>1. /\ m \in Nat /\ n \in Nat /\ u \in Seq(Tokens) /\ Len(u) = m + n
      /\ \A k \in 1 .. m : u[k] = s[k]
      /\ \A k \in 1 .. n : u[m + k] = t[k]
  OBVIOUS
<1>2. IsFiniteSet(Asks(s)) /\ Questions(s) = Cardinality(Asks(s)) /\ Questions(s) \in Nat
  BY QuestionsCounted
<1>3. IsFiniteSet(Asks(t)) /\ Questions(t) = Cardinality(Asks(t)) /\ Questions(t) \in Nat
  BY QuestionsCounted
<1>4. Asks(t) \subseteq 1 .. n /\ Asks(s) \subseteq 1 .. m
  BY DEF Asks
<1>5. Questions(u) = Cardinality(Asks(u))
  BY <1>1, QuestionsCounted
<1>6. \A i \in 1 .. n : i \in Asks(t) <=> m + i \in Asks(u)
  BY <1>1 DEF Asks
<1>7. \A i \in 1 .. m : i \in Asks(s) <=> i \in Asks(u)
  BY <1>1 DEF Asks
<1>8. Asks(u) \subseteq 1 .. m + n
  BY <1>1 DEF Asks
<1> HIDE DEF m, n, u
<1>9. Asks(u) = Asks(s) \cup later
  <2>1. ASSUME NEW i \in Asks(u) PROVE i \in Asks(s) \cup later
    <3>1. i \in 1 .. m + n
      BY <1>8
    <3>2. CASE i <= m
      BY <1>1, <1>7, <3>1, <3>2
    <3>3. CASE i > m
      <4>1. i - m \in 1 .. n /\ m + (i - m) = i
        BY <1>1, <3>1, <3>3
      <4> QED BY <1>6, <4>1
    <3> QED BY <1>1, <3>1, <3>2, <3>3
  <2> QED BY <1>4, <1>6, <1>7, <2>1
<1>10. Asks(s) \cap later = {}
  BY <1>1, <1>4
<1>11. shift \in Bijection(Asks(t), later)
  <2>1. \A i \in Asks(t), j \in Asks(t) : m + i = m + j => i = j
    BY <1>1, <1>4
  <2>2. shift \in [Asks(t) -> later] /\ \A i \in Asks(t) : shift[i] = m + i
    OBVIOUS
  <2> HIDE DEF shift
  <2>3. shift \in Injection(Asks(t), later)
    BY <2>1, <2>2, Fun_IsInj
  <2>4. \A y \in later : \E i \in Asks(t) : shift[i] = y
    BY <2>2
  <2> HIDE DEF later
  <2>5. shift \in Surjection(Asks(t), later)
    BY <2>2, <2>4, Fun_IsSurj
  <2> QED BY <2>3, <2>5, Fun_IsBij
<1> HIDE DEF later, shift
<1>12. IsFiniteSet(later) /\ Cardinality(later) = Cardinality(Asks(t))
  BY <1>3, <1>11, FS_Bijection DEF ExistsBijection
<1>13. Cardinality(Asks(s) \cup later) = Cardinality(Asks(s)) + Cardinality(later) - Cardinality({})
  BY <1>2, <1>10, <1>12, FS_Union
<1>14. Cardinality({}) = 0
  BY FS_EmptySet
<1> QED BY <1>2, <1>3, <1>5, <1>9, <1>12, <1>13, <1>14 DEF u
LEMMA QuestionsOfOne ==
  ASSUME NEW b \in Tokens
  PROVE  Questions(<<b>>) = IF b.k = "ask" THEN 1 ELSE 0
<1>1. <<b>> \in Seq(Tokens) /\ Asks(<<b>>) = IF b.k = "ask" THEN {1} ELSE {}
  BY DEF Asks
<1>2. Cardinality({1}) = 1 /\ Cardinality({}) = 0
  BY FS_Singleton, FS_EmptySet
<1> QED BY <1>1, <1>2, QuestionsCounted

\* What a stream begins with, a byte at a time.
LEMMA PrefixGrows ==
  ASSUME NEW s \in Seq(Tokens), NEW k \in 1 .. Len(s)
  PROVE  /\ SubSeq(s, 1, k) \in Seq(Tokens) /\ SubSeq(s, 1, k - 1) \in Seq(Tokens)
         /\ s[k] \in Tokens /\ <<s[k]>> \in Seq(Tokens)
         /\ SubSeq(s, 1, k) = SubSeq(s, 1, k - 1) \o <<s[k]>>
<1>1. SubSeq(s, 1, k) \in Seq(Tokens) /\ SubSeq(s, 1, k - 1) \in Seq(Tokens) /\ s[k] \in Tokens
  OBVIOUS
<1>2. <<s[k]>> \in Seq(Tokens)
  BY <1>1
<1>3. SubSeq(s, 1, k) = SubSeq(s, 1, k - 1) \o <<s[k]>>
  <2>1. 1 \in 1 .. Len(s) /\ k \in 1 .. Len(s)
    OBVIOUS
  <2> QED BY <2>1, SubSeqRecursiveSecond
<1> QED BY <1>1, <1>2, <1>3

LEMMA PrefixEnds ==
  ASSUME NEW s \in Seq(Tokens)
  PROVE  SubSeq(s, 1, Len(s)) = s /\ SubSeq(s, 1, 0) = <<>>
BY SubSeqFull

\* What a byte does to what is shown and what is held.
LEMMA FeedOneMoves ==
  ASSUME NEW f \in Fed, NEW b \in Tokens
  PROVE  LET fed == FeedOne(f, b)
         IN  \/ fed.grid = f.grid \o <<b>> /\ fed.d.held = <<>>
             \/ fed.grid = f.grid /\ fed.d.held \in {<<b>>, Append(f.d.held, b), <<>>, f.d.held}
             \/ fed.grid = f.grid \o Append(f.d.held, b) /\ fed.d.held = <<>>
<1> DEFINE fed == FeedOne(f, b)
<1>1. f.d \in Parser /\ f = [d |-> f.d, grid |-> f.grid]
  BY DEF Fed
<1>2. CASE f.d.state = "scan"
  <2>1. fed = Scan(f, b)
    BY <1>2 DEF FeedOne
  <2> QED BY <1>1, <2>1 DEF Scan, ToGrid, Parser
<1>3. CASE f.d.state \in {"esc", "intro"}
  <2>1. fed = Introducer(f, b)
    BY <1>3 DEF FeedOne
  <2> QED BY <1>1, <2>1 DEF Introducer, ToGrid, Parser
<1>4. CASE f.d.state \notin {"scan", "esc", "intro"}
  <2>1. fed = EnvelopeByte(f, b)
    BY <1>4 DEF FeedOne
  <2>3. Unhook(f.d).held = f.d.held
    BY <1>1 DEF Unhook, Parser
  <2>4. InEnvelope(f.d, b).held = f.d.held /\ InEnvelope(Put(f.d, Token("esc", b.by)), b).held = f.d.held
    BY <1>1 DEF InEnvelope, Put, Parser
  <2>5. fed.grid = f.grid /\ fed.d.held = f.d.held
    BY <1>1, <2>1, <2>3, <2>4 DEF EnvelopeByte
  <2> QED BY <2>5
<1> QED BY <1>2, <1>3, <1>4
\* A byte fed is a question less to come, and at most one more to answer.
LEMMA FeedOneAsks ==
  ASSUME NEW f \in Fed, NEW b \in Tokens
  PROVE  LET fed == FeedOne(f, b)
         IN  Questions(fed.grid) + Questions(fed.d.held)
               <= Questions(f.grid) + Questions(f.d.held) + Questions(<<b>>)
<1> DEFINE fed  == FeedOne(f, b)
           held == f.d.held
           grid == f.grid
<1>1. fed \in Fed /\ held \in Seq(Tokens) /\ grid \in Seq(Tokens) /\ <<b>> \in Seq(Tokens)
  BY FeedOneTyped DEF Fed, Parser
<1>2. Append(held, b) = held \o <<b>>
  <2> HIDE DEF held, grid, fed
  <2> QED BY <1>1, AppendIsConcat
<1>3. \/ fed.grid = grid \o <<b>> /\ fed.d.held = <<>>
      \/ fed.grid = grid /\ fed.d.held \in {<<b>>, held \o <<b>>, <<>>, held}
      \/ fed.grid = grid \o (held \o <<b>>) /\ fed.d.held = <<>>
  BY <1>2, FeedOneMoves
<1> HIDE DEF fed, held, grid
<1>4. held \o <<b>> \in Seq(Tokens)
  BY <1>1
<1>5. /\ Questions(grid) \in Nat /\ Questions(held) \in Nat /\ Questions(<<b>>) \in Nat
      /\ Questions(<<>>) = 0
  BY <1>1, QuestionsCounted, QuestionsOfNothing
<1>6. Questions(held \o <<b>>) = Questions(held) + Questions(<<b>>)
  BY <1>1, QuestionsOfTwo
<1>7. Questions(grid \o <<b>>) = Questions(grid) + Questions(<<b>>)
  BY <1>1, QuestionsOfTwo
<1>8. Questions(grid \o (held \o <<b>>)) = Questions(grid) + Questions(held \o <<b>>)
  BY <1>1, <1>4, QuestionsOfTwo
<1>9. Questions(fed.grid) + Questions(fed.d.held) <= Questions(grid) + Questions(held) + Questions(<<b>>)
  <2> DEFINE Q(x, y) == Questions(x) + Questions(y) <= Questions(grid) + Questions(held) + Questions(<<b>>)
  <2>1. Q(grid \o <<b>>, <<>>) /\ Q(grid, <<b>>) /\ Q(grid, held \o <<b>>) /\ Q(grid, <<>>) /\ Q(grid, held)
    BY <1>5, <1>6, <1>7
  <2>2. Q(grid \o (held \o <<b>>), <<>>)
    BY <1>5, <1>6, <1>8
  <2> HIDE DEF Q
  <2>3. Q(fed.grid, fed.d.held)
    BY <1>3, <2>1, <2>2
  <2> QED BY <2>3 DEF Q
<1> QED BY <1>9 DEF fed, held, grid

\* So a read owes no more answers than there were questions in it and before it.
LEMMA FeedAsks ==
  ASSUME NEW f \in Fed, NEW s \in Seq(Tokens)
  PROVE  LET fed == Feed(f, s)
         IN  /\ fed \in Fed
             /\ Questions(fed.grid) + Questions(fed.d.held)
                  <= Questions(f.grid) + Questions(f.d.held) + Questions(s)
<1> DEFINE n == Len(s)
           Q(g) == Questions(g.grid) + Questions(g.d.held)
<1>1. n \in Nat
  OBVIOUS
<1>2. PICK h \in [0 .. n -> Fed] :
        h[0] = f /\ h[n] = Feed(f, s) /\ \A k \in 1 .. n : h[k] = FeedOne(h[k - 1], s[k])
  BY FeedWalk
<1>3. ASSUME NEW g \in Fed PROVE Q(g) \in Nat
  <2>1. g.grid \in Seq(Tokens) /\ g.d.held \in Seq(Tokens)
    BY DEF Fed, Parser
  <2>2. Questions(g.grid) \in Nat /\ Questions(g.d.held) \in Nat
    BY <2>1, QuestionsCounted
  <2> QED BY <2>2
<1>4. ASSUME NEW g \in Fed, NEW b \in Tokens PROVE Q(FeedOne(g, b)) <= Q(g) + Questions(<<b>>)
  <2>1. g.grid \in Seq(Tokens) /\ g.d.held \in Seq(Tokens)
    BY DEF Fed, Parser
  <2>2. Questions(g.grid) \in Nat /\ Questions(g.d.held) \in Nat
    BY <2>1, QuestionsCounted
  <2> QED BY <2>2, FeedOneAsks
<1>5. \A k \in 1 .. n : /\ Questions(SubSeq(s, 1, k)) = Questions(SubSeq(s, 1, k - 1)) + Questions(<<s[k]>>)
                        /\ Questions(SubSeq(s, 1, k)) \in Nat /\ Questions(SubSeq(s, 1, k - 1)) \in Nat
                        /\ Questions(<<s[k]>>) \in Nat
  <2> SUFFICES ASSUME NEW k \in 1 .. n
               PROVE  /\ Questions(SubSeq(s, 1, k)) = Questions(SubSeq(s, 1, k - 1)) + Questions(<<s[k]>>)
                      /\ Questions(SubSeq(s, 1, k)) \in Nat /\ Questions(SubSeq(s, 1, k - 1)) \in Nat
                      /\ Questions(<<s[k]>>) \in Nat
    OBVIOUS
  <2>1. /\ SubSeq(s, 1, k) \in Seq(Tokens) /\ SubSeq(s, 1, k - 1) \in Seq(Tokens) /\ <<s[k]>> \in Seq(Tokens)
        /\ SubSeq(s, 1, k) = SubSeq(s, 1, k - 1) \o <<s[k]>>
    BY PrefixGrows
  <2>2. Questions(SubSeq(s, 1, k - 1) \o <<s[k]>>) = Questions(SubSeq(s, 1, k - 1)) + Questions(<<s[k]>>)
    BY <2>1, QuestionsOfTwo
  <2>3. Questions(SubSeq(s, 1, k)) \in Nat /\ Questions(SubSeq(s, 1, k - 1)) \in Nat /\ Questions(<<s[k]>>) \in Nat
    BY <2>1, QuestionsCounted
  <2> QED BY <2>1, <2>2, <2>3
<1>6. SubSeq(s, 1, n) = s /\ Questions(SubSeq(s, 1, 0)) = 0
  BY PrefixEnds, QuestionsOfNothing
<1>7. \A k \in 1 .. n : s[k] \in Tokens
  OBVIOUS
<1> HIDE DEF n, Q
<1> DEFINE B == {k \in 0 .. n : Q(h[k]) <= Q(f) + Questions(SubSeq(s, 1, k))}
<1>8. 0 \in B
  BY <1>1, <1>2, <1>3, <1>6
<1>9. ASSUME NEW k \in 1 .. n, k - 1 \in B PROVE k \in B
  <2>1. k \in 0 .. n /\ k - 1 \in 0 .. n
    BY <1>1
  <2>2. h[k - 1] \in Fed /\ h[k] \in Fed /\ h[k] = FeedOne(h[k - 1], s[k])
    BY <1>2, <2>1
  <2>3. Q(h[k]) <= Q(h[k - 1]) + Questions(<<s[k]>>)
    BY <1>4, <1>7, <2>2
  <2>4. Q(h[k - 1]) <= Q(f) + Questions(SubSeq(s, 1, k - 1))
    BY <1>9
  <2>5. Q(h[k]) \in Nat /\ Q(h[k - 1]) \in Nat /\ Q(f) \in Nat
    BY <1>3, <2>2
  <2> QED BY <1>5, <2>1, <2>3, <2>4, <2>5
<1> HIDE DEF B
<1>10. \A k \in 0 .. n : k \in B
  BY <1>1, <1>8, <1>9, StepByStep
<1>11. Q(h[n]) <= Q(f) + Questions(s) /\ h[n] \in Fed
  <2>1. n \in B
    BY <1>1, <1>10
  <2> QED BY <1>1, <1>2, <1>6, <2>1 DEF B
<1> QED BY <1>2, <1>11 DEF Q-----------------------------------------------------------------------------
(***************************************************************************)
(* Whose turn it is. While no client was killed, what is written follows a *)
(* path of places: a byte is written in the place the bytes before it led  *)
(* to. The parser, behind by what is unread, is in the place its own bytes *)
(* led to, and so never takes one writer's for the other's.                *)
(***************************************************************************)
Place  == [at : {"shell", "esc", "intro", "env", "envesc", "last", "lastesc"}, by : 0 .. Clients]
At(at, by) == [at |-> at, by |-> by]

\* From place p, byte b is written, and leads to place q.
Goes(p, b, q) ==
  \/ p = At("shell", 0) /\ b.by = 0 /\ b.k # "esc" /\ q = p
  \/ p = At("shell", 0) /\ b.k = "esc" /\ q = At("esc", b.by)
  \/ p.at = "esc" /\ b.by = p.by /\ b.k = "P" /\ q = At("intro", p.by)
  \/ p = At("esc", 0) /\ b.by = 0 /\ b.k \notin {"P", "esc"} /\ q = At("shell", 0)
  \/ p = At("intro", 0) /\ b.by = 0 /\ b.k # "1000p" /\ q = At("shell", 0)
  \/ /\ p.by # 0 /\ b.by = p.by
     /\ \/ p.at = "intro" /\ b.k = "1000p" /\ q = At("env", p.by)
        \/ p.at = "env" /\ b.k = "line" /\ q = p
        \/ p.at = "env" /\ b.k = "esc" /\ q = At("envesc", p.by)
        \/ p.at = "envesc" /\ b.k \in {"line", "st"} /\ q = At("env", p.by)
        \/ p.at = "env" /\ b.k = "exit" /\ q = At("last", p.by)
        \/ p.at = "last" /\ b.k = "esc" /\ q = At("lastesc", p.by)
        \/ p.at = "lastesc" /\ b.k = "st" /\ q = At("shell", 0)

\* The whole of s is written from p, and leads to q.
Path(p, s, q) ==
  \E h \in [0 .. Len(s) -> Place] :
    h[0] = p /\ h[Len(s)] = q /\ \A n \in 1 .. Len(s) : Goes(h[n - 1], s[n], h[n])

\* What the parser is in a place: what it holds, who it reads, and that the tap
\* holds nothing of another's.
Agrees(p, d) ==
  /\ \A t \in d.body : t.by = d.by
  /\ CASE p.at = "shell" -> d.state = "scan" /\ d.held = <<>>
       [] p.at = "esc"   -> d.state = "esc" /\ d.held = <<Token("esc", p.by)>>
       [] p.at = "intro" -> d.state = "intro" /\ d.held = <<Token("esc", p.by), Token("P", p.by)>>
       [] OTHER          -> /\ d.state = IF p.at \in {"env", "last"} THEN "env" ELSE "envesc"
                            /\ d.held = <<>> /\ d.by = p.by
                            /\ d.exited = IF p.at \in {"env", "envesc"} THEN FALSE ELSE TRUE

\* The place the child stands in between two of its writes.
Stands(c) == IF c = 0 THEN At("shell", 0) ELSE At("env", c)

-----------------------------------------------------------------------------
(***************************************************************************)
(* The inductive invariant.                                                *)
(***************************************************************************)
Opens(d) == d.active = (d.state \in {"env", "envesc"})

Typed ==
  /\ child \in 0 .. Clients /\ clients \in 0 .. Clients /\ killed \subseteq 1 .. Clients
  /\ units \in Nat /\ out \in Seq(Tokens) /\ dcs \in Parser /\ Opens(dcs)
  /\ input \in 0 .. INPUT_CAP - 1 + Max({2, Units}) /\ tin \in 0 .. TTY /\ replies \in Nat
  /\ gateway \in 0 .. Clients /\ pc \in {"idle", "read", "gateways"}

\* Every answer owed, and every question on its way, is a write of the child's.
Asked ==
  LET asked == Questions(dcs.held) + Questions(out) + replies
  IN  asked <= units /\ asked <= Units

Followed == killed = {} => \E p \in Place : Agrees(p, dcs) /\ Path(p, out, Stands(child))

EnvelopeInv == Typed /\ Asked /\ Followed /\ GridIsTheShells
-----------------------------------------------------------------------------
(***************************************************************************)
(* The parser on the path.                                                 *)
(***************************************************************************)
\* Nothing of a client's.
ShellsOnly(tokens) == \A i \in 1 .. Len(tokens) : tokens[i].by = 0

LEMMA PlaceFacts ==
  ASSUME NEW at \in {"shell", "esc", "intro", "env", "envesc", "last", "lastesc"}, NEW by \in 0 .. Clients
  PROVE  At(at, by) \in Place /\ At(at, by).at = at /\ At(at, by).by = by
BY DEF At, Place

\* The forms a byte's answer takes, each with a name, and their fields.
Holds(f, held, state) == [f EXCEPT !.d.held = held, !.d.state = state]
Through(f, d)         == [f EXCEPT !.d = d]
Opened(d, by)         == [Hook(d, by) EXCEPT !.held = <<>>, !.state = "env"]

Shows(fed, grid, held, state, body, by) ==
  fed.grid = grid /\ fed.d.held = held /\ fed.d.state = state /\ fed.d.body = body /\ fed.d.by = by

LEMMA ToGridFields ==
  ASSUME NEW f \in Fed, NEW more \in Seq(Tokens), NEW state
  PROVE  Shows(ToGrid(f, more, state), f.grid \o more, <<>>, state, f.d.body, f.d.by)
<1>1. \A g : Shows([f EXCEPT !.grid = g, !.d.held = <<>>, !.d.state = state], g, <<>>, state, f.d.body, f.d.by)
  BY DEF Shows, Fed, Parser
<1> QED BY <1>1 DEF ToGrid

LEMMA HoldsFields ==
  ASSUME NEW f \in Fed, NEW held, NEW state
  PROVE  Shows(Holds(f, held, state), f.grid, held, state, f.d.body, f.d.by)
BY DEF Shows, Holds, Fed, Parser

LEMMA ThroughFields ==
  ASSUME NEW f \in Fed, NEW d
  PROVE  Through(f, d).d = d /\ Through(f, d).grid = f.grid
BY DEF Through, Fed

LEMMA OpenedFields ==
  ASSUME NEW f \in Fed, NEW by \in 0 .. Clients
  PROVE  /\ Shows(Through(f, Opened(f.d, by)), f.grid, <<>>, "env", {}, by)
         /\ Through(f, Opened(f.d, by)).d.exited = FALSE
<1>1. f.d \in Parser
  BY DEF Fed
<1>2. ASSUME NEW d \in Parser
      PROVE  /\ Opened(d, by).held = <<>> /\ Opened(d, by).state = "env" /\ Opened(d, by).body = {}
             /\ Opened(d, by).by = by /\ Opened(d, by).exited = FALSE
  BY DEF Opened, Hook, Parser
<1> DEFINE e == Opened(f.d, by)
<1>3. e.held = <<>> /\ e.state = "env" /\ e.body = {} /\ e.by = by /\ e.exited = FALSE
  BY <1>1, <1>2
<1> HIDE DEF e
<1>4. Through(f, e).d = e /\ Through(f, e).grid = f.grid
  BY ThroughFields
<1>5. Shows(Through(f, e), f.grid, <<>>, "env", {}, by) /\ Through(f, e).d.exited = FALSE
  BY <1>3, <1>4 DEF Shows
<1> QED BY <1>5 DEF e

LEMMA UnhookFields ==
  ASSUME NEW f \in Fed
  PROVE  Shows(Through(f, Unhook(f.d)), f.grid, f.d.held, "scan", f.d.body, f.d.by)
<1>1. f.d \in Parser
  BY DEF Fed
<1>2. ASSUME NEW d \in Parser
      PROVE  Unhook(d).held = d.held /\ Unhook(d).state = "scan" /\ Unhook(d).body = d.body /\ Unhook(d).by = d.by
  BY DEF Unhook, Parser
<1> QED BY <1>1, <1>2, ThroughFields DEF Shows

\* What the parser is after a byte, where it may be written.
LEMMA FeedOneAgrees ==
  ASSUME NEW f \in Fed, NEW b \in Tokens, NEW p \in Place, NEW q \in Place,
         Goes(p, b, q), Agrees(p, f.d)
  PROVE  LET fed == FeedOne(f, b)
         IN  /\ Agrees(q, fed.d)
             /\ \/ fed.grid = f.grid \o Append(f.d.held, b) /\ fed.d.held = <<>> /\ b.by = 0 /\ ShellsOnly(f.d.held)
                \/ fed.grid = f.grid /\ fed.d.held = Append(f.d.held, b)
                \/ fed.grid = f.grid /\ fed.d.held = <<>> /\ b.by # 0 /\ Shells(f.d.held) = <<>>
<1> DEFINE fed == FeedOne(f, b)
           d == f.d
<1>1. d \in Parser /\ f.grid \in Seq(Tokens) /\ f = [d |-> d, grid |-> f.grid]
  BY DEF Fed
<1>2. b.by \in 0 .. Clients /\ b.k \in Words /\ b = [k |-> b.k, by |-> b.by] /\ 0 \in 0 .. Clients
  BY ConstantFacts DEF Tokens
<1>0. <<b>> \in Seq(Tokens) /\ Append(d.held, b) \in Seq(Tokens)
  BY <1>1 DEF Parser
<1>3. p.by \in 0 .. Clients /\ p = [at |-> p.at, by |-> p.by]
  BY DEF Place
<1> SUFFICES /\ Agrees(q, fed.d)
             /\ \/ fed.grid = f.grid \o Append(d.held, b) /\ fed.d.held = <<>> /\ b.by = 0 /\ ShellsOnly(d.held)
                \/ fed.grid = f.grid /\ fed.d.held = Append(d.held, b)
                \/ fed.grid = f.grid /\ fed.d.held = <<>> /\ b.by # 0 /\ Shells(d.held) = <<>>
  OBVIOUS
<1> HIDE DEF fed
<1>4. CASE p = At("shell", 0) /\ b.by = 0 /\ b.k # "esc" /\ q = p
  <2>1. d.state = "scan" /\ d.held = <<>> /\ p.at = "shell"
    BY <1>4 DEF Agrees, At
  <2>2. fed = ToGrid(f, <<b>>, "scan")
    BY <1>4, <2>1 DEF fed, FeedOne, Scan
  <2>3. Shows(fed, f.grid \o <<b>>, <<>>, "scan", d.body, d.by)
    BY <1>0, <2>2, ToGridFields
  <2>4. Append(d.held, b) = <<b>> /\ ShellsOnly(d.held)
    BY <2>1 DEF ShellsOnly
  <2>5. Agrees(q, fed.d)
    BY <1>4, <2>1, <2>3 DEF Agrees, Shows
  <2> QED BY <1>4, <2>3, <2>4, <2>5 DEF Shows
<1>5. CASE p = At("shell", 0) /\ b.k = "esc" /\ q = At("esc", b.by)
  <2>1. d.state = "scan" /\ d.held = <<>> /\ p.at = "shell" /\ q.at = "esc" /\ q.by = b.by
    BY <1>5 DEF Agrees, At
  <2>2. fed = Holds(f, <<b>>, "esc")
    BY <1>5, <2>1 DEF fed, FeedOne, Scan, Holds
  <2>3. Shows(fed, f.grid, <<b>>, "esc", d.body, d.by)
    BY <2>2, HoldsFields
  <2>4. Append(d.held, b) = <<b>> /\ b = Token("esc", b.by)
    BY <1>2, <1>5, <2>1 DEF Token
  <2>5. Agrees(q, fed.d)
    BY <1>5, <2>1, <2>3, <2>4 DEF Agrees, Shows
  <2> QED BY <2>3, <2>4, <2>5 DEF Shows
<1>6. CASE p.at = "esc" /\ b.by = p.by /\ b.k = "P" /\ q = At("intro", p.by)
  <2>1. d.state = "esc" /\ d.held = <<Token("esc", p.by)>> /\ q.at = "intro" /\ q.by = p.by
    BY <1>6 DEF Agrees, At
  <2>2. fed = Holds(f, Append(d.held, b), "intro")
    <3>1. fed = Introducer(f, b)
      BY <2>1 DEF fed, FeedOne
    <3>2. Introducer(f, b) = Holds(f, Append(f.d.held, b), "intro")
      <4>1. f.d.state = "esc" /\ b.k = "P"
        BY <1>6, <2>1
      <4> QED BY <4>1 DEF Introducer, Holds
    <3> QED BY <3>1, <3>2
  <2>3. Shows(fed, f.grid, Append(d.held, b), "intro", d.body, d.by)
    BY <2>2, HoldsFields
  <2>4. Append(d.held, b) = <<Token("esc", p.by), Token("P", p.by)>>
    <3>1. b = Token("P", p.by)
      BY <1>2, <1>6 DEF Token
    <3>2. ASSUME NEW x \in Tokens, NEW y \in Tokens PROVE Append(<<x>>, y) = <<x, y>>
      <4> DEFINE a == Append(<<x>>, y)
                 c == <<x, y>>
      <4>1. /\ a \in Seq(Tokens) /\ Len(a) = 2 /\ a[1] = x /\ a[2] = y
            /\ c \in Seq(Tokens) /\ Len(c) = 2 /\ c[1] = x /\ c[2] = y
        OBVIOUS
      <4>2. \A i \in 1 .. 2 : i = 1 \/ i = 2
        OBVIOUS
      <4> HIDE DEF a, c
      <4>3. a = c
        BY <4>1, <4>2, SeqEqual
      <4> QED BY <4>3 DEF a, c
    <3>3. Token("esc", p.by) \in Tokens /\ Token("P", p.by) \in Tokens
      BY <1>3 DEF Token, Tokens, Words
    <3> QED BY <2>1, <3>1, <3>2, <3>3
  <2>5. Agrees(q, fed.d)
    BY <1>6, <2>1, <2>3, <2>4 DEF Agrees, Shows
  <2> QED BY <2>3, <2>5 DEF Shows
<1>7. ASSUME d.state \in {"esc", "intro"}, b.by = 0, ShellsOnly(d.held), q = At("shell", 0),
             fed = ToGrid(f, Append(d.held, b), "scan"), \A t \in d.body : t.by = d.by
      PROVE  Agrees(q, fed.d) /\ fed.grid = f.grid \o Append(d.held, b) /\ fed.d.held = <<>>
  <2>1. Shows(fed, f.grid \o Append(d.held, b), <<>>, "scan", d.body, d.by)
    BY <1>0, <1>7, ToGridFields
  <2>2. q.at = "shell"
    BY <1>7 DEF At
  <2> QED BY <1>7, <2>1, <2>2 DEF Agrees, Shows
<1>8. CASE p = At("esc", 0) /\ b.by = 0 /\ b.k \notin {"P", "esc"} /\ q = At("shell", 0)
  <2>1. /\ d.state = "esc" /\ d.held = <<Token("esc", 0)>> /\ \A t \in d.body : t.by = d.by
    BY <1>8 DEF Agrees, At
  <2>2. fed = ToGrid(f, Append(d.held, b), "scan")
    BY <1>8, <2>1 DEF fed, FeedOne, Introducer
  <2>3. ShellsOnly(d.held)
    BY <2>1 DEF ShellsOnly, Token
  <2> QED BY <1>7, <1>8, <2>1, <2>2, <2>3
<1>9. CASE p = At("intro", 0) /\ b.by = 0 /\ b.k # "1000p" /\ q = At("shell", 0)
  <2>1. /\ d.state = "intro" /\ d.held = <<Token("esc", 0), Token("P", 0)>> /\ \A t \in d.body : t.by = d.by
    BY <1>9 DEF Agrees, At
  <2>2. fed = ToGrid(f, Append(d.held, b), "scan")
    BY <1>9, <2>1 DEF fed, FeedOne, Introducer
  <2>3. ShellsOnly(d.held)
    BY <2>1 DEF ShellsOnly, Token
  <2> QED BY <1>7, <1>9, <2>1, <2>2, <2>3
<1>10. CASE p.by # 0 /\ b.by = p.by /\ p.at = "intro" /\ b.k = "1000p" /\ q = At("env", p.by)
  <2>1. d.state = "intro" /\ d.held = <<Token("esc", p.by), Token("P", p.by)>> /\ q.at = "env" /\ q.by = p.by
    BY <1>10 DEF Agrees, At
  <2>2. fed = Through(f, Opened(d, b.by))
    <3>1. fed = Introducer(f, b)
      BY <2>1 DEF fed, FeedOne
    <3>2. Introducer(f, b) = Through(f, Opened(f.d, b.by))
      <4>1. f.d.state = "intro" /\ b.k = "1000p"
        BY <1>10, <2>1
      <4> QED BY <4>1 DEF Introducer, Through, Opened
    <3> QED BY <3>1, <3>2
  <2>3. Shows(fed, f.grid, <<>>, "env", {}, b.by) /\ fed.d.exited = FALSE
    BY <1>2, <2>2, OpenedFields
  <2>4. Agrees(q, fed.d)
    <3>1. fed.d.body = {} /\ fed.d.held = <<>> /\ fed.d.state = "env" /\ fed.d.by = q.by
      BY <1>10, <2>1, <2>3 DEF Shows
    <3>2. fed.d.exited = IF q.at \in {"env", "envesc"} THEN FALSE ELSE TRUE
      BY <2>1, <2>3
    <3> QED BY <2>1, <3>1, <3>2 DEF Agrees
  <2>5. Shells(d.held) = <<>>
    <3> DEFINE x == Token("esc", p.by)
               y == Token("P", p.by)
    <3>1. x \in Tokens /\ y \in Tokens /\ x.by # 0 /\ y.by # 0
      BY <1>3, <1>10 DEF Token, Tokens, Words
    <3>2. Shells(<<x>>) = <<>> /\ Shells(<<y>>) = <<>>
      BY <3>1, ShellsOfOne
    <3>3. <<x>> \in Seq(Tokens) /\ <<y>> \in Seq(Tokens) /\ <<x, y>> = <<x>> \o <<y>>
      BY <3>1
    <3>4. Shells(<<x, y>>) = Shells(<<x>>) \o Shells(<<y>>)
      BY <3>3, ShellsOfTwo
    <3> QED BY <2>1, <3>2, <3>4
  <2> QED BY <1>10, <2>3, <2>4, <2>5 DEF Shows
<1>11. CASE p.by # 0 /\ b.by = p.by /\ p.at \in {"env", "last"}
            /\ (\/ p.at = "env" /\ b.k = "line" /\ q = p
                \/ p.at = "env" /\ b.k = "exit" /\ q = At("last", p.by)
                \/ p.at = "env" /\ b.k = "esc" /\ q = At("envesc", p.by)
                \/ p.at = "last" /\ b.k = "esc" /\ q = At("lastesc", p.by))
  <2>1. /\ d.state = "env" /\ d.held = <<>> /\ d.by = p.by /\ d.exited = IF p.at = "env" THEN FALSE ELSE TRUE
        /\ \A t \in d.body : t.by = d.by
    BY <1>11 DEF Agrees
  <2>2. fed = Through(f, InEnvelope(d, b))
    BY <2>1 DEF fed, FeedOne, EnvelopeByte, Through
  <2>3. fed.grid = f.grid /\ fed.d = InEnvelope(d, b)
    BY <2>2, ThroughFields
  <2>4. Agrees(q, InEnvelope(d, b)) /\ InEnvelope(d, b).held = <<>>
    <3>1. CASE b.k = "esc"
      <4>1. InEnvelope(d, b) = [d EXCEPT !.state = "envesc"]
        BY <3>1 DEF InEnvelope
      <4>2. /\ InEnvelope(d, b).held = <<>> /\ InEnvelope(d, b).state = "envesc" /\ InEnvelope(d, b).by = p.by
            /\ InEnvelope(d, b).body = d.body /\ InEnvelope(d, b).exited = IF p.at = "env" THEN FALSE ELSE TRUE
        BY <1>1, <2>1, <4>1 DEF Parser
      <4>3. q.by = p.by /\ q.at = IF p.at = "env" THEN "envesc" ELSE "lastesc"
        BY <1>11, <3>1 DEF At
      <4>4. InEnvelope(d, b).exited = IF q.at \in {"env", "envesc"} THEN FALSE ELSE TRUE
        <5>1. CASE p.at = "env"
          BY <4>2, <4>3, <5>1
        <5>2. CASE p.at = "last"
          BY <4>2, <4>3, <5>2
        <5> QED BY <1>11, <5>1, <5>2
      <4> HIDE DEF d
      <4>5. q.at \in {"envesc", "lastesc"} /\ \A t \in InEnvelope(d, b).body : t.by = p.by
        <5>1. q.at \in {"envesc", "lastesc"}
          BY <1>11, <4>3
        <5>2. \A t \in InEnvelope(d, b).body : t.by = p.by
          BY <2>1, <4>2
        <5> QED BY <5>1, <5>2
      <4> QED BY <4>2, <4>3, <4>4, <4>5 DEF Agrees
    <3>2. CASE b.k \in {"line", "exit"}
      <4>1. InEnvelope(d, b) = [Put(d, b) EXCEPT !.state = "env"]
        BY <3>2 DEF InEnvelope
      <4>2. /\ InEnvelope(d, b).held = <<>> /\ InEnvelope(d, b).state = "env" /\ InEnvelope(d, b).by = p.by
            /\ InEnvelope(d, b).exited = IF b.k = "exit" THEN TRUE ELSE FALSE
            /\ InEnvelope(d, b).body = d.body \cup {Token(IF b.k = "exit" THEN "exit" ELSE "line", b.by)}
        BY <1>1, <2>1, <3>2, <4>1 DEF Put, Parser
      <4>3. q.by = p.by /\ q.at = IF b.k = "exit" THEN "last" ELSE "env"
        BY <1>11, <3>2 DEF At
      <4>4. \A t \in InEnvelope(d, b).body : t.by = p.by
        BY <1>11, <2>1, <4>2 DEF Token
      <4> HIDE DEF d
      <4> QED BY <1>11, <3>2, <4>2, <4>3, <4>4 DEF Agrees
    <3> QED BY <1>11, <3>1, <3>2
  <2>5. Shells(d.held) = <<>>
    BY <2>1, ShellsOfNothing
  <2> QED BY <1>11, <2>3, <2>4, <2>5
<1>12. CASE p.by # 0 /\ b.by = p.by /\ p.at = "envesc" /\ b.k \in {"line", "st"} /\ q = At("env", p.by)
  <2> DEFINE e == Put(d, Token("esc", b.by))
  <2>1. /\ d.state = "envesc" /\ d.held = <<>> /\ d.by = p.by /\ d.exited = FALSE
        /\ \A t \in d.body : t.by = d.by
    <3>1. /\ d.state = "envesc" /\ d.held = <<>> /\ d.by = p.by /\ d.exited = IF p.at \in {"env", "envesc"} THEN FALSE ELSE TRUE
          /\ \A t \in d.body : t.by = d.by
      BY <1>12 DEF Agrees
    <3> QED BY <1>12, <3>1
  <2>2. fed = Through(f, InEnvelope(e, b))
    <3>1. fed = EnvelopeByte(f, b)
      BY <2>1 DEF fed, FeedOne
    <3>2. ~ (b.k = "st" /\ f.d.exited)
      BY <2>1
    <3> QED BY <2>1, <3>1, <3>2 DEF EnvelopeByte, Through
  <2>3. fed.grid = f.grid /\ fed.d = InEnvelope(e, b)
    BY <2>2, ThroughFields
  <2>4. InEnvelope(e, b) = [Put(e, b) EXCEPT !.state = "env"]
    BY <1>12 DEF InEnvelope
  <2>5. /\ e.held = <<>> /\ e.by = p.by /\ e.exited = FALSE
        /\ e.body = d.body \cup {Token("line", b.by)} /\ DOMAIN e = DOMAIN d /\ e \in Parser
    <3>1. Token("line", b.by) \in Tokens
      BY <1>2 DEF Token, Tokens, Words
    <3>2. Token("esc", b.by).k = "esc" /\ Token("esc", b.by).by = b.by
      BY DEF Token
    <3> QED BY <1>1, <2>1, <3>1, <3>2 DEF Put, Parser
  <2> HIDE DEF e
  <2>6. /\ InEnvelope(e, b).held = <<>> /\ InEnvelope(e, b).state = "env" /\ InEnvelope(e, b).by = p.by
        /\ InEnvelope(e, b).exited = FALSE
        /\ InEnvelope(e, b).body = e.body \cup {Token("line", b.by)}
    BY <1>12, <2>4, <2>5 DEF Put, Parser
  <2>7. q.by = p.by /\ q.at = "env"
    BY <1>12 DEF At
  <2>8. \A t \in InEnvelope(e, b).body : t.by = p.by
    BY <1>12, <2>1, <2>5, <2>6 DEF Token
  <2>9. Agrees(q, fed.d)
    <3>1. InEnvelope(e, b).exited = IF q.at \in {"env", "envesc"} THEN FALSE ELSE TRUE
      BY <2>6, <2>7
    <3> QED BY <2>3, <2>6, <2>7, <2>8, <3>1 DEF Agrees
  <2>10. Shells(d.held) = <<>>
    BY <2>1, ShellsOfNothing
  <2> QED BY <1>12, <2>3, <2>6, <2>9, <2>10
<1>13. CASE p.by # 0 /\ b.by = p.by /\ p.at = "lastesc" /\ b.k = "st" /\ q = At("shell", 0)
  <2>1. /\ d.state = "envesc" /\ d.held = <<>> /\ d.by = p.by /\ d.exited = TRUE
        /\ \A t \in d.body : t.by = d.by
    BY <1>13 DEF Agrees
  <2>2. fed = Through(f, Unhook(d))
    BY <1>13, <2>1 DEF fed, FeedOne, EnvelopeByte, Through
  <2>3. Shows(fed, f.grid, <<>>, "scan", d.body, d.by)
    BY <2>1, <2>2, UnhookFields
  <2>4. q.at = "shell"
    BY <1>13 DEF At
  <2>5. Agrees(q, fed.d)
    BY <2>1, <2>3, <2>4 DEF Agrees, Shows
  <2>6. Shells(d.held) = <<>>
    BY <2>1, ShellsOfNothing
  <2> QED BY <1>13, <2>3, <2>5, <2>6 DEF Shows
<1> HIDE DEF d
<1> QED BY <1>4, <1>5, <1>6, <1>8, <1>9, <1>10, <1>11, <1>12, <1>13 DEF Goes, fed, d
\* What the shell said, of what is shown and what is held.
Spoken(f) == Shells(f.grid) \o Shells(f.d.held)

LEMMA SpokenTyped ==
  ASSUME NEW f \in Fed
  PROVE  /\ f.grid \in Seq(Tokens) /\ f.d.held \in Seq(Tokens)
         /\ Shells(f.grid) \in Seq(Words) /\ Shells(f.d.held) \in Seq(Words) /\ Spoken(f) \in Seq(Words)
<1>1. f.grid \in Seq(Tokens) /\ f.d.held \in Seq(Tokens)
  BY DEF Fed, Parser
<1>2. Shells(f.grid) \in Seq(Words) /\ Shells(f.d.held) \in Seq(Words)
  BY <1>1, ShellsTyped
<1> QED BY <1>1, <1>2 DEF Spoken

\* On the path a byte adds to what was shown and held what the shell said with
\* it, and shows nothing of a client's.
LEMMA FeedOneFollows ==
  ASSUME NEW f \in Fed, NEW b \in Tokens, NEW p \in Place, NEW q \in Place,
         Goes(p, b, q), Agrees(p, f.d), ShellsOnly(f.grid)
  PROVE  LET fed == FeedOne(f, b)
         IN  Agrees(q, fed.d) /\ ShellsOnly(fed.grid) /\ Spoken(fed) = Spoken(f) \o Shells(<<b>>)
<1> DEFINE fed  == FeedOne(f, b)
           held == f.d.held
           grid == f.grid
<1>1. fed \in Fed /\ held \in Seq(Tokens) /\ grid \in Seq(Tokens) /\ <<b>> \in Seq(Tokens)
  BY FeedOneTyped DEF Fed, Parser
<1>2. /\ Agrees(q, fed.d)
      /\ \/ fed.grid = grid \o Append(held, b) /\ fed.d.held = <<>> /\ b.by = 0 /\ ShellsOnly(held)
         \/ fed.grid = grid /\ fed.d.held = Append(held, b)
         \/ fed.grid = grid /\ fed.d.held = <<>> /\ b.by # 0 /\ Shells(held) = <<>>
  BY FeedOneAgrees
<1>3. ShellsOnly(grid) /\ Spoken(f) = Shells(grid) \o Shells(held) /\ Spoken(fed) = Shells(fed.grid) \o Shells(fed.d.held)
  BY DEF Spoken
<1> HIDE DEF fed, held, grid
<1>4. Append(held, b) = held \o <<b>> /\ held \o <<b>> \in Seq(Tokens)
  BY <1>1, AppendIsConcat
<1>5. Shells(grid) \in Seq(Words) /\ Shells(held) \in Seq(Words) /\ Shells(<<b>>) \in Seq(Words) /\ Shells(<<>>) = <<>>
  BY <1>1, ShellsTyped, ShellsOfNothing
<1>6. Shells(held \o <<b>>) = Shells(held) \o Shells(<<b>>)
  BY <1>1, ShellsOfTwo
<1>7. Spoken(f) \o Shells(<<b>>) = Shells(grid) \o (Shells(held) \o Shells(<<b>>))
  BY <1>3, <1>5, ConcatAssociative
<1>8. CASE fed.grid = grid \o Append(held, b) /\ fed.d.held = <<>> /\ b.by = 0 /\ ShellsOnly(held)
  <2> DEFINE new == held \o <<b>>
  <2>1. ShellsOnly(new)
    BY <1>1, <1>8 DEF ShellsOnly
  <2>2. new \in Seq(Tokens) /\ Shells(new) \in Seq(Words) /\ fed.grid = grid \o new
    BY <1>4, <1>8, ShellsTyped
  <2>3. Shells(new) = Shells(held) \o Shells(<<b>>)
    BY <1>6
  <2> HIDE DEF new
  <2>4. Shells(grid \o new) = Shells(grid) \o Shells(new)
    BY <1>1, <2>2, ShellsOfTwo
  <2>5. ShellsOnly(grid \o new)
    BY <1>1, <1>3, <2>1, <2>2 DEF ShellsOnly
  <2>6. Shells(grid) \o Shells(new) \in Seq(Words)
    BY <1>5, <2>2
  <2>7. (Shells(grid) \o Shells(new)) \o <<>> = Shells(grid) \o Shells(new)
    BY <2>6, ConcatEmptySeq
  <2>8. Spoken(fed) = Shells(grid) \o Shells(new)
    BY <1>3, <1>5, <1>8, <2>2, <2>4, <2>7
  <2> QED BY <1>2, <1>7, <2>2, <2>3, <2>5, <2>8 DEF fed
<1>9. CASE fed.grid = grid /\ fed.d.held = Append(held, b)
  <2>1. Spoken(fed) = Shells(grid) \o (Shells(held) \o Shells(<<b>>))
    BY <1>3, <1>4, <1>6, <1>9
  <2> QED BY <1>2, <1>3, <1>7, <1>9, <2>1 DEF fed
<1>10. CASE fed.grid = grid /\ fed.d.held = <<>> /\ b.by # 0 /\ Shells(held) = <<>>
  <2>1. Shells(<<b>>) = <<>>
    BY <1>10, ShellsOfOne
  <2>2. Spoken(f) \o <<>> = Spoken(f)
    BY <1>3, <1>5, ConcatEmptySeq
  <2>3. Spoken(fed) = Spoken(f)
    BY <1>3, <1>5, <1>10
  <2> QED BY <1>2, <1>3, <1>10, <2>1, <2>2, <2>3 DEF fed
<1> QED BY <1>2, <1>8, <1>9, <1>10
\* And a read on the path, whole.
LEMMA FeedFollows ==
  ASSUME NEW f \in Fed, NEW s \in Seq(Tokens), NEW p \in Place, NEW q \in Place,
         Path(p, s, q), Agrees(p, f.d), ShellsOnly(f.grid)
  PROVE  LET fed == Feed(f, s)
         IN  Agrees(q, fed.d) /\ ShellsOnly(fed.grid) /\ Spoken(fed) = Spoken(f) \o Shells(s)
<1> DEFINE n == Len(s)
<1>1. n \in Nat /\ \A k \in 1 .. n : s[k] \in Tokens
  OBVIOUS
<1>2. PICK ph \in [0 .. n -> Place] : ph[0] = p /\ ph[n] = q /\ \A k \in 1 .. n : Goes(ph[k - 1], s[k], ph[k])
  BY DEF Path
<1>3. PICK h \in [0 .. n -> Fed] :
        h[0] = f /\ h[n] = Feed(f, s) /\ \A k \in 1 .. n : h[k] = FeedOne(h[k - 1], s[k])
  BY FeedWalk
<1>4. SubSeq(s, 1, n) = s /\ Shells(SubSeq(s, 1, 0)) = <<>>
  BY PrefixEnds, ShellsOfNothing
<1>5. ASSUME NEW k \in 1 .. n
      PROVE  /\ SubSeq(s, 1, k) = SubSeq(s, 1, k - 1) \o <<s[k]>>
             /\ SubSeq(s, 1, k - 1) \in Seq(Tokens) /\ <<s[k]>> \in Seq(Tokens)
  BY PrefixGrows
<1> HIDE DEF n
<1> DEFINE Good(k) == Agrees(ph[k], h[k].d) /\ ShellsOnly(h[k].grid) /\ Spoken(h[k]) = Spoken(f) \o Shells(SubSeq(s, 1, k))
           B == {k \in 0 .. n : Good(k)}
<1>6. Spoken(f) \in Seq(Words)
  BY SpokenTyped
<1>7. 0 \in B
  <2>1. Spoken(f) \o <<>> = Spoken(f)
    BY <1>6, ConcatEmptySeq
  <2>2. 0 \in 0 .. n
    BY <1>1
  <2> QED BY <1>2, <1>3, <1>4, <2>1, <2>2
<1>8. ASSUME NEW k \in 1 .. n, k - 1 \in B PROVE k \in B
  <2> DEFINE g == h[k - 1]
             b == s[k]
             u == ph[k - 1]
             v == ph[k]
             c == SubSeq(s, 1, k - 1)
  <2>1. k \in 0 .. n /\ k - 1 \in 0 .. n
    BY <1>1
  <2>2. g \in Fed /\ b \in Tokens /\ u \in Place /\ v \in Place
    BY <1>1, <1>2, <1>3, <2>1
  <2>3. Goes(u, b, v) /\ h[k] = FeedOne(g, b)
    BY <1>2, <1>3
  <2>4. Agrees(u, g.d) /\ ShellsOnly(g.grid) /\ Spoken(g) = Spoken(f) \o Shells(c)
    BY <1>8
  <2>5. SubSeq(s, 1, k) = c \o <<b>> /\ c \in Seq(Tokens) /\ <<b>> \in Seq(Tokens)
    BY <1>5
  <2> HIDE DEF g, b, u, v, c
  <2>6. Agrees(v, h[k].d) /\ ShellsOnly(h[k].grid) /\ Spoken(h[k]) = Spoken(g) \o Shells(<<b>>)
    BY <2>2, <2>3, <2>4, FeedOneFollows
  <2>7. Shells(c \o <<b>>) = Shells(c) \o Shells(<<b>>) /\ Shells(c) \in Seq(Words) /\ Shells(<<b>>) \in Seq(Words)
    BY <2>5, ShellsOfTwo, ShellsTyped
  <2>8. (Spoken(f) \o Shells(c)) \o Shells(<<b>>) = Spoken(f) \o (Shells(c) \o Shells(<<b>>))
    <3>1. Spoken(f) \in Seq(Words) /\ Shells(c) \in Seq(Words) /\ Shells(<<b>>) \in Seq(Words)
      BY <1>6, <2>7
    <3> QED BY <3>1, WordsRegrouped
  <2>9. Spoken(h[k]) = Spoken(f) \o Shells(SubSeq(s, 1, k))
    BY <2>4, <2>5, <2>6, <2>7, <2>8
  <2> QED BY <2>1, <2>6, <2>9 DEF v
<1> HIDE DEF B
<1>9. \A k \in 0 .. n : k \in B
  BY <1>1, <1>7, <1>8, StepByStep
<1>10. Good(n)
  <2>1. n \in B
    BY <1>1, <1>9
  <2> QED BY <2>1 DEF B
<1> QED BY <1>2, <1>3, <1>4, <1>10

-----------------------------------------------------------------------------
(***************************************************************************)
(* Paths: none, a byte's, one after another, and cut in two.               *)
(***************************************************************************)
LEMMA PathOfOne ==
  ASSUME NEW p \in Place, NEW q \in Place, NEW b, Goes(p, b, q)
  PROVE  Path(p, <<b>>, q)
<1> DEFINE h == [i \in 0 .. 1 |-> IF i = 0 THEN p ELSE q]
<1>1. Len(<<b>>) = 1 /\ <<b>>[1] = b
  OBVIOUS
<1>2. h \in [0 .. 1 -> Place] /\ h[0] = p /\ h[1] = q
  OBVIOUS
<1>3. \A n \in 1 .. 1 : n = 1 /\ n - 1 = 0
  OBVIOUS
<1> HIDE DEF h
<1> QED BY <1>1, <1>2, <1>3 DEF Path

LEMMA PathOfTwo ==
  ASSUME NEW s \in Seq(Tokens), NEW t \in Seq(Tokens), NEW p \in Place, NEW q \in Place, NEW r \in Place,
         Path(p, s, q), Path(q, t, r)
  PROVE  Path(p, s \o t, r)
<1> DEFINE m == Len(s)
           n == Len(t)
           u == s \o t
<1>1. /\ m \in Nat /\ n \in Nat /\ u \in Seq(Tokens) /\ Len(u) = m + n
      /\ \A k \in 1 .. m : u[k] = s[k]
      /\ \A k \in 1 .. n : u[m + k] = t[k]
  OBVIOUS
<1>2. PICK f \in [0 .. m -> Place] : f[0] = p /\ f[m] = q /\ \A k \in 1 .. m : Goes(f[k - 1], s[k], f[k])
  BY DEF Path
<1>3. PICK g \in [0 .. n -> Place] : g[0] = q /\ g[n] = r /\ \A k \in 1 .. n : Goes(g[k - 1], t[k], g[k])
  BY DEF Path
<1> HIDE DEF m, n, u
<1> DEFINE h == [i \in 0 .. m + n |-> IF i <= m THEN f[i] ELSE g[i - m]]
<1>4. ASSUME NEW i \in 0 .. m PROVE i \in 0 .. m + n /\ h[i] = f[i]
  BY <1>1
<1>5. ASSUME NEW i \in 0 .. n PROVE m + i \in 0 .. m + n /\ h[m + i] = g[i]
  <2>1. m + i \in 0 .. m + n /\ (m + i) - m = i /\ 0 \in 0 .. n
    BY <1>1
  <2>2. CASE i = 0
    <3>1. m + i = m /\ m <= m /\ h[m + i] = f[m]
      BY <1>1, <2>1, <2>2
    <3>2. f[m] = g[i]
      BY <1>2, <1>3, <2>2
    <3> QED BY <2>1, <3>1, <3>2
  <2>3. CASE i > 0
    <3>1. ~ (m + i <= m)
      BY <1>1, <2>3
    <3>2. h[m + i] = g[(m + i) - m]
      BY <2>1, <3>1
    <3> QED BY <2>1, <3>2
  <2> QED BY <1>1, <2>2, <2>3
<1>6. h \in [0 .. m + n -> Place]
  <2>1. ASSUME NEW i \in 0 .. m + n PROVE h[i] \in Place
    <3>1. CASE i <= m
      <4>1. i \in 0 .. m
        BY <1>1, <3>1
      <4> QED BY <4>1
    <3>2. CASE i > m
      <4>1. i - m \in 0 .. n /\ ~ (i <= m)
        BY <1>1, <3>2
      <4> QED BY <4>1
    <3> QED BY <1>1, <3>1, <3>2
  <2> QED BY <2>1
<1> HIDE DEF h
<1>7. ASSUME NEW k \in 1 .. m + n PROVE Goes(h[k - 1], u[k], h[k])
  <2>1. CASE k <= m
    <3>1. k \in 1 .. m /\ k \in 0 .. m /\ k - 1 \in 0 .. m
      BY <1>1, <2>1
    <3>2. h[k] = f[k] /\ h[k - 1] = f[k - 1] /\ u[k] = s[k]
      BY <1>1, <1>4, <3>1
    <3> QED BY <1>2, <3>1, <3>2
  <2>2. CASE k > m
    <3> DEFINE j == k - m
    <3>1. j \in 1 .. n /\ j \in 0 .. n /\ j - 1 \in 0 .. n /\ m + j = k /\ m + (j - 1) = k - 1
      BY <1>1, <2>2
    <3> HIDE DEF j
    <3>2. h[m + j] = g[j] /\ h[m + (j - 1)] = g[j - 1] /\ u[m + j] = t[j]
      BY <1>1, <1>5, <3>1
    <3>3. Goes(g[j - 1], t[j], g[j])
      BY <1>3, <3>1
    <3> QED BY <3>1, <3>2, <3>3
  <2> QED BY <1>1, <2>1, <2>2
<1>8. h[0] = p /\ h[m + n] = r
  <2>1. 0 \in 0 .. m /\ n \in 0 .. n
    BY <1>1
  <2> QED BY <1>2, <1>3, <1>4, <1>5, <2>1
<1>9. \E z \in [0 .. Len(u) -> Place] :
        z[0] = p /\ z[Len(u)] = r /\ \A k \in 1 .. Len(u) : Goes(z[k - 1], u[k], z[k])
  BY <1>1, <1>6, <1>7, <1>8
<1> QED BY <1>9 DEF Path, u

\* A read cuts the path where it stops.
LEMMA PathCut ==
  ASSUME NEW s \in Seq(Tokens), NEW n \in 0 .. Len(s), NEW p \in Place, NEW q \in Place, Path(p, s, q)
  PROVE  \E r \in Place : Path(p, SubSeq(s, 1, n), r) /\ Path(r, SubSeq(s, n + 1, Len(s)), q)
<1> DEFINE m == Len(s)
           a == SubSeq(s, 1, n)
           z == SubSeq(s, n + 1, m)
<1>1. m \in Nat /\ n \in Nat /\ n <= m
  OBVIOUS
<1>2. Len(a) = n /\ \A k \in 1 .. n : a[k] = s[k]
  OBVIOUS
<1>3. Len(z) = m - n /\ \A k \in 1 .. m - n : z[k] = s[n + k]
  OBVIOUS
<1>4. PICK h \in [0 .. m -> Place] : h[0] = p /\ h[m] = q /\ \A k \in 1 .. m : Goes(h[k - 1], s[k], h[k])
  BY DEF Path
<1> HIDE DEF m, a, z
<1> DEFINE f == [i \in 0 .. n |-> h[i]]
           g == [i \in 0 .. m - n |-> h[n + i]]
<1>5. f \in [0 .. n -> Place] /\ \A i \in 0 .. n : f[i] = h[i]
  BY <1>1
<1>6. g \in [0 .. m - n -> Place] /\ \A i \in 0 .. m - n : g[i] = h[n + i]
  BY <1>1
<1>7. h[n] \in Place
  BY <1>1
<1> HIDE DEF f, g
<1>8. Path(p, a, h[n])
  <2>1. 0 \in 0 .. n /\ n \in 0 .. n
    BY <1>1
  <2>2. ASSUME NEW k \in 1 .. n PROVE Goes(f[k - 1], a[k], f[k])
    <3>1. k \in 1 .. m /\ k \in 0 .. n /\ k - 1 \in 0 .. n
      BY <1>1
    <3>2. f[k] = h[k] /\ f[k - 1] = h[k - 1] /\ a[k] = s[k]
      BY <1>2, <1>5, <3>1
    <3> QED BY <1>4, <3>1, <3>2
  <2> QED BY <1>2, <1>4, <1>5, <2>1, <2>2 DEF Path
<1>9. Path(h[n], z, q)
  <2>1. 0 \in 0 .. m - n /\ m - n \in 0 .. m - n /\ n + 0 = n /\ n + (m - n) = m
    BY <1>1
  <2>2. ASSUME NEW k \in 1 .. m - n PROVE Goes(g[k - 1], z[k], g[k])
    <3>1. n + k \in 1 .. m /\ k \in 0 .. m - n /\ k - 1 \in 0 .. m - n /\ (n + k) - 1 = n + (k - 1)
      BY <1>1
    <3>2. g[k] = h[n + k] /\ g[k - 1] = h[n + (k - 1)] /\ z[k] = s[n + k]
      BY <1>3, <1>6, <3>1
    <3>3. Goes(h[(n + k) - 1], s[n + k], h[n + k])
      BY <1>4, <3>1
    <3> QED BY <3>1, <3>2, <3>3
  <2>3. g[0] = h[n] /\ g[m - n] = q
    BY <1>4, <1>6, <2>1
  <2> QED BY <1>3, <1>6, <2>2, <2>3 DEF Path
<1> QED BY <1>7, <1>8, <1>9 DEF a, z, m
-----------------------------------------------------------------------------
(***************************************************************************)
(* What the child writes at once.                                          *)
(***************************************************************************)
LEMMA SaidFacts ==
  ASSUME NEW u \in Seq(Words), NEW by \in 0 .. Clients
  PROVE  /\ Said(u, by) \in Seq(Tokens) /\ Len(Said(u, by)) = Len(u)
         /\ \A i \in 1 .. Len(u) : Said(u, by)[i] = Token(u[i], by) /\ Token(u[i], by) \in Tokens
<1>1. Len(u) \in Nat /\ \A i \in 1 .. Len(u) : u[i] \in Words
  OBVIOUS
<1>2. \A w \in Words : Token(w, by) \in Tokens
  BY DEF Token, Tokens
<1>3. Said(u, by) \in [1 .. Len(u) -> Tokens]
  BY <1>1, <1>2 DEF Said
<1>4. Said(u, by) \in Seq(Tokens) /\ Len(Said(u, by)) = Len(u)
  BY <1>1, <1>3
<1> QED BY <1>1, <1>2, <1>4 DEF Said

\* What the shell wrote alone is told whole, and in its order.
LEMMA ShellsOfShell ==
  ASSUME NEW s \in Seq(Tokens), ShellsOnly(s)
  PROVE  Shells(s) = Kinds(s)
<1> DEFINE n == Len(s)
<1>1. n \in Nat /\ \A k \in 1 .. n : s[k] \in Tokens /\ s[k].by = 0 /\ s[k].k \in Words
  <2>1. n \in Nat /\ \A k \in 1 .. n : s[k] \in Tokens
    OBVIOUS
  <2>2. \A t \in Tokens : t.k \in Words
    BY DEF Tokens
  <2> QED BY <2>1, <2>2 DEF ShellsOnly
<1>2. PICK h \in [0 .. n -> Seq(Words)] :
        h[0] = <<>> /\ h[n] = Shells(s) /\ \A k \in 1 .. n : h[k] = Tell(h[k - 1], s[k])
  BY ShellsWalk
<1>3. Kinds(s) = [i \in 1 .. n |-> s[i].k]
  BY DEF Kinds
<1> HIDE DEF n
<1> DEFINE B == {k \in 0 .. n : Len(h[k]) = k /\ \A i \in 1 .. k : h[k][i] = s[i].k}
<1>4. 0 \in B
  BY <1>1, <1>2
<1>5. ASSUME NEW k \in 1 .. n, k - 1 \in B PROVE k \in B
  <2> DEFINE g == h[k - 1]
             w == s[k].k
  <2>1. k \in 0 .. n /\ k - 1 \in 0 .. n
    BY <1>1
  <2>2. g \in Seq(Words) /\ w \in Words /\ Len(g) = k - 1 /\ \A i \in 1 .. k - 1 : g[i] = s[i].k
    BY <1>1, <1>2, <1>5, <2>1
  <2>3. h[k] = Append(g, w)
    BY <1>1, <1>2 DEF Tell
  <2> HIDE DEF g
  <2>4. \A v \in Words : Len(Append(g, v)) = k /\ Append(g, v)[k] = v /\ \A i \in 1 .. k - 1 : Append(g, v)[i] = g[i]
    BY <2>2
  <2>5. Len(h[k]) = k /\ h[k][k] = w /\ \A i \in 1 .. k - 1 : h[k][i] = s[i].k
    BY <2>2, <2>3, <2>4
  <2>6. \A i \in 1 .. k : i = k \/ i \in 1 .. k - 1
    OBVIOUS
  <2> QED BY <2>1, <2>5, <2>6
<1> HIDE DEF B
<1>6. \A k \in 0 .. n : k \in B
  BY <1>1, <1>4, <1>5, StepByStep
<1>7. h[n] \in Seq(Words) /\ Len(h[n]) = n /\ \A i \in 1 .. n : h[n][i] = s[i].k
  <2>1. n \in B
    BY <1>1, <1>6
  <2> QED BY <1>1, <1>2, <2>1 DEF B
<1>8. h[n] = [i \in 1 .. n |-> h[n][i]]
  <2> DEFINE g == h[n]
  <2>1. g \in Seq(Words) /\ Len(g) = n
    BY <1>7
  <2> HIDE DEF g
  <2>2. g = [i \in 1 .. n |-> g[i]]
    BY <2>1
  <2> QED BY <2>2 DEF g
<1>9. h[n] = [i \in 1 .. n |-> s[i].k]
  BY <1>7, <1>8
<1> QED BY <1>2, <1>3, <1>9

\* Of what a client wrote, nothing.
LEMMA ShellsOfClient ==
  ASSUME NEW s \in Seq(Tokens), \A i \in 1 .. Len(s) : s[i].by # 0
  PROVE  Shells(s) = <<>>
<1> DEFINE n == Len(s)
<1>1. n \in Nat
  OBVIOUS
<1>2. PICK h \in [0 .. n -> Seq(Words)] :
        h[0] = <<>> /\ h[n] = Shells(s) /\ \A k \in 1 .. n : h[k] = Tell(h[k - 1], s[k])
  BY ShellsWalk
<1>3. \A k \in 1 .. n : h[k] = h[k - 1]
  BY <1>2 DEF Tell
<1> HIDE DEF n
<1> DEFINE B == {k \in 0 .. n : h[k] = <<>>}
<1>4. 0 \in B
  BY <1>1, <1>2
<1>5. ASSUME NEW k \in 1 .. n, k - 1 \in B PROVE k \in B
  BY <1>1, <1>3, <1>5
<1> HIDE DEF B
<1>6. \A k \in 0 .. n : k \in B
  BY <1>1, <1>4, <1>5, StepByStep
<1>7. h[n] = <<>>
  <2>1. n \in B
    BY <1>1, <1>6
  <2> QED BY <2>1 DEF B
<1> QED BY <1>2, <1>7
LEMMA UnitsAreWords ==
  /\ ShellUnits \subseteq Seq(Words) /\ ClientUnits \subseteq Seq(Words)
  /\ Intro \in Seq(Words) /\ Exit \in Seq(Words)
<1>1. /\ <<"text">> \in Seq(Words) /\ <<"esc", "text">> \in Seq(Words) /\ <<"ask">> \in Seq(Words)
      /\ <<"esc", "P", "q", "text", "esc", "st">> \in Seq(Words)
  BY DEF Words
<1>2. <<"line">> \in Seq(Words) /\ <<"esc", "line">> \in Seq(Words) /\ <<"esc", "st", "line">> \in Seq(Words)
  BY DEF Words
<1>3. <<"esc", "P", "1000p">> \in Seq(Words) /\ <<"exit", "esc", "st">> \in Seq(Words)
  BY DEF Words
<1> QED BY <1>1, <1>2, <1>3 DEF ShellUnits, ClientUnits, Intro, Exit

\* No question in what is no shell's, and at most one in what is.
LEMMA QuestionsOfSaid ==
  ASSUME NEW u \in Seq(Words), NEW by \in 0 .. Clients
  PROVE  /\ Questions(Said(u, by)) \in Nat
         /\ (\A i \in 1 .. Len(u) : u[i] # "ask") => Questions(Said(u, by)) = 0
         /\ Len(u) = 1 => Questions(Said(u, by)) <= 1
<1> DEFINE s == Said(u, by)
<1>1. s \in Seq(Tokens) /\ Len(s) = Len(u) /\ \A i \in 1 .. Len(u) : s[i] = Token(u[i], by)
  BY SaidFacts
<1> HIDE DEF s
<1>2. \A i \in 1 .. Len(u) : s[i].k = u[i]
  <2>1. \A w, c : Token(w, c).k = w
    BY DEF Token
  <2> QED BY <1>1, <2>1
<1>3. Asks(s) = {i \in 1 .. Len(u) : u[i] = "ask"}
  BY <1>1, <1>2 DEF Asks
<1>4. IsFiniteSet(Asks(s)) /\ Questions(s) = Cardinality(Asks(s)) /\ Questions(s) \in Nat
  BY <1>1, QuestionsCounted
<1>5. Cardinality({}) = 0 /\ Cardinality({1}) = 1
  BY FS_EmptySet, FS_Singleton
<1>6. ASSUME \A i \in 1 .. Len(u) : u[i] # "ask" PROVE Questions(s) = 0
  <2>1. Asks(s) = {}
    BY <1>3, <1>6
  <2> QED BY <1>4, <1>5, <2>1
<1>7. ASSUME Len(u) = 1 PROVE Questions(s) <= 1
  <2>1. Asks(s) = {} \/ Asks(s) = {1}
    <3>1. \A i \in 1 .. Len(u) : i = 1
      BY <1>7
    <3>2. Asks(s) \subseteq {1}
      BY <1>3, <3>1
    <3> QED BY <3>2
  <2>2. Questions(s) = 0 \/ Questions(s) = 1
    BY <1>4, <1>5, <2>1
  <2> QED BY <2>2
<1> QED BY <1>4, <1>6, <1>7 DEF s

LEMMA ShellWrites ==
  ASSUME NEW u \in ShellUnits
  PROVE  /\ Path(At("shell", 0), Said(u, 0), At("shell", 0))
         /\ Said(u, 0) \in Seq(Tokens) /\ Shells(Said(u, 0)) = u /\ Questions(Said(u, 0)) <= 1
<1> DEFINE s == Said(u, 0)
<1>1. u \in Seq(Words) /\ 0 \in 0 .. Clients
  BY UnitsAreWords, ConstantFacts
<1>2. s \in Seq(Tokens) /\ Len(s) = Len(u) /\ \A i \in 1 .. Len(u) : s[i] = Token(u[i], 0)
  BY <1>1, SaidFacts
<1> HIDE DEF s
<1>3. \A i \in 1 .. Len(u) : s[i].k = u[i] /\ s[i].by = 0
  <2>1. \A w, c : Token(w, c).k = w /\ Token(w, c).by = c
    BY DEF Token
  <2> QED BY <1>2, <2>1
<1>4. Shells(s) = u
  <2>1. ShellsOnly(s)
    BY <1>2, <1>3 DEF ShellsOnly
  <2>2. Shells(s) = [i \in 1 .. Len(u) |-> s[i].k]
    BY <1>2, <2>1, ShellsOfShell DEF Kinds
  <2>3. u = [i \in 1 .. Len(u) |-> u[i]]
    BY <1>1
  <2> QED BY <1>3, <2>2, <2>3
<1>5. Questions(s) <= 1
  <2>1. CASE u = <<"text">> \/ u = <<"ask">>
    <3>1. Len(u) = 1
      BY <2>1
    <3> QED BY <1>1, <3>1, QuestionsOfSaid DEF s
  <2>2. CASE u = <<"esc", "text">>
    <3>1. \A i \in 1 .. Len(u) : u[i] # "ask"
      BY <2>2
    <3>2. Questions(s) = 0
      BY <1>1, <3>1, QuestionsOfSaid DEF s
    <3> QED BY <3>2
  <2>3. CASE u = <<"esc", "P", "q", "text", "esc", "st">>
    <3>1. \A i \in 1 .. Len(u) : u[i] # "ask"
      BY <2>3
    <3>2. Questions(s) = 0
      BY <1>1, <3>1, QuestionsOfSaid DEF s
    <3> QED BY <3>2
  <2> QED BY <2>1, <2>2, <2>3 DEF ShellUnits
<1> DEFINE here == At("shell", 0)
<1>6. here \in Place /\ At("esc", 0) \in Place /\ At("intro", 0) \in Place
  BY <1>1, PlaceFacts
<1>7. Path(here, s, here)
  <2>1. CASE u = <<"text">> \/ u = <<"ask">>
    <3> DEFINE h == [i \in 0 .. 1 |-> here]
    <3>1. Len(u) = 1 /\ u[1] # "esc"
      BY <2>1
    <3>2. h \in [0 .. 1 -> Place] /\ h[0] = here /\ h[1] = here
      BY <1>6
    <3>3. Goes(here, s[1], here)
      BY <1>3, <3>1 DEF Goes
    <3>4. \A k \in 1 .. 1 : k = 1 /\ k - 1 = 0
      OBVIOUS
    <3> HIDE DEF h, here
    <3> QED BY <1>2, <3>1, <3>2, <3>3, <3>4 DEF Path
  <2>2. CASE u = <<"esc", "text">>
    <3> DEFINE h == [i \in 0 .. 2 |-> IF i = 1 THEN At("esc", 0) ELSE here]
    <3>1. Len(u) = 2 /\ u[1] = "esc" /\ u[2] = "text"
      BY <2>2
    <3>2. h \in [0 .. 2 -> Place] /\ h[0] = here /\ h[1] = At("esc", 0) /\ h[2] = here
      BY <1>6
    <3>3. Goes(here, s[1], At("esc", 0)) /\ Goes(At("esc", 0), s[2], here)
      BY <1>3, <3>1 DEF Goes
    <3>4. \A k \in 1 .. 2 : k = 1 \/ k = 2
      OBVIOUS
    <3> HIDE DEF h, here
    <3>5. 1 - 1 = 0 /\ 2 - 1 = 1
      OBVIOUS
    <3>6. \A k \in 1 .. 2 : Goes(h[k - 1], s[k], h[k])
      BY <3>2, <3>3, <3>4, <3>5
    <3> QED BY <1>2, <3>1, <3>2, <3>6 DEF Path
  <2>3. CASE u = <<"esc", "P", "q", "text", "esc", "st">>
    <3> DEFINE h == [i \in 0 .. 6 |-> IF i \in {1, 5} THEN At("esc", 0) ELSE IF i = 2 THEN At("intro", 0) ELSE here]
    <3>1. Len(u) = 6 /\ u[1] = "esc" /\ u[2] = "P" /\ u[3] = "q" /\ u[4] = "text" /\ u[5] = "esc" /\ u[6] = "st"
      BY <2>3
    <3>2. /\ h \in [0 .. 6 -> Place] /\ h[0] = here /\ h[1] = At("esc", 0) /\ h[2] = At("intro", 0)
          /\ h[3] = here /\ h[4] = here /\ h[5] = At("esc", 0) /\ h[6] = here
      BY <1>6
    <3>3. /\ Goes(here, s[1], At("esc", 0)) /\ Goes(At("esc", 0), s[2], At("intro", 0))
          /\ Goes(At("intro", 0), s[3], here)
      BY <1>3, <3>1 DEF Goes, At
    <3>4. Goes(here, s[4], here) /\ Goes(here, s[5], At("esc", 0)) /\ Goes(At("esc", 0), s[6], here)
      BY <1>3, <3>1 DEF Goes
    <3>5. \A k \in 1 .. 6 : k = 1 \/ k = 2 \/ k = 3 \/ k = 4 \/ k = 5 \/ k = 6
      OBVIOUS
    <3>0. 1 - 1 = 0 /\ 2 - 1 = 1 /\ 3 - 1 = 2 /\ 4 - 1 = 3 /\ 5 - 1 = 4 /\ 6 - 1 = 5
      OBVIOUS
    <3> HIDE DEF h, here
    <3>6. \A k \in 1 .. 6 : Goes(h[k - 1], s[k], h[k])
      BY <3>0, <3>2, <3>3, <3>4, <3>5
    <3> QED BY <1>2, <3>1, <3>2, <3>6 DEF Path
  <2> QED BY <2>1, <2>2, <2>3 DEF ShellUnits
<1> QED BY <1>2, <1>4, <1>5, <1>7 DEF s
\* What a client writes between its first word and its last, and those.
ClientPlaces(u, c) ==
  IF u = Intro THEN <<At("shell", 0), At("env", c)>>
  ELSE IF u = Exit THEN <<At("env", c), At("shell", 0)>>
  ELSE <<At("env", c), At("env", c)>>

LEMMA ClientWrites ==
  ASSUME NEW u \in ClientUnits \cup {Intro, Exit}, NEW c \in 1 .. Clients
  PROVE  /\ Path(ClientPlaces(u, c)[1], Said(u, c), ClientPlaces(u, c)[2])
         /\ Said(u, c) \in Seq(Tokens) /\ Shells(Said(u, c)) = <<>> /\ Questions(Said(u, c)) = 0
<1> DEFINE s == Said(u, c)
<1>1. u \in Seq(Words) /\ c \in 0 .. Clients /\ 0 \in 0 .. Clients /\ c # 0
  BY UnitsAreWords, ConstantFacts
<1>2. s \in Seq(Tokens) /\ Len(s) = Len(u) /\ \A i \in 1 .. Len(u) : s[i] = Token(u[i], c)
  BY <1>1, SaidFacts
<1> HIDE DEF s
<1>3. \A i \in 1 .. Len(u) : s[i].k = u[i] /\ s[i].by = c
  <2>1. \A w, by : Token(w, by).k = w /\ Token(w, by).by = by
    BY DEF Token
  <2> QED BY <1>2, <2>1
<1>4. Shells(s) = <<>>
  BY <1>1, <1>2, <1>3, ShellsOfClient
<1>5. Questions(s) = 0
  <2>1. \A i \in 1 .. Len(u) : u[i] # "ask"
    <3>1. \/ Len(u) = 1 /\ u[1] = "line"
          \/ Len(u) = 2 /\ u[1] = "esc" /\ u[2] = "line"
          \/ Len(u) = 3 /\ u[1] \in {"esc", "exit"} /\ u[2] \in {"st", "P", "esc"} /\ u[3] \in {"line", "1000p", "st"}
      BY DEF ClientUnits, Intro, Exit
    <3>2. (\A i \in 1 .. 1 : i = 1) /\ (\A i \in 1 .. 2 : i = 1 \/ i = 2) /\ (\A i \in 1 .. 3 : i = 1 \/ i = 2 \/ i = 3)
      OBVIOUS
    <3> QED BY <3>1, <3>2
  <2> QED BY <1>1, <2>1, QuestionsOfSaid DEF s
<1> DEFINE env == At("env", c)
           shell == At("shell", 0)
<1>6. /\ shell \in Place /\ env \in Place /\ At("esc", c) \in Place /\ At("intro", c) \in Place
      /\ At("envesc", c) \in Place /\ At("last", c) \in Place /\ At("lastesc", c) \in Place
  BY <1>1, PlaceFacts
<1>7. 1 - 1 = 0 /\ 2 - 1 = 1 /\ 3 - 1 = 2
  OBVIOUS
<1>8. ASSUME NEW p \in Place, NEW q \in Place, NEW r \in Place, NEW t \in Place, Len(u) = 3,
             Goes(p, s[1], q), Goes(q, s[2], r), Goes(r, s[3], t)
      PROVE  Path(p, s, t)
  <2> DEFINE h == [i \in 0 .. 3 |-> IF i = 0 THEN p ELSE IF i = 1 THEN q ELSE IF i = 2 THEN r ELSE t]
  <2>1. h \in [0 .. 3 -> Place] /\ h[0] = p /\ h[1] = q /\ h[2] = r /\ h[3] = t
    OBVIOUS
  <2>2. \A k \in 1 .. 3 : k = 1 \/ k = 2 \/ k = 3
    OBVIOUS
  <2> HIDE DEF h
  <2>3. \A k \in 1 .. 3 : Goes(h[k - 1], s[k], h[k])
    BY <1>7, <1>8, <2>1, <2>2
  <2> QED BY <1>2, <1>8, <2>1, <2>3 DEF Path
<1>9. CASE u = <<"line">>
  <2>1. Len(u) = 1 /\ u[1] = "line" /\ ClientPlaces(u, c)[1] = env /\ ClientPlaces(u, c)[2] = env
    BY <1>9 DEF ClientPlaces, Intro, Exit
  <2>2. Goes(env, s[1], env)
    BY <1>1, <1>3, <2>1 DEF Goes, At
  <2> DEFINE h == [i \in 0 .. 1 |-> env]
  <2>3. h \in [0 .. 1 -> Place] /\ h[0] = env /\ h[1] = env
    BY <1>6
  <2>4. \A k \in 1 .. 1 : k = 1
    OBVIOUS
  <2> HIDE DEF h, env
  <2>5. \A k \in 1 .. 1 : Goes(h[k - 1], s[k], h[k])
    BY <1>7, <2>2, <2>3, <2>4
  <2>6. Path(env, s, env)
    BY <1>2, <2>1, <2>3, <2>5 DEF Path
  <2> QED BY <1>2, <1>4, <1>5, <2>1, <2>6 DEF s
<1>10. CASE u = <<"esc", "line">>
  <2>1. Len(u) = 2 /\ u[1] = "esc" /\ u[2] = "line" /\ ClientPlaces(u, c)[1] = env /\ ClientPlaces(u, c)[2] = env
    BY <1>10 DEF ClientPlaces, Intro, Exit
  <2>2. Goes(env, s[1], At("envesc", c)) /\ Goes(At("envesc", c), s[2], env)
    BY <1>1, <1>3, <2>1 DEF Goes, At
  <2> DEFINE h == [i \in 0 .. 2 |-> IF i = 1 THEN At("envesc", c) ELSE env]
  <2>3. h \in [0 .. 2 -> Place] /\ h[0] = env /\ h[1] = At("envesc", c) /\ h[2] = env
    BY <1>6
  <2>4. \A k \in 1 .. 2 : k = 1 \/ k = 2
    OBVIOUS
  <2> HIDE DEF h, env
  <2>5. \A k \in 1 .. 2 : Goes(h[k - 1], s[k], h[k])
    BY <1>7, <2>2, <2>3, <2>4
  <2>6. Path(env, s, env)
    BY <1>2, <2>1, <2>3, <2>5 DEF Path
  <2> QED BY <1>2, <1>4, <1>5, <2>1, <2>6 DEF s
<1>11. CASE u = <<"esc", "st", "line">>
  <2>1. /\ Len(u) = 3 /\ u[1] = "esc" /\ u[2] = "st" /\ u[3] = "line"
        /\ ClientPlaces(u, c)[1] = env /\ ClientPlaces(u, c)[2] = env
    BY <1>11 DEF ClientPlaces, Intro, Exit
  <2>2. Goes(env, s[1], At("envesc", c)) /\ Goes(At("envesc", c), s[2], env) /\ Goes(env, s[3], env)
    BY <1>1, <1>3, <2>1 DEF Goes, At
  <2>3. Path(env, s, env)
    BY <1>6, <1>8, <2>1, <2>2
  <2> QED BY <1>2, <1>4, <1>5, <2>1, <2>3 DEF s
<1>12. CASE u = Intro
  <2>1. /\ Len(u) = 3 /\ u[1] = "esc" /\ u[2] = "P" /\ u[3] = "1000p"
        /\ ClientPlaces(u, c)[1] = shell /\ ClientPlaces(u, c)[2] = env
    BY <1>12 DEF ClientPlaces, Intro
  <2>2. Goes(shell, s[1], At("esc", c)) /\ Goes(At("esc", c), s[2], At("intro", c)) /\ Goes(At("intro", c), s[3], env)
    BY <1>1, <1>3, <2>1 DEF Goes, At
  <2>3. Path(shell, s, env)
    BY <1>6, <1>8, <2>1, <2>2
  <2> QED BY <1>2, <1>4, <1>5, <2>1, <2>3 DEF s
<1>13. CASE u = Exit
  <2>1. /\ Len(u) = 3 /\ u[1] = "exit" /\ u[2] = "esc" /\ u[3] = "st"
        /\ ClientPlaces(u, c)[1] = env /\ ClientPlaces(u, c)[2] = shell
    BY <1>13 DEF ClientPlaces, Intro, Exit
  <2>2. Goes(env, s[1], At("last", c)) /\ Goes(At("last", c), s[2], At("lastesc", c)) /\ Goes(At("lastesc", c), s[3], shell)
    BY <1>1, <1>3, <2>1 DEF Goes, At
  <2>3. Path(env, s, shell)
    BY <1>6, <1>8, <2>1, <2>2
  <2> QED BY <1>2, <1>4, <1>5, <2>1, <2>3 DEF s
<1> QED BY <1>9, <1>10, <1>11, <1>12, <1>13 DEF ClientUnits
-----------------------------------------------------------------------------
(***************************************************************************)
(* The steps.                                                              *)
(***************************************************************************)
\* The tap is open exactly in an envelope, whatever is fed.
LEMMA FeedOneOpens ==
  ASSUME NEW f \in Fed, NEW b \in Tokens, Opens(f.d)
  PROVE  Opens(FeedOne(f, b).d)
<1> DEFINE fed == FeedOne(f, b)
<1>1. f.d \in Parser /\ f.grid \in Seq(Tokens)
  BY DEF Fed
<1>2. ASSUME NEW state \in {"esc", "intro", "scan"}, NEW held, f.d.state \notin {"env", "envesc"}
      PROVE  Opens(Holds(f, held, state).d)
  <2>1. Holds(f, held, state).d.active = f.d.active /\ Holds(f, held, state).d.state = state
    BY DEF Holds, Fed, Parser
  <2> QED BY <1>2, <2>1 DEF Opens
<1>3. ASSUME NEW more, f.d.state \notin {"env", "envesc"}
      PROVE  Opens(ToGrid(f, more, "scan").d)
  <2>1. \A g : LET one == [f EXCEPT !.grid = g, !.d.held = <<>>, !.d.state = "scan"]
               IN  one.d.active = f.d.active /\ one.d.state = "scan"
    BY DEF Fed, Parser
  <2>2. ToGrid(f, more, "scan").d.active = f.d.active /\ ToGrid(f, more, "scan").d.state = "scan"
    BY <2>1 DEF ToGrid
  <2> QED BY <1>3, <2>2 DEF Opens
<1>4. ASSUME NEW d \in Parser, d.active = TRUE
      PROVE  Opens(InEnvelope(d, b)) /\ Put(d, Token("esc", b.by)).active = TRUE
  <2>1. InEnvelope(d, b).active = TRUE /\ InEnvelope(d, b).state \in {"env", "envesc"}
    BY <1>4 DEF InEnvelope, Put, Parser
  <2>2. Put(d, Token("esc", b.by)).active = TRUE
    BY <1>4 DEF Put, Parser
  <2> QED BY <2>1, <2>2 DEF Opens
<1>5. \A d : Through(f, d).d = d
  BY ThroughFields
<1>6. CASE f.d.state = "scan"
  <2>1. fed = Holds(f, <<b>>, "esc") \/ fed = ToGrid(f, <<b>>, "scan")
    BY <1>6 DEF FeedOne, Scan, Holds
  <2>2. f.d.state \notin {"env", "envesc"}
    BY <1>6
  <2>3. Opens(Holds(f, <<b>>, "esc").d)
    BY <1>2, <2>2
  <2>4. Opens(ToGrid(f, <<b>>, "scan").d)
    BY <1>3, <2>2
  <2> QED BY <2>1, <2>3, <2>4
<1>7. CASE f.d.state \in {"esc", "intro"}
  <2> DEFINE held == Append(f.d.held, b)
  <2>1. fed = Introducer(f, b)
    BY <1>7 DEF FeedOne
  <2>2. \/ fed = Holds(f, held, "intro")
        \/ f.d.state = "esc" /\ fed = [f EXCEPT !.d.held = held]
        \/ fed = Through(f, Opened(f.d, b.by))
        \/ fed = ToGrid(f, held, "scan")
    BY <1>7, <2>1 DEF Introducer, Holds, Through, Opened
  <2>3. f.d.state \notin {"env", "envesc"}
    BY <1>7
  <2>4. Opens(Holds(f, held, "intro").d) /\ Opens(ToGrid(f, held, "scan").d)
    BY <1>2, <1>3, <2>3
  <2>5. ASSUME NEW h PROVE Opens([f EXCEPT !.d.held = h].d)
    <3>1. [f EXCEPT !.d.held = h].d.active = f.d.active /\ [f EXCEPT !.d.held = h].d.state = f.d.state
      BY DEF Fed, Parser
    <3> QED BY <3>1 DEF Opens
  <2>6. Opens(Opened(f.d, b.by))
    <3>1. Opened(f.d, b.by).active = TRUE /\ Opened(f.d, b.by).state = "env"
      BY <1>1 DEF Opened, Hook, Parser
    <3> QED BY <3>1 DEF Opens
  <2> HIDE DEF held, fed
  <2>7. Opens(fed.d)
    BY <1>5, <2>2, <2>4, <2>5, <2>6
  <2> QED BY <2>7 DEF fed
<1>8. CASE f.d.state \notin {"scan", "esc", "intro"}
  <2>1. fed = EnvelopeByte(f, b)
    BY <1>8 DEF FeedOne
  <2> DEFINE e == Put(f.d, Token("esc", b.by))
  <2>2. \/ fed = Through(f, InEnvelope(f.d, b))
        \/ fed = Through(f, Unhook(f.d))
        \/ fed = Through(f, InEnvelope(e, b))
    BY <2>1 DEF EnvelopeByte, Through
  <2>3. f.d.active = TRUE
    BY <1>1, <1>8 DEF Opens, Parser
  <2>4. e \in Parser
    <3>1. Token("line", b.by) \in Tokens
      BY DEF Token, Tokens, Words
    <3>2. e.body \subseteq Tokens /\ Token("esc", b.by).k = "esc" /\ Token("esc", b.by).by = b.by
      BY <1>1, <3>1 DEF Put, Token, Parser
    <3> QED BY <1>1, <3>1, <3>2 DEF Put, Parser
  <2>5. Opens(InEnvelope(f.d, b)) /\ e.active = TRUE
    BY <1>1, <1>4, <2>3
  <2>6. Opens(InEnvelope(e, b))
    BY <1>4, <2>4, <2>5
  <2>7. Opens(Unhook(f.d))
    <3> DEFINE d == Unhook(f.d)
    <3>1. d.active = FALSE /\ d.state = "scan"
      BY <1>1 DEF Unhook, Parser
    <3> HIDE DEF d
    <3>2. (d.state \in {"env", "envesc"}) = FALSE
      BY <3>1
    <3>3. Opens(d)
      BY <3>1, <3>2, Zenon DEF Opens
    <3> QED BY <3>3 DEF d
  <2> HIDE DEF fed, e
  <2>8. Opens(fed.d)
    BY <1>5, <2>2, <2>5, <2>6, <2>7
  <2> QED BY <2>8 DEF fed
<1> QED BY <1>6, <1>7, <1>8

LEMMA FeedOpens ==
  ASSUME NEW f \in Fed, NEW s \in Seq(Tokens), Opens(f.d)
  PROVE  Opens(Feed(f, s).d)
<1> DEFINE n == Len(s)
<1>1. n \in Nat /\ \A k \in 1 .. n : s[k] \in Tokens
  OBVIOUS
<1>2. PICK h \in [0 .. n -> Fed] :
        h[0] = f /\ h[n] = Feed(f, s) /\ \A k \in 1 .. n : h[k] = FeedOne(h[k - 1], s[k])
  BY FeedWalk
<1> HIDE DEF n
<1> DEFINE B == {k \in 0 .. n : Opens(h[k].d)}
<1>3. 0 \in B
  BY <1>1, <1>2
<1>4. ASSUME NEW k \in 1 .. n, k - 1 \in B PROVE k \in B
  <2>1. k \in 0 .. n /\ k - 1 \in 0 .. n /\ h[k - 1] \in Fed /\ Opens(h[k - 1].d)
    BY <1>1, <1>2, <1>4
  <2>2. Opens(FeedOne(h[k - 1], s[k]).d)
    BY <1>1, <2>1, FeedOneOpens
  <2> QED BY <1>2, <2>1, <2>2
<1> HIDE DEF B
<1>5. \A k \in 0 .. n : k \in B
  BY <1>1, <1>3, <1>4, StepByStep
<1>6. Opens(h[n].d)
  <2>1. n \in B
    BY <1>1, <1>5
  <2> QED BY <2>1 DEF B
<1> QED BY <1>2, <1>6
LEMMA OfTwo ==
  ASSUME NEW a \in Int, NEW b \in Int
  PROVE  /\ Max({a, b}) \in {a, b} /\ Max({a, b}) >= a /\ Max({a, b}) >= b
         /\ Min({a, b}) \in {a, b} /\ Min({a, b}) <= a /\ Min({a, b}) <= b
<1>1. \E x \in {a, b} : \A y \in {a, b} : x >= y
  OBVIOUS
<1>2. \E x \in {a, b} : \A y \in {a, b} : x <= y
  OBVIOUS
<1>3. Max({a, b}) \in {a, b} /\ \A y \in {a, b} : Max({a, b}) >= y
  BY <1>1 DEF Max
<1>4. Min({a, b}) \in {a, b} /\ \A y \in {a, b} : Min({a, b}) <= y
  BY <1>2 DEF Min
<1> QED BY <1>3, <1>4

LEMMA StandsSomewhere ==
  ASSUME NEW c \in 0 .. Clients
  PROVE  Stands(c) \in Place
<1>1. 0 \in 0 .. Clients
  BY ConstantFacts
<1> QED BY <1>1, PlaceFacts DEF Stands

LEMMA InitEstablishes == Init => EnvelopeInv
<1> SUFFICES ASSUME Init PROVE EnvelopeInv
  OBVIOUS
<1>1. <<>> \in Seq(Tokens) /\ Len(<<>>) = 0 /\ 0 \in 0 .. Clients
  BY ConstantFacts
<1>2. dcs = NoDcs /\ NoDcs \in Parser
  <2>1. NoDcs \in Parser
    BY <1>1 DEF NoDcs, Parser
  <2> QED BY <2>1 DEF Init
<1>3. Max({2, Units}) >= 2 /\ Max({2, Units}) \in Int
  BY OfTwo, ConstantFacts
<1>4. Opens(dcs)
  <2>1. ("scan" \in {"env", "envesc"}) = FALSE
    OBVIOUS
  <2> QED BY <1>2, <2>1 DEF Opens, NoDcs
<1>5. Typed
  BY <1>1, <1>2, <1>3, <1>4, ConstantFacts DEF Typed, Init
<1>6. Asked
  BY <1>2, QuestionsOfNothing, ConstantFacts DEF Asked, Init, NoDcs
<1>7. GridIsTheShells
  <2>1. <<>> \o <<>> = <<>>
    OBVIOUS
  <2> QED BY <1>2, <2>1, ShellsOfNothing DEF GridIsTheShells, Init, NoDcs
<1>8. Followed
  <2> DEFINE here == At("shell", 0)
  <2>1. here \in Place /\ here.at = "shell" /\ Stands(child) = here
    BY <1>1, PlaceFacts DEF Init, Stands
  <2>2. Agrees(here, dcs)
    BY <1>2, <2>1 DEF Agrees, NoDcs
  <2> HIDE DEF here
  <2> DEFINE h == [i \in 0 .. 0 |-> here]
  <2>3. h \in [0 .. 0 -> Place] /\ h[0] = here /\ \A n \in 1 .. 0 : FALSE
    BY <2>1
  <2> HIDE DEF h
  <2>4. Path(here, <<>>, here)
    BY <1>1, <2>3 DEF Path
  <2> QED BY <2>1, <2>2, <2>4 DEF Followed, Init
<1> QED BY <1>5, <1>6, <1>7, <1>8 DEF EnvelopeInv

\* A read, wherever it stops, keeps the parser behind the child and shows what
\* of it is the shell's.
LEMMA ReadsInTurn ==
  ASSUME EnvelopeInv, NEW n \in 1 .. Len(out)
  PROVE  LET fed  == Feed([d |-> dcs, grid |-> <<>>], SubSeq(out, 1, n))
             rest == SubSeq(out, n + 1, Len(out))
         IN  /\ fed \in Fed /\ Opens(fed.d) /\ rest \in Seq(Tokens)
             /\ Questions(fed.grid) \in Nat
             /\ Questions(fed.d.held) + Questions(rest) + (replies + Questions(fed.grid))
                  <= Questions(dcs.held) + Questions(out) + replies
             /\ killed = {} =>
                  /\ Shown(Kinds(fed.grid)) = Shells(fed.d.held \o rest)
                  /\ \E p \in Place : Agrees(p, fed.d) /\ Path(p, rest, Stands(child))
<1> DEFINE f    == [d |-> dcs, grid |-> <<>>]
           read == SubSeq(out, 1, n)
           rest == SubSeq(out, n + 1, Len(out))
           fed  == Feed(f, read)
           held == dcs.held
<1>1. out \in Seq(Tokens) /\ dcs \in Parser /\ Opens(dcs) /\ replies \in Nat /\ child \in 0 .. Clients
  BY DEF EnvelopeInv, Typed
<1>2. f \in Fed /\ held \in Seq(Tokens) /\ f.d = dcs /\ f.grid = <<>>
  BY <1>1 DEF Fed, Parser
<1>3. n \in Nat /\ n \in 0 .. Len(out) /\ Len(out) \in Nat
  BY <1>1
<1>4. read \in Seq(Tokens) /\ rest \in Seq(Tokens)
  BY <1>1
<1>5. out = read \o rest
  <2>1. 1 \in 1 .. Len(out) + 1 /\ n \in 1 - 1 .. Len(out) /\ Len(out) \in n .. Len(out)
    BY <1>3
  <2>2. SubSeq(out, 1, n) \o SubSeq(out, n + 1, Len(out)) = SubSeq(out, 1, Len(out))
    BY <1>1, <2>1, ConcatAdjacentSubSeq
  <2> QED BY <1>1, <2>2, SubSeqFull
<1> HIDE DEF f, read, rest, held
<1>6. fed \in Fed /\ Questions(fed.grid) + Questions(fed.d.held) <= Questions(f.grid) + Questions(f.d.held) + Questions(read)
  BY <1>2, <1>4, FeedAsks
<1>7. Opens(fed.d)
  BY <1>1, <1>2, <1>4, FeedOpens
<1> HIDE DEF fed
<1>8. fed.grid \in Seq(Tokens) /\ fed.d.held \in Seq(Tokens)
  BY <1>6, SpokenTyped
<1>9. /\ Questions(fed.grid) \in Nat /\ Questions(fed.d.held) \in Nat /\ Questions(read) \in Nat /\ Questions(rest) \in Nat
      /\ Questions(held) \in Nat /\ Questions(<<>>) = 0
  BY <1>2, <1>4, <1>8, QuestionsCounted, QuestionsOfNothing
<1>10. Questions(out) = Questions(read) + Questions(rest)
  BY <1>4, <1>5, QuestionsOfTwo
<1>11. Questions(fed.d.held) + Questions(rest) + (replies + Questions(fed.grid)) <= Questions(held) + Questions(out) + replies
  <2>1. f.grid = <<>> /\ f.d.held = held
    BY <1>2 DEF held
  <2> QED BY <1>1, <1>6, <1>9, <1>10, <2>1
<1>12. ASSUME killed = {}
       PROVE  /\ Shown(Kinds(fed.grid)) = Shells(fed.d.held \o rest)
              /\ \E p \in Place : Agrees(p, fed.d) /\ Path(p, rest, Stands(child))
  <2>1. PICK p \in Place : Agrees(p, dcs) /\ Path(p, out, Stands(child))
    BY <1>12 DEF EnvelopeInv, Followed
  <2>2. PICK q \in Place : Path(p, read, q) /\ Path(q, rest, Stands(child))
    BY <1>1, <1>3, <2>1, PathCut, StandsSomewhere DEF read, rest
  <2>3. ShellsOnly(f.grid)
    BY <1>2 DEF ShellsOnly
  <2>4. Agrees(q, fed.d) /\ ShellsOnly(fed.grid) /\ Spoken(fed) = Spoken(f) \o Shells(read)
    BY <1>2, <1>4, <2>1, <2>2, <2>3, FeedFollows DEF fed
  <2> DEFINE S  == Shells(fed.grid)
             H  == Shells(fed.d.held)
             H0 == Shells(held)
             R  == Shells(read)
             Z  == Shells(rest)
  <2>5. S \in Seq(Words) /\ H \in Seq(Words) /\ H0 \in Seq(Words) /\ R \in Seq(Words) /\ Z \in Seq(Words)
    BY <1>2, <1>4, <1>8, ShellsTyped
  <2>6. S \o H = H0 \o R
    <3>1. Spoken(f) = Shells(<<>>) \o H0
      BY <1>2 DEF Spoken, held
    <3>2. <<>> \o H0 = H0
      BY <2>5, ConcatEmptySeq
    <3> QED BY <2>4, <3>1, <3>2, ShellsOfNothing DEF Spoken
  <2>7. owed = H0 \o (R \o Z)
    <3>1. owed = Shells(held \o out)
      BY <1>12 DEF EnvelopeInv, GridIsTheShells, held
    <3>2. Shells(held \o out) = H0 \o Shells(out)
      BY <1>1, <1>2, ShellsOfTwo
    <3>3. Shells(out) = R \o Z
      BY <1>4, <1>5, ShellsOfTwo
    <3> QED BY <3>1, <3>2, <3>3
  <2>8. Shells(fed.d.held \o rest) = H \o Z
    BY <1>4, <1>8, ShellsOfTwo
  <2>9. Kinds(fed.grid) = S
    BY <1>8, <2>4, ShellsOfShell
  <2> HIDE DEF S, H, H0, R, Z
  <2>11. owed = S \o (H \o Z)
    <3>1. (H0 \o R) \o Z = H0 \o (R \o Z)
      BY <2>5, WordsRegrouped, Zenon
    <3>2. (S \o H) \o Z = S \o (H \o Z)
      BY <2>5, WordsRegrouped, Zenon
    <3> QED BY <2>6, <2>7, <3>1, <3>2
  <2>12. Shown(S) = H \o Z
    <3> DEFINE t == H \o Z
    <3>1. t \in Seq(Words) /\ owed = S \o t
      BY <2>5, <2>11
    <3> HIDE DEF t
    <3>2. S \o t \in Seq(Words) /\ Len(S \o t) = Len(S) + Len(t) /\ Len(S) \in Nat /\ Len(t) \in Nat
      BY <2>5, <3>1
    <3>3. IsPrefix(S, owed)
      <4>1. \A i \in 1 .. Len(S) : (S \o t)[i] = S[i]
        BY <2>5, <3>1
      <4>2. Len(S) <= Len(S \o t) /\ SubSeq(S \o t, 1, Len(S)) = S
        <5> DEFINE u == SubSeq(S \o t, 1, Len(S))
        <5>1. u \in Seq(Words) /\ Len(u) = Len(S) /\ \A i \in 1 .. Len(S) : u[i] = S[i]
          BY <2>5, <3>1, <3>2, <4>1
        <5> HIDE DEF u
        <5>2. u = S
          BY <2>5, <5>1, SeqEqual
        <5> QED BY <3>2, <5>2 DEF u
      <4> QED BY <3>1, <4>2 DEF IsPrefix
    <3>4. SubSeq(owed, Len(S) + 1, Len(owed)) = t
      <4> DEFINE u == SubSeq(S \o t, Len(S) + 1, Len(S) + Len(t))
      <4>1. u \in Seq(Words) /\ Len(u) = Len(t) /\ \A i \in 1 .. Len(t) : u[i] = t[i]
        <5>1. \A i \in 1 .. Len(t) : (S \o t)[Len(S) + i] = t[i]
          BY <2>5, <3>1
        <5>2. u \in Seq(Words) /\ Len(u) = Len(t)
          BY <3>2
        <5>3. \A i \in 1 .. Len(t) : u[i] = (S \o t)[Len(S) + i]
          BY <3>2
        <5> QED BY <5>1, <5>2, <5>3
      <4> HIDE DEF u
      <4>2. u = t
        BY <3>1, <4>1, SeqEqual
      <4> QED BY <3>1, <3>2, <4>2 DEF u
    <3>5. Shown(S) = t
      BY <1>12, <3>3, <3>4 DEF Shown
    <3> QED BY <3>5 DEF t
  <2> QED BY <2>2, <2>4, <2>8, <2>9, <2>12
<1> QED BY <1>4, <1>6, <1>7, <1>9, <1>11, <1>12 DEF fed, f, read, rest, held
\* What is written takes its place behind what is unread.
LEMMA WritesInTurn ==
  ASSUME EnvelopeInv, NEW w \in Seq(Tokens), NEW c \in 0 .. Clients
  PROVE  /\ out \o w \in Seq(Tokens) /\ Questions(out \o w) = Questions(out) + Questions(w)
         /\ Shells(dcs.held \o (out \o w)) = Shells(dcs.held \o out) \o Shells(w)
         /\ killed = {} /\ Path(Stands(child), w, Stands(c))
              => \E p \in Place : Agrees(p, dcs) /\ Path(p, out \o w, Stands(c))
<1>1. out \in Seq(Tokens) /\ dcs.held \in Seq(Tokens) /\ child \in 0 .. Clients
  BY DEF EnvelopeInv, Typed, Parser
<1>2. out \o w \in Seq(Tokens) /\ Questions(out \o w) = Questions(out) + Questions(w)
  BY <1>1, QuestionsOfTwo
<1>3. Shells(dcs.held \o (out \o w)) = Shells(dcs.held \o out) \o Shells(w)
  <2> DEFINE held == dcs.held
  <2>1. held \in Seq(Tokens) /\ out \in Seq(Tokens) /\ held \o out \in Seq(Tokens)
    BY <1>1
  <2> HIDE DEF held
  <2>2. held \o (out \o w) = (held \o out) \o w
    <3> QED BY <2>1, TokensRegrouped
  <2>3. Shells((held \o out) \o w) = Shells(held \o out) \o Shells(w)
    BY <2>1, ShellsOfTwo
  <2> QED BY <2>2, <2>3 DEF held
<1>4. ASSUME killed = {}, Path(Stands(child), w, Stands(c))
      PROVE  \E p \in Place : Agrees(p, dcs) /\ Path(p, out \o w, Stands(c))
  <2>1. PICK p \in Place : Agrees(p, dcs) /\ Path(p, out, Stands(child))
    BY <1>4 DEF EnvelopeInv, Followed
  <2>2. Stands(child) \in Place /\ Stands(c) \in Place
    BY <1>1, StandsSomewhere
  <2>3. Path(p, out \o w, Stands(c))
    BY <1>1, <1>4, <2>1, <2>2, PathOfTwo
  <2> QED BY <2>1, <2>3
<1> QED BY <1>2, <1>3, <1>4

LEMMA ShellSaysStep ==
  ASSUME EnvelopeInv, ShellSays
  PROVE  EnvelopeInv'
<1>1. PICK u \in ShellUnits : Writes(u, 0) /\ owed' = IF killed = {} THEN owed \o u ELSE owed
  BY DEF ShellSays
<1> DEFINE w == Said(u, 0)
<1>2. w \in Seq(Tokens) /\ Shells(w) = u /\ Questions(w) <= 1 /\ Path(At("shell", 0), w, At("shell", 0)) /\ Questions(w) \in Nat
  BY ShellWrites, QuestionsCounted
<1>3. /\ child = 0 /\ units < Units /\ units' = units + 1 /\ out' = out \o w
      /\ UNCHANGED <<child, clients, killed, dcs, replies, input, tin, gateway, pc, typed>>
  BY <1>1 DEF ShellSays, Writes, inputVars
<1> HIDE DEF w
<1>4. Stands(child) = At("shell", 0) /\ child \in 0 .. Clients
  BY <1>3 DEF Stands, EnvelopeInv, Typed
<1>5. /\ out' \in Seq(Tokens) /\ Questions(out') = Questions(out) + Questions(w)
      /\ Shells(dcs.held \o out') = Shells(dcs.held \o out) \o u
      /\ killed = {} => \E p \in Place : Agrees(p, dcs) /\ Path(p, out', Stands(child))
  BY <1>2, <1>3, <1>4, WritesInTurn
<1>6. Typed'
  <2>1. units' \in Nat
    BY <1>3 DEF EnvelopeInv, Typed
  <2> QED BY <1>3, <1>5, <2>1 DEF EnvelopeInv, Typed, Opens
<1>7. Asked'
  <2>1. dcs.held \in Seq(Tokens) /\ out \in Seq(Tokens) /\ replies \in Nat /\ units \in Nat /\ Units \in Nat
    BY ConstantFacts DEF EnvelopeInv, Typed, Parser
  <2>2. Questions(dcs.held) \in Nat /\ Questions(out) \in Nat
    BY <2>1, QuestionsCounted
  <2>3. Questions(dcs.held) + Questions(out) + replies <= units
    BY DEF EnvelopeInv, Asked
  <2>4. Questions(dcs.held) + Questions(out') + replies <= units'
    BY <1>2, <1>3, <1>5, <2>1, <2>2, <2>3
  <2>5. units' <= Units /\ units' \in Nat /\ Questions(out') \in Nat
    BY <1>2, <1>3, <1>5, <2>1, <2>2
  <2>6. Questions(dcs.held) + Questions(out') + replies <= Units
    BY <2>1, <2>2, <2>4, <2>5
  <2> QED BY <1>3, <2>4, <2>6 DEF Asked
<1>8. GridIsTheShells'
  <2>1. ASSUME killed = {} PROVE owed' = Shells(dcs.held \o out')
    BY <1>1, <1>5, <2>1 DEF EnvelopeInv, GridIsTheShells
  <2> QED BY <1>3, <2>1 DEF GridIsTheShells
<1>9. Followed'
  BY <1>3, <1>5 DEF Followed
<1> QED BY <1>6, <1>7, <1>8, <1>9 DEF EnvelopeInv

\* What a client writes, between two of its lines, at its start and at its end.
LEMMA ClientWritesStep ==
  ASSUME EnvelopeInv, NEW u \in ClientUnits \cup {Intro, Exit}, NEW c \in 1 .. Clients,
         units' = units + 1, out' = out \o Said(u, c), killed' = killed, owed' = owed,
         child' \in 0 .. Clients, clients' \in 0 .. Clients,
         UNCHANGED <<dcs, inputVars, gateway, pc, typed>>,
         Stands(child) = ClientPlaces(u, c)[1], Stands(child') = ClientPlaces(u, c)[2]
  PROVE  EnvelopeInv'
<1> DEFINE w == Said(u, c)
<1>1. w \in Seq(Tokens) /\ Shells(w) = <<>> /\ Questions(w) = 0 /\ Path(Stands(child), w, Stands(child'))
  BY ClientWrites
<1>2. /\ out' = out \o w /\ dcs' = dcs /\ replies' = replies /\ input' = input /\ tin' = tin
      /\ gateway' = gateway /\ pc' = pc
  BY DEF inputVars
<1> HIDE DEF w
<1>3. out \in Seq(Tokens) /\ dcs.held \in Seq(Tokens) /\ replies \in Nat /\ units \in Nat /\ Units \in Nat
  BY ConstantFacts DEF EnvelopeInv, Typed, Parser
<1>4. /\ out' \in Seq(Tokens) /\ Questions(out') = Questions(out) + Questions(w)
      /\ Shells(dcs.held \o out') = Shells(dcs.held \o out) \o <<>>
      /\ killed = {} => \E p \in Place : Agrees(p, dcs) /\ Path(p, out', Stands(child'))
  <2> DEFINE d == child'
  <2>1. d \in 0 .. Clients /\ Path(Stands(child), w, Stands(d))
    BY <1>1
  <2> HIDE DEF d
  <2>2. /\ out \o w \in Seq(Tokens) /\ Questions(out \o w) = Questions(out) + Questions(w)
        /\ Shells(dcs.held \o (out \o w)) = Shells(dcs.held \o out) \o Shells(w)
        /\ killed = {} => \E p \in Place : Agrees(p, dcs) /\ Path(p, out \o w, Stands(d))
    BY <1>1, <2>1, WritesInTurn
  <2> QED BY <1>1, <1>2, <2>2 DEF d
<1>5. Typed'
  <2>1. units' \in Nat
    BY <1>3
  <2> QED BY <1>2, <1>4, <2>1 DEF EnvelopeInv, Typed, Opens
<1>6. Asked'
  <2>1. Questions(dcs.held) \in Nat /\ Questions(out) \in Nat
    BY <1>3, QuestionsCounted
  <2>2. /\ Questions(dcs.held) + Questions(out) + replies <= units
        /\ Questions(dcs.held) + Questions(out) + replies <= Units
    BY DEF EnvelopeInv, Asked
  <2>3. Questions(out') = Questions(out) /\ units <= units'
    BY <1>1, <1>3, <1>4, <2>1
  <2>4. Questions(dcs.held) + Questions(out') + replies <= units'
    BY <1>3, <2>1, <2>2, <2>3
  <2> QED BY <1>2, <2>2, <2>3, <2>4 DEF Asked
<1>7. GridIsTheShells'
  <2>1. Shells(dcs.held \o out) \in Seq(Words)
    <3>1. dcs.held \o out \in Seq(Tokens)
      BY <1>3
    <3> QED BY <3>1, ShellsTyped
  <2>2. Shells(dcs.held \o out) \o <<>> = Shells(dcs.held \o out)
    BY <2>1, ConcatEmptySeq
  <2>3. ASSUME killed = {} PROVE owed = Shells(dcs.held \o out')
    BY <1>4, <2>2, <2>3 DEF EnvelopeInv, GridIsTheShells
  <2> QED BY <1>2, <2>3 DEF GridIsTheShells
<1>8. Followed'
  BY <1>2, <1>4 DEF Followed
<1> QED BY <1>5, <1>6, <1>7, <1>8 DEF EnvelopeInv
LEMMA ClientStartsStep ==
  ASSUME EnvelopeInv, ClientStarts
  PROVE  EnvelopeInv'
<1> DEFINE c == clients + 1
<1>1. /\ child = 0 /\ clients' = c /\ child' = c /\ c \in 1 .. Clients
      /\ units' = units + 1 /\ out' = out \o Said(Intro, c) /\ killed' = killed /\ owed' = owed
      /\ UNCHANGED <<dcs, inputVars, gateway, pc, typed>>
  <2>1. clients \in 0 .. Clients
    BY DEF EnvelopeInv, Typed
  <2>2. c \in 1 .. Clients
    BY <2>1, ConstantFacts DEF ClientStarts
  <2> QED BY <2>2 DEF ClientStarts, Writes
<1> HIDE DEF c
<1>2. c \in 0 .. Clients /\ c # 0
  BY <1>1
<1>3. Stands(child) = ClientPlaces(Intro, c)[1] /\ Stands(child') = ClientPlaces(Intro, c)[2]
  <2>1. ClientPlaces(Intro, c) = <<At("shell", 0), At("env", c)>>
    BY DEF ClientPlaces
  <2> QED BY <1>1, <1>2, <2>1 DEF Stands
<1>4. child' \in 0 .. Clients /\ clients' \in 0 .. Clients
  BY <1>1, <1>2
<1> QED BY <1>1, <1>3, <1>4, ClientWritesStep

LEMMA ClientSaysStep ==
  ASSUME EnvelopeInv, ClientSays
  PROVE  EnvelopeInv'
<1>1. PICK u \in ClientUnits : Writes(u, child)
  BY DEF ClientSays
<1>2. /\ child # 0 /\ child' = child /\ clients' = clients
      /\ units' = units + 1 /\ out' = out \o Said(u, child) /\ killed' = killed /\ owed' = owed
      /\ UNCHANGED <<dcs, inputVars, gateway, pc, typed>>
  BY <1>1 DEF ClientSays, Writes
<1>3. child \in 0 .. Clients /\ clients \in 0 .. Clients /\ child \in 1 .. Clients
  BY <1>2 DEF EnvelopeInv, Typed
<1>4. u # Intro /\ u # Exit
  BY DEF ClientUnits, Intro, Exit
<1>5. Stands(child) = ClientPlaces(u, child)[1] /\ Stands(child') = ClientPlaces(u, child)[2]
  BY <1>2, <1>4 DEF Stands, ClientPlaces
<1> QED BY <1>2, <1>3, <1>5, ClientWritesStep

LEMMA ClientExitsStep ==
  ASSUME EnvelopeInv, ClientExits
  PROVE  EnvelopeInv'
<1>1. /\ child # 0 /\ child' = 0 /\ clients' = clients
      /\ units' = units + 1 /\ out' = out \o Said(Exit, child) /\ killed' = killed /\ owed' = owed
      /\ UNCHANGED <<dcs, inputVars, gateway, pc, typed>>
  BY DEF ClientExits
<1>2. child \in 1 .. Clients /\ clients \in 0 .. Clients /\ 0 \in 0 .. Clients
  BY <1>1, ConstantFacts DEF EnvelopeInv, Typed
<1>3. Stands(child) = ClientPlaces(Exit, child)[1] /\ Stands(child') = ClientPlaces(Exit, child)[2]
  <2>1. Exit # Intro
    BY DEF Exit, Intro
  <2>2. ClientPlaces(Exit, child) = <<At("env", child), At("shell", 0)>>
    BY <2>1 DEF ClientPlaces
  <2> QED BY <1>1, <2>2 DEF Stands
<1> QED BY <1>1, <1>2, <1>3, ClientWritesStep

\* From here on nothing is known of what the parser will take for whose.
LEMMA ClientKilledStep ==
  ASSUME EnvelopeInv, ClientKilled
  PROVE  EnvelopeInv'
<1>1. /\ child # 0 /\ child' = 0 /\ killed' = killed \cup {child}
      /\ UNCHANGED <<clients, units, out, dcs, replies, input, tin, gateway, pc>>
  BY DEF ClientKilled, inputVars
<1>2. child \in 1 .. Clients /\ 0 \in 0 .. Clients
  BY <1>1, ConstantFacts DEF EnvelopeInv, Typed
<1>3. killed' # {} /\ killed' \subseteq 1 .. Clients
  BY <1>1, <1>2 DEF EnvelopeInv, Typed
<1>4. Typed'
  BY <1>1, <1>2, <1>3 DEF EnvelopeInv, Typed, Opens
<1>5. Asked'
  BY <1>1 DEF EnvelopeInv, Asked
<1> QED BY <1>3, <1>4, <1>5 DEF EnvelopeInv, GridIsTheShells, Followed

\* What neither writes nor reads leaves the rest where it stood.
LEMMA QueueStep ==
  ASSUME EnvelopeInv, UNCHANGED <<childVars, out, dcs, gateway>>,
         input' \in 0 .. INPUT_CAP - 1 + Max({2, Units}), tin' \in 0 .. TTY,
         replies' \in 0 .. replies, pc' \in {"idle", "read", "gateways"}
  PROVE  EnvelopeInv'
<1>1. /\ child' = child /\ clients' = clients /\ killed' = killed /\ units' = units /\ owed' = owed
      /\ out' = out /\ dcs' = dcs /\ gateway' = gateway
  BY DEF childVars
<1>2. replies \in Nat /\ replies' \in Nat /\ replies' <= replies
  BY DEF EnvelopeInv, Typed
<1>3. Typed'
  BY <1>1, <1>2 DEF EnvelopeInv, Typed, Opens
<1>4. Asked'
  <2>1. dcs.held \in Seq(Tokens) /\ out \in Seq(Tokens) /\ units \in Nat /\ Units \in Nat
    BY ConstantFacts DEF EnvelopeInv, Typed, Parser
  <2>2. Questions(dcs.held) \in Nat /\ Questions(out) \in Nat
    BY <2>1, QuestionsCounted
  <2>3. /\ Questions(dcs.held) + Questions(out) + replies <= units
        /\ Questions(dcs.held) + Questions(out) + replies <= Units
    BY DEF EnvelopeInv, Asked
  <2>4. /\ Questions(dcs.held) + Questions(out) + replies' <= units
        /\ Questions(dcs.held) + Questions(out) + replies' <= Units
    BY <1>2, <2>1, <2>2, <2>3
  <2> QED BY <1>1, <2>4 DEF Asked
<1> QED BY <1>1, <1>3, <1>4 DEF EnvelopeInv, GridIsTheShells, Followed

LEMMA CapFacts ==
  /\ Max({2, Units}) \in Nat /\ Max({2, Units}) >= 2 /\ Max({2, Units}) >= Units
  /\ INPUT_CAP - 1 + Max({2, Units}) \in Nat
<1>1. Max({2, Units}) \in {2, Units} /\ Max({2, Units}) >= 2 /\ Max({2, Units}) >= Units
  BY OfTwo, ConstantFacts
<1> QED BY <1>1, ConstantFacts

\* The tty takes what it has room for, and the rest waits.
LEMMA Flushes ==
  ASSUME NEW n \in Nat, tin \in 0 .. TTY, Flush(n)
  PROVE  input' \in 0 .. n /\ tin' \in 0 .. TTY
<1> DEFINE room  == TTY - tin
           taken == Min({n, room})
<1>1. n \in Int /\ room \in Int /\ room >= 0 /\ tin \in Nat /\ TTY \in Nat /\ room = TTY - tin
  BY ConstantFacts
<1>2. input' = n - taken /\ tin' = tin + taken
  BY DEF Flush
<1> HIDE DEF room
<1>3. taken \in {n, room} /\ taken <= n /\ taken <= room
  BY <1>1, OfTwo
<1> HIDE DEF taken
<1> QED BY <1>1, <1>2, <1>3

\* A write is taken below the cap, so the queue passes it by no more than one.
LEMMA WriteStays ==
  ASSUME NEW n \in Nat, n <= Max({2, Units}), Write(n), tin \in 0 .. TTY,
         input \in 0 .. INPUT_CAP - 1 + Max({2, Units})
  PROVE  input' \in 0 .. INPUT_CAP - 1 + Max({2, Units}) /\ tin' \in 0 .. TTY
<1> DEFINE M == Max({2, Units})
<1>1. M \in Nat /\ INPUT_CAP \in Nat /\ INPUT_CAP > 0 /\ n <= M /\ input \in 0 .. INPUT_CAP - 1 + M
  BY CapFacts, ConstantFacts
<1> HIDE DEF M
<1>2. CASE Takes(n)
  <2>1. input < INPUT_CAP /\ Flush(input + n) /\ input + n \in Nat /\ input \in Nat
    BY <1>1, <1>2 DEF Takes, Write
  <2>2. input' \in 0 .. input + n /\ tin' \in 0 .. TTY
    BY <2>1, Flushes
  <2> QED BY <1>1, <2>1, <2>2 DEF M
<1>3. CASE ~Takes(n)
  BY <1>3 DEF Write
<1> QED BY <1>2, <1>3

LEMMA ChildReadsStep ==
  ASSUME EnvelopeInv, ChildReads
  PROVE  EnvelopeInv'
<1>1. tin' \in 0 .. TTY
  BY ConstantFacts DEF EnvelopeInv, Typed, ChildReads
<1>2. replies' \in 0 .. replies /\ replies' = replies
  BY DEF EnvelopeInv, Typed, ChildReads
<1>3. input' \in 0 .. INPUT_CAP - 1 + Max({2, Units}) /\ pc' \in {"idle", "read", "gateways"}
  BY DEF EnvelopeInv, Typed, ChildReads
<1>4. UNCHANGED <<childVars, out, dcs, gateway>>
  BY DEF ChildReads
<1> QED BY <1>1, <1>2, <1>3, <1>4, QueueStep

LEMMA PumpStartStep ==
  ASSUME EnvelopeInv, PumpStart
  PROVE  EnvelopeInv'
<1> DEFINE n == DropInControlMode(dcs, input)
<1>1. input \in 0 .. INPUT_CAP - 1 + Max({2, Units}) /\ tin \in 0 .. TTY /\ replies \in Nat
  BY DEF EnvelopeInv, Typed
<1>2. n \in Nat /\ n <= INPUT_CAP - 1 + Max({2, Units}) /\ Flush(n)
  BY <1>1, CapFacts DEF DropInControlMode, PumpStart
<1> HIDE DEF n
<1>3. input' \in 0 .. n /\ tin' \in 0 .. TTY
  BY <1>1, <1>2, Flushes
<1>4. input' \in 0 .. INPUT_CAP - 1 + Max({2, Units})
  BY <1>2, <1>3, CapFacts
<1>5. UNCHANGED <<childVars, out, dcs, gateway>> /\ replies' \in 0 .. replies /\ pc' \in {"idle", "read", "gateways"}
  BY <1>1 DEF PumpStart
<1> QED BY <1>3, <1>4, <1>5, QueueStep

LEMMA PumpReadStep ==
  ASSUME EnvelopeInv, PumpRead
  PROVE  EnvelopeInv'
<1>1. PICK n \in 1 .. Len(out) :
        LET fed == Feed([d |-> dcs, grid |-> <<>>], SubSeq(out, 1, n))
        IN  /\ out' = SubSeq(out, n + 1, Len(out))
            /\ dcs' = fed.d /\ owed' = Shown(Kinds(fed.grid))
            /\ replies' = replies + Questions(fed.grid)
  BY DEF PumpRead
<1> DEFINE fed  == Feed([d |-> dcs, grid |-> <<>>], SubSeq(out, 1, n))
           rest == SubSeq(out, n + 1, Len(out))
<1>2. out' = rest /\ dcs' = fed.d /\ owed' = Shown(Kinds(fed.grid)) /\ replies' = replies + Questions(fed.grid)
  BY <1>1
<1>3. /\ fed \in Fed /\ Opens(fed.d) /\ rest \in Seq(Tokens)
      /\ Questions(fed.grid) \in Nat
      /\ Questions(fed.d.held) + Questions(rest) + (replies + Questions(fed.grid))
           <= Questions(dcs.held) + Questions(out) + replies
      /\ killed = {} =>
           /\ Shown(Kinds(fed.grid)) = Shells(fed.d.held \o rest)
           /\ \E p \in Place : Agrees(p, fed.d) /\ Path(p, rest, Stands(child))
  BY ReadsInTurn
<1> HIDE DEF fed, rest
<1>4. UNCHANGED <<child, clients, killed, units, input, tin, gateway, pc>>
  BY DEF PumpRead
<1>5. replies \in Nat /\ units \in Nat /\ Units \in Nat /\ out \in Seq(Tokens) /\ dcs.held \in Seq(Tokens)
  BY ConstantFacts DEF EnvelopeInv, Typed, Parser
<1>6. fed.d \in Parser /\ fed.d.held \in Seq(Tokens)
  BY <1>3 DEF Fed, Parser
<1>7. Typed'
  <2>1. replies' \in Nat
    BY <1>2, <1>3, <1>5
  <2> QED BY <1>2, <1>3, <1>4, <1>6, <2>1 DEF EnvelopeInv, Typed, Opens
<1>8. Asked'
  <2>1. /\ Questions(dcs.held) \in Nat /\ Questions(out) \in Nat
        /\ Questions(fed.d.held) \in Nat /\ Questions(rest) \in Nat
    BY <1>3, <1>5, <1>6, QuestionsCounted
  <2>2. /\ Questions(dcs.held) + Questions(out) + replies <= units
        /\ Questions(dcs.held) + Questions(out) + replies <= Units
    BY DEF EnvelopeInv, Asked
  <2> DEFINE now == Questions(fed.d.held) + Questions(rest) + (replies + Questions(fed.grid))
  <2>3. now <= units /\ now <= Units
    BY <1>3, <1>5, <2>1, <2>2
  <2>4. Questions(dcs'.held) + Questions(out') + replies' = now
    BY <1>2
  <2> HIDE DEF now
  <2> QED BY <1>4, <2>3, <2>4 DEF Asked
<1>9. GridIsTheShells'
  BY <1>2, <1>3, <1>4 DEF GridIsTheShells
<1>10. Followed'
  BY <1>2, <1>3, <1>4 DEF Followed
<1> QED BY <1>7, <1>8, <1>9, <1>10 DEF EnvelopeInv

LEMMA PumpRepliesStep ==
  ASSUME EnvelopeInv, PumpReplies
  PROVE  EnvelopeInv'
<1>1. input \in 0 .. INPUT_CAP - 1 + Max({2, Units}) /\ tin \in 0 .. TTY /\ replies \in Nat
  BY DEF EnvelopeInv, Typed
<1>2. replies <= Units
  <2>1. dcs.held \in Seq(Tokens) /\ out \in Seq(Tokens)
    BY DEF EnvelopeInv, Typed, Parser
  <2>2. Questions(dcs.held) \in Nat /\ Questions(out) \in Nat
    BY <2>1, QuestionsCounted
  <2>3. Questions(dcs.held) + Questions(out) + replies <= Units
    BY DEF EnvelopeInv, Asked
  <2> QED BY <1>1, <2>2, <2>3, ConstantFacts
<1>3. replies <= Max({2, Units})
  BY <1>1, <1>2, CapFacts, ConstantFacts
<1>4. input' \in 0 .. INPUT_CAP - 1 + Max({2, Units}) /\ tin' \in 0 .. TTY
  <2>1. CASE dcs.active
    BY <1>1, <2>1, CapFacts DEF PumpReplies, DropInControlMode
  <2>2. CASE ~dcs.active
    <3>1. Write(replies)
      BY <2>2 DEF PumpReplies
    <3> QED BY <1>1, <1>3, <3>1, WriteStays
  <2> QED BY <2>1, <2>2
<1>5. UNCHANGED <<childVars, out, dcs, gateway>> /\ replies' \in 0 .. replies /\ pc' \in {"idle", "read", "gateways"}
  BY <1>1 DEF PumpReplies
<1> QED BY <1>4, <1>5, QueueStep

LEMMA TypeStep ==
  ASSUME EnvelopeInv, Type
  PROVE  EnvelopeInv'
<1>1. PICK n \in 1 .. 2 : Write(n)
  BY DEF Type
<1>2. input \in 0 .. INPUT_CAP - 1 + Max({2, Units}) /\ tin \in 0 .. TTY /\ replies \in Nat
  BY DEF EnvelopeInv, Typed
<1>3. n \in Nat /\ n <= Max({2, Units})
  BY CapFacts
<1>4. input' \in 0 .. INPUT_CAP - 1 + Max({2, Units}) /\ tin' \in 0 .. TTY
  BY <1>1, <1>2, <1>3, WriteStays
<1>5. UNCHANGED <<childVars, out, dcs, gateway>> /\ replies' \in 0 .. replies /\ pc' \in {"idle", "read", "gateways"}
  BY <1>2 DEF Type, EnvelopeInv, Typed
<1> QED BY <1>4, <1>5, QueueStep
\* The gateway takes the body and its notices, and none of what the path tells;
\* it leaves over a line of another's only once a client was killed.
LEMMA PumpGatewaysStep ==
  ASSUME EnvelopeInv, PumpGateways
  PROVE  EnvelopeInv'
<1> DEFINE seen    == [dcs EXCEPT !.detected = FALSE]
           drained == [dcs EXCEPT !.detected = FALSE, !.body = {}, !.ended = FALSE]
           foreign == \E b \in dcs.body : b.by # dcs.by
<1>1. /\ dcs \in Parser /\ Opens(dcs) /\ gateway \in 0 .. Clients /\ out \in Seq(Tokens)
      /\ replies \in Nat /\ units \in Nat /\ Units \in Nat
  BY ConstantFacts DEF EnvelopeInv, Typed
<1>2. /\ UNCHANGED <<child, clients, killed, units, owed, out, replies, input, tin>>
      /\ pc' = "idle"
  BY DEF PumpGateways, childVars, inputVars
<1>3. Attached \in 0 .. Clients
  BY <1>1 DEF Attached, Parser
<1>4. \/ dcs' = seen /\ gateway' = gateway
      \/ dcs' = drained /\ gateway' \in {0, Attached}
      \/ foreign /\ dcs' = Reset(drained) /\ gateway' = 0
  BY DEF PumpGateways
<1>5. gateway' \in 0 .. Clients
  BY <1>1, <1>3, <1>4, ConstantFacts
<1>6. /\ seen \in Parser /\ seen.held = dcs.held /\ seen.state = dcs.state /\ seen.active = dcs.active
      /\ seen.body = dcs.body /\ seen.by = dcs.by /\ seen.exited = dcs.exited
  BY <1>1 DEF Parser
<1>7. /\ drained \in Parser /\ drained.held = dcs.held /\ drained.state = dcs.state /\ drained.active = dcs.active
      /\ drained.body = {} /\ drained.by = dcs.by /\ drained.exited = dcs.exited
  BY <1>1 DEF Parser
<1> HIDE DEF seen, drained, foreign
<1>8. Reset(drained) \in Parser /\ Reset(drained).held = <<>> /\ Opens(Reset(drained))
  <2>1. ASSUME NEW d \in Parser
        PROVE  /\ Reset(d) \in Parser /\ Reset(d).held = <<>>
               /\ Reset(d).state = "scan" /\ Reset(d).active = FALSE
    <3>1. Unhook(d) \in Parser /\ Unhook(d).state = "scan" /\ Unhook(d).active = FALSE
      BY DEF Unhook, Parser
    <3>2. <<>> \in Seq(Tokens)
      OBVIOUS
    <3> QED BY <3>1, <3>2 DEF Reset, Parser
  <2> DEFINE r == Reset(drained)
  <2>2. r \in Parser /\ r.held = <<>> /\ r.state = "scan" /\ r.active = FALSE
    BY <1>7, <2>1
  <2> HIDE DEF r
  <2>3. (r.state \in {"env", "envesc"}) = FALSE
    BY <2>2
  <2>4. Opens(r)
    BY <2>2, <2>3, Zenon DEF Opens
  <2> QED BY <2>2, <2>4 DEF r
<1>9. dcs' \in Parser /\ Opens(dcs') /\ dcs'.held \in {dcs.held, <<>>}
  BY <1>1, <1>4, <1>6, <1>7, <1>8 DEF Opens
<1>10. Typed'
  BY <1>2, <1>5, <1>9 DEF EnvelopeInv, Typed
<1>11. Asked'
  <2>1. dcs.held \in Seq(Tokens)
    BY <1>1 DEF Parser
  <2>2. Questions(dcs.held) \in Nat /\ Questions(out) \in Nat /\ Questions(<<>>) = 0
    BY <1>1, <2>1, QuestionsCounted, QuestionsOfNothing
  <2>3. Questions(dcs'.held) \in Nat /\ Questions(dcs'.held) <= Questions(dcs.held)
    BY <1>9, <2>2
  <2>4. /\ Questions(dcs.held) + Questions(out) + replies <= units
        /\ Questions(dcs.held) + Questions(out) + replies <= Units
    BY DEF EnvelopeInv, Asked
  <2>5. /\ Questions(dcs'.held) + Questions(out) + replies <= units
        /\ Questions(dcs'.held) + Questions(out) + replies <= Units
    BY <1>1, <2>2, <2>3, <2>4
  <2> QED BY <1>2, <2>5 DEF Asked
<1>12. ASSUME killed = {}
       PROVE  dcs'.held = dcs.held /\ \A p \in Place : Agrees(p, dcs) => Agrees(p, dcs')
  <2>1. PICK p \in Place : Agrees(p, dcs)
    BY <1>12 DEF EnvelopeInv, Followed
  <2>2. ~foreign
    BY <2>1 DEF foreign, Agrees
  <2>3. dcs' = seen \/ dcs' = drained
    BY <1>4, <2>2
  <2>4. /\ dcs'.held = dcs.held /\ dcs'.state = dcs.state /\ dcs'.by = dcs.by /\ dcs'.exited = dcs.exited
        /\ dcs'.body \subseteq dcs.body
    BY <1>6, <1>7, <2>3
  <2>5. ASSUME NEW q \in Place, Agrees(q, dcs) PROVE Agrees(q, dcs')
    BY <2>4, <2>5 DEF Agrees
  <2> QED BY <2>4, <2>5
<1>13. GridIsTheShells'
  <2>1. ASSUME killed = {} PROVE owed = Shells(dcs'.held \o out)
    BY <1>12, <2>1 DEF EnvelopeInv, GridIsTheShells
  <2> QED BY <1>2, <2>1 DEF GridIsTheShells
<1>14. Followed'
  <2>1. ASSUME killed = {} PROVE \E p \in Place : Agrees(p, dcs') /\ Path(p, out, Stands(child))
    BY <1>12, <2>1 DEF EnvelopeInv, Followed
  <2> QED BY <1>2, <2>1 DEF Followed
<1> QED BY <1>10, <1>11, <1>13, <1>14 DEF EnvelopeInv

LEMMA NextKeeps == EnvelopeInv /\ [Next]_vars => EnvelopeInv'
<1> SUFFICES ASSUME EnvelopeInv, [Next]_vars PROVE EnvelopeInv'
  OBVIOUS
<1>1. CASE UNCHANGED vars
  <2>1. UNCHANGED <<child, clients, killed, units, owed, out, dcs, replies, input, tin, gateway, pc>>
    BY <1>1 DEF vars, childVars, inputVars
  <2>2. Typed' /\ Asked'
    BY <2>1 DEF EnvelopeInv, Typed, Asked, Opens
  <2>3. GridIsTheShells' /\ Followed'
    BY <2>1 DEF EnvelopeInv, GridIsTheShells, Followed
  <2> QED BY <2>2, <2>3 DEF EnvelopeInv
<1>2. CASE Child
  BY <1>2, ShellSaysStep, ClientStartsStep, ClientSaysStep, ClientExitsStep, ClientKilledStep DEF Child
<1>3. CASE Pump
  BY <1>3, PumpStartStep, PumpReadStep, PumpRepliesStep, PumpGatewaysStep DEF Pump
<1> QED BY <1>1, <1>2, <1>3, ChildReadsStep, TypeStep DEF Next

\* The invariant of every behaviour: the types, the questions counted, the path
\* followed, and the grid the shell's.
THEOREM EnvelopeInvariant == Spec => []EnvelopeInv
BY InitEstablishes, NextKeeps, PTL DEF Spec

\* Wherever the reads fall, and however many clients came and went, the grid is
\* fed what the shell wrote, in its order and whole, and the row's own queue
\* stays short of its cap and one write (core/src/dcs.rs, tmux_cc.rs,
\* session.rs).
THEOREM EnvelopeIsSound == Spec => []EnvelopeSound
<1>1. ASSUME EnvelopeInv PROVE EnvelopeSound
  <2>1. Typed /\ Asked /\ GridIsTheShells
    BY <1>1 DEF EnvelopeInv
  <2>2. replies \in 0 .. Units
    <3>1. dcs.held \in Seq(Tokens) /\ out \in Seq(Tokens) /\ replies \in Nat
      BY <2>1 DEF Typed, Parser
    <3>2. Questions(dcs.held) \in Nat /\ Questions(out) \in Nat
      BY <3>1, QuestionsCounted
    <3>3. Questions(dcs.held) + Questions(out) + replies <= Units
      BY <2>1 DEF Asked
    <3> QED BY <3>1, <3>2, <3>3, ConstantFacts
  <2>3. dcs.state \in {"scan", "esc", "intro", "env", "envesc"}
    BY <2>1 DEF Typed, Parser
  <2>4. EnvelopeTypeOK
    BY <2>1, <2>2, <2>3 DEF Typed, Opens, EnvelopeTypeOK
  <2> QED BY <2>1, <2>4 DEF EnvelopeSound
<1> QED BY <1>1, EnvelopeInvariant, PTL

\* While the envelope is open no step puts a byte of the row's own queue on the
\* tty: what was queued for the shell is dropped, and nothing new is taken
\* (core/src/session.rs).
THEOREM TheWireIsTheGateways == Spec => WireIsTheGateways
<1>1. ASSUME EnvelopeInv, Next PROVE dcs.active => tin' <= tin
  <2> SUFFICES ASSUME dcs.active PROVE tin' <= tin
    OBVIOUS
  <2>1. tin \in 0 .. TTY /\ tin \in Int /\ replies \in Nat
    BY <1>1 DEF EnvelopeInv, Typed
  <2>2. CASE Child
    <3>1. tin' = tin
      BY <2>2 DEF Child, ShellSays, ClientStarts, ClientSays, ClientExits, ClientKilled, Writes, inputVars
    <3> QED BY <2>1, <3>1
  <2>3. CASE ChildReads
    BY <2>1, <2>3 DEF ChildReads
  <2>4. CASE PumpStart
    <3> DEFINE room == TTY - tin
    <3>1. room \in Int /\ room >= 0 /\ room = TTY - tin
      BY <2>1, ConstantFacts
    <3>2. tin' = tin + Min({0, room})
      BY <2>4 DEF PumpStart, DropInControlMode, Flush
    <3> HIDE DEF room
    <3>3. Min({0, room}) \in {0, room} /\ Min({0, room}) <= 0
      BY <3>1, OfTwo
    <3> QED BY <2>1, <3>1, <3>2, <3>3
  <2>5. CASE PumpRead \/ PumpGateways
    <3>1. tin' = tin
      BY <2>5 DEF PumpRead, PumpGateways, inputVars
    <3> QED BY <2>1, <3>1
  <2>6. CASE PumpReplies
    <3>1. tin' = tin
      BY <2>6 DEF PumpReplies
    <3> QED BY <2>1, <3>1
  <2>7. CASE Type
    <3>1. tin' = tin
      BY <2>7 DEF Type, Write, Takes
    <3> QED BY <2>1, <3>1
  <2> QED BY <1>1, <2>2, <2>3, <2>4, <2>5, <2>6, <2>7 DEF Next, Pump
<1>2. ASSUME EnvelopeInv, [Next]_vars PROVE [dcs.active => tin' <= tin]_vars
  BY <1>1, <1>2
<1> QED BY <1>2, EnvelopeInvariant, PTL DEF Spec, WireIsTheGateways
=============================================================================
