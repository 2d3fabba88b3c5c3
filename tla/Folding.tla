------------------------------- MODULE Folding -------------------------------
(***************************************************************************)
(* Folds over sequences, for the modules whose handlers are folds: the     *)
(* library's is the value of a function chosen to satisfy a recursion.     *)
(* That there is one, and that it goes step by step through the sequence,  *)
(* is proved here from a least counterexample.                             *)
(***************************************************************************)
EXTENDS Integers, FiniteSetsExt, WellFoundedInduction, TLAPS

\* What holds of 0 and passes from each number to the next holds up to n.
LEMMA StepByStep ==
  ASSUME NEW n \in Nat, NEW B, 0 \in B, \A k \in 1 .. n : k - 1 \in B => k \in B
  PROVE  \A k \in 0 .. n : k \in B
<1> DEFINE Bad == {k \in 0 .. n : k \notin B}
<1> SUFFICES ASSUME Bad # {} PROVE FALSE
  OBVIOUS
<1>1. Bad \subseteq Nat
  OBVIOUS
<1>2. PICK x \in Bad : \A y \in Bad : ~ (<<y, x>> \in OpToRel(<, Nat))
  <2> HIDE DEF Bad
  <2> QED BY <1>1, NatLessThanWellFounded, WFMin
<1>3. \A y \in Bad : ~ (y < x)
  BY <1>1, <1>2 DEF OpToRel
<1>4. x \in 1 .. n /\ x - 1 \in 0 .. n /\ x - 1 < x
  OBVIOUS
<1>5. x - 1 \in B
  BY <1>3, <1>4
<1> QED BY <1>4, <1>5

\* The last of an interval, and what is left without it.
LEMMA LastOfInterval ==
  ASSUME NEW k \in Nat, k > 0
  PROVE  Max(1 .. k) = k /\ (1 .. k) \ {k} = 1 .. k - 1
BY DEF Max

\* A set of positions has a last, and none but earlier ones without it.
LEMMA MaxOfPositions ==
  ASSUME NEW k \in Nat, NEW s \in SUBSET (1 .. k), s # {}
  PROVE  Max(s) \in s /\ s \ {Max(s)} \in SUBSET (1 .. k - 1)
<1> DEFINE up == {k - x : x \in s}
<1>1. up \subseteq Nat /\ up # {}
  OBVIOUS
<1>2. PICK u \in up : \A v \in up : ~ (<<v, u>> \in OpToRel(<, Nat))
  <2> HIDE DEF up
  <2> QED BY <1>1, NatLessThanWellFounded, WFMin
<1>3. \A v \in up : ~ (v < u)
  BY <1>1, <1>2 DEF OpToRel
<1>4. PICK x \in s : u = k - x
  BY <1>2
<1>5. \A y \in s : x >= y
  BY <1>3, <1>4
<1>6. Max(s) \in s /\ \A y \in s : Max(s) >= y
  BY <1>5 DEF Max
<1>7. Max(s) \in 1 .. k /\ \A y \in s : y \in 1 .. k
  BY <1>6
<1>8. ASSUME NEW y \in s, y # Max(s) PROVE y \in 1 .. k - 1
  BY <1>6, <1>7, <1>8
<1> QED BY <1>6, <1>8

\* What a fold with steps G and start base is: a value for each set of positions.
Folding(n, base, G, it) ==
  it = [s \in SUBSET (1 .. n) |-> IF s = {} THEN base ELSE G[<<Max(s), it[s \ {Max(s)}]>>]]

\* There is one, with its values where the steps stay.
LEMMA FoldExists ==
  ASSUME NEW n \in Nat, NEW T, NEW base \in T, NEW G,
         \A k \in 1 .. n, v \in T : G[<<k, v>>] \in T
  PROVE  \E it \in [SUBSET (1 .. n) -> T] : Folding(n, base, G, it)
<1> DEFINE B == {k \in 0 .. n : \E it \in [SUBSET (1 .. k) -> T] : Folding(k, base, G, it)}
<1>1. 0 \in B
  <2> DEFINE it == [s \in SUBSET (1 .. 0) |-> base]
  <2>1. \A s \in SUBSET (1 .. 0) : s = {}
    OBVIOUS
  <2>2. Folding(0, base, G, it)
    BY <2>1 DEF Folding
  <2>3. it \in [SUBSET (1 .. 0) -> T]
    OBVIOUS
  <2> QED BY <2>2, <2>3
<1>2. ASSUME NEW k \in 1 .. n, k - 1 \in B PROVE k \in B
  <2>1. PICK g \in [SUBSET (1 .. k - 1) -> T] : Folding(k - 1, base, G, g)
    BY <1>2
  <2> DEFINE it == [s \in SUBSET (1 .. k) |-> IF s = {} THEN base ELSE G[<<Max(s), g[s \ {Max(s)}]>>]]
  <2>2. \A s \in SUBSET (1 .. k - 1) : s \in SUBSET (1 .. k)
    OBVIOUS
  <2>3. \A s \in SUBSET (1 .. k - 1) : g[s] = it[s]
    <3> SUFFICES ASSUME NEW s \in SUBSET (1 .. k - 1) PROVE g[s] = it[s]
      OBVIOUS
    <3>1. g[s] = IF s = {} THEN base ELSE G[<<Max(s), g[s \ {Max(s)}]>>]
      BY <2>1 DEF Folding
    <3>2. it[s] = IF s = {} THEN base ELSE G[<<Max(s), g[s \ {Max(s)}]>>]
      BY <2>2
    <3> QED BY <3>1, <3>2
  <2>4. \A s \in SUBSET (1 .. k) : s # {} => Max(s) \in 1 .. n /\ s \ {Max(s)} \in SUBSET (1 .. k - 1)
    <3> SUFFICES ASSUME NEW s \in SUBSET (1 .. k), s # {} PROVE Max(s) \in 1 .. n /\ s \ {Max(s)} \in SUBSET (1 .. k - 1)
      OBVIOUS
    <3>1. Max(s) \in s /\ s \ {Max(s)} \in SUBSET (1 .. k - 1)
      BY MaxOfPositions
    <3>2. \A x \in 1 .. k : x \in 1 .. n
      OBVIOUS
    <3> QED BY <3>1, <3>2
  <2>5. \A s \in SUBSET (1 .. k) : s # {} => g[s \ {Max(s)}] = it[s \ {Max(s)}]
    BY <2>3, <2>4
  <2>6. Folding(k, base, G, it)
    BY <2>5 DEF Folding
  <2>7. it \in [SUBSET (1 .. k) -> T]
    BY <2>4
  <2>8. \E i \in [SUBSET (1 .. k) -> T] : Folding(k, base, G, i)
    <3> HIDE DEF it
    <3> QED BY <2>6, <2>7
  <2>9. k \in 0 .. n
    OBVIOUS
  <2> QED BY <2>8, <2>9
<1> HIDE DEF B
<1>3. n \in B
  BY <1>1, <1>2, StepByStep
<1> QED BY <1>3 DEF B

\* A value for each set of positions, from that without the last of them,
\* wherever that is one of T; and from T the steps stay there.
Steps(n, T, base, G, it) ==
  /\ n \in Nat /\ base \in T /\ it[{}] = base
  /\ \A k \in 1 .. n, v \in T : G[<<k, v>>] \in T
  /\ \A s \in SUBSET (1 .. n) :
       s # {} /\ it[s \ {Max(s)}] \in T => it[s] = G[<<Max(s), it[s \ {Max(s)}]>>]

\* The values for 0, 1, .. n positions.
Walks(n, T, base, G, end) ==
  \E h \in [0 .. n -> T] : h[0] = base /\ h[n] = end /\ \A k \in 1 .. n : h[k] = G[<<k, h[k - 1]>>]

LEMMA FoldWalks ==
  ASSUME NEW n, NEW T, NEW base, NEW G, NEW it, Steps(n, T, base, G, it)
  PROVE  Walks(n, T, base, G, it[1 .. n])
<1> USE DEF Steps
<1> DEFINE h == [k \in 0 .. n |-> it[1 .. k]]
           B == {k \in 0 .. n : h[k] \in T}
<1>1. h[0] = base
  <2>1. 1 .. 0 = {} /\ 0 \in 0 .. n
    OBVIOUS
  <2> QED BY <2>1
<1>2. ASSUME NEW k \in 1 .. n, h[k - 1] \in T PROVE h[k] = G[<<k, h[k - 1]>>]
  <2>1. 1 .. k \in SUBSET (1 .. n) /\ 1 .. k # {} /\ k \in 0 .. n /\ k - 1 \in 0 .. n
    OBVIOUS
  <2>2. Max(1 .. k) = k /\ (1 .. k) \ {k} = 1 .. k - 1
    BY LastOfInterval
  <2>3. h[k] = it[1 .. k] /\ h[k - 1] = it[1 .. k - 1]
    BY <2>1
  <2> HIDE DEF h
  <2> QED BY <1>2, <2>1, <2>2, <2>3
<1> HIDE DEF h
<1>3. 0 \in B
  BY <1>1
<1>4. ASSUME NEW k \in 1 .. n, k - 1 \in B PROVE k \in B
  <2>1. k \in 0 .. n /\ h[k - 1] \in T
    BY <1>4
  <2>2. h[k] \in T
    BY <1>2, <2>1
  <2> QED BY <2>1, <2>2
<1> HIDE DEF B
<1>5. \A k \in 0 .. n : k \in B
  BY <1>3, <1>4, StepByStep
<1>6. \A k \in 0 .. n : h[k] \in T
  BY <1>5 DEF B
<1>7. \A k \in 1 .. n : k - 1 \in 0 .. n
  OBVIOUS
<1>8. h \in [0 .. n -> T] /\ h[n] = it[1 .. n]
  BY <1>6 DEF h
<1> QED BY <1>1, <1>2, <1>6, <1>7, <1>8 DEF Walks
=============================================================================
