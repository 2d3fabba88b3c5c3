---------------------------- MODULE GatewayProofs ----------------------------
(***************************************************************************)
(* The gateway, whatever tmux makes, prints, closes and answers, however   *)
(* many lines a turn drains and whatever the transport does with them.     *)
(***************************************************************************)
EXTENDS Gateway, Folding, SequenceTheorems

-----------------------------------------------------------------------------
(***************************************************************************)
(* What each part is.                                                      *)
(***************************************************************************)
Size  == 0 .. 2
Bytes == Seq(Pane \X Nat)
Mood  == {"takes", "refuses", "sheds"}

\* What a reply may be for, and what may be asked.
Intent ==
  ({"Host", "ListPanes", "ListSessions", "WindowNames", "Ignore"} \X {None})
  \cup ({"Capture", "Cursor"} \X Pane) \cup ({"LayoutPanes"} \X Window)

Question ==
  Intent \cup ({"NewWindow", "DetachClient"} \X {None}) \cup ({"NextPane", "KillWindow"} \X Window)
  \cup ({"SendKeys"} \X Pane) \cup ({"WindowSize"} \X (Window \X Size)) \cup ({"ClientSize"} \X Size)
  \cup ({"SetChannel"} \X (Window \X Slot))

Event ==
  [do : {"Detached"}, lost : BOOLEAN]
  \cup [do : {"Output"}, pane : Pane, draw : {"screen", "tail"}, bytes : Bytes, walk : BOOLEAN]
  \cup [do : {"WindowPaneChanged"}, window : Window, pane : Pane]
  \cup [do : {"WindowAdded"}, window : Window, pane : Pane, slot : Slot \cup {None}]
  \cup [do : {"WindowClosed"}, window : Window]

Listing == [active : [Window -> Pane \cup {None}], channel : [Window -> Slot \cup {None}]]

\* A reply has what its question asks for.
BlockLine ==
  {b \in [line : {"Block"}, of : Question, flagged : BOOLEAN, error : BOOLEAN,
          body : Listing \cup Bytes \cup Pane \cup {None}] :
     ~b.error => /\ b.of[1] = "ListPanes" => b.body \in Listing
                 /\ b.of[1] = "Capture" => b.body \in Bytes
                 /\ b.of[1] = "LayoutPanes" => b.body \in Pane}

Notice ==
  [line : {"Output"}, of : Pane \X (Pane \X Nat)]
  \cup [line : {"SessionsChanged", "SessionChanged", "Exit", "Foreign", "ST"}, of : {None}]
  \cup [line : {"WindowAdd", "WindowClose", "LayoutChange"}, of : Window]
  \cup [line : {"WindowPaneChanged"}, of : Window \X Pane]

LineSet == BlockLine \cup Notice

\* A transport that sheds is an SSH channel's.
Shedding == "PumpShed" \in Kinds

\* Nothing waits for the wire of an attachment that ended.
Gateways ==
  {g \in [attached : BOOLEAN, opened : BOOLEAN, bootstrapped : BOOLEAN,
          pending : Seq(Question), asked : Seq(Intent), wire : Seq(Question), out : Seq(Event),
          windows : [Window -> Pane \cup {None}], channels : [Window -> Slot \cup {None}],
          gate : [Pane -> {"none", "asked", "captured", "live"}], backlog : [Pane -> Bytes],
          sentSize : Size, wantedSize : Size, resizeDue : BOOLEAN, relistDue : BOOLEAN,
          solicited : BOOLEAN, unsolicited : BOOLEAN, sheds : BOOLEAN, refused : BOOLEAN,
          detaching : BOOLEAN, ahead : SUBSET Window, mood : Mood, crossed : BOOLEAN, gone : BOOLEAN] :
     /\ g.mood = "sheds" => Shedding
     /\ ~g.attached => g.pending = <<>>}

-----------------------------------------------------------------------------
(***************************************************************************)
(* Questions and replies. `due` is what the replies under way answer, in   *)
(* order; behind them come the questions on the wire and those that wait.  *)
(***************************************************************************)
Sent(g) == g.wire \o g.pending

Matches(a, q) == Len(a) = Len(q) /\ \A i \in 1 .. Len(a) : a[i] \in {q[i], Ignore}

Answers(a, q) == Len(a) >= Len(q) /\ (Shedding \/ Matches(a, q))

Paired(g, due) == g.attached => Answers(g.asked, due \o Sent(g))

\* What of a kind is on its way from h was on its way from g.
Guarded(g, h, kind) ==
  \A i \in 1 .. Len(Sent(h)) : Sent(h)[i][1] = kind => i \in 1 .. Len(Sent(g)) /\ Sent(g)[i][1] = kind

\* What no command changes, and the pairing it keeps.
Keeps(g, h) ==
  /\ (h.attached => g.attached) /\ h.mood = g.mood /\ h.crossed = g.crossed /\ h.gone = g.gone
  /\ h.detaching = g.detaching /\ h.opened = g.opened
  /\ h.solicited = g.solicited /\ h.unsolicited = g.unsolicited
  /\ \A due \in Seq(Question) : Paired(g, due) => Paired(h, due)

Sends(g, h) == Keeps(g, h) /\ Guarded(g, h, "SendKeys") /\ Guarded(g, h, "DetachClient")

LEMMA KeepsOn == ASSUME NEW f, NEW g, NEW h, Keeps(f, g), Keeps(g, h) PROVE Keeps(f, h)
BY DEF Keeps

LEMMA GuardedOn ==
  ASSUME NEW f, NEW g, NEW h, NEW kind, Guarded(f, g, kind), Guarded(g, h, kind) PROVE Guarded(f, h, kind)
BY DEF Guarded

LEMMA SendsOn == ASSUME NEW f, NEW g, NEW h, Sends(f, g), Sends(g, h) PROVE Sends(f, h)
BY KeepsOn, GuardedOn DEF Sends

\* A change of nothing that is said.
LEMMA QuietSends ==
  ASSUME NEW g \in Gateways, NEW h \in Gateways,
         h.attached = g.attached, h.mood = g.mood, h.crossed = g.crossed, h.gone = g.gone,
         h.detaching = g.detaching, h.opened = g.opened,
         h.solicited = g.solicited, h.unsolicited = g.unsolicited,
         h.asked = g.asked, h.wire = g.wire, h.pending = g.pending
  PROVE  Sends(g, h)
BY DEF Sends, Keeps, Guarded, Paired, Sent

LEMMA SentType == ASSUME NEW g \in Gateways PROVE Sent(g) \in Seq(Question) /\ Len(Sent(g)) \in Nat
BY DEF Sent, Gateways

LEMMA MatchesMore ==
  ASSUME NEW a \in Seq(Intent), NEW q \in Seq(Question), NEW x \in Intent, NEW y \in Question,
         x \in {y, Ignore}, Answers(a, q)
  PROVE  Answers(Append(a, x), Append(q, y))
<1>1. /\ Len(Append(a, x)) = Len(a) + 1 /\ Append(a, x)[Len(a) + 1] = x
      /\ \A i \in 1 .. Len(a) : Append(a, x)[i] = a[i]
  BY AppendProperties
<1>2. /\ Len(Append(q, y)) = Len(q) + 1 /\ Append(q, y)[Len(q) + 1] = y
      /\ \A i \in 1 .. Len(q) : Append(q, y)[i] = q[i]
  BY AppendProperties
<1>3. Len(a) \in Nat /\ Len(q) \in Nat
  OBVIOUS
<1>4. ASSUME Matches(a, q) PROVE Matches(Append(a, x), Append(q, y))
  <2>1. Len(a) = Len(q) /\ \A i \in 1 .. Len(a) : a[i] \in {q[i], Ignore}
    BY <1>4 DEF Matches
  <2>2. ASSUME NEW i \in 1 .. Len(a) + 1 PROVE Append(a, x)[i] \in {Append(q, y)[i], Ignore}
    <3>1. CASE i = Len(a) + 1
      BY <1>1, <1>2, <2>1, <3>1
    <3>2. CASE i \in 1 .. Len(a)
      BY <1>1, <1>2, <2>1, <3>2
    <3>3. i = Len(a) + 1 \/ i \in 1 .. Len(a)
      BY <1>3
    <3> QED BY <3>1, <3>2, <3>3
  <2> QED BY <1>1, <1>2, <2>1, <2>2 DEF Matches
<1> QED BY <1>1, <1>2, <1>3, <1>4 DEF Answers

\* A reply that has come, and its question.
LEMMA MatchesLess ==
  ASSUME NEW a \in Seq(Intent), NEW q \in Seq(Question), q # <<>>, Answers(a, q)
  PROVE  /\ a # <<>> /\ Head(a) \in Intent /\ Tail(a) \in Seq(Intent)
         /\ Answers(Tail(a), Tail(q)) /\ (Shedding \/ Head(a) \in {Head(q), Ignore})
<1>1. Len(a) \in Nat /\ Len(q) \in Nat /\ Len(q) > 0 /\ Len(a) >= Len(q)
  BY EmptySeq DEF Answers
<1>2. a # <<>>
  BY <1>1
<1>3. /\ Head(a) \in Intent /\ Tail(a) \in Seq(Intent) /\ Len(Tail(a)) = Len(a) - 1
      /\ \A i \in 1 .. Len(Tail(a)) : Tail(a)[i] = a[i + 1]
      /\ Head(a) = a[1]
  BY <1>2, HeadTailProperties
<1>4. /\ Len(Tail(q)) = Len(q) - 1 /\ \A i \in 1 .. Len(Tail(q)) : Tail(q)[i] = q[i + 1]
      /\ Head(q) = q[1]
  BY HeadTailProperties
<1>5. ASSUME Matches(a, q) PROVE Matches(Tail(a), Tail(q)) /\ Head(a) \in {Head(q), Ignore}
  <2>1. Len(a) = Len(q) /\ \A i \in 1 .. Len(a) : a[i] \in {q[i], Ignore}
    BY <1>5 DEF Matches
  <2>2. ASSUME NEW i \in 1 .. Len(Tail(a)) PROVE Tail(a)[i] \in {Tail(q)[i], Ignore}
    <3>1. i + 1 \in 1 .. Len(a) /\ i \in 1 .. Len(Tail(q))
      BY <1>1, <1>3, <1>4, <2>1
    <3> QED BY <1>3, <1>4, <2>1, <3>1
  <2>3. 1 \in 1 .. Len(a)
    BY <1>1
  <2> QED BY <1>3, <1>4, <2>1, <2>2, <2>3 DEF Matches
<1> QED BY <1>1, <1>2, <1>3, <1>4, <1>5 DEF Answers

\* Questions in three runs are one run, however they are grouped.
LEMMA Regrouped ==
  ASSUME NEW s \in Seq(Question), NEW t \in Seq(Question), NEW u \in Seq(Question)
  PROVE  (s \o t) \o u = s \o (t \o u) /\ s \o t \in Seq(Question) /\ t \o u \in Seq(Question)
BY ConcatAssociative, ConcatProperties

LEMMA Joined ==
  ASSUME NEW s \in Seq(Question), NEW t \in Seq(Question)
  PROVE  /\ Len(s \o t) = Len(s) + Len(t) /\ Len(s) \in Nat /\ Len(t) \in Nat
         /\ \A k \in 1 .. Len(s) : (s \o t)[k] = s[k]
         /\ \A k \in 1 .. Len(t) : (s \o t)[Len(s) + k] = t[k]
<1>1. /\ Len(s \o t) = Len(s) + Len(t) /\ Len(s) \in Nat /\ Len(t) \in Nat
      /\ \A i \in 1 .. Len(s) + Len(t) : (s \o t)[i] = IF i <= Len(s) THEN s[i] ELSE t[i - Len(s)]
  BY ConcatProperties
<1>2. \A k \in 1 .. Len(s) : k \in 1 .. Len(s) + Len(t) /\ k <= Len(s)
  BY <1>1
<1>3. \A k \in 1 .. Len(t) : /\ Len(s) + k \in 1 .. Len(s) + Len(t) /\ ~(Len(s) + k <= Len(s))
                              /\ Len(s) + k - Len(s) = k
  BY <1>1
<1> QED BY <1>1, <1>2, <1>3

LEMMA AtTheFront ==
  ASSUME NEW s \in Seq(Question), NEW t \in Seq(Question), NEW i \in 1 .. Len(s)
  PROVE  i \in 1 .. Len(s \o t) /\ (s \o t)[i] = s[i]
<1>1. Len(s \o t) = Len(s) + Len(t) /\ Len(s) \in Nat /\ Len(t) \in Nat
  BY Joined
<1>2. i \in 1 .. Len(s \o t)
  BY <1>1
<1> QED BY <1>2, Joined

\* One question more behind two runs.
LEMMA Behind ==
  ASSUME NEW s \in Seq(Question), NEW t \in Seq(Question), NEW x \in Question
  PROVE  s \o Append(t, x) = Append(s \o t, x)
<1>1. <<x>> \in Seq(Question)
  OBVIOUS
<1>2. s \o t \in Seq(Question)
  BY Regrouped
<1>3. Append(t, x) = t \o <<x>> /\ Append(s \o t, x) = (s \o t) \o <<x>>
  BY <1>2, AppendIsConcat
<1>4. (s \o t) \o <<x>> = s \o (t \o <<x>>)
  BY <1>1, Regrouped
<1> QED BY <1>3, <1>4

\* Fewer questions are no more than the answers expected.
LEMMA AnswersPart ==
  ASSUME NEW a \in Seq(Intent), NEW q \in Seq(Question), NEW r \in Seq(Question),
         Answers(a, q \o r), Shedding
  PROVE  Answers(a, q)
<1>1. Len(q \o r) = Len(q) + Len(r) /\ Len(q) \in Nat /\ Len(r) \in Nat /\ Len(a) \in Nat
  BY ConcatProperties
<1> QED BY <1>1 DEF Answers

-----------------------------------------------------------------------------
(***************************************************************************)
(* What the surface is told. K is the windows it takes to stand: one that  *)
(* is announced does not, so none is announced twice without its close.    *)
(***************************************************************************)
Enters(e, K, L) ==
  CASE e.do = "WindowAdded"  -> e.window \notin K /\ L = K \cup {e.window}
    [] e.do = "WindowClosed" -> L = K \ {e.window}
    [] e.do = "Detached"     -> L = {}
    [] OTHER                 -> L = K

Trace(out, K, L) ==
  \E k \in [0 .. Len(out) -> SUBSET Window] :
    k[0] = K /\ k[Len(out)] = L /\ \A i \in 1 .. Len(out) : Enters(out[i], k[i - 1], k[i])

EndTold(g) == (\E i \in 1 .. Len(g.out) : g.out[i].do = "Detached") <=> ~g.attached

\* The end is told when it comes, and a window that stands is on the books.
Told(g, K) ==
  /\ \E L \in SUBSET Known(g) : Trace(g.out, K, L)
  /\ EndTold(g)

LEMMA TraceOfNothing == ASSUME NEW K \in SUBSET Window PROVE Trace(<<>>, K, K)
<1> DEFINE k == [i \in 0 .. 0 |-> K]
<1>1. /\ k \in [0 .. Len(<<>>) -> SUBSET Window] /\ k[0] = K /\ k[Len(<<>>)] = K
      /\ \A i \in 1 .. Len(<<>>) : FALSE
  OBVIOUS
<1> QED BY <1>1 DEF Trace

LEMMA TraceMore ==
  ASSUME NEW out \in Seq(Event), NEW e \in Event, NEW K, NEW L, NEW M \in SUBSET Window,
         Trace(out, K, L), Enters(e, L, M)
  PROVE  Trace(Append(out, e), K, M)
<1> DEFINE n == Len(out)
           more == Append(out, e)
<1>1. PICK k \in [0 .. n -> SUBSET Window] :
        k[0] = K /\ k[n] = L /\ \A i \in 1 .. n : Enters(out[i], k[i - 1], k[i])
  BY DEF Trace
<1>2. n \in Nat /\ Len(more) = n + 1 /\ more[n + 1] = e /\ \A i \in 1 .. n : more[i] = out[i]
  BY AppendProperties
<1> HIDE DEF n, more
<1> DEFINE m == [i \in 0 .. n + 1 |-> IF i = n + 1 THEN M ELSE k[i]]
<1>3. m \in [0 .. n + 1 -> SUBSET Window] /\ m[0] = K /\ m[n + 1] = M /\ m[n] = L
  BY <1>1, <1>2
<1>4. ASSUME NEW i \in 1 .. n + 1 PROVE Enters(more[i], m[i - 1], m[i])
  <2>1. CASE i = n + 1
    <3>1. i - 1 = n
      BY <1>2, <2>1
    <3> QED BY <1>2, <1>3, <2>1, <3>1
  <2>2. CASE i # n + 1
    <3>1. i \in 1 .. n /\ i - 1 \in 0 .. n + 1 /\ i - 1 # n + 1 /\ i \in 0 .. n + 1
      BY <1>2, <2>2
    <3>2. m[i] = k[i] /\ m[i - 1] = k[i - 1] /\ more[i] = out[i]
      BY <1>2, <2>2, <3>1
    <3> QED BY <1>1, <3>1, <3>2
  <2> QED BY <2>1, <2>2
<1> HIDE DEF m
<1> QED BY <1>2, <1>3, <1>4 DEF Trace, more

\* Nothing told, and no window forgotten.
LEMMA ToldStill ==
  ASSUME NEW g \in Gateways, NEW h \in Gateways, NEW K, Told(g, K),
         h.out = g.out, h.attached = g.attached, \A w \in Window : g.windows[w] # None => h.windows[w] # None
  PROVE  Told(h, K)
<1>1. Known(g) \subseteq Known(h)
  BY DEF Known
<1> QED BY <1>1 DEF Told, EndTold

LEMMA DetachedMore ==
  ASSUME NEW out \in Seq(Event), NEW e \in Event
  PROVE  (\E i \in 1 .. Len(Append(out, e)) : Append(out, e)[i].do = "Detached")
           <=> e.do = "Detached" \/ \E i \in 1 .. Len(out) : out[i].do = "Detached"
<1> DEFINE more == Append(out, e)
<1>1. /\ Len(out) \in Nat /\ Len(more) = Len(out) + 1 /\ more[Len(out) + 1] = e
      /\ \A i \in 1 .. Len(out) : more[i] = out[i]
  BY AppendProperties
<1> HIDE DEF more
<1>2. \A i \in 1 .. Len(more) : i = Len(out) + 1 \/ i \in 1 .. Len(out)
  BY <1>1
<1>3. Len(out) + 1 \in 1 .. Len(more) /\ \A i \in 1 .. Len(out) : i \in 1 .. Len(more)
  BY <1>1
<1> QED BY <1>1, <1>2, <1>3 DEF more

\* Something told that ends nothing.
LEMMA ToldMore ==
  ASSUME NEW g \in Gateways, NEW h \in Gateways, NEW K, NEW L, NEW M \in SUBSET Known(h), NEW e \in Event,
         Trace(g.out, K, L), Enters(e, L, M), h.out = Append(g.out, e), h.attached = g.attached,
         e.do # "Detached", EndTold(g)
  PROVE  Told(h, K)
<1>1. g.out \in Seq(Event) /\ M \in SUBSET Window
  BY DEF Gateways, Known
<1> QED BY <1>1, TraceMore, DetachedMore DEF Told, EndTold

\* A handler's step: the pairing, what is on its way, what the surface is told.
Handles(g, h) == Sends(g, h) /\ \A K : Told(g, K) => Told(h, K)

LEMMA HandlesOn == ASSUME NEW f, NEW g, NEW h, Handles(f, g), Handles(g, h) PROVE Handles(f, h)
BY SendsOn DEF Handles

LEMMA HandlesNot == ASSUME NEW g PROVE Handles(g, g)
BY DEF Handles, Sends, Keeps, Guarded

-----------------------------------------------------------------------------
(***************************************************************************)
(* Out: each handler keeps its gateway a gateway, the pairing and the rest.*)
(***************************************************************************)
\* What no command touches.
Elsewhere(g, h) ==
  /\ h.attached = g.attached /\ h.out = g.out /\ h.windows = g.windows /\ h.channels = g.channels
  /\ h.gate = g.gate /\ h.backlog = g.backlog /\ h.bootstrapped = g.bootstrapped

LEMMA FlushFacts ==
  ASSUME NEW g \in Gateways
  PROVE  Flush(g) \in Gateways /\ Sends(g, Flush(g)) /\ Elsewhere(g, Flush(g))
<1>1. CASE ~g.opened \/ g.pending = <<>>
  BY <1>1, QuietSends DEF Flush, Elsewhere
<1>2. CASE ~(~g.opened \/ g.pending = <<>>) /\ g.mood = "refuses"
  BY <1>2, QuietSends DEF Flush, Elsewhere
<1>3. CASE ~(~g.opened \/ g.pending = <<>>) /\ g.mood = "takes"
  <2> DEFINE wire == Sent(g)
             h == [g EXCEPT !.wire = wire, !.pending = <<>>]
  <2>1. Flush(g) = h
    BY <1>3 DEF Flush, Sent
  <2>2. /\ h \in Gateways /\ Elsewhere(g, h) /\ h.attached = g.attached /\ h.mood = g.mood /\ h.crossed = g.crossed
        /\ h.gone = g.gone /\ h.detaching = g.detaching /\ h.opened = g.opened
        /\ h.solicited = g.solicited /\ h.unsolicited = g.unsolicited /\ h.asked = g.asked
        /\ h.wire = wire /\ h.pending = <<>>
    <3>1. wire \in Seq(Question) /\ <<>> \in Seq(Question)
      BY SentType
    <3> HIDE DEF wire
    <3> QED BY <3>1 DEF Gateways, Elsewhere
  <2> HIDE DEF h
  <2>3. Sent(h) = Sent(g)
    BY <2>2, SentType, ConcatEmptySeq DEF Sent
  <2> QED BY <2>1, <2>2, <2>3 DEF Sends, Keeps, Guarded, Paired
<1>4. CASE ~(~g.opened \/ g.pending = <<>>) /\ g.mood = "sheds"
  <2> DEFINE h == [g EXCEPT !.pending = <<>>, !.sheds = TRUE]
  <2>1. Flush(g) = h
    BY <1>4 DEF Flush
  <2>2. /\ h \in Gateways /\ Elsewhere(g, h) /\ h.attached = g.attached /\ h.mood = g.mood /\ h.crossed = g.crossed
        /\ h.gone = g.gone /\ h.detaching = g.detaching /\ h.opened = g.opened
        /\ h.solicited = g.solicited /\ h.unsolicited = g.unsolicited /\ h.asked = g.asked
        /\ h.wire = g.wire /\ h.pending = <<>>
    <3>1. <<>> \in Seq(Question)
      OBVIOUS
    <3> QED BY <3>1 DEF Gateways, Elsewhere
  <2> HIDE DEF h
  <2>3. g.wire \in Seq(Question) /\ g.pending \in Seq(Question) /\ g.asked \in Seq(Intent) /\ Shedding
    BY <1>4 DEF Gateways
  <2>4. Sent(h) = g.wire
    BY <2>2, <2>3, ConcatEmptySeq DEF Sent
  <2>5. ASSUME NEW due \in Seq(Question), Paired(g, due) PROVE Paired(h, due)
    <3>1. CASE ~g.attached
      BY <2>2, <3>1 DEF Paired
    <3>2. CASE g.attached
      <4>1. Answers(g.asked, due \o (g.wire \o g.pending))
        BY <2>5, <3>2 DEF Paired, Sent
      <4>2. due \o (g.wire \o g.pending) = (due \o g.wire) \o g.pending /\ due \o g.wire \in Seq(Question)
        BY <2>3, Regrouped
      <4>3. Answers(g.asked, due \o g.wire)
        BY <2>3, <4>1, <4>2, AnswersPart
      <4> QED BY <2>2, <2>4, <4>3 DEF Paired
    <3> QED BY <3>1, <3>2
  <2>6. ASSUME NEW i \in 1 .. Len(Sent(h)) PROVE i \in 1 .. Len(Sent(g)) /\ Sent(g)[i] = Sent(h)[i]
    <3>1. i \in 1 .. Len(g.wire)
      BY <2>4
    <3> QED BY <2>3, <2>4, <3>1, AtTheFront DEF Sent
  <2> QED BY <2>1, <2>2, <2>5, <2>6 DEF Sends, Keeps, Guarded
<1>5. g.mood \in {"takes", "refuses", "sheds"}
  BY DEF Gateways, Mood
<1> QED BY <1>1, <1>2, <1>3, <1>4, <1>5

\* A question put behind those that wait, and the reply expected for it.
LEMMA QueuedFacts ==
  ASSUME NEW g \in Gateways, g.attached, NEW ask \in Question, NEW intent \in Intent, intent \in {ask, Ignore}
  PROVE  LET h == [g EXCEPT !.asked = Append(@, intent), !.pending = Append(@, ask)]
         IN  /\ h \in Gateways /\ Keeps(g, h) /\ Elsewhere(g, h)
             /\ \A kind : ask[1] # kind => Guarded(g, h, kind)
<1> DEFINE asked == Append(g.asked, intent)
           pending == Append(g.pending, ask)
           h == [g EXCEPT !.asked = asked, !.pending = pending]
<1>1. g.wire \in Seq(Question) /\ g.pending \in Seq(Question) /\ g.asked \in Seq(Intent)
  BY DEF Gateways
<1>2. asked \in Seq(Intent) /\ pending \in Seq(Question)
  BY <1>1, AppendProperties
<1>3. Sent(g) \in Seq(Question) /\ g.wire \o pending = Append(Sent(g), ask)
  BY <1>1, SentType, Behind DEF Sent
<1> HIDE DEF asked, pending
<1>4. /\ h \in Gateways /\ Elsewhere(g, h) /\ h.attached = g.attached /\ h.mood = g.mood /\ h.crossed = g.crossed
      /\ h.gone = g.gone /\ h.detaching = g.detaching /\ h.opened = g.opened
      /\ h.solicited = g.solicited /\ h.unsolicited = g.unsolicited /\ h.asked = asked
      /\ h.wire = g.wire /\ h.pending = pending
  BY <1>2 DEF Gateways, Elsewhere
<1> HIDE DEF h
<1>5. Sent(h) = Append(Sent(g), ask)
  BY <1>3, <1>4 DEF Sent
<1>6. ASSUME NEW due \in Seq(Question), Paired(g, due) PROVE Paired(h, due)
  <2>1. Answers(g.asked, due \o Sent(g)) /\ due \o Sent(g) \in Seq(Question)
    BY <1>3, <1>6, ConcatProperties DEF Paired
  <2>2. due \o Sent(h) = Append(due \o Sent(g), ask)
    BY <1>3, <1>5, Behind
  <2>3. Answers(asked, Append(due \o Sent(g), ask))
    BY <1>1, <2>1, MatchesMore DEF asked
  <2> QED BY <1>4, <2>2, <2>3 DEF Paired
<1>7. ASSUME NEW kind, ask[1] # kind PROVE Guarded(g, h, kind)
  <2>1. /\ Len(Sent(h)) = Len(Sent(g)) + 1 /\ Sent(h)[Len(Sent(g)) + 1] = ask
        /\ \A i \in 1 .. Len(Sent(g)) : Sent(h)[i] = Sent(g)[i]
    BY <1>3, <1>5, AppendProperties
  <2>2. Len(Sent(g)) \in Nat
    BY <1>3
  <2>3. ASSUME NEW i \in 1 .. Len(Sent(h)), Sent(h)[i][1] = kind
        PROVE  i \in 1 .. Len(Sent(g)) /\ Sent(g)[i][1] = kind
    <3>1. i # Len(Sent(g)) + 1
      BY <1>7, <2>1, <2>3
    <3>2. i \in 1 .. Len(Sent(g))
      BY <2>1, <2>2, <3>1
    <3> QED BY <2>1, <2>3, <3>2
  <2> QED BY <2>3 DEF Guarded
<1>8. Keeps(g, h)
  BY <1>4, <1>6 DEF Keeps
<1> QED BY <1>4, <1>7, <1>8 DEF h, asked, pending

LEMMA CommandFacts ==
  ASSUME NEW g \in Gateways, NEW ask \in Question, NEW intent \in Intent, intent \in {ask, Ignore}
  PROVE  LET h == Command(g, ask, intent)
         IN  /\ h \in Gateways /\ Keeps(g, h) /\ Elsewhere(g, h)
             /\ \A kind \in {"SendKeys", "DetachClient"} : ask[1] # kind \/ ~g.attached => Guarded(g, h, kind)
<1> DEFINE h == Command(g, ask, intent)
<1>1. CASE ~g.attached
  <2>1. h = g
    BY <1>1 DEF Command
  <2> QED BY <2>1 DEF Keeps, Elsewhere, Guarded
<1>2. CASE g.attached /\ Len(g.pending) >= PENDING_CAP
  <2>1. h = [g EXCEPT !.sheds = TRUE]
    BY <1>2 DEF Command
  <2>2. h \in Gateways /\ Elsewhere(g, h) /\ Sends(g, h)
    <3>1. /\ h \in Gateways /\ Elsewhere(g, h) /\ h.attached = g.attached /\ h.mood = g.mood /\ h.crossed = g.crossed
          /\ h.gone = g.gone /\ h.detaching = g.detaching /\ h.opened = g.opened
          /\ h.solicited = g.solicited /\ h.unsolicited = g.unsolicited /\ h.asked = g.asked
          /\ h.wire = g.wire /\ h.pending = g.pending
      BY <2>1 DEF Gateways, Elsewhere
    <3> HIDE DEF h
    <3> QED BY <3>1, QuietSends
  <2> QED BY <2>2 DEF Sends
<1>3. CASE g.attached /\ ~(Len(g.pending) >= PENDING_CAP)
  <2> DEFINE q == [g EXCEPT !.asked = Append(@, intent), !.pending = Append(@, ask)]
  <2>1. h = Flush(q)
    BY <1>3 DEF Command
  <2>2. q \in Gateways /\ Keeps(g, q) /\ Elsewhere(g, q) /\ \A kind : ask[1] # kind => Guarded(g, q, kind)
    BY <1>3, QueuedFacts
  <2> HIDE DEF q, h
  <2>3. h \in Gateways /\ Sends(q, h) /\ Elsewhere(q, h)
    BY <2>1, <2>2, FlushFacts
  <2>4. Elsewhere(g, h) /\ Keeps(g, h)
    BY <2>2, <2>3, KeepsOn DEF Elsewhere, Sends
  <2>5. ASSUME NEW kind \in {"SendKeys", "DetachClient"}, ask[1] # kind PROVE Guarded(g, h, kind)
    BY <2>2, <2>3, <2>5, GuardedOn DEF Sends
  <2> QED BY <1>3, <2>3, <2>4, <2>5 DEF h
<1> QED BY <1>1, <1>2, <1>3

LEMMA ElsewhereHandles ==
  ASSUME NEW g \in Gateways, NEW h \in Gateways, Sends(g, h), Elsewhere(g, h)
  PROVE  Handles(g, h)
BY ToldStill DEF Handles, Elsewhere

LEMMA ElsewhereOn ==
  ASSUME NEW f, NEW g, NEW h, Elsewhere(f, g), Elsewhere(g, h) PROVE Elsewhere(f, h)
BY DEF Elsewhere

\* A command that is neither keys nor the detaching.
LEMMA CommandSends ==
  ASSUME NEW g \in Gateways, NEW ask \in Question, NEW intent \in Intent, intent \in {ask, Ignore},
         ask[1] \notin {"SendKeys", "DetachClient"}
  PROVE  LET h == Command(g, ask, intent) IN h \in Gateways /\ Sends(g, h) /\ Elsewhere(g, h)
BY CommandFacts DEF Sends

LEMMA TellSends ==
  ASSUME NEW g \in Gateways, NEW ask \in Question, ask[1] \notin {"SendKeys", "DetachClient"}
  PROVE  Tell(g, ask) \in Gateways /\ Sends(g, Tell(g, ask)) /\ Elsewhere(g, Tell(g, ask))
<1>1. Ignore \in Intent
  BY DEF Ignore, Ask, Intent
<1> QED BY <1>1, CommandSends DEF Tell

LEMMA QuerySends ==
  ASSUME NEW g \in Gateways, NEW ask \in Intent
  PROVE  Query(g, ask) \in Gateways /\ Sends(g, Query(g, ask)) /\ Elsewhere(g, Query(g, ask))
<1>1. ask \in Question /\ ask[1] \notin {"SendKeys", "DetachClient"}
  BY DEF Intent, Question
<1> QED BY <1>1, CommandSends DEF Query

LEMMA WindowSizeSends ==
  ASSUME NEW g \in Gateways, NEW w \in Window
  PROVE  WindowSize(g, w) \in Gateways /\ Sends(g, WindowSize(g, w)) /\ Elsewhere(g, WindowSize(g, w))
<1>1. CASE g.sentSize = 0
  <2>1. WindowSize(g, w) = g /\ Elsewhere(g, g)
    BY <1>1 DEF WindowSize, Elsewhere
  <2> QED BY <2>1, QuietSends
<1>2. CASE g.sentSize # 0
  <2>1. Ask("WindowSize", <<w, g.sentSize>>) \in Question
    BY DEF Ask, Question, Gateways
  <2>2. Ask("WindowSize", <<w, g.sentSize>>)[1] \notin {"SendKeys", "DetachClient"}
    BY DEF Ask
  <2> QED BY <1>2, <2>1, <2>2, TellSends DEF WindowSize
<1> QED BY <1>1, <1>2

LEMMA SizesSend ==
  ASSUME NEW g \in Gateways, NEW W
  PROVE  LET h == EachWindow(WindowSize, g, W) IN h \in Gateways /\ Sends(g, h) /\ Elsewhere(g, h)
<1> DEFINE n == Windows
           s == [w \in Window |-> w]
           T == {h \in Gateways : Sends(g, h) /\ Elsewhere(g, h)}
           G == [p \in (1 .. n) \X T |-> IF p[1] \in W THEN WindowSize(p[2], p[1]) ELSE p[2]]
           Fold(it) == it = [S \in SUBSET DOMAIN s |->
                               IF S = {} THEN g
                               ELSE IF s[Max(S)] \in W THEN WindowSize(it[S \ {Max(S)}], s[Max(S)])
                                    ELSE it[S \ {Max(S)}]]
           it == CHOOSE it : it = [S \in SUBSET DOMAIN s |->
                               IF S = {} THEN g
                               ELSE IF s[Max(S)] \in W THEN WindowSize(it[S \ {Max(S)}], s[Max(S)])
                                    ELSE it[S \ {Max(S)}]]
<1>1. n \in Nat /\ DOMAIN s = 1 .. n /\ \A k \in 1 .. n : s[k] = k /\ k \in Window
  BY GatewayAssumption DEF Window
<1>2. EachWindow(WindowSize, g, W) = it[DOMAIN s]
  BY DEF EachWindow, FoldLeft, MapThenFoldSet
<1>3. g \in T
  BY QuietSends DEF Elsewhere
<1>4. ASSUME NEW k \in 1 .. n, NEW v \in T
      PROVE  G[<<k, v>>] = (IF s[k] \in W THEN WindowSize(v, s[k]) ELSE v) /\ G[<<k, v>>] \in T
  <2>1. k \in Window /\ s[k] = k
    BY <1>1
  <2>2. WindowSize(v, k) \in T
    BY <2>1, WindowSizeSends, SendsOn, ElsewhereOn
  <2> HIDE DEF T
  <2> QED BY <2>1, <2>2
<1> HIDE DEF T, G, n
<1>5. PICK f \in [SUBSET (1 .. n) -> T] : Folding(n, g, G, f)
  BY <1>1, <1>3, <1>4, FoldExists
<1>6. ASSUME NEW S \in SUBSET (1 .. n), S # {} PROVE Max(S) \in 1 .. n /\ S \ {Max(S)} \in SUBSET (1 .. n)
  BY <1>1, <1>6, MaxOfPositions
<1> HIDE DEF s
<1>7. Fold(f)
  <2>1. ASSUME NEW S \in SUBSET (1 .. n), S # {}
        PROVE  G[<<Max(S), f[S \ {Max(S)}]>>] =
                 (IF s[Max(S)] \in W THEN WindowSize(f[S \ {Max(S)}], s[Max(S)]) ELSE f[S \ {Max(S)}])
    <3>1. Max(S) \in 1 .. n /\ S \ {Max(S)} \in SUBSET (1 .. n)
      BY <1>6, <2>1
    <3> QED BY <1>4, <3>1
  <2> QED BY <1>1, <1>5, <2>1 DEF Folding
<1>8. Fold(it)
  BY <1>7
<1> HIDE DEF it
<1>9. it[{}] = g
  BY <1>8
<1>10. Steps(n, T, g, G, it)
  <2> SUFFICES ASSUME NEW S \in SUBSET (1 .. n), S # {}, it[S \ {Max(S)}] \in T
               PROVE  it[S] = G[<<Max(S), it[S \ {Max(S)}]>>]
    BY <1>1, <1>3, <1>4, <1>9 DEF Steps
  <2>1. Max(S) \in 1 .. n
    BY <1>6
  <2>2. it[S] = IF s[Max(S)] \in W THEN WindowSize(it[S \ {Max(S)}], s[Max(S)]) ELSE it[S \ {Max(S)}]
    BY <1>1, <1>8
  <2> QED BY <1>4, <2>1, <2>2
<1>11. Walks(n, T, g, G, it[1 .. n])
  BY <1>10, FoldWalks
<1>12. it[1 .. n] \in T
  BY <1>1, <1>11 DEF Walks
<1> QED BY <1>1, <1>2, <1>12 DEF T

LEMMA FlushClientSizeSends ==
  ASSUME NEW g \in Gateways
  PROVE  LET h == FlushClientSize(g) IN h \in Gateways /\ Sends(g, h) /\ Elsewhere(g, h)
<1> DEFINE due == [g EXCEPT !.resizeDue = FALSE]
           told == [g EXCEPT !.resizeDue = FALSE, !.sentSize = g.wantedSize]
           ask == Ask("ClientSize", g.wantedSize)
<1>1. due \in Gateways /\ Sends(g, due) /\ Elsewhere(g, due)
  <2>1. /\ due \in Gateways /\ Elsewhere(g, due) /\ due.attached = g.attached /\ due.mood = g.mood
        /\ due.crossed = g.crossed /\ due.gone = g.gone /\ due.detaching = g.detaching /\ due.opened = g.opened
        /\ due.solicited = g.solicited /\ due.unsolicited = g.unsolicited /\ due.asked = g.asked
        /\ due.wire = g.wire /\ due.pending = g.pending
    BY DEF Gateways, Elsewhere
  <2> HIDE DEF due
  <2> QED BY <2>1, QuietSends
<1>2. told \in Gateways /\ Sends(g, told) /\ Elsewhere(g, told)
  <2>1. /\ told \in Gateways /\ Elsewhere(g, told) /\ told.attached = g.attached /\ told.mood = g.mood
        /\ told.crossed = g.crossed /\ told.gone = g.gone /\ told.detaching = g.detaching /\ told.opened = g.opened
        /\ told.solicited = g.solicited /\ told.unsolicited = g.unsolicited /\ told.asked = g.asked
        /\ told.wire = g.wire /\ told.pending = g.pending
    BY DEF Gateways, Elsewhere
  <2> HIDE DEF told
  <2> QED BY <2>1, QuietSends
<1>3. ask \in Question /\ ask[1] \notin {"SendKeys", "DetachClient"}
  BY DEF Ask, Question, Gateways
<1> HIDE DEF due, told, ask
<1>4. Tell(told, ask) \in Gateways /\ Sends(told, Tell(told, ask)) /\ Elsewhere(told, Tell(told, ask))
  BY <1>2, <1>3, TellSends
<1>5. LET h == EachWindow(WindowSize, Tell(told, ask), Known(g))
      IN  h \in Gateways /\ Sends(Tell(told, ask), h) /\ Elsewhere(Tell(told, ask), h)
  BY <1>4, SizesSend
<1>6. LET h == EachWindow(WindowSize, Tell(told, ask), Known(g))
      IN  h \in Gateways /\ Sends(g, h) /\ Elsewhere(g, h)
  BY <1>2, <1>4, <1>5, SendsOn, ElsewhereOn
<1>7. FlushClientSize(g) = IF g.wantedSize = g.sentSize THEN due
                           ELSE EachWindow(WindowSize, Tell(told, ask), Known(g))
  BY DEF FlushClientSize, due, told, ask
<1> QED BY <1>1, <1>6, <1>7

LEMMA SetClientSizeSends ==
  ASSUME NEW g \in Gateways, NEW size \in Size
  PROVE  LET h == SetClientSize(g, size) IN h \in Gateways /\ Sends(g, h) /\ Elsewhere(g, h)
<1> DEFINE wanted == [g EXCEPT !.wantedSize = size]
           due == [g EXCEPT !.wantedSize = size, !.resizeDue = TRUE]
<1>1. wanted \in Gateways /\ Sends(g, wanted) /\ Elsewhere(g, wanted)
  <2>1. /\ wanted \in Gateways /\ Elsewhere(g, wanted) /\ wanted.attached = g.attached /\ wanted.mood = g.mood
        /\ wanted.crossed = g.crossed /\ wanted.gone = g.gone /\ wanted.detaching = g.detaching
        /\ wanted.opened = g.opened /\ wanted.solicited = g.solicited /\ wanted.unsolicited = g.unsolicited
        /\ wanted.asked = g.asked /\ wanted.wire = g.wire /\ wanted.pending = g.pending
    BY DEF Gateways, Elsewhere
  <2> HIDE DEF wanted
  <2> QED BY <2>1, QuietSends
<1>2. due \in Gateways /\ Sends(g, due) /\ Elsewhere(g, due)
  <2>1. /\ due \in Gateways /\ Elsewhere(g, due) /\ due.attached = g.attached /\ due.mood = g.mood
        /\ due.crossed = g.crossed /\ due.gone = g.gone /\ due.detaching = g.detaching /\ due.opened = g.opened
        /\ due.solicited = g.solicited /\ due.unsolicited = g.unsolicited /\ due.asked = g.asked
        /\ due.wire = g.wire /\ due.pending = g.pending
    BY DEF Gateways, Elsewhere
  <2> HIDE DEF due
  <2> QED BY <2>1, QuietSends
<1>3. g \in Gateways /\ Sends(g, g) /\ Elsewhere(g, g)
  BY QuietSends DEF Elsewhere
<1> HIDE DEF wanted, due
<1>4. LET h == FlushClientSize(wanted) IN h \in Gateways /\ Sends(g, h) /\ Elsewhere(g, h)
  BY <1>1, FlushClientSizeSends, SendsOn, ElsewhereOn
<1>5. SetClientSize(g, size) \in {g, FlushClientSize(wanted), due}
  BY DEF SetClientSize, wanted, due
<1> QED BY <1>2, <1>3, <1>4, <1>5

\* What a handler says nothing of, and changes on the gateway only.
LEMMA QuietHandles ==
  ASSUME NEW g \in Gateways, NEW h \in Gateways, Sends(g, h), h.out = g.out, h.attached = g.attached,
         Known(g) \subseteq Known(h)
  PROVE  Handles(g, h)
BY DEF Handles, Told, EndTold

LEMMA AttachWindowHandles ==
  ASSUME NEW g \in Gateways, NEW w \in Window, NEW p \in Pane
  PROVE  LET h == AttachWindow(g, w, p)
         IN  /\ h \in Gateways /\ Sends(g, h) /\ h.out = g.out /\ h.attached = g.attached
             /\ Known(h) = Known(g) \cup {w} /\ h.channels = g.channels
<1> DEFINE gated == [g EXCEPT !.gate[p] = "asked", !.backlog[p] = <<>>, !.windows[w] = p]
           seen == Query(gated, Ask("Capture", p))
           h == Query(seen, Ask("Cursor", p))
<1>1. h = AttachWindow(g, w, p)
  BY DEF AttachWindow
<1>2. /\ gated \in Gateways /\ gated.out = g.out /\ gated.channels = g.channels
      /\ gated.windows = [g.windows EXCEPT ![w] = p] /\ gated.attached = g.attached /\ gated.mood = g.mood
      /\ gated.crossed = g.crossed /\ gated.gone = g.gone /\ gated.detaching = g.detaching
      /\ gated.opened = g.opened /\ gated.solicited = g.solicited /\ gated.unsolicited = g.unsolicited
      /\ gated.asked = g.asked /\ gated.wire = g.wire /\ gated.pending = g.pending
  <2>1. <<>> \in Bytes
    BY DEF Bytes
  <2> QED BY <2>1 DEF Gateways
<1> HIDE DEF gated
<1>3. Sends(g, gated)
  BY <1>2, QuietSends
<1>4. Ask("Capture", p) \in Intent /\ Ask("Cursor", p) \in Intent
  BY DEF Ask, Intent
<1>5. seen \in Gateways /\ Sends(gated, seen) /\ Elsewhere(gated, seen)
  BY <1>2, <1>4, QuerySends
<1> HIDE DEF seen
<1>6. h \in Gateways /\ Sends(seen, h) /\ Elsewhere(seen, h)
  BY <1>4, <1>5, QuerySends
<1> HIDE DEF h
<1>7. Sends(g, h)
  BY <1>3, <1>5, <1>6, SendsOn
<1>8. /\ h.out = g.out /\ h.attached = g.attached /\ h.channels = g.channels
      /\ h.windows = [g.windows EXCEPT ![w] = p]
  BY <1>2, <1>5, <1>6 DEF Elsewhere
<1>9. p # None /\ g.windows \in [Window -> Pane \cup {None}]
  BY GatewayAssumption DEF Pane, None, Gateways
<1>10. Known(h) = Known(g) \cup {w}
  BY <1>8, <1>9 DEF Known
<1> QED BY <1>1, <1>6, <1>7, <1>8, <1>10

LEMMA EmitFacts ==
  ASSUME NEW g \in Gateways, NEW e \in Event
  PROVE  LET h == Emit(g, e)
         IN  /\ h \in Gateways /\ Sends(g, h) /\ h.out = Append(g.out, e) /\ h.attached = g.attached
             /\ h.windows = g.windows /\ h.channels = g.channels /\ h.bootstrapped = g.bootstrapped
<1> DEFINE out == Append(g.out, e)
           h == [g EXCEPT !.out = out]
<1>1. Emit(g, e) = h
  BY DEF Emit
<1>2. out \in Seq(Event)
  BY AppendProperties DEF Gateways
<1> HIDE DEF out
<1>3. /\ h \in Gateways /\ h.out = out /\ h.attached = g.attached /\ h.windows = g.windows
      /\ h.channels = g.channels /\ h.bootstrapped = g.bootstrapped /\ h.mood = g.mood
      /\ h.crossed = g.crossed /\ h.gone = g.gone /\ h.detaching = g.detaching
      /\ h.opened = g.opened /\ h.solicited = g.solicited /\ h.unsolicited = g.unsolicited
      /\ h.asked = g.asked /\ h.wire = g.wire /\ h.pending = g.pending
  BY <1>2 DEF Gateways
<1> HIDE DEF h
<1> QED BY <1>1, <1>3, QuietSends DEF out

\* Something told that lets every window stand.
LEMMA EmitHandles ==
  ASSUME NEW g \in Gateways, NEW e \in Event, e.do \in {"Output", "WindowPaneChanged"}
  PROVE  Emit(g, e) \in Gateways /\ Handles(g, Emit(g, e))
<1> DEFINE h == Emit(g, e)
<1>1. /\ h \in Gateways /\ Sends(g, h) /\ h.out = Append(g.out, e) /\ h.attached = g.attached
      /\ h.windows = g.windows
  BY EmitFacts
<1> HIDE DEF h
<1>2. ASSUME NEW K, Told(g, K) PROVE Told(h, K)
  <2>1. PICK L \in SUBSET Known(g) : Trace(g.out, K, L)
    BY <1>2 DEF Told
  <2>2. L \in SUBSET Known(h)
    BY <1>1 DEF Known
  <2>3. Enters(e, L, L)
    BY DEF Enters
  <2> QED BY <1>1, <1>2, <2>1, <2>2, <2>3, ToldMore DEF Told
<1> QED BY <1>1, <1>2 DEF Handles, h

LEMMA TeardownHandles ==
  ASSUME NEW g \in Gateways, NEW lost \in BOOLEAN
  PROVE  LET h == Teardown(g, lost) IN h \in Gateways /\ Handles(g, h) /\ ~h.attached
<1>1. CASE ~g.attached
  BY <1>1, HandlesNot DEF Teardown
<1>2. CASE g.attached
  <2> DEFINE f == Flush(g)
             windows == [w \in Window |-> None]
             gate == [p \in Pane |-> "none"]
             backlog == [p \in Pane |-> <<>>]
             t == [f EXCEPT !.pending = <<>>, !.attached = FALSE, !.asked = <<>>, !.windows = windows,
                            !.gate = gate, !.backlog = backlog, !.resizeDue = FALSE]
             e == [do |-> "Detached", lost |-> lost]
             h == Emit(t, e)
  <2>1. Teardown(g, lost) = h
    BY <1>2 DEF Teardown
  <2>2. f \in Gateways /\ Sends(g, f) /\ Elsewhere(g, f)
    BY FlushFacts
  <2> HIDE DEF f
  <2>3. /\ t \in Gateways /\ t.attached = FALSE /\ t.out = f.out /\ t.mood = f.mood /\ t.crossed = f.crossed
        /\ t.gone = f.gone /\ t.detaching = f.detaching /\ t.opened = f.opened /\ t.solicited = f.solicited
        /\ t.unsolicited = f.unsolicited /\ t.wire = f.wire /\ t.pending = <<>>
    <3>1. /\ windows \in [Window -> Pane \cup {None}] /\ gate \in [Pane -> {"none", "asked", "captured", "live"}]
          /\ backlog \in [Pane -> Bytes] /\ <<>> \in Seq(Question) /\ <<>> \in Seq(Intent)
      BY DEF Bytes
    <3> HIDE DEF windows, gate, backlog
    <3> QED BY <2>2, <3>1 DEF Gateways
  <2> HIDE DEF t
  <2>4. f.wire \in Seq(Question) /\ f.pending \in Seq(Question)
    BY <2>2 DEF Gateways
  <2>5. Sent(t) = f.wire
    BY <2>3, <2>4, ConcatEmptySeq DEF Sent
  <2>6. ASSUME NEW i \in 1 .. Len(Sent(t)) PROVE i \in 1 .. Len(Sent(f)) /\ Sent(f)[i] = Sent(t)[i]
    <3>1. i \in 1 .. Len(f.wire)
      BY <2>5
    <3> QED BY <2>4, <2>5, <3>1, AtTheFront DEF Sent
  <2>7. Sends(f, t)
    BY <2>3, <2>6 DEF Sends, Keeps, Guarded, Paired
  <2>8. e \in Event /\ e.do = "Detached"
    BY DEF Event
  <2> HIDE DEF e
  <2>9. /\ h \in Gateways /\ Sends(t, h) /\ h.out = Append(t.out, e) /\ h.attached = t.attached
    BY <2>3, <2>8, EmitFacts
  <2> HIDE DEF h
  <2>10. ASSUME NEW K, Told(g, K) PROVE Told(h, K)
    <3>1. PICK L \in SUBSET Known(g) : Trace(g.out, K, L)
      BY <2>10 DEF Told
    <3>2. h.out = Append(g.out, e) /\ ~h.attached /\ g.out \in Seq(Event)
      BY <2>2, <2>3, <2>9 DEF Elsewhere, Gateways
    <3>3. Enters(e, L, {})
      BY <2>8 DEF Enters
    <3>4. Trace(h.out, K, {})
      BY <2>8, <3>1, <3>2, <3>3, TraceMore DEF Known
    <3> QED BY <2>8, <3>2, <3>4, DetachedMore DEF Told, EndTold
  <2> QED BY <2>1, <2>2, <2>3, <2>7, <2>9, <2>10, SendsOn DEF Handles
<1> QED BY <1>1, <1>2

-----------------------------------------------------------------------------
(***************************************************************************)
(* Back: replies and notifications.                                        *)
(***************************************************************************)
\* A cursor that is not to be walked is a question none reads the answer of.
LEMMA NeutraliseHandles ==
  ASSUME NEW g \in Gateways, NEW p
  PROVE  LET h == NeutraliseCursorIntent(g, p)
         IN  /\ h \in Gateways /\ Handles(g, h) /\ h.windows = g.windows
             /\ h.gate = g.gate /\ h.backlog = g.backlog
<1> DEFINE asked == [i \in DOMAIN g.asked |-> IF g.asked[i] = Ask("Cursor", p) THEN Ignore ELSE g.asked[i]]
           h == [g EXCEPT !.asked = asked]
<1>1. NeutraliseCursorIntent(g, p) = h
  BY DEF NeutraliseCursorIntent
<1>2. g.asked \in Seq(Intent) /\ Ignore \in Intent
  BY DEF Gateways, Ignore, Ask, Intent
<1>3. /\ asked \in Seq(Intent) /\ Len(asked) = Len(g.asked)
      /\ \A i \in 1 .. Len(asked) : asked[i] \in {g.asked[i], Ignore}
  <2>1. DOMAIN g.asked = 1 .. Len(g.asked) /\ Len(g.asked) \in Nat /\ \A i \in 1 .. Len(g.asked) : g.asked[i] \in Intent
    BY <1>2
  <2>2. DOMAIN asked = 1 .. Len(g.asked) /\ \A i \in 1 .. Len(g.asked) : asked[i] \in Intent
    BY <1>2, <2>1
  <2>3. asked \in [1 .. Len(g.asked) -> Intent]
    BY <1>2, <2>1
  <2>4. asked \in Seq(Intent) /\ Len(asked) = Len(g.asked)
    <3> HIDE DEF asked
    <3>1. asked \in Seq(Intent)
      BY <2>1, <2>3, SeqDef
    <3> QED BY <2>1, <2>2, <3>1, LenProperties
  <2> QED BY <2>1, <2>4
<1> HIDE DEF asked
<1>4. /\ h \in Gateways /\ Elsewhere(g, h) /\ h.asked = asked /\ h.mood = g.mood
      /\ h.crossed = g.crossed /\ h.gone = g.gone /\ h.detaching = g.detaching
      /\ h.opened = g.opened /\ h.solicited = g.solicited /\ h.unsolicited = g.unsolicited
      /\ h.wire = g.wire /\ h.pending = g.pending
  BY <1>3 DEF Gateways, Elsewhere
<1> HIDE DEF h
<1>5. Sent(h) = Sent(g) /\ h.attached = g.attached
  BY <1>4 DEF Sent, Elsewhere
<1>6. ASSUME NEW q, Answers(g.asked, q) PROVE Answers(asked, q)
  <2>1. ASSUME Matches(g.asked, q) PROVE Matches(asked, q)
    BY <1>3, <2>1 DEF Matches
  <2> QED BY <1>3, <1>6, <2>1 DEF Answers
<1>7. Sends(g, h)
  BY <1>4, <1>5, <1>6 DEF Sends, Keeps, Guarded, Paired
<1> QED BY <1>1, <1>4, <1>7, ElsewhereHandles DEF Elsewhere

LEMMA FinishHandles ==
  ASSUME NEW g \in Gateways, NEW p \in Pane, NEW walk \in BOOLEAN
  PROVE  LET h == FinishPaneBootstrap(g, p, walk) IN h \in Gateways /\ Handles(g, h)
<1> DEFINE live == [g EXCEPT !.gate[p] = "live", !.backlog[p] = <<>>]
           e == [do |-> "Output", pane |-> p, draw |-> "tail", bytes |-> g.backlog[p], walk |-> walk]
<1>1. /\ live \in Gateways /\ live.out = g.out /\ live.windows = g.windows
      /\ live.attached = g.attached /\ live.mood = g.mood
      /\ live.crossed = g.crossed /\ live.gone = g.gone /\ live.detaching = g.detaching
      /\ live.opened = g.opened /\ live.solicited = g.solicited /\ live.unsolicited = g.unsolicited
      /\ live.asked = g.asked /\ live.wire = g.wire /\ live.pending = g.pending
  <2>1. <<>> \in Bytes
    BY DEF Bytes
  <2> QED BY <2>1 DEF Gateways
<1>2. e \in Event /\ e.do = "Output"
  <2>1. g.backlog[p] \in Bytes
    BY DEF Gateways
  <2> QED BY <2>1 DEF Event
<1>3. FinishPaneBootstrap(g, p, walk) \in {g, live, Emit(live, e)}
  BY DEF FinishPaneBootstrap
<1> HIDE DEF live, e
<1>4. Sends(g, live)
  BY <1>1, QuietSends
<1>5. Handles(g, live)
  BY <1>1, <1>4, QuietHandles DEF Known
<1>6. Emit(live, e) \in Gateways /\ Handles(live, Emit(live, e))
  BY <1>1, <1>2, EmitHandles
<1> QED BY <1>1, <1>3, <1>5, <1>6, HandlesOn, HandlesNot

LEMMA SwitchActivePaneHandles ==
  ASSUME NEW g \in Gateways, NEW w \in Window, NEW p \in Pane
  PROVE  LET h == SwitchActivePane(g, w, p) IN h \in Gateways /\ Handles(g, h)
<1> DEFINE previous == g.windows[w]
           gated == previous # None /\ g.gate[previous] # "none"
           gate == IF gated THEN [g.gate EXCEPT ![previous] = "none"] ELSE g.gate
           ahead == IF previous = None THEN g.ahead \cup {w} ELSE g.ahead
           put == [g EXCEPT !.windows[w] = p, !.ahead = ahead, !.gate = gate]
           e == [do |-> "WindowPaneChanged", window |-> w, pane |-> p]
           moved == Emit(put, e)
<1>1. SwitchActivePane(g, w, p) \in {g, moved, AttachWindow(moved, w, p)}
  BY DEF SwitchActivePane
<1>2. gate \in [Pane -> {"none", "asked", "captured", "live"}] /\ ahead \in SUBSET Window
  BY DEF Gateways
<1> HIDE DEF gate, ahead
<1>3. /\ put \in Gateways /\ put.out = g.out /\ put.windows = [g.windows EXCEPT ![w] = p]
      /\ put.attached = g.attached /\ put.mood = g.mood
      /\ put.crossed = g.crossed /\ put.gone = g.gone /\ put.detaching = g.detaching
      /\ put.opened = g.opened /\ put.solicited = g.solicited /\ put.unsolicited = g.unsolicited
      /\ put.asked = g.asked /\ put.wire = g.wire /\ put.pending = g.pending
  BY <1>2 DEF Gateways
<1>4. e \in Event /\ e.do = "WindowPaneChanged"
  BY DEF Event
<1> HIDE DEF put, e
<1>5. Sends(g, put)
  BY <1>3, QuietSends
<1>6. p # None /\ g.windows \in [Window -> Pane \cup {None}]
  BY GatewayAssumption DEF Pane, None, Gateways
<1>7. Known(g) \subseteq Known(put)
  BY <1>3, <1>6 DEF Known
<1>8. Handles(g, put)
  BY <1>3, <1>5, <1>7, QuietHandles
<1>9. moved \in Gateways /\ Handles(put, moved)
  BY <1>3, <1>4, EmitHandles
<1> HIDE DEF moved
<1>10. AttachWindow(moved, w, p) \in Gateways /\ Handles(moved, AttachWindow(moved, w, p))
  <2> DEFINE h == AttachWindow(moved, w, p)
  <2>1. /\ h \in Gateways /\ Sends(moved, h) /\ h.out = moved.out /\ h.attached = moved.attached
        /\ Known(h) = Known(moved) \cup {w}
    BY <1>9, AttachWindowHandles
  <2> HIDE DEF h
  <2>2. Handles(moved, h)
    BY <1>9, <2>1, QuietHandles
  <2> QED BY <2>1, <2>2 DEF h
<1> QED BY <1>1, <1>8, <1>9, <1>10, HandlesOn, HandlesNot

LEMMA BootstrapHandles ==
  ASSUME NEW g \in Gateways
  PROVE  Bootstrap(g) \in Gateways /\ Handles(g, Bootstrap(g))
<1> DEFINE put == [g EXCEPT !.bootstrapped = TRUE]
           ask == Ask("WindowNames", None)
<1>1. Bootstrap(g) \in {g, Query(put, ask)}
  BY DEF Bootstrap
<1>2. /\ put \in Gateways /\ put.out = g.out /\ put.windows = g.windows
      /\ put.attached = g.attached /\ put.mood = g.mood
      /\ put.crossed = g.crossed /\ put.gone = g.gone /\ put.detaching = g.detaching
      /\ put.opened = g.opened /\ put.solicited = g.solicited /\ put.unsolicited = g.unsolicited
      /\ put.asked = g.asked /\ put.wire = g.wire /\ put.pending = g.pending
  BY DEF Gateways
<1>3. ask \in Intent
  BY DEF Ask, Intent
<1> HIDE DEF put, ask
<1>4. Sends(g, put)
  BY <1>2, QuietSends
<1>5. Handles(g, put)
  BY <1>2, <1>4, QuietHandles DEF Known
<1>6. Query(put, ask) \in Gateways /\ Handles(put, Query(put, ask))
  BY <1>2, <1>3, QuerySends, ElsewhereHandles
<1> QED BY <1>1, <1>5, <1>6, HandlesOn, HandlesNot

\* A window of a listing enters the books, and no other leaves them.
LEMMA AnnounceFacts ==
  ASSUME NEW g \in Gateways, NEW w \in Window, NEW p \in Pane \cup {None}, NEW slot \in Slot \cup {None}
  PROVE  LET h == Announce(g, w, p, slot)
         IN  /\ h \in Gateways /\ Sends(g, h) /\ h.out = g.out /\ h.attached = g.attached
             /\ h.windows = [g.windows EXCEPT ![w] = p]
<1> DEFINE put == [g EXCEPT !.windows[w] = p, !.channels[w] = IF slot = None THEN @ ELSE slot]
           h == WindowSize(put, w)
<1>1. Announce(g, w, p, slot) = h
  BY DEF Announce
<1>2. /\ put \in Gateways /\ put.out = g.out /\ put.windows = [g.windows EXCEPT ![w] = p]
      /\ put.attached = g.attached /\ put.mood = g.mood
      /\ put.crossed = g.crossed /\ put.gone = g.gone /\ put.detaching = g.detaching
      /\ put.opened = g.opened /\ put.solicited = g.solicited /\ put.unsolicited = g.unsolicited
      /\ put.asked = g.asked /\ put.wire = g.wire /\ put.pending = g.pending
  <2>1. (IF slot = None THEN g.channels[w] ELSE slot) \in Slot \cup {None}
    BY DEF Gateways
  <2> QED BY <2>1 DEF Gateways
<1> HIDE DEF put
<1>3. Sends(g, put)
  BY <1>2, QuietSends
<1>4. h \in Gateways /\ Sends(put, h) /\ Elsewhere(put, h)
  BY <1>2, WindowSizeSends
<1> HIDE DEF h
<1>5. Sends(g, h)
  BY <1>3, <1>4, SendsOn
<1> QED BY <1>1, <1>2, <1>4, <1>5 DEF Elsewhere

\* The windows of a listing that are booked, and they only.
LEMMA BookedFacts ==
  ASSUME NEW g \in Gateways, NEW listed \in Listing, NEW W \in SUBSET Window
  PROVE  LET h == Booked(g, listed, W)
         IN  /\ h \in Gateways /\ Sends(g, h) /\ h.out = g.out /\ h.attached = g.attached
             /\ \A w \in Window : h.windows[w] = IF w \in W THEN listed.active[w] ELSE g.windows[w]
<1> DEFINE n == Windows
           s == [w \in Window |-> w]
           T == {h \in Gateways : Sends(g, h) /\ h.out = g.out /\ h.attached = g.attached}
           G == [p \in (1 .. n) \X T |-> IF p[1] \in W THEN Announce(p[2], p[1], listed.active[p[1]], listed.channel[p[1]]) ELSE p[2]]
           Fold(it) == it = [S \in SUBSET DOMAIN s |->
                               IF S = {} THEN g
                               ELSE IF s[Max(S)] \in W THEN Announce(it[S \ {Max(S)}], s[Max(S)], listed.active[s[Max(S)]], listed.channel[s[Max(S)]])
                                    ELSE it[S \ {Max(S)}]]
           it == CHOOSE it : it = [S \in SUBSET DOMAIN s |->
                               IF S = {} THEN g
                               ELSE IF s[Max(S)] \in W THEN Announce(it[S \ {Max(S)}], s[Max(S)], listed.active[s[Max(S)]], listed.channel[s[Max(S)]])
                                    ELSE it[S \ {Max(S)}]]
<1>1. n \in Nat /\ DOMAIN s = 1 .. n /\ \A k \in 1 .. n : s[k] = k /\ k \in Window
  BY GatewayAssumption DEF Window
<1>2. Booked(g, listed, W) = it[DOMAIN s]
  BY DEF Booked, EachWindow, FoldLeft, MapThenFoldSet
<1>3. g \in T
  BY QuietSends
<1>0. ASSUME NEW k \in Window, NEW v \in T
      PROVE  LET h == Announce(v, k, listed.active[k], listed.channel[k])
             IN  h \in T /\ h.windows = [v.windows EXCEPT ![k] = listed.active[k]]
  <2>1. listed.active[k] \in Pane \cup {None} /\ listed.channel[k] \in Slot \cup {None}
    BY DEF Listing
  <2> QED BY <2>1, AnnounceFacts, SendsOn
<1>4. ASSUME NEW k \in 1 .. n, NEW v \in T
      PROVE  /\ G[<<k, v>>] = (IF s[k] \in W THEN Announce(v, s[k], listed.active[s[k]], listed.channel[s[k]]) ELSE v)
             /\ G[<<k, v>>] \in T
             /\ G[<<k, v>>].windows = IF k \in W THEN [v.windows EXCEPT ![k] = listed.active[k]] ELSE v.windows
  <2>1. k \in Window /\ s[k] = k
    BY <1>1
  <2>2. LET h == Announce(v, k, listed.active[k], listed.channel[k])
        IN  h \in T /\ h.windows = [v.windows EXCEPT ![k] = listed.active[k]]
    BY <1>0, <2>1
  <2> HIDE DEF T
  <2> QED BY <2>1, <2>2
<1> HIDE DEF T, G, n
<1>5. PICK f \in [SUBSET (1 .. n) -> T] : Folding(n, g, G, f)
  BY <1>1, <1>3, <1>4, FoldExists
<1>6. ASSUME NEW S \in SUBSET (1 .. n), S # {} PROVE Max(S) \in 1 .. n /\ S \ {Max(S)} \in SUBSET (1 .. n)
  BY <1>1, <1>6, MaxOfPositions
<1> HIDE DEF s
<1>7. Fold(f)
  <2>1. ASSUME NEW S \in SUBSET (1 .. n), S # {}
        PROVE  G[<<Max(S), f[S \ {Max(S)}]>>] =
                 (IF s[Max(S)] \in W THEN Announce(f[S \ {Max(S)}], s[Max(S)], listed.active[s[Max(S)]], listed.channel[s[Max(S)]])
                  ELSE f[S \ {Max(S)}])
    <3>1. Max(S) \in 1 .. n /\ S \ {Max(S)} \in SUBSET (1 .. n)
      BY <1>6, <2>1
    <3> QED BY <1>4, <3>1
  <2> QED BY <1>1, <1>5, <2>1 DEF Folding
<1>8. Fold(it)
  BY <1>7
<1> HIDE DEF it
<1>9. it[{}] = g
  BY <1>8
<1>10. Steps(n, T, g, G, it)
  <2> SUFFICES ASSUME NEW S \in SUBSET (1 .. n), S # {}, it[S \ {Max(S)}] \in T
               PROVE  it[S] = G[<<Max(S), it[S \ {Max(S)}]>>]
    BY <1>1, <1>3, <1>4, <1>9 DEF Steps
  <2>1. Max(S) \in 1 .. n
    BY <1>6
  <2>2. it[S] = IF s[Max(S)] \in W THEN Announce(it[S \ {Max(S)}], s[Max(S)], listed.active[s[Max(S)]], listed.channel[s[Max(S)]])
                ELSE it[S \ {Max(S)}]
    BY <1>1, <1>8
  <2> QED BY <1>4, <2>1, <2>2
<1>11. Walks(n, T, g, G, it[1 .. n])
  BY <1>10, FoldWalks
<1>12. PICK h \in [0 .. n -> T] : h[0] = g /\ h[n] = it[1 .. n] /\ \A k \in 1 .. n : h[k] = G[<<k, h[k - 1]>>]
  BY <1>11 DEF Walks
<1> DEFINE B == {k \in 0 .. n : \A w \in Window :
                   h[k].windows[w] = IF w \in W /\ w <= k THEN listed.active[w] ELSE g.windows[w]}
<1>13. 0 \in B
  BY <1>1, <1>12 DEF Window
<1>14. ASSUME NEW k \in 1 .. n, k - 1 \in B PROVE k \in B
  <2>1. k - 1 \in 0 .. n /\ k \in 0 .. n /\ k \in Window
    BY <1>1
  <2>2. h[k - 1] \in T /\ h[k] = G[<<k, h[k - 1]>>]
    BY <1>12, <2>1
  <2>3. h[k].windows = IF k \in W THEN [h[k - 1].windows EXCEPT ![k] = listed.active[k]] ELSE h[k - 1].windows
    BY <1>4, <2>2
  <2>4. DOMAIN h[k - 1].windows = Window
    BY <2>2 DEF T, Gateways
  <2>5. \A w \in Window : h[k - 1].windows[w] = IF w \in W /\ w <= k - 1 THEN listed.active[w] ELSE g.windows[w]
    BY <1>14
  <2>6. ASSUME NEW w \in Window
        PROVE  h[k].windows[w] = IF w \in W /\ w <= k THEN listed.active[w] ELSE g.windows[w]
    <3>1. w \in Nat /\ (w # k => (w <= k <=> w <= k - 1))
      BY <1>1 DEF Window
    <3>2. k \in Nat
      BY <1>1
    <3> QED BY <2>3, <2>4, <2>5, <3>1, <3>2
  <2> QED BY <2>1, <2>6
<1> HIDE DEF B
<1>15. \A k \in 0 .. n : k \in B
  BY <1>1, <1>13, <1>14, StepByStep
<1>16. n \in B /\ h[n] \in T /\ h[n] = Booked(g, listed, W) /\ \A w \in Window : w <= n
  BY <1>1, <1>2, <1>12, <1>15 DEF Window, n
<1> QED BY <1>16 DEF B, T

\* What the surface is told of a window listed.
Tidings(listed, w) ==
  [do |-> "WindowAdded", window |-> w, pane |-> listed.active[w], slot |-> listed.channel[w]]

LEMMA AddedFacts ==
  ASSUME NEW g \in Gateways, NEW listed \in Listing, NEW W \in SUBSET {w \in Window : listed.active[w] # None}
  PROVE  LET h == Added(g, listed, W)
         IN  /\ h \in Gateways /\ Sends(g, h) /\ h.attached = g.attached /\ h.windows = g.windows
             /\ \A K : \A L \in SUBSET Window :
                  L \cap W = {} /\ Trace(g.out, K, L) /\ EndTold(g) => Trace(h.out, K, L \cup W) /\ EndTold(h)
<1> DEFINE n == Windows
           s == [w \in Window |-> w]
           T == {h \in Gateways : Sends(g, h) /\ h.attached = g.attached /\ h.windows = g.windows}
           G == [p \in (1 .. n) \X T |-> IF p[1] \in W THEN Emit(p[2], Tidings(listed, p[1])) ELSE p[2]]
           Fold(it) == it = [S \in SUBSET DOMAIN s |->
                               IF S = {} THEN g
                               ELSE IF s[Max(S)] \in W THEN Emit(it[S \ {Max(S)}], Tidings(listed, s[Max(S)]))
                                    ELSE it[S \ {Max(S)}]]
           it == CHOOSE it : it = [S \in SUBSET DOMAIN s |->
                               IF S = {} THEN g
                               ELSE IF s[Max(S)] \in W THEN Emit(it[S \ {Max(S)}], Tidings(listed, s[Max(S)]))
                                    ELSE it[S \ {Max(S)}]]
<1>1. n \in Nat /\ DOMAIN s = 1 .. n /\ \A k \in 1 .. n : s[k] = k /\ k \in Window
  BY GatewayAssumption DEF Window
<1>2. Added(g, listed, W) = it[DOMAIN s]
  BY DEF Added, EachWindow, FoldLeft, MapThenFoldSet, Tidings
<1>3. g \in T
  BY QuietSends
<1>0. ASSUME NEW k \in W, NEW v \in T
      PROVE  LET h == Emit(v, Tidings(listed, k))
             IN  h \in T /\ h.out = Append(v.out, Tidings(listed, k)) /\ Tidings(listed, k) \in Event
  <2>1. Tidings(listed, k) \in Event
    BY DEF Listing, Event, Tidings
  <2> QED BY <2>1, EmitFacts, SendsOn
<1>4. ASSUME NEW k \in 1 .. n, NEW v \in T
      PROVE  /\ G[<<k, v>>] = (IF s[k] \in W THEN Emit(v, Tidings(listed, s[k])) ELSE v)
             /\ G[<<k, v>>] \in T
             /\ G[<<k, v>>].out = IF k \in W THEN Append(v.out, Tidings(listed, k)) ELSE v.out
  <2>1. k \in Window /\ s[k] = k
    BY <1>1
  <2>2. k \in W => LET h == Emit(v, Tidings(listed, k)) IN h \in T /\ h.out = Append(v.out, Tidings(listed, k))
    BY <1>0
  <2> HIDE DEF T
  <2> QED BY <2>1, <2>2
<1> HIDE DEF T, G, n
<1>5. PICK f \in [SUBSET (1 .. n) -> T] : Folding(n, g, G, f)
  BY <1>1, <1>3, <1>4, FoldExists
<1>6. ASSUME NEW S \in SUBSET (1 .. n), S # {} PROVE Max(S) \in 1 .. n /\ S \ {Max(S)} \in SUBSET (1 .. n)
  BY <1>1, <1>6, MaxOfPositions
<1> HIDE DEF s
<1>7. Fold(f)
  <2>1. ASSUME NEW S \in SUBSET (1 .. n), S # {}
        PROVE  G[<<Max(S), f[S \ {Max(S)}]>>] =
                 (IF s[Max(S)] \in W THEN Emit(f[S \ {Max(S)}], Tidings(listed, s[Max(S)]))
                  ELSE f[S \ {Max(S)}])
    <3>1. Max(S) \in 1 .. n /\ S \ {Max(S)} \in SUBSET (1 .. n)
      BY <1>6, <2>1
    <3> QED BY <1>4, <3>1
  <2> QED BY <1>1, <1>5, <2>1 DEF Folding
<1>8. Fold(it)
  BY <1>7
<1> HIDE DEF it
<1>9. it[{}] = g
  BY <1>8
<1>10. Steps(n, T, g, G, it)
  <2> SUFFICES ASSUME NEW S \in SUBSET (1 .. n), S # {}, it[S \ {Max(S)}] \in T
               PROVE  it[S] = G[<<Max(S), it[S \ {Max(S)}]>>]
    BY <1>1, <1>3, <1>4, <1>9 DEF Steps
  <2>1. Max(S) \in 1 .. n
    BY <1>6
  <2>2. it[S] = IF s[Max(S)] \in W THEN Emit(it[S \ {Max(S)}], Tidings(listed, s[Max(S)]))
                ELSE it[S \ {Max(S)}]
    BY <1>1, <1>8
  <2>3. G[<<Max(S), it[S \ {Max(S)}]>>] = (IF s[Max(S)] \in W THEN Emit(it[S \ {Max(S)}], Tidings(listed, s[Max(S)]))
                                           ELSE it[S \ {Max(S)}])
    BY <1>4, <2>1
  <2> QED BY <2>2, <2>3
<1>11. Walks(n, T, g, G, it[1 .. n])
  BY <1>10, FoldWalks
<1>12. PICK h \in [0 .. n -> T] : h[0] = g /\ h[n] = it[1 .. n] /\ \A k \in 1 .. n : h[k] = G[<<k, h[k - 1]>>]
  BY <1>11 DEF Walks
<1>18. \A w \in W : w \in Nat /\ ~(w <= 0) /\ w <= n
  BY GatewayAssumption DEF Window, n
<1>13. ASSUME NEW K, NEW L \in SUBSET Window, L \cap W = {}, Trace(g.out, K, L), EndTold(g)
       PROVE  Trace(h[n].out, K, L \cup W) /\ EndTold(h[n])
  <2> DEFINE M(k) == L \cup {w \in W : w <= k}
             B == {k \in 0 .. n : Trace(h[k].out, K, M(k)) /\ EndTold(h[k])}
  <2>1. 0 \in B
    <3>1. M(0) = L
      BY <1>18
    <3>2. 0 \in 0 .. n
      BY <1>1
    <3> HIDE DEF M
    <3> QED BY <1>12, <1>13, <3>1, <3>2
  <2>2. ASSUME NEW k \in 1 .. n, k - 1 \in B PROVE k \in B
    <3>1. k - 1 \in 0 .. n /\ k \in 0 .. n /\ k \in Window
      BY <1>1
    <3>2. h[k - 1] \in T /\ h[k] \in T /\ h[k] = G[<<k, h[k - 1]>>]
      BY <1>12, <3>1
    <3>3. h[k].out = IF k \in W THEN Append(h[k - 1].out, Tidings(listed, k)) ELSE h[k - 1].out
      BY <1>4, <3>2
    <3>4. Trace(h[k - 1].out, K, M(k - 1)) /\ EndTold(h[k - 1])
      BY <2>2
    <3>5. h[k - 1].out \in Seq(Event) /\ h[k].attached = h[k - 1].attached
      BY <3>2 DEF T, Gateways
    <3>6. \A w \in W : w \in Nat /\ (w <= k <=> w = k \/ w <= k - 1)
      BY <1>1, <1>18
    <3>7. CASE k \notin W
      <4>1. M(k) = M(k - 1)
        BY <3>6, <3>7
      <4> HIDE DEF M
      <4> QED BY <3>1, <3>3, <3>4, <3>5, <3>7, <4>1 DEF EndTold
    <3>8. CASE k \in W
      <4>1. M(k) = M(k - 1) \cup {k} /\ k \notin M(k - 1)
        <5>1. ~(k <= k - 1)
          BY <1>1
        <5> QED BY <1>13, <3>6, <3>8, <5>1
      <4>2. M(k) \in SUBSET Window /\ M(k - 1) \in SUBSET Window
        OBVIOUS
      <4> HIDE DEF M
      <4>3. Tidings(listed, k) \in Event /\ Tidings(listed, k).do = "WindowAdded"
        BY <1>0, <3>2, <3>8 DEF Tidings
      <4>4. Enters(Tidings(listed, k), M(k - 1), M(k))
        BY <4>1 DEF Enters, Tidings
      <4>5. Trace(h[k].out, K, M(k))
        BY <3>3, <3>4, <3>5, <3>8, <4>2, <4>3, <4>4, TraceMore
      <4>6. EndTold(h[k])
        BY <3>3, <3>4, <3>5, <3>8, <4>3, DetachedMore DEF EndTold
      <4> QED BY <3>1, <4>5, <4>6
    <3> QED BY <3>7, <3>8
  <2> HIDE DEF B
  <2>3. \A k \in 0 .. n : k \in B
    BY <1>1, <2>1, <2>2, StepByStep
  <2>4. n \in B
    BY <1>1, <2>3
  <2>5. M(n) = L \cup W
    BY <1>18
  <2> HIDE DEF M
  <2> QED BY <2>4, <2>5 DEF B
<1>14. h[n] \in T /\ h[n] = Added(g, listed, W)
  BY <1>1, <1>2, <1>12
<1> QED BY <1>13, <1>14 DEF T

LEMMA ReplyListPanesHandles ==
  ASSUME NEW g \in Gateways, NEW listed \in Listing
  PROVE  LET h == ReplyListPanes(g, listed) IN h \in Gateways /\ Handles(g, h)
<1> DEFINE new == News(g, listed)
           seated == {w \in new : listed.channel[w] # None}
           rest == new \ seated
           booked == Booked(g, listed, new)
           some == Added(booked, listed, seated)
           all == Added(some, listed, rest)
<1>1. ReplyListPanes(g, listed) = Bootstrap(all)
  BY DEF ReplyListPanes
<1>2. /\ new \in SUBSET {w \in Window : listed.active[w] # None} /\ new \in SUBSET Window
      /\ new \cap Known(g) = {}
  BY DEF News, Known
<1>3. /\ seated \in SUBSET {w \in Window : listed.active[w] # None}
      /\ rest \in SUBSET {w \in Window : listed.active[w] # None}
      /\ seated \cup rest = new /\ seated \cap rest = {}
  BY <1>2
<1> HIDE DEF new, seated, rest
<1>4. /\ booked \in Gateways /\ Sends(g, booked) /\ booked.out = g.out /\ booked.attached = g.attached
      /\ \A w \in Window : booked.windows[w] = IF w \in new THEN listed.active[w] ELSE g.windows[w]
  BY <1>2, BookedFacts
<1>5. Known(booked) = Known(g) \cup new
  BY <1>2, <1>4 DEF Known
<1> HIDE DEF booked
<1>6. ASSUME NEW K, Told(g, K)
      PROVE  all \in Gateways /\ Sends(booked, all) /\ Told(all, K)
  <2>1. PICK L \in SUBSET Known(g) : Trace(g.out, K, L)
    BY <1>6 DEF Told
  <2>2. EndTold(booked)
    BY <1>4, <1>6 DEF Told, EndTold
  <2>3. L \in SUBSET Window /\ L \cap seated = {} /\ L \cup seated \in SUBSET Window /\ (L \cup seated) \cap rest = {}
    BY <1>2, <1>3, <2>1 DEF Known
  <2>4. /\ some \in Gateways /\ Sends(booked, some) /\ some.attached = booked.attached
        /\ some.windows = booked.windows /\ Trace(some.out, K, L \cup seated)
        /\ EndTold(some)
    BY <1>3, <1>4, <2>1, <2>2, <2>3, AddedFacts
  <2> HIDE DEF some
  <2>5. /\ all \in Gateways /\ Sends(some, all) /\ all.attached = some.attached
        /\ all.windows = some.windows /\ Trace(all.out, K, (L \cup seated) \cup rest)
        /\ EndTold(all)
    BY <1>3, <2>3, <2>4, AddedFacts
  <2> HIDE DEF all
  <2>6. (L \cup seated) \cup rest \in SUBSET Known(all)
    <3>1. Known(all) = Known(booked)
      BY <2>4, <2>5 DEF Known
    <3> QED BY <1>3, <1>5, <2>1, <3>1
  <2> QED BY <2>4, <2>5, <2>6, SendsOn DEF Told
<1>7. all \in Gateways /\ Sends(booked, all)
  <2>1. some \in Gateways /\ Sends(booked, some)
    BY <1>3, <1>4, AddedFacts
  <2> HIDE DEF some
  <2>2. all \in Gateways /\ Sends(some, all)
    BY <1>3, <2>1, AddedFacts
  <2> QED BY <2>1, <2>2, SendsOn
<1> HIDE DEF all
<1>8. Handles(g, all)
  BY <1>4, <1>6, <1>7, SendsOn DEF Handles
<1> QED BY <1>1, <1>7, <1>8, BootstrapHandles, HandlesOn

LEMMA ReplyCaptureHandles ==
  ASSUME NEW g \in Gateways, NEW p \in Pane, NEW printed \in Bytes
  PROVE  LET h == ReplyCapture(g, p, printed) IN h \in Gateways /\ Handles(g, h)
<1> DEFINE put == [g EXCEPT !.gate[p] = IF @ = "live" THEN @ ELSE "captured"]
           e == [do |-> "Output", pane |-> p, draw |-> "screen", bytes |-> printed, walk |-> FALSE]
<1>1. ReplyCapture(g, p, printed) \in {g, Emit(put, e)}
  BY DEF ReplyCapture
<1>2. /\ put \in Gateways /\ put.out = g.out /\ put.windows = g.windows
      /\ put.attached = g.attached /\ put.mood = g.mood
      /\ put.crossed = g.crossed /\ put.gone = g.gone /\ put.detaching = g.detaching
      /\ put.opened = g.opened /\ put.solicited = g.solicited /\ put.unsolicited = g.unsolicited
      /\ put.asked = g.asked /\ put.wire = g.wire /\ put.pending = g.pending
  BY DEF Gateways
<1>3. e \in Event /\ e.do = "Output"
  BY DEF Event
<1> HIDE DEF put, e
<1>4. Sends(g, put)
  BY <1>2, QuietSends
<1>5. Handles(g, put)
  BY <1>2, <1>4, QuietHandles DEF Known
<1>6. Emit(put, e) \in Gateways /\ Handles(put, Emit(put, e))
  BY <1>2, <1>3, EmitHandles
<1> QED BY <1>1, <1>5, <1>6, HandlesOn, HandlesNot

\* A reply is read as what it answers, or by none.
LEMMA ReplyHandles ==
  ASSUME NEW g \in Gateways, NEW block \in BlockLine, NEW intent \in Intent, intent \in {block.of, Ignore}
  PROVE  LET h == Reply(g, intent, block) IN h \in Gateways /\ Handles(g, h)
<1> DEFINE what == intent[1]
<1>1. /\ what \in {"Capture", "Cursor"} => intent[2] \in Pane
      /\ what = "LayoutPanes" => intent[2] \in Window
      /\ what \in {"Capture", "Cursor", "LayoutPanes", "ListPanes"} => intent = block.of
  BY DEF Intent, Ignore, Ask
<1>2. ~block.error => /\ what = "ListPanes" => block.body \in Listing
                      /\ what = "Capture" => block.body \in Bytes
                      /\ what = "LayoutPanes" => block.body \in Pane
  BY <1>1 DEF BlockLine
<1> HIDE DEF what
<1>3. CASE block.error /\ what \in {"Capture", "Cursor"}
  <2> DEFINE refused == [g EXCEPT !.refused = TRUE]
             p == intent[2]
             still == NeutraliseCursorIntent(refused, p)
  <2>1. /\ refused \in Gateways /\ refused.out = g.out /\ refused.windows = g.windows
        /\ refused.attached = g.attached /\ refused.mood = g.mood
        /\ refused.crossed = g.crossed /\ refused.gone = g.gone /\ refused.detaching = g.detaching
        /\ refused.opened = g.opened /\ refused.solicited = g.solicited /\ refused.unsolicited = g.unsolicited
        /\ refused.asked = g.asked /\ refused.wire = g.wire /\ refused.pending = g.pending
    BY DEF Gateways
  <2>2. Reply(g, intent, block) = FinishPaneBootstrap(still, p, FALSE)
    BY <1>3 DEF Reply, what
  <2>3. p \in Pane
    BY <1>1, <1>3
  <2> HIDE DEF refused, p
  <2>4. Sends(g, refused)
    BY <2>1, QuietSends
  <2>5. Handles(g, refused)
    BY <2>1, <2>4, QuietHandles DEF Known
  <2>6. still \in Gateways /\ Handles(refused, still)
    BY <2>1, NeutraliseHandles
  <2>7. FinishPaneBootstrap(still, p, FALSE) \in Gateways /\ Handles(still, FinishPaneBootstrap(still, p, FALSE))
    BY <2>3, <2>6, FinishHandles
  <2> QED BY <2>2, <2>5, <2>6, <2>7, HandlesOn
<1>4. CASE ~block.error /\ what = "ListPanes"
  <2>1. Reply(g, intent, block) = ReplyListPanes(g, block.body)
    BY <1>4 DEF Reply, what
  <2> QED BY <1>2, <1>4, <2>1, ReplyListPanesHandles
<1>5. CASE ~block.error /\ what = "Capture"
  <2>1. Reply(g, intent, block) = ReplyCapture(g, intent[2], block.body)
    BY <1>5 DEF Reply, what
  <2> QED BY <1>1, <1>2, <1>5, <2>1, ReplyCaptureHandles
<1>6. CASE ~block.error /\ what = "Cursor"
  <2>1. Reply(g, intent, block) = FinishPaneBootstrap(g, intent[2], TRUE)
    BY <1>6 DEF Reply, what
  <2> QED BY <1>1, <1>6, <2>1, FinishHandles
<1>7. CASE ~block.error /\ what = "LayoutPanes"
  <2>1. Reply(g, intent, block) = SwitchActivePane(g, intent[2], block.body)
    BY <1>7 DEF Reply, what
  <2> QED BY <1>1, <1>2, <1>7, <2>1, SwitchActivePaneHandles
<1>8. CASE ~(\/ block.error /\ what \in {"Capture", "Cursor"}
             \/ ~block.error /\ what \in {"ListPanes", "Capture", "Cursor", "LayoutPanes"})
  <2>1. Reply(g, intent, block) = g
    BY <1>8 DEF Reply, what
  <2> QED BY <2>1, HandlesNot
<1> QED BY <1>3, <1>4, <1>5, <1>6, <1>7, <1>8

LEMMA OutputHandles ==
  ASSUME NEW g \in Gateways, NEW p \in Pane, NEW byte \in Pane \X Nat
  PROVE  LET h == Output(g, p, byte) IN h \in Gateways /\ Handles(g, h)
<1> DEFINE bytes == Append(g.backlog[p], byte)
           banked == [g EXCEPT !.backlog[p] = bytes]
           still == NeutraliseCursorIntent(banked, p)
           e == [do |-> "Output", pane |-> p, draw |-> "tail", bytes |-> <<byte>>, walk |-> FALSE]
<1>1. Output(g, p, byte) \in {g, banked, FinishPaneBootstrap(still, p, FALSE), Emit(g, e)}
  <2>1. g.gate[p] \in {"none", "asked", "captured", "live"}
    BY DEF Gateways
  <2> QED BY <2>1 DEF Output
<1>2. bytes \in Bytes
  BY AppendProperties DEF Gateways, Bytes
<1>3. e \in Event /\ e.do = "Output"
  <2>1. <<byte>> \in Bytes
    BY DEF Bytes
  <2> QED BY <2>1 DEF Event
<1> HIDE DEF bytes, e
<1>4. /\ banked \in Gateways /\ banked.out = g.out /\ banked.windows = g.windows
      /\ banked.attached = g.attached /\ banked.mood = g.mood
      /\ banked.crossed = g.crossed /\ banked.gone = g.gone /\ banked.detaching = g.detaching
      /\ banked.opened = g.opened /\ banked.solicited = g.solicited /\ banked.unsolicited = g.unsolicited
      /\ banked.asked = g.asked /\ banked.wire = g.wire /\ banked.pending = g.pending
  BY <1>2 DEF Gateways
<1> HIDE DEF banked
<1>5. Sends(g, banked)
  BY <1>4, QuietSends
<1>6. Handles(g, banked)
  BY <1>4, <1>5, QuietHandles DEF Known
<1>7. still \in Gateways /\ Handles(banked, still)
  BY <1>4, NeutraliseHandles
<1>8. FinishPaneBootstrap(still, p, FALSE) \in Gateways /\ Handles(still, FinishPaneBootstrap(still, p, FALSE))
  BY <1>7, FinishHandles
<1>9. Emit(g, e) \in Gateways /\ Handles(g, Emit(g, e))
  BY <1>3, EmitHandles
<1> HIDE DEF still
<1>10. Handles(g, FinishPaneBootstrap(still, p, FALSE))
  BY <1>6, <1>7, <1>8, HandlesOn
<1> QED BY <1>1, <1>4, <1>6, <1>8, <1>9, <1>10, HandlesNot

LEMMA WindowCloseHandles ==
  ASSUME NEW g \in Gateways, NEW w \in Window
  PROVE  LET h == WindowClose(g, w) IN h \in Gateways /\ Handles(g, h)
<1> DEFINE p == g.windows[w]
           gate == IF p = None THEN g.gate ELSE [g.gate EXCEPT ![p] = "none"]
           put == [g EXCEPT !.windows[w] = None, !.gate = gate, !.channels[w] = None]
           e == [do |-> "WindowClosed", window |-> w]
           h == Emit(put, e)
<1>1. WindowClose(g, w) = h
  BY DEF WindowClose
<1>2. gate \in [Pane -> {"none", "asked", "captured", "live"}]
  BY DEF Gateways
<1> HIDE DEF gate
<1>3. /\ put \in Gateways /\ put.out = g.out /\ put.windows = [g.windows EXCEPT ![w] = None]
      /\ put.attached = g.attached /\ put.mood = g.mood
      /\ put.crossed = g.crossed /\ put.gone = g.gone /\ put.detaching = g.detaching
      /\ put.opened = g.opened /\ put.solicited = g.solicited /\ put.unsolicited = g.unsolicited
      /\ put.asked = g.asked /\ put.wire = g.wire /\ put.pending = g.pending
  BY <1>2 DEF Gateways
<1>4. e \in Event /\ e.do = "WindowClosed" /\ e.window = w
  BY DEF Event
<1> HIDE DEF put, e
<1>5. /\ h \in Gateways /\ Sends(put, h) /\ h.out = Append(put.out, e) /\ h.attached = put.attached
      /\ h.windows = put.windows
  BY <1>3, <1>4, EmitFacts
<1> HIDE DEF h
<1>6. Sends(g, h)
  BY <1>3, <1>5, QuietSends, SendsOn
<1>7. ASSUME NEW K, Told(g, K) PROVE Told(h, K)
  <2>1. PICK L \in SUBSET Known(g) : Trace(g.out, K, L)
    BY <1>7 DEF Told
  <2>2. L \ {w} \in SUBSET Known(h)
    <3>1. DOMAIN g.windows = Window
      BY DEF Gateways
    <3> QED BY <1>3, <1>5, <2>1, <3>1 DEF Known
  <2>3. Enters(e, L, L \ {w})
    BY <1>4 DEF Enters
  <2> QED BY <1>3, <1>4, <1>5, <1>7, <2>1, <2>2, <2>3, ToldMore DEF Told
<1> QED BY <1>1, <1>5, <1>6, <1>7 DEF Handles

LEMMA WindowNotificationHandles ==
  ASSUME NEW g \in Gateways, NEW n \in Notice,
         n.line \in {"WindowAdd", "WindowPaneChanged", "WindowClose", "LayoutChange"}
  PROVE  LET h == WindowNotification(g, n) IN h \in Gateways /\ Handles(g, h)
<1>1. CASE n.line = "WindowAdd"
  <2>1. WindowNotification(g, n) = Query(g, Ask("ListPanes", None)) /\ Ask("ListPanes", None) \in Intent
    BY <1>1 DEF WindowNotification, Ask, Intent
  <2> QED BY <2>1, QuerySends, ElsewhereHandles
<1>2. CASE n.line = "WindowPaneChanged"
  <2>1. WindowNotification(g, n) = SwitchActivePane(g, n.of[1], n.of[2]) /\ n.of[1] \in Window /\ n.of[2] \in Pane
    BY <1>2 DEF WindowNotification, Notice
  <2> QED BY <2>1, SwitchActivePaneHandles
<1>3. CASE n.line = "WindowClose"
  <2>1. WindowNotification(g, n) = WindowClose(g, n.of) /\ n.of \in Window
    BY <1>3 DEF WindowNotification, Notice
  <2> QED BY <2>1, WindowCloseHandles
<1>4. CASE n.line = "LayoutChange"
  <2>1. n.of \in Window
    BY <1>4 DEF Notice
  <2>2. WindowNotification(g, n) \in {g, Query(g, Ask("LayoutPanes", n.of))} /\ Ask("LayoutPanes", n.of) \in Intent
    BY <1>4, <2>1 DEF WindowNotification, Ask, Intent
  <2> QED BY <2>2, QuerySends, ElsewhereHandles, HandlesNot
<1> QED BY <1>1, <1>2, <1>3, <1>4

\* What is due before a line is read, of what is due after it.
Due(l, due) == IF l.line = "Block" /\ l.flagged THEN <<l.of>> \o due ELSE due

\* What reading a line does: it takes no more than the reply it is, and
\* nothing but an unasked for one makes the server suspect.
Hears(g, h, l) ==
  /\ (h.attached => g.attached) /\ h.mood = g.mood /\ h.gone = g.gone /\ h.detaching = g.detaching
  /\ Guarded(g, h, "SendKeys") /\ Guarded(g, h, "DetachClient")
  /\ \A K : Told(g, K) => Told(h, K)
  /\ h.opened => g.opened \/ l.line = "SessionChanged"
  /\ ~(l.line = "Block" /\ l.flagged) => h.crossed = g.crossed
  /\ h.unsolicited => g.unsolicited \/ l.line = "Block"
  /\ \A due \in Seq(Question) : Paired(g, Due(l, due)) =>
       /\ Paired(h, due)
       /\ Shedding \/ h.crossed = g.crossed
       /\ h.unsolicited => g.unsolicited \/ (g.opened /\ l.line = "Block" /\ ~l.flagged)

\* A line that is no reply, and changes nothing but what a handler may.
LEMMA HandlesHears ==
  ASSUME NEW g, NEW h, NEW l, Handles(g, h), ~(l.line = "Block" /\ l.flagged)
  PROVE  Hears(g, h, l)
BY DEF Handles, Sends, Keeps, Hears, Due

\* The reply to the question that has waited longest.
LEMMA PairedBlockHears ==
  ASSUME NEW g \in Gateways, NEW l \in BlockLine, g.attached, l.flagged, g.asked # <<>>
  PROVE  Block(g, l) \in Gateways /\ Hears(g, Block(g, l), l)
<1> DEFINE asked == Tail(g.asked)
           intent == Head(g.asked)
           paired == [g EXCEPT !.asked = asked, !.solicited = TRUE]
           crossed == [paired EXCEPT !.crossed = TRUE]
           h == Block(g, l)
<1>1. g.asked \in Seq(Intent) /\ asked \in Seq(Intent) /\ intent \in Intent
  BY HeadTailProperties DEF Gateways
<1>2. h = IF intent \in {l.of, Ignore} THEN Reply(paired, intent, l) ELSE crossed
  BY DEF Block
<1> HIDE DEF asked, intent
<1>3. /\ paired \in Gateways /\ paired.out = g.out /\ paired.windows = g.windows
      /\ paired.attached = g.attached /\ paired.mood = g.mood
      /\ paired.crossed = g.crossed /\ paired.gone = g.gone /\ paired.detaching = g.detaching
      /\ paired.opened = g.opened /\ paired.unsolicited = g.unsolicited
      /\ paired.asked = asked /\ paired.wire = g.wire /\ paired.pending = g.pending
  BY <1>1 DEF Gateways
<1>4. /\ crossed \in Gateways /\ crossed.out = g.out /\ crossed.windows = g.windows
      /\ crossed.attached = g.attached /\ crossed.mood = g.mood
      /\ crossed.gone = g.gone /\ crossed.detaching = g.detaching
      /\ crossed.opened = g.opened /\ crossed.unsolicited = g.unsolicited
      /\ crossed.asked = asked /\ crossed.wire = g.wire /\ crossed.pending = g.pending
  BY <1>1 DEF Gateways
<1>5. l.of \in Question
  BY DEF BlockLine
<1> HIDE DEF paired, crossed, h
<1>6. Sent(paired) = Sent(g) /\ Sent(crossed) = Sent(g)
  BY <1>3, <1>4 DEF Sent
<1>7. (\A K : Told(g, K) => Told(paired, K)) /\ (\A K : Told(g, K) => Told(crossed, K))
  BY <1>3, <1>4 DEF Told, EndTold, Known
<1>8. ASSUME NEW due \in Seq(Question), Paired(g, Due(l, due))
      PROVE  Paired(paired, due) /\ Paired(crossed, due) /\ (Shedding \/ intent \in {l.of, Ignore})
  <2> DEFINE q == (<<l.of>> \o due) \o Sent(g)
  <2>1. Answers(g.asked, q)
    BY <1>8 DEF Paired, Due, BlockLine
  <2>2. Sent(g) \in Seq(Question) /\ <<l.of>> \in Seq(Question)
    BY <1>5, SentType
  <2>3. q = <<l.of>> \o (due \o Sent(g)) /\ due \o Sent(g) \in Seq(Question)
    BY <2>2, Regrouped
  <2>4. q \in Seq(Question) /\ q # <<>> /\ Head(q) = l.of /\ Tail(q) = due \o Sent(g)
    <3> DEFINE r == due \o Sent(g)
    <3>1. q = <<l.of>> \o r /\ r \in Seq(Question)
      BY <2>3
    <3> HIDE DEF q, r
    <3>2. q \in Seq(Question) /\ Len(q) = 1 + Len(r) /\ q[1] = l.of /\ \A i \in 1 .. Len(r) : q[1 + i] = r[i]
      BY <2>2, <3>1, Joined
    <3>3. q # <<>> /\ Len(r) \in Nat
      BY <3>1, <3>2
    <3>4. Head(q) = l.of /\ Tail(q) \in Seq(Question) /\ Len(Tail(q)) = Len(r)
          /\ \A i \in 1 .. Len(r) : Tail(q)[i] = r[i]
      BY <3>2, <3>3, HeadTailProperties
    <3>5. Tail(q) = r
      BY <3>1, <3>4, SeqEqual
    <3> QED BY <3>2, <3>3, <3>4, <3>5 DEF r
  <2>5. Answers(asked, due \o Sent(g)) /\ (Shedding \/ intent \in {l.of, Ignore})
    BY <1>1, <2>1, <2>4, MatchesLess DEF asked, intent
  <2> QED BY <1>3, <1>4, <1>6, <2>5 DEF Paired
<1>9. CASE intent \in {l.of, Ignore}
  <2>1. h \in Gateways /\ Handles(paired, h)
    BY <1>1, <1>2, <1>3, <1>9, ReplyHandles
  <2>2. /\ (h.attached => g.attached) /\ h.mood = g.mood /\ h.crossed = g.crossed /\ h.gone = g.gone
        /\ h.detaching = g.detaching /\ h.opened = g.opened /\ h.unsolicited = g.unsolicited
        /\ Guarded(g, h, "SendKeys") /\ Guarded(g, h, "DetachClient")
    BY <1>3, <1>6, <2>1 DEF Handles, Sends, Keeps, Guarded
  <2>3. \A K : Told(g, K) => Told(h, K)
    BY <1>7, <2>1 DEF Handles
  <2>4. \A due \in Seq(Question) : Paired(g, Due(l, due)) => Paired(h, due)
    BY <1>8, <2>1 DEF Handles, Sends, Keeps
  <2> QED BY <2>1, <2>2, <2>3, <2>4 DEF Hears, h
<1>10. CASE intent \notin {l.of, Ignore}
  <2>1. h = crossed
    BY <1>2, <1>10
  <2>2. Guarded(g, h, "SendKeys") /\ Guarded(g, h, "DetachClient")
    BY <1>6, <2>1 DEF Guarded
  <2>3. \A due \in Seq(Question) : Paired(g, Due(l, due)) => Paired(h, due) /\ Shedding
    BY <1>8, <1>10, <2>1
  <2>4. l.line = "Block"
    BY DEF BlockLine
  <2> QED BY <1>4, <1>7, <2>1, <2>2, <2>3, <2>4 DEF Hears, h
<1> QED BY <1>9, <1>10

\* A block that answers nothing that was asked.
LEMMA StrayBlockHears ==
  ASSUME NEW g \in Gateways, NEW l \in BlockLine, g.attached, ~l.flagged \/ g.asked = <<>>
  PROVE  Block(g, l) \in Gateways /\ Hears(g, Block(g, l), l)
<1> DEFINE stray == g.unsolicited \/ g.opened
           h == [g EXCEPT !.unsolicited = stray]
<1>1. Block(g, l) = h
  BY DEF Block
<1>2. stray \in BOOLEAN /\ (stray <=> g.unsolicited \/ g.opened)
  BY DEF Gateways
<1> HIDE DEF stray
<1>3. /\ h \in Gateways /\ h.out = g.out /\ h.windows = g.windows
      /\ h.attached = g.attached /\ h.mood = g.mood
      /\ h.crossed = g.crossed /\ h.gone = g.gone /\ h.detaching = g.detaching
      /\ h.opened = g.opened /\ h.unsolicited = stray
      /\ h.asked = g.asked /\ h.wire = g.wire /\ h.pending = g.pending
  BY <1>2 DEF Gateways
<1> HIDE DEF h
<1>4. Sent(h) = Sent(g)
  BY <1>3 DEF Sent
<1>5. \A K : Told(g, K) => Told(h, K)
  BY <1>3 DEF Told, EndTold, Known
<1>6. l.line = "Block"
  BY DEF BlockLine
<1>7. ASSUME NEW due \in Seq(Question), Paired(g, Due(l, due)) PROVE ~l.flagged
  <2>1. SUFFICES ASSUME l.flagged PROVE FALSE
    OBVIOUS
  <2>2. Answers(g.asked, (<<l.of>> \o due) \o Sent(g)) /\ g.asked = <<>>
    BY <1>6, <1>7, <2>1 DEF Paired, Due
  <2>3. <<l.of>> \in Seq(Question) /\ Sent(g) \in Seq(Question)
    BY SentType DEF BlockLine
  <2>4. Len((<<l.of>> \o due) \o Sent(g)) > 0
    <3>1. <<l.of>> \o due \in Seq(Question) /\ Len(<<l.of>> \o due) = 1 + Len(due) /\ Len(due) \in Nat
      BY <2>3, Joined, ConcatProperties
    <3>2. Len((<<l.of>> \o due) \o Sent(g)) = Len(<<l.of>> \o due) + Len(Sent(g)) /\ Len(Sent(g)) \in Nat
      BY <2>3, <3>1, Joined
    <3> QED BY <3>1, <3>2
  <2>5. Len(g.asked) = 0
    BY <2>2
  <2>6. Len((<<l.of>> \o due) \o Sent(g)) \in Nat
    BY <2>3, Joined, ConcatProperties
  <2> QED BY <2>2, <2>4, <2>5, <2>6 DEF Answers
<1>8. ASSUME NEW due \in Seq(Question), Paired(g, Due(l, due))
      PROVE  Paired(h, due) /\ (h.unsolicited => g.unsolicited \/ (g.opened /\ ~l.flagged))
  BY <1>2, <1>3, <1>4, <1>7, <1>8 DEF Paired, Due
<1> QED BY <1>1, <1>3, <1>4, <1>5, <1>6, <1>8 DEF Hears, Guarded

\* The attach burst is over: what waited for it goes.
LEMMA SessionChangedHears ==
  ASSUME NEW g \in Gateways, NEW l \in Notice, l.line = "SessionChanged"
  PROVE  Notification(g, l) \in Gateways /\ Hears(g, Notification(g, l), l)
<1> DEFINE relist == g.relistDue \/ g.bootstrapped
           put == [g EXCEPT !.opened = TRUE, !.relistDue = relist]
           h == Flush(put)
<1>1. Notification(g, l) = h
  BY DEF Notification
<1>2. relist \in BOOLEAN
  OBVIOUS
<1> HIDE DEF relist
<1>3. /\ put \in Gateways /\ put.out = g.out /\ put.windows = g.windows
      /\ put.attached = g.attached /\ put.mood = g.mood
      /\ put.crossed = g.crossed /\ put.gone = g.gone /\ put.detaching = g.detaching
      /\ put.unsolicited = g.unsolicited
      /\ put.asked = g.asked /\ put.wire = g.wire /\ put.pending = g.pending
  BY <1>2 DEF Gateways
<1> HIDE DEF put
<1>4. h \in Gateways /\ Handles(put, h)
  BY <1>3, FlushFacts, ElsewhereHandles
<1> HIDE DEF h
<1>5. Sent(put) = Sent(g)
  BY <1>3 DEF Sent
<1>6. \A K : Told(g, K) => Told(h, K)
  BY <1>3, <1>4 DEF Told, EndTold, Known, Handles
<1>7. \A due \in Seq(Question) : Paired(g, due) => Paired(h, due)
  BY <1>3, <1>4, <1>5 DEF Paired, Handles, Sends, Keeps
<1>8. /\ (h.attached => g.attached) /\ h.mood = g.mood /\ h.crossed = g.crossed /\ h.gone = g.gone
      /\ h.detaching = g.detaching /\ h.unsolicited = g.unsolicited
      /\ Guarded(g, h, "SendKeys") /\ Guarded(g, h, "DetachClient")
  BY <1>3, <1>4, <1>5 DEF Handles, Sends, Keeps, Guarded
<1> QED BY <1>1, <1>4, <1>6, <1>7, <1>8 DEF Hears, Due

LEMMA NotificationHears ==
  ASSUME NEW g \in Gateways, NEW l \in Notice, l.line \notin {"Foreign", "ST"}
  PROVE  Notification(g, l) \in Gateways /\ Hears(g, Notification(g, l), l)
<1>1. ~(l.line = "Block" /\ l.flagged)
  BY DEF Notice
<1>2. CASE l.line = "SessionChanged"
  BY <1>2, SessionChangedHears
<1>3. CASE l.line # "SessionChanged"
  <2> DEFINE h == Notification(g, l)
  <2>1. SUFFICES h \in Gateways /\ Handles(g, h)
    BY <1>1, HandlesHears
  <2>2. CASE l.line = "Output"
    <3>1. h = Output(g, l.of[1], l.of[2]) /\ l.of[1] \in Pane /\ l.of[2] \in Pane \X Nat
      BY <2>2 DEF Notification, Notice
    <3> QED BY <3>1, OutputHandles
  <2>3. CASE l.line = "SessionsChanged"
    <3>1. h = [g EXCEPT !.relistDue = TRUE]
      BY <2>3 DEF Notification
    <3>2. /\ h \in Gateways /\ h.out = g.out /\ h.windows = g.windows
          /\ h.attached = g.attached /\ h.mood = g.mood
          /\ h.crossed = g.crossed /\ h.gone = g.gone /\ h.detaching = g.detaching
          /\ h.opened = g.opened /\ h.solicited = g.solicited /\ h.unsolicited = g.unsolicited
          /\ h.asked = g.asked /\ h.wire = g.wire /\ h.pending = g.pending
      BY <3>1 DEF Gateways
    <3> HIDE DEF h
    <3>3. Sends(g, h)
      BY <3>2, QuietSends
    <3> QED BY <3>2, <3>3, QuietHandles DEF Known
  <2>4. CASE l.line = "Exit"
    <3>1. h = Teardown(g, FALSE)
      BY <2>4 DEF Notification
    <3> QED BY <3>1, TeardownHandles
  <2>5. CASE l.line \in {"WindowAdd", "WindowPaneChanged", "WindowClose", "LayoutChange"}
    <3>1. h \in {g, WindowNotification(g, l)}
      BY <2>5 DEF Notification
    <3> QED BY <2>5, <3>1, WindowNotificationHandles, HandlesNot
  <2> QED BY <1>3, <2>2, <2>3, <2>4, <2>5 DEF Notice
<1> QED BY <1>2, <1>3

LEMMA TakeHears ==
  ASSUME NEW g \in Gateways, NEW l \in LineSet
  PROVE  Take(g, l) \in Gateways /\ Hears(g, Take(g, l), l)
<1>1. CASE ~g.attached
  <2>1. Take(g, l) = g
    BY <1>1 DEF Take
  <2> QED BY <1>1, <2>1, HandlesNot DEF Hears, Handles, Sends, Keeps, Paired
<1>2. CASE g.attached /\ l \in BlockLine
  <2>1. Take(g, l) = Block(g, l)
    BY <1>2 DEF Take, BlockLine
  <2> QED BY <1>2, <2>1, PairedBlockHears, StrayBlockHears
<1>3. CASE g.attached /\ l \in Notice
  <2>1. l.line # "Block" /\ (l.line = "Foreign" => Take(g, l) = Teardown(g, TRUE)) /\ (l.line = "ST" => Take(g, l) = g)
        /\ (l.line \notin {"Foreign", "ST"} => Take(g, l) = Notification(g, l))
    BY <1>3 DEF Take, Notice
  <2>2. CASE l.line = "Foreign"
    BY <2>1, <2>2, TeardownHandles, HandlesHears
  <2>3. CASE l.line = "ST"
    BY <2>1, <2>3, HandlesNot, HandlesHears
  <2>4. CASE l.line \notin {"Foreign", "ST"}
    BY <1>3, <2>1, <2>4, NotificationHears
  <2> QED BY <2>2, <2>3, <2>4
<1> QED BY <1>1, <1>2, <1>3 DEF LineSet

-----------------------------------------------------------------------------
(***************************************************************************)
(* A turn's reading: the lines taken one by one.                           *)
(***************************************************************************)
\* The lines read are a walk through them.
LEMMA TakeWalk ==
  ASSUME NEW g \in Gateways, NEW s \in Seq(LineSet)
  PROVE  \E h \in [0 .. Len(s) -> Gateways] :
           h[0] = g /\ h[Len(s)] = FoldLeft(Take, g, s) /\ \A k \in 1 .. Len(s) : h[k] = Take(h[k - 1], s[k])
<1> DEFINE n == Len(s)
           T == Gateways
           G == [p \in (1 .. n) \X T |-> Take(p[2], s[p[1]])]
           Fold(it) == it = [S \in SUBSET DOMAIN s |-> IF S = {} THEN g ELSE Take(it[S \ {Max(S)}], s[Max(S)])]
           it == CHOOSE it : it = [S \in SUBSET DOMAIN s |-> IF S = {} THEN g ELSE Take(it[S \ {Max(S)}], s[Max(S)])]
<1>1. n \in Nat /\ DOMAIN s = 1 .. n /\ \A k \in 1 .. n : s[k] \in LineSet
  OBVIOUS
<1>2. FoldLeft(Take, g, s) = it[DOMAIN s]
  BY DEF FoldLeft, MapThenFoldSet
<1>3. g \in T
  OBVIOUS
<1>4. ASSUME NEW k \in 1 .. n, NEW v \in T PROVE G[<<k, v>>] = Take(v, s[k]) /\ G[<<k, v>>] \in T
  BY <1>1, TakeHears
<1> HIDE DEF T, G, n
<1>5. PICK f \in [SUBSET (1 .. n) -> T] : Folding(n, g, G, f)
  BY <1>1, <1>3, <1>4, FoldExists
<1>6. ASSUME NEW S \in SUBSET (1 .. n), S # {} PROVE Max(S) \in 1 .. n /\ S \ {Max(S)} \in SUBSET (1 .. n)
  BY <1>1, <1>6, MaxOfPositions
<1>7. Fold(f)
  <2>1. ASSUME NEW S \in SUBSET (1 .. n), S # {}
        PROVE  G[<<Max(S), f[S \ {Max(S)}]>>] = Take(f[S \ {Max(S)}], s[Max(S)])
    <3>1. Max(S) \in 1 .. n /\ S \ {Max(S)} \in SUBSET (1 .. n)
      BY <1>6, <2>1
    <3> QED BY <1>4, <3>1
  <2> QED BY <1>1, <1>5, <2>1 DEF Folding
<1>8. Fold(it)
  BY <1>7
<1> HIDE DEF it
<1>9. it[{}] = g
  BY <1>8
<1>10. Steps(n, T, g, G, it)
  <2> SUFFICES ASSUME NEW S \in SUBSET (1 .. n), S # {}, it[S \ {Max(S)}] \in T
               PROVE  it[S] = G[<<Max(S), it[S \ {Max(S)}]>>]
    BY <1>1, <1>3, <1>4, <1>9 DEF Steps
  <2>1. Max(S) \in 1 .. n
    BY <1>6
  <2>2. it[S] = Take(it[S \ {Max(S)}], s[Max(S)])
    BY <1>1, <1>8
  <2> QED BY <1>4, <2>1, <2>2
<1>11. Walks(n, T, g, G, it[1 .. n])
  BY <1>10, FoldWalks
<1>12. PICK h \in [0 .. n -> T] : h[0] = g /\ h[n] = it[1 .. n] /\ \A k \in 1 .. n : h[k] = G[<<k, h[k - 1]>>]
  BY <1>11 DEF Walks
<1>13. ASSUME NEW k \in 1 .. n PROVE h[k] = Take(h[k - 1], s[k])
  <2>1. k - 1 \in 0 .. n
    BY <1>1
  <2> QED BY <1>4, <1>12, <2>1
<1> QED BY <1>1, <1>2, <1>12, <1>13 DEF T, n

\* What is due before the first line, between each and the next, and at the end.
Dues(ls, d) ==
  d \in [0 .. Len(ls) -> Seq(Question)] /\ \A k \in 1 .. Len(ls) : d[k - 1] = Due(ls[k], d[k])

IsReply(l) == l.line = "Block" /\ l.flagged
IsStray(l) == l.line = "Block" /\ ~l.flagged

LEMMA TakenFacts ==
  ASSUME NEW g \in Gateways, NEW s \in Seq(LineSet)
  PROVE  LET h == FoldLeft(Take, g, s)
         IN  /\ h \in Gateways
             /\ (h.attached => g.attached) /\ h.mood = g.mood /\ h.gone = g.gone /\ h.detaching = g.detaching
             /\ Guarded(g, h, "SendKeys") /\ Guarded(g, h, "DetachClient")
             /\ \A K : Told(g, K) => Told(h, K)
             /\ Len(s) = 0 => h = g
             /\ (\A i \in 1 .. Len(s) : ~IsReply(s[i])) => h.crossed = g.crossed
             /\ \A d : Dues(s, d) /\ Paired(g, d[0]) =>
                  /\ Paired(h, d[Len(s)])
                  /\ Shedding \/ h.crossed = g.crossed
                  /\ ~g.unsolicited /\ (\A i \in 1 .. Len(s) : IsStray(s[i]) => i = 1 /\ ~g.opened) => ~h.unsolicited
<1> DEFINE n == Len(s)
<1>1. PICK h \in [0 .. n -> Gateways] :
        h[0] = g /\ h[n] = FoldLeft(Take, g, s) /\ \A k \in 1 .. n : h[k] = Take(h[k - 1], s[k])
  BY TakeWalk
<1>2. n \in Nat /\ \A k \in 1 .. n : s[k] \in LineSet
  OBVIOUS
<1> HIDE DEF n
<1>3. ASSUME NEW k \in 1 .. n
      PROVE  k \in 0 .. n /\ k - 1 \in 0 .. n /\ h[k - 1] \in Gateways /\ h[k] \in Gateways /\ Hears(h[k - 1], h[k], s[k])
  <2>1. k \in 0 .. n /\ k - 1 \in 0 .. n
    BY <1>2
  <2> QED BY <1>1, <1>2, <2>1, TakeHears
<1>4. /\ (h[n].attached => g.attached) /\ h[n].mood = g.mood /\ h[n].gone = g.gone /\ h[n].detaching = g.detaching
      /\ Guarded(g, h[n], "SendKeys") /\ Guarded(g, h[n], "DetachClient")
      /\ \A K : Told(g, K) => Told(h[n], K)
  <2> DEFINE B == {k \in 0 .. n :
                     /\ (h[k].attached => g.attached) /\ h[k].mood = g.mood /\ h[k].gone = g.gone
                     /\ h[k].detaching = g.detaching
                     /\ Guarded(g, h[k], "SendKeys") /\ Guarded(g, h[k], "DetachClient")
                     /\ \A K : Told(g, K) => Told(h[k], K)}
  <2>1. 0 \in B
    BY <1>1, <1>2 DEF Guarded
  <2>2. ASSUME NEW k \in 1 .. n, k - 1 \in B PROVE k \in B
    BY <1>3, <2>2, GuardedOn DEF Hears
  <2> HIDE DEF B
  <2>3. \A k \in 0 .. n : k \in B
    BY <1>2, <2>1, <2>2, StepByStep
  <2>4. n \in B
    BY <1>2, <2>3
  <2> QED BY <2>4 DEF B
<1>5. ASSUME \A i \in 1 .. n : ~IsReply(s[i]) PROVE h[n].crossed = g.crossed
  <2> DEFINE B == {k \in 0 .. n : h[k].crossed = g.crossed}
  <2>1. 0 \in B
    BY <1>1, <1>2
  <2>2. ASSUME NEW k \in 1 .. n, k - 1 \in B PROVE k \in B
    BY <1>3, <1>5, <2>2 DEF Hears, IsReply
  <2> HIDE DEF B
  <2>3. \A k \in 0 .. n : k \in B
    BY <1>2, <2>1, <2>2, StepByStep
  <2>4. n \in B
    BY <1>2, <2>3
  <2> QED BY <2>4 DEF B
<1>6. ASSUME NEW d, Dues(s, d), Paired(g, d[0])
      PROVE  /\ Paired(h[n], d[n])
             /\ Shedding \/ h[n].crossed = g.crossed
             /\ ~g.unsolicited /\ (\A i \in 1 .. n : IsStray(s[i]) => i = 1 /\ ~g.opened) => ~h[n].unsolicited
  <2>0. d \in [0 .. n -> Seq(Question)] /\ \A k \in 1 .. n : d[k - 1] = Due(s[k], d[k])
    BY <1>6 DEF Dues, n
  <2> DEFINE Sober == ~g.unsolicited /\ (\A i \in 1 .. n : IsStray(s[i]) => i = 1 /\ ~g.opened)
             B == {k \in 0 .. n : /\ Paired(h[k], d[k])
                                  /\ Shedding \/ h[k].crossed = g.crossed
                                  /\ Sober => ~h[k].unsolicited}
  <2>1. 0 \in B
    BY <1>1, <1>2, <1>6
  <2>2. ASSUME NEW k \in 1 .. n, k - 1 \in B PROVE k \in B
    <3>1. d[k] \in Seq(Question) /\ d[k - 1] = Due(s[k], d[k])
      BY <1>3, <2>0
    <3>2. Paired(h[k - 1], Due(s[k], d[k]))
      BY <2>2, <3>1
    <3>3. /\ Paired(h[k], d[k]) /\ (Shedding \/ h[k].crossed = h[k - 1].crossed)
          /\ h[k].unsolicited => h[k - 1].unsolicited \/ (h[k - 1].opened /\ s[k].line = "Block" /\ ~s[k].flagged)
      BY <1>3, <3>1, <3>2 DEF Hears
    <3>4. ASSUME Sober PROVE ~(h[k - 1].opened /\ s[k].line = "Block" /\ ~s[k].flagged)
      <4>1. SUFFICES ASSUME IsStray(s[k]) PROVE ~h[k - 1].opened
        BY DEF IsStray
      <4>2. k = 1 /\ ~g.opened
        BY <3>4, <4>1
      <4>3. k - 1 = 0
        BY <4>2
      <4> QED BY <1>1, <4>2, <4>3
    <3> HIDE DEF Sober
    <3> QED BY <1>3, <2>2, <3>3, <3>4
  <2> HIDE DEF B
  <2>3. \A k \in 0 .. n : k \in B
    BY <1>2, <2>1, <2>2, StepByStep
  <2>4. n \in B
    BY <1>2, <2>3
  <2> QED BY <2>4 DEF B
<1>7. h[n] \in Gateways /\ (n = 0 => h[n] = g)
  BY <1>1, <1>2
<1> QED BY <1>1, <1>4, <1>5, <1>6, <1>7 DEF n

\* The rest of the turn's answers: a server that flags is not let go.
Finishes(g, h) ==
  /\ Keeps(g, h) /\ Guarded(g, h, "SendKeys") /\ (~g.unsolicited => Guarded(g, h, "DetachClient"))
  /\ \A K : Told(g, K) => Told(h, K)

LEMMA HandlesFinishes == ASSUME NEW g, NEW h, Handles(g, h) PROVE Finishes(g, h)
BY DEF Handles, Sends, Finishes

LEMMA FinishesOn == ASSUME NEW f, NEW g, NEW h, Finishes(f, g), Finishes(g, h) PROVE Finishes(f, h)
<1>1. Keeps(f, g) /\ Keeps(g, h) /\ g.unsolicited = f.unsolicited
  BY DEF Finishes, Keeps
<1>2. Keeps(f, h)
  BY <1>1, KeepsOn
<1>3. Guarded(f, h, "SendKeys") /\ (~f.unsolicited => Guarded(f, h, "DetachClient"))
  BY <1>1, GuardedOn DEF Finishes
<1> QED BY <1>2, <1>3 DEF Finishes

LEMMA RelistHandles ==
  ASSUME NEW g \in Gateways
  PROVE  Relist(g) \in Gateways /\ Handles(g, Relist(g))
<1> DEFINE put == [g EXCEPT !.relistDue = FALSE]
           ask == Ask("ListSessions", None)
<1>1. Relist(g) \in {g, Query(put, ask)}
  BY DEF Relist
<1>2. /\ put \in Gateways /\ put.out = g.out /\ put.windows = g.windows
      /\ put.attached = g.attached /\ put.mood = g.mood
      /\ put.crossed = g.crossed /\ put.gone = g.gone /\ put.detaching = g.detaching
      /\ put.opened = g.opened /\ put.solicited = g.solicited /\ put.unsolicited = g.unsolicited
      /\ put.asked = g.asked /\ put.wire = g.wire /\ put.pending = g.pending
  BY DEF Gateways
<1>3. ask \in Intent
  BY DEF Ask, Intent
<1> HIDE DEF put, ask
<1>4. Sends(g, put)
  BY <1>2, QuietSends
<1>5. Handles(g, put)
  BY <1>2, <1>4, QuietHandles DEF Known
<1>6. Query(put, ask) \in Gateways /\ Handles(put, Query(put, ask))
  BY <1>2, <1>3, QuerySends, ElsewhereHandles
<1> QED BY <1>1, <1>5, <1>6, HandlesOn, HandlesNot

LEMMA WatchedFinishes ==
  ASSUME NEW g \in Gateways
  PROVE  Watched(g) \in Gateways /\ Finishes(g, Watched(g))
<1> DEFINE ask == Ask("DetachClient", None)
           told == Tell(g, ask)
           over == Teardown(told, TRUE)
<1>1. Watched(g) = IF g.attached /\ ~g.solicited /\ g.unsolicited /\ late THEN over ELSE g
  BY DEF Watched
<1>2. CASE g.attached /\ ~g.solicited /\ g.unsolicited /\ late
  <2>1. ask \in Question /\ ask[1] # "SendKeys" /\ Ignore \in Intent
    BY DEF Ask, Question, Ignore, Intent
  <2> HIDE DEF ask
  <2>2. told \in Gateways /\ Keeps(g, told) /\ Elsewhere(g, told) /\ Guarded(g, told, "SendKeys")
    BY <2>1, CommandFacts DEF Tell
  <2> HIDE DEF told
  <2>3. over \in Gateways /\ Handles(told, over)
    BY <2>2, TeardownHandles
  <2>4. \A K : Told(g, K) => Told(told, K)
    BY <2>2, ToldStill DEF Elsewhere
  <2>5. Finishes(g, told)
    BY <1>2, <2>2, <2>4 DEF Finishes
  <2>6. Finishes(g, over)
    BY <2>3, <2>5, HandlesFinishes, FinishesOn
  <2> QED BY <1>1, <1>2, <2>3, <2>6
<1>3. CASE ~(g.attached /\ ~g.solicited /\ g.unsolicited /\ late)
  BY <1>1, <1>3, HandlesNot, HandlesFinishes
<1> QED BY <1>2, <1>3

LEMMA PollFinishes ==
  ASSUME NEW g \in Gateways, NEW settled \in BOOLEAN
  PROVE  Poll(g, settled) \in Gateways /\ Finishes(g, Poll(g, settled))
<1> DEFINE f == Flush(g)
           h == Debounced(f, settled)
<1>1. f \in Gateways /\ Handles(g, f)
  BY FlushFacts, ElsewhereHandles
<1> HIDE DEF f
<1>2. h \in Gateways /\ Handles(f, h)
  <2>1. h \in {f, FlushClientSize(f)}
    BY DEF Debounced
  <2> QED BY <1>1, <2>1, FlushClientSizeSends, ElsewhereHandles, HandlesNot
<1> HIDE DEF h
<1>3. Poll(g, settled) = Watched(h)
  BY DEF Poll, f, h
<1> QED BY <1>1, <1>2, <1>3, HandlesOn, HandlesFinishes, FinishesOn, WatchedFinishes

\* All a turn does before the keys and the surface.
LEMMA AnswersFinish ==
  ASSUME NEW g \in Gateways, NEW taken, NEW lost \in BOOLEAN, NEW settled \in BOOLEAN
  PROVE  LET h == Poll(Cut(Ended(Relist(g), taken), lost), settled)
         IN  h \in Gateways /\ Finishes(g, h) /\ (lost => ~h.attached)
<1> DEFINE r == Relist(g)
           e == Ended(r, taken)
           c == Cut(e, lost)
           h == Poll(c, settled)
<1>1. r \in Gateways /\ Handles(g, r)
  BY RelistHandles
<1> HIDE DEF r
<1>2. e \in Gateways /\ Handles(r, e)
  <2>1. e \in {r, Teardown(r, FALSE)}
    BY DEF Ended
  <2> QED BY <1>1, <2>1, TeardownHandles, HandlesNot
<1> HIDE DEF e
<1>3. c \in Gateways /\ Handles(e, c) /\ (lost => ~c.attached)
  <2>1. c = IF lost THEN Teardown(e, TRUE) ELSE e
    BY DEF Cut
  <2> QED BY <1>2, <2>1, TeardownHandles, HandlesNot
<1> HIDE DEF c
<1>4. h \in Gateways /\ Finishes(c, h)
  BY <1>3, PollFinishes
<1> HIDE DEF h
<1>5. Finishes(g, h)
  BY <1>1, <1>2, <1>3, <1>4, HandlesOn, HandlesFinishes, FinishesOn
<1>6. lost => ~h.attached
  BY <1>3, <1>4 DEF Finishes, Keeps
<1> QED BY <1>4, <1>5, <1>6 DEF h, c, e, r

-----------------------------------------------------------------------------
(***************************************************************************)
(* The surface's half: the rows.                                           *)
(***************************************************************************)
\* A row of any kind; one that stands, with its window's pane and a slot of its
\* own, or that does not; and those of a bank.
AnyRow ==
  [pane : Pane \cup {None}, slot : Slot \cup {None}, held : Nat, screen : Bytes,
   cursor : {"output", "foot", "placed", "overtaken", "astray"}]

Row == {r \in AnyRow : (r.pane = None <=> r.slot = None) /\ (r.pane = None <=> r.held = 0) /\ r.held <= 1}

Rows == {r \in [Window -> Row] : \A v, w \in Window : r[v].slot = r[w].slot /\ r[v].slot # None => v = w}

Owed == Slot \cup {None, NotAsked}

\* Sends, but that the surface may have heard the end.
Goes(g, h) ==
  /\ (h.attached => g.attached) /\ h.mood = g.mood /\ h.crossed = g.crossed
  /\ h.detaching = g.detaching /\ h.opened = g.opened
  /\ h.solicited = g.solicited /\ h.unsolicited = g.unsolicited
  /\ \A due \in Seq(Question) : Paired(g, due) => Paired(h, due)
  /\ Guarded(g, h, "SendKeys") /\ Guarded(g, h, "DetachClient")

LEMMA SendsGoes == ASSUME NEW g, NEW h, Sends(g, h) PROVE Goes(g, h)
BY DEF Sends, Keeps, Goes

LEMMA GoesOn == ASSUME NEW f, NEW g, NEW h, Goes(f, g), Goes(g, h) PROVE Goes(f, h)
BY GuardedOn DEF Goes

\* The gateway of a surface's state, and the rest of it.
States(g) ==
  {st \in [g : Gateways, rows : [Window -> AnyRow], owed : Owed] :
     /\ Goes(g, st.g) /\ st.g.attached = g.attached /\ st.g.out = <<>>
     /\ Known(g) \subseteq Known(st.g)}

LEMMA MinOf ==
  ASSUME NEW S \in SUBSET Nat, S # {} PROVE Min(S) \in S /\ \A x \in S : Min(S) <= x
<1>1. PICK x \in S : \A y \in S : ~ (<<y, x>> \in OpToRel(<, Nat))
  BY NatLessThanWellFounded, WFMin
<1>2. \A y \in S : ~ (y < x)
  BY <1>1 DEF OpToRel
<1>3. \A y \in S : x <= y
  <2> SUFFICES ASSUME NEW y \in S PROVE x <= y
    OBVIOUS
  <2>1. x \in Nat /\ y \in Nat /\ ~ (y < x)
    BY <1>2
  <2> QED BY <2>1
<1> QED BY <1>3 DEF Min

LEMMA MinOfSlots == ASSUME NEW free \in SUBSET Slot, free # {} PROVE Min(free) \in free
<1>1. free \in SUBSET Nat
  BY DEF Slot
<1> QED BY <1>1, MinOf

LEMMA LandingFacts ==
  ASSUME NEW st, NEW event
  PROVE  Landing(st, event) \in FreeSlots(st.rows) \cup {None}
<1> DEFINE free == FreeSlots(st.rows)
<1>1. free \in SUBSET Slot
  BY DEF FreeSlots
<1>2. free # {} => Min(free) \in free
  BY <1>1, MinOfSlots
<1> HIDE DEF free
<1>3. Landing(st, event) = CASE st.owed \in free -> st.owed
                             [] st.owed = NotAsked /\ event.slot \in free -> event.slot
                             [] OTHER -> IF free = {} THEN None ELSE Min(free)
  BY DEF Landing, free
<1> QED BY <1>2, <1>3 DEF free

LEMMA StateMade ==
  ASSUME NEW g, NEW a \in Gateways, Goes(g, a), a.attached = g.attached, a.out = <<>>, Known(g) \subseteq Known(a),
         NEW r \in [Window -> AnyRow], NEW o \in Owed
  PROVE  [g |-> a, rows |-> r, owed |-> o] \in States(g)
BY DEF States

LEMMA NoRowIsARow == NoRow \in Row /\ NoRow \in AnyRow /\ NoRow.pane = None /\ NoRow.slot = None
BY DEF NoRow, Row, AnyRow, Bytes

LEMMA DrawFacts ==
  ASSUME NEW row \in AnyRow, NEW e \in Event, e.do = "Output"
  PROVE  /\ Draw(row, e) \in AnyRow /\ Draw(row, e).pane = row.pane /\ Draw(row, e).slot = row.slot
         /\ Draw(row, e).held = row.held
<1> DEFINE drawn == row.screen \o e.bytes
           place == CASE ~e.walk            -> "output"
                      [] row.cursor # "foot" -> "astray"
                      [] e.bytes = <<>>     -> "placed"
                      [] OTHER              -> "overtaken"
<1>1. e.bytes \in Bytes /\ e.walk \in BOOLEAN /\ row.screen \in Bytes
  BY DEF Event, AnyRow
<1>2. drawn \in Bytes /\ place \in {"output", "foot", "placed", "overtaken", "astray"}
  BY <1>1, ConcatProperties DEF Bytes
<1>3. Draw(row, e) \in {[row EXCEPT !.screen = e.bytes, !.cursor = "foot"], [row EXCEPT !.screen = drawn, !.cursor = place]}
  BY DEF Draw
<1> HIDE DEF drawn, place
<1> QED BY <1>1, <1>2, <1>3 DEF AnyRow

\* What each event leaves of the surface's state, whatever went before.
LEMMA ApplyStays ==
  ASSUME NEW g \in Gateways, NEW st \in States(g), NEW e \in Event
  PROVE  /\ Apply(st, e) \in States(g)
         /\ (Apply(st, e).g.gone <=> st.g.gone \/ e.do = "Detached")
<1>1. /\ st \in [g : Gateways, rows : [Window -> AnyRow], owed : Owed]
      /\ Goes(g, st.g) /\ st.g.attached = g.attached /\ st.g.out = <<>>
      /\ Known(g) \subseteq Known(st.g)
  BY DEF States
<1>2. st.g \in Gateways /\ st.rows \in [Window -> AnyRow] /\ st.owed \in Owed /\ NotAsked \in Owed
  BY <1>1 DEF Owed
<1>9. st = [g |-> st.g, rows |-> st.rows, owed |-> st.owed]
  BY <1>1
<1>3. CASE e.do = "WindowAdded"
  <2>1. e.window \in Window /\ e.pane \in Pane /\ Apply(st, e) = OpenTmuxWindow(st, e)
    BY <1>3 DEF Event, Apply
  <2> DEFINE slot == Landing(st, e)
             met == IF st.g.windows[e.window] = e.pane THEN st.g
                    ELSE [st.g EXCEPT !.ahead = @ \cup {e.window}]
             a == AttachWindow(met, e.window, e.pane)
             row == [NoRow EXCEPT !.pane = e.pane, !.slot = slot, !.held = st.rows[e.window].held + 1]
             r == [st.rows EXCEPT ![e.window] = row]
             paid == [st EXCEPT !.owed = NotAsked]
  <2>2. Apply(st, e) = IF slot = None THEN paid ELSE [g |-> a, rows |-> r, owed |-> NotAsked]
    BY <1>9, <2>1 DEF OpenTmuxWindow
  <2>3. slot \in Slot \cup {None}
    <3>1. Landing(st, e) \in FreeSlots(st.rows) \cup {None}
      BY LandingFacts
    <3> QED BY <3>1 DEF FreeSlots
  <2>4. row \in AnyRow
    <3> HIDE DEF slot
    <3>1. st.rows[e.window].held + 1 \in Nat /\ <<>> \in Bytes
      BY <1>2, <2>1 DEF AnyRow, Bytes
    <3> QED BY <2>1, <2>3, <3>1 DEF NoRow, AnyRow
  <2>5. /\ a \in Gateways /\ Sends(st.g, a) /\ a.out = st.g.out /\ a.attached = st.g.attached
        /\ Known(a) = Known(st.g) \cup {e.window}
    <3> DEFINE grown == st.g.ahead \cup {e.window}
               put == [st.g EXCEPT !.ahead = grown]
    <3>1. grown \in SUBSET Window /\ met \in {st.g, put}
      BY <1>2, <2>1 DEF Gateways
    <3> HIDE DEF grown
    <3>2. /\ put \in Gateways /\ put.out = st.g.out /\ put.windows = st.g.windows
          /\ put.attached = st.g.attached /\ put.mood = st.g.mood
          /\ put.crossed = st.g.crossed /\ put.gone = st.g.gone /\ put.detaching = st.g.detaching
          /\ put.opened = st.g.opened /\ put.solicited = st.g.solicited /\ put.unsolicited = st.g.unsolicited
          /\ put.asked = st.g.asked /\ put.wire = st.g.wire /\ put.pending = st.g.pending
      BY <1>2, <3>1 DEF Gateways
    <3> HIDE DEF put, met
    <3>3. /\ met \in Gateways /\ met.out = st.g.out /\ met.windows = st.g.windows
          /\ met.attached = st.g.attached /\ met.mood = st.g.mood
          /\ met.crossed = st.g.crossed /\ met.gone = st.g.gone /\ met.detaching = st.g.detaching
          /\ met.opened = st.g.opened /\ met.solicited = st.g.solicited /\ met.unsolicited = st.g.unsolicited
          /\ met.asked = st.g.asked /\ met.wire = st.g.wire /\ met.pending = st.g.pending
      BY <1>2, <3>1, <3>2
    <3>4. Sends(st.g, met) /\ Known(met) = Known(st.g)
      BY <1>2, <3>3, QuietSends DEF Known
    <3>5. /\ a \in Gateways /\ Sends(met, a) /\ a.out = met.out /\ a.attached = met.attached
          /\ Known(a) = Known(met) \cup {e.window}
      BY <2>1, <3>3, AttachWindowHandles
    <3> HIDE DEF a
    <3> QED BY <3>3, <3>4, <3>5, SendsOn
  <2> HIDE DEF slot, a, row, met
  <2>6. r \in [Window -> AnyRow]
    BY <1>2, <2>1, <2>4
  <2> HIDE DEF r
  <2>7. Goes(g, a) /\ a.gone = st.g.gone
    BY <1>1, <2>5, SendsGoes, GoesOn DEF Sends, Keeps
  <2>8. [g |-> a, rows |-> r, owed |-> NotAsked] \in States(g)
    <3>1. a.attached = g.attached /\ a.out = <<>> /\ Known(g) \subseteq Known(a)
      BY <1>1, <2>5
    <3> QED BY <1>2, <2>5, <2>6, <2>7, <3>1, StateMade
  <2>9. paid = [g |-> st.g, rows |-> st.rows, owed |-> NotAsked]
    BY <1>9
  <2>10. paid \in States(g) /\ paid.g = st.g
    BY <1>1, <1>2, <2>9, StateMade
  <2> HIDE DEF paid
  <2>11. [g |-> a, rows |-> r, owed |-> NotAsked].g = a
    OBVIOUS
  <2>12. Apply(st, e) \in States(g) /\ Apply(st, e).g \in {st.g, a}
    BY <2>2, <2>8, <2>10, <2>11
  <2> QED BY <1>3, <2>7, <2>12
<1>4. CASE e.do = "WindowClosed"
  <2> DEFINE r == [st.rows EXCEPT ![e.window] = NoRow]
  <2>1. Apply(st, e) = [g |-> st.g, rows |-> r, owed |-> st.owed]
    BY <1>4, <1>9 DEF Apply
  <2>2. r \in [Window -> AnyRow]
    BY <1>2, NoRowIsARow
  <2> HIDE DEF r
  <2> QED BY <1>1, <1>2, <1>4, <2>1, <2>2, StateMade
<1>5. CASE e.do = "WindowPaneChanged"
  <2> DEFINE r == [st.rows EXCEPT ![e.window].pane = e.pane]
  <2>0. e.window \in Window /\ e.pane \in Pane
    BY <1>5 DEF Event
  <2>1. Apply(st, e) \in {st, [g |-> st.g, rows |-> r, owed |-> st.owed]}
    BY <1>5, <1>9 DEF Apply
  <2>2. r \in [Window -> AnyRow]
    <3>1. [st.rows[e.window] EXCEPT !.pane = e.pane] \in AnyRow
      BY <1>2, <2>0 DEF AnyRow
    <3> QED BY <1>2, <2>0, <3>1
  <2> HIDE DEF r
  <2>3. [g |-> st.g, rows |-> r, owed |-> st.owed] \in States(g)
    BY <1>1, <1>2, <2>2, StateMade
  <2> QED BY <1>5, <2>1, <2>3
<1>6. CASE e.do = "Output"
  <2> DEFINE r == [w \in Window |-> IF st.rows[w].pane = e.pane THEN Draw(st.rows[w], e) ELSE st.rows[w]]
  <2>1. Apply(st, e) = [g |-> st.g, rows |-> r, owed |-> st.owed]
    BY <1>6, <1>9 DEF Apply
  <2>2. r \in [Window -> AnyRow]
    <3>1. ASSUME NEW w \in Window PROVE Draw(st.rows[w], e) \in AnyRow
      BY <1>2, <1>6, DrawFacts
    <3> QED BY <1>2, <3>1
  <2> HIDE DEF r
  <2> QED BY <1>1, <1>2, <1>6, <2>1, <2>2, StateMade
<1>7. CASE e.do = "Detached"
  <2> DEFINE r == [w \in Window |-> NoRow]
             a == [st.g EXCEPT !.gone = TRUE]
  <2>1. Apply(st, e) = [g |-> a, rows |-> r, owed |-> NotAsked]
    BY <1>7, <1>9 DEF Apply
  <2>2. r \in [Window -> AnyRow]
    BY NoRowIsARow
  <2> HIDE DEF r
  <2>3. /\ a \in Gateways /\ a.attached = st.g.attached /\ a.out = st.g.out /\ a.windows = st.g.windows /\ a.gone
        /\ a.mood = st.g.mood /\ a.crossed = st.g.crossed /\ a.detaching = st.g.detaching
        /\ a.opened = st.g.opened /\ a.solicited = st.g.solicited /\ a.unsolicited = st.g.unsolicited
        /\ a.asked = st.g.asked /\ a.wire = st.g.wire /\ a.pending = st.g.pending
    BY <1>2 DEF Gateways
  <2> HIDE DEF a
  <2>4. Sent(a) = Sent(st.g) /\ Known(a) = Known(st.g)
    BY <2>3 DEF Sent, Known
  <2>5. Goes(g, a)
    BY <1>1, <2>3, <2>4 DEF Goes, Paired, Guarded
  <2>6. NotAsked \in Owed /\ Known(g) \subseteq Known(a) /\ a.out = <<>> /\ a.attached = g.attached
    BY <1>1, <1>2, <2>3, <2>4
  <2>7. Apply(st, e) \in States(g)
    BY <2>1, <2>2, <2>3, <2>5, <2>6, StateMade
  <2> QED BY <1>7, <2>1, <2>3, <2>7
<1> QED BY <1>3, <1>4, <1>5, <1>6, <1>7 DEF Event

\* Where the event could be told, what stood apart stands apart.
LEMMA ApplyFits ==
  ASSUME NEW g \in Gateways, NEW st \in States(g), st.rows \in Rows, NEW e \in Event,
         NEW K, NEW L, Shown(st.rows) \subseteq K, Enters(e, K, L)
  PROVE  Apply(st, e).rows \in Rows /\ Shown(Apply(st, e).rows) \subseteq L
<1>1. st = [g |-> st.g, rows |-> st.rows, owed |-> st.owed] /\ st.rows \in [Window -> Row]
  BY DEF States, Rows
<1>2. \A v, w \in Window : st.rows[v].slot = st.rows[w].slot /\ st.rows[v].slot # None => v = w
  BY DEF Rows
<1>3. CASE e.do = "WindowAdded"
  <2>1. e.window \in Window /\ e.pane \in Pane /\ Apply(st, e) = OpenTmuxWindow(st, e)
    BY <1>3 DEF Event, Apply
  <2>2. e.window \notin K /\ L = K \cup {e.window}
    BY <1>3 DEF Enters
  <2> DEFINE slot == Landing(st, e)
             held == st.rows[e.window].held + 1
             row == [NoRow EXCEPT !.pane = e.pane, !.slot = slot, !.held = held]
             r == [st.rows EXCEPT ![e.window] = row]
  <2>3. Apply(st, e).rows = IF slot = None THEN st.rows ELSE r
    BY <1>1, <2>1 DEF OpenTmuxWindow
  <2>4. slot = None \/ slot \in FreeSlots(st.rows)
    BY LandingFacts
  <2> HIDE DEF slot
  <2>5. CASE slot = None
    BY <2>2, <2>3, <2>5
  <2>6. CASE slot \in FreeSlots(st.rows) /\ slot # None
    <3>1. slot \in Slot /\ \A w \in Window : st.rows[w].slot # slot
      BY <2>6 DEF FreeSlots
    <3>2. st.rows[e.window].pane = None /\ st.rows[e.window] \in Row
      BY <1>1, <2>1, <2>2 DEF Shown
    <3>3. st.rows[e.window].held = 0
      BY <3>2 DEF Row
    <3>4. e.pane # None /\ e.pane \in Pane
      BY <2>1, GatewayAssumption DEF Pane, None
    <3>5. row \in Row /\ row.slot = slot /\ row.pane = e.pane
      <4>1. <<>> \in Bytes
        BY DEF Bytes
      <4>2. held = 1
        BY <3>3
      <4> HIDE DEF held
      <4>3. /\ row.pane = e.pane /\ row.slot = slot /\ row.held = held /\ row \in AnyRow
        BY <2>6, <3>1, <3>4, <4>1, <4>2 DEF AnyRow, NoRow
      <4> HIDE DEF row
      <4> QED BY <2>6, <3>4, <4>2, <4>3 DEF Row
    <3> HIDE DEF row
    <3>6. r \in [Window -> Row] /\ \A w \in Window : r[w] = IF w = e.window THEN row ELSE st.rows[w]
      BY <1>1, <2>1, <3>5
    <3> HIDE DEF r
    <3>7. \A v, w \in Window : r[v].slot = r[w].slot /\ r[v].slot # None => v = w
      BY <1>2, <3>1, <3>5, <3>6
    <3>8. Shown(r) \subseteq L
      BY <2>2, <3>6 DEF Shown
    <3> QED BY <2>3, <2>6, <3>6, <3>7, <3>8 DEF Rows
  <2> QED BY <2>4, <2>5, <2>6
<1>4. CASE e.do = "WindowClosed"
  <2> DEFINE r == [st.rows EXCEPT ![e.window] = NoRow]
  <2>1. Apply(st, e).rows = r /\ L = K \ {e.window} /\ e.window \in Window
    BY <1>1, <1>4 DEF Apply, Enters, Event
  <2>2. r \in [Window -> Row] /\ \A w \in Window : r[w] = IF w = e.window THEN NoRow ELSE st.rows[w]
    BY <1>1, <2>1, NoRowIsARow
  <2> HIDE DEF r
  <2>3. \A v, w \in Window : r[v].slot = r[w].slot /\ r[v].slot # None => v = w
    BY <1>2, <2>2, NoRowIsARow
  <2>4. Shown(r) \subseteq L
    BY <2>1, <2>2, NoRowIsARow DEF Shown
  <2> QED BY <2>1, <2>2, <2>3, <2>4 DEF Rows
<1>5. CASE e.do = "WindowPaneChanged"
  <2> DEFINE row == [st.rows[e.window] EXCEPT !.pane = e.pane]
             r == [st.rows EXCEPT ![e.window].pane = e.pane]
  <2>1. /\ e.window \in Window /\ e.pane \in Pane /\ L = K
        /\ Apply(st, e).rows = IF e.window \notin Shown(st.rows) THEN st.rows ELSE r
    BY <1>1, <1>5 DEF Apply, Enters, Event
  <2>2. CASE e.window \notin Shown(st.rows)
    BY <2>1, <2>2
  <2>3. CASE e.window \in Shown(st.rows)
    <3>1. st.rows[e.window] \in Row /\ st.rows[e.window].pane # None /\ e.pane # None
      BY <1>1, <2>1, <2>3, GatewayAssumption DEF Shown, Pane, None
    <3>2. row \in Row /\ row.slot = st.rows[e.window].slot
      BY <2>1, <3>1 DEF Row, AnyRow
    <3> HIDE DEF row
    <3>3. r \in [Window -> Row] /\ \A w \in Window : r[w] = IF w = e.window THEN row ELSE st.rows[w]
      BY <1>1, <2>1, <3>2 DEF row
    <3> HIDE DEF r
    <3>4. \A v, w \in Window : r[v].slot = r[w].slot /\ r[v].slot # None => v = w
      BY <1>2, <3>2, <3>3
    <3>5. Shown(r) \subseteq L
      BY <2>1, <2>3, <3>3 DEF Shown
    <3> QED BY <2>1, <2>3, <3>3, <3>4, <3>5 DEF Rows
  <2> QED BY <2>2, <2>3
<1>6. CASE e.do = "Output"
  <2> DEFINE r == [w \in Window |-> IF st.rows[w].pane = e.pane THEN Draw(st.rows[w], e) ELSE st.rows[w]]
  <2>1. Apply(st, e).rows = r /\ L = K
    BY <1>1, <1>6 DEF Apply, Enters
  <2>2. ASSUME NEW w \in Window PROVE r[w] \in Row /\ r[w].slot = st.rows[w].slot /\ r[w].pane = st.rows[w].pane
    <3>1. st.rows[w] \in Row /\ st.rows[w] \in AnyRow
      BY <1>1 DEF Row
    <3>2. /\ Draw(st.rows[w], e) \in AnyRow /\ Draw(st.rows[w], e).pane = st.rows[w].pane
          /\ Draw(st.rows[w], e).slot = st.rows[w].slot /\ Draw(st.rows[w], e).held = st.rows[w].held
      BY <1>6, <3>1, DrawFacts
    <3>3. Draw(st.rows[w], e) \in Row
      BY <3>1, <3>2 DEF Row
    <3> QED BY <3>1, <3>2, <3>3
  <2>3. r \in [Window -> Row]
    BY <2>2
  <2> HIDE DEF r
  <2>4. \A v, w \in Window : r[v].slot = r[w].slot /\ r[v].slot # None => v = w
    BY <1>2, <2>2
  <2>5. Shown(r) \subseteq L
    BY <2>1, <2>2 DEF Shown
  <2> QED BY <2>1, <2>3, <2>4, <2>5 DEF Rows
<1>7. CASE e.do = "Detached"
  <2> DEFINE r == [w \in Window |-> NoRow]
  <2>1. Apply(st, e).rows = r /\ L = {}
    BY <1>1, <1>7 DEF Apply, Enters
  <2> QED BY <2>1, NoRowIsARow DEF Rows, Shown
<1> QED BY <1>3, <1>4, <1>5, <1>6, <1>7 DEF Event

LEMMA ApplyWalk ==
  ASSUME NEW g \in Gateways, NEW st \in States(g), NEW s \in Seq(Event)
  PROVE  \E h \in [0 .. Len(s) -> States(g)] :
           h[0] = st /\ h[Len(s)] = FoldLeft(Apply, st, s) /\ \A k \in 1 .. Len(s) : h[k] = Apply(h[k - 1], s[k])
<1> DEFINE n == Len(s)
           T == States(g)
           G == [p \in (1 .. n) \X T |-> Apply(p[2], s[p[1]])]
           Fold(it) == it = [S \in SUBSET DOMAIN s |-> IF S = {} THEN st ELSE Apply(it[S \ {Max(S)}], s[Max(S)])]
           it == CHOOSE it : it = [S \in SUBSET DOMAIN s |-> IF S = {} THEN st ELSE Apply(it[S \ {Max(S)}], s[Max(S)])]
<1>1. n \in Nat /\ DOMAIN s = 1 .. n /\ \A k \in 1 .. n : s[k] \in Event
  OBVIOUS
<1>2. FoldLeft(Apply, st, s) = it[DOMAIN s]
  BY DEF FoldLeft, MapThenFoldSet
<1>3. st \in T
  OBVIOUS
<1>4. ASSUME NEW k \in 1 .. n, NEW v \in T PROVE G[<<k, v>>] = Apply(v, s[k]) /\ G[<<k, v>>] \in T
  BY <1>1, ApplyStays
<1> HIDE DEF T, G, n
<1>5. PICK f \in [SUBSET (1 .. n) -> T] : Folding(n, st, G, f)
  BY <1>1, <1>3, <1>4, FoldExists
<1>6. ASSUME NEW S \in SUBSET (1 .. n), S # {} PROVE Max(S) \in 1 .. n /\ S \ {Max(S)} \in SUBSET (1 .. n)
  BY <1>1, <1>6, MaxOfPositions
<1>7. Fold(f)
  <2>1. ASSUME NEW S \in SUBSET (1 .. n), S # {}
        PROVE  G[<<Max(S), f[S \ {Max(S)}]>>] = Apply(f[S \ {Max(S)}], s[Max(S)])
    <3>1. Max(S) \in 1 .. n /\ S \ {Max(S)} \in SUBSET (1 .. n)
      BY <1>6, <2>1
    <3> QED BY <1>4, <3>1
  <2> QED BY <1>1, <1>5, <2>1 DEF Folding
<1>8. Fold(it)
  BY <1>7
<1> HIDE DEF it
<1>9. it[{}] = st
  BY <1>8
<1>10. Steps(n, T, st, G, it)
  <2> SUFFICES ASSUME NEW S \in SUBSET (1 .. n), S # {}, it[S \ {Max(S)}] \in T
               PROVE  it[S] = G[<<Max(S), it[S \ {Max(S)}]>>]
    BY <1>1, <1>3, <1>4, <1>9 DEF Steps
  <2>1. Max(S) \in 1 .. n
    BY <1>6
  <2>2. it[S] = Apply(it[S \ {Max(S)}], s[Max(S)])
    BY <1>1, <1>8
  <2> QED BY <1>4, <2>1, <2>2
<1>11. Walks(n, T, st, G, it[1 .. n])
  BY <1>10, FoldWalks
<1>12. PICK h \in [0 .. n -> T] : h[0] = st /\ h[n] = it[1 .. n] /\ \A k \in 1 .. n : h[k] = G[<<k, h[k - 1]>>]
  BY <1>11 DEF Walks
<1>13. ASSUME NEW k \in 1 .. n PROVE h[k] = Apply(h[k - 1], s[k])
  <2>1. k - 1 \in 0 .. n
    BY <1>1
  <2> QED BY <1>4, <1>12, <2>1
<1> QED BY <1>1, <1>2, <1>12, <1>13 DEF T, n

LEMMA AppliedFacts ==
  ASSUME NEW g \in Gateways, ~g.gone, rows \in Rows, owed \in Owed, Told(g, Shown(rows))
  PROVE  LET h == Applied(g)
         IN  /\ h \in States(g) /\ h.rows \in Rows /\ (h.g.gone <=> ~g.attached)
             /\ Shown(h.rows) \subseteq Known(h.g)
<1> DEFINE bare == [g EXCEPT !.out = <<>>]
           st == [g |-> bare, rows |-> rows, owed |-> owed]
           s == g.out
           n == Len(s)
<1>1. Applied(g) = FoldLeft(Apply, st, s)
  BY DEF Applied
<1>2. /\ bare \in Gateways /\ bare.out = <<>> /\ bare.windows = g.windows
      /\ bare.attached = g.attached /\ bare.mood = g.mood
      /\ bare.crossed = g.crossed /\ bare.gone = g.gone /\ bare.detaching = g.detaching
      /\ bare.opened = g.opened /\ bare.solicited = g.solicited /\ bare.unsolicited = g.unsolicited
      /\ bare.asked = g.asked /\ bare.wire = g.wire /\ bare.pending = g.pending
  <2>1. <<>> \in Seq(Event)
    OBVIOUS
  <2> QED BY <2>1 DEF Gateways
<1> HIDE DEF bare
<1>3. Goes(g, bare) /\ Known(bare) = Known(g)
  <2>1. Sent(bare) = Sent(g)
    BY <1>2 DEF Sent
  <2> QED BY <1>2, <2>1 DEF Goes, Paired, Guarded, Known
<1>4. st \in States(g)
  <2>1. rows \in [Window -> AnyRow]
    BY DEF Rows, Row
  <2> QED BY <1>2, <1>3, <2>1, StateMade
<1>5. st.g = bare /\ st.rows = rows
  OBVIOUS
<1> HIDE DEF st
<1>6. s \in Seq(Event) /\ n \in Nat /\ \A k \in 1 .. n : s[k] \in Event
  BY DEF Gateways
<1>7. PICK L \in SUBSET Known(g) : Trace(s, Shown(rows), L)
  BY DEF Told
<1>8. (\E i \in 1 .. n : s[i].do = "Detached") <=> ~g.attached
  BY DEF Told, EndTold
<1> HIDE DEF s
<1>9. PICK K \in [0 .. n -> SUBSET Window] :
        K[0] = Shown(rows) /\ K[n] = L /\ \A i \in 1 .. n : Enters(s[i], K[i - 1], K[i])
  BY <1>7 DEF Trace
<1>10. PICK h \in [0 .. n -> States(g)] :
         h[0] = st /\ h[n] = FoldLeft(Apply, st, s) /\ \A k \in 1 .. n : h[k] = Apply(h[k - 1], s[k])
  BY <1>4, <1>6, ApplyWalk
<1> HIDE DEF n
<1> DEFINE B == {k \in 0 .. n : /\ h[k].rows \in Rows /\ Shown(h[k].rows) \subseteq K[k]
                                /\ (h[k].g.gone <=> \E i \in 1 .. k : s[i].do = "Detached")}
<1>11. 0 \in B
  <2>1. 0 \in 0 .. n /\ ~ \E i \in 1 .. 0 : s[i].do = "Detached"
    BY <1>6
  <2> QED BY <1>2, <1>5, <1>9, <1>10, <2>1
<1>12. ASSUME NEW k \in 1 .. n, k - 1 \in B PROVE k \in B
  <2>1. k \in 0 .. n /\ k - 1 \in 0 .. n /\ s[k] \in Event
    BY <1>6
  <2>2. h[k - 1] \in States(g) /\ h[k] = Apply(h[k - 1], s[k])
    BY <1>10, <2>1
  <2>3. Enters(s[k], K[k - 1], K[k])
    BY <1>9
  <2>4. h[k].rows \in Rows /\ Shown(h[k].rows) \subseteq K[k]
    BY <1>12, <2>1, <2>2, <2>3, ApplyFits
  <2>5. h[k].g.gone <=> h[k - 1].g.gone \/ s[k].do = "Detached"
    BY <2>1, <2>2, ApplyStays
  <2>6. \A i \in 1 .. k : i = k \/ i \in 1 .. k - 1
    BY <1>6
  <2>7. k \in 1 .. k /\ \A i \in 1 .. k - 1 : i \in 1 .. k
    BY <1>6
  <2>8. h[k - 1].g.gone <=> \E i \in 1 .. k - 1 : s[i].do = "Detached"
    BY <1>12
  <2>9. h[k].g.gone <=> \E i \in 1 .. k : s[i].do = "Detached"
    BY <2>5, <2>6, <2>7, <2>8
  <2> QED BY <2>1, <2>4, <2>9
<1> HIDE DEF B
<1>13. \A k \in 0 .. n : k \in B
  BY <1>6, <1>11, <1>12, StepByStep
<1>14. n \in B /\ h[n] \in States(g)
  BY <1>6, <1>10, <1>13
<1>15. Known(g) \subseteq Known(h[n].g)
  BY <1>14 DEF States
<1> QED BY <1>1, <1>7, <1>8, <1>9, <1>10, <1>14, <1>15 DEF B

LEMMA RememberSends ==
  ASSUME NEW g \in Gateways, NEW r \in Rows, NEW moved \in SUBSET Window, NEW slot \in Slot
  PROVE  LET h == Remember(g, moved, r, slot)
         IN  h \in Gateways /\ Sends(g, h) /\ h.out = g.out /\ h.attached = g.attached /\ h.windows = g.windows
<1>1. CASE slot \notin {r[w].slot : w \in moved}
  <2>1. Remember(g, moved, r, slot) = g
    BY <1>1 DEF Remember
  <2> QED BY <2>1, QuietSends
<1>2. CASE slot \in {r[w].slot : w \in moved}
  <2> DEFINE w == CHOOSE w \in moved : r[w].slot = slot
             put == [g EXCEPT !.channels[w] = slot]
             ask == Ask("SetChannel", <<w, slot>>)
  <2>1. Remember(g, moved, r, slot) = Tell(put, ask)
    BY <1>2 DEF Remember
  <2>2. w \in Window
    BY <1>2
  <2> HIDE DEF w
  <2>3. /\ put \in Gateways /\ put.out = g.out /\ put.windows = g.windows
        /\ put.attached = g.attached /\ put.mood = g.mood
        /\ put.crossed = g.crossed /\ put.gone = g.gone /\ put.detaching = g.detaching
        /\ put.opened = g.opened /\ put.solicited = g.solicited /\ put.unsolicited = g.unsolicited
        /\ put.asked = g.asked /\ put.wire = g.wire /\ put.pending = g.pending
    BY <2>2 DEF Gateways
  <2>4. ask \in Question /\ ask[1] \notin {"SendKeys", "DetachClient"}
    BY <2>2 DEF Ask, Question
  <2> HIDE DEF put, ask
  <2>5. Sends(g, put)
    BY <2>3, QuietSends
  <2>6. Tell(put, ask) \in Gateways /\ Sends(put, Tell(put, ask)) /\ Elsewhere(put, Tell(put, ask))
    BY <2>3, <2>4, TellSends
  <2>7. Sends(g, Tell(put, ask))
    BY <2>5, <2>6, SendsOn
  <2> QED BY <2>1, <2>3, <2>6, <2>7 DEF Elsewhere
<1> QED BY <1>1, <1>2

LEMMA RememberChannelsSends ==
  ASSUME NEW g \in Gateways, NEW r \in Rows
  PROVE  LET h == RememberChannels(g, r)
         IN  h \in Gateways /\ Sends(g, h) /\ h.out = g.out /\ h.attached = g.attached /\ h.windows = g.windows
<1> DEFINE n == Room
           s == [slot \in Slot |-> slot]
           moved == Moved(g, r)
           T == {h \in Gateways : Sends(g, h) /\ h.out = g.out /\ h.attached = g.attached /\ h.windows = g.windows}
           G == [p \in (1 .. n) \X T |-> Remember(p[2], moved, r, p[1])]
           Fold(it) == it = [S \in SUBSET DOMAIN s |->
                               IF S = {} THEN g ELSE Remember(it[S \ {Max(S)}], moved, r, s[Max(S)])]
           it == CHOOSE it : it = [S \in SUBSET DOMAIN s |->
                               IF S = {} THEN g ELSE Remember(it[S \ {Max(S)}], moved, r, s[Max(S)])]
<1>1. n \in Nat /\ DOMAIN s = 1 .. n /\ \A k \in 1 .. n : s[k] = k /\ k \in Slot
  BY GatewayAssumption DEF Slot
<1>2. RememberChannels(g, r) = it[DOMAIN s]
  BY DEF RememberChannels, FoldLeft, MapThenFoldSet
<1>3. g \in T
  BY QuietSends
<1>4. ASSUME NEW k \in 1 .. n, NEW v \in T
      PROVE  G[<<k, v>>] = Remember(v, moved, r, s[k]) /\ G[<<k, v>>] \in T
  <2>1. k \in Slot /\ s[k] = k /\ moved \in SUBSET Window
    BY <1>1 DEF Moved, Shown
  <2>2. Remember(v, moved, r, k) \in T
    <3> HIDE DEF moved
    <3> QED BY <2>1, RememberSends, SendsOn
  <2> HIDE DEF T, moved
  <2> QED BY <2>1, <2>2
<1> HIDE DEF T, G, n, moved
<1>5. PICK f \in [SUBSET (1 .. n) -> T] : Folding(n, g, G, f)
  BY <1>1, <1>3, <1>4, FoldExists
<1>6. ASSUME NEW S \in SUBSET (1 .. n), S # {} PROVE Max(S) \in 1 .. n /\ S \ {Max(S)} \in SUBSET (1 .. n)
  BY <1>1, <1>6, MaxOfPositions
<1> HIDE DEF s
<1>7. Fold(f)
  <2>1. ASSUME NEW S \in SUBSET (1 .. n), S # {}
        PROVE  G[<<Max(S), f[S \ {Max(S)}]>>] = Remember(f[S \ {Max(S)}], moved, r, s[Max(S)])
    <3>1. Max(S) \in 1 .. n /\ S \ {Max(S)} \in SUBSET (1 .. n)
      BY <1>6, <2>1
    <3> QED BY <1>4, <3>1
  <2> QED BY <1>1, <1>5, <2>1 DEF Folding
<1>8. Fold(it)
  BY <1>7
<1> HIDE DEF it
<1>9. it[{}] = g
  BY <1>8
<1>10. Steps(n, T, g, G, it)
  <2> SUFFICES ASSUME NEW S \in SUBSET (1 .. n), S # {}, it[S \ {Max(S)}] \in T
               PROVE  it[S] = G[<<Max(S), it[S \ {Max(S)}]>>]
    BY <1>1, <1>3, <1>4, <1>9 DEF Steps
  <2>1. Max(S) \in 1 .. n
    BY <1>6
  <2>2. it[S] = Remember(it[S \ {Max(S)}], moved, r, s[Max(S)])
    BY <1>1, <1>8
  <2> QED BY <1>4, <2>1, <2>2
<1>11. Walks(n, T, g, G, it[1 .. n])
  BY <1>10, FoldWalks
<1>12. it[1 .. n] \in T
  BY <1>1, <1>11 DEF Walks
<1> QED BY <1>1, <1>2, <1>12 DEF T

\* The keys of a channel: the one command that carries them.
LEMMA KeyedFacts ==
  ASSUME NEW g \in Gateways, rows \in Rows, NEW typed \in Shown(rows) \cup {None}
  PROVE  LET h == Keyed(g, typed)
         IN  /\ h \in Gateways /\ Keeps(g, h) /\ Elsewhere(g, h) /\ Guarded(g, h, "DetachClient")
             /\ ~g.attached => Guarded(g, h, "SendKeys")
<1>1. CASE typed = None
  <2>1. Keyed(g, typed) = g
    BY <1>1 DEF Keyed
  <2> QED BY <2>1 DEF Keeps, Elsewhere, Guarded
<1>2. CASE typed # None
  <2> DEFINE ask == Ask("SendKeys", rows[typed].pane)
  <2>1. Keyed(g, typed) = Command(g, ask, Ignore)
    BY <1>2 DEF Keyed, Tell
  <2>2. rows[typed].pane \in Pane
    BY <1>2 DEF Rows, Row, AnyRow, Shown
  <2>3. ask \in Question /\ ask[1] = "SendKeys" /\ Ignore \in Intent
    BY <2>2 DEF Ask, Question, Ignore, Intent
  <2> HIDE DEF ask
  <2> QED BY <2>1, <2>3, CommandFacts
<1> QED BY <1>1, <1>2

-----------------------------------------------------------------------------
(***************************************************************************)
(* What tmux has said and nobody has read yet.                             *)
(***************************************************************************)
\* ls brings the answers of q, in order, and no other.
Owes(ls, q) == \E d : Dues(ls, d) /\ d[0] = q /\ d[Len(ls)] = <<>>

LEMMA OwesNothing ==
  ASSUME NEW ls \in Seq(LineSet), \A i \in 1 .. Len(ls) : ~IsReply(ls[i])
  PROVE  Owes(ls, <<>>)
<1> DEFINE d == [k \in 0 .. Len(ls) |-> <<>>]
<1>1. d \in [0 .. Len(ls) -> Seq(Question)] /\ Len(ls) \in Nat
  OBVIOUS
<1>2. \A k \in 1 .. Len(ls) : d[k - 1] = Due(ls[k], d[k])
  <2> SUFFICES ASSUME NEW k \in 1 .. Len(ls) PROVE d[k - 1] = Due(ls[k], d[k])
    OBVIOUS
  <2>1. k - 1 \in 0 .. Len(ls) /\ k \in 0 .. Len(ls)
    OBVIOUS
  <2> QED BY <2>1 DEF Due, IsReply
<1>3. d[0] = <<>> /\ d[Len(ls)] = <<>>
  BY <1>1
<1> HIDE DEF d
<1> QED BY <1>1, <1>2, <1>3 DEF Owes, Dues

LEMMA OwesOne ==
  ASSUME NEW l \in LineSet, IsReply(l), l.of \in Question
  PROVE  Owes(<<l>>, <<l.of>>)
<1> DEFINE d == [k \in 0 .. 1 |-> IF k = 0 THEN <<l.of>> ELSE <<>>]
<1>1. Len(<<l>>) = 1 /\ <<l>>[1] = l
  OBVIOUS
<1>2. d \in [0 .. 1 -> Seq(Question)] /\ d[0] = <<l.of>> /\ d[1] = <<>>
  OBVIOUS
<1> HIDE DEF d
<1>3. Due(l, <<>>) = <<l.of>>
  <2>1. <<l.of>> \in Seq(Question) /\ <<l.of>> \o <<>> = <<l.of>>
    OBVIOUS
  <2> QED BY <2>1 DEF Due, IsReply
<1>4. \A k \in 1 .. 1 : d[k - 1] = Due(<<l>>[k], d[k])
  BY <1>1, <1>2, <1>3
<1> QED BY <1>1, <1>2, <1>4 DEF Owes, Dues

LEMMA OwesJoined ==
  ASSUME NEW a \in Seq(LineSet), NEW b \in Seq(LineSet), NEW q \in Seq(Question), NEW r \in Seq(Question),
         Owes(a, q), Owes(b, r)
  PROVE  Owes(a \o b, q \o r)
<1> DEFINE m == Len(a)
           n == Len(b)
           ls == a \o b
<1>1. /\ m \in Nat /\ n \in Nat /\ Len(ls) = m + n
      /\ \A i \in 1 .. m + n : ls[i] = IF i <= m THEN a[i] ELSE b[i - m]
  BY ConcatProperties
<1>2. PICK d : d \in [0 .. m -> Seq(Question)] /\ (\A k \in 1 .. m : d[k - 1] = Due(a[k], d[k]))
               /\ d[0] = q /\ d[m] = <<>>
  BY DEF Owes, Dues
<1>3. PICK e : e \in [0 .. n -> Seq(Question)] /\ (\A k \in 1 .. n : e[k - 1] = Due(b[k], e[k]))
               /\ e[0] = r /\ e[n] = <<>>
  BY DEF Owes, Dues
<1> HIDE DEF m, n, ls
<1> DEFINE f == [k \in 0 .. m + n |-> IF k <= m THEN d[k] \o r ELSE e[k - m]]
<1>4. \A k \in 0 .. m : k \in 0 .. m + n /\ k <= m /\ f[k] = d[k] \o r /\ d[k] \in Seq(Question)
  BY <1>1, <1>2
<1>5. \A k \in 0 .. n : m + k \in 0 .. m + n /\ f[m + k] = e[k]
  <2> SUFFICES ASSUME NEW k \in 0 .. n PROVE m + k \in 0 .. m + n /\ f[m + k] = e[k]
    OBVIOUS
  <2>1. m + k \in 0 .. m + n /\ (k = 0 => m + k = m) /\ (k # 0 => ~(m + k <= m)) /\ m + k - m = k
    BY <1>1
  <2>2. CASE k = 0
    <3>1. f[m] = <<>> \o r
      BY <1>1, <1>2, <1>4
    <3>2. <<>> \o r = r
      OBVIOUS
    <3> QED BY <1>3, <2>1, <2>2, <3>1, <3>2
  <2>3. CASE k # 0
    <3> DEFINE j == m + k
    <3>1. j \in 0 .. m + n /\ ~(j <= m) /\ j - m = k
      <4>1. k \in Nat /\ m \in Nat /\ k <= n /\ k > 0 /\ n \in Nat
        BY <1>1, <2>3
      <4> QED BY <4>1
    <3> HIDE DEF j
    <3>2. f[j] = e[j - m]
      BY <3>1
    <3>3. f[m + k] = e[j - m]
      BY <3>2 DEF j
    <3> QED BY <2>1, <3>1, <3>3
  <2> QED BY <2>2, <2>3
<1>6. f \in [0 .. m + n -> Seq(Question)]
  <2>1. ASSUME NEW k \in 0 .. m + n PROVE (IF k <= m THEN d[k] \o r ELSE e[k - m]) \in Seq(Question)
    <3>1. CASE k <= m
      <4>1. k \in 0 .. m
        BY <1>1, <3>1
      <4> QED BY <1>2, <3>1, <4>1, ConcatProperties
    <3>2. CASE ~(k <= m)
      <4>1. k - m \in 0 .. n
        BY <1>1, <3>2
      <4> QED BY <1>3, <3>2, <4>1
    <3> QED BY <3>1, <3>2
  <2> QED BY <2>1
<1> HIDE DEF f
<1>7. ASSUME NEW x \in LineSet, NEW s \in Seq(Question) PROVE Due(x, s) \o r = Due(x, s \o r)
  <2>1. CASE x.line = "Block" /\ x.flagged
    <3>1. x.of \in Question
      BY <2>1 DEF LineSet, BlockLine, Notice
    <3>2. <<x.of>> \in Seq(Question)
      BY <3>1
    <3>3. (<<x.of>> \o s) \o r = <<x.of>> \o (s \o r)
      BY <3>2, Regrouped
    <3> QED BY <2>1, <3>3 DEF Due
  <2>2. CASE ~(x.line = "Block" /\ x.flagged)
    BY <2>2 DEF Due
  <2> QED BY <2>1, <2>2
<1>8. ASSUME NEW k \in 1 .. m + n PROVE f[k - 1] = Due(ls[k], f[k])
  <2>1. CASE k <= m
    <3>1. k \in 1 .. m /\ k - 1 \in 0 .. m /\ k \in 0 .. m
      BY <1>1, <2>1
    <3>2. f[k] = d[k] \o r /\ f[k - 1] = d[k - 1] \o r /\ d[k - 1] = Due(a[k], d[k]) /\ d[k] \in Seq(Question)
      BY <1>2, <1>4, <3>1
    <3>3. ls[k] = a[k] /\ a[k] \in LineSet
      BY <1>1, <2>1, <3>1 DEF m
    <3> QED BY <1>7, <3>2, <3>3
  <2>2. CASE ~(k <= m)
    <3> DEFINE j == k - m
    <3>1. j \in 1 .. n /\ j \in 0 .. n /\ j - 1 \in 0 .. n /\ m + j = k /\ m + (j - 1) = k - 1
      BY <1>1, <2>2
    <3>2. ls[k] = b[j]
      BY <1>1, <2>2
    <3> HIDE DEF j
    <3>3. f[k] = e[j] /\ f[k - 1] = e[j - 1]
      BY <1>5, <3>1
    <3>4. e[j - 1] = Due(b[j], e[j])
      BY <1>3, <3>1
    <3> QED BY <3>2, <3>3, <3>4
  <2> QED BY <2>1, <2>2
<1>9. f[0] = q \o r /\ f[m + n] = <<>>
  <2>1. 0 \in 0 .. m /\ n \in 0 .. n
    BY <1>1
  <2> QED BY <1>2, <1>3, <1>4, <1>5, <2>1
<1>10. Len(ls) = m + n
  BY <1>1
<1> QED BY <1>6, <1>8, <1>9, <1>10 DEF Owes, Dues, ls

\* Some lines read, the rest to come.
LEMMA DuesCut ==
  ASSUME NEW ls \in Seq(LineSet), NEW n \in 0 .. Len(ls), NEW q, Owes(ls, q)
  PROVE  \E d, r : /\ Dues(SubSeq(ls, 1, n), d) /\ d[0] = q /\ d[n] = r /\ r \in Seq(Question)
                   /\ Len(SubSeq(ls, 1, n)) = n
                   /\ Owes(SubSeq(ls, n + 1, Len(ls)), r)
<1> DEFINE m == Len(ls)
           a == SubSeq(ls, 1, n)
           b == SubSeq(ls, n + 1, m)
<1>1. PICK d : d \in [0 .. m -> Seq(Question)] /\ (\A k \in 1 .. m : d[k - 1] = Due(ls[k], d[k]))
               /\ d[0] = q /\ d[m] = <<>>
  BY DEF Owes, Dues
<1>2. m \in Nat /\ n \in Nat /\ n <= m
  OBVIOUS
<1>3. Len(a) = n /\ \A i \in 1 .. n : a[i] = ls[i]
  <2>1. \A i \in 1 .. n : i \in 1 .. m
    BY <1>2
  <2> QED BY <1>2, <2>1, SubSeqProperties
<1>4. Len(b) = m - n /\ \A i \in 1 .. m - n : b[i] = ls[n + i]
  <2>1. \A i \in n + 1 .. m : i \in 1 .. m
    BY <1>2
  <2> QED BY <1>2, <2>1, SubSeqProperties
<1> HIDE DEF m, a, b
<1> DEFINE d1 == [k \in 0 .. n |-> d[k]]
           d2 == [k \in 0 .. m - n |-> d[n + k]]
<1>5. d1 \in [0 .. n -> Seq(Question)] /\ d1[0] = q /\ d1[n] = d[n] /\ d[n] \in Seq(Question)
      /\ \A k \in 1 .. n : d1[k - 1] = Due(a[k], d1[k])
  <2>1. \A k \in 0 .. n : k \in 0 .. m
    BY <1>2
  <2>2. 0 \in 0 .. n /\ n \in 0 .. n /\ \A k \in 1 .. n : k \in 1 .. m /\ k \in 0 .. n /\ k - 1 \in 0 .. n
    BY <1>2
  <2> QED BY <1>1, <1>3, <2>1, <2>2
<1>6. d2 \in [0 .. m - n -> Seq(Question)] /\ d2[0] = d[n] /\ d2[m - n] = <<>>
      /\ \A k \in 1 .. m - n : d2[k - 1] = Due(b[k], d2[k])
  <2>1. \A k \in 0 .. m - n : n + k \in 0 .. m
    BY <1>2
  <2>2. 0 \in 0 .. m - n /\ m - n \in 0 .. m - n /\ n + 0 = n /\ n + (m - n) = m
    BY <1>2
  <2>3. \A k \in 1 .. m - n : n + k \in 1 .. m /\ k \in 0 .. m - n /\ k - 1 \in 0 .. m - n /\ n + (k - 1) = (n + k) - 1
    BY <1>2
  <2> QED BY <1>1, <1>4, <2>1, <2>2, <2>3
<1> HIDE DEF d1, d2
<1>7. Dues(a, d1) /\ Owes(b, d[n])
  BY <1>3, <1>4, <1>5, <1>6 DEF Dues, Owes
<1> QED BY <1>3, <1>5, <1>7 DEF a, b, m
\* All q's answers and nothing else that could pass for one: `said` by a server
\* that flags them, and by one that does not.
Saying(said, q) ==
  /\ said \in Seq(LineSet)
  /\ tmux.honest => Owes(said, q) /\ \A i \in 1 .. Len(said) : ~IsStray(said[i])
  /\ ~tmux.honest => \A i \in 1 .. Len(said) : ~IsReply(said[i])

LEMMA SaidNotices == ASSUME NEW s \in Seq(Notice) PROVE Saying(s, <<>>)
<1>1. s \in Seq(LineSet) /\ \A i \in 1 .. Len(s) : s[i] \in Notice
  BY DEF LineSet
<1>2. \A i \in 1 .. Len(s) : ~IsReply(s[i]) /\ ~IsStray(s[i])
  BY <1>1 DEF Notice, IsReply, IsStray
<1> QED BY <1>1, <1>2, OwesNothing DEF Saying

LEMMA SaidAnswer ==
  ASSUME NEW ask \in Question, NEW error, NEW body, Answer(ask, error, body) \in BlockLine
  PROVE  Saying(<<Answer(ask, error, body)>>, <<ask>>)
<1> DEFINE l == Answer(ask, error, body)
<1>1. l.of = ask /\ l.line = "Block" /\ l.flagged = tmux.honest /\ l \in LineSet
  BY DEF Answer, LineSet
<1> HIDE DEF l
<1>2. <<l>> \in Seq(LineSet) /\ Len(<<l>>) = 1 /\ <<l>>[1] = l
  BY <1>1
<1>3. tmux.honest => Owes(<<l>>, <<ask>>)
  BY <1>1, OwesOne DEF IsReply
<1>4. (tmux.honest => ~IsStray(l)) /\ (~tmux.honest => ~IsReply(l))
  BY <1>1 DEF IsStray, IsReply
<1> QED BY <1>2, <1>3, <1>4 DEF Saying, l

LEMMA SaidJoined ==
  ASSUME NEW a, NEW b, NEW q \in Seq(Question), NEW r \in Seq(Question), Saying(a, q), Saying(b, r)
  PROVE  Saying(a \o b, q \o r)
<1>1. a \in Seq(LineSet) /\ b \in Seq(LineSet)
  BY DEF Saying
<1>2. /\ a \o b \in Seq(LineSet) /\ Len(a \o b) = Len(a) + Len(b) /\ Len(a) \in Nat /\ Len(b) \in Nat
      /\ \A i \in 1 .. Len(a) + Len(b) : (a \o b)[i] = IF i <= Len(a) THEN a[i] ELSE b[i - Len(a)]
  BY <1>1, ConcatProperties
<1>3. ASSUME NEW i \in 1 .. Len(a \o b)
      PROVE  (\E k \in 1 .. Len(a) : (a \o b)[i] = a[k]) \/ (\E k \in 1 .. Len(b) : (a \o b)[i] = b[k])
  <2>1. CASE i <= Len(a)
    <3>1. i \in 1 .. Len(a) /\ (a \o b)[i] = a[i]
      BY <1>2, <2>1
    <3> QED BY <3>1
  <2>2. CASE ~(i <= Len(a))
    <3>1. i - Len(a) \in 1 .. Len(b) /\ (a \o b)[i] = b[i - Len(a)]
      BY <1>2, <2>2
    <3> QED BY <3>1
  <2> QED BY <2>1, <2>2
<1>4. tmux.honest => Owes(a \o b, q \o r)
  BY <1>1, OwesJoined DEF Saying
<1> HIDE DEF IsStray, IsReply
<1>5. tmux.honest => \A i \in 1 .. Len(a \o b) : ~IsStray((a \o b)[i])
  BY <1>3 DEF Saying
<1>6. ~tmux.honest => \A i \in 1 .. Len(a \o b) : ~IsReply((a \o b)[i])
  BY <1>3 DEF Saying
<1> QED BY <1>2, <1>4, <1>5, <1>6 DEF Saying

\* Notices after an answer answer nothing more.
LEMMA SaidMore ==
  ASSUME NEW a, NEW q \in Seq(Question), Saying(a, q), NEW s \in Seq(Notice)
  PROVE  Saying(a \o s, q)
<1>1. Saying(s, <<>>) /\ <<>> \in Seq(Question) /\ q \o <<>> = q
  BY SaidNotices, ConcatEmptySeq
<1> QED BY <1>1, SaidJoined

-----------------------------------------------------------------------------
(***************************************************************************)
(* The server.                                                             *)
(***************************************************************************)
Servers ==
  [active : [Window -> Pane \cup {None}], home : [Pane -> Window \cup {None}],
   windows : Nat, panes : Nat, printed : [Pane -> Bytes],
   channel : [Window -> Slot \cup {None}], client : Size, size : [Window -> Size],
   made : SUBSET (Window \cup {None}), attached : BOOLEAN, over : BOOLEAN, honest : BOOLEAN]
\* The invariant, in parts: the gateway between two steps; what a server that
\* flags its answers is never taken for; the lines under way and whom they
\* answer; the surface's rows; the server; the clock and the bound.
Fit ==
  /\ gw \in Gateways /\ gw.out = <<>> /\ gw.mood = "takes"
  /\ gw.gone <=> ~gw.attached
  /\ Shedding \/ ~gw.crossed

LetBe(g) == \A i \in 1 .. Len(Sent(g)) : Sent(g)[i][1] # "DetachClient"

Trusting == tmux.honest => ~gw.unsolicited /\ (gw.detaching \/ LetBe(gw))

Strays(ls, opened) == \A i \in 1 .. Len(ls) : IsStray(ls[i]) => i = 1 /\ ~opened

Following ==
  /\ lines \in Seq(LineSet)
  /\ tmux.honest => /\ \E q \in Seq(Question) : Owes(lines, q) /\ Paired(gw, q)
                    /\ Strays(lines, gw.opened)
  /\ ~tmux.honest => \A i \in 1 .. Len(lines) : ~IsReply(lines[i])

Seated == rows \in Rows /\ owed \in Owed /\ Shown(rows) \subseteq Known(gw)

Serving == tmux \in Servers

Counting == late \in BOOLEAN /\ budget \in 0 .. Events

IInv == Fit /\ Trusting /\ Following /\ Seated /\ Serving /\ Counting

\* More is said, and the pairing is kept for it.
LEMMA FollowsOn ==
  ASSUME Following, NEW said, NEW q \in Seq(Question), Saying(said, q), lines' = lines \o said,
         tmux'.honest = tmux.honest, gw'.opened = gw.opened,
         \A due \in Seq(Question) : Paired(gw, due) => Paired(gw', due \o q)
  PROVE  Following'
<1>1. lines \in Seq(LineSet) /\ said \in Seq(LineSet)
  BY DEF Following, Saying
<1>2. /\ lines' \in Seq(LineSet) /\ Len(lines') = Len(lines) + Len(said) /\ Len(lines) \in Nat /\ Len(said) \in Nat
      /\ \A i \in 1 .. Len(lines) + Len(said) : lines'[i] = IF i <= Len(lines) THEN lines[i] ELSE said[i - Len(lines)]
  BY <1>1, ConcatProperties
<1>3. ASSUME NEW i \in 1 .. Len(lines')
      PROVE  (i \in 1 .. Len(lines) /\ lines'[i] = lines[i]) \/ (\E k \in 1 .. Len(said) : lines'[i] = said[k])
  <2>1. CASE i <= Len(lines)
    <3>1. i \in 1 .. Len(lines) /\ lines'[i] = lines[i]
      BY <1>2, <2>1
    <3> QED BY <3>1
  <2>2. CASE ~(i <= Len(lines))
    <3>1. i - Len(lines) \in 1 .. Len(said) /\ lines'[i] = said[i - Len(lines)]
      BY <1>2, <2>2
    <3> QED BY <3>1
  <2> QED BY <2>1, <2>2
<1>4. ASSUME tmux.honest PROVE \E r \in Seq(Question) : Owes(lines', r) /\ Paired(gw', r)
  <2>1. PICK due \in Seq(Question) : Owes(lines, due) /\ Paired(gw, due)
    BY <1>4 DEF Following
  <2>2. Owes(lines', due \o q) /\ due \o q \in Seq(Question)
    BY <1>1, <1>4, <2>1, OwesJoined, Regrouped DEF Saying
  <2>3. Paired(gw', due \o q)
    BY <2>1
  <2> QED BY <2>2, <2>3
<1>5. ASSUME tmux.honest PROVE Strays(lines', gw'.opened)
  <2>1. ASSUME NEW i \in 1 .. Len(lines'), IsStray(lines'[i]) PROVE i = 1 /\ ~gw'.opened
    <3>1. i \in 1 .. Len(lines) /\ IsStray(lines[i])
      <4> HIDE DEF IsStray
      <4> QED BY <1>3, <1>5, <2>1 DEF Saying
    <3> QED BY <1>5, <3>1 DEF Following, Strays
  <2> QED BY <2>1 DEF Strays
<1>6. ASSUME ~tmux.honest PROVE \A i \in 1 .. Len(lines') : ~IsReply(lines'[i])
  BY <1>3, <1>6 DEF Following, Saying
<1> QED BY <1>2, <1>4, <1>5, <1>6 DEF Following

\* Nothing more is said.
LEMMA FollowsStill ==
  ASSUME Following, lines' = lines, tmux'.honest = tmux.honest, gw'.opened = gw.opened,
         \A due \in Seq(Question) : Paired(gw, due) => Paired(gw', due)
  PROVE  Following'
<1>1. tmux.honest => \E q \in Seq(Question) : Owes(lines', q) /\ Paired(gw', q)
  BY DEF Following
<1>2. Strays(lines, gw.opened) => Strays(lines', gw'.opened)
  BY DEF Strays
<1> QED BY <1>1, <1>2 DEF Following

-----------------------------------------------------------------------------
(***************************************************************************)
(* What tmux does by itself.                                               *)
(***************************************************************************)
\* A step of the server's own: t is what it becomes.
Changes(t) == t \in Servers /\ t.honest = tmux.honest

LEMMA NoticeMade ==
  /\ \A p \in Pane, b \in Pane \X Nat : Line("Output", <<p, b>>) \in Notice
  /\ \A word \in {"SessionsChanged", "SessionChanged", "Exit", "Foreign", "ST"} : Line(word, None) \in Notice
  /\ \A word \in {"WindowAdd", "WindowClose", "LayoutChange"}, w \in Window : Line(word, w) \in Notice
  /\ \A w \in Window, p \in Pane : Line("WindowPaneChanged", <<w, p>>) \in Notice
  /\ Farewell \in Seq(Notice)
<1>1. /\ \A p \in Pane, b \in Pane \X Nat : Line("Output", <<p, b>>) \in Notice
      /\ \A word \in {"SessionsChanged", "SessionChanged", "Exit", "Foreign", "ST"} : Line(word, None) \in Notice
      /\ \A word \in {"WindowAdd", "WindowClose", "LayoutChange"}, w \in Window : Line(word, w) \in Notice
      /\ \A w \in Window, p \in Pane : Line("WindowPaneChanged", <<w, p>>) \in Notice
  BY DEF Line, Notice
<1> QED BY <1>1 DEF Farewell

LEMMA NoneApart == 0 \notin Window /\ 0 \notin Pane /\ 0 \notin Slot /\ Window \subseteq Nat /\ Pane \subseteq Nat
BY GatewayAssumption DEF Window, Pane, Slot

LEMMA PairJoined == ASSUME NEW a, NEW b PROVE <<a, b>> = <<a>> \o <<b>>
<1> DEFINE S == {a, b}
<1>1. a \in S /\ b \in S
  OBVIOUS
<1> HIDE DEF S
<1>2. /\ <<a>> \in Seq(S) /\ Len(<<a>>) = 1 /\ <<a>>[1] = a
      /\ <<b>> \in Seq(S) /\ Len(<<b>>) = 1 /\ <<b>>[1] = b
      /\ <<a, b>> \in Seq(S) /\ Len(<<a, b>>) = 2 /\ <<a, b>>[1] = a /\ <<a, b>>[2] = b
  BY <1>1
<1>3. /\ <<a>> \o <<b>> \in Seq(S) /\ Len(<<a>> \o <<b>>) = 2
      /\ \A i \in 1 .. 2 : (<<a>> \o <<b>>)[i] = IF i <= 1 THEN <<a>>[i] ELSE <<b>>[i - 1]
  BY <1>2, ConcatProperties
<1>4. \A i \in 1 .. 2 : (<<a>> \o <<b>>)[i] = <<a, b>>[i]
  <2>1. (<<a>> \o <<b>>)[1] = a /\ (<<a>> \o <<b>>)[2] = b
    BY <1>2, <1>3
  <2> QED BY <1>2, <2>1
<1> QED BY <1>2, <1>3, <1>4, SeqEqual

LEMMA OpenedFacts ==
  ASSUME NEW t \in Servers, NEW w \in Window, NEW p \in Pane
  PROVE  Opened(t, w, p) \in Servers /\ Opened(t, w, p).honest = t.honest
BY NoneApart DEF Opened, Servers

LEMMA UnwoundFacts ==
  ASSUME NEW t \in Servers, NEW w \in Window
  PROVE  Unwound(t, w) \in Servers /\ Unwound(t, w).honest = t.honest
BY DEF Unwound, Servers, None

LEMMA ClosesFacts ==
  ASSUME Serving, NEW w \in Window, NEW q \in Seq(Question), NEW a, Saying(a, q), Closes(w, a)
  PROVE  Changes(tmux') /\ \E said : Saying(said, q) /\ lines' = lines \o said
<1> DEFINE t == Unwound(tmux, w)
           first == a \o <<Line("WindowClose", w)>>
<1>1. t \in Servers /\ t.honest = tmux.honest
  BY UnwoundFacts DEF Serving
<1>2. Line("WindowClose", w) \in Notice /\ Farewell \in Seq(Notice)
  BY NoticeMade
<1>3. <<Line("WindowClose", w)>> \in Seq(Notice)
  BY <1>2
<1>4. Saying(first, q) /\ Saying(first \o Farewell, q)
  BY <1>2, <1>3, SaidMore
<1> HIDE DEF t, first
<1>5. Closes(w, a) <=> IF Lit(t) # {} THEN Says(t, first) ELSE Says([t EXCEPT !.over = TRUE], first \o Farewell)
  BY DEF Closes, t, first
<1>6. [t EXCEPT !.over = TRUE] \in Servers /\ [t EXCEPT !.over = TRUE].honest = tmux.honest
  BY <1>1 DEF Servers
<1>7. CASE Lit(t) # {}
  BY <1>1, <1>4, <1>5, <1>7 DEF Says, Changes
<1>8. CASE ~(Lit(t) # {})
  BY <1>4, <1>5, <1>6, <1>8 DEF Says, Changes
<1> QED BY <1>7, <1>8

LEMMA MakesWindowFacts ==
  ASSUME Serving, NEW ask \in Question, ask[1] = "NewWindow", MakesWindow(ask)
  PROVE  Changes(tmux') /\ \E said : Saying(said, <<ask>>) /\ lines' = lines \o said
<1> DEFINE w == tmux.windows + 1
           p == tmux.panes + 1
<1>1. Answer(ask, FALSE, None) \in BlockLine /\ Answer(ask, TRUE, None) \in BlockLine
  BY DEF Answer, BlockLine, Serving, Servers
<1>2. <<ask>> \in Seq(Question)
  OBVIOUS
<1>3. CASE w \in Window /\ p \in Pane
  <2> DEFINE t == Opened(tmux, w, p)
             after == [t EXCEPT !.made = @ \cup {w}]
             said == <<Answer(ask, FALSE, None)>> \o <<Line("WindowAdd", w)>>
  <2>1. t \in Servers /\ t.honest = tmux.honest
    BY <1>3, OpenedFacts DEF Serving
  <2> HIDE DEF t
  <2>2. after \in Servers /\ after.honest = tmux.honest
    BY <1>3, <2>1 DEF Servers
  <2> HIDE DEF after
  <2>3. <<Answer(ask, FALSE, None), Line("WindowAdd", w)>> = said
    BY PairJoined
  <2>4. Says(after, said)
    BY <1>3, <2>3 DEF MakesWindow, after, t
  <2>5. Line("WindowAdd", w) \in Notice
    BY <1>3, NoticeMade
  <2>6. <<Line("WindowAdd", w)>> \in Seq(Notice)
    BY <2>5
  <2>7. Saying(said, <<ask>>)
    BY <1>1, <1>2, <2>6, SaidAnswer, SaidMore
  <2> HIDE DEF said
  <2> QED BY <2>2, <2>4, <2>7 DEF Says, Changes
<1>4. CASE ~(w \in Window /\ p \in Pane)
  <2> DEFINE after == [tmux EXCEPT !.made = @ \cup {None}]
  <2>1. Says(after, <<Answer(ask, TRUE, None)>>)
    BY <1>4 DEF MakesWindow
  <2>2. after \in Servers /\ after.honest = tmux.honest
    BY DEF Servers, Serving
  <2> HIDE DEF after
  <2>3. Saying(<<Answer(ask, TRUE, None)>>, <<ask>>)
    BY <1>1, SaidAnswer
  <2> QED BY <2>1, <2>2, <2>3 DEF Says, Changes
<1> QED BY <1>3, <1>4
\* What each question asks about.
LEMMA QuestionOf ==
  ASSUME NEW ask \in Question
  PROVE  /\ ask[1] \in {"Capture", "Cursor", "SendKeys"} => ask[2] \in Pane
         /\ ask[1] \in {"LayoutPanes", "NextPane", "KillWindow"} => ask[2] \in Window
         /\ ask[1] = "ClientSize" => ask[2] \in Size
         /\ ask[1] = "WindowSize" => ask[2][1] \in Window /\ ask[2][2] \in Size
         /\ ask[1] = "SetChannel" => ask[2][1] \in Window /\ ask[2][2] \in Slot
BY DEF Question, Intent

LEMMA ExecuteFacts ==
  ASSUME Serving, NEW ask \in Question, Execute(ask)
  PROVE  Changes(tmux') /\ \E said : Saying(said, <<ask>>) /\ lines' = lines \o said
<1> DEFINE done == <<Answer(ask, FALSE, None)>>
           fail == <<Answer(ask, TRUE, None)>>
           listing == [active |-> tmux.active, channel |-> tmux.channel]
<1>1. <<ask>> \in Seq(Question) /\ tmux \in Servers
  BY DEF Serving
<1>2. Saying(fail, <<ask>>)
  <2>1. Answer(ask, TRUE, None) \in BlockLine
    BY <1>1 DEF Answer, BlockLine, Servers
  <2> QED BY <2>1, SaidAnswer
<1>3. ask[1] \notin {"ListPanes", "Capture", "LayoutPanes"} => Saying(done, <<ask>>)
  <2>1. ask[1] \notin {"ListPanes", "Capture", "LayoutPanes"} => Answer(ask, FALSE, None) \in BlockLine
    BY <1>1 DEF Answer, BlockLine, Servers
  <2> QED BY <2>1, SaidAnswer
<1> HIDE DEF fail, done
<1>4. ASSUME NEW t, Changes(t), NEW said, Saying(said, <<ask>>), Says(t, said)
      PROVE  Changes(tmux') /\ \E s : Saying(s, <<ask>>) /\ lines' = lines \o s
  BY <1>4 DEF Says, Changes
<1>5. Changes(tmux)
  BY <1>1 DEF Changes
<1>6. CASE ask[1] = "ListPanes"
  <2>1. Says(tmux, <<Answer(ask, FALSE, listing)>>)
    BY <1>6 DEF Execute
  <2>2. Answer(ask, FALSE, listing) \in BlockLine
    BY <1>1, <1>6 DEF Answer, BlockLine, Servers, Listing
  <2> QED BY <1>4, <1>5, <2>1, <2>2, SaidAnswer
<1>7. CASE ask[1] \in {"Capture", "Cursor"}
  <2>1. ask[2] \in Pane
    BY <1>7, QuestionOf
  <2>2. Says(tmux, fail) \/ Says(tmux, <<Answer(ask, FALSE, tmux.printed[ask[2]])>>)
    BY <1>7 DEF Execute, fail
  <2>3. Answer(ask, FALSE, tmux.printed[ask[2]]) \in BlockLine
    BY <1>1, <1>7, <2>1 DEF Answer, BlockLine, Servers
  <2> QED BY <1>2, <1>4, <1>5, <2>2, <2>3, SaidAnswer
<1>8. CASE ask[1] = "LayoutPanes"
  <2>1. ask[2] \in Window
    BY <1>8, QuestionOf
  <2>2. \/ Says(tmux, fail)
        \/ tmux.active[ask[2]] # None /\ Says(tmux, <<Answer(ask, FALSE, tmux.active[ask[2]])>>)
    BY <1>8 DEF Execute, fail
  <2>3. tmux.active[ask[2]] # None => Answer(ask, FALSE, tmux.active[ask[2]]) \in BlockLine
    BY <1>1, <1>8, <2>1 DEF Answer, BlockLine, Servers
  <2> QED BY <1>2, <1>4, <1>5, <2>2, <2>3, SaidAnswer
<1>9. CASE ask[1] = "ClientSize"
  <2>1. ask[2] \in Size
    BY <1>9, QuestionOf
  <2>2. Says([tmux EXCEPT !.client = ask[2]], done)
    BY <1>9 DEF Execute, done
  <2>3. Changes([tmux EXCEPT !.client = ask[2]])
    BY <1>1, <2>1 DEF Changes, Servers
  <2> QED BY <1>3, <1>4, <1>9, <2>2, <2>3
<1>10. CASE ask[1] = "WindowSize"
  <2> DEFINE t == [tmux EXCEPT !.size[ask[2][1]] = ask[2][2]]
  <2>1. ask[2][1] \in Window /\ ask[2][2] \in Size
    BY <1>10, QuestionOf
  <2>2. Says(tmux, fail) \/ Says(t, done)
    BY <1>10 DEF Execute, done, fail
  <2>3. Changes(t)
    BY <1>1, <2>1 DEF Changes, Servers
  <2> HIDE DEF t
  <2> QED BY <1>2, <1>3, <1>4, <1>5, <1>10, <2>2, <2>3
<1>11. CASE ask[1] = "NextPane"
  <2> DEFINE of == ask[2]
  <2>1. of \in Window
    BY <1>11, QuestionOf
  <2>2. CASE tmux.active[of] = None
    <3>1. Says(tmux, fail)
      BY <1>11, <2>2 DEF Execute, fail
    <3> QED BY <1>2, <1>4, <1>5, <3>1
  <2>3. CASE tmux.active[of] # None
    <3>1. PICK p \in PanesOf(tmux, of) :
            Says([tmux EXCEPT !.active[of] = p],
                 done \o (IF p = tmux.active[of] THEN <<>> ELSE <<Line("WindowPaneChanged", <<of, p>>)>>))
      BY <1>11, <2>3 DEF Execute, done
    <3> DEFINE t == [tmux EXCEPT !.active[of] = p]
               more == IF p = tmux.active[of] THEN <<>> ELSE <<Line("WindowPaneChanged", <<of, p>>)>>
    <3>2. p \in Pane
      BY DEF PanesOf
    <3>3. Changes(t)
      BY <1>1, <2>1, <3>2 DEF Changes, Servers
    <3>4. more \in Seq(Notice)
      BY <2>1, <3>2, NoticeMade
    <3> HIDE DEF t, more
    <3>5. Saying(done \o more, <<ask>>)
      BY <1>1, <1>3, <1>11, <3>4, SaidMore
    <3> QED BY <1>4, <3>1, <3>3, <3>5 DEF t, more
  <2> QED BY <2>2, <2>3
<1>12. CASE ask[1] = "SetChannel"
  <2> DEFINE t == [tmux EXCEPT !.channel[ask[2][1]] = ask[2][2]]
  <2>1. ask[2][1] \in Window /\ ask[2][2] \in Slot
    BY <1>12, QuestionOf
  <2>2. Says(tmux, fail) \/ Says(t, done)
    BY <1>12 DEF Execute, done, fail
  <2>3. Changes(t)
    BY <1>1, <2>1 DEF Changes, Servers
  <2> HIDE DEF t
  <2> QED BY <1>2, <1>3, <1>4, <1>5, <1>12, <2>2, <2>3
<1>13. CASE ask[1] = "NewWindow"
  <2>1. MakesWindow(ask)
    BY <1>13 DEF Execute
  <2> QED BY <1>13, <2>1, MakesWindowFacts
<1>14. CASE ask[1] = "KillWindow"
  <2>1. ask[2] \in Window
    BY <1>14, QuestionOf
  <2>2. Says(tmux, fail) \/ Closes(ask[2], done)
    BY <1>14 DEF Execute, done, fail
  <2>3. Saying(done, <<ask>>)
    BY <1>3, <1>14
  <2>4. Closes(ask[2], done) => Changes(tmux') /\ \E s : Saying(s, <<ask>>) /\ lines' = lines \o s
    BY <1>1, <2>1, <2>3, ClosesFacts
  <2> QED BY <1>2, <1>4, <1>5, <2>2, <2>4
<1>15. CASE ask[1] = "DetachClient"
  <2> DEFINE t == [tmux EXCEPT !.over = TRUE]
  <2>1. Says(t, done \o Farewell)
    BY <1>15 DEF Execute, done
  <2>2. Changes(t)
    BY <1>1 DEF Changes, Servers
  <2> HIDE DEF t
  <2>3. Saying(done \o Farewell, <<ask>>)
    BY <1>1, <1>3, <1>15, NoticeMade, SaidMore
  <2> QED BY <1>4, <2>1, <2>2, <2>3
<1>16. CASE ask[1] \notin {"ListPanes", "Capture", "Cursor", "LayoutPanes", "ClientSize", "WindowSize", "NextPane",
                           "SetChannel", "NewWindow", "KillWindow", "DetachClient"}
  <2>1. Says(tmux, done)
    BY <1>16 DEF Execute, done
  <2> QED BY <1>3, <1>4, <1>5, <1>16, <2>1
<1> QED BY <1>6, <1>7, <1>8, <1>9, <1>10, <1>11, <1>12, <1>13, <1>14, <1>15, <1>16
\* A question's parts, the first and the rest.
LEMMA FirstAndRest ==
  ASSUME NEW s \in Seq(Question), s # <<>>
  PROVE  Head(s) \in Question /\ Tail(s) \in Seq(Question) /\ <<Head(s)>> \in Seq(Question) /\ s = <<Head(s)>> \o Tail(s)
<1>1. /\ Head(s) \in Question /\ Tail(s) \in Seq(Question) /\ Len(Tail(s)) = Len(s) - 1 /\ Head(s) = s[1]
      /\ \A i \in 1 .. Len(Tail(s)) : Tail(s)[i] = s[i + 1]
  BY HeadTailProperties
<1>2. <<Head(s)>> \in Seq(Question) /\ Len(<<Head(s)>>) = 1 /\ <<Head(s)>>[1] = Head(s)
  BY <1>1
<1> DEFINE h == <<Head(s)>>
           t == Tail(s)
           n == Len(s)
<1>3. n \in Nat /\ n > 0
  BY EmptySeq
<1>4. h \o t \in Seq(Question) /\ Len(h \o t) = n /\ \A i \in 1 .. n : (h \o t)[i] = IF i <= 1 THEN h[i] ELSE t[i - 1]
  <2> HIDE DEF h, t
  <2>1. Len(h) = 1 /\ Len(t) = n - 1 /\ h \in Seq(Question) /\ t \in Seq(Question)
    BY <1>1, <1>2 DEF h, t
  <2>2. 1 + (n - 1) = n
    BY <1>3
  <2>3. /\ h \o t \in Seq(Question) /\ Len(h \o t) = Len(h) + Len(t)
        /\ \A i \in 1 .. Len(h) + Len(t) : (h \o t)[i] = IF i <= Len(h) THEN h[i] ELSE t[i - Len(h)]
    BY <2>1, ConcatProperties
  <2> QED BY <2>1, <2>2, <2>3
<1>5. ASSUME NEW i \in 1 .. n PROVE (h \o t)[i] = s[i]
  <2>1. CASE i = 1
    <3>1. (h \o t)[i] = h[1]
      BY <1>4, <2>1
    <3> QED BY <1>1, <1>2, <2>1, <3>1
  <2>2. CASE i # 1
    <3> DEFINE j == i - 1
    <3>1. j \in 1 .. Len(t) /\ j + 1 = i /\ ~(i <= 1)
      BY <1>1, <1>3, <2>2
    <3>2. (h \o t)[i] = t[j]
      BY <1>4, <3>1
    <3> HIDE DEF j
    <3>3. t[j] = s[j + 1]
      BY <1>1, <3>1
    <3> QED BY <3>1, <3>2, <3>3
  <2> QED BY <2>1, <2>2
<1> HIDE DEF h, t
<1>6. s = h \o t
  BY <1>4, <1>5, SeqEqual DEF n
<1> QED BY <1>1, <1>2, <1>6 DEF h, t

\* A step after which the invariant stands, and which ends no attachment.
StandsOn == IInv' /\ gw'.gone = gw.gone

\* The server reads a question and answers it.
LEMMA WireReadStep ==
  ASSUME IInv, gw.wire # <<>>, gw' = [gw EXCEPT !.wire = Tail(@)], UNCHANGED <<rows, owed, late>>,
         budget' \in 0 .. Events, Changes(tmux'),
         \E said : Saying(said, <<Head(gw.wire)>>) /\ lines' = lines \o said
  PROVE  StandsOn
<1> DEFINE ask == <<Head(gw.wire)>>
           rest == Tail(gw.wire)
<1>1. gw \in Gateways /\ gw.wire \in Seq(Question) /\ gw.pending \in Seq(Question) /\ gw.asked \in Seq(Intent)
  BY DEF IInv, Fit, Gateways
<1>2. ask \in Seq(Question) /\ rest \in Seq(Question) /\ gw.wire = ask \o rest
  BY <1>1, FirstAndRest
<1>3. Len(ask) = 1
  OBVIOUS
<1>4. PICK said : Saying(said, ask) /\ lines' = lines \o said
  OBVIOUS
<1> HIDE DEF ask
<1>5. /\ gw' \in Gateways /\ gw'.out = gw.out /\ gw'.mood = gw.mood /\ gw'.gone = gw.gone
      /\ gw'.attached = gw.attached /\ gw'.crossed = gw.crossed /\ gw'.unsolicited = gw.unsolicited
      /\ gw'.detaching = gw.detaching /\ gw'.opened = gw.opened /\ gw'.asked = gw.asked
      /\ gw'.wire = rest /\ gw'.pending = gw.pending /\ gw'.windows = gw.windows
  <2>1. gw' = [gw EXCEPT !.wire = rest]
    OBVIOUS
  <2> HIDE DEF rest
  <2> QED BY <1>1, <1>2, <2>1 DEF Gateways
<1> HIDE DEF rest
<1> DEFINE left == Sent(gw')
<1>6. Sent(gw) = ask \o left /\ left \in Seq(Question)
  <2>1. left = rest \o gw.pending
    BY <1>5 DEF Sent
  <2>2. Sent(gw) = (ask \o rest) \o gw.pending
    BY <1>2 DEF Sent
  <2> HIDE DEF left
  <2>3. (ask \o rest) \o gw.pending = ask \o (rest \o gw.pending) /\ rest \o gw.pending \in Seq(Question)
    <3>1. ask \in Seq(Question) /\ rest \in Seq(Question) /\ gw.pending \in Seq(Question)
      BY <1>1, <1>2
    <3> QED BY <3>1, Regrouped
  <2> QED BY <2>1, <2>2, <2>3
<1>7. ASSUME NEW due \in Seq(Question), Paired(gw, due) PROVE Paired(gw', due \o ask)
  <2>1. due \o Sent(gw) = (due \o ask) \o left
    <3> HIDE DEF left
    <3>1. due \in Seq(Question) /\ ask \in Seq(Question) /\ left \in Seq(Question)
      BY <1>2, <1>6
    <3>2. due \o (ask \o left) = (due \o ask) \o left
      BY <3>1, Regrouped
    <3> QED BY <1>6, <3>2
  <2> QED BY <1>5, <1>7, <2>1 DEF Paired
<1>8. ASSUME LetBe(gw) PROVE LetBe(gw')
  <2>1. ASSUME NEW i \in 1 .. Len(Sent(gw')) PROVE Sent(gw')[i][1] # "DetachClient"
    <3>1. /\ Len(ask \o left) = Len(ask) + Len(left) /\ Len(left) \in Nat
          /\ \A k \in 1 .. Len(left) : (ask \o left)[Len(ask) + k] = left[k]
      <4> HIDE DEF left
      <4> QED BY <1>2, <1>6, Joined
    <3>2. Sent(gw)[1 + i] = Sent(gw')[i] /\ Len(Sent(gw)) = 1 + Len(Sent(gw')) /\ Len(Sent(gw')) \in Nat
      BY <1>3, <1>6, <3>1
    <3>3. 1 + i \in 1 .. Len(Sent(gw))
      BY <3>2
    <3> QED BY <1>8, <3>2, <3>3 DEF LetBe
  <2> QED BY <2>1 DEF LetBe
<1>9. Fit'
  BY <1>5 DEF IInv, Fit
<1>10. Trusting'
  BY <1>5, <1>8 DEF IInv, Trusting, Changes
<1>11. Following'
  BY <1>2, <1>4, <1>5, <1>7, FollowsOn DEF IInv, Changes
<1>12. Seated' /\ Serving' /\ Counting'
  BY <1>5 DEF IInv, Seated, Serving, Counting, Changes, Shown, Known
<1> QED BY <1>5, <1>9, <1>10, <1>11, <1>12 DEF IInv, StandsOn

LEMMA ServerReadsStep == ASSUME IInv, ServerReads PROVE StandsOn
<1>1. gw.wire # <<>> /\ gw' = [gw EXCEPT !.wire = Tail(@)] /\ UNCHANGED <<rows, owed, late, budget>> /\ Execute(Head(gw.wire))
  BY DEF ServerReads
<1>2. Head(gw.wire) \in Question
  BY <1>1, FirstAndRest DEF IInv, Fit, Gateways
<1>3. Changes(tmux') /\ \E said : Saying(said, <<Head(gw.wire)>>) /\ lines' = lines \o said
  BY <1>1, <1>2, ExecuteFacts DEF IInv
<1>4. budget' \in 0 .. Events
  BY <1>1 DEF IInv, Counting
<1> QED BY <1>1, <1>3, <1>4, WireReadStep

LEMMA SpendFacts == ASSUME IInv, NEW kind, Spend(kind) PROVE budget' \in 0 .. Events
BY GatewayAssumption DEF IInv, Counting, Spend

LEMMA CaptureFailsStep == ASSUME IInv, CaptureFails PROVE StandsOn
<1> DEFINE ask == Head(gw.wire)
<1>1. /\ gw.wire # <<>> /\ gw' = [gw EXCEPT !.wire = Tail(@)] /\ UNCHANGED <<rows, owed, late>>
      /\ Says(tmux, <<Answer(ask, TRUE, None)>>) /\ budget' \in 0 .. Events
  BY SpendFacts DEF CaptureFails
<1>2. ask \in Question /\ tmux \in Servers
  BY <1>1, FirstAndRest DEF IInv, Fit, Gateways, Serving
<1>3. Answer(ask, TRUE, None) \in BlockLine
  BY <1>2 DEF Answer, BlockLine, Servers
<1>4. Saying(<<Answer(ask, TRUE, None)>>, <<ask>>)
  BY <1>2, <1>3, SaidAnswer
<1>5. Changes(tmux')
  BY <1>1, <1>2 DEF Says, Changes
<1> QED BY <1>1, <1>4, <1>5, WireReadStep DEF Says

-----------------------------------------------------------------------------
(***************************************************************************)
(* What happens by itself, at another client's word, and on the glass.     *)
(***************************************************************************)
LEMMA SaidStep ==
  ASSUME IInv, UNCHANGED <<gw, rows, owed, late>>, budget' \in 0 .. Events, Changes(tmux'),
         \E said : Saying(said, <<>>) /\ lines' = lines \o said
  PROVE  StandsOn
<1>1. PICK said : Saying(said, <<>>) /\ lines' = lines \o said
  OBVIOUS
<1>2. <<>> \in Seq(Question) /\ \A due \in Seq(Question) : due \o <<>> = due
  BY ConcatEmptySeq
<1>3. \A due \in Seq(Question) : Paired(gw, due) => Paired(gw', due \o <<>>)
  BY <1>2
<1>4. Following'
  BY <1>1, <1>2, <1>3, FollowsOn DEF IInv, Changes
<1>5. Fit' /\ Trusting'
  BY DEF IInv, Fit, Trusting, Changes
<1>6. Seated' /\ Serving' /\ Counting'
  BY DEF IInv, Seated, Serving, Counting, Changes
<1> QED BY <1>4, <1>5, <1>6 DEF IInv, StandsOn

LEMMA HappensStep ==
  ASSUME IInv, NEW kind, NEW t, Changes(t), NEW said \in Seq(Notice), Happens(kind, t, said)
  PROVE  StandsOn
<1>1. UNCHANGED <<gw, rows, owed, late>> /\ tmux' = t /\ lines' = lines \o said /\ budget' \in 0 .. Events
  BY SpendFacts DEF Happens, Says
<1>2. Changes(tmux') /\ Saying(said, <<>>)
  BY <1>1, SaidNotices DEF Changes
<1> QED BY <1>1, <1>2, SaidStep

LEMMA WorldStep == ASSUME IInv, World PROVE StandsOn
<1>1. tmux \in Servers
  BY DEF IInv, Serving
<1>2. ASSUME Prints PROVE StandsOn
  <2>1. PICK p \in Pane :
          Happens("Prints", [tmux EXCEPT !.printed[p] = Append(@, <<p, Len(tmux.printed[p]) + 1>>)],
                  <<Line("Output", <<p, <<p, Len(tmux.printed[p]) + 1>>>>)>>)
    BY <1>2 DEF Prints
  <2> DEFINE byte == <<p, Len(tmux.printed[p]) + 1>>
             more == Append(tmux.printed[p], byte)
             t == [tmux EXCEPT !.printed[p] = more]
  <2>2. byte \in Pane \X Nat /\ tmux.printed[p] \in Seq(Pane \X Nat)
    BY <1>1 DEF Servers, Bytes
  <2>3. more \in Bytes
    BY <2>2, AppendProperties DEF Bytes
  <2>4. <<Line("Output", <<p, byte>>)>> \in Seq(Notice)
    BY <2>2, NoticeMade
  <2>5. Happens("Prints", t, <<Line("Output", <<p, byte>>)>>)
    BY <2>1
  <2> HIDE DEF byte, more
  <2>6. Changes(t)
    BY <1>1, <2>3 DEF Changes, Servers
  <2> HIDE DEF t
  <2> QED BY <2>4, <2>5, <2>6, HappensStep
<1>3. ASSUME NewWindow PROVE StandsOn
  <2>1. PICK w \in Window, p \in Pane : Happens("NewWindow", Opened(tmux, w, p), <<Line("WindowAdd", w)>>)
    BY <1>3 DEF NewWindow, Fresh
  <2>2. Changes(Opened(tmux, w, p)) /\ <<Line("WindowAdd", w)>> \in Seq(Notice)
    BY <1>1, OpenedFacts, NoticeMade DEF Changes
  <2> QED BY <2>1, <2>2, HappensStep
<1>4. ASSUME Split PROVE StandsOn
  <2>1. PICK w \in Window, p \in Pane :
          Happens("Split", Opened(tmux, w, p), <<Line("LayoutChange", w), Line("WindowPaneChanged", <<w, p>>)>>)
    BY <1>4 DEF Split, Fresh, Lit
  <2>2. Line("LayoutChange", w) \in Notice /\ Line("WindowPaneChanged", <<w, p>>) \in Notice
    BY NoticeMade
  <2>3. <<Line("LayoutChange", w), Line("WindowPaneChanged", <<w, p>>)>> \in Seq(Notice)
    BY <2>2
  <2>4. Changes(Opened(tmux, w, p))
    BY <1>1, OpenedFacts DEF Changes
  <2> QED BY <2>1, <2>3, <2>4, HappensStep
<1>5. ASSUME SelectPane PROVE StandsOn
  <2>1. PICK w \in Window, p \in Pane :
          Happens("SelectPane", [tmux EXCEPT !.active[w] = p], <<Line("WindowPaneChanged", <<w, p>>)>>)
    BY <1>5 DEF SelectPane, Lit, PanesOf
  <2>2. Changes([tmux EXCEPT !.active[w] = p])
    BY <1>1 DEF Changes, Servers
  <2>3. <<Line("WindowPaneChanged", <<w, p>>)>> \in Seq(Notice)
    BY NoticeMade
  <2> QED BY <2>1, <2>2, <2>3, HappensStep
<1>6. ASSUME KillPane PROVE StandsOn
  <2>1. PICK w \in Window, p \in Pane :
          Happens("KillPane", [tmux EXCEPT !.active[w] = p, !.home[tmux.active[w]] = None], <<Line("LayoutChange", w)>>)
    BY <1>6 DEF KillPane, Lit, PanesOf
  <2>2. <<Line("LayoutChange", w)>> \in Seq(Notice)
    BY NoticeMade
  <2>3. Changes([tmux EXCEPT !.active[w] = p, !.home[tmux.active[w]] = None])
    BY <1>1 DEF Changes, Servers, None
  <2> QED BY <2>1, <2>2, <2>3, HappensStep
<1>7. ASSUME CloseWindow PROVE StandsOn
  <2>1. PICK w \in Window : Closes(w, <<>>)
    BY <1>7 DEF CloseWindow, Lit
  <2>2. UNCHANGED <<gw, rows, owed, late>> /\ budget' \in 0 .. Events
    BY <1>7, SpendFacts DEF CloseWindow
  <2>3. Saying(<<>>, <<>>) /\ <<>> \in Seq(Question)
    <3>1. <<>> \in Seq(Notice) /\ <<>> \in Seq(Question)
      OBVIOUS
    <3> QED BY <3>1, SaidNotices
  <2>4. Changes(tmux') /\ \E said : Saying(said, <<>>) /\ lines' = lines \o said
    BY <2>1, <2>3, ClosesFacts DEF IInv
  <2> QED BY <2>2, <2>4, SaidStep
<1>8. ASSUME SessionsChange PROVE StandsOn
  <2>1. <<Line("SessionsChanged", None)>> \in Seq(Notice) /\ Changes(tmux)
    BY <1>1, NoticeMade DEF Changes
  <2> QED BY <1>8, <2>1, HappensStep DEF SessionsChange
<1>9. Changes([tmux EXCEPT !.over = TRUE])
  BY <1>1 DEF Changes, Servers
<1>10. ASSUME Exits PROVE StandsOn
  BY <1>9, <1>10, HappensStep, NoticeMade DEF Exits
<1>11. ASSUME Dies PROVE StandsOn
  <2>1. PICK word \in {"Foreign", "ST"} : Happens("Dies", [tmux EXCEPT !.over = TRUE], <<Line(word, None)>>)
    BY <1>11 DEF Dies
  <2>2. <<Line(word, None)>> \in Seq(Notice)
    BY NoticeMade
  <2> QED BY <1>9, <2>1, <2>2, HappensStep
<1> QED BY <1>2, <1>3, <1>4, <1>5, <1>6, <1>7, <1>8, <1>10, <1>11 DEF World

LEMMA AttachesStep == ASSUME IInv, Attaches PROVE StandsOn
<1> DEFINE t == [tmux EXCEPT !.attached = TRUE]
           said == <<Line("SessionChanged", None)>>
<1>1. tmux' = t /\ lines' = lines \o said /\ UNCHANGED <<gw, rows, owed, late, budget>>
  BY DEF Attaches, Says
<1>2. Changes(t)
  BY DEF IInv, Serving, Servers, Changes
<1>3. said \in Seq(Notice)
  BY NoticeMade
<1> HIDE DEF t, said
<1>4. Saying(said, <<>>) /\ Changes(tmux') /\ budget' \in 0 .. Events
  BY <1>1, <1>2, <1>3, SaidNotices DEF Changes, IInv, Counting
<1> QED BY <1>1, <1>4, SaidStep
LEMMA LetBeOn ==
  ASSUME NEW g, NEW h, LetBe(g), Guarded(g, h, "DetachClient") PROVE LetBe(h)
BY DEF LetBe, Guarded

\* A command from the glass: nothing is said, and the rows keep their windows.
LEMMA GlassStep ==
  ASSUME IInv, gw' \in Gateways, Elsewhere(gw, gw'),
         gw'.mood = gw.mood, gw'.crossed = gw.crossed, gw'.gone = gw.gone, gw'.opened = gw.opened,
         gw'.unsolicited = gw.unsolicited, \A due \in Seq(Question) : Paired(gw, due) => Paired(gw', due),
         gw'.detaching \/ (gw'.detaching = gw.detaching /\ Guarded(gw, gw', "DetachClient")),
         UNCHANGED <<lines, tmux, late>>, budget' \in 0 .. Events,
         rows' \in Rows, Shown(rows') = Shown(rows), owed' \in Owed
  PROVE  StandsOn
<1>1. Fit'
  BY DEF IInv, Fit, Elsewhere
<1>2. Trusting'
  <2>1. LetBe(gw) /\ Guarded(gw, gw', "DetachClient") => LetBe(gw')
    BY LetBeOn
  <2> QED BY <2>1 DEF IInv, Trusting
<1>3. Following'
  BY FollowsStill DEF IInv
<1>4. Seated'
  BY DEF IInv, Seated, Elsewhere, Known
<1>5. Serving' /\ Counting'
  BY DEF IInv, Serving, Counting
<1> QED BY <1>1, <1>2, <1>3, <1>4, <1>5 DEF IInv, StandsOn

LEMMA TellStep ==
  ASSUME IInv, NEW ask \in Question, ask[1] \notin {"SendKeys", "DetachClient"}, gw' = Tell(gw, ask),
         UNCHANGED <<rows, lines, tmux, late>>, owed' \in Owed, budget' \in 0 .. Events
  PROVE  StandsOn
<1>1. gw \in Gateways /\ rows \in Rows
  BY DEF IInv, Fit, Seated
<1>2. gw' \in Gateways /\ Sends(gw, gw') /\ Elsewhere(gw, gw')
  BY <1>1, TellSends
<1> QED BY <1>1, <1>2, GlassStep DEF Sends, Keeps

LEMMA GlassActionsStep == ASSUME IInv, Glass PROVE StandsOn
<1>1. gw \in Gateways /\ rows \in Rows /\ owed \in Owed
  BY DEF IInv, Fit, Seated
<1>2. ASSUME Resize PROVE StandsOn
  <2>1. PICK size \in {1, 2} : gw' = SetClientSize(gw, size)
    BY <1>2 DEF Resize
  <2>2. UNCHANGED <<rows, owed, lines, tmux, late>> /\ budget' \in 0 .. Events /\ size \in Size
    BY <1>2, SpendFacts DEF Resize, Size
  <2>3. gw' \in Gateways /\ Sends(gw, gw') /\ Elsewhere(gw, gw')
    BY <1>1, <2>1, <2>2, SetClientSizeSends
  <2> QED BY <1>1, <2>2, <2>3, GlassStep DEF Sends, Keeps
<1>3. ASSUME NextPane PROVE StandsOn
  <2>1. PICK w \in Shown(rows) : gw' = Tell(gw, Ask("NextPane", w))
    BY <1>3 DEF NextPane
  <2>2. UNCHANGED <<rows, owed, lines, tmux, late>> /\ budget' \in 0 .. Events
    BY <1>3, SpendFacts DEF NextPane
  <2>3. Ask("NextPane", w) \in Question /\ Ask("NextPane", w)[1] \notin {"SendKeys", "DetachClient"}
    BY DEF Ask, Question, Shown
  <2> QED BY <1>1, <2>1, <2>2, <2>3, TellStep
<1>4. ASSUME AskForWindow PROVE StandsOn
  <2>1. UNCHANGED <<rows, lines, tmux, late>> /\ budget' \in 0 .. Events /\ gw' = Tell(gw, Ask("NewWindow", None))
    BY <1>4, SpendFacts DEF AskForWindow
  <2>2. owed' \in Owed
    BY <1>4 DEF AskForWindow, FreeSlots, Owed
  <2>3. Ask("NewWindow", None) \in Question /\ Ask("NewWindow", None)[1] \notin {"SendKeys", "DetachClient"}
    BY DEF Ask, Question
  <2> QED BY <2>1, <2>2, <2>3, TellStep
<1>5. ASSUME CloseChannel PROVE StandsOn
  <2>1. PICK w \in Shown(rows) : gw' = Tell(gw, Ask("KillWindow", w))
    BY <1>5 DEF CloseChannel
  <2>2. UNCHANGED <<rows, owed, lines, tmux, late>> /\ budget' \in 0 .. Events
    BY <1>5, SpendFacts DEF CloseChannel
  <2>3. Ask("KillWindow", w) \in Question /\ Ask("KillWindow", w)[1] \notin {"SendKeys", "DetachClient"}
    BY DEF Ask, Question, Shown
  <2> QED BY <1>1, <2>1, <2>2, <2>3, TellStep
<1>6. ASSUME Detach PROVE StandsOn
  <2> DEFINE put == [gw EXCEPT !.detaching = TRUE]
             ask == Ask("DetachClient", None)
  <2>1. UNCHANGED <<rows, owed, lines, tmux, late>> /\ budget' \in 0 .. Events /\ gw' = Tell(put, ask)
    BY <1>6, SpendFacts DEF Detach
  <2>2. /\ put \in Gateways /\ Elsewhere(gw, put) /\ put.mood = gw.mood /\ put.crossed = gw.crossed
        /\ put.gone = gw.gone /\ put.opened = gw.opened /\ put.unsolicited = gw.unsolicited /\ put.detaching
        /\ put.asked = gw.asked /\ put.wire = gw.wire /\ put.pending = gw.pending /\ put.attached = gw.attached
    BY <1>1 DEF Gateways, Elsewhere
  <2>3. ask \in Question /\ Ignore \in Intent
    BY DEF Ask, Question, Ignore, Intent
  <2> HIDE DEF put, ask
  <2>4. gw' \in Gateways /\ Keeps(put, gw') /\ Elsewhere(put, gw')
    BY <2>1, <2>2, <2>3, CommandFacts DEF Tell
  <2>5. \A due \in Seq(Question) : Paired(gw, due) => Paired(gw', due)
    <3>1. \A due \in Seq(Question) : Paired(gw, due) => Paired(put, due)
      BY <2>2 DEF Paired, Sent
    <3> QED BY <2>4, <3>1 DEF Keeps
  <2>6. Elsewhere(gw, gw')
    BY <2>2, <2>4, ElsewhereOn
  <2> QED BY <1>1, <2>1, <2>2, <2>4, <2>5, <2>6, GlassStep DEF Keeps
<1>7. ASSUME Store PROVE StandsOn
  <2>1. PICK w \in Shown(rows), slot \in Slot :
          /\ slot # rows[w].slot
          /\ rows' = [v \in Window |-> CASE v = w               -> [rows[v] EXCEPT !.slot = slot]
                                         [] rows[v].slot = slot -> [rows[v] EXCEPT !.slot = rows[w].slot]
                                         [] OTHER               -> rows[v]]
    BY <1>7 DEF Store
  <2>2. UNCHANGED <<gw, owed, lines, tmux, late>> /\ budget' \in 0 .. Events
    BY <1>7, SpendFacts DEF Store
  <2>3. w \in Window /\ rows[w].pane # None /\ rows[w] \in Row /\ rows[w].slot \in Slot /\ slot # rows[w].slot
    <3>1. slot # rows[w].slot
      BY <2>1
    <3> QED BY <1>1, <3>1 DEF Shown, Rows, Row, AnyRow
  <2>4. ASSUME NEW v \in Window
        PROVE  /\ rows'[v] \in Row /\ rows'[v].pane = rows[v].pane
               /\ rows'[v].slot = IF v = w THEN slot ELSE IF rows[v].slot = slot THEN rows[w].slot ELSE rows[v].slot
    <3>1. rows[v] \in Row /\ rows'[v] = CASE v = w               -> [rows[v] EXCEPT !.slot = slot]
                                          [] rows[v].slot = slot -> [rows[v] EXCEPT !.slot = rows[w].slot]
                                          [] OTHER               -> rows[v]
      BY <1>1, <2>1 DEF Rows
    <3>2. CASE v = w
      <4>1. rows'[v] = [rows[v] EXCEPT !.slot = slot]
        BY <3>1, <3>2
      <4> QED BY <2>3, <3>1, <3>2, <4>1, NoneApart DEF Row, AnyRow, None
    <3>3. CASE v # w /\ rows[v].slot = slot
      <4>1. rows'[v] = [rows[v] EXCEPT !.slot = rows[w].slot]
        BY <3>1, <3>3
      <4> QED BY <2>3, <3>1, <3>3, <4>1, NoneApart DEF Row, AnyRow, None
    <3>4. CASE v # w /\ rows[v].slot # slot
      BY <3>1, <3>4
    <3> QED BY <3>2, <3>3, <3>4
  <2>5. rows' \in [Window -> Row] /\ Shown(rows') = Shown(rows)
    BY <2>1, <2>4 DEF Shown
  <2>6. ASSUME NEW u \in Window, NEW v \in Window, rows'[u].slot = rows'[v].slot, rows'[u].slot # None PROVE u = v
    <3>1. \A a, b \in Window : rows[a].slot = rows[b].slot /\ rows[a].slot # None => a = b
      BY <1>1 DEF Rows
    <3>2. slot # None /\ rows[w].slot # None /\ slot # rows[w].slot
      BY <2>3, NoneApart DEF None
    <3> QED BY <2>3, <2>4, <2>6, <3>1, <3>2
  <2>7. rows' \in Rows
    BY <2>5, <2>6 DEF Rows
  <2>8. Guarded(gw, gw', "DetachClient") /\ Elsewhere(gw, gw')
    BY <2>2 DEF Guarded, Elsewhere
  <2> QED BY <1>1, <2>2, <2>5, <2>7, <2>8, GlassStep
<1> QED BY <1>2, <1>3, <1>4, <1>5, <1>6, <1>7 DEF Glass

LEMMA StillStep ==
  ASSUME IInv, UNCHANGED <<gw, rows, owed, lines, tmux>>, late' \in BOOLEAN, budget' \in 0 .. Events
  PROVE  StandsOn
BY DEF StandsOn, IInv, Fit, Trusting, Following, Seated, Serving, Counting
-----------------------------------------------------------------------------
(***************************************************************************)
(* A turn.                                                                 *)
(***************************************************************************)
LEMMA TurnStep ==
  ASSUME IInv, NEW n \in 0 .. Len(lines), NEW mood \in Mood, mood = "sheds" => Shedding, NEW settled \in BOOLEAN,
         NEW typed \in Shown(rows) \cup {None}, NEW lost \in BOOLEAN, Turn(n, mood, settled, typed, lost),
         budget' \in 0 .. Events
  PROVE  IInv' /\ KeysDieWithTheAttachment
<1> DEFINE taken == SubSeq(lines, 1, n)
           rest == SubSeq(lines, n + 1, Len(lines))
           first == [gw EXCEPT !.mood = mood]
           heard == FoldLeft(Take, first, taken)
           answered == Poll(Cut(Ended(Relist(heard), taken), lost), settled)
           keyed == Keyed(answered, typed)
           shown == Applied(keyed)
           done == Settled(shown)
<1>1. /\ ~gw.gone /\ ~gw.crossed /\ gw' = [done.g EXCEPT !.mood = "takes"] /\ rows' = done.rows /\ owed' = done.owed
      /\ lines' = rest /\ tmux' = tmux /\ late' = late
  BY DEF Turn, Advance
<1>2. gw \in Gateways /\ rows \in Rows /\ owed \in Owed /\ lines \in Seq(LineSet) /\ Shown(rows) \in SUBSET Known(gw)
  BY DEF IInv, Fit, Seated, Following
<1>3. /\ first \in Gateways /\ first.attached /\ gw.attached /\ first.gone = gw.gone /\ first.out = <<>> /\ first.crossed = gw.crossed
      /\ first.unsolicited = gw.unsolicited /\ first.detaching = gw.detaching /\ first.opened = gw.opened
      /\ first.windows = gw.windows /\ first.asked = gw.asked /\ first.wire = gw.wire /\ first.pending = gw.pending
      /\ first.mood = mood
  BY <1>1, <1>2 DEF IInv, Fit, Gateways
<1>4. /\ taken \in Seq(LineSet) /\ rest \in Seq(LineSet) /\ Len(taken) = n /\ Len(rest) = Len(lines) - n
      /\ (\A i \in 1 .. n : taken[i] = lines[i] /\ i \in 1 .. Len(lines))
      /\ (\A i \in 1 .. Len(rest) : rest[i] = lines[n + i] /\ n + i \in 1 .. Len(lines) /\ n \in Nat)
  <2>1. Len(lines) \in Nat /\ n \in Nat /\ n <= Len(lines)
    BY <1>2
  <2>2. (\A i \in 1 .. n : i \in 1 .. Len(lines)) /\ \A i \in n + 1 .. Len(lines) : i \in 1 .. Len(lines)
    BY <2>1
  <2> QED BY <1>2, <2>1, <2>2, SubSeqProperties
<1> HIDE DEF first
<1>5. Told(first, Shown(rows))
  <2>1. Shown(rows) \in SUBSET Known(first) /\ Shown(rows) \in SUBSET Window
    BY <1>2, <1>3 DEF Known, Shown
  <2>2. Trace(first.out, Shown(rows), Shown(rows))
    BY <1>3, <2>1, TraceOfNothing
  <2>3. EndTold(first)
    BY <1>3 DEF EndTold
  <2> QED BY <2>1, <2>2, <2>3 DEF Told
<1>6. /\ heard \in Gateways /\ (heard.attached => first.attached) /\ heard.gone = first.gone
      /\ heard.detaching = first.detaching
      /\ Guarded(first, heard, "SendKeys") /\ Guarded(first, heard, "DetachClient") /\ Told(heard, Shown(rows))
      /\ (n = 0 => heard = first)
      /\ ((\A i \in 1 .. n : ~IsReply(taken[i])) => heard.crossed = first.crossed)
      /\ \A d : Dues(taken, d) /\ Paired(first, d[0]) =>
           /\ Paired(heard, d[n])
           /\ Shedding \/ heard.crossed = first.crossed
           /\ ~first.unsolicited /\ (\A i \in 1 .. n : IsStray(taken[i]) => i = 1 /\ ~first.opened) => ~heard.unsolicited
  <2> HIDE DEF taken, heard
  <2> USE DEF heard
  <2> QED BY <1>3, <1>4, <1>5, TakenFacts
<1> HIDE DEF heard, taken
<1>7. answered \in Gateways /\ Finishes(heard, answered)
  BY <1>6, AnswersFinish
<1> HIDE DEF answered
<1>8. /\ keyed \in Gateways /\ Keeps(answered, keyed) /\ Elsewhere(answered, keyed)
      /\ Guarded(answered, keyed, "DetachClient") /\ (~answered.attached => Guarded(answered, keyed, "SendKeys"))
  BY <1>2, <1>7, KeyedFacts
<1> HIDE DEF keyed
<1>9. Told(keyed, Shown(rows))
  <2>1. Told(answered, Shown(rows))
    BY <1>6, <1>7 DEF Finishes
  <2> QED BY <1>7, <1>8, <2>1, ToldStill DEF Elsewhere
<1>10. ~keyed.gone
  BY <1>1, <1>3, <1>6, <1>7, <1>8 DEF Finishes, Keeps
<1>11. /\ shown \in States(keyed) /\ shown.rows \in Rows /\ (shown.g.gone <=> ~keyed.attached)
       /\ Shown(shown.rows) \subseteq Known(shown.g)
  BY <1>2, <1>8, <1>9, <1>10, AppliedFacts
<1> HIDE DEF shown
<1>12. /\ shown \in [g : Gateways, rows : [Window -> AnyRow], owed : Owed]
       /\ Goes(keyed, shown.g) /\ shown.g.attached = keyed.attached /\ shown.g.out = <<>>
  BY <1>11 DEF States
<1>13. /\ done.g \in Gateways /\ Sends(shown.g, done.g) /\ done.g.out = <<>> /\ done.g.attached = shown.g.attached
       /\ done.g.windows = shown.g.windows /\ done.rows = shown.rows /\ done.owed = shown.owed
  <2>1. CASE shown.g.gone
    <3>1. done = shown
      BY <2>1 DEF Settled
    <3> QED BY <1>12, <3>1, QuietSends
  <2>2. CASE ~shown.g.gone
    <3> DEFINE h == RememberChannels(shown.g, shown.rows)
    <3>1. done = [shown EXCEPT !.g = h]
      BY <2>2 DEF Settled
    <3>2. /\ h \in Gateways /\ Sends(shown.g, h) /\ h.out = shown.g.out /\ h.attached = shown.g.attached
          /\ h.windows = shown.g.windows
      BY <1>11, <1>12, RememberChannelsSends
    <3> HIDE DEF h
    <3>3. done.g = h /\ done.rows = shown.rows /\ done.owed = shown.owed
      BY <1>12, <3>1
    <3> QED BY <1>12, <3>2, <3>3
  <2> QED BY <2>1, <2>2
<1> HIDE DEF done
<1>14. /\ gw' \in Gateways /\ gw'.mood = "takes" /\ gw'.out = <<>> /\ gw'.attached = done.g.attached
       /\ gw'.gone = done.g.gone /\ gw'.crossed = done.g.crossed /\ gw'.unsolicited = done.g.unsolicited
       /\ gw'.detaching = done.g.detaching /\ gw'.opened = done.g.opened /\ gw'.windows = done.g.windows
       /\ gw'.asked = done.g.asked /\ gw'.wire = done.g.wire /\ gw'.pending = done.g.pending
  BY <1>1, <1>13 DEF Gateways, Mood
\* From what was heard to the end of the turn.
<1>15. /\ gw'.crossed = heard.crossed /\ gw'.unsolicited = heard.unsolicited /\ gw'.opened = heard.opened
       /\ gw'.detaching = gw.detaching /\ gw'.gone = shown.g.gone
  BY <1>3, <1>6, <1>7, <1>8, <1>12, <1>13, <1>14 DEF Finishes, Keeps, Goes, Sends
<1>16. ASSUME NEW due \in Seq(Question), Paired(heard, due) PROVE Paired(gw', due)
  <2>1. Paired(done.g, due)
    BY <1>7, <1>8, <1>12, <1>13, <1>16 DEF Finishes, Keeps, Goes, Sends
  <2> QED BY <1>14, <2>1 DEF Paired, Sent
<1>17. Sent(gw') = Sent(done.g) /\ Sent(first) = Sent(gw)
  BY <1>3, <1>14 DEF Sent
<1>18. ASSUME ~heard.unsolicited PROVE Guarded(first, done.g, "DetachClient")
  <2>1. Guarded(heard, answered, "DetachClient") /\ Guarded(keyed, shown.g, "DetachClient")
        /\ Guarded(shown.g, done.g, "DetachClient")
    BY <1>7, <1>12, <1>13, <1>18 DEF Finishes, Goes, Sends
  <2> QED BY <1>6, <1>8, <2>1, GuardedOn
<1>19. ASSUME ~keyed.attached PROVE Guarded(first, done.g, "SendKeys")
  <2>1. Guarded(heard, answered, "SendKeys") /\ Guarded(keyed, shown.g, "SendKeys")
        /\ Guarded(shown.g, done.g, "SendKeys")
    BY <1>7, <1>12, <1>13 DEF Finishes, Goes, Sends
  <2>2. Guarded(answered, keyed, "SendKeys")
    BY <1>8, <1>19 DEF Elsewhere
  <2> QED BY <1>6, <2>1, <2>2, GuardedOn
\* What a server that flags its answers is owed, cut in two.
<1>20. ASSUME tmux.honest
       PROVE  /\ \E r \in Seq(Question) : Owes(rest, r) /\ Paired(heard, r)
              /\ Shedding \/ heard.crossed = first.crossed
              /\ ~heard.unsolicited
  <2>1. PICK q \in Seq(Question) : Owes(lines, q) /\ Paired(gw, q)
    BY <1>20 DEF IInv, Following
  <2>2. PICK d, r : /\ Dues(taken, d) /\ d[0] = q /\ d[n] = r /\ r \in Seq(Question)
                    /\ Owes(rest, r)
    BY <1>2, <2>1, DuesCut DEF taken
  <2>3. Paired(first, d[0])
    BY <1>3, <2>1, <2>2 DEF Paired, Sent
  <2>4. \A i \in 1 .. n : IsStray(taken[i]) => i = 1 /\ ~first.opened
    BY <1>3, <1>4, <1>20 DEF IInv, Following, Strays
  <2>5. ~first.unsolicited
    BY <1>3, <1>20 DEF IInv, Trusting
  <2>6. /\ Paired(heard, d[n]) /\ (Shedding \/ heard.crossed = first.crossed)
        /\ ~first.unsolicited /\ (\A i \in 1 .. n : IsStray(taken[i]) => i = 1 /\ ~first.opened) => ~heard.unsolicited
    BY <1>6, <2>2, <2>3
  <2> QED BY <2>2, <2>4, <2>5, <2>6
<1> HIDE DEF rest
<1>21. Fit'
  <2>1. Shedding \/ heard.crossed = first.crossed
    <3>1. CASE tmux.honest
      BY <1>20, <3>1
    <3>2. CASE ~tmux.honest
      <4>1. \A i \in 1 .. n : ~IsReply(taken[i])
        BY <1>4, <3>2 DEF IInv, Following
      <4> QED BY <1>6, <4>1
    <3> QED BY <3>1, <3>2
  <2>2. gw'.gone <=> ~gw'.attached
    BY <1>11, <1>12, <1>13, <1>14, <1>15
  <2> QED BY <1>1, <1>3, <1>14, <1>15, <2>1, <2>2 DEF Fit
<1>22. Trusting'
  <2> SUFFICES ASSUME tmux.honest PROVE ~gw'.unsolicited /\ (gw'.detaching \/ LetBe(gw'))
    BY <1>1 DEF Trusting
  <2>1. ~heard.unsolicited
    BY <1>20
  <2>2. CASE gw.detaching
    BY <1>15, <2>1, <2>2
  <2>3. CASE ~gw.detaching
    <3>1. LetBe(first)
      BY <1>17, <2>3 DEF IInv, Trusting, LetBe
    <3>2. LetBe(done.g)
      BY <1>18, <2>1, <3>1, LetBeOn
    <3> QED BY <1>15, <1>17, <2>1, <3>2 DEF LetBe
  <2> QED BY <2>2, <2>3
<1>23. Following'
  <2>1. lines' \in Seq(LineSet)
    BY <1>1, <1>4
  <2>2. ASSUME tmux.honest PROVE \E r \in Seq(Question) : Owes(rest, r) /\ Paired(gw', r)
    BY <1>16, <1>20, <2>2
  <2>3. ASSUME tmux.honest PROVE Strays(rest, gw'.opened)
    <3>1. Strays(lines, gw.opened)
      BY <2>3 DEF IInv, Following
    <3>2. ASSUME NEW i \in 1 .. Len(rest), IsStray(rest[i]) PROVE i = 1 /\ ~gw'.opened
      <4>1. n + i = 1 /\ ~gw.opened
        BY <1>4, <3>1, <3>2 DEF Strays
      <4>2. n = 0 /\ i = 1
        BY <1>4, <4>1
      <4> QED BY <1>3, <1>6, <1>15, <4>1, <4>2
    <3> QED BY <3>2 DEF Strays
  <2>4. ASSUME ~tmux.honest PROVE \A i \in 1 .. Len(rest) : ~IsReply(rest[i])
    BY <1>4, <2>4 DEF IInv, Following
  <2> QED BY <1>1, <2>1, <2>2, <2>3, <2>4 DEF Following
<1>24. Seated'
  <2>1. done.owed \in Owed
    BY <1>12, <1>13
  <2> QED BY <1>1, <1>11, <1>13, <1>14, <2>1 DEF Seated, Known
<1>25. Serving' /\ Counting'
  BY <1>1 DEF IInv, Serving, Counting
<1>26. KeysDieWithTheAttachment
  <2> SUFFICES ASSUME gw'.gone, NEW i \in Keys(gw'.wire) PROVE i \in Keys(gw.wire \o gw.pending)
    <3>1. gw'.gone => gw'.pending = <<>>
      BY <1>11, <1>12, <1>13, <1>14, <1>15 DEF Gateways
    <3> QED BY <3>1 DEF KeysDieWithTheAttachment
  <2>1. ~keyed.attached
    BY <1>11, <1>15
  <2>2. gw'.wire \in Seq(Question) /\ gw'.pending \in Seq(Question)
    BY <1>14 DEF Gateways
  <2>3. i \in 1 .. Len(gw'.wire) /\ gw'.wire[i][1] = "SendKeys"
    BY <2>2 DEF Keys
  <2>4. i \in 1 .. Len(Sent(done.g)) /\ Sent(done.g)[i] = gw'.wire[i]
    <3> DEFINE wire == gw'.wire
               pending == gw'.pending
    <3>1. wire \in Seq(Question) /\ pending \in Seq(Question) /\ i \in 1 .. Len(wire)
      BY <2>2, <2>3
    <3>2. Sent(done.g) = wire \o pending
      BY <1>17 DEF Sent
    <3> HIDE DEF wire, pending
    <3>3. i \in 1 .. Len(wire \o pending) /\ (wire \o pending)[i] = wire[i]
      BY <3>1, AtTheFront
    <3> QED BY <3>2, <3>3 DEF wire
  <2>5. i \in 1 .. Len(Sent(first)) /\ Sent(first)[i][1] = "SendKeys"
    BY <1>19, <2>1, <2>3, <2>4 DEF Guarded
  <2>6. Sent(gw) \in Seq(Question)
    BY <1>2, SentType
  <2>7. i \in DOMAIN Sent(gw) /\ Sent(gw)[i][1] = "SendKeys"
    BY <1>17, <2>5, <2>6
  <2> QED BY <2>7 DEF Sent, Keys
<1> QED BY <1>21, <1>22, <1>23, <1>24, <1>25, <1>26 DEF IInv
LEMMA PumpsStep ==
  ASSUME IInv, Pump \/ PumpBlocked \/ PumpKeys \/ PumpShed \/ PumpLost PROVE IInv' /\ KeysDieWithTheAttachment
<1>1. Len(lines) \in Nat /\ \A n \in 0 .. Batch : n <= Len(lines) => n \in 0 .. Len(lines)
  BY DEF IInv, Following
<1>2. {"takes", "refuses", "sheds"} = Mood /\ None \in Shown(rows) \cup {None}
  BY DEF Mood
<1>3. ASSUME Pump PROVE IInv' /\ KeysDieWithTheAttachment
  <2>1. PICK settled \in BOOLEAN, n \in 0 .. Batch : n <= Len(lines) /\ Turn(n, "takes", settled, None, FALSE)
    BY <1>3 DEF Pump, PumpWith
  <2>2. budget' \in 0 .. Events
    BY <1>3 DEF Pump, PumpWith, IInv, Counting
  <2> QED BY <1>1, <1>2, <2>1, <2>2, TurnStep
<1>4. ASSUME PumpBlocked PROVE IInv' /\ KeysDieWithTheAttachment
  <2>1. PICK n \in 1 .. Batch : n <= Len(lines) /\ Turn(n, "refuses", FALSE, None, FALSE)
    BY <1>4 DEF PumpBlocked
  <2>2. budget' \in 0 .. Events /\ n \in 0 .. Batch
    BY <1>4, SpendFacts DEF PumpBlocked
  <2> QED BY <1>1, <1>2, <2>1, <2>2, TurnStep
<1>5. ASSUME PumpKeys PROVE IInv' /\ KeysDieWithTheAttachment
  <2>1. PICK w \in Shown(rows), n \in 0 .. Batch, mood \in {"takes", "refuses"} :
          n <= Len(lines) /\ Turn(n, mood, FALSE, w, FALSE)
    BY <1>5 DEF PumpKeys
  <2>2. budget' \in 0 .. Events
    BY <1>5, SpendFacts DEF PumpKeys
  <2> QED BY <1>1, <1>2, <2>1, <2>2, TurnStep
<1>6. ASSUME PumpShed PROVE IInv' /\ KeysDieWithTheAttachment
  <2>1. PICK w \in Shown(rows) \cup {None}, n \in 0 .. Batch : n <= Len(lines) /\ Turn(n, "sheds", FALSE, w, FALSE)
    BY <1>6 DEF PumpShed
  <2>2. budget' \in 0 .. Events /\ Shedding
    BY <1>6, SpendFacts DEF PumpShed, Spend, Shedding
  <2> QED BY <1>1, <1>2, <2>1, <2>2, TurnStep
<1>7. ASSUME PumpLost PROVE IInv' /\ KeysDieWithTheAttachment
  <2>1. Turn(0, "takes", FALSE, None, TRUE) /\ budget' \in 0 .. Events
    BY <1>7, SpendFacts DEF PumpLost
  <2>2. 0 \in 0 .. Len(lines)
    BY <1>1
  <2> QED BY <1>2, <2>1, <2>2, TurnStep
<1> QED BY <1>3, <1>4, <1>5, <1>6, <1>7

\* What every step keeps, and how one ends an attachment.
LEMMA NextStep == ASSUME IInv, [Next]_vars PROVE IInv' /\ KeysDieWithTheAttachment
<1>1. ASSUME StandsOn PROVE IInv' /\ KeysDieWithTheAttachment
  BY <1>1 DEF StandsOn, KeysDieWithTheAttachment
<1>2. ASSUME UNCHANGED vars PROVE StandsOn
  BY <1>2, StillStep DEF vars, IInv, Counting
<1>3. ASSUME Deadline PROVE StandsOn
  BY <1>3, StillStep DEF Deadline, IInv, Counting
<1>4. ASSUME Server PROVE StandsOn
  BY <1>4, AttachesStep, ServerReadsStep, CaptureFailsStep DEF Server
<1>5. Over => UNCHANGED vars
  BY DEF Over
<1> QED BY <1>1, <1>2, <1>3, <1>4, <1>5, PumpsStep, GlassActionsStep, WorldStep DEF Next

-----------------------------------------------------------------------------
(***************************************************************************)
(* The beginning.                                                          *)
(***************************************************************************)
LEMMA NewGatewayFacts ==
  /\ NewGateway \in Gateways /\ NewGateway.out = <<>> /\ NewGateway.mood = "takes" /\ ~NewGateway.gone
  /\ NewGateway.attached /\ ~NewGateway.crossed /\ ~NewGateway.unsolicited /\ ~NewGateway.opened
  /\ LetBe(NewGateway) /\ Paired(NewGateway, <<>>)
<1> DEFINE bare == [attached |-> TRUE, opened |-> FALSE, bootstrapped |-> FALSE,
                    pending |-> <<>>, asked |-> <<>>, wire |-> <<>>, out |-> <<>>,
                    windows |-> [w \in Window |-> None], channels |-> [w \in Window |-> None],
                    gate    |-> [p \in Pane |-> "none"],
                    backlog |-> [p \in Pane |-> <<>>],
                    sentSize |-> 0, wantedSize |-> 0, resizeDue |-> FALSE, relistDue |-> FALSE,
                    solicited |-> FALSE, unsolicited |-> FALSE, sheds |-> FALSE, refused |-> FALSE,
                    detaching |-> FALSE, ahead |-> {},
                    mood |-> "takes", crossed |-> FALSE, gone |-> FALSE]
           served == Query(bare, Ask("Host", None))
           listed == Query(served, Ask("ListPanes", None))
           g == Query(listed, Ask("ListSessions", None))
<1>1. g = NewGateway
  BY DEF NewGateway
<1>2. bare \in Gateways
  <2>1. <<>> \in Seq(Question) /\ <<>> \in Seq(Intent) /\ <<>> \in Seq(Event) /\ <<>> \in Bytes
    BY DEF Bytes
  <2> QED BY <2>1 DEF Gateways, Size, Mood
<1>3. /\ bare.out = <<>> /\ bare.mood = "takes" /\ ~bare.gone /\ bare.attached /\ ~bare.crossed
      /\ ~bare.unsolicited /\ ~bare.opened /\ bare.asked = <<>> /\ Sent(bare) = <<>>
  <2>1. <<>> \o <<>> = <<>>
    OBVIOUS
  <2> QED BY <2>1 DEF Sent
<1>4. Ask("Host", None) \in Intent /\ Ask("ListPanes", None) \in Intent /\ Ask("ListSessions", None) \in Intent
  BY DEF Ask, Intent
<1> HIDE DEF bare
<1>5. served \in Gateways /\ Sends(bare, served) /\ Elsewhere(bare, served)
  BY <1>2, <1>4, QuerySends
<1> HIDE DEF served
<1>6. listed \in Gateways /\ Sends(served, listed) /\ Elsewhere(served, listed)
  BY <1>4, <1>5, QuerySends
<1> HIDE DEF listed
<1>7. g \in Gateways /\ Sends(listed, g) /\ Elsewhere(listed, g)
  BY <1>4, <1>6, QuerySends
<1> HIDE DEF g
<1>8. Sends(bare, g) /\ Elsewhere(bare, g)
  BY <1>5, <1>6, <1>7, SendsOn, ElsewhereOn
<1>9. LetBe(bare) /\ Paired(bare, <<>>)
  <2>1. Len(<<>>) = 0 /\ <<>> \o <<>> = <<>>
    OBVIOUS
  <2> QED BY <1>3, <2>1 DEF LetBe, Paired, Answers, Matches
<1>10. LetBe(g)
  BY <1>8, <1>9, LetBeOn DEF Sends
<1>11. <<>> \in Seq(Question)
  OBVIOUS
<1>12. Paired(g, <<>>)
  BY <1>8, <1>9, <1>11 DEF Sends, Keeps
<1> QED BY <1>1, <1>3, <1>7, <1>8, <1>10, <1>12 DEF Sends, Keeps, Elsewhere

LEMMA FirstServerFacts ==
  ASSUME NEW honest \in BOOLEAN, NEW n \in 1 .. Min({Windows, Panes, Room}), NEW slot \in Slot \cup {None}
  PROVE  FirstServer(honest, n, slot) \in Servers /\ FirstServer(honest, n, slot).honest = honest
<1> DEFINE m == Min({Windows, Panes, Room})
<1>1. m \in Nat /\ m <= Windows /\ m <= Panes
  <2>1. {Windows, Panes, Room} \in SUBSET Nat /\ {Windows, Panes, Room} # {}
    BY GatewayAssumption
  <2>2. m \in {Windows, Panes, Room} /\ \A x \in {Windows, Panes, Room} : m <= x
    BY <2>1, MinOf
  <2> HIDE DEF m
  <2> QED BY <2>1, <2>2
<1> HIDE DEF m
<1>2. n \in Nat /\ n <= Windows /\ n <= Panes /\ Windows \in Nat /\ Panes \in Nat /\ Panes > 0
  <2>1. n \in 1 .. m
    BY DEF m
  <2> QED BY <1>1, <2>1, GatewayAssumption
<1>3. (\A w \in Window : w <= n => w \in Pane) /\ (\A p \in Pane : p <= n => p \in Window) /\ 1 \in Pane
  BY <1>2 DEF Window, Pane
<1>4. << <<1, 1>> >> \in Bytes /\ <<>> \in Bytes
  BY <1>3 DEF Bytes
<1>5. 0 \in Size
  BY DEF Size
<1> QED BY <1>2, <1>3, <1>4, <1>5 DEF FirstServer, Servers

LEMMA InitStep == ASSUME Init PROVE IInv
<1> DEFINE block == [line |-> "Block", of |-> Ignore, flagged |-> FALSE, error |-> FALSE, body |-> None]
<1>1. gw = SetClientSize(NewGateway, 1) /\ rows = [w \in Window |-> NoRow] /\ lines = <<block>>
      /\ owed = NotAsked /\ late = FALSE /\ budget = Events
  BY DEF Init
<1>2. 1 \in Size
  BY DEF Size
<1>3. gw \in Gateways /\ Sends(NewGateway, gw) /\ Elsewhere(NewGateway, gw)
  BY <1>1, <1>2, NewGatewayFacts, SetClientSizeSends
<1>4. /\ gw.out = <<>> /\ gw.mood = "takes" /\ ~gw.gone /\ gw.attached /\ ~gw.crossed /\ ~gw.unsolicited /\ ~gw.opened
  BY <1>3, NewGatewayFacts DEF Sends, Keeps, Elsewhere
<1>5. LetBe(gw)
  BY <1>3, NewGatewayFacts, LetBeOn DEF Sends
<1>6. <<>> \in Seq(Question)
  OBVIOUS
<1>7. Paired(gw, <<>>)
  BY <1>3, <1>6, NewGatewayFacts DEF Sends, Keeps
<1>8. block \in LineSet /\ ~IsReply(block)
  BY DEF LineSet, BlockLine, Question, Intent, Ignore, Ask, IsReply
<1> HIDE DEF block
<1>9. lines \in Seq(LineSet) /\ Len(lines) = 1 /\ lines[1] = block
  BY <1>1, <1>8
<1>10. Owes(lines, <<>>)
  BY <1>8, <1>9, OwesNothing
<1>11. Following
  <2>1. \A i \in 1 .. Len(lines) : i = 1 /\ lines[i] = block
    BY <1>9
  <2>2. Strays(lines, gw.opened)
    BY <1>4, <2>1 DEF Strays
  <2>3. \A i \in 1 .. Len(lines) : ~IsReply(lines[i])
    BY <1>8, <2>1
  <2> QED BY <1>6, <1>7, <1>9, <1>10, <2>2, <2>3 DEF Following
<1>12. Fit /\ Trusting
  BY <1>3, <1>4, <1>5 DEF Fit, Trusting
<1>13. rows \in Rows /\ Shown(rows) = {}
  BY <1>1, NoRowIsARow DEF Rows, Shown
<1>14. Seated
  BY <1>1, <1>13 DEF Seated, Owed
<1>15. Serving
  <2>1. PICK honest \in BOOLEAN, n \in 1 .. Min({Windows, Panes, Room}), slot \in Slot \cup {None} :
          tmux = FirstServer(honest, n, slot)
    BY DEF Init
  <2> QED BY <2>1, FirstServerFacts DEF Serving
<1>16. Counting
  <2>1. Events \in Nat
    BY GatewayAssumption
  <2>2. budget \in 0 .. Events
    BY <1>1, <2>1
  <2> QED BY <1>1, <2>2 DEF Counting
<1> QED BY <1>11, <1>12, <1>14, <1>15, <1>16 DEF IInv

THEOREM AlwaysHeld == Spec => []IInv
<1>1. Init => IInv
  BY InitStep
<1>2. IInv /\ [Next]_vars => IInv'
  BY NextStep
<1> QED BY <1>1, <1>2, PTL DEF Spec

(***************************************************************************)
(* Whatever is under way, every part is of its kind, a window has at most  *)
(* one channel and a slot at most one window (open_tmux_window,            *)
(* remember_channels).                                                     *)
(***************************************************************************)
THEOREM WindowsAlwaysApart == Spec => []WindowsApart
<1>1. IInv => WindowsApart
  <2> SUFFICES ASSUME IInv PROVE WindowsApart
    OBVIOUS
  <2>1. gw \in Gateways /\ gw.out = <<>> /\ (gw.gone <=> ~gw.attached) /\ rows \in Rows /\ owed \in Owed
    BY DEF IInv, Fit, Seated
  <2>2. \A i \in DOMAIN gw.asked : gw.asked[i][1] \in Asks
    <3>1. gw.asked \in Seq(Intent)
      BY <2>1 DEF Gateways
    <3>2. \A i \in DOMAIN gw.asked : gw.asked[i] \in Intent
      BY <3>1
    <3> QED BY <3>2 DEF Intent, Asks
  <2>3. /\ gw.windows \in [Window -> Pane \cup {None}]
        /\ gw.gate \in [Pane -> {"none", "asked", "captured", "live"}]
        /\ {gw.sentSize, gw.wantedSize} \subseteq 0 .. 2
    BY <2>1 DEF Gateways, Size
  <2>4. \A w \in Window : /\ rows[w].pane \in Pane \cup {None} /\ rows[w].slot \in Slot \cup {None}
                          /\ rows[w].held <= 1 /\ (rows[w].pane # None => rows[w].slot # None)
    BY <2>1 DEF Rows, Row, AnyRow
  <2>5. TypeOK
    BY <2>1, <2>2, <2>3, <2>4 DEF TypeOK, Owed, IInv, Counting
  <2>6. OneChannelPerWindow /\ SlotsApart
    <3>1. \A v, w \in Window : rows[v].slot = rows[w].slot /\ rows[v].slot # None => v = w
      BY <2>1 DEF Rows
    <3> QED BY <2>4, <3>1 DEF OneChannelPerWindow, SlotsApart, Shown
  <2> QED BY <2>5, <2>6 DEF WindowsApart
<1> QED BY <1>1, AlwaysHeld, PTL

(***************************************************************************)
(* Over a transport that never sheds what it took, every reply is read as  *)
(* the answer to the question it answers, whatever was refused for room,   *)
(* however the transport stalled and whether or not the server flags what  *)
(* it answers (command, close_block).                                      *)
(***************************************************************************)
THEOREM RepliesAlwaysAnswer ==
  ASSUME "PumpShed" \notin Kinds PROVE Spec => []RepliesAnswerTheirQuestion
<1>1. IInv => RepliesAnswerTheirQuestion
  BY DEF IInv, Fit, Shedding, RepliesAnswerTheirQuestion
<1> QED BY <1>1, AlwaysHeld, PTL

(***************************************************************************)
(* A server that flags its answers is never asked to let this client go by *)
(* the watchdog, over any transport, however late its first answer (poll,  *)
(* advance).                                                               *)
(***************************************************************************)
THEOREM HonestServerAlwaysKept == Spec => []HonestServerKept
<1>1. IInv => HonestServerKept
  <2> SUFFICES ASSUME IInv, tmux.honest, ~gw.detaching, NEW i \in DOMAIN gw.wire PROVE gw.wire[i][1] # "DetachClient"
    BY DEF HonestServerKept
  <2>1. LetBe(gw) /\ gw.wire \in Seq(Question) /\ gw.pending \in Seq(Question)
    BY DEF IInv, Trusting, Fit, Gateways
  <2>2. i \in 1 .. Len(gw.wire)
    BY <2>1
  <2>3. i \in 1 .. Len(Sent(gw)) /\ Sent(gw)[i] = gw.wire[i]
    BY <2>1, <2>2, AtTheFront DEF Sent
  <2> QED BY <2>1, <2>3 DEF LetBe
<1> QED BY <1>1, AlwaysHeld, PTL

(***************************************************************************)
(* However a turn comes to end the attachment, it puts no key on the wire  *)
(* but those that were waiting before it began, which its last push sends, *)
(* and leaves nothing waiting: the wire is a shell's again (command,       *)
(* teardown).                                                              *)
(***************************************************************************)
THEOREM KeysAlwaysDie == Spec => KeysDie
<1>1. IInv /\ [Next]_vars => [KeysDieWithTheAttachment]_vars
  BY NextStep
<1> QED BY <1>1, AlwaysHeld, PTL DEF Spec, KeysDie
=============================================================================
