---------------------------- MODULE Query_proofs ----------------------------
(***************************************************************************)
(* Proofs about Query, for every database, query and number of messages:   *)
(* the cursors of the operands stay where their counts say, a merge gives  *)
(* messages in the order they were appended in, and gives what it should.  *)
(*                                                                         *)
(* First what [0], next() and ge() of an operand give, kind by kind: the   *)
(* loops of a Slicer and of a Filter are recursive functions, unfolded by  *)
(* a rank that every turn lowers.  Then the invariant, step by step.       *)
(* Last how often an operand has a message, and a tally of what has been   *)
(* given and what is still to come, step by step again.                    *)
(***************************************************************************)
EXTENDS Query, DataLemmas, FiniteSetTheorems

(***************************************************************************)
(* The invariant                                                           *)
(***************************************************************************)

\* What a slice begins with.
Begin(q) == SliceGetFirst(q, NotBegun)

\* The messages that a filter lets through before a position.
Before(q, p) == {m \in q.passes : m < p}

\* A cursor on a message.
Good(q, c) ==
  /\ c \in Cursor
  /\ q.kind = "key" => c.i \in 0 .. Len(q.refs) - 1
  /\ q.kind = "slice" => /\ c.i >= 0 /\ InStream(c.p) /\ c.msg = MsgAt(c.p)
                         /\ Begin(q).ref # End /\ c.p = Begin(q).cursor.p + c.i * q.step
                         /\ Plain(q) => (q.start >= 0 <=> c.p >= 0)
  /\ q.kind = "filter" => /\ c.i >= 0 /\ c.p \in q.passes /\ c.msg = c.p
                          /\ c.i <= Cardinality(Before(q, c.p))
  /\ q.kind = "merge" => c.i \in 0 .. Len(q.refs) - 1 /\ c.msg = q.refs[c.i + 1]

\* A filter's behind the last message, where its count may be any that it has had.
Behind(q, c) ==
  /\ c \in Cursor /\ q.kind = "filter" /\ q.passes # {}
  /\ c.i >= 0 /\ c.p = NumMsgs /\ c.msg = NoMsg /\ c.i <= Cardinality(Before(q, c.p))

\* Any cursor there may be.
Sound(q, c) ==
  /\ c \in Cursor
  /\ \/ Good(q, c)
     \/ q.kind = "key" /\ c.i \in {New, Len(q.refs)}
     \/ q.kind # "key" /\ Reset(c)
     \/ Behind(q, c)

\* The message at a good cursor, and those it may still come to. The jump of a key
\* query leaves its cursor behind, so they are not those from its message on.
Ref(q, c) == IF q.kind = "key" THEN q.refs[c.i + 1] ELSE c.msg
Ahead(q, c) == IF q.kind = "key" THEN {q.refs[j] : j \in c.i + 1 .. Len(q.refs)}
               ELSE {m \in Messages : m >= c.msg}

\* What [0], next() and ge() give: a cursor, and the message if it is on one.
Value == [cursor : Cursor, ref : Int]
Result(q, r) ==
  /\ r \in Value /\ r.ref \in Messages \cup {End, NoMsg}
  /\ Sound(q, r.cursor)
  /\ r.ref \in Messages => Good(q, r.cursor) /\ r.ref = Ref(q, r.cursor)

\* The operand has a first message.
Here(q) == FirstOf(q, NotBegun).ref # End

-----------------------------------------------------------------------------
(***************************************************************************)
(* Numbers, sets and the operands                                          *)
(***************************************************************************)

Ordered(s) == \A i, j \in 1 .. Len(s) : i <= j => s[i] <= s[j]

LEMMA Numbers ==
  /\ NumMsgs \in Nat /\ NumMsgs > 0
  /\ Messages = 0 .. NumMsgs - 1 /\ Messages \subseteq Nat
  /\ New = -1 /\ Exhausted = -2 /\ End = -1 /\ NoMsg = -2
  /\ End \notin Messages /\ NoMsg \notin Messages
BY NumMsgsAssumption DEF Messages, New, Exhausted, End, NoMsg

LEMMA QueryIs ==
  ASSUME NEW q \in Queries
  PROVE  /\ q.kind \in {"key", "slice", "filter", "merge"}
         /\ q.kind \in {"key", "merge"} => q.refs \in Seq(Messages) /\ Ordered(q.refs)
         /\ q.kind = "slice" => q.start \in Int /\ q.stop \in Int /\ q.step \in Nat \ {0}
         /\ q.kind = "filter" => q.passes \in SUBSET Messages
<1>1. CASE \E s \in Streams : q = [kind |-> "key", refs |-> s]
  BY <1>1, StreamsAssumption DEF Ordered
<1>2. CASE \E s \in Slices :
             q = [kind |-> "slice", start |-> s.start, stop |-> s.stop, step |-> s.step]
  <2>1. PICK s \in Slices :
             q = [kind |-> "slice", start |-> s.start, stop |-> s.stop, step |-> s.step] BY <1>2
  <2>2. s \in [start : Int, stop : Int, step : Nat \ {0}] BY SlicesAssumption
  <2>3. QED BY <2>1, <2>2
<1>3. CASE \E s \in Passing : q = [kind |-> "filter", passes |-> s]
  BY <1>3, PassingAssumption
<1>4. CASE \E s \in Merged : q = [kind |-> "merge", refs |-> s]
  BY <1>4, StreamsAssumption DEF Ordered
<1>5. QED BY <1>1, <1>2, <1>3, <1>4 DEF Queries

LEMMA MsgAtIs ==
  ASSUME NEW p \in Int, InStream(p)
  PROVE  /\ MsgAt(p) \in Messages
         /\ p >= 0 => MsgAt(p) = p
         /\ p < 0 => MsgAt(p) = p + NumMsgs
<1>1. -NumMsgs <= p /\ p < NumMsgs BY DEF InStream
<1>2. CASE p >= 0
  <2>1. p % NumMsgs = p BY <1>1, <1>2, Numbers
  <2>2. QED BY <1>1, <1>2, <2>1, Numbers DEF MsgAt
<1>3. CASE p < 0
  <2>1. p % NumMsgs = p + NumMsgs BY <1>1, <1>3, Numbers
  <2>2. QED BY <1>1, <1>3, <2>1, Numbers DEF MsgAt
<1>4. QED BY <1>2, <1>3

LEMMA MinIs ==
  ASSUME NEW S \in SUBSET Nat, S # {}
  PROVE  Min(S) \in S /\ \A y \in S : Min(S) <= y
<1>1. \E x \in S : \A y \in S : x <= y BY LeastNatural
<1>2. QED BY <1>1 DEF Min

LEMMA MaxIs ==
  ASSUME NEW S \in SUBSET Messages, S # {}
  PROVE  Max(S) \in S /\ \A y \in S : y <= Max(S)
<1> DEFINE T == {NumMsgs - x : x \in S}
<1>1. T \in SUBSET Nat /\ T # {}
  <2>1. ASSUME NEW x \in S PROVE NumMsgs - x \in Nat BY Numbers
  <2>2. QED BY <2>1
<1>2. PICK t \in T : \A y \in T : t <= y BY <1>1, LeastNatural
<1>3. PICK x \in S : t = NumMsgs - x BY <1>2
<1>4. ASSUME NEW y \in S PROVE x >= y
  <2>1. t <= NumMsgs - y BY <1>2
  <2>2. x \in Nat /\ y \in Nat BY Numbers
  <2>3. QED BY <1>3, <2>1, <2>2, Numbers
<1>5. Max(S) \in S /\ \A y \in S : Max(S) >= y BY <1>4 DEF Max
<1>6. QED BY <1>5, Numbers

LEMMA GotIs ==
  ASSUME NEW c \in Cursor, NEW ref \in Int
  PROVE  Got(c, ref) \in Value /\ Got(c, ref).cursor = c /\ Got(c, ref).ref = ref
BY DEF Got, Value

-----------------------------------------------------------------------------
(***************************************************************************)
(* A Slicer                                                                *)
(***************************************************************************)

\* The loop of __get_first, from a position p.
Turned(from, q, c, p) ==
  IF InStream(p)       THEN Got([i |-> 0, p |-> p, msg |-> MsgAt(p)], MsgAt(p))
  ELSE IF p * q.step > 0 THEN Got(c, End)
  ELSE from[p + q.step]

IsSlice(q) == /\ q.kind = "slice"
              /\ q.start \in Int /\ q.stop \in Int /\ q.step \in Nat \ {0}

\* A turn that goes on is one before the first message, and comes nearer to it.
StartRank == [p \in Int |-> IF p < 0 THEN -p ELSE 0]
LEMMA TurnsOn ==
  ASSUME NEW q, IsSlice(q), NEW p \in Int, ~InStream(p), ~(p * q.step > 0)
  PROVE  /\ p < -NumMsgs /\ p + q.step \in Int
         /\ StartRank \in [Int -> Nat] /\ StartRank[p + q.step] < StartRank[p]
<1>1. q.step \in Nat \ {0} BY DEF IsSlice
<1>2. ~(p > 0)
  <2>1. SUFFICES ASSUME p > 0 PROVE p * q.step > 0 OBVIOUS
  <2>2. QED BY <1>1, <2>1
<1>3. p < -NumMsgs BY <1>2, Numbers DEF InStream
<1>4. StartRank \in [Int -> Nat] BY DEF StartRank
<1>5. StartRank[p + q.step] < StartRank[p] BY <1>1, <1>3, Numbers DEF StartRank
<1>6. QED BY <1>1, <1>3, <1>4, <1>5

LEMMA PositionIs ==
  ASSUME NEW p \in Int, InStream(p)
  PROVE  /\ [i |-> 0, p |-> p, msg |-> MsgAt(p)] \in Cursor
         /\ Got([i |-> 0, p |-> p, msg |-> MsgAt(p)], MsgAt(p)) \in Value
BY MsgAtIs, Numbers DEF Cursor, Got, Value

LEMMA StartUnfolds ==
  ASSUME NEW q, IsSlice(q), NEW c \in Cursor
  PROVE  \E from : /\ \A p \in Int : from[p] = Turned(from, q, c, p)
                   /\ SliceGetFirst(q, c) = from[q.start]
<1> DEFINE step == [f \in [Int -> Value] |-> [p \in Int |-> Turned(f, q, c, p)]]
           from == CHOOSE f : f = [p \in Int |-> Turned(f, q, c, p)]
<1>1. SliceGetFirst(q, c) = from[q.start] BY DEF SliceGetFirst, Turned
<1>2. Got(c, End) \in Value BY Numbers, GotIs
<1>3. ASSUME NEW f \in [Int -> Value], NEW p \in Int PROVE Turned(f, q, c, p) \in Value
  <2>1. CASE InStream(p) BY <2>1, PositionIs DEF Turned
  <2>2. CASE ~InStream(p) /\ p * q.step > 0 BY <1>2, <2>2 DEF Turned
  <2>3. CASE ~InStream(p) /\ ~(p * q.step > 0)
    <3>1. p + q.step \in Int BY <2>3, TurnsOn
    <3>2. QED BY <2>3, <3>1 DEF Turned
  <2>4. QED BY <2>1, <2>2, <2>3
<1>4. step \in [[Int -> Value] -> [Int -> Value]] BY <1>3
<1>5. ASSUME NEW f \in [Int -> Value], NEW g \in [Int -> Value], NEW p \in Int,
             \A e \in Int : StartRank[e] < StartRank[p] => f[e] = g[e]
      PROVE  Turned(f, q, c, p) = Turned(g, q, c, p)
  <2>1. CASE InStream(p) \/ p * q.step > 0 BY <2>1 DEF Turned
  <2>2. CASE ~InStream(p) /\ ~(p * q.step > 0)
    <3>1. p + q.step \in Int /\ StartRank[p + q.step] < StartRank[p] BY <2>2, TurnsOn
    <3>2. f[p + q.step] = g[p + q.step] BY <1>5, <3>1
    <3>3. QED BY <2>2, <3>2 DEF Turned
  <2>3. QED BY <2>1, <2>2
<1>6. StartRank \in [Int -> Nat] BY DEF StartRank
<1>7. PICK base : base = [p \in Int |-> Got(c, End)] OBVIOUS
<1>8. base \in [Int -> Value] BY <1>2, <1>7
<1>9. \A f, g \in [Int -> Value] : \A p \in Int :
        (\A e \in Int : StartRank[e] < StartRank[p] => f[e] = g[e]) => step[f][p] = step[g][p]
  BY <1>5
<1>10. \A f \in [Int -> Value] : step[f] = [p \in Int |-> Turned(f, q, c, p)] OBVIOUS
<1> HIDE DEF step, from
<1>11. Descending(Int, Value, StartRank, step) BY <1>4, <1>6, <1>9 DEF Descending
<1>12. PICK D : D = Int OBVIOUS
<1>13. Descending(D, Value, StartRank, step) /\ base \in [D -> Value] BY <1>8, <1>11, <1>12
<1>14. PICK g \in [D -> Value] : g = step[g] BY <1>13, RankedRecursion
<1>15. g = [p \in Int |-> Turned(g, q, c, p)] BY <1>10, <1>12, <1>14
<1>16. from = [p \in Int |-> Turned(from, q, c, p)] BY <1>15 DEF from
<1>17. QED BY <1>1, <1>16

\* The loop comes to the same position whatever the cursor: p, or one after it if p is
\* before the database.
Landed(q, p, r) ==
  /\ r.cursor.p \in Int /\ InStream(r.cursor.p)
  /\ r = Got([i |-> 0, p |-> r.cursor.p, msg |-> MsgAt(r.cursor.p)], MsgAt(r.cursor.p))
  /\ p <= r.cursor.p
  /\ \/ r.cursor.p = p
     \/ p < -NumMsgs /\ (q.step = 1 => r.cursor.p = -NumMsgs)
Missed(q, p) == ~InStream(p) /\ (q.step = 1 => p >= 0)

LEMMA SliceBegins ==
  ASSUME NEW q, IsSlice(q), NEW c \in Cursor
  PROVE  \/ Begin(q).ref = End /\ SliceGetFirst(q, c) = Got(c, End) /\ Missed(q, q.start)
         \/ SliceGetFirst(q, c) = Begin(q) /\ Landed(q, q.start, Begin(q))
<1>1. PICK f : /\ \A p \in Int : f[p] = Turned(f, q, c, p)
               /\ SliceGetFirst(q, c) = f[q.start]
  BY StartUnfolds
<1>2. NotBegun \in Cursor BY Numbers DEF NotBegun, Cursor
<1>3. PICK g : /\ \A p \in Int : g[p] = Turned(g, q, NotBegun, p)
               /\ SliceGetFirst(q, NotBegun) = g[q.start]
  BY <1>2, StartUnfolds
<1> DEFINE Both2(p) == \/ f[p] = Got(c, End) /\ g[p] = Got(NotBegun, End) /\ Missed(q, p)
                       \/ f[p] = g[p] /\ Landed(q, p, g[p])
           S == {p \in Int : Both2(p)}
<1>4. ASSUME NEW p \in Int, \A e \in Int : StartRank[e] < StartRank[p] => e \in S
      PROVE  p \in S
  <2>1. f[p] = Turned(f, q, c, p) /\ g[p] = Turned(g, q, NotBegun, p) BY <1>1, <1>3
  <2>2. CASE InStream(p)
    <3>1. PICK r : r = Got([i |-> 0, p |-> p, msg |-> MsgAt(p)], MsgAt(p)) OBVIOUS
    <3>2. f[p] = r /\ g[p] = r BY <2>1, <2>2, <3>1 DEF Turned
    <3>3. r.cursor.p = p BY <3>1 DEF Got
    <3>4. Landed(q, p, r) BY <2>2, <3>1, <3>3, Numbers DEF Landed
    <3>5. QED BY <3>2, <3>4
  <2>3. CASE ~InStream(p) /\ p * q.step > 0
    <3>1. q.step = 1 => p >= 0 BY <2>3
    <3>2. QED BY <2>1, <2>3, <3>1 DEF Turned, Missed
  <2>4. CASE ~InStream(p) /\ ~(p * q.step > 0)
    <3>1. /\ p < -NumMsgs /\ p + q.step \in Int
          /\ StartRank[p + q.step] < StartRank[p] BY <2>4, TurnsOn
    <3>2. PICK e \in Int : e = p + q.step BY <3>1
    <3>3. e \in S BY <1>4, <3>1, <3>2
    <3>4. f[p] = f[e] /\ g[p] = g[e] BY <2>1, <2>4, <3>2 DEF Turned
    <3>5. CASE f[e] = Got(c, End) /\ g[e] = Got(NotBegun, End) /\ Missed(q, e)
      <4>1. q.step # 1 BY <3>1, <3>2, <3>5, Numbers DEF Missed
      <4>2. QED BY <2>4, <3>4, <3>5, <4>1 DEF Missed
    <3>6. CASE f[e] = g[e] /\ Landed(q, e, g[e])
      <4>1. PICK r : r = g[e] OBVIOUS
      <4>2. Landed(q, e, r) BY <3>6, <4>1
      <4>3. q.step \in Nat \ {0} BY DEF IsSlice
      <4>4. p <= e /\ p < -NumMsgs /\ (q.step = 1 => e = p + 1) BY <3>1, <3>2, <4>3, Numbers
      <4>5. q.step = 1 => r.cursor.p = -NumMsgs
        <5>1. SUFFICES ASSUME q.step = 1 PROVE r.cursor.p = -NumMsgs OBVIOUS
        <5>2. PICK z \in Int : z = r.cursor.p BY <4>2 DEF Landed
        <5>3. e = p + 1 /\ e <= -NumMsgs /\ -NumMsgs <= z
          BY <4>2, <4>4, <5>1, <5>2, Numbers DEF Landed, InStream
        <5>4. z = e \/ z = -NumMsgs BY <4>2, <5>1, <5>2 DEF Landed
        <5>5. QED BY <5>2, <5>3, <5>4, Numbers
      <4>6. r.cursor.p \in Int /\ p <= r.cursor.p BY <4>2, <4>4 DEF Landed
      <4>7. Landed(q, p, r) BY <4>2, <4>4, <4>5, <4>6 DEF Landed
      <4>8. QED BY <3>4, <3>6, <4>1, <4>7
    <3>7. QED BY <3>3, <3>5, <3>6
  <2>5. QED BY <2>2, <2>3, <2>4
<1>5. StartRank \in [Int -> Nat] BY DEF StartRank
<1> HIDE DEF S
<1>6. PICK D : D = Int OBVIOUS
<1>7. D \subseteq S
  <2>1. StartRank \in [D -> Nat] BY <1>5, <1>6
  <2>2. \A p \in D : (\A e \in D : StartRank[e] < StartRank[p] => e \in S) => p \in S BY <1>4, <1>6
  <2>3. QED BY <2>1, <2>2, RankInduction
<1>8. Both2(q.start)
  <2>1. q.start \in Int BY DEF IsSlice
  <2>2. QED BY <1>6, <1>7, <2>1 DEF S
<1>9. Begin(q) = g[q.start] BY <1>3 DEF Begin
<1>10. QED BY <1>1, <1>8, <1>9 DEF Got

\* Where a slice begins is a good cursor.
LEMMA BeginIsGood ==
  ASSUME NEW q, IsSlice(q), Begin(q).ref # End
  PROVE  /\ Begin(q) \in Value /\ Good(q, Begin(q).cursor)
         /\ \/ Begin(q).cursor.p = q.start
            \/ q.start < -NumMsgs /\ (q.step = 1 => Begin(q).cursor.p = -NumMsgs)
         /\ Begin(q).ref \in Messages /\ Begin(q).ref = Begin(q).cursor.msg
         /\ Begin(q).cursor.i = 0
<1>1. NotBegun \in Cursor BY Numbers DEF NotBegun, Cursor
<1>2. Landed(q, q.start, Begin(q)) BY <1>1, SliceBegins
<1>3. PICK p \in Int : /\ p = Begin(q).cursor.p /\ InStream(p) /\ q.start <= p
                       /\ \/ p = q.start
                          \/ q.start < -NumMsgs /\ (q.step = 1 => p = -NumMsgs)
  BY <1>2 DEF Landed
<1>4. PICK c : c = [i |-> 0, p |-> p, msg |-> MsgAt(p)] OBVIOUS
<1>5. Begin(q) = Got(c, MsgAt(p)) BY <1>2, <1>3, <1>4 DEF Landed
<1>6. c \in Cursor /\ Got(c, MsgAt(p)) \in Value BY <1>3, <1>4, PositionIs
<1>7. Begin(q).cursor = c /\ Begin(q).ref = MsgAt(p) BY <1>5 DEF Got
<1>8. c.p = Begin(q).cursor.p + c.i * q.step
  <2>1. c.i = 0 /\ c.p = p BY <1>4
  <2>2. 0 * q.step = 0 BY DEF IsSlice
  <2>3. QED BY <1>3, <2>1, <2>2
<1>9. Plain(q) => (q.start >= 0 <=> c.p >= 0)
  <2>1. q.kind = "slice" /\ q.start \in Int BY DEF IsSlice
  <2>2. Plain(q) /\ q.start < 0 => q.step = 1 BY <2>1 DEF Plain
  <2>3. QED BY <1>3, <1>4, <2>1, <2>2, Numbers
<1>10. Good(q, c) BY <1>3, <1>4, <1>6, <1>8, <1>9 DEF Good, IsSlice
<1>11. MsgAt(p) \in Messages BY <1>3, MsgAtIs
<1>12. c.p = p /\ c.i = 0 /\ c.msg = MsgAt(p) BY <1>4
<1>13. c.p = q.start \/ (q.start < -NumMsgs /\ (q.step = 1 => c.p = -NumMsgs)) BY <1>3, <1>12
<1>14. Begin(q) \in Value BY <1>5, <1>6
<1>15. Good(q, Begin(q).cursor) BY <1>7, <1>10
<1>16. QED BY <1>7, <1>11, <1>12, <1>13, <1>14, <1>15

\* A good cursor of a slice stays good where its count changes with its position.
LEMMA SliceMoves ==
  ASSUME NEW q, IsSlice(q), NEW c, Good(q, c), NEW i \in Nat,
         NEW p \in Int, p = c.p + q.step * (i - c.i), InStream(p),
         Plain(q) => (q.start >= 0 <=> p >= 0)
  PROVE  LET d == [i |-> i, p |-> p, msg |-> MsgAt(p)]
         IN Good(q, d) /\ Got(d, MsgAt(p)) \in Value /\ MsgAt(p) \in Messages
<1>1. /\ c \in Cursor /\ Begin(q).ref # End
      /\ c.p = Begin(q).cursor.p + c.i * q.step BY DEF Good, IsSlice
<1>2. PICK p0 : p0 = Begin(q).cursor.p OBVIOUS
<1>3. p0 \in Int BY <1>1, <1>2, BeginIsGood DEF Value, Cursor
<1>4. PICK d : d = [i |-> i, p |-> p, msg |-> MsgAt(p)] OBVIOUS
<1>5. d.p = p0 + d.i * q.step
  <2>1. PICK k \in Int : k = c.i BY <1>1 DEF Cursor
  <2>2. PICK s \in Int : s = q.step BY DEF IsSlice
  <2>3. s * (i - k) = i * s - k * s BY <2>1, <2>2
  <2>4. c.p = p0 + k * s BY <1>1, <1>2, <2>1, <2>2
  <2>5. p = c.p + s * (i - k) BY <2>1, <2>2
  <2>6. k * s \in Int /\ i * s \in Int BY <2>1, <2>2
  <2>7. p = p0 + i * s BY <1>3, <2>3, <2>4, <2>5, <2>6
  <2>8. QED BY <1>4, <2>2, <2>7
<1>6. d \in Cursor /\ MsgAt(p) \in Messages BY <1>4, MsgAtIs, PositionIs, Numbers DEF Cursor
<1>7. Good(q, d) BY <1>1, <1>2, <1>4, <1>5, <1>6 DEF Good, IsSlice
<1>8. Got(d, MsgAt(p)) \in Value BY <1>6, Numbers, GotIs
<1>9. QED BY <1>4, <1>6, <1>7, <1>8

\* What __getitem__ does from a cursor a.
ItemFrom(q, a, i, r) ==
  LET p == a.p + q.step * (i - a.i)
  IN IF p >= q.stop \/ p < q.start \/ ~InStream(p) THEN r = Got(a, End)
     ELSE r = Got([i |-> i, p |-> p, msg |-> MsgAt(p)], MsgAt(p))

LEMMA SliceItemIs ==
  ASSUME NEW q, IsSlice(q), NEW c \in Cursor, NEW i \in Int
  PROVE  /\ ~Reset(c) /\ c.msg = End => SliceItem(q, c, i) = Got(c, End)
         /\ ~Reset(c) /\ c.msg # End => ItemFrom(q, c, i, SliceItem(q, c, i))
         /\ Reset(c) /\ Begin(q).ref = End => SliceItem(q, c, i) = Got(c, End)
         /\ Reset(c) /\ Begin(q).ref # End => ItemFrom(q, Begin(q).cursor, i, SliceItem(q, c, i))
<1>1. /\ Begin(q).ref = End => SliceGetFirst(q, c) = Got(c, End)
      /\ Begin(q).ref # End => SliceGetFirst(q, c) = Begin(q)
  <2>1. \/ Begin(q).ref = End /\ SliceGetFirst(q, c) = Got(c, End)
        \/ SliceGetFirst(q, c) = Begin(q) /\ Landed(q, q.start, Begin(q)) BY SliceBegins
  <2>2. ASSUME Landed(q, q.start, Begin(q)) PROVE Begin(q).ref # End
    BY <2>2, MsgAtIs, Numbers DEF Landed, Got
  <2>3. QED BY <2>1, <2>2
<1>2. PICK first : first = IF Reset(c) THEN SliceGetFirst(q, c) ELSE Got(c, c.msg) OBVIOUS
<1>3. /\ first.ref = End => SliceItem(q, c, i) = Got(first.cursor, End)
      /\ first.ref # End => ItemFrom(q, first.cursor, i, SliceItem(q, c, i))
  BY <1>2 DEF SliceItem, ItemFrom
<1>4. CASE ~Reset(c) BY <1>2, <1>3, <1>4 DEF Got
<1>5. CASE Reset(c) BY <1>1, <1>2, <1>3, <1>5 DEF Got
<1>6. QED BY <1>4, <1>5

\* db[start:stop:step][0], of a sound cursor: there whatever the cursor, or never.
StartsIn(q) == /\ Begin(q).ref # End
               /\ Begin(q).cursor.p < q.stop /\ Begin(q).cursor.p >= q.start

LEMMA SliceFirstIs ==
  ASSUME NEW q, IsSlice(q), NEW c, Sound(q, c), NEW r, r = SliceItem(q, c, 0)
  PROVE  /\ Result(q, r) /\ r.ref # NoMsg
         /\ r.ref # End => r.cursor.i = 0
         /\ r.ref # End <=> StartsIn(q)
<1>1. c \in Cursor /\ q.kind = "slice" BY DEF Sound, IsSlice
<1>2. (Good(q, c) /\ ~Reset(c)) \/ Reset(c) BY <1>1, Numbers DEF Sound, Behind, Good, Reset
<1>3. ASSUME NEW a, Good(q, a), ItemFrom(q, a, 0, r)
      PROVE  /\ Result(q, r) /\ r.ref # NoMsg
             /\ r.ref # End => r.cursor.i = 0
             /\ r.ref # End <=> StartsIn(q)
  <2>1. PICK p : p = a.p + q.step * (0 - a.i) OBVIOUS
  <2>2. a \in Cursor /\ p \in Int BY <1>3, <2>1 DEF Good, Cursor, IsSlice
  <2>3. PICK b : b = Begin(q).cursor OBVIOUS
  <2>4. Begin(q).ref # End /\ a.p = b.p + a.i * q.step BY <1>1, <1>3, <2>3 DEF Good
  <2>5. Good(q, b) BY <2>3, <2>4, BeginIsGood
  <2>6. p = b.p
    <3>1. b.p \in Int /\ a.i \in Int /\ q.step \in Int BY <2>2, <2>5 DEF Good, Cursor, IsSlice
    <3>2. q.step * (0 - a.i) = -(a.i * q.step) /\ a.i * q.step \in Int BY <3>1
    <3>3. QED BY <2>1, <2>4, <3>1, <3>2
  <2>7. InStream(p) /\ (Plain(q) => (q.start >= 0 <=> p >= 0)) BY <1>1, <2>5, <2>6 DEF Good
  <2>8. q.stop \in Int /\ q.start \in Int BY DEF IsSlice
  <2>9. CASE p >= q.stop \/ p < q.start
    <3>1. r = Got(a, End) BY <1>3, <2>1, <2>9 DEF ItemFrom
    <3>2. ~StartsIn(q) BY <2>2, <2>3, <2>6, <2>8, <2>9 DEF StartsIn
    <3>3. QED BY <1>3, <2>2, <3>1, <3>2, GotIs, Numbers DEF Result, Sound
  <2>10. CASE ~(p >= q.stop \/ p < q.start)
    <3>1. PICK d : d = [i |-> 0, p |-> p, msg |-> MsgAt(p)] OBVIOUS
    <3>2. r = Got(d, MsgAt(p)) BY <1>3, <2>1, <2>7, <2>10, <3>1 DEF ItemFrom
    <3>3. Good(q, d) /\ r \in Value /\ MsgAt(p) \in Messages
      BY <1>3, <2>1, <2>2, <2>7, <3>1, <3>2, SliceMoves
    <3>4. r.cursor = d /\ r.ref = MsgAt(p) /\ d.msg = MsgAt(p) /\ d.i = 0 BY <3>1, <3>2 DEF Got
    <3>5. Result(q, r) /\ r.ref # NoMsg BY <1>1, <3>3, <3>4, Numbers DEF Result, Sound, Ref, Good
    <3>6. StartsIn(q) BY <2>2, <2>3, <2>4, <2>6, <2>8, <2>10 DEF StartsIn
    <3>7. QED BY <3>3, <3>4, <3>5, <3>6, Numbers
  <2>11. QED BY <2>9, <2>10
<1>4. CASE Good(q, c) /\ ~Reset(c)
  <2>1. c.msg # End BY <1>1, <1>4, MsgAtIs, Numbers DEF Good, Cursor
  <2>2. ItemFrom(q, c, 0, r) BY <1>1, <1>4, <2>1, SliceItemIs
  <2>3. QED BY <1>3, <1>4, <2>2
<1>5. CASE Reset(c) /\ Begin(q).ref = End
  <2>1. r = Got(c, End) BY <1>1, <1>5, SliceItemIs
  <2>2. QED BY <1>1, <1>5, <2>1, GotIs, Numbers DEF Result, Sound, StartsIn
<1>6. CASE Reset(c) /\ Begin(q).ref # End
  <2>1. ItemFrom(q, Begin(q).cursor, 0, r) BY <1>1, <1>6, SliceItemIs
  <2>2. QED BY <1>3, <1>6, <2>1, BeginIsGood
<1>7. QED BY <1>2, <1>4, <1>5, <1>6

\* next() of a slice, from a good cursor.
LEMMA SliceNextIs ==
  ASSUME NEW q, IsSlice(q), NEW c, Good(q, c), NEW r, r = SliceNext(q, c)
  PROVE  /\ Result(q, r) /\ r.ref # NoMsg /\ r.cursor.i # New
         /\ Plain(q) /\ r.ref # End => c.msg <= r.ref
         /\ LET p == c.p + q.step
            IN IF AtLast(c) \/ p >= q.stop \/ p < q.start \/ ~InStream(p)
                 THEN r.ref = End ELSE r.ref # End /\ r.cursor.p = p
<1>1. /\ c \in Cursor /\ q.kind = "slice" /\ c.i >= 0 /\ InStream(c.p) /\ c.msg = MsgAt(c.p)
      /\ Plain(q) => (q.start >= 0 <=> c.p >= 0)
  BY DEF Good, IsSlice
<1>2. c.i \in Nat /\ c.p \in Int /\ q.step \in Nat \ {0} BY <1>1 DEF Cursor, IsSlice
<1>3. ~Reset(c) /\ c.i # Exhausted /\ c.msg # End BY <1>1, <1>2, MsgAtIs, Numbers DEF Reset
<1>4. PICK p : p = c.p + q.step OBVIOUS
<1>5. p \in Int /\ p = c.p + q.step * ((c.i + 1) - c.i) BY <1>2, <1>4
<1>6. ItemFrom(q, c, c.i + 1, SliceItem(q, c, c.i + 1)) BY <1>1, <1>2, <1>3, SliceItemIs
<1>7. ASSUME NEW d \in Cursor, d.i = Exhausted, r = Got(d, End)
      PROVE  Result(q, r) /\ r.ref # NoMsg /\ r.cursor.i # New /\ r.ref = End
  BY <1>1, <1>7, GotIs, Numbers DEF Result, Sound, Reset
<1>8. CASE AtLast(c)
  <2>1. r = Got([c EXCEPT !.i = Exhausted], End) BY <1>3, <1>8 DEF SliceNext
  <2>2. [c EXCEPT !.i = Exhausted] \in Cursor /\ [c EXCEPT !.i = Exhausted].i = Exhausted
    BY <1>1, Numbers DEF Cursor
  <2>3. QED BY <1>7, <1>8, <2>1, <2>2
<1>9. CASE ~AtLast(c) /\ (p >= q.stop \/ p < q.start \/ ~InStream(p))
  <2>1. SliceItem(q, c, c.i + 1).ref = End BY <1>5, <1>6, <1>9 DEF ItemFrom, Got
  <2>2. PICK d : d = [c EXCEPT !.i = Exhausted, !.msg = NoMsg] OBVIOUS
  <2>3. r = Got(d, End) BY <1>3, <1>9, <2>1, <2>2 DEF SliceNext
  <2>4. d = [i |-> Exhausted, p |-> c.p, msg |-> NoMsg] BY <1>1, <2>2 DEF Cursor
  <2>5. d \in Cursor /\ d.i = Exhausted BY <1>2, <2>4, Numbers DEF Cursor
  <2>6. QED BY <1>4, <1>7, <1>9, <2>3, <2>5
<1>10. CASE ~AtLast(c) /\ ~(p >= q.stop \/ p < q.start \/ ~InStream(p))
  <2>1. PICK d : d = [i |-> c.i + 1, p |-> p, msg |-> MsgAt(p)] OBVIOUS
  <2>2. SliceItem(q, c, c.i + 1) = Got(d, MsgAt(p)) BY <1>5, <1>6, <1>10, <2>1 DEF ItemFrom
  <2>3. MsgAt(p) # End BY <1>5, <1>10, MsgAtIs, Numbers
  <2>4. r = Got(d, MsgAt(p)) BY <1>3, <1>10, <2>2, <2>3 DEF SliceNext, Got
  <2>5. Plain(q) => (q.start >= 0 <=> p >= 0) /\ (q.start < 0 => q.step = 1)
    <3>1. Plain(q) /\ ~(q.start >= 0) => q.step = 1 BY <1>1 DEF Plain
    <3>2. q.start \in Int /\ c.p # -1 BY <1>10 DEF AtLast, IsSlice
    <3>3. QED BY <1>1, <1>2, <1>4, <3>1, <3>2
  <2>6. c.i + 1 \in Nat BY <1>2
  <2>7. Good(q, d) /\ r \in Value /\ MsgAt(p) \in Messages
    BY <1>5, <1>10, <2>1, <2>4, <2>5, <2>6, SliceMoves
  <2>8. r.cursor = d /\ r.ref = MsgAt(p) /\ d.msg = MsgAt(p) /\ d.i # New
    BY <1>2, <2>1, <2>4, Numbers DEF Got
  <2>9. Result(q, r) /\ r.ref # NoMsg BY <1>1, <2>7, <2>8, Numbers DEF Result, Sound, Ref, Good
  <2>10. ASSUME Plain(q) PROVE c.msg <= r.ref
    <3>1. q.start \in Int BY DEF IsSlice
    <3>2. CASE q.start >= 0
      <4>1. c.p >= 0 /\ p >= 0 BY <1>1, <2>5, <2>10, <3>2
      <4>2. c.msg = c.p /\ MsgAt(p) = p BY <1>1, <1>2, <1>5, <1>10, <4>1, MsgAtIs
      <4>3. QED BY <1>2, <1>4, <2>8, <4>2
    <3>3. CASE q.start < 0
      <4>1. c.p < 0 /\ p < 0 BY <1>1, <1>2, <1>5, <2>5, <2>10, <3>1, <3>3
      <4>2. c.msg = c.p + NumMsgs /\ MsgAt(p) = p + NumMsgs
        BY <1>1, <1>2, <1>5, <1>10, <4>1, MsgAtIs
      <4>3. QED BY <1>2, <1>4, <2>8, <4>2, Numbers
    <3>4. QED BY <3>1, <3>2, <3>3
  <2>11. QED BY <1>4, <1>10, <2>1, <2>3, <2>8, <2>9, <2>10
<1>11. QED BY <1>8, <1>9, <1>10

-----------------------------------------------------------------------------
(***************************************************************************)
(* A Filter                                                                *)
(***************************************************************************)

IsFilter(q) == q.kind = "filter" /\ q.passes \in SUBSET Messages

\* The messages before one that the filter lets through, the last before a position
\* or the first after one, are one less and no fewer than one more.
LEMMA BeforeCounts ==
  ASSUME NEW q, IsFilter(q), NEW p \in Int
  PROVE  /\ Cardinality(Before(q, p)) \in Nat
         /\ Before(q, p) # {} =>
              /\ Max(Before(q, p)) \in q.passes /\ Max(Before(q, p)) < p
              /\ Cardinality(Before(q, Max(Before(q, p)))) = Cardinality(Before(q, p)) - 1
         /\ \A m \in q.passes : p \in q.passes /\ p < m =>
              Cardinality(Before(q, p)) + 1 <= Cardinality(Before(q, m))
         /\ Cardinality(Before(q, p)) > 0 => Before(q, p) # {}
<1>1. q.passes \in SUBSET Messages BY DEF IsFilter
<1>2. IsFiniteSet(0 .. NumMsgs - 1)
  <2>1. 0 \in Int /\ NumMsgs - 1 \in Int BY Numbers
  <2>2. QED BY <2>1, FS_Interval
<1>3. IsFiniteSet(Messages) BY <1>2, Numbers
<1>4. ASSUME NEW n \in Int PROVE IsFiniteSet(Before(q, n)) /\ Cardinality(Before(q, n)) \in Nat
  <2>1. Before(q, n) \subseteq Messages BY <1>1 DEF Before
  <2>2. IsFiniteSet(Before(q, n)) BY <1>3, <2>1, FS_Subset
  <2>3. QED BY <2>2, FS_CardinalityType
<1>5. ASSUME Before(q, p) # {}
      PROVE  /\ Max(Before(q, p)) \in q.passes /\ Max(Before(q, p)) < p
             /\ Cardinality(Before(q, Max(Before(q, p)))) = Cardinality(Before(q, p)) - 1
  <2>1. PICK m : m = Max(Before(q, p)) OBVIOUS
  <2>2. Before(q, p) \in SUBSET Messages BY <1>1 DEF Before
  <2>3. m \in Before(q, p) /\ \A y \in Before(q, p) : y <= m BY <1>5, <2>1, <2>2, MaxIs
  <2>4. m \in q.passes /\ m < p /\ m \in Int BY <1>1, <2>3, Numbers DEF Before
  <2>5. Before(q, m) = Before(q, p) \ {m}
    <3>1. ASSUME NEW x \in q.passes PROVE x < m <=> (x < p /\ x # m)
      <4>1. x \in Int BY <1>1, Numbers
      <4>2. x < p => x <= m BY <2>3 DEF Before
      <4>3. QED BY <2>4, <4>1, <4>2
    <3>2. QED BY <3>1 DEF Before
  <2>6. Cardinality(Before(q, p) \ {m}) = Cardinality(Before(q, p)) - 1
    BY <1>4, <2>3, FS_RemoveElement
  <2>7. QED BY <2>1, <2>4, <2>5, <2>6
<1>6. ASSUME NEW m \in q.passes, p \in q.passes, p < m
      PROVE  Cardinality(Before(q, p)) + 1 <= Cardinality(Before(q, m))
  <2>1. m \in Int BY <1>1, Numbers
  <2>2. p \notin Before(q, p) BY DEF Before
  <2>3. IsFiniteSet(Before(q, p)) BY <1>4
  <2>4. Cardinality(Before(q, p) \cup {p}) = Cardinality(Before(q, p)) + 1
    BY <2>2, <2>3, FS_AddElement
  <2>5. Before(q, p) \cup {p} \subseteq Before(q, m)
    <3>1. ASSUME NEW x \in q.passes, x < p PROVE x < m
      <4>1. x \in Int BY <1>1, Numbers
      <4>2. QED BY <1>6, <2>1, <3>1, <4>1
    <3>2. QED BY <1>6, <3>1 DEF Before
  <2>6. Cardinality(Before(q, p) \cup {p}) <= Cardinality(Before(q, m))
    BY <1>4, <2>1, <2>5, FS_Subset
  <2>7. QED BY <2>4, <2>6
<1>7. ASSUME Cardinality(Before(q, p)) > 0 PROVE Before(q, p) # {} BY <1>7, FS_EmptySet
<1>8. QED BY <1>4, <1>5, <1>6, <1>7

\* A filter's cursor on a message, as what there is to know of one.
LEMMA OnMessage ==
  ASSUME NEW q, IsFilter(q), NEW i \in Nat, NEW p \in q.passes, i <= Cardinality(Before(q, p)),
         NEW r, r = Got([i |-> i, p |-> p, msg |-> p], p)
  PROVE  /\ Result(q, r) /\ Good(q, r.cursor) /\ r.ref \in Messages /\ r.ref = p
         /\ r.cursor = [i |-> i, p |-> p, msg |-> p] /\ r.ref = r.cursor.msg /\ ~Reset(r.cursor)
<1>1. p \in Messages /\ p \in Int /\ q.kind = "filter" BY Numbers DEF IsFilter
<1>2. PICK d : d = [i |-> i, p |-> p, msg |-> p] OBVIOUS
<1>3. d \in Cursor BY <1>1, <1>2 DEF Cursor
<1>4. r \in Value /\ r.cursor = d /\ r.ref = p BY <1>1, <1>2, <1>3, GotIs
<1>5. Good(q, d) BY <1>1, <1>2, <1>3 DEF Good
<1>6. ~Reset(d) BY <1>2, Numbers DEF Reset
<1>7. Result(q, r) BY <1>1, <1>2, <1>3, <1>4, <1>5, Numbers DEF Result, Sound, Ref
<1>8. QED BY <1>1, <1>2, <1>4, <1>5, <1>6, <1>7

LEMMA FilterGetFirstIs ==
  ASSUME NEW q, IsFilter(q), NEW c \in Cursor, NEW r, r = FilterGetFirst(q, c)
  PROVE  /\ Result(q, r) /\ r.ref # NoMsg
         /\ r.ref # End => Good(q, r.cursor) /\ r.cursor.i = 0
<1>1. q.passes \in SUBSET Messages /\ q.kind = "filter" BY DEF IsFilter
<1>2. CASE q.passes = {}
  <2>1. PICK d : d = [c EXCEPT !.i = New, !.p = NumMsgs - 1] OBVIOUS
  <2>2. r = Got(d, End) BY <1>2, <2>1 DEF FilterGetFirst
  <2>3. d = [i |-> New, p |-> NumMsgs - 1, msg |-> c.msg] BY <2>1 DEF Cursor
  <2>4. c.msg \in Int BY DEF Cursor
  <2>5. d \in Cursor /\ Reset(d) BY <2>3, <2>4, Numbers DEF Cursor, Reset
  <2>6. QED BY <1>1, <2>2, <2>5, GotIs, Numbers DEF Result, Sound
<1>3. CASE q.passes # {}
  <2>1. PICK m : m = Min(q.passes) OBVIOUS
  <2>2. q.passes \in SUBSET Nat BY <1>1, Numbers
  <2>3. m \in q.passes /\ m \in Int BY <1>3, <2>1, <2>2, MinIs
  <2>4. r = Got([i |-> 0, p |-> m, msg |-> m], m) BY <1>3, <2>1 DEF FilterGetFirst
  <2>5. Cardinality(Before(q, m)) \in Nat BY <2>3, BeforeCounts
  <2>6. 0 <= Cardinality(Before(q, m)) BY <2>5
  <2>7. QED BY <2>3, <2>4, <2>6, OnMessage, Numbers
<1>4. QED BY <1>2, <1>3

\* next() of a filter, from a cursor on a message or behind the last.
LEMMA FilterNextIs ==
  ASSUME NEW q, IsFilter(q), NEW c, Good(q, c) \/ Behind(q, c), NEW r, r = FilterNext(q, c)
  PROVE  /\ Result(q, r) /\ r.ref # NoMsg /\ r.cursor.i # New
         /\ r.ref # End => c.msg <= r.ref
<1>1. q.passes \in SUBSET Messages /\ q.kind = "filter" BY DEF IsFilter
<1>2. /\ c \in Cursor /\ c.i \in Nat /\ c.p \in Int /\ c.i <= Cardinality(Before(q, c.p))
      /\ (c.p \in q.passes /\ c.msg = c.p) \/ (c.p = NumMsgs /\ c.msg = NoMsg)
      /\ q.passes # {}
  BY <1>1 DEF Good, Behind, Cursor
<1>3. c.i # Exhausted BY <1>2, Numbers
<1>4. PICK above : above = {m \in q.passes : m > c.p} OBVIOUS
<1>5. CASE above = {}
  <2>1. PICK d : d = [c EXCEPT !.p = NumMsgs, !.msg = NoMsg] OBVIOUS
  <2>2. r = Got(d, End) BY <1>3, <1>4, <1>5, <2>1 DEF FilterNext
  <2>3. d = [i |-> c.i, p |-> NumMsgs, msg |-> NoMsg] BY <1>2, <2>1 DEF Cursor
  <2>4. d \in Cursor BY <1>2, <2>3, Numbers DEF Cursor
  <2>5. Before(q, c.p) \subseteq Before(q, NumMsgs)
    <3>1. \A m \in q.passes : m < NumMsgs BY <1>1, Numbers
    <3>2. QED BY <3>1 DEF Before
  <2>6. IsFiniteSet(Before(q, NumMsgs))
    <3>1. 0 \in Int /\ NumMsgs - 1 \in Int BY Numbers
    <3>2. IsFiniteSet(0 .. NumMsgs - 1) BY <3>1, FS_Interval
    <3>3. Before(q, NumMsgs) \subseteq 0 .. NumMsgs - 1 BY <1>1, Numbers DEF Before
    <3>4. QED BY <3>2, <3>3, FS_Subset
  <2>7. Cardinality(Before(q, c.p)) <= Cardinality(Before(q, NumMsgs)) BY <2>5, <2>6, FS_Subset
  <2>8. Cardinality(Before(q, c.p)) \in Nat /\ Cardinality(Before(q, NumMsgs)) \in Nat
    BY <1>2, BeforeCounts, Numbers
  <2>9. c.i <= Cardinality(Before(q, NumMsgs)) BY <1>2, <2>7, <2>8
  <2>10. Behind(q, d) BY <1>1, <1>2, <2>3, <2>4, <2>9 DEF Behind
  <2>11. d.i # New BY <1>2, <2>3, Numbers
  <2>12. QED BY <1>1, <2>2, <2>4, <2>10, <2>11, GotIs, Numbers DEF Result, Sound
<1>6. CASE above # {}
  <2>1. above \in SUBSET Nat BY <1>1, <1>4, Numbers
  <2>2. PICK m : m = Min(above) OBVIOUS
  <2>3. m \in above BY <1>6, <2>1, <2>2, MinIs
  <2>4. m \in q.passes /\ m > c.p /\ m \in Messages /\ m \in Int BY <1>1, <1>4, <2>3, Numbers
  <2>5. c.p \in q.passes /\ c.msg = c.p BY <1>2, <2>4, Numbers
  <2>6. r = Got([i |-> c.i + 1, p |-> m, msg |-> m], m) BY <1>3, <1>4, <1>6, <2>2 DEF FilterNext
  <2>7. Cardinality(Before(q, c.p)) + 1 <= Cardinality(Before(q, m)) BY <1>2, <2>4, <2>5, BeforeCounts
  <2>8. Cardinality(Before(q, c.p)) \in Nat /\ Cardinality(Before(q, m)) \in Nat
    BY <1>2, <2>4, BeforeCounts
  <2>9. c.i + 1 \in Nat /\ c.i + 1 <= Cardinality(Before(q, m)) BY <1>2, <2>7, <2>8
  <2>10. Result(q, r) /\ r.ref = m /\ r.cursor.i = c.i + 1 BY <2>4, <2>6, <2>9, OnMessage
  <2>11. QED BY <1>2, <2>4, <2>5, <2>9, <2>10, Numbers
<1>7. QED BY <1>5, <1>6

\* __prev__, from any cursor, gives a message of lower position.
BackRank == [d \in Cursor |-> IF d.p > 0 THEN d.p ELSE 0]
LEMMA FilterPrevIs ==
  ASSUME NEW q, IsFilter(q), NEW d \in Cursor, NEW r, r = FilterPrev(q, d)
  PROVE  /\ r \in Value /\ r.cursor \in Cursor
         /\ BackRank \in [Cursor -> Nat]
         /\ r.ref # End => BackRank[r.cursor] < BackRank[d]
         /\ Before(q, d.p) # {} =>
              LET m == Max(Before(q, d.p))
              IN r = Got([i |-> d.i - 1, p |-> m, msg |-> m], m) /\ r.ref # End
<1>1. d.i \in Int /\ d.p \in Int /\ d.msg \in Int BY DEF Cursor
<1>2. BackRank \in [Cursor -> Nat]
  <2>1. ASSUME NEW e \in Cursor PROVE (IF e.p > 0 THEN e.p ELSE 0) \in Nat BY DEF Cursor
  <2>2. QED BY <2>1 DEF BackRank
<1>3. CASE Before(q, d.p) = {}
  <2>1. PICK e : e = [d EXCEPT !.p = -1, !.msg = NoMsg] OBVIOUS
  <2>2. r = Got(e, End) BY <1>3, <2>1 DEF FilterPrev, Before
  <2>3. e = [i |-> d.i, p |-> -1, msg |-> NoMsg] BY <2>1 DEF Cursor
  <2>4. e \in Cursor BY <1>1, <2>3, Numbers DEF Cursor
  <2>5. QED BY <1>2, <1>3, <2>2, <2>4, GotIs, Numbers
<1>4. CASE Before(q, d.p) # {}
  <2>1. PICK m : m = Max(Before(q, d.p)) OBVIOUS
  <2>2. m \in q.passes /\ m < d.p BY <1>1, <1>4, <2>1, BeforeCounts
  <2>3. m \in Messages /\ m \in Nat /\ m # End BY <2>2, Numbers DEF IsFilter
  <2>4. PICK e : e = [i |-> d.i - 1, p |-> m, msg |-> m] OBVIOUS
  <2>5. e \in Cursor /\ e.p = m BY <1>1, <2>3, <2>4 DEF Cursor
  <2>6. r = Got(e, m) BY <1>4, <2>1, <2>4 DEF FilterPrev, Before
  <2>7. r \in Value /\ r.cursor = e /\ r.ref = m BY <2>3, <2>5, <2>6, GotIs
  <2>8. BackRank[e] < BackRank[d] BY <1>1, <2>2, <2>3, <2>5 DEF BackRank
  <2>9. QED BY <1>2, <2>1, <2>3, <2>4, <2>5, <2>6, <2>7, <2>8
<1>5. QED BY <1>3, <1>4

\* The loop of __getitem__, from a cursor d.
TurnedBack(back, q, d) ==
  LET prev == FilterPrev(q, d)
  IN IF d.i = 0 THEN Got(d, d.msg) ELSE IF prev.ref = End THEN prev ELSE back[prev.cursor]

LEMMA BackUnfolds ==
  ASSUME NEW q, IsFilter(q), NEW c \in Cursor, ~Reset(c)
  PROVE  \E back : /\ \A d \in Cursor : back[d] = TurnedBack(back, q, d)
                   /\ FilterFirst(q, c) = back[c]
<1> DEFINE step == [f \in [Cursor -> Value] |-> [d \in Cursor |-> TurnedBack(f, q, d)]]
           back == CHOOSE f : f = [d \in Cursor |-> TurnedBack(f, q, d)]
<1>1. FilterFirst(q, c) = back[c] BY DEF FilterFirst, TurnedBack
<1>2. ASSUME NEW f \in [Cursor -> Value], NEW d \in Cursor PROVE TurnedBack(f, q, d) \in Value
  <2>1. PICK r : r = FilterPrev(q, d) OBVIOUS
  <2>2. r \in Value /\ r.cursor \in Cursor BY <2>1, FilterPrevIs
  <2>3. Got(d, d.msg) \in Value BY GotIs DEF Cursor
  <2>4. TurnedBack(f, q, d) = IF d.i = 0 THEN Got(d, d.msg) ELSE IF r.ref = End THEN r ELSE f[r.cursor]
    BY <2>1 DEF TurnedBack
  <2>5. f[r.cursor] \in Value BY <2>2
  <2>6. QED BY <2>2, <2>3, <2>4, <2>5
<1>3. step \in [[Cursor -> Value] -> [Cursor -> Value]] BY <1>2
<1>4. ASSUME NEW f \in [Cursor -> Value], NEW g \in [Cursor -> Value], NEW d \in Cursor,
             \A e \in Cursor : BackRank[e] < BackRank[d] => f[e] = g[e]
      PROVE  TurnedBack(f, q, d) = TurnedBack(g, q, d)
  <2>1. PICK r : r = FilterPrev(q, d) OBVIOUS
  <2>2. r.cursor \in Cursor /\ (r.ref # End => BackRank[r.cursor] < BackRank[d])
    BY <2>1, FilterPrevIs
  <2>3. r.ref # End => f[r.cursor] = g[r.cursor] BY <1>4, <2>2
  <2>4. QED BY <2>1, <2>3 DEF TurnedBack
<1>5. BackRank \in [Cursor -> Nat]
  <2>1. PICK r : r = FilterPrev(q, c) OBVIOUS
  <2>2. QED BY <2>1, FilterPrevIs
<1>6. PICK base : base = [d \in Cursor |-> Got(c, End)] OBVIOUS
<1>7. base \in [Cursor -> Value] BY <1>6, GotIs, Numbers
<1>8. \A f, g \in [Cursor -> Value] : \A d \in Cursor :
        (\A e \in Cursor : BackRank[e] < BackRank[d] => f[e] = g[e]) => step[f][d] = step[g][d]
  BY <1>4
<1>9. \A f \in [Cursor -> Value] : step[f] = [d \in Cursor |-> TurnedBack(f, q, d)] OBVIOUS
<1> HIDE DEF step, back
<1>10. Descending(Cursor, Value, BackRank, step) BY <1>3, <1>5, <1>8 DEF Descending
<1>11. PICK g \in [Cursor -> Value] : g = step[g] BY <1>7, <1>10, RankedRecursion
<1>12. g = [d \in Cursor |-> TurnedBack(g, q, d)] BY <1>9, <1>11
<1>13. back = [d \in Cursor |-> TurnedBack(back, q, d)] BY <1>12 DEF back
<1>14. QED BY <1>1, <1>13

\* A cursor that has not lost count comes back to message 0, or has never left the
\* end and stays there.
CameBack(q, c, r) ==
  /\ Result(q, r) /\ r.ref # End /\ r.cursor.i = 0
  /\ Good(q, c) => r.ref # NoMsg /\ ~Behind(q, r.cursor)

LEMMA BackIs ==
  ASSUME NEW q, IsFilter(q), NEW c, Good(q, c) \/ Behind(q, c)
  PROVE  CameBack(q, c, FilterFirst(q, c))
<1>1. q.passes \in SUBSET Messages /\ q.kind = "filter" BY DEF IsFilter
<1>2. c \in Cursor /\ ~Reset(c) BY <1>1, Numbers DEF Good, Behind, Reset
<1>3. PICK back : /\ \A d \in Cursor : back[d] = TurnedBack(back, q, d)
                  /\ FilterFirst(q, c) = back[c]
  BY <1>2, BackUnfolds
<1> DEFINE S == {d \in Cursor : Good(q, d) \/ Behind(q, d) => CameBack(q, d, back[d])}
<1>4. ASSUME NEW d \in Cursor, \A e \in Cursor : BackRank[e] < BackRank[d] => e \in S,
             Good(q, d) \/ Behind(q, d)
      PROVE  CameBack(q, d, back[d])
  <2>1. /\ d.i \in Nat /\ d.p \in Int /\ d.msg \in Int /\ d.i <= Cardinality(Before(q, d.p))
        /\ (d.p \in q.passes /\ d.msg = d.p) \/ (d.p = NumMsgs /\ d.msg = NoMsg)
    BY <1>1, <1>4 DEF Good, Behind, Cursor
  <2>2. PICK r : r = FilterPrev(q, d) OBVIOUS
  <2>3. back[d] = IF d.i = 0 THEN Got(d, d.msg) ELSE IF r.ref = End THEN r ELSE back[r.cursor]
    BY <1>3, <2>2 DEF TurnedBack
  <2>4. CASE d.i = 0
    <3>1. PICK v : v = back[d] OBVIOUS
    <3>2. v = Got(d, d.msg) BY <2>3, <2>4, <3>1
    <3>3. v \in Value /\ v.cursor = d /\ v.ref = d.msg BY <2>1, <3>2, GotIs
    <3>4. d.msg \in Messages \cup {NoMsg} /\ d.msg # End BY <1>1, <2>1, Numbers
    <3>5. d.msg \in Messages => Good(q, d) BY <1>4, Numbers DEF Behind
    <3>6. Result(q, v) BY <1>1, <1>4, <3>3, <3>4, <3>5 DEF Result, Sound, Ref
    <3>7. Good(q, d) => d.msg # NoMsg /\ ~Behind(q, d) BY <1>1, Numbers DEF Good, Behind
    <3>8. CameBack(q, d, v) BY <2>4, <3>3, <3>4, <3>6, <3>7 DEF CameBack
    <3>9. QED BY <3>1, <3>8
  <2>5. CASE d.i # 0
    <3>1. Cardinality(Before(q, d.p)) \in Nat BY <2>1, BeforeCounts
    <3>2. Cardinality(Before(q, d.p)) > 0 BY <2>1, <2>5, <3>1
    <3>3. Before(q, d.p) # {} BY <2>1, <3>2, BeforeCounts
    <3>4. PICK m : m = Max(Before(q, d.p)) OBVIOUS
    <3>5. /\ m \in q.passes
          /\ Cardinality(Before(q, m)) = Cardinality(Before(q, d.p)) - 1
      BY <2>1, <3>3, <3>4, BeforeCounts
    <3>6. r = Got([i |-> d.i - 1, p |-> m, msg |-> m], m) BY <2>2, <3>3, <3>4, FilterPrevIs
    <3>7. d.i - 1 \in Nat /\ d.i - 1 <= Cardinality(Before(q, m)) BY <2>1, <2>5, <3>1, <3>5
    <3>8. Good(q, r.cursor) BY <3>5, <3>6, <3>7, OnMessage
    <3>9. r.ref # End /\ r.cursor \in Cursor /\ BackRank[r.cursor] < BackRank[d]
      BY <2>2, <3>3, FilterPrevIs
    <3>10. CameBack(q, r.cursor, back[r.cursor]) BY <1>4, <3>8, <3>9
    <3>11. QED BY <2>3, <2>5, <3>8, <3>9, <3>10 DEF CameBack
  <2>6. QED BY <2>4, <2>5
<1>5. BackRank \in [Cursor -> Nat]
  <2>1. PICK r : r = FilterPrev(q, c) OBVIOUS
  <2>2. QED BY <1>2, <2>1, FilterPrevIs
<1>6. \A d \in Cursor : (\A e \in Cursor : BackRank[e] < BackRank[d] => e \in S) => d \in S
  BY <1>4
<1> HIDE DEF S
<1>7. Cursor \subseteq S BY <1>5, <1>6, RankInduction
<1>8. QED BY <1>2, <1>3, <1>7 DEF S

\* db.stream(function)[0], of a sound cursor: None only from behind the last message.
LEMMA FilterFirstIs ==
  ASSUME NEW q, IsFilter(q), NEW c, Sound(q, c), NEW r, r = FilterFirst(q, c)
  PROVE  /\ Result(q, r)
         /\ r.ref # End => r.cursor.i = 0
         /\ r.ref # End <=> q.passes # {}
         /\ r.ref = NoMsg \/ Behind(q, r.cursor) => Behind(q, c)
<1>1. q.kind = "filter" /\ c \in Cursor BY DEF IsFilter, Sound
<1>2. CASE Reset(c)
  <2>1. r = FilterGetFirst(q, c) BY <1>2 DEF FilterFirst
  <2>2. /\ Result(q, r) /\ r.ref # NoMsg
        /\ r.ref # End => Good(q, r.cursor) /\ r.cursor.i = 0
    BY <1>1, <2>1, FilterGetFirstIs
  <2>3. CASE q.passes = {}
    <3>1. r.ref = End BY <2>1, <2>3 DEF FilterGetFirst, Got
    <3>2. ~Behind(q, r.cursor) BY <2>3 DEF Behind
    <3>3. QED BY <2>2, <2>3, <3>1, <3>2
  <2>4. CASE q.passes # {}
    <3>1. r.ref \in q.passes
      <4>1. q.passes \in SUBSET Nat BY Numbers DEF IsFilter
      <4>2. r.ref = Min(q.passes) BY <2>1, <2>4 DEF FilterGetFirst, Got
      <4>3. QED BY <2>4, <4>1, <4>2, MinIs
    <3>2. r.ref # End BY <3>1, Numbers DEF IsFilter
    <3>3. ~Behind(q, r.cursor) BY <1>1, <2>2, <3>2, Numbers DEF Good, Behind, IsFilter
    <3>4. QED BY <2>2, <2>4, <3>2, <3>3
  <2>5. QED BY <2>3, <2>4
<1>3. CASE ~Reset(c)
  <2>1. Good(q, c) \/ Behind(q, c) BY <1>1, <1>3 DEF Sound
  <2>2. CameBack(q, c, r) BY <1>3, <2>1, BackIs
  <2>3. q.passes # {} BY <1>1, <2>1 DEF Good, Behind
  <2>4. QED BY <2>1, <2>2, <2>3 DEF CameBack
<1>4. QED BY <1>2, <1>3

-----------------------------------------------------------------------------
(***************************************************************************)
(* [0] and next() of any operand                                           *)
(***************************************************************************)

LEMMA FirstIs ==
  ASSUME NEW q \in Queries, NEW c, Sound(q, c), NEW r, r = FirstOf(q, c)
  PROVE  /\ Result(q, r)
         /\ r.ref # End => r.cursor.i = 0
         /\ r.ref # End <=> Here(q)
         /\ r.ref = NoMsg \/ Behind(q, r.cursor) => Behind(q, c)
<1>1. c \in Cursor BY DEF Sound
<1>2. NotBegun \in Cursor /\ Reset(NotBegun) /\ NotBegun.i = New
  BY Numbers DEF NotBegun, Cursor, Reset
<1>3. Sound(q, NotBegun) BY <1>2 DEF Sound
<1>4. CASE q.kind = "key"
  <2>1. q.refs \in Seq(Messages) BY <1>4, QueryIs
  <2>2. \A d : ~Behind(q, d) BY <1>4 DEF Behind
  <2>3. CASE q.refs = <<>>
    <3>1. r = Got(c, End) BY <1>4, <2>3 DEF FirstOf, KeyFirst
    <3>2. Here(q) = FALSE BY <1>4, <2>3 DEF Here, FirstOf, KeyFirst, Got
    <3>3. QED BY <1>1, <2>2, <3>1, <3>2, GotIs, Numbers DEF Result
  <2>4. CASE q.refs # <<>>
    <3>1. PICK d : d = [c EXCEPT !.i = 0] OBVIOUS
    <3>2. d \in Cursor /\ d.i = 0 BY <1>1, <3>1 DEF Cursor
    <3>3. Len(q.refs) > 0 /\ Len(q.refs) \in Nat /\ q.refs[1] \in Messages BY <2>1, <2>4
    <3>4. r = Got(d, q.refs[1]) BY <1>4, <2>4, <3>1 DEF FirstOf, KeyFirst
    <3>5. r \in Value /\ r.cursor = d /\ r.ref = q.refs[1] BY <3>2, <3>3, <3>4, GotIs, Numbers
    <3>6. Good(q, d) BY <1>4, <3>2, <3>3 DEF Good
    <3>7. Result(q, r) BY <1>4, <3>2, <3>3, <3>5, <3>6 DEF Result, Sound, Ref
    <3>8. FirstOf(q, NotBegun).ref = q.refs[1] BY <1>4, <2>4 DEF FirstOf, KeyFirst, Got
    <3>9. QED BY <2>2, <3>2, <3>3, <3>5, <3>7, <3>8, Numbers DEF Here
  <2>5. QED BY <2>3, <2>4
<1>5. CASE q.kind = "slice"
  <2>1. IsSlice(q) BY <1>5, QueryIs DEF IsSlice
  <2>2. r = SliceItem(q, c, 0) /\ FirstOf(q, NotBegun) = SliceItem(q, NotBegun, 0)
    BY <1>5 DEF FirstOf
  <2>3. \A d : ~Behind(q, d) BY <1>5 DEF Behind
  <2>4. FirstOf(q, NotBegun).ref # End <=> StartsIn(q) BY <1>3, <2>1, <2>2, SliceFirstIs
  <2>5. QED BY <2>1, <2>2, <2>3, <2>4, SliceFirstIs DEF Here
<1>6. CASE q.kind = "filter"
  <2>1. IsFilter(q) BY <1>6, QueryIs DEF IsFilter
  <2>2. r = FilterFirst(q, c) /\ FirstOf(q, NotBegun) = FilterFirst(q, NotBegun)
    BY <1>6 DEF FirstOf
  <2>3. FirstOf(q, NotBegun).ref # End <=> q.passes # {} BY <1>3, <2>1, <2>2, FilterFirstIs
  <2>4. QED BY <2>1, <2>2, <2>3, FilterFirstIs DEF Here
<1>7. CASE q.kind = "merge"
  <2>1. q.refs \in Seq(Messages) BY <1>7, QueryIs
  <2>2. r = MergeFirst(q, c) /\ FirstOf(q, NotBegun) = MergeFirst(q, NotBegun)
    BY <1>7 DEF FirstOf
  <2>3. \A d : ~Behind(q, d) BY <1>7 DEF Behind
  <2>4. CASE q.refs = <<>>
    <3>1. PICK d : d = [c EXCEPT !.i = Exhausted] OBVIOUS
    <3>2. d \in Cursor /\ Reset(d) BY <1>1, <3>1, Numbers DEF Cursor, Reset
    <3>3. r = Got(d, End) BY <2>2, <2>4, <3>1 DEF MergeFirst
    <3>4. Here(q) = FALSE BY <2>2, <2>4 DEF Here, MergeFirst, Got
    <3>5. QED BY <1>7, <2>3, <3>2, <3>3, <3>4, GotIs, Numbers DEF Result, Sound
  <2>5. CASE q.refs # <<>>
    <3>1. PICK d : d = [i |-> 0, p |-> 0, msg |-> q.refs[1]] OBVIOUS
    <3>2. Len(q.refs) > 0 /\ Len(q.refs) \in Nat /\ q.refs[1] \in Messages BY <2>1, <2>5
    <3>3. d \in Cursor /\ d.i = 0 /\ d.msg = q.refs[1] BY <3>1, <3>2, Numbers DEF Cursor
    <3>4. r = Got(d, q.refs[1]) /\ FirstOf(q, NotBegun) = Got(d, q.refs[1])
      BY <2>2, <2>5, <3>1 DEF MergeFirst
    <3>5. r \in Value /\ r.cursor = d /\ r.ref = q.refs[1] BY <3>2, <3>3, <3>4, GotIs, Numbers
    <3>6. Good(q, d) BY <1>7, <3>2, <3>3 DEF Good
    <3>7. Result(q, r) BY <1>7, <3>2, <3>3, <3>5, <3>6 DEF Result, Sound, Ref
    <3>8. QED BY <2>3, <3>2, <3>3, <3>4, <3>5, <3>7, Numbers DEF Here
  <2>6. QED BY <2>4, <2>5
<1>8. QED BY <1>4, <1>5, <1>6, <1>7, QueryIs

LEMMA NextIs ==
  ASSUME NEW q \in Queries, NEW c, Sound(q, c), c.i # New, NEW r, r = NextOf(q, c)
  PROVE  /\ Result(q, r) /\ r.ref # NoMsg /\ r.cursor.i # New
         /\ Plain(q) /\ Good(q, c) /\ r.ref # End => Ref(q, c) <= r.ref
<1>1. c \in Cursor /\ c.i \in Int BY DEF Sound, Cursor
<1>2. CASE q.kind = "key"
  <2>1. q.refs \in Seq(Messages) /\ Ordered(q.refs) /\ Len(q.refs) \in Nat BY <1>2, QueryIs
  <2>2. c.i \in 0 .. Len(q.refs)
    BY <1>2, <2>1 DEF Sound, Good, Behind
  <2>3. PICK i : i = IF c.i < Len(q.refs) THEN c.i + 1 ELSE c.i OBVIOUS
  <2>4. i \in 0 .. Len(q.refs) /\ i \in Int /\ i # New BY <2>1, <2>2, <2>3, Numbers
  <2>5. PICK d : d = [c EXCEPT !.i = i] OBVIOUS
  <2>6. d \in Cursor /\ d.i = i BY <1>1, <2>4, <2>5 DEF Cursor
  <2>7. r = Got(d, IF i < Len(q.refs) THEN q.refs[i + 1] ELSE End)
    BY <1>2, <2>3, <2>5 DEF NextOf, KeyNext
  <2>8. CASE i < Len(q.refs)
    <3>1. i + 1 \in 1 .. Len(q.refs) /\ q.refs[i + 1] \in Messages BY <2>1, <2>4, <2>8
    <3>2. r \in Value /\ r.cursor = d /\ r.ref = q.refs[i + 1]
      BY <2>6, <2>7, <2>8, <3>1, GotIs, Numbers
    <3>3. Good(q, d) BY <1>2, <2>4, <2>6, <2>8 DEF Good
    <3>4. Result(q, r) BY <1>2, <2>6, <3>1, <3>2, <3>3 DEF Result, Sound, Ref
    <3>5. Good(q, c) => q.refs[c.i + 1] <= q.refs[i + 1]
      <4>1. c.i + 1 \in 1 .. Len(q.refs) /\ c.i + 1 <= i + 1 BY <2>1, <2>2, <2>3, <2>8
      <4>2. QED BY <2>1, <3>1, <4>1 DEF Ordered
    <3>6. QED BY <1>2, <2>4, <2>6, <3>1, <3>2, <3>4, <3>5, Numbers DEF Ref
  <2>9. CASE ~(i < Len(q.refs))
    <3>1. r \in Value /\ r.cursor = d /\ r.ref = End BY <2>6, <2>7, <2>9, GotIs, Numbers
    <3>2. i = Len(q.refs) BY <2>1, <2>4, <2>9
    <3>3. QED BY <1>2, <2>4, <2>6, <3>1, <3>2, Numbers DEF Result, Sound
  <2>10. QED BY <2>8, <2>9
<1>3. ASSUME q.kind # "key", c.i = Exhausted, r = Got(c, End)
      PROVE  Result(q, r) /\ r.ref = End /\ r.cursor.i # New
  BY <1>1, <1>3, GotIs, Numbers DEF Result, Sound, Reset
<1>4. CASE q.kind = "slice"
  <2>1. IsSlice(q) /\ NextOf(q, c) = SliceNext(q, c) BY <1>4, QueryIs DEF IsSlice, NextOf
  <2>2. CASE Good(q, c) BY <1>4, <2>1, <2>2, SliceNextIs DEF Ref
  <2>3. CASE ~Good(q, c)
    <3>1. c.i = Exhausted BY <1>4, <2>3 DEF Sound, Behind, Reset
    <3>2. r = Got(c, End) BY <2>1, <3>1 DEF SliceNext
    <3>3. QED BY <1>3, <1>4, <3>1, <3>2, Numbers
  <2>4. QED BY <2>2, <2>3
<1>5. CASE q.kind = "filter"
  <2>1. IsFilter(q) /\ NextOf(q, c) = FilterNext(q, c) BY <1>5, QueryIs DEF IsFilter, NextOf
  <2>2. CASE Good(q, c) \/ Behind(q, c) BY <1>5, <2>1, <2>2, FilterNextIs DEF Ref
  <2>3. CASE ~(Good(q, c) \/ Behind(q, c))
    <3>1. c.i = Exhausted BY <1>5, <2>3 DEF Sound, Reset
    <3>2. r = Got(c, End) BY <2>1, <3>1 DEF FilterNext
    <3>3. QED BY <1>3, <1>5, <3>1, <3>2, Numbers
  <2>4. QED BY <2>2, <2>3
<1>6. CASE q.kind = "merge"
  <2>1. q.refs \in Seq(Messages) /\ Ordered(q.refs) /\ Len(q.refs) \in Nat BY <1>6, QueryIs
  <2>2. r = MergeNext(q, c) BY <1>6 DEF NextOf
  <2>3. c.i = Exhausted \/ Good(q, c) BY <1>6 DEF Sound, Behind, Reset
  <2>4. CASE c.i = Exhausted \/ c.i + 1 >= Len(q.refs)
    <3>1. PICK d : d = [c EXCEPT !.i = Exhausted] OBVIOUS
    <3>2. d \in Cursor /\ d.i = Exhausted BY <1>1, <3>1, Numbers DEF Cursor
    <3>3. r = Got(d, End) BY <2>2, <2>4, <3>1 DEF MergeNext
    <3>4. QED BY <1>6, <3>2, <3>3, GotIs, Numbers DEF Result, Sound, Reset
  <2>5. CASE ~(c.i = Exhausted \/ c.i + 1 >= Len(q.refs))
    <3>1. Good(q, c) BY <2>3, <2>5
    <3>2. c.i \in 0 .. Len(q.refs) - 1 /\ c.msg = q.refs[c.i + 1] BY <1>6, <3>1 DEF Good
    <3>3. PICK i : i = c.i + 1 OBVIOUS
    <3>4. i \in 1 .. Len(q.refs) - 1 /\ i + 1 \in 1 .. Len(q.refs) /\ q.refs[i + 1] \in Messages
      BY <2>1, <2>5, <3>2, <3>3
    <3>5. PICK d : d = [c EXCEPT !.i = i, !.msg = q.refs[i + 1]] OBVIOUS
    <3>6. d \in Cursor /\ d.i = i /\ d.msg = q.refs[i + 1]
      <4>1. d = [i |-> i, p |-> c.p, msg |-> q.refs[i + 1]] BY <1>1, <3>5 DEF Cursor
      <4>2. c.p \in Int /\ q.refs[i + 1] \in Int /\ i \in Int BY <1>1, <3>4, Numbers DEF Cursor
      <4>3. QED BY <4>1, <4>2 DEF Cursor
    <3>7. r = Got(d, q.refs[i + 1]) BY <2>2, <2>5, <3>3, <3>5 DEF MergeNext
    <3>8. r \in Value /\ r.cursor = d /\ r.ref = q.refs[i + 1] BY <3>4, <3>6, <3>7, GotIs, Numbers
    <3>9. Good(q, d) BY <1>6, <3>4, <3>6 DEF Good
    <3>10. Result(q, r) BY <1>6, <3>4, <3>6, <3>8, <3>9 DEF Result, Sound, Ref
    <3>11. c.msg <= q.refs[i + 1]
      <4>1. i \in 1 .. Len(q.refs) /\ i <= i + 1 /\ c.msg = q.refs[i] BY <2>1, <3>2, <3>3, <3>4
      <4>2. q.refs[i] <= q.refs[i + 1]
        <5>1. \A m, n \in 1 .. Len(q.refs) : m <= n => q.refs[m] <= q.refs[n] BY <2>1 DEF Ordered
        <5>2. QED BY <5>1, <4>1, <3>4
      <4>3. QED BY <4>1, <4>2
    <3>12. QED BY <1>6, <3>4, <3>6, <3>8, <3>10, <3>11, Numbers DEF Ref
  <2>6. QED BY <2>4, <2>5
<1>7. QED BY <1>2, <1>4, <1>5, <1>6, QueryIs

-----------------------------------------------------------------------------
(***************************************************************************)
(* ge() of any operand                                                     *)
(***************************************************************************)

\* The search of a Slicer and of a Filter, from a cursor d.
Scanned(on, q, id, d) ==
  LET following == NextOf(q, d)
  IN IF d.msg >= id THEN Got(d, d.msg)
     ELSE IF following.ref = End THEN Got([following.cursor EXCEPT !.i = Exhausted], End)
     ELSE on[following.cursor]

\* Every turn of it, from any cursor, comes nearer to the end of the database.
ScanRank == [d \in Cursor |-> IF d.i = New THEN 2 * NumMsgs + 1
                              ELSE IF d.p < NumMsgs THEN NumMsgs - d.p ELSE 0]
LEMMA ScanRankIs == ScanRank \in [Cursor -> Nat]
<1>1. ASSUME NEW d \in Cursor
      PROVE  (IF d.i = New THEN 2 * NumMsgs + 1
              ELSE IF d.p < NumMsgs THEN NumMsgs - d.p ELSE 0) \in Nat
  BY Numbers DEF Cursor
<1>2. QED BY <1>1 DEF ScanRank

Scans(q) == IsSlice(q) \/ IsFilter(q)
LEMMA ScanNext ==
  ASSUME NEW q, Scans(q), NEW d \in Cursor, NEW r, r = NextOf(q, d)
  PROVE  /\ r \in Value
         /\ r.ref # End => ScanRank[r.cursor] < ScanRank[d]
<1>1. d.i \in Int /\ d.p \in Int /\ d.msg \in Int BY DEF Cursor
<1>2. ASSUME NEW p \in Int, NEW i \in Int, NEW m \in Int, InStream(p), i # New,
             d.i # New => d.p < p, r = Got([i |-> i, p |-> p, msg |-> m], m)
      PROVE  r \in Value /\ ScanRank[r.cursor] < ScanRank[d]
  <2>1. PICK e : e = [i |-> i, p |-> p, msg |-> m] OBVIOUS
  <2>2. e \in Cursor /\ e.i = i /\ e.p = p BY <1>2, <2>1 DEF Cursor
  <2>3. r \in Value /\ r.cursor = e BY <1>2, <2>1, <2>2, GotIs
  <2>4. ScanRank[e] = NumMsgs - p /\ NumMsgs - p > 0 /\ NumMsgs - p <= 2 * NumMsgs
    BY <1>2, <2>2, Numbers DEF ScanRank, InStream
  <2>5. CASE d.i = New
    <3>1. ScanRank[d] = 2 * NumMsgs + 1 BY <2>5 DEF ScanRank
    <3>2. QED BY <1>2, <2>3, <2>4, <3>1, Numbers
  <2>6. CASE d.i # New
    <3>1. ScanRank[d] = NumMsgs - d.p BY <1>1, <1>2, <2>4, <2>6, Numbers DEF ScanRank
    <3>2. QED BY <1>1, <1>2, <2>3, <2>4, <2>6, <3>1, Numbers
  <2>7. QED BY <2>5, <2>6
<1>3. ASSUME NEW e \in Cursor, r = Got(e, End) PROVE r \in Value /\ r.ref = End
  BY <1>3, GotIs, Numbers
<1>4. \A i \in Int, p \in Int, m \in Int :
        /\ [d EXCEPT !.i = i] \in Cursor
        /\ [d EXCEPT !.i = i, !.msg = m] \in Cursor
        /\ [d EXCEPT !.p = p, !.msg = m] \in Cursor
  BY <1>1 DEF Cursor
<1>5. CASE IsSlice(q)
  <2>1. r = SliceNext(q, d) /\ q.step \in Nat \ {0} BY <1>5 DEF IsSlice, NextOf
  <2>2. PICK item : item = SliceItem(q, d, d.i + 1) OBVIOUS
  <2>3. CASE d.i = Exhausted BY <1>3, <2>1, <2>3 DEF SliceNext
  <2>4. CASE d.i # Exhausted /\ (AtLast(d) \/ item.ref = End)
    <3>1. \/ r = Got([d EXCEPT !.i = Exhausted], End)
          \/ r = Got([d EXCEPT !.i = Exhausted, !.msg = NoMsg], End)
      BY <2>1, <2>2, <2>4 DEF SliceNext
    <3>2. Exhausted \in Int /\ NoMsg \in Int BY Numbers
    <3>3. PICK e \in Cursor : r = Got(e, End) BY <1>4, <3>1, <3>2
    <3>4. QED BY <1>3, <3>3
  <2>5. CASE d.i # Exhausted /\ ~AtLast(d) /\ item.ref # End
    <3>1. r = item BY <2>1, <2>2, <2>5 DEF SliceNext
    <3>2. d.i + 1 \in Int /\ d.i + 1 # New BY <1>1, <2>5, Numbers
    <3>3. ASSUME NEW a \in Cursor, ItemFrom(q, a, d.i + 1, item), d.i # New => a = d
          PROVE  r \in Value /\ ScanRank[r.cursor] < ScanRank[d]
      <4>1. PICK p : p = a.p + q.step * ((d.i + 1) - a.i) OBVIOUS
      <4>2. p \in Int BY <1>1, <2>1, <4>1 DEF Cursor
      <4>3. /\ InStream(p) /\ item = Got([i |-> d.i + 1, p |-> p, msg |-> MsgAt(p)], MsgAt(p))
        BY <2>5, <3>3, <4>1 DEF ItemFrom, Got
      <4>4. MsgAt(p) \in Int BY <4>2, <4>3, MsgAtIs, Numbers
      <4>5. d.i # New => d.p < p
        <5>1. SUFFICES ASSUME d.i # New PROVE d.p < p OBVIOUS
        <5>2. p = d.p + q.step * ((d.i + 1) - d.i) BY <3>3, <4>1, <5>1
        <5>3. QED BY <1>1, <2>1, <5>2
      <4>6. QED BY <1>2, <3>1, <3>2, <4>2, <4>3, <4>4, <4>5
    <3>4. CASE Reset(d)
      <4>1. d.i = New BY <2>5, <3>4 DEF Reset
      <4>2. Begin(q).ref # End
        <5>1. SUFFICES ASSUME Begin(q).ref = End PROVE FALSE OBVIOUS
        <5>2. item = Got(d, End) BY <1>5, <2>2, <3>2, <3>4, <5>1, SliceItemIs
        <5>3. QED BY <2>5, <5>2 DEF Got
      <4>3. ItemFrom(q, Begin(q).cursor, d.i + 1, item) BY <1>5, <2>2, <3>2, <3>4, <4>2, SliceItemIs
      <4>4. Begin(q).cursor \in Cursor BY <1>5, <4>2, BeginIsGood DEF Good
      <4>5. QED BY <3>3, <4>1, <4>3, <4>4
    <3>5. CASE ~Reset(d)
      <4>1. d.msg # End
        <5>1. SUFFICES ASSUME d.msg = End PROVE FALSE OBVIOUS
        <5>2. item = Got(d, End) BY <1>5, <2>2, <3>2, <3>5, <5>1, SliceItemIs
        <5>3. QED BY <2>5, <5>2 DEF Got
      <4>2. ItemFrom(q, d, d.i + 1, item) BY <1>5, <2>2, <3>2, <3>5, <4>1, SliceItemIs
      <4>3. QED BY <3>3, <4>2
    <3>6. QED BY <3>4, <3>5
  <2>6. QED BY <2>3, <2>4, <2>5
<1>6. CASE IsFilter(q)
  <2>1. r = FilterNext(q, d) /\ q.passes \in SUBSET Messages BY <1>6 DEF IsFilter, NextOf
  <2>2. PICK above : above = {m \in q.passes : m > d.p} OBVIOUS
  <2>3. CASE d.i = Exhausted BY <1>3, <2>1, <2>3 DEF FilterNext
  <2>4. CASE d.i # Exhausted /\ above = {}
    <3>1. r = Got([d EXCEPT !.p = NumMsgs, !.msg = NoMsg], End) BY <2>1, <2>2, <2>4 DEF FilterNext
    <3>2. NumMsgs \in Int /\ NoMsg \in Int BY Numbers
    <3>3. PICK e \in Cursor : r = Got(e, End) BY <1>1, <1>4, <3>1, <3>2
    <3>4. QED BY <1>3, <3>3
  <2>5. CASE d.i # Exhausted /\ above # {}
    <3>1. PICK m : m = Min(above) OBVIOUS
    <3>2. above \in SUBSET Nat BY <2>1, <2>2, Numbers
    <3>3. m \in above BY <2>5, <3>1, <3>2, MinIs
    <3>4. m \in Messages /\ m \in Int /\ d.p < m /\ InStream(m)
      BY <1>1, <2>1, <2>2, <3>3, Numbers DEF InStream
    <3>5. r = Got([i |-> d.i + 1, p |-> m, msg |-> m], m) BY <2>1, <2>2, <2>5, <3>1 DEF FilterNext
    <3>6. d.i + 1 \in Int /\ d.i + 1 # New BY <1>1, <2>5, Numbers
    <3>7. QED BY <1>2, <3>4, <3>5, <3>6
  <2>6. QED BY <2>3, <2>4, <2>5
<1>7. QED BY <1>5, <1>6 DEF Scans

LEMMA ScanUnfolds ==
  ASSUME NEW q, Scans(q), NEW c \in Cursor, NEW id \in Int, ~Reset(c), c.msg <= id, c.msg # End
  PROVE  \E on : /\ \A d \in Cursor : on[d] = Scanned(on, q, id, d)
                 /\ ScanGe(q, c, id) = on[c]
<1> DEFINE step == [f \in [Cursor -> Value] |-> [d \in Cursor |-> Scanned(f, q, id, d)]]
           on == CHOOSE f : f = [d \in Cursor |-> Scanned(f, q, id, d)]
<1>1. ScanGe(q, c, id) = on[c]
  <2>1. PICK start : start = IF ~Reset(c) /\ c.msg <= id THEN Got(c, c.msg)
                             ELSE IF q.kind = "slice" THEN SliceGetFirst(q, c) ELSE FilterGetFirst(q, c)
    OBVIOUS
  <2>2. ScanGe(q, c, id) = IF start.ref = End THEN start ELSE on[start.cursor]
    BY <2>1 DEF ScanGe, Scanned
  <2> HIDE DEF on
  <2>3. start = Got(c, c.msg) BY <2>1
  <2>4. start.ref = c.msg /\ start.cursor = c BY <2>3 DEF Got
  <2>5. QED BY <2>2, <2>4
<1>2. ASSUME NEW f \in [Cursor -> Value], NEW d \in Cursor PROVE Scanned(f, q, id, d) \in Value
  <2>1. PICK r : r = NextOf(q, d) OBVIOUS
  <2>2. r \in Value /\ r.cursor \in Cursor BY <2>1, ScanNext DEF Value
  <2>3. PICK e : e = [r.cursor EXCEPT !.i = Exhausted] OBVIOUS
  <2>4. e \in Cursor
    <3>1. e = [i |-> Exhausted, p |-> r.cursor.p, msg |-> r.cursor.msg] BY <2>2, <2>3 DEF Cursor
    <3>2. r.cursor.p \in Int /\ r.cursor.msg \in Int BY <2>2 DEF Cursor
    <3>3. QED BY <3>1, <3>2, Numbers DEF Cursor
  <2>5. Got(d, d.msg) \in Value /\ Got(e, End) \in Value BY <2>4, GotIs, Numbers DEF Cursor
  <2>6. Scanned(f, q, id, d) = IF d.msg >= id THEN Got(d, d.msg)
                               ELSE IF r.ref = End THEN Got(e, End) ELSE f[r.cursor]
    BY <2>1, <2>3 DEF Scanned
  <2>7. f[r.cursor] \in Value BY <2>2
  <2>8. QED BY <2>5, <2>6, <2>7
<1>3. step \in [[Cursor -> Value] -> [Cursor -> Value]] BY <1>2
<1>4. ASSUME NEW f \in [Cursor -> Value], NEW g \in [Cursor -> Value], NEW d \in Cursor,
             \A e \in Cursor : ScanRank[e] < ScanRank[d] => f[e] = g[e]
      PROVE  Scanned(f, q, id, d) = Scanned(g, q, id, d)
  <2>1. PICK r : r = NextOf(q, d) OBVIOUS
  <2>2. r.cursor \in Cursor /\ (r.ref # End => ScanRank[r.cursor] < ScanRank[d])
    BY <2>1, ScanNext DEF Value
  <2>3. r.ref # End => f[r.cursor] = g[r.cursor] BY <1>4, <2>2
  <2>4. QED BY <2>1, <2>3 DEF Scanned
<1>5. PICK base : base = [d \in Cursor |-> Got(c, End)] OBVIOUS
<1>6. base \in [Cursor -> Value] BY <1>5, GotIs, Numbers
<1>7. \A f, g \in [Cursor -> Value] : \A d \in Cursor :
        (\A e \in Cursor : ScanRank[e] < ScanRank[d] => f[e] = g[e]) => step[f][d] = step[g][d]
  BY <1>4
<1>8. \A f \in [Cursor -> Value] : step[f] = [d \in Cursor |-> Scanned(f, q, id, d)] OBVIOUS
<1> HIDE DEF step, on
<1>9. Descending(Cursor, Value, ScanRank, step) BY <1>3, <1>7, ScanRankIs DEF Descending
<1>10. PICK g \in [Cursor -> Value] : g = step[g] BY <1>6, <1>9, RankedRecursion
<1>11. g = [d \in Cursor |-> Scanned(g, q, id, d)] BY <1>8, <1>10
<1>12. on = [d \in Cursor |-> Scanned(on, q, id, d)] BY <1>11 DEF on
<1>13. QED BY <1>1, <1>12

\* What a jump to id gives: a cursor there may be, and a message from id on or none.
Jumped(q, id, r) ==
  /\ r \in Value /\ Sound(q, r.cursor) /\ r.ref \in Messages \cup {End}
  /\ r.ref \in Messages => Good(q, r.cursor) /\ r.ref = r.cursor.msg /\ id <= r.ref

LEMMA ScanIs ==
  ASSUME NEW q \in Queries, q.kind \in {"slice", "filter"}, NEW c, Good(q, c),
         NEW id \in Messages, c.msg <= id
  PROVE  Jumped(q, id, ScanGe(q, c, id))
<1>1. Scans(q) BY QueryIs DEF Scans, IsSlice, IsFilter
<1>2. ASSUME NEW d, Good(q, d)
      PROVE  d \in Cursor /\ d.msg \in Messages /\ d.msg # End /\ ~Reset(d) /\ d.i # New /\ Sound(q, d)
  <2>1. d \in Cursor /\ d.i \in Nat BY <1>2 DEF Good, Cursor
  <2>2. q.kind = "slice" => d.msg \in Messages BY <1>2, <2>1, MsgAtIs DEF Good, Cursor
  <2>3. q.kind = "filter" => d.msg \in Messages BY <1>2, QueryIs DEF Good
  <2>4. QED BY <1>2, <2>1, <2>2, <2>3, Numbers DEF Reset, Sound
<1>3. c \in Cursor /\ ~Reset(c) /\ c.msg # End /\ id \in Int BY <1>2, Numbers
<1>4. PICK on : /\ \A d \in Cursor : on[d] = Scanned(on, q, id, d)
                /\ ScanGe(q, c, id) = on[c]
  BY <1>1, <1>3, ScanUnfolds
<1> DEFINE S == {d \in Cursor : Good(q, d) => Jumped(q, id, on[d])}
<1>5. ASSUME NEW d \in Cursor, \A e \in Cursor : ScanRank[e] < ScanRank[d] => e \in S, Good(q, d)
      PROVE  Jumped(q, id, on[d])
  <2>1. d.msg \in Messages /\ d.i # New /\ Sound(q, d) BY <1>2, <1>5
  <2>2. PICK r : r = NextOf(q, d) OBVIOUS
  <2>3. Result(q, r) /\ r.ref # NoMsg BY <2>1, <2>2, NextIs
  <2>4. on[d] = IF d.msg >= id THEN Got(d, d.msg)
                ELSE IF r.ref = End THEN Got([r.cursor EXCEPT !.i = Exhausted], End)
                ELSE on[r.cursor]
    BY <1>4, <2>2 DEF Scanned
  <2>5. CASE d.msg >= id
    <3>1. PICK v : v = Got(d, d.msg) OBVIOUS
    <3>2. on[d] = v BY <2>4, <2>5, <3>1
    <3>3. v \in Value /\ v.cursor = d /\ v.ref = d.msg BY <2>1, <3>1, GotIs, Numbers
    <3>4. Jumped(q, id, v) BY <1>3, <1>5, <2>1, <2>5, <3>3, Numbers DEF Jumped
    <3>5. QED BY <3>2, <3>4
  <2>6. CASE ~(d.msg >= id) /\ r.ref = End
    <3>1. PICK e : e = [r.cursor EXCEPT !.i = Exhausted] OBVIOUS
    <3>2. r.cursor \in Cursor BY <2>3 DEF Result, Value
    <3>3. e \in Cursor /\ Reset(e)
      <4>1. e = [i |-> Exhausted, p |-> r.cursor.p, msg |-> r.cursor.msg] BY <3>1, <3>2 DEF Cursor
      <4>2. r.cursor.p \in Int /\ r.cursor.msg \in Int BY <3>2 DEF Cursor
      <4>3. QED BY <4>1, <4>2, Numbers DEF Cursor, Reset
    <3>4. PICK v : v = Got(e, End) OBVIOUS
    <3>5. on[d] = v BY <2>4, <2>6, <3>1, <3>4
    <3>6. v \in Value /\ v.cursor = e /\ v.ref = End BY <3>3, <3>4, GotIs, Numbers
    <3>7. Jumped(q, id, v) BY <3>3, <3>6, Numbers DEF Jumped, Sound
    <3>8. QED BY <3>5, <3>7
  <2>7. CASE ~(d.msg >= id) /\ r.ref # End
    <3>1. on[d] = on[r.cursor] BY <2>4, <2>7
    <3>2. r.ref \in Messages /\ Good(q, r.cursor) /\ r.cursor \in Cursor
      BY <2>3, <2>7 DEF Result, Value
    <3>3. ScanRank[r.cursor] < ScanRank[d] BY <1>1, <2>2, <2>7, ScanNext
    <3>4. r.cursor \in S BY <1>5, <3>2, <3>3
    <3>5. QED BY <3>1, <3>2, <3>4
  <2>8. QED BY <2>5, <2>6, <2>7
<1>6. \A d \in Cursor : (\A e \in Cursor : ScanRank[e] < ScanRank[d] => e \in S) => d \in S
  BY <1>5
<1> HIDE DEF S
<1>7. Cursor \subseteq S BY <1>6, ScanRankIs, RankInduction
<1>8. QED BY <1>3, <1>4, <1>7 DEF S

\* ge() of a key query finds the first of all its references from id on, and leaves the
\* cursor; that of a slice or a filter behind its message moves the cursor along.
LEMMA GeIs ==
  ASSUME NEW q \in Queries, NEW c, Good(q, c), NEW id \in Messages,
         q.kind # "key" => c.msg <= id, NEW r, r = GeOf(q, c, id)
  PROVE  /\ r.cursor \in Cursor /\ Sound(q, r.cursor) /\ r.ref \in Messages \cup {End, NoMsg}
         /\ r.ref \in Messages =>
              /\ Good(q, r.cursor) /\ id <= r.ref
              /\ q.kind # "key" => r.ref = r.cursor.msg
              /\ q.kind = "key" =>
                   /\ r.cursor = c
                   /\ \E j \in 1 .. Len(q.refs) : r.ref = q.refs[j]
                   /\ \A j \in 1 .. Len(q.refs) : id <= q.refs[j] => r.ref <= q.refs[j]
<1>1. c \in Cursor /\ Sound(q, c) BY DEF Good, Sound
<1>2. CASE q.kind = "key"
  <2>1. q.refs \in Seq(Messages) BY <1>2, QueryIs
  <2>2. PICK later : later = {q.refs[i] : i \in {j \in DOMAIN q.refs : q.refs[j] >= id}} OBVIOUS
  <2>3. r = Got(c, IF later = {} THEN End ELSE Min(later)) BY <1>2, <2>2 DEF GeOf, KeyGe
  <2>4. DOMAIN q.refs = 1 .. Len(q.refs) /\ \A j \in 1 .. Len(q.refs) : q.refs[j] \in Messages BY <2>1
  <2>5. CASE later = {}
    <3>1. r.cursor = c /\ r.ref = End BY <2>3, <2>5 DEF Got
    <3>2. QED BY <1>1, <3>1, Numbers
  <2>6. CASE later # {}
    <3>1. later \in SUBSET Nat BY <2>2, <2>4, Numbers
    <3>2. PICK m : m = Min(later) OBVIOUS
    <3>3. m \in later /\ \A y \in later : m <= y BY <2>6, <3>1, <3>2, MinIs
    <3>4. PICK j \in 1 .. Len(q.refs) : m = q.refs[j] /\ q.refs[j] >= id BY <2>2, <2>4, <3>3
    <3>5. m \in Messages /\ id <= m BY <2>4, <3>4, Numbers
    <3>6. \A k \in 1 .. Len(q.refs) : id <= q.refs[k] => m <= q.refs[k]
      <4>1. SUFFICES ASSUME NEW k \in 1 .. Len(q.refs), id <= q.refs[k] PROVE m <= q.refs[k] OBVIOUS
      <4>2. q.refs[k] \in Int /\ id \in Int BY <2>4, Numbers
      <4>3. q.refs[k] \in later BY <2>2, <2>4, <4>1, <4>2
      <4>4. QED BY <3>3, <4>3
    <3>7. r.cursor = c /\ r.ref = m BY <2>3, <2>6, <3>2 DEF Got
    <3>8. QED BY <1>1, <1>2, <3>4, <3>5, <3>6, <3>7
  <2>7. QED BY <2>5, <2>6
<1>3. CASE q.kind \in {"slice", "filter"}
  <2>1. r = ScanGe(q, c, id) BY <1>3 DEF GeOf
  <2>2. Jumped(q, id, r) BY <1>3, <2>1, ScanIs
  <2>3. QED BY <1>3, <2>2 DEF Jumped, Value
<1>4. CASE q.kind = "merge"
  <2>1. r.cursor = c /\ r.ref = NoMsg BY <1>4 DEF GeOf, Got
  <2>2. QED BY <1>1, <2>1, Numbers
<1>5. QED BY <1>2, <1>3, <1>4, QueryIs

-----------------------------------------------------------------------------
(***************************************************************************)
(* The invariant                                                           *)
(***************************************************************************)

Types ==
  /\ operator \in {"and", "or", "sub", "xor"}
  /\ query \in [Operands -> Queries]
  /\ at \in [Operands -> Cursor]
  /\ next \in [Operands -> Messages \cup IF current_i = "raised" THEN {End, NoMsg} ELSE {End}]
  /\ current_i \in {"new", "call", "at", "exhausted", "raised"}
  /\ again \in BOOLEAN
  /\ out \in Seq(Messages)

Cursors == \A x \in Operands : Sound(query[x], at[x])

\* An iteration has gone on beyond the first messages only if both operands have one;
\* a filter is behind its last message, or gives None, only after that.
Going == current_i \in {"call", "at"}
Started ==
  Going \/ (\E x \in Operands : next[x] = NoMsg \/ Behind(query[x], at[x]))
    => \A x \in Operands : Here(query[x])

\* An operand under way stands on the message that it has next; but one that and_func
\* moves by the jumps of a key query is at or before it.
OnItsWay(op, q, c, n) ==
  /\ c.i # New
  /\ n # End => /\ Good(q, c)
                /\ IF op = "and" /\ q.kind = "key" THEN n \in Ahead(q, c) ELSE n = Ref(q, c)
UnderWay == Going => \A x \in Operands : OnItsWay(operator, query[x], at[x], next[x])

\* What is still to come is behind what the iteration has given. & gives only what both
\* operands still have before them, however far back a jump has left a key's cursor.
InFront(op, qs, cs, ns, s) ==
  /\ op # "and" => \A x \in Operands : ns[x] # End => \A i \in 1 .. Len(s) : s[i] <= ns[x]
  /\ op = "and" /\ (\A x \in Operands : ns[x] # End) =>
       \A z \in Ahead(qs["A"], cs["A"]) \cap Ahead(qs["B"], cs["B"]) :
          /\ \A x \in Operands : ns[x] <= z
          /\ \A i \in 1 .. Len(s) : s[i] <= z
AllPlain == \A x \in Operands : Plain(query[x])
BehindOut == Going /\ AllPlain => InFront(operator, query, at, next, out)

IInv == Types /\ Cursors /\ Started /\ UnderWay /\ BehindOut /\ InOrder

-----------------------------------------------------------------------------

LEMMA OperandsAre == /\ "A" \in Operands /\ "B" \in Operands
                     /\ Other("A") = "B" /\ Other("B") = "A"
                     /\ \A x \in Operands : Other(x) \in Operands /\ Other(x) # x
                     /\ \A x \in Operands : \A y \in Operands : y = x \/ y = Other(x)
BY DEF Operands, Other

\* A good cursor is on a message, and what is ahead is not before it.
LEMMA GoodIs ==
  ASSUME NEW q \in Queries, NEW c, Good(q, c)
  PROVE  /\ c \in Cursor /\ c.i # New /\ Sound(q, c)
         /\ Ref(q, c) \in Messages /\ Ref(q, c) \in Ahead(q, c)
         /\ Ahead(q, c) \subseteq Messages
         /\ \A z \in Ahead(q, c) : Ref(q, c) <= z
<1>1. c \in Cursor /\ c.i \in Int /\ c.p \in Int /\ Sound(q, c) BY DEF Good, Sound, Cursor
<1>2. CASE q.kind = "key"
  <2>1. q.refs \in Seq(Messages) /\ Ordered(q.refs) /\ Len(q.refs) \in Nat BY <1>2, QueryIs
  <2>2. c.i \in 0 .. Len(q.refs) - 1 BY <1>2 DEF Good
  <2>3. c.i # New /\ c.i + 1 \in 1 .. Len(q.refs) /\ c.i + 1 \in c.i + 1 .. Len(q.refs)
    BY <2>1, <2>2, Numbers
  <2>4. \A j \in c.i + 1 .. Len(q.refs) : j \in 1 .. Len(q.refs) /\ c.i + 1 <= j BY <2>1, <2>2
  <2>5. Ref(q, c) = q.refs[c.i + 1] /\ Ahead(q, c) = {q.refs[j] : j \in c.i + 1 .. Len(q.refs)}
    BY <1>2 DEF Ref, Ahead
  <2>6. \A j \in 1 .. Len(q.refs) : q.refs[j] \in Messages BY <2>1
  <2>7. \A j \in c.i + 1 .. Len(q.refs) : q.refs[c.i + 1] <= q.refs[j]
    BY <2>1, <2>3, <2>4 DEF Ordered
  <2>8. QED BY <1>1, <2>3, <2>4, <2>5, <2>6, <2>7
<1>3. CASE q.kind # "key"
  <2>1. c.msg \in Messages
    <3>1. q.kind = "slice" => c.msg \in Messages BY <1>1, MsgAtIs DEF Good
    <3>2. q.kind = "filter" => c.msg \in Messages BY QueryIs DEF Good
    <3>3. ASSUME q.kind = "merge" PROVE c.msg \in Messages
      <4>1. q.refs \in Seq(Messages) BY <3>3, QueryIs
      <4>2. c.i + 1 \in 1 .. Len(q.refs) /\ c.msg = q.refs[c.i + 1] BY <3>3, <4>1 DEF Good
      <4>3. QED BY <4>1, <4>2
    <3>4. QED BY <1>3, <3>1, <3>2, <3>3, QueryIs
  <2>2. c.i # New BY <1>1, <1>3, QueryIs, Numbers DEF Good
  <2>3. Ref(q, c) = c.msg /\ Ahead(q, c) = {m \in Messages : m >= c.msg} BY <1>3 DEF Ref, Ahead
  <2>4. QED BY <1>1, <2>1, <2>2, <2>3, Numbers
<1>4. QED BY <1>2, <1>3

\* A turn's next() of one operand that has a message next.
Forward(op, q, c, n, d, m) ==
  m # End => /\ Ahead(q, d) \subseteq Ahead(q, c)
             /\ \A z \in Ahead(q, d) : m <= z
             /\ op # "and" => n <= m

LEMMA MovesOn ==
  ASSUME NEW op, NEW q \in Queries, NEW c, NEW n \in Messages, OnItsWay(op, q, c, n),
         NEW r, r = NextOf(q, c)
  PROVE  /\ r.cursor \in Cursor /\ Sound(q, r.cursor)
         /\ r.ref \in Messages \cup {End} /\ OnItsWay(op, q, r.cursor, r.ref)
         /\ Plain(q) => Forward(op, q, c, n, r.cursor, r.ref)
<1>1. n # End BY Numbers
<1>2. Good(q, c) /\ IF op = "and" /\ q.kind = "key" THEN n \in Ahead(q, c) ELSE n = Ref(q, c)
  BY <1>1 DEF OnItsWay
<1>3. c.i # New /\ Sound(q, c) /\ c \in Cursor BY <1>2, GoodIs
<1>4. /\ Result(q, r) /\ r.ref # NoMsg /\ r.cursor.i # New
      /\ Plain(q) /\ Good(q, c) /\ r.ref # End => Ref(q, c) <= r.ref
  BY <1>3, NextIs
<1>5. r.cursor \in Cursor /\ Sound(q, r.cursor) /\ r.ref \in Messages \cup {End}
  BY <1>4 DEF Result, Value
<1>6. r.ref # End => Good(q, r.cursor) /\ r.ref = Ref(q, r.cursor) BY <1>4, <1>5 DEF Result
<1>7. r.ref # End => r.ref \in Ahead(q, r.cursor) BY <1>6, GoodIs
<1>8. OnItsWay(op, q, r.cursor, r.ref) BY <1>4, <1>6, <1>7 DEF OnItsWay
<1>9. ASSUME Plain(q), r.ref # End PROVE Ahead(q, r.cursor) \subseteq Ahead(q, c)
  <2>1. CASE q.kind = "key"
    <3>1. Len(q.refs) \in Nat BY <2>1, QueryIs
    <3>2. c.i \in 0 .. Len(q.refs) - 1 BY <1>2, <2>1 DEF Good
    <3>3. PICK d : d = [c EXCEPT !.i = c.i + 1] OBVIOUS
    <3>4. d.i = c.i + 1 BY <1>3, <3>3 DEF Cursor
    <3>5. r.cursor = d BY <2>1, <3>1, <3>2, <3>3 DEF NextOf, KeyNext, Got
    <3>6. \A j \in d.i + 1 .. Len(q.refs) : j \in c.i + 1 .. Len(q.refs) BY <3>1, <3>2, <3>4
    <3>7. QED BY <2>1, <3>5, <3>6 DEF Ahead
  <2>2. CASE q.kind # "key"
    <3>1. c.msg <= r.cursor.msg BY <1>2, <1>4, <1>6, <1>9, <2>2 DEF Ref
    <3>2. c.msg \in Messages /\ r.cursor.msg \in Messages
      BY <1>2, <1>6, <1>9, <2>2, GoodIs DEF Ref
    <3>3. \A m \in Messages : m >= r.cursor.msg => m >= c.msg BY <3>1, <3>2, Numbers
    <3>4. QED BY <2>2, <3>3 DEF Ahead
  <2>3. QED BY <2>1, <2>2
<1>10. r.ref # End => \A z \in Ahead(q, r.cursor) : r.ref <= z BY <1>6, GoodIs
<1>11. Plain(q) /\ r.ref # End /\ op # "and" => n <= r.ref BY <1>2, <1>4
<1>12. QED BY <1>5, <1>8, <1>9, <1>10, <1>11 DEF Forward

-----------------------------------------------------------------------------
(***************************************************************************)
(* The steps                                                               *)
(***************************************************************************)

\* What the operands are after get_next of some of them.
Moved(a, n, xs) ==
  /\ a \in [Operands -> Cursor] /\ n \in [Operands -> Messages \cup {End}]
  /\ \A x \in Operands : Sound(query[x], a[x]) /\ OnItsWay(operator, query[x], a[x], n[x])
  /\ \A x \in xs : Plain(query[x]) => Forward(operator, query[x], at[x], next[x], a[x], n[x])
  /\ \A x \in Operands \ xs : a[x] = at[x] /\ n[x] = next[x]

LEMMA MoveOnIs ==
  ASSUME Types, Cursors, UnderWay, current_i = "call",
         NEW xs \in SUBSET Operands, \A x \in xs : next[x] # End, MoveOn(xs),
         NEW a, NEW n, a = at', n = next'
  PROVE  Moved(a, n, xs)
<1>1. /\ at \in [Operands -> Cursor] /\ query \in [Operands -> Queries]
      /\ next \in [Operands -> Messages \cup {End}]
  BY Numbers DEF Types
<1>2. \A x \in Operands : Sound(query[x], at[x]) /\ OnItsWay(operator, query[x], at[x], next[x])
  BY DEF Cursors, UnderWay, Going
<1>3. PICK r : r = [x \in Operands |-> NextOf(query[x], at[x])] OBVIOUS
<1>4. /\ a = [x \in Operands |-> IF x \in xs THEN r[x].cursor ELSE at[x]]
      /\ n = [x \in Operands |-> IF x \in xs THEN r[x].ref ELSE next[x]]
  BY <1>3 DEF MoveOn
<1>5. ASSUME NEW x \in xs
      PROVE  /\ r[x].cursor \in Cursor /\ Sound(query[x], r[x].cursor)
             /\ r[x].ref \in Messages \cup {End}
             /\ OnItsWay(operator, query[x], r[x].cursor, r[x].ref)
             /\ Plain(query[x]) => Forward(operator, query[x], at[x], next[x], r[x].cursor, r[x].ref)
  <2>1. r[x] = NextOf(query[x], at[x]) BY <1>3
  <2>2. query[x] \in Queries /\ next[x] \in Messages BY <1>1
  <2>3. OnItsWay(operator, query[x], at[x], next[x]) BY <1>2
  <2>4. QED BY <2>1, <2>2, <2>3, MovesOn
<1>6. \A x \in Operands : x \in xs => a[x] = r[x].cursor /\ n[x] = r[x].ref BY <1>4
<1>7. \A x \in Operands : x \notin xs => a[x] = at[x] /\ n[x] = next[x] BY <1>4
<1>8. \A x \in Operands : a[x] \in Cursor /\ n[x] \in Messages \cup {End}
  BY <1>1, <1>5, <1>6, <1>7
<1>9. a \in [Operands -> Cursor] /\ n \in [Operands -> Messages \cup {End}] BY <1>4, <1>8
<1>10. \A x \in Operands : Sound(query[x], a[x]) /\ OnItsWay(operator, query[x], a[x], n[x])
  BY <1>2, <1>5, <1>6, <1>7
<1>11. \A x \in xs : Plain(query[x]) => Forward(operator, query[x], at[x], next[x], a[x], n[x])
  BY <1>5, <1>6
<1>12. QED BY <1>7, <1>9, <1>10, <1>11 DEF Moved

\* A turn that the iteration goes on from.
LEMMA GoesOn ==
  ASSUME Types, \A x \in Operands : Here(query[x]),
         UNCHANGED <<operator, query>>, again' \in BOOLEAN,
         NEW a, NEW n, NEW s, at' = a, next' = n, out' = s, current_i' \in {"call", "at"},
         a \in [Operands -> Cursor], n \in [Operands -> Messages \cup {End}], s \in Seq(Messages),
         \A x \in Operands : Sound(query[x], a[x]) /\ OnItsWay(operator, query[x], a[x], n[x]),
         AllPlain => InFront(operator, query, a, n, s) /\ Ordered(s)
  PROVE  IInv'
<1>1. Types' BY DEF Types
<1>2. Cursors' BY DEF Cursors
<1>3. Started' BY DEF Started
<1>4. UnderWay' BY DEF UnderWay
<1>5. AllPlain' <=> AllPlain BY DEF AllPlain
<1>6. BehindOut' BY <1>5 DEF BehindOut
<1>7. InOrder' BY DEF InOrder, AllPlain, Ordered
<1>8. QED BY <1>1, <1>2, <1>3, <1>4, <1>6, <1>7 DEF IInv

\* A turn that the iteration ends with.
LEMMA Ends ==
  ASSUME IInv, current_i = "call", UNCHANGED <<operator, query, again, next, out>>,
         NEW a, at' = a, current_i' \in {"exhausted", "raised"},
         a \in [Operands -> Cursor], \A x \in Operands : Sound(query[x], a[x])
  PROVE  IInv'
<1>1. Types /\ Started /\ InOrder BY DEF IInv
<1>2. next \in [Operands -> Messages \cup {End}] BY <1>1, Numbers DEF Types
<1>3. Types'
  <2>1. next \in [Operands -> Messages \cup {End, NoMsg}]
    <3>1. Messages \cup {End} \subseteq Messages \cup {End, NoMsg} OBVIOUS
    <3>2. QED BY <1>2, <3>1
  <2>2. QED BY <1>1, <1>2, <2>1 DEF Types
<1>4. Cursors' BY DEF Cursors
<1>5. \A x \in Operands : Here(query[x]) BY <1>1 DEF Started, Going
<1>6. Started' BY <1>5 DEF Started
<1>7. ~Going' BY DEF Going
<1>8. UnderWay' /\ BehindOut' BY <1>7 DEF UnderWay, BehindOut
<1>9. InOrder' BY <1>1 DEF InOrder
<1>10. QED BY <1>3, <1>4, <1>6, <1>8, <1>9 DEF IInv

LEMMA AppendOrdered ==
  ASSUME NEW s \in Seq(Messages), Ordered(s), NEW e \in Messages, \A i \in 1 .. Len(s) : s[i] <= e
  PROVE  Append(s, e) \in Seq(Messages) /\ Ordered(Append(s, e))
<1>1. /\ Append(s, e) \in Seq(Messages) /\ Len(Append(s, e)) = Len(s) + 1
      /\ Append(s, e)[Len(s) + 1] = e
      /\ \A i \in 1 .. Len(s) : Append(s, e)[i] = s[i]
  BY AppendIs
<1>2. Len(s) \in Nat OBVIOUS
<1>3. ASSUME NEW i \in 1 .. Len(s) + 1, NEW j \in 1 .. Len(s) + 1, i <= j
      PROVE  Append(s, e)[i] <= Append(s, e)[j]
  <2>1. CASE j \in 1 .. Len(s)
    <3>1. i \in 1 .. Len(s) BY <1>2, <1>3, <2>1
    <3>2. s[i] <= s[j] BY <1>3, <2>1, <3>1 DEF Ordered
    <3>3. QED BY <1>1, <2>1, <3>1, <3>2
  <2>2. CASE j = Len(s) + 1 /\ i \in 1 .. Len(s) BY <1>1, <2>2
  <2>3. CASE j = Len(s) + 1 /\ i = Len(s) + 1
    <3>1. e <= e BY Numbers
    <3>2. QED BY <1>1, <2>3, <3>1
  <2>4. QED BY <1>2, <2>1, <2>2, <2>3
<1>4. QED BY <1>1, <1>3 DEF Ordered

\* What is given behind what has been given, if the rest is not before it either.
AtMost(s, e) == \A i \in 1 .. Len(s) : s[i] <= e
LEMMA AppendAtMost ==
  ASSUME NEW s \in Seq(Messages), NEW e \in Messages, NEW z \in Messages, AtMost(s, z), e <= z
  PROVE  AtMost(Append(s, e), z)
<1>1. /\ Len(Append(s, e)) = Len(s) + 1
      /\ Append(s, e)[Len(s) + 1] = e
      /\ \A i \in 1 .. Len(s) : Append(s, e)[i] = s[i]
  BY AppendIs
<1>2. Len(s) \in Nat OBVIOUS
<1>3. ASSUME NEW i \in 1 .. Len(s) + 1 PROVE Append(s, e)[i] <= z
  <2>1. CASE i \in 1 .. Len(s) BY <1>1, <2>1 DEF AtMost
  <2>2. CASE i = Len(s) + 1 BY <1>1, <2>2
  <2>3. QED BY <1>2, <2>1, <2>2
<1>4. QED BY <1>1, <1>3 DEF AtMost

LEMMA AtMostStays ==
  ASSUME NEW s \in Seq(Messages), NEW y \in Messages, NEW z \in Messages, AtMost(s, y), y <= z
  PROVE  AtMost(s, z)
<1>1. \A i \in 1 .. Len(s) : s[i] \in Messages OBVIOUS
<1>2. QED BY <1>1, Numbers DEF AtMost

LEMMA GetFirstStep == ASSUME IInv, GetFirst PROVE IInv'
<1>1. Types /\ Cursors /\ Started BY DEF IInv
<1>2. /\ at \in [Operands -> Cursor] /\ query \in [Operands -> Queries]
      /\ next \in [Operands -> Messages \cup {End, NoMsg}]
  <2>1. Messages \cup {End} \subseteq Messages \cup {End, NoMsg} OBVIOUS
  <2>2. QED BY <1>1, <2>1 DEF Types
<1>3. PICK first : first = [x \in Operands |-> FirstOf(query[x], at[x])] OBVIOUS
<1>4. PICK taken : taken = IF first["A"].ref = End THEN {"A"} ELSE Operands OBVIOUS
<1>5. PICK reached : reached = {x \in taken : first[x].ref # End} OBVIOUS
<1>6. /\ at' = [x \in Operands |-> IF x \in taken THEN first[x].cursor ELSE at[x]]
      /\ next' = [x \in Operands |-> IF x \in reached THEN first[x].ref ELSE next[x]]
      /\ current_i' = IF reached # Operands THEN "exhausted"
                      ELSE IF \E x \in Operands : first[x].ref = NoMsg THEN "raised" ELSE "call"
      /\ again' = (current_i # "new") /\ out' = <<>> /\ UNCHANGED <<operator, query>>
  BY <1>3, <1>4, <1>5 DEF GetFirst
<1>7. taken \subseteq Operands /\ reached \subseteq taken BY <1>4, <1>5, OperandsAre
<1>8. ASSUME NEW x \in Operands
      PROVE  /\ Result(query[x], first[x]) /\ first[x].cursor \in Cursor
             /\ Sound(query[x], first[x].cursor)
             /\ first[x].ref \in Messages \cup {End, NoMsg}
             /\ first[x].ref # End <=> Here(query[x])
             /\ first[x].ref = NoMsg \/ Behind(query[x], first[x].cursor) => Behind(query[x], at[x])
  <2>1. query[x] \in Queries /\ Sound(query[x], at[x]) BY <1>1, <1>2 DEF Cursors
  <2>2. first[x] = FirstOf(query[x], at[x]) BY <1>3
  <2>3. Result(query[x], first[x]) BY <2>1, <2>2, FirstIs
  <2>4. QED BY <2>1, <2>2, <2>3, FirstIs DEF Result, Value
<1>9. at' \in [Operands -> Cursor] BY <1>2, <1>6, <1>8
<1>10. <<>> \in Seq(Messages) /\ Len(<<>>) = 0 OBVIOUS
<1>11. again' \in BOOLEAN BY <1>6
<1>12. Cursors'
  <2>1. ASSUME NEW x \in Operands
        PROVE  Sound(query[x], IF x \in taken THEN first[x].cursor ELSE at[x])
    BY <1>1, <1>8 DEF Cursors
  <2>2. QED BY <1>6, <2>1 DEF Cursors
<1>13. InOrder' BY <1>6, <1>10 DEF InOrder
<1>14. CASE \A x \in Operands : Here(query[x])
  <2>1. taken = Operands BY <1>4, <1>8, <1>14, OperandsAre
  <2>2. reached = Operands BY <1>5, <1>8, <1>14, <2>1
  <2>3. PICK a : a = [x \in Operands |-> first[x].cursor] OBVIOUS
  <2>4. PICK n : n = [x \in Operands |-> first[x].ref] OBVIOUS
  <2>5. at' = a /\ next' = n BY <1>6, <2>1, <2>2, <2>3, <2>4
  <2>6. a \in [Operands -> Cursor] BY <1>8, <2>3
  <2>7. \A x \in Operands : n[x] \in Messages \cup {NoMsg} BY <1>8, <1>14, <2>4
  <2>8. CASE \E x \in Operands : first[x].ref = NoMsg
    <3>1. current_i' = "raised" BY <1>6, <2>2, <2>8
    <3>2. next' \in [Operands -> Messages \cup {End, NoMsg}] BY <2>4, <2>5, <2>7
    <3>3. Types' BY <1>1, <1>6, <1>9, <1>10, <1>11, <3>1, <3>2 DEF Types
    <3>4. Started' BY <1>6, <1>14 DEF Started
    <3>5. UnderWay' /\ BehindOut' BY <3>1 DEF UnderWay, BehindOut, Going
    <3>6. QED BY <1>12, <1>13, <3>3, <3>4, <3>5 DEF IInv
  <2>9. CASE ~\E x \in Operands : first[x].ref = NoMsg
    <3>1. current_i' = "call" BY <1>6, <2>2, <2>9
    <3>2. \A x \in Operands : n[x] \in Messages BY <2>4, <2>7, <2>9
    <3>3. n \in [Operands -> Messages \cup {End}] BY <2>4, <3>2
    <3>4. ASSUME NEW x \in Operands
          PROVE  /\ Sound(query[x], a[x]) /\ OnItsWay(operator, query[x], a[x], n[x])
                 /\ \A z \in Ahead(query[x], a[x]) : n[x] <= z
      <4>1. a[x] = first[x].cursor /\ n[x] = first[x].ref /\ n[x] \in Messages BY <2>3, <2>4, <3>2
      <4>2. Good(query[x], a[x]) /\ n[x] = Ref(query[x], a[x]) BY <1>8, <4>1 DEF Result
      <4>3. query[x] \in Queries BY <1>2
      <4>4. QED BY <4>2, <4>3, GoodIs DEF OnItsWay
    <3>5. InFront(operator, query, a, n, <<>>) BY <1>10, <3>4, OperandsAre DEF InFront
    <3>6. Ordered(<<>>) BY <1>10 DEF Ordered
    <3>7. QED BY <1>1, <1>6, <1>10, <1>11, <1>14, <2>5, <2>6, <3>1, <3>3, <3>4, <3>5, <3>6, GoesOn
  <2>10. QED BY <2>8, <2>9
<1>15. CASE ~\A x \in Operands : Here(query[x])
  <2>1. \A x \in Operands : next[x] # NoMsg /\ ~Behind(query[x], at[x]) BY <1>1, <1>15 DEF Started
  <2>2. next \in [Operands -> Messages \cup {End}] BY <1>2, <2>1
  <2>3. \A x \in Operands : first[x].ref # NoMsg /\ ~Behind(query[x], first[x].cursor)
    BY <1>8, <2>1
  <2>4. reached # Operands BY <1>5, <1>8, <1>15
  <2>5. current_i' = "exhausted" BY <1>6, <2>4
  <2>6. next' \in [Operands -> Messages \cup {End}] BY <1>6, <1>8, <2>2, <2>3
  <2>7. Types' BY <1>1, <1>6, <1>9, <1>10, <1>11, <2>5, <2>6 DEF Types
  <2>8. ASSUME NEW x \in Operands PROVE next'[x] # NoMsg /\ ~Behind(query[x], at'[x])
    <3>1. next'[x] # NoMsg BY <2>6, Numbers
    <3>2. at'[x] = IF x \in taken THEN first[x].cursor ELSE at[x] BY <1>6
    <3>3. QED BY <2>1, <2>3, <3>1, <3>2
  <2>9. ~Going' BY <2>5 DEF Going
  <2>10. Started' BY <1>6, <2>8, <2>9 DEF Started
  <2>11. UnderWay' /\ BehindOut' BY <2>9 DEF UnderWay, BehindOut
  <2>12. QED BY <1>12, <1>13, <2>7, <2>10, <2>11 DEF IInv
<1>16. QED BY <1>14, <1>15

LEMMA NextCallStep == ASSUME IInv, NextCall PROVE IInv'
<1>1. /\ Types /\ Cursors /\ Started /\ UnderWay /\ BehindOut /\ InOrder /\ Going
      /\ current_i' = "call" /\ current_i = "at"
      /\ UNCHANGED <<operator, query, at, next, again, out>>
  BY DEF IInv, NextCall, Going
<1>2. Going' BY <1>1 DEF Going
<1>3. Types' BY <1>1 DEF Types
<1>4. Cursors' /\ Started' /\ UnderWay' /\ InOrder'
  BY <1>1, <1>2 DEF Cursors, Started, UnderWay, InOrder
<1>5. BehindOut' BY <1>1, <1>2 DEF BehindOut, AllPlain
<1>6. QED BY <1>3, <1>4, <1>5 DEF IInv

\* What a turn of the loops begins with.
LEMMA TurnIs ==
  ASSUME IInv, NEW ops, Turn(ops)
  PROVE  /\ Types /\ Cursors /\ Started /\ UnderWay /\ BehindOut /\ InOrder /\ Going
         /\ current_i = "call" /\ operator \in ops /\ UNCHANGED <<operator, query, again>>
         /\ again' \in BOOLEAN /\ out \in Seq(Messages)
         /\ \A x \in Operands : Here(query[x])
         /\ \A x \in Operands : query[x] \in Queries /\ at[x] \in Cursor
         /\ at \in [Operands -> Cursor]
         /\ next \in [Operands -> Messages \cup {End}]
         /\ AllPlain => InFront(operator, query, at, next, out) /\ Ordered(out)
<1>1. Types /\ Cursors /\ Started /\ UnderWay /\ BehindOut /\ InOrder BY DEF IInv
<1>2. current_i = "call" /\ operator \in ops /\ UNCHANGED <<operator, query, again>> BY DEF Turn
<1>3. Going BY <1>2 DEF Going
<1>4. next \in [Operands -> Messages \cup {End}] BY <1>1, <1>2 DEF Types
<1>5. \A x \in Operands : Here(query[x]) BY <1>1, <1>3 DEF Started
<1>6. AllPlain => InFront(operator, query, at, next, out) BY <1>1, <1>3 DEF BehindOut
<1>7. AllPlain => Ordered(out) BY <1>1 DEF InOrder, AllPlain, Ordered
<1>8. QED BY <1>1, <1>2, <1>3, <1>4, <1>5, <1>6, <1>7 DEF Types

LEMMA YieldLesserStep == ASSUME IInv, NEW x \in Operands, YieldLesser(x) PROVE IInv'
<1>1. PICK ops : ops = IF x = "A" THEN {"or", "xor", "sub"} ELSE {"or", "xor"} OBVIOUS
<1>2. Turn(ops) /\ Lesser(x) /\ Yield(x) /\ MoveOn({x}) BY <1>1 DEF YieldLesser
<1>3. /\ Types /\ Cursors /\ UnderWay /\ current_i = "call" /\ operator \in ops
      /\ UNCHANGED <<operator, query>> /\ again' \in BOOLEAN /\ out \in Seq(Messages)
      /\ \A y \in Operands : Here(query[y])
      /\ next \in [Operands -> Messages \cup {End}]
      /\ AllPlain => InFront(operator, query, at, next, out) /\ Ordered(out)
  BY <1>2, TurnIs
<1>4. operator # "and" BY <1>1, <1>3
<1>5. next[x] # End /\ (next[Other(x)] = End \/ next[x] < next[Other(x)])
  BY <1>2 DEF Lesser, Stopped
<1>6. next[x] \in Messages BY <1>3, <1>5
<1>7. PICK a : a = at' OBVIOUS
<1>8. PICK n : n = next' OBVIOUS
<1>9. Moved(a, n, {x}) BY <1>2, <1>3, <1>5, <1>7, <1>8, MoveOnIs
<1>10. PICK s : s = Append(out, next[x]) OBVIOUS
<1>11. out' = s /\ current_i' \in {"call", "at"} BY <1>2, <1>10 DEF Yield
<1>12. s \in Seq(Messages) BY <1>3, <1>6, <1>10
<1>13. ASSUME AllPlain PROVE InFront(operator, query, a, n, s) /\ Ordered(s)
  <2>1. \A y \in Operands : next[y] # End => AtMost(out, next[y])
    BY <1>3, <1>4, <1>13 DEF InFront, AtMost
  <2>2. Ordered(s) BY <1>3, <1>5, <1>6, <1>10, <1>13, <2>1, AppendOrdered DEF AtMost
  <2>3. ASSUME NEW y \in Operands, n[y] # End PROVE AtMost(s, n[y])
    <3>1. n[y] \in Messages BY <1>9, <2>3 DEF Moved
    <3>2. CASE y = x
      <4>1. next[x] <= n[x] BY <1>4, <1>9, <1>13, <2>3, <3>2 DEF Moved, Forward, AllPlain
      <4>2. AtMost(out, n[x]) BY <1>3, <1>5, <1>6, <2>1, <3>1, <3>2, <4>1, AtMostStays
      <4>3. QED BY <1>3, <1>6, <1>10, <3>1, <3>2, <4>1, <4>2, AppendAtMost
    <3>3. CASE y # x
      <4>1. y = Other(x) BY <3>3, OperandsAre
      <4>2. n[y] = next[y] BY <1>9, <3>3 DEF Moved
      <4>3. next[x] < next[y] BY <1>5, <2>3, <4>1, <4>2
      <4>4. next[x] <= n[y] BY <1>6, <3>1, <4>2, <4>3, Numbers
      <4>5. AtMost(out, n[y]) BY <2>1, <2>3, <4>2
      <4>6. QED BY <1>3, <1>6, <1>10, <3>1, <4>4, <4>5, AppendAtMost
    <3>4. QED BY <3>2, <3>3
  <2>4. InFront(operator, query, a, n, s) BY <1>4, <2>3 DEF InFront, AtMost
  <2>5. QED BY <2>2, <2>4
<1>14. /\ a \in [Operands -> Cursor] /\ n \in [Operands -> Messages \cup {End}]
       /\ \A y \in Operands : Sound(query[y], a[y]) /\ OnItsWay(operator, query[y], a[y], n[y])
  BY <1>9 DEF Moved
<1>15. QED BY <1>3, <1>7, <1>8, <1>11, <1>12, <1>13, <1>14, GoesOn

\* Of - and ^, a turn that gives nothing.
LEMMA SkipStep ==
  ASSUME IInv, NEW ops, Turn(ops), "and" \notin ops, Skip,
         NEW xs \in SUBSET Operands, \A x \in xs : next[x] # End, MoveOn(xs)
  PROVE  IInv'
<1>1. /\ Types /\ Cursors /\ UnderWay /\ current_i = "call" /\ operator \in ops
      /\ UNCHANGED <<operator, query>> /\ again' \in BOOLEAN /\ out \in Seq(Messages)
      /\ \A y \in Operands : Here(query[y])
      /\ next \in [Operands -> Messages \cup {End}]
      /\ AllPlain => InFront(operator, query, at, next, out) /\ Ordered(out)
  BY TurnIs
<1>2. operator # "and" BY <1>1
<1>3. PICK a : a = at' OBVIOUS
<1>4. PICK n : n = next' OBVIOUS
<1>5. Moved(a, n, xs) BY <1>1, <1>3, <1>4, MoveOnIs
<1>6. out' = out /\ current_i' \in {"call", "at"} BY <1>1 DEF Skip
<1>7. ASSUME AllPlain PROVE InFront(operator, query, a, n, out)
  <2>1. ASSUME NEW y \in Operands, n[y] # End PROVE AtMost(out, n[y])
    <3>1. n[y] \in Messages BY <1>5, <2>1 DEF Moved
    <3>2. CASE y \in xs
      <4>1. next[y] # End /\ next[y] \in Messages BY <1>1, <3>2
      <4>2. next[y] <= n[y] BY <1>2, <1>5, <1>7, <2>1, <3>2 DEF Moved, Forward, AllPlain
      <4>3. AtMost(out, next[y]) BY <1>1, <1>2, <1>7, <4>1 DEF InFront, AtMost
      <4>4. QED BY <1>1, <3>1, <4>1, <4>2, <4>3, AtMostStays
    <3>3. CASE y \notin xs
      <4>1. n[y] = next[y] BY <1>5, <3>3 DEF Moved
      <4>2. QED BY <1>1, <1>2, <1>7, <2>1, <4>1 DEF InFront, AtMost
    <3>4. QED BY <3>2, <3>3
  <2>2. QED BY <1>2, <2>1 DEF InFront, AtMost
<1>8. /\ a \in [Operands -> Cursor] /\ n \in [Operands -> Messages \cup {End}]
      /\ \A y \in Operands : Sound(query[y], a[y]) /\ OnItsWay(operator, query[y], a[y], n[y])
  BY <1>5 DEF Moved
<1>9. QED BY <1>1, <1>3, <1>4, <1>6, <1>7, <1>8, GoesOn

LEMMA YieldBothStep == ASSUME IInv, YieldBoth PROVE IInv'
<1>1. Turn({"and", "or"}) /\ Both /\ Yield("A") /\ MoveOn(Operands) BY DEF YieldBoth, Matched
<1>2. /\ Types /\ Cursors /\ UnderWay /\ current_i = "call" /\ Going
      /\ UNCHANGED <<operator, query>> /\ again' \in BOOLEAN /\ out \in Seq(Messages)
      /\ \A y \in Operands : Here(query[y]) /\ query[y] \in Queries
      /\ next \in [Operands -> Messages \cup {End}]
      /\ AllPlain => InFront(operator, query, at, next, out) /\ Ordered(out)
  BY <1>1, TurnIs
<1>3. PICK v : v = next["A"] OBVIOUS
<1>4. \A x \in Operands : next[x] = v /\ v # End
  BY <1>1, <1>3, OperandsAre DEF Both, Stopped, Operands
<1>5. v \in Messages BY <1>2, <1>4, OperandsAre
<1>6. PICK a : a = at' OBVIOUS
<1>7. PICK n : n = next' OBVIOUS
<1>8. Moved(a, n, Operands) BY <1>1, <1>2, <1>4, <1>6, <1>7, MoveOnIs
<1>9. PICK s : s = Append(out, v) OBVIOUS
<1>10. out' = s /\ current_i' \in {"call", "at"} BY <1>1, <1>3, <1>9 DEF Yield
<1>11. s \in Seq(Messages) BY <1>2, <1>5, <1>9
<1>12. ASSUME NEW x \in Operands, n[x] # End, AllPlain
       PROVE  /\ n[x] \in Messages
              /\ Ahead(query[x], a[x]) \subseteq Ahead(query[x], at[x])
              /\ \A z \in Ahead(query[x], a[x]) : n[x] <= z
              /\ operator # "and" => v <= n[x]
  <2>1. n[x] \in Messages BY <1>8, <1>12 DEF Moved
  <2>2. Forward(operator, query[x], at[x], next[x], a[x], n[x]) BY <1>8, <1>12 DEF Moved, AllPlain
  <2>3. QED BY <1>4, <1>12, <2>1, <2>2 DEF Forward
<1>13. ASSUME AllPlain PROVE InFront(operator, query, a, n, s) /\ Ordered(s)
  <2>1. CASE operator # "and"
    <3>1. AtMost(out, v) BY <1>2, <1>4, <1>13, <2>1, OperandsAre DEF InFront, AtMost
    <3>2. Ordered(s) BY <1>2, <1>5, <1>9, <1>13, <3>1, AppendOrdered DEF AtMost
    <3>3. ASSUME NEW y \in Operands, n[y] # End PROVE AtMost(s, n[y])
      <4>1. n[y] \in Messages /\ v <= n[y] BY <1>12, <1>13, <2>1, <3>3
      <4>2. AtMost(out, n[y]) BY <1>2, <1>5, <3>1, <4>1, AtMostStays
      <4>3. QED BY <1>2, <1>5, <1>9, <4>1, <4>2, AppendAtMost
    <3>4. QED BY <2>1, <3>2, <3>3 DEF InFront, AtMost
  <2>2. CASE operator = "and"
    <3>1. ASSUME NEW z \in Ahead(query["A"], at["A"]) \cap Ahead(query["B"], at["B"])
          PROVE  z \in Messages /\ v <= z /\ AtMost(out, z)
      <4>1. v <= z /\ AtMost(out, z) BY <1>2, <1>4, <1>13, <2>2, OperandsAre DEF InFront, AtMost
      <4>2. OnItsWay(operator, query["A"], at["A"], v) BY <1>2, <1>4, OperandsAre DEF UnderWay
      <4>3. Good(query["A"], at["A"]) BY <1>5, <4>2, Numbers DEF OnItsWay
      <4>4. Ahead(query["A"], at["A"]) \subseteq Messages BY <1>2, <4>3, GoodIs, OperandsAre
      <4>5. QED BY <4>1, <4>4
    <3>2. ASSUME NEW x \in Operands PROVE v \in Ahead(query[x], at[x])
      <4>1. OnItsWay(operator, query[x], at[x], v) BY <1>2, <1>4 DEF UnderWay
      <4>2. /\ Good(query[x], at[x])
            /\ v = Ref(query[x], at[x]) \/ v \in Ahead(query[x], at[x])
        BY <1>5, <4>1, Numbers DEF OnItsWay
      <4>3. QED BY <1>2, <4>2, GoodIs
    <3>3. AtMost(out, v) BY <3>1, <3>2, OperandsAre
    <3>4. Ordered(s) BY <1>2, <1>5, <1>9, <1>13, <3>3, AppendOrdered DEF AtMost
    <3>5. ASSUME \A x \in Operands : n[x] # End,
                 NEW z \in Ahead(query["A"], a["A"]) \cap Ahead(query["B"], a["B"])
          PROVE  (\A x \in Operands : n[x] <= z) /\ AtMost(s, z)
      <4>1. z \in Ahead(query["A"], at["A"]) \cap Ahead(query["B"], at["B"])
        BY <1>12, <1>13, <3>5, OperandsAre
      <4>2. \A x \in Operands : z \in Ahead(query[x], a[x]) BY <3>5 DEF Operands
      <4>3. \A x \in Operands : n[x] <= z BY <1>12, <1>13, <3>5, <4>2
      <4>4. AtMost(s, z) BY <1>2, <1>5, <1>9, <3>1, <4>1, AppendAtMost
      <4>5. QED BY <4>3, <4>4
    <3>6. QED BY <2>2, <3>4, <3>5 DEF InFront, AtMost
  <2>3. QED BY <2>1, <2>2
<1>14. /\ a \in [Operands -> Cursor] /\ n \in [Operands -> Messages \cup {End}]
       /\ \A y \in Operands : Sound(query[y], a[y]) /\ OnItsWay(operator, query[y], a[y], n[y])
  BY <1>8 DEF Moved
<1>15. QED BY <1>2, <1>6, <1>7, <1>10, <1>11, <1>13, <1>14, GoesOn

LEMMA JumpStep == ASSUME IInv, NEW x \in Operands, Jump(x) PROVE IInv'
<1>1. PICK id : id = next[Other(x)] OBVIOUS
<1>2. PICK found : found = GeOf(query[x], at[x], id) OBVIOUS
<1>3. /\ Turn({"and"}) /\ Lesser(x) /\ ~Stopped(Other(x))
      /\ at' = [at EXCEPT ![x] = found.cursor]
      /\ IF found.ref \in Messages
           THEN next' = [next EXCEPT ![x] = found.ref] /\ Skip
           ELSE /\ current_i' = IF found.ref = End THEN "exhausted" ELSE "raised"
                /\ UNCHANGED <<next, out>>
  BY <1>1, <1>2 DEF Jump, Target
<1>4. /\ Types /\ Cursors /\ UnderWay /\ current_i = "call" /\ Going /\ operator = "and"
      /\ UNCHANGED <<operator, query, again>> /\ again' \in BOOLEAN /\ out \in Seq(Messages)
      /\ \A y \in Operands : Here(query[y]) /\ query[y] \in Queries
      /\ at \in [Operands -> Cursor]
      /\ next \in [Operands -> Messages \cup {End}]
      /\ AllPlain => InFront(operator, query, at, next, out) /\ Ordered(out)
  BY <1>3, TurnIs
<1>5. next[x] # End /\ id # End /\ next[x] < id BY <1>1, <1>3 DEF Lesser, Stopped
<1>6. next[x] \in Messages /\ id \in Messages BY <1>1, <1>4, <1>5, OperandsAre
<1>7. PICK q \in Queries : q = query[x] BY <1>4
<1>8. PICK c : c = at[x] OBVIOUS
<1>9. OnItsWay(operator, q, c, next[x]) BY <1>4, <1>7, <1>8 DEF UnderWay
<1>10. Good(q, c) /\ (IF q.kind = "key" THEN next[x] \in Ahead(q, c) ELSE next[x] = c.msg)
  BY <1>4, <1>5, <1>9 DEF OnItsWay, Ref
<1>11. q.kind # "key" => c.msg <= id BY <1>5, <1>6, <1>10, Numbers
<1>12. found = GeOf(q, c, id) BY <1>2, <1>7, <1>8
<1>13. /\ found.cursor \in Cursor /\ Sound(q, found.cursor) /\ found.ref \in Messages \cup {End, NoMsg}
       /\ found.ref \in Messages =>
            /\ Good(q, found.cursor) /\ id <= found.ref
            /\ q.kind # "key" => found.ref = found.cursor.msg
            /\ q.kind = "key" =>
                 /\ found.cursor = c
                 /\ \E j \in 1 .. Len(q.refs) : found.ref = q.refs[j]
                 /\ \A j \in 1 .. Len(q.refs) : id <= q.refs[j] => found.ref <= q.refs[j]
  BY <1>6, <1>10, <1>11, <1>12, GeIs
<1>14. PICK a : a = at' OBVIOUS
<1>15. a \in [Operands -> Cursor] /\ a[x] = found.cursor /\ a[Other(x)] = at[Other(x)]
  BY <1>3, <1>4, <1>13, <1>14, OperandsAre
<1>16. \A y \in Operands : Sound(query[y], a[y])
  BY <1>4, <1>7, <1>13, <1>15, OperandsAre DEF Cursors
<1>17. CASE found.ref \notin Messages
  <2>1. UNCHANGED <<next, out>> /\ current_i' \in {"exhausted", "raised"} BY <1>3, <1>17
  <2>2. QED BY <1>4, <1>14, <1>15, <1>16, <2>1, Ends
<1>18. CASE found.ref \in Messages
  <2>1. PICK d : d = found.cursor OBVIOUS
  <2>2. PICK m \in Messages : m = found.ref BY <1>18
  <2>3. Good(q, d) /\ id <= m BY <1>13, <1>18, <2>1, <2>2
  <2>4. PICK n : n = next' OBVIOUS
  <2>5. /\ n \in [Operands -> Messages \cup {End}] /\ n[x] = m /\ n[Other(x)] = id
        /\ out' = out /\ current_i' \in {"call", "at"}
    BY <1>1, <1>3, <1>4, <1>18, <2>2, <2>4, OperandsAre DEF Skip
  <2>6. /\ Ahead(q, d) \subseteq Ahead(q, c)
        /\ \A z \in Ahead(q, d) : id <= z => m <= z
        /\ IF q.kind = "key" THEN m \in Ahead(q, d) ELSE m = Ref(q, d)
    <3>1. CASE q.kind = "key"
      <4>1. q.refs \in Seq(Messages) /\ Ordered(q.refs) /\ Len(q.refs) \in Nat BY <3>1, QueryIs
      <4>2. c.i \in 0 .. Len(q.refs) - 1 BY <1>10, <3>1 DEF Good
      <4>3. PICK j \in 1 .. Len(q.refs) : m = q.refs[j] BY <1>13, <1>18, <2>2, <3>1
      <4>4. PICK k \in c.i + 1 .. Len(q.refs) : next[x] = q.refs[k] BY <1>10, <3>1 DEF Ahead
      <4>5. k \in 1 .. Len(q.refs) BY <4>1, <4>2
      <4>6. next[x] < m BY <1>5, <1>6, <2>2, <2>3, Numbers
      <4>7. ~(j <= k)
        <5>1. SUFFICES ASSUME j <= k PROVE FALSE OBVIOUS
        <5>2. m <= next[x] BY <4>1, <4>3, <4>4, <4>5, <5>1 DEF Ordered
        <5>3. QED BY <1>6, <2>2, <4>6, <5>2, Numbers
      <4>8. j \in c.i + 1 .. Len(q.refs) BY <4>1, <4>2, <4>7
      <4>9. d = c BY <1>13, <1>18, <2>1, <3>1
      <4>10. m \in Ahead(q, d) BY <3>1, <4>3, <4>8, <4>9 DEF Ahead
      <4>11. \A z \in Ahead(q, d) : \E l \in 1 .. Len(q.refs) : z = q.refs[l]
        BY <3>1, <4>1, <4>2, <4>9 DEF Ahead
      <4>12. \A z \in Ahead(q, d) : id <= z => m <= z BY <1>13, <1>18, <2>2, <3>1, <4>11
      <4>13. QED BY <3>1, <4>9, <4>10, <4>12
    <3>2. CASE q.kind # "key"
      <4>1. m = d.msg BY <1>13, <1>18, <2>1, <2>2, <3>2
      <4>2. c.msg \in Messages BY <1>6, <1>10, <3>2
      <4>3. \A z \in Messages : z >= d.msg => z >= c.msg /\ m <= z
        BY <1>6, <1>11, <2>2, <2>3, <3>2, <4>1, <4>2, Numbers
      <4>4. Ahead(q, d) \subseteq Ahead(q, c) /\ \A z \in Ahead(q, d) : m <= z
        BY <3>2, <4>3 DEF Ahead
      <4>5. m = Ref(q, d) BY <3>2, <4>1 DEF Ref
      <4>6. QED BY <3>2, <4>4, <4>5
    <3>3. QED BY <3>1, <3>2
  <2>7. OnItsWay(operator, q, d, m) BY <1>4, <2>3, <2>6, GoodIs DEF OnItsWay
  <2>8. OnItsWay(operator, query[Other(x)], at[Other(x)], id)
    BY <1>1, <1>4, OperandsAre DEF UnderWay
  <2>9. \A y \in Operands : OnItsWay(operator, query[y], a[y], n[y])
    BY <1>7, <1>15, <2>1, <2>5, <2>7, <2>8, OperandsAre
  <2>10. ASSUME AllPlain PROVE InFront(operator, query, a, n, out)
    <3>1. \A y \in Operands : next[y] # End BY <1>1, <1>5, OperandsAre
    <3>2. ASSUME NEW z \in Ahead(query["A"], at["A"]) \cap Ahead(query["B"], at["B"])
          PROVE  id <= z /\ \A i \in 1 .. Len(out) : out[i] <= z
      BY <1>1, <1>4, <2>10, <3>1, OperandsAre DEF InFront
    <3>3. ASSUME NEW z \in Ahead(query["A"], a["A"]) \cap Ahead(query["B"], a["B"])
          PROVE  (\A y \in Operands : n[y] <= z) /\ \A i \in 1 .. Len(out) : out[i] <= z
      <4>1. \A y \in Operands : z \in Ahead(query[y], a[y]) BY <3>3 DEF Operands
      <4>2. z \in Ahead(q, d) BY <1>7, <1>15, <2>1, <4>1
      <4>3. z \in Ahead(q, c) BY <2>6, <4>2
      <4>4. \A y \in Operands : z \in Ahead(query[y], at[y])
        BY <1>7, <1>8, <1>15, <4>1, <4>3, OperandsAre
      <4>5. id <= z /\ \A i \in 1 .. Len(out) : out[i] <= z BY <3>2, <4>4, OperandsAre
      <4>6. m <= z BY <2>6, <4>2, <4>5
      <4>7. QED BY <2>5, <4>5, <4>6, OperandsAre
    <3>4. QED BY <1>4, <3>3 DEF InFront
  <2>11. QED BY <1>4, <1>14, <1>15, <1>16, <2>4, <2>5, <2>9, <2>10, GoesOn
<1>19. QED BY <1>17, <1>18

LEMMA ExhaustStep == ASSUME IInv, Exhaust PROVE IInv'
<1>1. PICK ops : Turn(ops) BY DEF Exhaust
<1>2. /\ current_i = "call" /\ UNCHANGED <<operator, query, again>>
      /\ Cursors /\ at \in [Operands -> Cursor]
  BY <1>1, TurnIs
<1>3. current_i' = "exhausted" /\ UNCHANGED <<at, next, out>> BY DEF Exhaust
<1>4. QED BY <1>2, <1>3, Ends DEF Cursors

LEMMA IInvInit == Init => IInv
<1>1. SUFFICES ASSUME Init PROVE IInv OBVIOUS
<1>2. /\ operator \in {"and", "or", "sub", "xor"} /\ query \in [Operands -> Queries]
      /\ at = [x \in Operands |-> NotBegun] /\ next = [x \in Operands |-> End]
      /\ current_i = "new" /\ again = FALSE /\ out = <<>>
  BY <1>1 DEF Init
<1>3. NotBegun \in Cursor /\ NotBegun.i = New BY Numbers DEF NotBegun, Cursor
<1>4. out \in Seq(Messages) /\ Len(out) = 0 BY <1>2
<1>5. Types BY <1>2, <1>3, <1>4 DEF Types
<1>6. Cursors BY <1>2, <1>3 DEF Cursors, Sound, Reset
<1>7. ~Going BY <1>2 DEF Going
<1>8. \A x \in Operands : next[x] # NoMsg /\ ~Behind(query[x], at[x])
  BY <1>2, <1>3, Numbers DEF Behind
<1>9. Started /\ UnderWay /\ BehindOut BY <1>7, <1>8 DEF Started, UnderWay, BehindOut
<1>10. InOrder BY <1>4 DEF InOrder
<1>11. QED BY <1>5, <1>6, <1>9, <1>10 DEF IInv

LEMMA IInvStep == ASSUME IInv, [Next]_vars PROVE IInv'
<1>1. CASE GetFirst BY <1>1, GetFirstStep
<1>2. CASE NextCall BY <1>2, NextCallStep
<1>3. CASE \E x \in Operands : YieldLesser(x) BY <1>3, YieldLesserStep
<1>4. CASE \E x \in Operands : Jump(x) BY <1>4, JumpStep
<1>5. CASE SkipLesser
  <2>1. Turn({"sub"}) /\ next["B"] # End /\ Skip /\ MoveOn({"B"})
    BY <1>5 DEF SkipLesser, Lesser, Stopped
  <2>2. {"B"} \in SUBSET Operands /\ "and" \notin {"sub"} BY DEF Operands
  <2>3. \A x \in {"B"} : next[x] # End BY <2>1
  <2>4. QED BY <2>1, <2>2, <2>3, SkipStep
<1>6. CASE YieldBoth BY <1>6, YieldBothStep
<1>7. CASE SkipBoth
  <2>1. Turn({"sub", "xor"}) /\ Both /\ Skip /\ MoveOn(Operands)
    BY <1>7 DEF SkipBoth, Matched
  <2>2. \A x \in Operands : next[x] # End BY <2>1 DEF Both, Stopped, Operands
  <2>3. "and" \notin {"sub", "xor"} OBVIOUS
  <2>4. QED BY <2>1, <2>2, <2>3, SkipStep
<1>8. CASE Exhaust BY <1>8, ExhaustStep
<1>9. CASE UNCHANGED vars
  <2>1. UNCHANGED <<operator, query, at, next, current_i, again, out>> BY <1>9 DEF vars
  <2>2. Types /\ Cursors /\ Started /\ UnderWay /\ BehindOut /\ InOrder BY DEF IInv
  <2>3. Types' BY <2>1, <2>2 DEF Types
  <2>4. Cursors' /\ Started' /\ UnderWay' /\ InOrder'
    BY <2>1, <2>2 DEF Cursors, Started, UnderWay, InOrder, Going
  <2>5. BehindOut' BY <2>1, <2>2 DEF BehindOut, AllPlain, Going
  <2>6. QED BY <2>3, <2>4, <2>5 DEF IInv
<1>10. QED
  BY <1>1, <1>2, <1>3, <1>4, <1>5, <1>6, <1>7, <1>8, <1>9 DEF Next, LoopTurn

LEMMA IInvIsTypeOK == IInv => TypeOK
<1>1. SUFFICES ASSUME IInv PROVE TypeOK OBVIOUS
<1>2. Types /\ Cursors /\ UnderWay BY <1>1 DEF IInv
<1>3. ASSUME NEW x \in Operands PROVE CursorOf(x)
  <2>1. PICK q \in Queries : q = query[x] BY <1>2 DEF Types
  <2>2. PICK c \in Cursor : c = at[x] BY <1>2 DEF Types
  <2>3. Sound(q, c) /\ c.i \in Int BY <1>2, <2>1, <2>2 DEF Cursors, Cursor
  <2>4. Reset(c) => ~(c.i >= 0) BY <2>3, Numbers DEF Reset
  <2>5. CASE q.kind = "key"
    <3>1. Len(q.refs) \in Nat BY <2>5, QueryIs
    <3>2. c.i \in {New} \cup 0 .. Len(q.refs) BY <2>3, <2>5, <3>1 DEF Sound, Good, Behind
    <3>3. QED BY <2>1, <2>2, <2>5, <3>2 DEF CursorOf
  <2>6. CASE q.kind = "slice"
    <3>1. c.i >= 0 => Good(q, c) BY <2>3, <2>4, <2>6 DEF Sound, Behind
    <3>2. IsSlice(q) BY <2>6, QueryIs DEF IsSlice
    <3>3. Begin(q).ref # End => SliceGetFirst(q, c) = Begin(q) BY <3>2, SliceBegins
    <3>4. c.i >= 0 => /\ InStream(c.p) /\ c.msg = MsgAt(c.p)
                      /\ c.p = SliceGetFirst(q, c).cursor.p + c.i * q.step
      BY <2>6, <3>1, <3>3 DEF Good
    <3>5. QED BY <2>1, <2>2, <2>6, <3>4 DEF CursorOf
  <2>7. CASE q.kind = "filter"
    <3>1. c.i >= 0 => (c.p \in q.passes /\ c.msg = c.p) \/ (c.p = NumMsgs /\ c.msg = NoMsg)
      BY <2>3, <2>4, <2>7 DEF Sound, Behind, Good
    <3>2. QED BY <2>1, <2>2, <2>7, <3>1 DEF CursorOf
  <2>8. CASE q.kind = "merge"
    <3>1. Len(q.refs) \in Nat BY <2>8, QueryIs
    <3>2. c.i >= 0 => c.i < Len(q.refs) /\ c.msg = q.refs[c.i + 1]
      BY <2>3, <2>4, <2>8, <3>1 DEF Sound, Behind, Good
    <3>3. QED BY <2>1, <2>2, <2>8, <3>2 DEF CursorOf
  <2>9. QED BY <2>5, <2>6, <2>7, <2>8, QueryIs
<1>4. current_i = "call" => \A x \in Operands : at[x].i # New BY <1>2 DEF UnderWay, Going, OnItsWay
<1>5. \A x \in Operands : at[x] \in Cursor BY <1>2 DEF Types
<1>6. QED BY <1>2, <1>3, <1>4, <1>5 DEF TypeOK, Types

-----------------------------------------------------------------------------
(***************************************************************************)
(* How often an operand has a message                                      *)
(***************************************************************************)

One(b) == IF b THEN 1 ELSE 0

\* Has, of an operand; and how often it has a message from its cursor on.
HasIn(q, m) ==
  CASE q.kind \in {"key", "merge"} -> Times(q.refs, m)
    [] q.kind = "slice"  -> One(Sliced(q, m))
    [] q.kind = "filter" -> One(m \in q.passes)
From(s, i, m) == {j \in i .. Len(s) : s[j] = m}
Left(q, c, m) ==
  IF q.kind \in {"key", "merge"} THEN Cardinality(From(q.refs, c.i + 1, m))
  ELSE IF c.msg <= m THEN HasIn(q, m) ELSE 0

LEMMA FromIs ==
  ASSUME NEW s \in Seq(Messages), NEW i \in 1 .. Len(s) + 1, NEW m
  PROVE  /\ IsFiniteSet(From(s, i, m)) /\ Cardinality(From(s, i, m)) \in Nat
         /\ Cardinality(From(s, i, m)) > 0 <=> \E j \in i .. Len(s) : s[j] = m
         /\ i <= Len(s) => Cardinality(From(s, i, m)) = Cardinality(From(s, i + 1, m)) + One(s[i] = m)
         /\ Cardinality(From(s, 1, m)) = Times(s, m)
<1>1. Len(s) \in Nat /\ i \in Int /\ DOMAIN s = 1 .. Len(s) OBVIOUS
<1>2. ASSUME NEW k \in 1 .. Len(s) + 1 PROVE IsFiniteSet(From(s, k, m))
  <2>1. IsFiniteSet(k .. Len(s)) BY <1>1, FS_Interval
  <2>2. From(s, k, m) \subseteq k .. Len(s) BY DEF From
  <2>3. QED BY <2>1, <2>2, FS_Subset
<1>3. IsFiniteSet(From(s, i, m)) BY <1>2
<1>4. Cardinality(From(s, i, m)) \in Nat BY <1>3, FS_CardinalityType
<1>5. Cardinality(From(s, i, m)) > 0 <=> \E j \in i .. Len(s) : s[j] = m
  <2>1. From(s, i, m) = {} <=> Cardinality(From(s, i, m)) = 0 BY <1>3, FS_EmptySet
  <2>2. From(s, i, m) # {} <=> \E j \in i .. Len(s) : s[j] = m BY DEF From
  <2>3. QED BY <1>4, <2>1, <2>2
<1>6. ASSUME i <= Len(s)
      PROVE  Cardinality(From(s, i, m)) = Cardinality(From(s, i + 1, m)) + One(s[i] = m)
  <2>1. \A j : j \in i .. Len(s) <=> j = i \/ j \in i + 1 .. Len(s) BY <1>1, <1>6
  <2>2. i \notin From(s, i + 1, m) BY <1>1 DEF From
  <2>3. IsFiniteSet(From(s, i + 1, m)) BY <1>1, <1>2, <1>6
  <2>4. CASE s[i] = m
    <3>1. From(s, i, m) = From(s, i + 1, m) \cup {i} BY <2>1, <2>4 DEF From
    <3>2. QED BY <2>2, <2>3, <2>4, <3>1, FS_AddElement DEF One
  <2>5. CASE s[i] # m
    <3>1. From(s, i, m) = From(s, i + 1, m) BY <2>1, <2>5 DEF From
    <3>2. Cardinality(From(s, i + 1, m)) \in Nat BY <2>3, FS_CardinalityType
    <3>3. QED BY <2>5, <3>1, <3>2 DEF One
  <2>6. QED BY <2>4, <2>5
<1>7. Cardinality(From(s, 1, m)) = Times(s, m) BY <1>1 DEF From, Times
<1>8. QED BY <1>3, <1>4, <1>5, <1>6, <1>7

LEMMA TimesIs ==
  ASSUME NEW s \in Seq(Messages), NEW m
  PROVE  /\ Times(s, m) \in Nat
         /\ Times(s, m) > 0 <=> \E j \in 1 .. Len(s) : s[j] = m
         /\ Times(<<>>, m) = 0
         /\ \A e \in Messages : Times(Append(s, e), m) = Times(s, m) + One(e = m)
<1>1. Len(s) \in Nat /\ 1 \in 1 .. Len(s) + 1 OBVIOUS
<1>2. Times(s, m) \in Nat /\ (Times(s, m) > 0 <=> \E j \in 1 .. Len(s) : s[j] = m)
  BY <1>1, FromIs
<1>3. Times(<<>>, m) = 0
  <2>1. {i \in DOMAIN <<>> : <<>>[i] = m} = {} OBVIOUS
  <2>2. QED BY <2>1, FS_EmptySet DEF Times
<1>4. ASSUME NEW e \in Messages PROVE Times(Append(s, e), m) = Times(s, m) + One(e = m)
  <2>1. PICK t : t = Append(s, e) OBVIOUS
  <2>2. /\ t \in Seq(Messages) /\ Len(t) = Len(s) + 1 /\ t[Len(s) + 1] = e
        /\ \A i \in 1 .. Len(s) : t[i] = s[i]
    BY <2>1, AppendIs
  <2>3. PICK X : X = {i \in 1 .. Len(s) : s[i] = m} OBVIOUS
  <2>4. IsFiniteSet(X)
    <3>1. IsFiniteSet(1 .. Len(s)) BY <1>1, FS_Interval
    <3>2. QED BY <2>3, <3>1, FS_Subset
  <2>5. Times(s, m) = Cardinality(X)
    <3>1. DOMAIN s = 1 .. Len(s) OBVIOUS
    <3>2. X = {i \in DOMAIN s : s[i] = m} BY <2>3, <3>1
    <3>3. QED BY <3>2 DEF Times
  <2>6. DOMAIN t = 1 .. Len(s) + 1 BY <1>1, <2>2
  <2>7. \A j : j \in 1 .. Len(s) + 1 <=> j = Len(s) + 1 \/ j \in 1 .. Len(s) BY <1>1
  <2>8. Len(s) + 1 \notin X BY <1>1, <2>3
  <2>9. PICK Y : Y = {i \in DOMAIN t : t[i] = m} OBVIOUS
  <2>10. Times(t, m) = Cardinality(Y) BY <2>9 DEF Times
  <2>11. CASE e = m
    <3>1. Y = X \cup {Len(s) + 1} BY <2>2, <2>3, <2>6, <2>7, <2>9, <2>11
    <3>2. Cardinality(Y) = Cardinality(X) + 1 BY <2>4, <2>8, <3>1, FS_AddElement
    <3>3. QED BY <2>1, <2>5, <2>10, <2>11, <3>2 DEF One
  <2>12. CASE e # m
    <3>1. Y = X BY <2>2, <2>3, <2>6, <2>7, <2>9, <2>12
    <3>2. QED BY <1>2, <2>1, <2>5, <2>10, <2>12, <3>1 DEF One
  <2>13. QED BY <2>11, <2>12
<1>5. QED BY <1>2, <1>3, <1>4

LEMMA HasIs ==
  /\ \A x \in Operands : \A m : Has(x, m) = HasIn(query[x], m)
  /\ \A q \in Queries : \A m : HasIn(q, m) \in Nat
<1>1. ASSUME NEW q \in Queries, NEW m PROVE HasIn(q, m) \in Nat
  <2>1. CASE q.kind \in {"key", "merge"} BY <2>1, QueryIs, TimesIs DEF HasIn
  <2>2. CASE q.kind \in {"slice", "filter"} BY <2>2 DEF HasIn, One
  <2>3. QED BY <2>1, <2>2, QueryIs
<1>2. ASSUME NEW x \in Operands, NEW m PROVE Has(x, m) = HasIn(query[x], m)
  BY DEF Has, HasIn, One
<1>3. QED BY <1>1, <1>2

LEMMA LeftIs ==
  ASSUME NEW q \in Queries, NEW c, Good(q, c), NEW m \in Messages
  PROVE  /\ Left(q, c, m) \in Nat
         /\ Left(q, c, m) > 0 => m \in Ahead(q, c) /\ Ref(q, c) <= m /\ HasIn(q, m) > 0
<1>1. CASE q.kind \in {"key", "merge"}
  <2>1. q.refs \in Seq(Messages) /\ Ordered(q.refs) /\ Len(q.refs) \in Nat BY <1>1, QueryIs
  <2>2. c.i \in 0 .. Len(q.refs) - 1 BY <1>1 DEF Good
  <2>3. PICK i : i = c.i + 1 OBVIOUS
  <2>4. i \in 1 .. Len(q.refs) /\ i \in 1 .. Len(q.refs) + 1 BY <2>1, <2>2, <2>3
  <2>5. Left(q, c, m) = Cardinality(From(q.refs, i, m)) BY <1>1, <2>3 DEF Left
  <2>6. /\ Left(q, c, m) \in Nat
        /\ Left(q, c, m) > 0 => \E j \in i .. Len(q.refs) : q.refs[j] = m
    BY <2>1, <2>4, <2>5, FromIs
  <2>7. ASSUME NEW j \in i .. Len(q.refs), q.refs[j] = m
        PROVE  m \in Ahead(q, c) /\ Ref(q, c) <= m /\ HasIn(q, m) > 0
    <3>1. j \in 1 .. Len(q.refs) /\ i <= j BY <2>1, <2>4
    <3>2. q.refs[i] <= m BY <2>1, <2>4, <2>7, <3>1 DEF Ordered
    <3>3. Ref(q, c) = q.refs[i] BY <1>1, <2>3 DEF Ref, Good
    <3>4. m \in Ahead(q, c) BY <1>1, <2>3, <2>7, <3>2, <3>3 DEF Ahead, Ref
    <3>5. HasIn(q, m) > 0 BY <1>1, <2>1, <2>7, <3>1, TimesIs DEF HasIn
    <3>6. QED BY <3>2, <3>3, <3>4, <3>5
  <2>8. QED BY <2>6, <2>7
<1>2. CASE q.kind \in {"slice", "filter"}
  <2>1. Left(q, c, m) = IF c.msg <= m THEN HasIn(q, m) ELSE 0 BY <1>2 DEF Left
  <2>2. c.msg \in Messages BY <1>2, GoodIs DEF Ref
  <2>3. QED BY <1>2, <2>1, <2>2, HasIs, Numbers DEF Ahead, Ref
<1>3. QED BY <1>1, <1>2, QueryIs

LEMMA FromEndIs ==
  ASSUME NEW i \in Int
  PROVE  FromEnd(i) = IF i >= 0 THEN i ELSE IF NumMsgs + i > 0 THEN NumMsgs + i ELSE 0
<1>1. CASE i >= 0 BY <1>1 DEF FromEnd
<1>2. CASE i < 0
  <2>1. PICK k \in Int : k = NumMsgs + i BY Numbers
  <2>2. Max({0, k}) = IF k > 0 THEN k ELSE 0
    <3>1. \E x \in {0, k} : \A y \in {0, k} : x >= y BY <2>1
    <3>2. PICK x : x = Max({0, k}) OBVIOUS
    <3>3. x \in {0, k} /\ \A y \in {0, k} : x >= y BY <3>1, <3>2 DEF Max
    <3>4. QED BY <2>1, <3>2, <3>3
  <2>3. QED BY <1>2, <2>1, <2>2 DEF FromEnd
<1>3. QED BY <1>1, <1>2

LEMMA Multiple ==
  ASSUME NEW s \in Nat \ {0}, NEW d \in Int, d >= 0
  PROVE  d % s = 0 <=> \E k \in Nat : d = k * s
<1>1. d \in Nat BY Numbers
<1>2. d % s = 0 => \E k \in Nat : d = k * s
  <2>1. d \div s \in Nat /\ d = (d \div s) * s + (d % s) BY <1>1, PlaceOf
  <2>2. PICK k \in Nat : k = d \div s BY <2>1
  <2>3. k * s \in Nat BY <2>2
  <2>4. d % s = 0 => d = k * s BY <2>1, <2>2, <2>3
  <2>5. QED BY <2>4
<1>3. ASSUME NEW k \in Nat, d = k * s PROVE d % s = 0
  <2>1. 0 \in 0 .. s - 1 OBVIOUS
  <2>2. (k * s + 0) % s = 0 BY <2>1, PlaceIs
  <2>3. k * s \in Int OBVIOUS
  <2>4. k * s + 0 = d BY <1>3, <2>3
  <2>5. QED BY <2>2, <2>4
<1>4. QED BY <1>2, <1>3

\* What a plain slice has: from its start on in steps, or the messages between two
\* positions counted from the end.
LEMMA SlicedIs ==
  ASSUME NEW q, IsSlice(q), Plain(q), NEW m \in Messages
  PROVE  /\ q.start >= 0 =>
              (Sliced(q, m) <=> m < q.stop /\ \E k \in Nat : m = q.start + k * q.step)
         /\ q.start < 0 =>
              (Sliced(q, m) <=> q.start + NumMsgs <= m /\ m - NumMsgs < q.stop)
<1>1. /\ q.kind = "slice" /\ q.start \in Int /\ q.stop \in Int /\ q.step \in Nat \ {0}
      /\ m \in Int /\ 0 <= m /\ m < NumMsgs /\ NumMsgs \in Nat
      /\ NoStop \in Nat /\ NoStop > NumMsgs
  BY NoStopAssumption, Numbers DEF IsSlice
<1>2. ASSUME q.start >= 0
      PROVE  Sliced(q, m) <=> m < q.stop /\ \E k \in Nat : m = q.start + k * q.step
  <2>1. q.stop >= 0 BY <1>1, <1>2 DEF Plain
  <2>2. FromEnd(q.start) = q.start /\ FromEnd(q.stop) = q.stop BY <1>1, <1>2, <2>1, FromEndIs
  <2>3. Sliced(q, m) <=> /\ q.start <= m /\ m < q.stop
                         /\ (m - q.start) % q.step = 0
    BY <1>1, <2>2 DEF Sliced
  <2>4. ASSUME q.start <= m
        PROVE  (m - q.start) % q.step = 0 <=> \E k \in Nat : m = q.start + k * q.step
    <3>1. PICK d \in Int : d = m - q.start BY <1>1
    <3>2. d >= 0 BY <1>1, <2>4, <3>1
    <3>3. d % q.step = 0 <=> \E k \in Nat : d = k * q.step BY <1>1, <3>2, Multiple
    <3>4. ASSUME NEW k \in Nat PROVE d = k * q.step <=> m = q.start + k * q.step
      <4>1. k * q.step \in Int BY <1>1
      <4>2. QED BY <1>1, <3>1, <4>1
    <3>5. QED BY <3>1, <3>3, <3>4
  <2>5. ASSUME NEW k \in Nat, m = q.start + k * q.step PROVE q.start <= m
    <3>1. k * q.step \in Nat BY <1>1
    <3>2. QED BY <1>1, <2>5, <3>1
  <2>6. QED BY <2>3, <2>4, <2>5
<1>3. ASSUME q.start < 0
      PROVE  Sliced(q, m) <=> q.start + NumMsgs <= m /\ m - NumMsgs < q.stop
  <2>1. q.step = 1 /\ (q.stop < 0 \/ q.stop = NoStop) BY <1>1, <1>3 DEF Plain
  <2>2. FromEnd(q.start) <= m <=> q.start + NumMsgs <= m BY <1>1, <1>3, FromEndIs
  <2>3. (q.stop < NoStop => m < FromEnd(q.stop)) <=> m - NumMsgs < q.stop
    <3>1. CASE q.stop = NoStop BY <1>1, <3>1
    <3>2. CASE q.stop < 0 BY <1>1, <3>2, FromEndIs
    <3>3. QED BY <2>1, <3>1, <3>2
  <2>4. (m - FromEnd(q.start)) % q.step = 0
    <3>1. FromEnd(q.start) \in Int BY <1>1, FromEndIs
    <3>2. \A d \in Int : d % 1 = 0 OBVIOUS
    <3>3. QED BY <1>1, <2>1, <3>1, <3>2
  <2>5. QED BY <2>2, <2>3, <2>4 DEF Sliced
<1>4. QED BY <1>2, <1>3

\* Where a good cursor of a plain slice is: so many steps behind where it began.
LEMMA SlicePlace ==
  ASSUME NEW q, IsSlice(q), Plain(q), NEW c, Good(q, c)
  PROVE  /\ c.i \in Nat /\ c.p \in Int /\ InStream(c.p)
         /\ q.start >= 0 => /\ c.p = q.start + c.i * q.step /\ c.msg = c.p /\ c.p >= 0
         /\ q.start < 0 => /\ q.step = 1 /\ c.p < 0 /\ c.msg = c.p + NumMsgs
                           /\ \/ c.p = q.start + c.i
                              \/ q.start < -NumMsgs /\ c.p = -NumMsgs + c.i
<1>1. /\ q.kind = "slice" /\ q.start \in Int /\ q.stop \in Int /\ q.step \in Nat \ {0}
      /\ c \in Cursor /\ c.i >= 0 /\ InStream(c.p) /\ c.msg = MsgAt(c.p) /\ Begin(q).ref # End
      /\ c.p = Begin(q).cursor.p + c.i * q.step
      /\ (q.start >= 0 <=> c.p >= 0)
  BY DEF IsSlice, Good
<1>2. c.i \in Nat /\ c.p \in Int BY <1>1 DEF Cursor
<1>3. PICK b : b = Begin(q).cursor.p OBVIOUS
<1>4. b = q.start \/ (q.start < -NumMsgs /\ (q.step = 1 => b = -NumMsgs)) BY <1>1, <1>3, BeginIsGood
<1>5. CASE q.start >= 0
  <2>1. b = q.start BY <1>1, <1>4, <1>5, Numbers
  <2>2. QED BY <1>1, <1>2, <1>3, <1>5, <2>1, MsgAtIs
<1>6. CASE q.start < 0
  <2>1. q.step = 1 BY <1>1, <1>6 DEF Plain
  <2>2. c.p = b + c.i BY <1>1, <1>2, <1>3, <1>4, <2>1, Numbers
  <2>3. QED BY <1>1, <1>2, <1>4, <1>6, <2>1, <2>2, MsgAtIs, Numbers
<1>7. QED BY <1>1, <1>5, <1>6

\* In a slice the message at a cursor is one of its own if it is before the stop, and
\* the next but one position has no message of the slice before it.
LEMMA SliceMember ==
  ASSUME NEW q, IsSlice(q), Plain(q), NEW c, Good(q, c)
  PROVE  c.msg \in Messages /\ (Sliced(q, c.msg) <=> c.p < q.stop)
<1>1. q.start \in Int /\ q.stop \in Int /\ q.step \in Nat \ {0} BY DEF IsSlice
<1>2. /\ c.i \in Nat /\ c.p \in Int /\ InStream(c.p)
      /\ q.start >= 0 => /\ c.p = q.start + c.i * q.step /\ c.msg = c.p /\ c.p >= 0
      /\ q.start < 0 => /\ q.step = 1 /\ c.p < 0 /\ c.msg = c.p + NumMsgs
                        /\ \/ c.p = q.start + c.i
                           \/ q.start < -NumMsgs /\ c.p = -NumMsgs + c.i
  BY SlicePlace
<1>3. c.msg \in Messages BY <1>1, <1>2, Numbers DEF InStream
<1>4. CASE q.start >= 0 BY <1>1, <1>2, <1>3, <1>4, SlicedIs
<1>5. CASE q.start < 0
  <2>1. PICK m \in Messages : m = c.msg BY <1>3
  <2>2. Sliced(q, m) <=> q.start + NumMsgs <= m /\ m - NumMsgs < q.stop BY <1>5, SlicedIs
  <2>3. q.start + NumMsgs <= m /\ m - NumMsgs = c.p BY <1>1, <1>2, <1>5, <2>1, Numbers
  <2>4. QED BY <1>3, <2>1, <2>2, <2>3
<1>6. QED BY <1>1, <1>3, <1>4, <1>5

\* Where the next position would be, there is no message.
RunsOut(q, c, p) == AtLast(c) \/ p >= q.stop \/ p < q.start \/ ~InStream(p)

LEMMA SliceNextHas ==
  ASSUME NEW q, IsSlice(q), Plain(q), NEW c, Good(q, c), NEW r, r = SliceNext(q, c)
  PROVE  /\ Result(q, r)
         /\ r.ref # End => /\ r.ref \in Messages /\ Sliced(q, r.ref) /\ c.msg < r.ref
         /\ \A m \in Messages : Sliced(q, m) /\ c.msg < m => r.ref # End /\ r.ref <= m
<1>1. q.kind = "slice" /\ q.start \in Int /\ q.stop \in Int /\ q.step \in Nat \ {0} BY DEF IsSlice
<1>2. /\ c.i \in Nat /\ c.p \in Int /\ InStream(c.p)
      /\ q.start >= 0 => /\ c.p = q.start + c.i * q.step /\ c.msg = c.p /\ c.p >= 0
      /\ q.start < 0 => /\ q.step = 1 /\ c.p < 0 /\ c.msg = c.p + NumMsgs
                        /\ \/ c.p = q.start + c.i
                           \/ q.start < -NumMsgs /\ c.p = -NumMsgs + c.i
  BY SlicePlace
<1>3. PICK p \in Int : p = c.p + q.step BY <1>1, <1>2
<1>4. /\ Result(q, r) /\ r.ref # NoMsg
      /\ IF RunsOut(q, c, p) THEN r.ref = End ELSE r.ref # End /\ r.cursor.p = p
  BY <1>3, SliceNextIs DEF RunsOut
<1>5. ASSUME ~RunsOut(q, c, p)
      PROVE  /\ r.ref \in Messages /\ Sliced(q, r.ref) /\ c.msg < r.ref
             /\ r.ref = IF q.start >= 0 THEN p ELSE p + NumMsgs
  <2>1. Good(q, r.cursor) /\ r.ref = r.cursor.msg /\ r.ref \in Messages
    BY <1>1, <1>4, <1>5, Numbers DEF Result, Ref
  <2>2. PICK d : d = r.cursor OBVIOUS
  <2>3. Good(q, d) /\ d.p = p /\ d.msg = r.ref BY <1>4, <1>5, <2>1, <2>2
  <2>4. p < q.stop BY <1>1, <1>3, <1>5 DEF RunsOut
  <2>5. Sliced(q, r.ref) BY <2>3, <2>4, SliceMember
  <2>6. /\ q.start >= 0 => d.msg = d.p
        /\ q.start < 0 => d.msg = d.p + NumMsgs
    BY <2>3, SlicePlace
  <2>7. QED BY <1>1, <1>2, <1>3, <2>1, <2>3, <2>5, <2>6, Numbers
<1>6. ASSUME NEW m \in Messages, Sliced(q, m), c.msg < m PROVE ~RunsOut(q, c, p) /\ r.ref <= m
  <2>1. m \in Int /\ 0 <= m /\ m < NumMsgs /\ NumMsgs \in Nat BY Numbers
  <2>2. CASE q.start >= 0
    <3>1. m < q.stop /\ \E k \in Nat : m = q.start + k * q.step BY <1>6, <2>2, SlicedIs
    <3>2. PICK k \in Nat : m = q.start + k * q.step BY <3>1
    <3>3. PICK i \in Nat : i = c.i BY <1>2
    <3>4. c.p = q.start + i * q.step /\ c.msg = c.p /\ c.p >= 0 BY <1>2, <2>2, <3>3
    <3>5. i * q.step \in Nat /\ k * q.step \in Nat BY <1>1
    <3>6. i < k
      <4>1. i * q.step < k * q.step BY <1>1, <1>2, <1>6, <3>2, <3>4, <3>5
      <4>2. QED BY <1>1, <3>5, <4>1, BlockBefore
    <3>7. (i + 1) * q.step <= k * q.step /\ (i + 1) * q.step = i * q.step + q.step
      <4>1. i + 1 \in Nat /\ i + 1 <= k BY <3>6
      <4>2. QED BY <1>1, <4>1, BlocksOrdered
    <3>8. p <= m BY <1>1, <1>3, <3>2, <3>4, <3>5, <3>7
    <3>9. p < q.stop /\ ~(p < q.start) /\ 0 <= p /\ p < NumMsgs /\ c.p # -1
      BY <1>1, <1>3, <2>1, <2>2, <3>1, <3>4, <3>5, <3>8
    <3>10. ~RunsOut(q, c, p) BY <1>1, <2>1, <3>9, Numbers DEF AtLast, InStream, RunsOut
    <3>11. QED BY <1>5, <2>2, <3>8, <3>10
  <2>3. CASE q.start < 0
    <3>1. q.start + NumMsgs <= m /\ m - NumMsgs < q.stop BY <1>6, <2>3, SlicedIs
    <3>2. q.step = 1 /\ c.p < 0 /\ c.msg = c.p + NumMsgs /\ c.p >= q.start /\ -NumMsgs <= c.p
      BY <1>1, <1>2, <2>3, Numbers DEF InStream
    <3>3. p = c.p + 1 /\ p + NumMsgs <= m BY <1>2, <1>3, <1>6, <2>1, <3>2
    <3>4. p < 0 /\ p < q.stop /\ ~(p < q.start) /\ -NumMsgs <= p /\ c.p # -1
      BY <1>1, <1>2, <2>1, <3>1, <3>2, <3>3
    <3>5. ~RunsOut(q, c, p) BY <1>1, <2>1, <3>4, Numbers DEF AtLast, InStream, RunsOut
    <3>6. ~(q.start >= 0) BY <1>1, <2>3
    <3>7. QED BY <1>5, <3>3, <3>5, <3>6
  <2>4. QED BY <1>1, <2>2, <2>3
<1>7. QED BY <1>4, <1>5, <1>6

LEMMA SliceFirstHas ==
  ASSUME NEW q, IsSlice(q), Plain(q), NEW c, Sound(q, c), NEW r, r = SliceItem(q, c, 0)
  PROVE  /\ r.ref # End <=> \E m \in Messages : Sliced(q, m)
         /\ r.ref # End => r.ref \in Messages /\ Sliced(q, r.ref)
         /\ \A m \in Messages : Sliced(q, m) => r.ref <= m
<1>1. q.kind = "slice" /\ q.start \in Int /\ q.stop \in Int /\ q.step \in Nat \ {0} BY DEF IsSlice
<1>2. /\ Result(q, r) /\ r.ref # NoMsg
      /\ r.ref # End => r.cursor.i = 0
      /\ r.ref # End <=> StartsIn(q)
  BY SliceFirstIs
<1>3. ASSUME r.ref # End
      PROVE  /\ r.ref \in Messages /\ Sliced(q, r.ref)
             /\ \A m \in Messages : Sliced(q, m) => r.ref <= m
  <2>1. Good(q, r.cursor) /\ r.ref = r.cursor.msg /\ r.ref \in Messages
    BY <1>1, <1>2, <1>3, Numbers DEF Result, Ref
  <2>2. PICK d : d = r.cursor OBVIOUS
  <2>3. Good(q, d) /\ d.i = 0 /\ d.msg = r.ref BY <1>2, <1>3, <2>1, <2>2
  <2>4. /\ d.p \in Int /\ InStream(d.p)
        /\ q.start >= 0 => d.p = q.start + 0 * q.step /\ d.msg = d.p
        /\ q.start < 0 => /\ d.msg = d.p + NumMsgs
                          /\ d.p = q.start + 0 \/ d.p = -NumMsgs + 0
    BY <2>3, SlicePlace
  <2>5. d.p < q.stop
    <3>1. d.p = Begin(q).cursor.p + 0 * q.step /\ Begin(q).ref # End BY <1>1, <2>3 DEF Good
    <3>2. Begin(q).cursor.p \in Int BY <3>1, BeginIsGood DEF Good, Cursor
    <3>3. 0 * q.step = 0 BY <1>1
    <3>4. QED BY <1>2, <1>3, <3>1, <3>2, <3>3 DEF StartsIn
  <2>6. Sliced(q, r.ref) BY <2>3, <2>5, SliceMember
  <2>7. ASSUME NEW m \in Messages, Sliced(q, m) PROVE r.ref <= m
    <3>1. m \in Int /\ 0 <= m /\ NumMsgs \in Nat BY Numbers
    <3>2. CASE q.start >= 0
      <4>1. PICK k \in Nat : m = q.start + k * q.step BY <2>7, <3>2, SlicedIs
      <4>2. k * q.step \in Nat /\ 0 * q.step = 0 BY <1>1
      <4>3. QED BY <1>1, <2>3, <2>4, <3>2, <4>1, <4>2
    <3>3. CASE q.start < 0
      <4>1. q.start + NumMsgs <= m BY <2>7, <3>3, SlicedIs
      <4>2. QED BY <1>1, <2>3, <2>4, <3>1, <3>3, <4>1
    <3>4. QED BY <1>1, <3>2, <3>3
  <2>8. QED BY <2>1, <2>6, <2>7
<1>4. ASSUME NEW m \in Messages, Sliced(q, m) PROVE StartsIn(q)
  <2>1. m \in Int /\ 0 <= m /\ m < NumMsgs /\ NumMsgs \in Nat BY Numbers
  <2>2. NotBegun \in Cursor BY Numbers DEF NotBegun, Cursor
  <2>3. Begin(q).ref = End => Missed(q, q.start)
    <3>1. \/ Missed(q, q.start) \/ Landed(q, q.start, Begin(q)) BY <2>2, SliceBegins
    <3>2. Landed(q, q.start, Begin(q)) => Begin(q).ref # End BY MsgAtIs, Numbers DEF Landed, Got
    <3>3. QED BY <3>1, <3>2
  <2>4. PICK b : b = Begin(q).cursor.p OBVIOUS
  <2>5. CASE q.start >= 0
    <3>1. m < q.stop /\ \E k \in Nat : m = q.start + k * q.step BY <1>4, <2>5, SlicedIs
    <3>2. PICK k \in Nat : m = q.start + k * q.step BY <3>1
    <3>3. k * q.step \in Nat BY <1>1
    <3>4. q.start <= m BY <1>1, <3>2, <3>3
    <3>5. ~Missed(q, q.start) BY <1>1, <2>1, <2>5, <3>4 DEF Missed, InStream
    <3>6. Begin(q).ref # End BY <2>3, <3>5
    <3>7. b = q.start BY <1>1, <2>1, <2>4, <2>5, <3>6, BeginIsGood
    <3>8. QED BY <1>1, <2>1, <2>4, <3>1, <3>4, <3>6, <3>7 DEF StartsIn
  <2>6. CASE q.start < 0
    <3>1. q.start + NumMsgs <= m /\ m - NumMsgs < q.stop BY <1>4, <2>6, SlicedIs
    <3>2. q.step = 1 BY <1>1, <2>6 DEF Plain
    <3>3. ~Missed(q, q.start) BY <1>1, <2>6, <3>2 DEF Missed
    <3>4. Begin(q).ref # End BY <2>3, <3>3
    <3>5. b = q.start \/ (q.start < -NumMsgs /\ b = -NumMsgs) BY <2>4, <3>2, <3>4, BeginIsGood
    <3>6. b < q.stop /\ b >= q.start BY <1>1, <2>1, <3>1, <3>5
    <3>7. QED BY <2>4, <3>4, <3>6 DEF StartsIn
  <2>7. QED BY <1>1, <2>5, <2>6
<1>5. QED BY <1>2, <1>3, <1>4

LEMMA FilterNextHas ==
  ASSUME NEW q, IsFilter(q), NEW c, Good(q, c), NEW r, r = FilterNext(q, c)
  PROVE  /\ r.ref # End => r.ref \in q.passes /\ c.msg < r.ref
         /\ \A m \in q.passes : c.msg < m => r.ref # End /\ r.ref <= m
<1>1. q.passes \in SUBSET Messages /\ q.kind = "filter" BY DEF IsFilter
<1>2. c.i >= 0 /\ c.p \in q.passes /\ c.msg = c.p /\ c.i \in Int BY <1>1 DEF Good, Cursor
<1>3. c.i # Exhausted BY <1>2, Numbers
<1>4. PICK above : above = {m \in q.passes : m > c.p} OBVIOUS
<1>5. CASE above = {}
  <2>1. r.ref = End BY <1>3, <1>4, <1>5 DEF FilterNext, Got
  <2>2. ASSUME NEW m \in q.passes, c.msg < m PROVE FALSE
    <3>1. m > c.p BY <1>1, <1>2, <2>2, Numbers
    <3>2. QED BY <1>4, <1>5, <3>1
  <2>3. QED BY <2>1, <2>2
<1>6. CASE above # {}
  <2>1. above \in SUBSET Nat BY <1>1, <1>4, Numbers
  <2>2. PICK z : z = Min(above) OBVIOUS
  <2>3. z \in above /\ \A y \in above : z <= y BY <1>6, <2>1, <2>2, MinIs
  <2>4. r.ref = z BY <1>3, <1>4, <1>6, <2>2 DEF FilterNext, Got
  <2>5. z \in q.passes /\ z > c.p /\ z # End BY <1>1, <1>4, <2>3, Numbers
  <2>6. c.p \in Int /\ z \in Int BY <1>1, <1>2, <2>5, Numbers
  <2>7. ASSUME NEW m \in q.passes, c.msg < m PROVE z <= m
    <3>1. m > c.p BY <1>1, <1>2, <2>7, Numbers
    <3>2. QED BY <1>4, <2>3, <3>1
  <2>8. QED BY <1>2, <2>4, <2>5, <2>6, <2>7
<1>7. QED BY <1>5, <1>6

LEMMA FilterFirstHas ==
  ASSUME NEW q, IsFilter(q), NEW c \in Cursor, Reset(c), NEW r, r = FilterFirst(q, c)
  PROVE  /\ r.ref # End <=> q.passes # {}
         /\ r.ref # End => r.ref \in q.passes
         /\ \A m \in q.passes : r.ref <= m
<1>1. q.passes \in SUBSET Nat /\ End \notin q.passes BY Numbers DEF IsFilter
<1>2. r = FilterGetFirst(q, c) BY DEF FilterFirst
<1>3. CASE q.passes = {} BY <1>2, <1>3 DEF FilterGetFirst, Got
<1>4. CASE q.passes # {}
  <2>1. r.ref = Min(q.passes) BY <1>2, <1>4 DEF FilterGetFirst, Got
  <2>2. QED BY <1>1, <1>4, <2>1, MinIs
<1>5. QED BY <1>3, <1>4

\* A slice or a filter has a message once or not at all.
LEMMA HasOnce ==
  ASSUME NEW q \in Queries, q.kind \in {"slice", "filter"}, NEW m
  PROVE  /\ HasIn(q, m) \in {0, 1}
         /\ HasIn(q, m) > 0 <=> IF q.kind = "slice" THEN Sliced(q, m) ELSE m \in q.passes
BY DEF HasIn, One

\* next() of a slice or a filter gives the first of its messages behind the cursor.
LEMMA ScannedNext ==
  ASSUME NEW q \in Queries, q.kind \in {"slice", "filter"}, Plain(q), NEW c, Good(q, c),
         NEW r, r = NextOf(q, c)
  PROVE  /\ c.msg \in Messages /\ Sound(q, c) /\ c.i # New
         /\ r.ref # End => /\ Good(q, r.cursor) /\ r.ref = r.cursor.msg /\ r.ref \in Messages
                           /\ HasIn(q, r.ref) > 0 /\ c.msg < r.ref
         /\ \A m \in Messages : HasIn(q, m) > 0 /\ c.msg < m => r.ref # End /\ r.ref <= m
<1>1. c.msg \in Messages /\ Sound(q, c) /\ c.i # New BY GoodIs DEF Ref
<1>2. Result(q, r) /\ r.ref # NoMsg BY <1>1, NextIs
<1>3. r.ref # End => Good(q, r.cursor) /\ r.ref = r.cursor.msg /\ r.ref \in Messages
  BY <1>2 DEF Result, Ref
<1>4. CASE q.kind = "slice"
  <2>1. IsSlice(q) /\ r = SliceNext(q, c) BY <1>4, QueryIs DEF IsSlice, NextOf
  <2>2. QED BY <1>1, <1>3, <1>4, <2>1, SliceNextHas, HasOnce
<1>5. CASE q.kind = "filter"
  <2>1. IsFilter(q) /\ r = FilterNext(q, c) BY <1>5, QueryIs DEF IsFilter, NextOf
  <2>2. QED BY <1>1, <1>3, <1>5, <2>1, FilterNextHas, HasOnce
<1>6. QED BY <1>4, <1>5

\* What an operand with n next has still to come.
ToCome(q, c, n, m) == IF n = End THEN 0 ELSE Left(q, c, m)

\* next() takes the message at the cursor from what is still to come.
LEMMA NextHas ==
  ASSUME NEW q \in Queries, Plain(q), NEW c, Good(q, c), HasIn(q, Ref(q, c)) > 0,
         NEW r, r = NextOf(q, c)
  PROVE  /\ r.ref # End => r.ref \in Messages /\ HasIn(q, r.ref) > 0
         /\ \A m \in Messages : Left(q, c, m) = ToCome(q, r.cursor, r.ref, m) + One(m = Ref(q, c))
<1>1. Sound(q, c) /\ c.i # New BY GoodIs
<1>2. Result(q, r) /\ r.ref # NoMsg BY <1>1, NextIs
<1>3. r.ref # End => Good(q, r.cursor) /\ r.ref = Ref(q, r.cursor) /\ r.ref \in Messages
  BY <1>2 DEF Result
<1>4. CASE q.kind \in {"key", "merge"}
  <2>1. q.refs \in Seq(Messages) /\ Len(q.refs) \in Nat BY <1>4, QueryIs
  <2>2. c.i \in 0 .. Len(q.refs) - 1 /\ c \in Cursor BY <1>4 DEF Good
  <2>3. PICK i : i = c.i + 1 OBVIOUS
  <2>4. i \in 1 .. Len(q.refs) /\ i \in 1 .. Len(q.refs) + 1 /\ i \in Int BY <2>1, <2>2, <2>3
  <2>5. Ref(q, c) = q.refs[i] BY <1>4, <2>3 DEF Ref, Good
  <2>6. IF i < Len(q.refs) THEN r.ref = q.refs[i + 1] /\ r.cursor.i = i ELSE r.ref = End
    <3>1. CASE q.kind = "key"
      <4>1. PICK d : d = [c EXCEPT !.i = i] OBVIOUS
      <4>2. d.i = i BY <2>2, <4>1 DEF Cursor
      <4>3. i = IF c.i < Len(q.refs) THEN c.i + 1 ELSE c.i BY <2>1, <2>2, <2>3
      <4>4. r = Got(d, IF i < Len(q.refs) THEN q.refs[i + 1] ELSE End)
        BY <3>1, <4>1, <4>3 DEF NextOf, KeyNext
      <4>5. QED BY <4>2, <4>4 DEF Got
    <3>2. CASE q.kind = "merge"
      <4>1. r = MergeNext(q, c) BY <3>2 DEF NextOf
      <4>2. c.i # Exhausted BY <2>2, Numbers
      <4>3. CASE i >= Len(q.refs) BY <2>1, <2>3, <2>4, <4>1, <4>2, <4>3 DEF MergeNext, Got
      <4>4. CASE i < Len(q.refs)
        <5>1. PICK d : d = [c EXCEPT !.i = i, !.msg = q.refs[i + 1]] OBVIOUS
        <5>2. d.i = i BY <2>2, <5>1 DEF Cursor
        <5>3. r = Got(d, q.refs[i + 1]) BY <2>1, <2>3, <2>4, <4>1, <4>2, <4>4, <5>1 DEF MergeNext
        <5>4. QED BY <4>4, <5>2, <5>3 DEF Got
      <4>5. QED BY <2>1, <2>4, <4>3, <4>4
    <3>3. QED BY <1>4, <3>1, <3>2
  <2>7. ASSUME NEW m \in Messages
        PROVE  Left(q, c, m) = ToCome(q, r.cursor, r.ref, m) + One(m = Ref(q, c))
    <3>1. Left(q, c, m) = Cardinality(From(q.refs, i, m)) BY <1>4, <2>3 DEF Left
    <3>2. Cardinality(From(q.refs, i, m)) = Cardinality(From(q.refs, i + 1, m)) + One(q.refs[i] = m)
      BY <2>1, <2>4, FromIs
    <3>3. One(q.refs[i] = m) = One(m = Ref(q, c)) BY <2>5 DEF One
    <3>4. ToCome(q, r.cursor, r.ref, m) = Cardinality(From(q.refs, i + 1, m))
      <4>1. CASE i < Len(q.refs)
        <5>1. r.cursor.i = i /\ r.ref \in Messages BY <2>1, <2>4, <2>6, <4>1
        <5>2. QED BY <1>4, <5>1, Numbers DEF ToCome, Left
      <4>2. CASE ~(i < Len(q.refs))
        <5>1. i = Len(q.refs) /\ i + 1 \in 1 .. Len(q.refs) + 1 BY <2>1, <2>4, <4>2
        <5>2. ~\E j \in i + 1 .. Len(q.refs) : q.refs[j] = m BY <2>1, <5>1
        <5>3. Cardinality(From(q.refs, i + 1, m)) = 0 BY <2>1, <5>1, <5>2, FromIs
        <5>4. QED BY <2>6, <4>2, <5>3 DEF ToCome
      <4>3. QED BY <4>1, <4>2
    <3>5. QED BY <3>1, <3>2, <3>3, <3>4
  <2>8. r.ref # End => HasIn(q, r.ref) > 0
    <3>1. SUFFICES ASSUME r.ref # End PROVE HasIn(q, r.ref) > 0 OBVIOUS
    <3>2. i + 1 \in 1 .. Len(q.refs) /\ q.refs[i + 1] = r.ref BY <2>1, <2>4, <2>6, <3>1
    <3>3. QED BY <1>4, <2>1, <3>2, TimesIs DEF HasIn
  <2>9. QED BY <1>3, <2>7, <2>8
<1>5. CASE q.kind \in {"slice", "filter"}
  <2>1. /\ c.msg \in Messages
        /\ r.ref # End => /\ Good(q, r.cursor) /\ r.ref = r.cursor.msg /\ r.ref \in Messages
                          /\ HasIn(q, r.ref) > 0 /\ c.msg < r.ref
        /\ \A m \in Messages : HasIn(q, m) > 0 /\ c.msg < m => r.ref # End /\ r.ref <= m
    BY <1>5, ScannedNext
  <2>2. Ref(q, c) = c.msg BY <1>5 DEF Ref
  <2>3. ASSUME NEW m \in Messages
        PROVE  Left(q, c, m) = ToCome(q, r.cursor, r.ref, m) + One(m = Ref(q, c))
    <3>1. Left(q, c, m) = IF c.msg <= m THEN HasIn(q, m) ELSE 0 BY <1>5 DEF Left
    <3>2. ToCome(q, r.cursor, r.ref, m) = IF r.ref # End /\ r.ref <= m THEN HasIn(q, m) ELSE 0
      BY <1>5, <2>1 DEF ToCome, Left
    <3>3. HasIn(q, m) \in {0, 1} /\ HasIn(q, c.msg) = 1 BY <1>5, <2>2, HasOnce
    <3>4. c.msg \in Int /\ m \in Int /\ (r.ref # End => r.ref \in Int) BY <2>1, Numbers
    <3>5. CASE m = c.msg BY <2>1, <2>2, <3>1, <3>2, <3>3, <3>4, <3>5 DEF One
    <3>6. CASE m < c.msg BY <2>1, <2>2, <3>1, <3>2, <3>3, <3>4, <3>6 DEF One
    <3>7. CASE c.msg < m
      <4>1. One(m = Ref(q, c)) = 0 BY <2>2, <3>4, <3>7 DEF One
      <4>2. HasIn(q, m) = 1 => r.ref # End /\ r.ref <= m BY <2>1, <3>7
      <4>3. QED BY <3>1, <3>2, <3>3, <3>4, <3>7, <4>1, <4>2
    <3>8. QED BY <3>4, <3>5, <3>6, <3>7
  <2>4. QED BY <2>1, <2>3
<1>6. QED BY <1>4, <1>5, QueryIs

\* [0] has all of an operand still to come; of a filter, if it begins.
LEMMA FirstHas ==
  ASSUME NEW q \in Queries, Plain(q), NEW c, Sound(q, c), q.kind = "filter" => Reset(c),
         NEW r, r = FirstOf(q, c)
  PROVE  /\ Here(q) <=> \E m \in Messages : HasIn(q, m) > 0
         /\ r.ref # End => /\ r.ref \in Messages /\ Good(q, r.cursor) /\ HasIn(q, r.ref) > 0
                           /\ \A m \in Messages : Left(q, r.cursor, m) = HasIn(q, m)
<1>1. Result(q, r) /\ (r.ref # End => r.cursor.i = 0) /\ (r.ref # End <=> Here(q)) BY FirstIs
<1>2. CASE q.kind \in {"key", "merge"}
  <2>1. q.refs \in Seq(Messages) /\ Len(q.refs) \in Nat BY <1>2, QueryIs
  <2>2. r.ref = IF q.refs = <<>> THEN End ELSE q.refs[1]
    BY <1>2 DEF FirstOf, KeyFirst, MergeFirst, Got
  <2>3. q.refs = <<>> <=> Len(q.refs) = 0 BY <2>1
  <2>4. \A m : HasIn(q, m) > 0 <=> \E j \in 1 .. Len(q.refs) : q.refs[j] = m
    BY <1>2, <2>1, TimesIs DEF HasIn
  <2>5. CASE Len(q.refs) = 0
    <3>1. ~\E m \in Messages : HasIn(q, m) > 0 BY <2>4, <2>5
    <3>2. QED BY <1>1, <2>2, <2>3, <2>5, <3>1
  <2>6. CASE Len(q.refs) > 0
    <3>1. 1 \in 1 .. Len(q.refs) /\ q.refs[1] \in Messages BY <2>1, <2>6
    <3>2. HasIn(q, q.refs[1]) > 0 BY <2>4, <3>1
    <3>3. r.ref = q.refs[1] /\ r.ref # End BY <2>2, <2>3, <2>6, <3>1, Numbers
    <3>4. Good(q, r.cursor) BY <1>1, <3>1, <3>3 DEF Result
    <3>5. ASSUME NEW m \in Messages PROVE Left(q, r.cursor, m) = HasIn(q, m)
      <4>1. r.cursor.i + 1 = 1 BY <1>1, <3>3
      <4>2. Left(q, r.cursor, m) = Cardinality(From(q.refs, 1, m)) BY <1>2, <4>1 DEF Left
      <4>3. 1 \in 1 .. Len(q.refs) + 1 BY <2>1
      <4>4. QED BY <1>2, <2>1, <4>2, <4>3, FromIs DEF HasIn
    <3>6. QED BY <1>1, <3>1, <3>2, <3>3, <3>4, <3>5
  <2>7. QED BY <2>1, <2>5, <2>6
<1>3. CASE q.kind \in {"slice", "filter"}
  <2>1. /\ r.ref # End <=> \E m \in Messages : HasIn(q, m) > 0
        /\ r.ref # End => r.ref \in Messages /\ HasIn(q, r.ref) > 0
        /\ \A m \in Messages : HasIn(q, m) > 0 => r.ref <= m
    <3>1. CASE q.kind = "slice"
      <4>1. IsSlice(q) /\ r = SliceItem(q, c, 0) BY <3>1, QueryIs DEF IsSlice, FirstOf
      <4>2. QED BY <1>3, <3>1, <4>1, SliceFirstHas, HasOnce
    <3>2. CASE q.kind = "filter"
      <4>1. IsFilter(q) /\ r = FilterFirst(q, c) /\ c \in Cursor
        BY <3>2, QueryIs DEF IsFilter, FirstOf, Sound
      <4>2. q.passes \in SUBSET Messages BY <4>1 DEF IsFilter
      <4>3. /\ r.ref # End <=> q.passes # {}
            /\ r.ref # End => r.ref \in q.passes
            /\ \A m \in q.passes : r.ref <= m
        BY <3>2, <4>1, FilterFirstHas
      <4>4. \A m : HasIn(q, m) > 0 <=> m \in q.passes BY <1>3, <3>2, HasOnce
      <4>5. QED BY <4>2, <4>3, <4>4
    <3>3. QED BY <1>3, <3>1, <3>2
  <2>2. ASSUME r.ref # End
        PROVE  Good(q, r.cursor) /\ \A m \in Messages : Left(q, r.cursor, m) = HasIn(q, m)
    <3>1. Good(q, r.cursor) /\ r.ref = r.cursor.msg BY <1>1, <1>3, <2>1, <2>2 DEF Result, Ref
    <3>2. ASSUME NEW m \in Messages PROVE Left(q, r.cursor, m) = HasIn(q, m)
      <4>1. Left(q, r.cursor, m) = IF r.ref <= m THEN HasIn(q, m) ELSE 0 BY <1>3, <3>1 DEF Left
      <4>2. HasIn(q, m) \in {0, 1} BY <1>3, HasOnce
      <4>3. QED BY <2>1, <4>1, <4>2
    <3>3. QED BY <3>1, <3>2
  <2>3. QED BY <1>1, <2>1, <2>2
<1>4. QED BY <1>2, <1>3, QueryIs

\* What the search of a slice or a filter finds from a good cursor d on one of its
\* messages: a message of its own, and none of them from the target on is passed over.
Found(q, id, d, r) ==
  /\ r.ref \in Messages => r.ref = r.cursor.msg /\ HasIn(q, r.ref) > 0
  /\ \A m \in Messages : HasIn(q, m) > 0 /\ id <= m /\ d.msg <= m =>
       r.ref # End /\ (r.ref \in Messages => r.ref <= m)

LEMMA ScanHas ==
  ASSUME NEW q \in Queries, q.kind \in {"slice", "filter"}, Plain(q), NEW c, Good(q, c),
         HasIn(q, c.msg) > 0, NEW id \in Messages, c.msg <= id
  PROVE  Found(q, id, c, ScanGe(q, c, id))
<1>1. Scans(q) BY QueryIs DEF Scans, IsSlice, IsFilter
<1>2. ASSUME NEW d, Good(q, d)
      PROVE  d \in Cursor /\ d.msg \in Messages /\ d.msg # End /\ ~Reset(d)
  <2>1. d \in Cursor /\ d.i \in Nat BY <1>2 DEF Good, Cursor
  <2>2. d.msg \in Messages BY <1>2, GoodIs DEF Ref
  <2>3. QED BY <2>1, <2>2, Numbers DEF Reset
<1>3. c \in Cursor /\ ~Reset(c) /\ c.msg # End /\ id \in Int BY <1>2, Numbers
<1>4. PICK on : /\ \A d \in Cursor : on[d] = Scanned(on, q, id, d)
                /\ ScanGe(q, c, id) = on[c]
  BY <1>1, <1>3, ScanUnfolds
<1> DEFINE S == {d \in Cursor : Good(q, d) /\ HasIn(q, d.msg) > 0 => Found(q, id, d, on[d])}
<1>5. ASSUME NEW d \in Cursor, \A e \in Cursor : ScanRank[e] < ScanRank[d] => e \in S,
             Good(q, d), HasIn(q, d.msg) > 0
      PROVE  Found(q, id, d, on[d])
  <2>1. d.msg \in Messages /\ d.msg \in Int BY <1>2, <1>5, Numbers
  <2>2. PICK r : r = NextOf(q, d) OBVIOUS
  <2>3. /\ r.ref # End => /\ Good(q, r.cursor) /\ r.ref = r.cursor.msg /\ r.ref \in Messages
                          /\ HasIn(q, r.ref) > 0 /\ d.msg < r.ref
        /\ \A m \in Messages : HasIn(q, m) > 0 /\ d.msg < m => r.ref # End /\ r.ref <= m
    BY <1>5, <2>2, ScannedNext
  <2>4. on[d] = IF d.msg >= id THEN Got(d, d.msg)
                ELSE IF r.ref = End THEN Got([r.cursor EXCEPT !.i = Exhausted], End)
                ELSE on[r.cursor]
    BY <1>4, <2>2 DEF Scanned
  <2>5. PICK v : v = on[d] OBVIOUS
  <2>6. CASE d.msg >= id
    <3>1. v.cursor = d /\ v.ref = d.msg BY <2>4, <2>5, <2>6 DEF Got
    <3>2. Found(q, id, d, v) BY <1>5, <2>1, <3>1, Numbers DEF Found
    <3>3. QED BY <2>5, <3>2
  <2>7. CASE ~(d.msg >= id) /\ r.ref = End
    <3>1. v.ref = End BY <2>4, <2>5, <2>7 DEF Got
    <3>2. ASSUME NEW m \in Messages, HasIn(q, m) > 0, id <= m PROVE FALSE
      <4>1. d.msg < m BY <2>1, <2>7, <3>2, Numbers
      <4>2. QED BY <2>3, <2>7, <3>2, <4>1
    <3>3. Found(q, id, d, v) BY <3>1, <3>2, Numbers DEF Found
    <3>4. QED BY <2>5, <3>3
  <2>8. CASE ~(d.msg >= id) /\ r.ref # End
    <3>1. PICK e : e = r.cursor OBVIOUS
    <3>2. v = on[e] BY <2>4, <2>5, <2>8, <3>1
    <3>3. Good(q, e) /\ e \in Cursor /\ HasIn(q, e.msg) > 0 /\ e.msg = r.ref
      BY <1>2, <2>3, <2>8, <3>1
    <3>4. ScanRank[e] < ScanRank[d] BY <1>1, <2>2, <2>8, <3>1, ScanNext
    <3>5. Found(q, id, e, v) BY <1>5, <3>2, <3>3, <3>4
    <3>6. ASSUME NEW m \in Messages, HasIn(q, m) > 0, id <= m PROVE e.msg <= m
      <4>1. d.msg < m BY <2>1, <2>8, <3>6, Numbers
      <4>2. QED BY <2>3, <3>3, <3>6, <4>1
    <3>7. Found(q, id, d, v) BY <3>5, <3>6 DEF Found
    <3>8. QED BY <2>5, <3>7
  <2>9. QED BY <2>6, <2>7, <2>8
<1>6. \A d \in Cursor : (\A e \in Cursor : ScanRank[e] < ScanRank[d] => e \in S) => d \in S
  BY <1>5
<1> HIDE DEF S
<1>7. Cursor \subseteq S BY <1>6, ScanRankIs, RankInduction
<1>8. QED BY <1>3, <1>4, <1>7 DEF S

\* A jump loses no message from its target on.
LEMMA GeHas ==
  ASSUME NEW q \in Queries, Plain(q), NEW c, Good(q, c), NEW id \in Messages,
         q.kind # "key" => HasIn(q, c.msg) > 0 /\ c.msg <= id,
         NEW r, r = GeOf(q, c, id)
  PROVE  /\ r.ref \in Messages => HasIn(q, r.ref) > 0
         /\ \A m \in Messages : id <= m /\ Left(q, c, m) > 0 =>
              r.ref # End /\ (r.ref \in Messages => Left(q, r.cursor, m) > 0)
<1>1. CASE q.kind = "key"
  <2>1. q.refs \in Seq(Messages) /\ Len(q.refs) \in Nat BY <1>1, QueryIs
  <2>2. PICK later : later = {q.refs[i] : i \in {j \in DOMAIN q.refs : q.refs[j] >= id}} OBVIOUS
  <2>3. r = Got(c, IF later = {} THEN End ELSE Min(later)) BY <1>1, <2>2 DEF GeOf, KeyGe
  <2>4. r.cursor = c /\ r.ref = IF later = {} THEN End ELSE Min(later) BY <2>3 DEF Got
  <2>5. DOMAIN q.refs = 1 .. Len(q.refs) /\ \A j \in 1 .. Len(q.refs) : q.refs[j] \in Messages BY <2>1
  <2>6. later \in SUBSET Messages BY <2>2, <2>5
  <2>7. later # {} => r.ref \in later /\ r.ref # End
    <3>1. SUFFICES ASSUME later # {} PROVE r.ref \in later /\ r.ref # End OBVIOUS
    <3>2. later \in SUBSET Nat BY <2>6, Numbers
    <3>3. r.ref \in later BY <2>4, <3>1, <3>2, MinIs
    <3>4. QED BY <2>6, <3>3, Numbers
  <2>8. r.ref \in Messages => HasIn(q, r.ref) > 0
    <3>1. SUFFICES ASSUME r.ref \in Messages PROVE HasIn(q, r.ref) > 0 OBVIOUS
    <3>2. r.ref \in later BY <2>4, <2>7, <3>1, Numbers
    <3>3. PICK j \in 1 .. Len(q.refs) : r.ref = q.refs[j] BY <2>2, <2>5, <3>2
    <3>4. Times(q.refs, r.ref) > 0 BY <2>1, <3>3, TimesIs
    <3>5. QED BY <1>1, <3>4 DEF HasIn
  <2>9. ASSUME NEW m \in Messages, id <= m, Left(q, c, m) > 0 PROVE r.ref # End
    <3>1. HasIn(q, m) > 0 BY <2>9, LeftIs
    <3>2. Times(q.refs, m) > 0 BY <1>1, <3>1 DEF HasIn
    <3>3. PICK j \in 1 .. Len(q.refs) : q.refs[j] = m BY <2>1, <3>2, TimesIs
    <3>4. q.refs[j] >= id BY <2>9, <3>3, Numbers
    <3>5. later # {} BY <2>2, <2>5, <3>4
    <3>6. QED BY <2>7, <3>5
  <2>10. QED BY <2>4, <2>8, <2>9
<1>2. CASE q.kind \in {"slice", "filter"}
  <2>1. r = ScanGe(q, c, id) BY <1>2 DEF GeOf
  <2>2. Found(q, id, c, r) BY <1>2, <2>1, ScanHas
  <2>3. c.msg \in Messages BY <1>2, GoodIs DEF Ref
  <2>4. ASSUME NEW m \in Messages, id <= m, Left(q, c, m) > 0
        PROVE  r.ref # End /\ (r.ref \in Messages => Left(q, r.cursor, m) > 0)
    <3>1. HasIn(q, m) > 0 /\ c.msg <= m BY <1>2, <2>4, LeftIs DEF Ref
    <3>2. r.ref # End /\ (r.ref \in Messages => r.ref = r.cursor.msg /\ r.ref <= m)
      BY <2>2, <2>4, <3>1 DEF Found
    <3>3. QED BY <1>2, <3>1, <3>2 DEF Left
  <2>5. QED BY <2>2, <2>4 DEF Found
<1>3. CASE q.kind = "merge"
  <2>1. r.ref = NoMsg BY <1>3 DEF GeOf, Got
  <2>2. QED BY <2>1, Numbers
<1>4. QED BY <1>1, <1>2, <1>3, QueryIs

-----------------------------------------------------------------------------
(***************************************************************************)
(* The tally of a merge                                                    *)
(***************************************************************************)

\* How often a message belongs into what a and b of it are joined to.
Joined(op, a, b) ==
  CASE op = "and" -> Least(a, b)
    [] op = "or"  -> Most(a, b)
    [] op = "sub" -> Most(a - b, 0)
    [] op = "xor" -> Most(a - b, b - a)

Given(s) == {s[i] : i \in 1 .. Len(s)}

\* Nobody has begun the iteration.
Fresh == current_i = "new" => again = FALSE /\ \A x \in Operands : at[x] = NotBegun

\* What an operand has next is a message of its own.
Members(qs, ns) == \A x \in Operands : ns[x] # End => HasIn(qs[x], ns[x]) > 0

\* What has been given and what is still to come make the outcome. & loses nothing:
\* what both have is given, or still to come from both.
Balanced(op, qs, cs, ns, s) ==
  \A m \in Messages :
    Joined(op, HasIn(qs["A"], m), HasIn(qs["B"], m)) =
      Times(s, m) + Joined(op, ToCome(qs["A"], cs["A"], ns["A"], m), ToCome(qs["B"], cs["B"], ns["B"], m))
Common(qs) == {m \in Messages : HasIn(qs["A"], m) > 0 /\ HasIn(qs["B"], m) > 0}
Unlost(qs, cs, ns, s) ==
  /\ Given(s) \subseteq Common(qs)
  /\ \A m \in Common(qs) \ Given(s) : \A x \in Operands : ToCome(qs[x], cs[x], ns[x], m) > 0

Tally(op, qs, cs, ns, s) ==
  /\ Members(qs, ns)
  /\ op # "and" => Balanced(op, qs, cs, ns, s)
  /\ op = "and" => Unlost(qs, cs, ns, s)
Tallied == Going /\ Counted => Tally(operator, query, at, next, out)

HInv == IInv /\ Fresh /\ Tallied /\ MergeExact /\ AndMembers

\* What an operand under way has still to come is not before what it has next, or with
\* & not before its cursor.
LEMMA ToComeIs ==
  ASSUME NEW op, NEW q \in Queries, NEW c, NEW n \in Messages \cup {End}, OnItsWay(op, q, c, n),
         NEW m \in Messages
  PROVE  /\ ToCome(q, c, n, m) \in Nat
         /\ ToCome(q, c, n, m) > 0 => /\ n # End /\ m \in Ahead(q, c) /\ HasIn(q, m) > 0
                                      /\ op # "and" => n <= m
<1>1. CASE n = End BY <1>1 DEF ToCome
<1>2. CASE n # End
  <2>1. /\ Good(q, c)
        /\ IF op = "and" /\ q.kind = "key" THEN n \in Ahead(q, c) ELSE n = Ref(q, c)
    BY <1>2 DEF OnItsWay
  <2>2. ToCome(q, c, n, m) = Left(q, c, m) BY <1>2 DEF ToCome
  <2>3. QED BY <1>2, <2>1, <2>2, LeftIs
<1>3. QED BY <1>1, <1>2

\* next() of an operand under way takes the message it has next from what is to come;
\* with & it may take one before that.
LEMMA MoveHas ==
  ASSUME NEW op, NEW q \in Queries, Plain(q), NEW c, NEW n \in Messages, OnItsWay(op, q, c, n),
         HasIn(q, n) > 0, NEW r, r = NextOf(q, c)
  PROVE  /\ r.ref # End => HasIn(q, r.ref) > 0
         /\ op # "and" => \A m \in Messages :
              ToCome(q, c, n, m) = ToCome(q, r.cursor, r.ref, m) + One(m = n)
         /\ \A m \in Messages : n < m /\ ToCome(q, c, n, m) > 0 =>
              ToCome(q, r.cursor, r.ref, m) > 0
<1>1. /\ Good(q, c)
      /\ IF op = "and" /\ q.kind = "key" THEN n \in Ahead(q, c) ELSE n = Ref(q, c)
      /\ n # End
  BY Numbers DEF OnItsWay
<1>2. Ref(q, c) \in Messages /\ Ref(q, c) <= n BY <1>1, GoodIs
<1>3. HasIn(q, Ref(q, c)) > 0
  <2>1. CASE q.kind = "key"
    <3>1. q.refs \in Seq(Messages) /\ c.i + 1 \in 1 .. Len(q.refs) BY <1>1, <2>1, QueryIs DEF Good
    <3>2. Times(q.refs, q.refs[c.i + 1]) > 0 BY <3>1, TimesIs
    <3>3. QED BY <2>1, <3>2 DEF HasIn, Ref
  <2>2. CASE q.kind # "key" BY <1>1, <2>2
  <2>3. QED BY <2>1, <2>2
<1>4. /\ r.ref # End => r.ref \in Messages /\ HasIn(q, r.ref) > 0
      /\ \A m \in Messages : Left(q, c, m) = ToCome(q, r.cursor, r.ref, m) + One(m = Ref(q, c))
  BY <1>1, <1>3, NextHas
<1>5. \A m : ToCome(q, c, n, m) = Left(q, c, m) BY <1>1 DEF ToCome
<1>6. op # "and" => n = Ref(q, c) BY <1>1
<1>7. ASSUME NEW m \in Messages, n < m, ToCome(q, c, n, m) > 0
      PROVE  ToCome(q, r.cursor, r.ref, m) > 0
  <2>1. m # Ref(q, c) BY <1>2, <1>7, Numbers
  <2>2. One(m = Ref(q, c)) = 0 BY <2>1 DEF One
  <2>3. ToCome(q, r.cursor, r.ref, m) \in Nat
    <3>1. Sound(q, c) /\ c.i # New BY <1>1, GoodIs
    <3>2. Result(q, r) BY <3>1, NextIs
    <3>3. r.ref # End => Good(q, r.cursor) BY <1>4, <3>2 DEF Result
    <3>4. QED BY <3>3, LeftIs DEF ToCome
  <2>4. QED BY <1>4, <1>5, <1>7, <2>2, <2>3
<1>8. QED BY <1>4, <1>5, <1>6, <1>7

\* get_next of some of the operands, in a turn.
LEMMA TurnHas ==
  ASSUME IInv, NEW ops, Turn(ops), Counted, Members(query, next),
         NEW xs \in SUBSET Operands, \A x \in xs : next[x] # End, MoveOn(xs),
         NEW a, NEW n, a = at', n = next'
  PROVE  /\ Members(query, n)
         /\ \A x \in Operands : \A m \in Messages :
              /\ ToCome(query[x], at[x], next[x], m) \in Nat
              /\ ToCome(query[x], a[x], n[x], m) \in Nat
              /\ operator # "and" /\ ToCome(query[x], at[x], next[x], m) > 0 =>
                   next[x] # End /\ next[x] <= m
              /\ IF x \in xs
                   THEN /\ operator # "and" =>
                             ToCome(query[x], at[x], next[x], m) =
                               ToCome(query[x], a[x], n[x], m) + One(m = next[x])
                        /\ next[x] < m /\ ToCome(query[x], at[x], next[x], m) > 0 =>
                             ToCome(query[x], a[x], n[x], m) > 0
                   ELSE ToCome(query[x], a[x], n[x], m) = ToCome(query[x], at[x], next[x], m)
<1>1. /\ Types /\ Cursors /\ UnderWay /\ current_i = "call" /\ Going
      /\ \A x \in Operands : query[x] \in Queries
      /\ next \in [Operands -> Messages \cup {End}]
  BY TurnIs
<1>2. Moved(a, n, xs) BY <1>1, MoveOnIs
<1>3. PICK r : r = [x \in Operands |-> NextOf(query[x], at[x])] OBVIOUS
<1>4. /\ a = [x \in Operands |-> IF x \in xs THEN r[x].cursor ELSE at[x]]
      /\ n = [x \in Operands |-> IF x \in xs THEN r[x].ref ELSE next[x]]
  BY <1>3 DEF MoveOn
<1>5. ASSUME NEW x \in xs
      PROVE  /\ a[x] = r[x].cursor /\ n[x] = r[x].ref
             /\ n[x] # End => HasIn(query[x], n[x]) > 0
             /\ operator # "and" => \A m \in Messages :
                  ToCome(query[x], at[x], next[x], m) =
                    ToCome(query[x], a[x], n[x], m) + One(m = next[x])
             /\ \A m \in Messages : next[x] < m /\ ToCome(query[x], at[x], next[x], m) > 0 =>
                  ToCome(query[x], a[x], n[x], m) > 0
  <2>1. x \in Operands /\ a[x] = r[x].cursor /\ n[x] = r[x].ref BY <1>4
  <2>2. r[x] = NextOf(query[x], at[x]) BY <1>3, <2>1
  <2>3. next[x] # End /\ next[x] \in Messages /\ query[x] \in Queries BY <1>1, <2>1
  <2>4. Plain(query[x]) BY <2>1 DEF Counted
  <2>5. OnItsWay(operator, query[x], at[x], next[x]) BY <1>1, <2>1 DEF UnderWay
  <2>6. HasIn(query[x], next[x]) > 0 BY <2>1, <2>3 DEF Members
  <2>7. PICK d : d = r[x] OBVIOUS
  <2>8. d = NextOf(query[x], at[x]) /\ a[x] = d.cursor /\ n[x] = d.ref BY <2>1, <2>2, <2>7
  <2>9. /\ d.ref # End => HasIn(query[x], d.ref) > 0
        /\ operator # "and" => \A m \in Messages :
             ToCome(query[x], at[x], next[x], m) =
               ToCome(query[x], d.cursor, d.ref, m) + One(m = next[x])
        /\ \A m \in Messages : next[x] < m /\ ToCome(query[x], at[x], next[x], m) > 0 =>
             ToCome(query[x], d.cursor, d.ref, m) > 0
    <3>1. PICK q \in Queries : q = query[x] BY <2>3
    <3>2. PICK m0 \in Messages : m0 = next[x] BY <2>3
    <3>3. PICK c : c = at[x] OBVIOUS
    <3>4. PICK op : op = operator OBVIOUS
    <3>5. /\ Plain(q) /\ OnItsWay(op, q, c, m0) /\ HasIn(q, m0) > 0 /\ d = NextOf(q, c)
      BY <2>4, <2>5, <2>6, <2>8, <3>1, <3>2, <3>3, <3>4
    <3>6. /\ d.ref # End => HasIn(q, d.ref) > 0
          /\ op # "and" => \A m \in Messages :
               ToCome(q, c, m0, m) = ToCome(q, d.cursor, d.ref, m) + One(m = m0)
          /\ \A m \in Messages : m0 < m /\ ToCome(q, c, m0, m) > 0 =>
               ToCome(q, d.cursor, d.ref, m) > 0
      BY <3>5, MoveHas
    <3>7. QED BY <3>1, <3>2, <3>3, <3>4, <3>6
  <2>10. QED BY <2>1, <2>8, <2>9
<1>6. \A x \in Operands : x \notin xs => a[x] = at[x] /\ n[x] = next[x] BY <1>2 DEF Moved
<1>7. Members(query, n) BY <1>5, <1>6 DEF Members
<1>8. ASSUME NEW x \in Operands, NEW m \in Messages
      PROVE  /\ ToCome(query[x], at[x], next[x], m) \in Nat
             /\ ToCome(query[x], a[x], n[x], m) \in Nat
             /\ operator # "and" /\ ToCome(query[x], at[x], next[x], m) > 0 =>
                  next[x] # End /\ next[x] <= m
  <2>1. OnItsWay(operator, query[x], at[x], next[x]) BY <1>1 DEF UnderWay
  <2>2. OnItsWay(operator, query[x], a[x], n[x]) /\ n[x] \in Messages \cup {End} BY <1>2 DEF Moved
  <2>3. next[x] \in Messages \cup {End} /\ query[x] \in Queries BY <1>1
  <2>4. QED BY <2>1, <2>2, <2>3, ToComeIs
<1>9. QED BY <1>5, <1>6, <1>7, <1>8

-----------------------------------------------------------------------------

LEMMA WantedIs ==
  /\ \A m : Wanted(m) = Joined(operator, HasIn(query["A"], m), HasIn(query["B"], m))
  /\ \A x \in Operands : \A m : Has(x, m) = HasIn(query[x], m)
<1>1. \A x \in Operands : \A m : Has(x, m) = HasIn(query[x], m) BY HasIs
<1>2. QED BY <1>1, OperandsAre DEF Wanted, Joined

\* What MergeExact and AndMembers say of a state that has the queries of this one.
LEMMA OutcomeIs ==
  ASSUME UNCHANGED <<operator, query>>, NEW s, out' = s,
         operator \in {"and", "or", "sub", "xor"},
         current_i' = "exhausted" /\ operator # "and" /\ Counted' /\ BothThere =>
           \A m \in Messages :
             Joined(operator, HasIn(query["A"], m), HasIn(query["B"], m)) = Times(s, m),
         operator = "and" /\ Counted' =>
           /\ Given(s) \subseteq Common(query)
           /\ current_i' = "exhausted" => Given(s) = Common(query)
  PROVE  MergeExact' /\ AndMembers'
<1>1. \A x \in Operands : \A m : Has(x, m)' = Has(x, m) BY DEF Has
<1>2. BothThere' <=> BothThere BY <1>1 DEF BothThere
<1>3. \A m : Wanted(m)' = Wanted(m) BY <1>1, OperandsAre DEF Wanted
<1>4. MergeExact' BY <1>2, <1>3, WantedIs DEF MergeExact, Whole, ExactlyWanted
<1>5. {m \in Messages : Has("A", m)' > 0 /\ Has("B", m)' > 0} = Common(query)
  BY <1>1, WantedIs, OperandsAre DEF Common
<1>6. AndMembers' BY <1>5 DEF AndMembers, Whole, Given
<1>7. QED BY <1>4, <1>6

\* A turn that the iteration goes on from.
LEMMA TallyGoesOn ==
  ASSUME UNCHANGED <<operator, query>>, operator \in {"and", "or", "sub", "xor"},
         NEW a, NEW n, NEW s, at' = a, next' = n, out' = s, current_i' \in {"call", "at"},
         Counted' => Tally(operator, query, a, n, s)
  PROVE  Fresh' /\ Tallied' /\ MergeExact' /\ AndMembers'
<1>1. Fresh' BY DEF Fresh
<1>2. Tallied' BY DEF Tallied
<1>3. operator = "and" /\ Counted' => Given(s) \subseteq Common(query) BY DEF Tally, Unlost
<1>4. current_i' # "exhausted" OBVIOUS
<1>5. MergeExact' /\ AndMembers' BY <1>3, <1>4, OutcomeIs
<1>6. QED BY <1>1, <1>2, <1>5

\* A turn that the iteration ends with.
LEMMA TallyEnds ==
  ASSUME UNCHANGED <<operator, query>>, operator \in {"and", "or", "sub", "xor"},
         NEW s, out' = s, current_i' \in {"exhausted", "raised"},
         current_i' = "exhausted" /\ operator # "and" /\ Counted' /\ BothThere =>
           \A m \in Messages :
             Joined(operator, HasIn(query["A"], m), HasIn(query["B"], m)) = Times(s, m),
         operator = "and" /\ Counted' =>
           /\ Given(s) \subseteq Common(query)
           /\ current_i' = "exhausted" => Given(s) = Common(query)
  PROVE  Fresh' /\ Tallied' /\ MergeExact' /\ AndMembers'
<1>1. Fresh' BY DEF Fresh
<1>2. Tallied' BY DEF Tallied, Going
<1>3. MergeExact' /\ AndMembers' BY OutcomeIs
<1>4. QED BY <1>1, <1>2, <1>3

LEMMA JoinedIs ==
  ASSUME NEW op \in {"or", "sub", "xor"}, NEW a \in Nat, NEW b \in Nat
  PROVE  Joined(op, a, b) \in Nat
BY DEF Joined, Most

\* What is given, k times, of what a and b times are still to come, where xs are moved on.
Taken(op, xs, k, a, b, a1, b1) ==
  /\ a = a1 + One("A" \in xs) /\ b = b1 + One("B" \in xs)
  /\ "A" \notin xs => a = 0
  /\ "B" \notin xs => b = 0
  => Joined(op, a, b) = Joined(op, a1, b1) + k

\* A turn of |, - or ^ takes a message from what the operands have still to come, and
\* gives it if that is one less.
LEMMA TallyTurn ==
  ASSUME IInv, Tallied, NEW ops, Turn(ops), "and" \notin ops,
         NEW v \in Messages, NEW k \in {0, 1},
         NEW xs \in SUBSET Operands, \A x \in xs : next[x] = v, MoveOn(xs),
         \A y \in Operands \ xs : next[y] = End \/ v < next[y],
         NEW s, out' = s, s = (IF k = 1 THEN Append(out, v) ELSE out),
         current_i' \in {"call", "at"},
         \A a, b, a1, b1 \in Nat : Taken(operator, xs, k, a, b, a1, b1)
  PROVE  Fresh' /\ Tallied' /\ MergeExact' /\ AndMembers'
<1>1. /\ Types /\ operator \in ops /\ UNCHANGED <<operator, query, again>>
      /\ out \in Seq(Messages) /\ Going
      /\ next \in [Operands -> Messages \cup {End}]
  BY TurnIs
<1>2. operator \in {"or", "sub", "xor"} /\ operator # "and" BY <1>1 DEF Types
<1>3. PICK a : a = at' OBVIOUS
<1>4. PICK n : n = next' OBVIOUS
<1>5. \A x \in xs : next[x] # End BY Numbers
<1>6. ASSUME Counted PROVE Tally(operator, query, a, n, s)
  <2>1. Members(query, next) /\ Balanced(operator, query, at, next, out)
    BY <1>1, <1>2, <1>6 DEF Tallied, Tally
  <2>2. /\ Members(query, n)
        /\ \A y \in Operands : \A m \in Messages :
              /\ ToCome(query[y], at[y], next[y], m) \in Nat
              /\ ToCome(query[y], a[y], n[y], m) \in Nat
              /\ operator # "and" /\ ToCome(query[y], at[y], next[y], m) > 0 =>
                   next[y] # End /\ next[y] <= m
              /\ IF y \in xs
                   THEN /\ operator # "and" =>
                             ToCome(query[y], at[y], next[y], m) =
                               ToCome(query[y], a[y], n[y], m) + One(m = next[y])
                        /\ next[y] < m /\ ToCome(query[y], at[y], next[y], m) > 0 =>
                             ToCome(query[y], a[y], n[y], m) > 0
                   ELSE ToCome(query[y], a[y], n[y], m) = ToCome(query[y], at[y], next[y], m)
    BY <1>3, <1>4, <1>5, <1>6, <2>1, TurnHas
  <2>3. ASSUME NEW m \in Messages
        PROVE  Joined(operator, HasIn(query["A"], m), HasIn(query["B"], m)) =
                 Times(s, m) + Joined(operator, ToCome(query["A"], a["A"], n["A"], m),
                                                ToCome(query["B"], a["B"], n["B"], m))
    <3>1. PICK w : w = [y \in Operands |-> ToCome(query[y], at[y], next[y], m)] OBVIOUS
    <3>2. PICK u : u = [y \in Operands |-> ToCome(query[y], a[y], n[y], m)] OBVIOUS
    <3>3. ASSUME NEW y \in Operands
          PROVE  /\ w[y] = ToCome(query[y], at[y], next[y], m) /\ w[y] \in Nat
                 /\ u[y] = ToCome(query[y], a[y], n[y], m) /\ u[y] \in Nat
                 /\ w[y] = u[y] + One(m = v /\ y \in xs)
                 /\ m = v /\ y \notin xs => w[y] = 0
      <4>1. w[y] = ToCome(query[y], at[y], next[y], m) /\ u[y] = ToCome(query[y], a[y], n[y], m)
        BY <3>1, <3>2
      <4>2. w[y] \in Nat /\ u[y] \in Nat BY <2>2, <4>1
      <4>3. CASE y \in xs
        <5>1. w[y] = u[y] + One(m = v) BY <1>2, <2>2, <4>1, <4>3
        <5>2. QED BY <4>1, <4>2, <4>3, <5>1 DEF One
      <4>4. CASE y \notin xs
        <5>1. w[y] = u[y] BY <2>2, <4>1, <4>4
        <5>2. m = v => w[y] = 0
          <6>1. SUFFICES ASSUME m = v, w[y] > 0 PROVE FALSE BY <4>2
          <6>2. next[y] # End /\ next[y] <= v BY <1>2, <2>2, <4>1, <6>1
          <6>3. v < next[y] /\ next[y] \in Messages BY <1>1, <4>4, <6>2
          <6>4. QED BY <6>2, <6>3, Numbers
        <5>3. QED BY <4>1, <4>2, <4>4, <5>1, <5>2 DEF One
      <4>5. QED BY <4>3, <4>4
    <3>4. PICK wa \in Nat : wa = w["A"] BY <3>3, OperandsAre
    <3>5. PICK wb \in Nat : wb = w["B"] BY <3>3, OperandsAre
    <3>6. PICK ua \in Nat : ua = u["A"] BY <3>3, OperandsAre
    <3>7. PICK ub \in Nat : ub = u["B"] BY <3>3, OperandsAre
    <3>8. Joined(operator, HasIn(query["A"], m), HasIn(query["B"], m)) =
            Times(out, m) + Joined(operator, wa, wb)
      BY <2>1, <3>3, <3>4, <3>5, OperandsAre DEF Balanced
    <3>9. Joined(operator, wa, wb) = Joined(operator, ua, ub) + (IF m = v THEN k ELSE 0)
      <4>1. CASE m = v
        <5>1. /\ wa = ua + One("A" \in xs) /\ wb = ub + One("B" \in xs)
              /\ "A" \notin xs => wa = 0
              /\ "B" \notin xs => wb = 0
          BY <3>3, <3>4, <3>5, <3>6, <3>7, <4>1, OperandsAre DEF One
        <5>2. Taken(operator, xs, k, wa, wb, ua, ub) OBVIOUS
        <5>3. QED BY <4>1, <5>1, <5>2 DEF Taken
      <4>2. CASE m # v
        <5>1. wa = ua /\ wb = ub BY <3>3, <3>4, <3>5, <3>6, <3>7, <4>2, OperandsAre DEF One
        <5>2. Joined(operator, ua, ub) \in Nat BY <1>2, JoinedIs
        <5>3. QED BY <4>2, <5>1, <5>2
      <4>3. QED BY <4>1, <4>2
    <3>10. Times(s, m) = Times(out, m) + (IF m = v THEN k ELSE 0) /\ Times(out, m) \in Nat
      BY <1>1, TimesIs DEF One
    <3>11. Joined(operator, ua, ub) \in Nat BY <1>2, JoinedIs
    <3>12. Joined(operator, HasIn(query["A"], m), HasIn(query["B"], m)) =
             Times(s, m) + Joined(operator, ua, ub)
      BY <3>8, <3>9, <3>10, <3>11
    <3>13. QED BY <3>3, <3>6, <3>7, <3>12, OperandsAre
  <2>4. Balanced(operator, query, a, n, s) BY <2>3 DEF Balanced
  <2>5. QED BY <1>2, <2>2, <2>4 DEF Tally
<1>7. Counted' => Counted BY <1>1 DEF Counted
<1>8. operator \in {"and", "or", "sub", "xor"} BY <1>2
<1>9. QED BY <1>1, <1>3, <1>4, <1>6, <1>7, <1>8, TallyGoesOn

LEMMA TallyYieldLesser ==
  ASSUME IInv, Tallied, NEW x \in Operands, YieldLesser(x)
  PROVE  Fresh' /\ Tallied' /\ MergeExact' /\ AndMembers'
<1>1. PICK ops : ops = IF x = "A" THEN {"or", "xor", "sub"} ELSE {"or", "xor"} OBVIOUS
<1>2. Turn(ops) /\ Lesser(x) /\ Yield(x) /\ MoveOn({x}) BY <1>1 DEF YieldLesser
<1>3. operator \in ops /\ next \in [Operands -> Messages \cup {End}] BY <1>2, TurnIs
<1>4. "and" \notin ops BY <1>1
<1>5. next[x] # End /\ (next[Other(x)] = End \/ next[x] < next[Other(x)])
  BY <1>2 DEF Lesser, Stopped
<1>6. PICK v \in Messages : v = next[x] BY <1>3, <1>5
<1>7. PICK s : s = Append(out, v) OBVIOUS
<1>8. out' = s /\ current_i' \in {"call", "at"} BY <1>2, <1>6, <1>7 DEF Yield
<1>9. \A y \in Operands \ {x} : next[y] = End \/ v < next[y] BY <1>5, <1>6, OperandsAre
<1>10. \A a, b, a1, b1 \in Nat : Taken(operator, {x}, 1, a, b, a1, b1)
  <2>1. SUFFICES ASSUME NEW a \in Nat, NEW b \in Nat, NEW a1 \in Nat, NEW b1 \in Nat
        PROVE  Taken(operator, {x}, 1, a, b, a1, b1)
    OBVIOUS
  <2>2. PICK op : op = operator OBVIOUS
  <2>3. CASE x = "A"
    <3>1. op \in {"or", "xor", "sub"} BY <1>1, <1>3, <2>2, <2>3
    <3>2. a = a1 + 1 /\ b = b1 /\ b = 0 => Joined(op, a, b) = Joined(op, a1, b1) + 1
      BY <3>1 DEF Joined, Most
    <3>3. QED BY <2>2, <2>3, <3>2 DEF Taken, One
  <2>4. CASE x = "B"
    <3>1. op \in {"or", "xor"} BY <1>1, <1>3, <2>2, <2>4
    <3>2. b = b1 + 1 /\ a = a1 /\ a = 0 => Joined(op, a, b) = Joined(op, a1, b1) + 1
      BY <3>1 DEF Joined, Most
    <3>3. QED BY <2>2, <2>4, <3>2 DEF Taken, One
  <2>5. QED BY <2>3, <2>4 DEF Operands
<1>11. PICK k \in {0, 1} : k = 1 OBVIOUS
<1>12. PICK xs \in SUBSET Operands : xs = {x} OBVIOUS
<1>13. /\ \A y \in xs : next[y] = v
       /\ MoveOn(xs)
       /\ \A y \in Operands \ xs : next[y] = End \/ v < next[y]
       /\ s = (IF k = 1 THEN Append(out, v) ELSE out)
       /\ \A a, b, a1, b1 \in Nat : Taken(operator, xs, k, a, b, a1, b1)
  BY <1>2, <1>6, <1>7, <1>9, <1>10, <1>11, <1>12
<1>14. QED BY <1>2, <1>4, <1>8, <1>13, TallyTurn

LEMMA TallySkipLesser ==
  ASSUME IInv, Tallied, SkipLesser
  PROVE  Fresh' /\ Tallied' /\ MergeExact' /\ AndMembers'
<1>1. Turn({"sub"}) /\ Lesser("B") /\ ~Stopped("A") /\ Skip /\ MoveOn({"B"})
  BY DEF SkipLesser
<1>2. operator = "sub" /\ current_i = "call" /\ next \in [Operands -> Messages \cup {End}]
  BY <1>1, TurnIs
<1>3. "and" \notin {"sub"} OBVIOUS
<1>4. next["B"] # End /\ next["B"] < next["A"] BY <1>1, OperandsAre DEF Lesser, Stopped
<1>5. PICK v \in Messages : v = next["B"] BY <1>2, <1>4, OperandsAre
<1>6. PICK s : s = out OBVIOUS
<1>7. out' = s /\ current_i' \in {"call", "at"} BY <1>1, <1>2, <1>6 DEF Skip
<1>8. PICK k \in {0, 1} : k = 0 OBVIOUS
<1>9. PICK xs \in SUBSET Operands : xs = {"B"}
  <2>1. {"B"} \subseteq Operands BY OperandsAre
  <2>2. QED BY <2>1
<1>10. \A a, b, a1, b1 \in Nat : Taken(operator, xs, k, a, b, a1, b1)
  <2>1. SUFFICES ASSUME NEW a \in Nat, NEW b \in Nat, NEW a1 \in Nat, NEW b1 \in Nat
        PROVE  Taken(operator, xs, k, a, b, a1, b1)
    OBVIOUS
  <2>2. a = a1 /\ a = 0 => Joined("sub", a, b) = Joined("sub", a1, b1) + 0 BY DEF Joined, Most
  <2>3. QED BY <1>2, <1>8, <1>9, <2>2 DEF Taken, One
<1>11. /\ \A y \in xs : next[y] = v
       /\ MoveOn(xs)
       /\ \A y \in Operands \ xs : next[y] = End \/ v < next[y]
       /\ s = (IF k = 1 THEN Append(out, v) ELSE out)
  BY <1>1, <1>4, <1>5, <1>6, <1>8, <1>9 DEF Operands
<1>12. QED BY <1>1, <1>3, <1>7, <1>10, <1>11, TallyTurn

\* Of both, | gives one and - and ^ none.
LEMMA TallyBoth ==
  ASSUME IInv, Tallied, operator # "and", YieldBoth \/ SkipBoth
  PROVE  Fresh' /\ Tallied' /\ MergeExact' /\ AndMembers'
<1>1. PICK k \in {0, 1} : (k = 1 /\ YieldBoth) \/ (k = 0 /\ SkipBoth) OBVIOUS
<1>2. PICK ops : ops = IF k = 1 THEN {"and", "or"} ELSE {"sub", "xor"} OBVIOUS
<1>3. Turn(ops) /\ Both /\ MoveOn(Operands) BY <1>1, <1>2 DEF YieldBoth, SkipBoth, Matched
<1>4. operator \in ops /\ current_i = "call" /\ next \in [Operands -> Messages \cup {End}]
  BY <1>3, TurnIs
<1>5. PICK mine : mine = ops \ {"and"} OBVIOUS
<1>6. Turn(mine) /\ "and" \notin mine BY <1>3, <1>4, <1>5 DEF Turn
<1>7. next["A"] # End /\ next["A"] = next["B"] BY <1>3 DEF Both, Stopped
<1>8. PICK v \in Messages : v = next["A"] BY <1>4, <1>7, OperandsAre
<1>9. PICK s : s = IF k = 1 THEN Append(out, v) ELSE out OBVIOUS
<1>10. out' = s /\ current_i' \in {"call", "at"}
  BY <1>1, <1>4, <1>8, <1>9 DEF YieldBoth, SkipBoth, Yield, Skip
<1>11. PICK xs \in SUBSET Operands : xs = Operands OBVIOUS
<1>12. \A a, b, a1, b1 \in Nat : Taken(operator, xs, k, a, b, a1, b1)
  <2>1. SUFFICES ASSUME NEW a \in Nat, NEW b \in Nat, NEW a1 \in Nat, NEW b1 \in Nat
        PROVE  Taken(operator, xs, k, a, b, a1, b1)
    OBVIOUS
  <2>2. PICK op : op = operator OBVIOUS
  <2>3. (k = 1 /\ op = "or") \/ (k = 0 /\ op \in {"sub", "xor"}) BY <1>2, <1>4, <2>2
  <2>4. a = a1 + 1 /\ b = b1 + 1 => Joined(op, a, b) = Joined(op, a1, b1) + k
    <3>1. CASE op = "or" BY <2>3, <3>1 DEF Joined, Most
    <3>2. CASE op = "sub" BY <2>3, <3>2 DEF Joined, Most
    <3>3. CASE op = "xor" BY <2>3, <3>3 DEF Joined, Most
    <3>4. QED BY <2>3, <3>1, <3>2, <3>3
  <2>5. "A" \in xs /\ "B" \in xs BY <1>11, OperandsAre
  <2>6. QED BY <2>2, <2>4, <2>5 DEF Taken, One
<1>13. /\ \A y \in xs : next[y] = v
       /\ MoveOn(xs)
       /\ \A y \in Operands \ xs : next[y] = End \/ v < next[y]
  BY <1>3, <1>7, <1>8, <1>11 DEF Operands
<1>14. QED BY <1>6, <1>9, <1>10, <1>12, <1>13, TallyTurn

LEMMA GivenAppend ==
  ASSUME NEW s \in Seq(Messages), NEW v \in Messages
  PROVE  Given(Append(s, v)) = Given(s) \cup {v}
<1>1. /\ Len(Append(s, v)) = Len(s) + 1
      /\ Append(s, v)[Len(s) + 1] = v
      /\ \A i \in 1 .. Len(s) : Append(s, v)[i] = s[i]
  BY AppendIs
<1>2. Len(s) \in Nat OBVIOUS
<1>3. \A j : j \in 1 .. Len(s) + 1 <=> j \in 1 .. Len(s) \/ j = Len(s) + 1 BY <1>2
<1>4. QED BY <1>1, <1>3 DEF Given

\* What both operands have still to come is not before what either has next.
LEMMA AndBefore ==
  ASSUME IInv, current_i = "call", operator = "and", AllPlain,
         \A x \in Operands : next[x] # End,
         NEW m \in Messages, \A x \in Operands : ToCome(query[x], at[x], next[x], m) > 0
  PROVE  \A x \in Operands : next[x] <= m
<1>1. Types /\ UnderWay /\ BehindOut /\ Going BY DEF IInv, Going
<1>2. next \in [Operands -> Messages \cup {End}] BY <1>1 DEF Types
<1>3. InFront(operator, query, at, next, out) BY <1>1 DEF BehindOut
<1>4. ASSUME NEW x \in Operands PROVE m \in Ahead(query[x], at[x])
  <2>1. OnItsWay(operator, query[x], at[x], next[x]) BY <1>1 DEF UnderWay
  <2>2. query[x] \in Queries BY <1>1 DEF Types
  <2>3. QED BY <1>2, <2>1, <2>2, ToComeIs
<1>5. m \in Ahead(query["A"], at["A"]) \cap Ahead(query["B"], at["B"]) BY <1>4, OperandsAre
<1>6. QED BY <1>3, <1>5 DEF InFront

LEMMA TallyYieldBoth ==
  ASSUME IInv, Tallied, operator = "and", YieldBoth
  PROVE  Fresh' /\ Tallied' /\ MergeExact' /\ AndMembers'
<1>1. Turn({"and", "or"}) /\ Both /\ Yield("A") /\ MoveOn(Operands) BY DEF YieldBoth, Matched
<1>2. /\ current_i = "call" /\ Going /\ UNCHANGED <<operator, query, again>>
      /\ out \in Seq(Messages) /\ next \in [Operands -> Messages \cup {End}]
  BY <1>1, TurnIs
<1>3. next["A"] # End /\ next["A"] = next["B"] BY <1>1 DEF Both, Stopped
<1>4. PICK v \in Messages : v = next["A"] BY <1>2, <1>3, OperandsAre
<1>5. \A x \in Operands : next[x] = v /\ next[x] # End BY <1>3, <1>4 DEF Operands
<1>6. PICK a : a = at' OBVIOUS
<1>7. PICK n : n = next' OBVIOUS
<1>8. PICK s : s = Append(out, v) OBVIOUS
<1>9. out' = s /\ current_i' \in {"call", "at"} BY <1>1, <1>4, <1>8 DEF Yield
<1>10. ASSUME Counted PROVE Tally(operator, query, a, n, s)
  <2>1. Members(query, next) /\ Unlost(query, at, next, out) BY <1>2, <1>10 DEF Tallied, Tally
  <2>2. PICK xs \in SUBSET Operands : xs = Operands OBVIOUS
  <2>3. (\A x \in xs : next[x] # End) /\ MoveOn(xs) BY <1>1, <1>5, <2>2
  <2>4. /\ Members(query, n)
        /\ \A y \in Operands : \A m \in Messages :
              /\ ToCome(query[y], at[y], next[y], m) \in Nat
              /\ ToCome(query[y], a[y], n[y], m) \in Nat
              /\ operator # "and" /\ ToCome(query[y], at[y], next[y], m) > 0 =>
                   next[y] # End /\ next[y] <= m
              /\ IF y \in xs
                   THEN /\ operator # "and" =>
                             ToCome(query[y], at[y], next[y], m) =
                               ToCome(query[y], a[y], n[y], m) + One(m = next[y])
                        /\ next[y] < m /\ ToCome(query[y], at[y], next[y], m) > 0 =>
                             ToCome(query[y], a[y], n[y], m) > 0
                   ELSE ToCome(query[y], a[y], n[y], m) = ToCome(query[y], at[y], next[y], m)
    BY <1>1, <1>6, <1>7, <1>10, <2>1, <2>3, TurnHas
  <2>5. Given(s) = Given(out) \cup {v} BY <1>2, <1>8, GivenAppend
  <2>6. v \in Common(query) BY <1>5, <2>1, OperandsAre DEF Members, Common
  <2>7. Given(s) \subseteq Common(query) BY <2>1, <2>5, <2>6 DEF Unlost
  <2>8. ASSUME NEW m \in Common(query) \ Given(s), NEW x \in Operands
        PROVE  ToCome(query[x], a[x], n[x], m) > 0
    <3>1. m \in Messages /\ m # v BY <2>5, <2>8 DEF Common
    <3>2. \A y \in Operands : ToCome(query[y], at[y], next[y], m) > 0
      BY <2>1, <2>5, <2>8 DEF Unlost
    <3>3. AllPlain BY <1>10 DEF Counted, AllPlain
    <3>4. next[x] <= m BY <1>2, <1>5, <3>1, <3>2, <3>3, AndBefore
    <3>5. next[x] < m BY <1>5, <3>1, <3>4, Numbers
    <3>6. QED BY <2>2, <2>4, <3>1, <3>2, <3>5
  <2>9. Unlost(query, a, n, s) BY <2>7, <2>8 DEF Unlost
  <2>10. QED BY <2>4, <2>9 DEF Tally
<1>11. Counted' => Counted BY <1>2 DEF Counted
<1>12. QED BY <1>2, <1>6, <1>7, <1>9, <1>10, <1>11, TallyGoesOn

LEMMA TallyJump ==
  ASSUME IInv, Tallied, NEW x \in Operands, Jump(x)
  PROVE  Fresh' /\ Tallied' /\ MergeExact' /\ AndMembers'
<1>1. PICK id : id = next[Other(x)] OBVIOUS
<1>2. PICK found : found = GeOf(query[x], at[x], id) OBVIOUS
<1>3. /\ Turn({"and"}) /\ Lesser(x) /\ ~Stopped(Other(x))
      /\ at' = [at EXCEPT ![x] = found.cursor]
      /\ IF found.ref \in Messages
           THEN next' = [next EXCEPT ![x] = found.ref] /\ Skip
           ELSE /\ current_i' = IF found.ref = End THEN "exhausted" ELSE "raised"
                /\ UNCHANGED <<next, out>>
  BY <1>1, <1>2 DEF Jump, Target
<1>4. /\ Types /\ UnderWay /\ current_i = "call" /\ Going /\ operator = "and"
      /\ UNCHANGED <<operator, query, again>>
      /\ \A y \in Operands : query[y] \in Queries
      /\ at \in [Operands -> Cursor]
      /\ next \in [Operands -> Messages \cup {End}]
  BY <1>3, TurnIs
<1>5. next[x] # End /\ id # End /\ next[x] < id BY <1>1, <1>3 DEF Lesser, Stopped
<1>6. next[x] \in Messages /\ id \in Messages BY <1>1, <1>4, <1>5, OperandsAre
<1>7. \A y \in Operands : next[y] # End BY <1>1, <1>5, OperandsAre
<1>8. PICK q \in Queries : q = query[x] BY <1>4
<1>9. PICK c : c = at[x] OBVIOUS
<1>10. OnItsWay(operator, q, c, next[x]) BY <1>4, <1>8, <1>9 DEF UnderWay
<1>11. Good(q, c) /\ (q.kind # "key" => next[x] = c.msg)
  BY <1>4, <1>5, <1>10 DEF OnItsWay, Ref
<1>12. found = GeOf(q, c, id) BY <1>2, <1>8, <1>9
<1>13. PICK a : a = at' OBVIOUS
<1>14. a[x] = found.cursor /\ a[Other(x)] = at[Other(x)] BY <1>3, <1>4, <1>13, OperandsAre
<1>15. ASSUME Counted
       PROVE  /\ Members(query, next) /\ Unlost(query, at, next, out)
              /\ found.ref \in Messages => HasIn(q, found.ref) > 0
              /\ \A m \in Common(query) \ Given(out) :
                   /\ m \in Messages
                   /\ \A y \in Operands : ToCome(query[y], at[y], next[y], m) > 0
                   /\ found.ref # End
                   /\ found.ref \in Messages => Left(q, found.cursor, m) > 0
  <2>1. Members(query, next) /\ Unlost(query, at, next, out) BY <1>4, <1>15 DEF Tallied, Tally
  <2>2. AllPlain /\ Plain(q) BY <1>8, <1>15 DEF Counted, AllPlain
  <2>3. q.kind # "key" => HasIn(q, c.msg) > 0 /\ c.msg <= id
    <3>1. HasIn(q, next[x]) > 0 BY <1>5, <1>8, <2>1 DEF Members
    <3>2. QED BY <1>5, <1>6, <1>11, <3>1, Numbers
  <2>4. /\ found.ref \in Messages => HasIn(q, found.ref) > 0
        /\ \A m \in Messages : id <= m /\ Left(q, c, m) > 0 =>
             found.ref # End /\ (found.ref \in Messages => Left(q, found.cursor, m) > 0)
    BY <1>6, <1>11, <1>12, <2>2, <2>3, GeHas
  <2>5. ASSUME NEW m \in Common(query) \ Given(out)
        PROVE  /\ m \in Messages
               /\ \A y \in Operands : ToCome(query[y], at[y], next[y], m) > 0
               /\ id <= m /\ Left(q, c, m) > 0
    <3>1. m \in Messages BY <2>5 DEF Common
    <3>2. \A y \in Operands : ToCome(query[y], at[y], next[y], m) > 0 BY <2>1, <2>5 DEF Unlost
    <3>3. \A y \in Operands : next[y] <= m BY <1>4, <1>7, <2>2, <3>1, <3>2, AndBefore
    <3>4. id <= m BY <1>1, <3>3, OperandsAre
    <3>5. Left(q, c, m) > 0 BY <1>5, <1>8, <1>9, <3>2 DEF ToCome
    <3>6. QED BY <3>1, <3>2, <3>4, <3>5
  <2>6. QED BY <2>1, <2>4, <2>5
<1>16. Counted' => Counted BY <1>4 DEF Counted
<1>17. operator \in {"and", "or", "sub", "xor"} BY <1>4
<1>18. CASE found.ref \notin Messages
  <2>1. PICK s : s = out OBVIOUS
  <2>2. /\ out' = s /\ current_i' = IF found.ref = End THEN "exhausted" ELSE "raised"
    BY <1>3, <1>18, <2>1
  <2>3. ASSUME Counted
        PROVE  /\ Given(s) \subseteq Common(query)
               /\ current_i' = "exhausted" => Given(s) = Common(query)
    <3>1. Given(s) \subseteq Common(query) BY <1>15, <2>1, <2>3 DEF Unlost
    <3>2. found.ref = End => Common(query) \subseteq Given(s) BY <1>15, <2>1, <2>3
    <3>3. QED BY <2>2, <3>1, <3>2
  <2>4. operator = "and" /\ Counted' =>
          /\ Given(s) \subseteq Common(query)
          /\ current_i' = "exhausted" => Given(s) = Common(query)
    BY <1>16, <2>3
  <2>5. current_i' \in {"exhausted", "raised"} BY <2>2
  <2>6. QED BY <1>4, <1>17, <2>2, <2>4, <2>5, TallyEnds
<1>19. CASE found.ref \in Messages
  <2>1. PICK n : n = next' OBVIOUS
  <2>2. PICK s : s = out OBVIOUS
  <2>3. /\ n[x] = found.ref /\ n[Other(x)] = next[Other(x)]
        /\ out' = s /\ current_i' \in {"call", "at"}
    BY <1>3, <1>4, <1>19, <2>1, <2>2, OperandsAre DEF Skip
  <2>4. ASSUME Counted PROVE Tally(operator, query, a, n, s)
    <3>1. Members(query, n) BY <1>8, <1>15, <1>19, <2>3, <2>4, OperandsAre DEF Members
    <3>2. ASSUME NEW m \in Common(query) \ Given(s), NEW y \in Operands
          PROVE  ToCome(query[y], a[y], n[y], m) > 0
      <4>1. /\ m \in Messages /\ ToCome(query[y], at[y], next[y], m) > 0
            /\ Left(q, found.cursor, m) > 0
        BY <1>15, <1>19, <2>2, <2>4, <3>2
      <4>2. CASE y = x
        <5>1. n[x] # End BY <1>19, <2>3, Numbers
        <5>2. QED BY <1>8, <1>14, <4>1, <4>2, <5>1 DEF ToCome
      <4>3. CASE y = Other(x) BY <1>14, <2>3, <4>1, <4>3
      <4>4. QED BY <4>2, <4>3, OperandsAre
    <3>3. Unlost(query, a, n, s) BY <1>15, <2>2, <2>4, <3>2 DEF Unlost
    <3>4. QED BY <1>4, <3>1, <3>3 DEF Tally
  <2>5. QED BY <1>4, <1>13, <1>16, <1>17, <2>1, <2>3, <2>4, TallyGoesOn
<1>20. QED BY <1>18, <1>19

LEMMA TallyExhaust ==
  ASSUME IInv, Tallied, Exhaust
  PROVE  Fresh' /\ Tallied' /\ MergeExact' /\ AndMembers'
<1>1. PICK ops : Turn(ops) BY DEF Exhaust
<1>2. /\ Types /\ current_i = "call" /\ Going /\ UNCHANGED <<operator, query, again>>
      /\ UnderWay /\ next \in [Operands -> Messages \cup {End}] /\ out \in Seq(Messages)
  BY <1>1, TurnIs
<1>3. current_i' = "exhausted" /\ UNCHANGED out BY DEF Exhaust
<1>4. \/ operator = "and" /\ \E x \in Operands : next[x] = End
      \/ operator \in {"or", "xor"} /\ \A x \in Operands : next[x] = End
      \/ operator = "sub" /\ next["A"] = End
  BY DEF Exhaust, Turn, Stopped
<1>5. PICK s : s = out OBVIOUS
<1>6. Counted' => Counted BY <1>2 DEF Counted
<1>7. ASSUME Counted, operator # "and", NEW m \in Messages
      PROVE  Joined(operator, HasIn(query["A"], m), HasIn(query["B"], m)) = Times(s, m)
  <2>1. Balanced(operator, query, at, next, out) BY <1>2, <1>7 DEF Tallied, Tally
  <2>2. PICK a \in Nat : a = ToCome(query["A"], at["A"], next["A"], m)
    <3>1. OnItsWay(operator, query["A"], at["A"], next["A"]) BY <1>2, OperandsAre DEF UnderWay
    <3>2. query["A"] \in Queries /\ next["A"] \in Messages \cup {End} BY <1>2, OperandsAre DEF Types
    <3>3. QED BY <3>1, <3>2, ToComeIs
  <2>3. PICK b \in Nat : b = ToCome(query["B"], at["B"], next["B"], m)
    <3>1. OnItsWay(operator, query["B"], at["B"], next["B"]) BY <1>2, OperandsAre DEF UnderWay
    <3>2. query["B"] \in Queries /\ next["B"] \in Messages \cup {End} BY <1>2, OperandsAre DEF Types
    <3>3. QED BY <3>1, <3>2, ToComeIs
  <2>4. Joined(operator, HasIn(query["A"], m), HasIn(query["B"], m)) =
          Times(s, m) + Joined(operator, a, b)
    BY <1>5, <2>1, <2>2, <2>3 DEF Balanced
  <2>5. Joined(operator, a, b) = 0
    <3>1. next["A"] = End => a = 0 BY <2>2 DEF ToCome
    <3>2. next["B"] = End => b = 0 BY <2>3 DEF ToCome
    <3>3. CASE operator = "or" BY <1>4, <3>1, <3>2, <3>3, OperandsAre DEF Joined, Most
    <3>4. CASE operator = "xor" BY <1>4, <3>1, <3>2, <3>4, OperandsAre DEF Joined, Most
    <3>5. CASE operator = "sub" BY <1>4, <3>1, <3>5, OperandsAre DEF Joined, Most
    <3>6. QED BY <1>4, <1>7, <3>3, <3>4, <3>5
  <2>6. Times(s, m) \in Nat BY <1>2, <1>5, TimesIs
  <2>7. QED BY <2>4, <2>5, <2>6
<1>8. ASSUME Counted, operator = "and" PROVE Given(s) = Common(query)
  <2>1. Unlost(query, at, next, out) BY <1>2, <1>8 DEF Tallied, Tally
  <2>2. PICK x \in Operands : next[x] = End BY <1>4, <1>8
  <2>3. \A m : ~(ToCome(query[x], at[x], next[x], m) > 0) BY <2>2 DEF ToCome
  <2>4. QED BY <1>5, <2>1, <2>3 DEF Unlost
<1>9. out' = s /\ current_i' \in {"exhausted", "raised"} BY <1>3, <1>5
<1>10. operator \in {"and", "or", "sub", "xor"} BY <1>2 DEF Types
<1>11. QED BY <1>2, <1>6, <1>7, <1>8, <1>9, <1>10, TallyEnds

LEMMA TallyGetFirst ==
  ASSUME IInv, Fresh, GetFirst
  PROVE  Fresh' /\ Tallied' /\ MergeExact' /\ AndMembers'
<1>1. Types /\ Cursors BY DEF IInv
<1>2. at \in [Operands -> Cursor] /\ query \in [Operands -> Queries] BY <1>1 DEF Types
<1>3. PICK first : first = [x \in Operands |-> FirstOf(query[x], at[x])] OBVIOUS
<1>4. PICK taken : taken = IF first["A"].ref = End THEN {"A"} ELSE Operands OBVIOUS
<1>5. PICK reached : reached = {x \in taken : first[x].ref # End} OBVIOUS
<1>6. /\ at' = [x \in Operands |-> IF x \in taken THEN first[x].cursor ELSE at[x]]
      /\ next' = [x \in Operands |-> IF x \in reached THEN first[x].ref ELSE next[x]]
      /\ current_i' = IF reached # Operands THEN "exhausted"
                      ELSE IF \E x \in Operands : first[x].ref = NoMsg THEN "raised" ELSE "call"
      /\ again' = (current_i # "new") /\ out' = <<>> /\ UNCHANGED <<operator, query>>
  BY <1>3, <1>4, <1>5 DEF GetFirst
<1>7. PICK s : s = <<>> OBVIOUS
<1>8. out' = s /\ Given(s) = {} /\ s \in Seq(Messages) BY <1>6, <1>7 DEF Given
<1>9. operator \in {"and", "or", "sub", "xor"} BY <1>1 DEF Types
<1>10. ASSUME NEW x \in Operands, Counted'
       PROVE  /\ first[x].ref # End <=> \E m \in Messages : HasIn(query[x], m) > 0
              /\ first[x].ref # End =>
                   /\ first[x].ref \in Messages /\ HasIn(query[x], first[x].ref) > 0
                   /\ \A m \in Messages : Left(query[x], first[x].cursor, m) = HasIn(query[x], m)
  <2>1. PICK q \in Queries : q = query[x] BY <1>2
  <2>2. PICK c : c = at[x] OBVIOUS
  <2>3. PICK r : r = first[x] OBVIOUS
  <2>4. Sound(q, c) /\ r = FirstOf(q, c) BY <1>1, <1>3, <2>1, <2>2, <2>3 DEF Cursors
  <2>5. Plain(q) /\ (q.kind = "filter" => ~again') BY <1>6, <1>10, <2>1 DEF Counted
  <2>6. q.kind = "filter" => Reset(c)
    <3>1. SUFFICES ASSUME q.kind = "filter" PROVE Reset(c) OBVIOUS
    <3>2. current_i = "new" BY <1>6, <2>5, <3>1
    <3>3. c = NotBegun BY <2>2, <3>2 DEF Fresh
    <3>4. QED BY <3>3 DEF NotBegun, Reset
  <2>7. /\ Here(q) <=> \E m \in Messages : HasIn(q, m) > 0
        /\ r.ref # End => /\ r.ref \in Messages /\ Good(q, r.cursor) /\ HasIn(q, r.ref) > 0
                          /\ \A m \in Messages : Left(q, r.cursor, m) = HasIn(q, m)
    BY <2>4, <2>5, <2>6, FirstHas
  <2>8. r.ref # End <=> Here(q) BY <2>4, FirstIs
  <2>9. QED BY <2>1, <2>3, <2>7, <2>8
<1>11. CASE reached # Operands
  <2>1. current_i' = "exhausted" BY <1>6, <1>11
  <2>2. \E x \in Operands : first[x].ref = End BY <1>4, <1>5, <1>11, OperandsAre
  <2>3. PICK x \in Operands : first[x].ref = End BY <2>2
  <2>4. ASSUME Counted' PROVE \A m \in Messages : ~(HasIn(query[x], m) > 0) BY <1>10, <2>3, <2>4
  <2>5. Counted' => ~BothThere BY <2>4, WantedIs DEF BothThere
  <2>6. Counted' => Common(query) = {} BY <2>4, OperandsAre DEF Common
  <2>7. current_i' \in {"exhausted", "raised"} BY <2>1
  <2>8. QED BY <1>6, <1>8, <1>9, <2>5, <2>6, <2>7, TallyEnds
<1>12. CASE reached = Operands
  <2>1. taken = Operands /\ \A x \in Operands : first[x].ref # End BY <1>4, <1>5, <1>12, OperandsAre
  <2>2. PICK a : a = [x \in Operands |-> first[x].cursor] OBVIOUS
  <2>3. PICK n : n = [x \in Operands |-> first[x].ref] OBVIOUS
  <2>4. at' = a /\ next' = n BY <1>6, <1>12, <2>1, <2>2, <2>3
  <2>5. CASE \E x \in Operands : first[x].ref = NoMsg
    <3>1. current_i' = "raised" BY <1>6, <1>12, <2>5
    <3>2. current_i' \in {"exhausted", "raised"} /\ current_i' # "exhausted" BY <3>1
    <3>3. QED BY <1>6, <1>8, <1>9, <3>2, TallyEnds
  <2>6. CASE ~\E x \in Operands : first[x].ref = NoMsg
    <3>1. current_i' \in {"call", "at"} BY <1>6, <1>12, <2>6
    <3>2. ASSUME Counted' PROVE Tally(operator, query, a, n, s)
      <4>1. ASSUME NEW x \in Operands
            PROVE  /\ n[x] # End /\ HasIn(query[x], n[x]) > 0
                   /\ \A m \in Messages : ToCome(query[x], a[x], n[x], m) = HasIn(query[x], m)
        <5>1. a[x] = first[x].cursor /\ n[x] = first[x].ref /\ n[x] # End BY <2>1, <2>2, <2>3
        <5>2. QED BY <1>10, <3>2, <5>1 DEF ToCome
      <4>2. Members(query, n) BY <4>1 DEF Members
      <4>3. ASSUME operator # "and" PROVE Balanced(operator, query, a, n, s)
        <5>1. ASSUME NEW m \in Messages
              PROVE  Joined(operator, HasIn(query["A"], m), HasIn(query["B"], m)) =
                       Times(s, m) + Joined(operator, ToCome(query["A"], a["A"], n["A"], m),
                                                      ToCome(query["B"], a["B"], n["B"], m))
          <6>1. PICK i \in Nat : i = HasIn(query["A"], m) BY <1>2, HasIs, OperandsAre
          <6>2. PICK j \in Nat : j = HasIn(query["B"], m) BY <1>2, HasIs, OperandsAre
          <6>3. /\ ToCome(query["A"], a["A"], n["A"], m) = i
                /\ ToCome(query["B"], a["B"], n["B"], m) = j
            BY <4>1, <6>1, <6>2, OperandsAre
          <6>4. Times(s, m) = 0 BY <1>7, <1>8, TimesIs
          <6>5. operator \in {"or", "sub", "xor"} BY <1>9, <4>3
          <6>6. Joined(operator, i, j) \in Nat BY <6>5, JoinedIs
          <6>7. QED BY <6>1, <6>2, <6>3, <6>4, <6>6
        <5>2. QED BY <5>1 DEF Balanced
      <4>4. Unlost(query, a, n, s)
        <5>1. ASSUME NEW m \in Common(query), NEW x \in Operands
              PROVE  ToCome(query[x], a[x], n[x], m) > 0
          <6>1. m \in Messages /\ HasIn(query[x], m) > 0 BY <5>1 DEF Common, Operands
          <6>2. QED BY <4>1, <6>1
        <5>2. QED BY <1>8, <5>1 DEF Unlost
      <4>5. QED BY <4>2, <4>3, <4>4 DEF Tally
    <3>3. QED BY <1>6, <1>8, <1>9, <2>4, <3>1, <3>2, TallyGoesOn
  <2>7. QED BY <2>5, <2>6
<1>13. QED BY <1>11, <1>12

LEMMA TallyNextCall ==
  ASSUME IInv, Tallied, NextCall
  PROVE  Fresh' /\ Tallied' /\ MergeExact' /\ AndMembers'
<1>1. /\ Types /\ Going /\ current_i' = "call" /\ UNCHANGED <<operator, query, at, next, again, out>>
  BY DEF IInv, NextCall, Going
<1>2. Counted' => Counted BY <1>1 DEF Counted
<1>3. Counted' => Tally(operator, query, at, next, out) BY <1>1, <1>2 DEF Tallied
<1>4. operator \in {"and", "or", "sub", "xor"} BY <1>1 DEF Types
<1>5. current_i' \in {"call", "at"} BY <1>1
<1>6. QED BY <1>1, <1>3, <1>4, <1>5, TallyGoesOn

LEMMA HInvInit == Init => HInv
<1>1. SUFFICES ASSUME Init PROVE HInv OBVIOUS
<1>2. /\ query \in [Operands -> Queries] /\ at = [x \in Operands |-> NotBegun]
      /\ current_i = "new" /\ again = FALSE /\ out = <<>>
  BY <1>1 DEF Init
<1>3. IInv BY <1>1, IInvInit
<1>4. Fresh BY <1>2 DEF Fresh
<1>5. Tallied BY <1>2 DEF Tallied, Going
<1>6. MergeExact BY <1>2 DEF MergeExact, Whole
<1>7. AndMembers
  <2>1. {out[i] : i \in 1 .. Len(out)} = {} BY <1>2
  <2>2. QED BY <1>2, <2>1 DEF AndMembers, Whole
<1>8. QED BY <1>3, <1>4, <1>5, <1>6, <1>7 DEF HInv

LEMMA HInvStep == ASSUME HInv, [Next]_vars PROVE HInv'
<1>1. IInv /\ Fresh /\ Tallied /\ MergeExact /\ AndMembers BY DEF HInv
<1>2. IInv' BY <1>1, IInvStep
<1>3. CASE GetFirst BY <1>1, <1>2, <1>3, TallyGetFirst DEF HInv
<1>4. CASE NextCall BY <1>1, <1>2, <1>4, TallyNextCall DEF HInv
<1>5. CASE \E x \in Operands : YieldLesser(x) BY <1>1, <1>2, <1>5, TallyYieldLesser DEF HInv
<1>6. CASE \E x \in Operands : Jump(x) BY <1>1, <1>2, <1>6, TallyJump DEF HInv
<1>7. CASE SkipLesser BY <1>1, <1>2, <1>7, TallySkipLesser DEF HInv
<1>8. CASE YieldBoth \/ SkipBoth
  <2>1. operator = "and" => YieldBoth
    <3>1. SkipBoth => operator \in {"sub", "xor"} BY DEF SkipBoth, Turn
    <3>2. QED BY <1>8, <3>1
  <2>2. CASE operator = "and" BY <1>1, <1>2, <2>1, <2>2, TallyYieldBoth DEF HInv
  <2>3. CASE operator # "and" BY <1>1, <1>2, <1>8, <2>3, TallyBoth DEF HInv
  <2>4. QED BY <2>2, <2>3
<1>9. CASE Exhaust BY <1>1, <1>2, <1>9, TallyExhaust DEF HInv
<1>10. CASE UNCHANGED vars
  <2>1. UNCHANGED <<operator, query, at, next, current_i, again, out>> BY <1>10 DEF vars
  <2>2. Fresh' BY <1>1, <2>1 DEF Fresh
  <2>3. Counted' <=> Counted BY <2>1 DEF Counted
  <2>4. Tallied' BY <1>1, <2>1, <2>3 DEF Tallied, Going
  <2>5. \A x, m : Has(x, m)' = Has(x, m) BY <2>1 DEF Has
  <2>6. MergeExact'
    <3>1. \A m : Wanted(m)' = Wanted(m) BY <2>1, <2>5 DEF Wanted
    <3>2. QED BY <1>1, <2>1, <2>3, <2>5, <3>1 DEF MergeExact, Whole, BothThere, ExactlyWanted
  <2>7. AndMembers' BY <1>1, <2>1, <2>3, <2>5 DEF AndMembers, Whole
  <2>8. QED BY <1>2, <2>2, <2>4, <2>6, <2>7 DEF HInv
<1>11. QED
  BY <1>3, <1>4, <1>5, <1>6, <1>7, <1>8, <1>9, <1>10 DEF Next, LoopTurn


-----------------------------------------------------------------------------
(***************************************************************************)
(* The theorems                                                            *)
(***************************************************************************)

\* The cursors of the operands and what is to come stay as IInv says, whatever the
\* queries, and however often an iteration is begun again (VirtualQuery.__iter__,
\* __next__ and the four functions of the operators in query.py).
THEOREM InvariantHolds == Spec => []IInv
<1>1. IInv /\ [Next]_vars => IInv' BY IInvStep
<1>2. QED BY IInvInit, <1>1, PTL DEF Spec

\* A cursor stays within what is underneath; a slice's is where its count says, a
\* filter's on a message that it lets through (the state of Slicer, Filter, KeyQuery).
THEOREM TypeCorrect == Spec => []TypeOK
<1>1. QED BY InvariantHolds, IInvIsTypeOK, PTL

\* An iteration of a merge gives messages in the order they were appended in, whatever
\* jumps and skips it makes (or_func, and_func, sub_func and xor_func).
THEOREM IterationInOrder == Spec => []InOrder
<1>1. IInv => InOrder BY DEF IInv
<1>2. QED BY InvariantHolds, <1>1, PTL

\* What a merge has given and what its operands have still to come make up the outcome
\* at every turn of and_func, or_func, sub_func and xor_func; with & what both have is
\* given, or still to come from both.
THEOREM TallyHolds == Spec => []HInv
<1>1. HInv /\ [Next]_vars => HInv' BY HInvStep
<1>2. QED BY HInvInit, <1>1, PTL DEF Spec

\* |, - and ^ of two operands that have something give each message as often as it
\* belongs into the outcome, also when the merge is iterated again (or_func, sub_func,
\* xor_func and __get_first).
THEOREM MergeIsExact == Spec => []MergeExact
<1>1. HInv => MergeExact BY DEF HInv
<1>2. QED BY TallyHolds, <1>1, PTL

\* & gives only messages that both operands have, and in the end all of them: no jump
\* of ge() passes one over (and_func, ge_jump).
THEOREM AndGivesMembers == Spec => []AndMembers
<1>1. HInv => AndMembers BY DEF HInv
<1>2. QED BY TallyHolds, <1>1, PTL

=============================================================================
