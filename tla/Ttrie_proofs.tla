---------------------------- MODULE Ttrie_proofs ----------------------------
(***************************************************************************)
(* Proofs about Rtrie and Ttrie, for any keys and width of a byte.         *)
(***************************************************************************)
EXTENDS Ttrie, DataLemmas

-----------------------------------------------------------------------------
\* The invariant of the radix trie

Letters == 0 .. Byte - 1

Buffers == {Buffer(k) : k \in Keys}

Node == {r \in [keys : Seq(Letters), children : Seq(Seq(Letters)), suffix : Seq(Letters),
                suffix_len : Nat, has_value : BOOLEAN, result : Buffers \cup {None}] :
           r.has_value => r.result \in Buffers}

Shape(n, node) ==
  /\ node \in Node
  /\ node.suffix_len = Len(node.suffix) /\ (node.suffix # <<>> => node.children = <<>>)
  /\ \A i, j \in DOMAIN node.keys : i < j => node.keys[i] < node.keys[j]
  /\ node.children = [i \in DOMAIN node.keys |-> Append(n, node.keys[i])]

Tree(ns) ==
  /\ Root \in DOMAIN ns /\ DOMAIN ns \subseteq Seq(Letters)
  /\ \A n \in DOMAIN ns : Shape(n, ns[n])
  /\ \A n \in DOMAIN ns : \A i \in DOMAIN ns[n].keys : Append(n, ns[n].keys[i]) \in DOMAIN ns
  /\ \A m \in DOMAIN ns \ {Root} :
       \E n \in DOMAIN ns : \E i \in DOMAIN ns[n].keys : m = Append(n, ns[n].keys[i])

InAdd == call \in {"add", "added"}

Adding ==
  InAdd => /\ adding \in [key : Keys, at : Nat, node : DOMAIN nodes]
           /\ adding.at <= Len(adding.key)

Values(ns) == {n \in DOMAIN ns : ns[n].has_value}

Filled ==
  /\ IsFiniteSet(Values(nodes)) /\ Cardinality(Values(nodes)) = len
  /\ call # "crashed" => \A n \in DOMAIN nodes : ~nodes[n].has_value =>
       /\ HasSuffix(n) => call = "added" /\ n = n1
       /\ HasChildren(n) \/ (InAdd /\ n = n1) \/ DOMAIN nodes = {Root}

RInv == Open => Tree(nodes) /\ Adding /\ Filled

\* A node and its parent
LEMMA ParentIs ==
  ASSUME NEW S, NEW n \in Seq(S), NEW l \in S
  PROVE  /\ Append(n, l) \in Seq(S) /\ Append(n, l) # <<>>
         /\ Front(Append(n, l)) = n /\ Last(Append(n, l)) = l
         /\ \A m \in Seq(S) : \A k \in S : Append(m, k) = Append(n, l) => m = n /\ k = l
         /\ Append(n, l) # n
<1> DEFINE c == Append(n, l)
<1>1. /\ c \in Seq(S) /\ c # <<>> /\ Len(c) = Len(n) + 1 /\ c[Len(n) + 1] = l
      /\ \A i \in 1 .. Len(n) : c[i] = n[i]
  BY AppendProperties
<1>2. Len(n) \in Nat OBVIOUS
<1>3. \A m \in Seq(S) : \A k \in S : Append(m, k) = Append(n, l) => m = n /\ k = l
  BY AppendInjective
<1> HIDE DEF c
<1>4. Last(c) = l BY <1>1 DEF Last
<1>5. Front(c) = n
  <2>1. Front(c) = SubSeq(c, 1, Len(n)) BY <1>1, <1>2 DEF Front
  <2>2. \A i \in 1 .. Len(n) : c[i] \in S BY <1>1
  <2>3. /\ SubSeq(c, 1, Len(n)) \in Seq(S)
        /\ Len(SubSeq(c, 1, Len(n))) = IF 1 <= Len(n) THEN Len(n) - 1 + 1 ELSE 0
        /\ \A i \in 1 .. Len(n) - 1 + 1 : SubSeq(c, 1, Len(n))[i] = c[1 + i - 1]
    BY <1>2, <2>2, SubSeqProperties
  <2>4. Len(Front(c)) = Len(n) /\ \A i \in 1 .. Len(n) : Front(c)[i] = n[i]
    BY <1>1, <1>2, <2>1, <2>3
  <2>5. QED BY <2>1, <2>3, <2>4, SeqEqual
<1>6. c # n BY <1>1, <1>2
<1>7. QED BY <1>1, <1>3, <1>4, <1>5, <1>6 DEF c

-----------------------------------------------------------------------------
\* bisect_children

LEMMA LettersAre == Byte \in Int /\ Letters \subseteq Int /\ \A l \in Letters : l >= 0
<1>1. Byte \in Int BY ByteBitsAssumption DEF Byte
<1>2. QED BY <1>1 DEF Letters

Increasing(keys) == \A i, j \in DOMAIN keys : i < j => keys[i] < keys[j]

\* The search finds where a letter is or belongs, in any array in order.
LEMMA BisectPlaces ==
  ASSUME NEW n, NEW keys \in Seq(Letters), nodes[n].keys = keys, Increasing(keys),
         NEW letter \in Letters
  PROVE  /\ Bisect(n, letter) \in 0 .. Len(keys)
         /\ \A i \in 1 .. Bisect(n, letter) : keys[i] < letter
         /\ \A i \in Bisect(n, letter) + 1 .. Len(keys) : letter <= keys[i]
<1> DEFINE D == Nat \X Int
           Mid(r) == (r[1] + r[2]) \div 2
           Turn(r) == IF letter > keys[Mid(r) + 1] THEN <<Mid(r) + 1, r[2]>> ELSE <<r[1], Mid(r) - 1>>
           Value(f, r) == IF r[1] > r[2] THEN r[1]
                          ELSE IF letter = keys[Mid(r) + 1] THEN Mid(r) ELSE f[Turn(r)]
           step == [f \in [D -> Int] |-> [r \in D |-> Value(f, r)]]
           rank == [r \in D |-> IF r[1] > r[2] THEN 0 ELSE r[2] - r[1] + 1]
           search == CHOOSE f : f = [r \in D |-> Value(f, r)]
<1>1. Bisect(n, letter) = search[<<0, Len(keys) - 1>>] BY DEF Bisect
<1>2. ASSUME NEW r \in D, r[1] <= r[2]
      PROVE  /\ Mid(r) \in Nat /\ r[1] <= Mid(r) /\ Mid(r) <= r[2]
             /\ <<Mid(r) + 1, r[2]>> \in D /\ <<r[1], Mid(r) - 1>> \in D
             /\ Turn(r) \in D /\ rank[Turn(r)] < rank[r]
  <2>1. r[1] \in Nat /\ r[2] \in Int OBVIOUS
  <2>2. Mid(r) \in Nat /\ r[1] <= Mid(r) /\ Mid(r) <= r[2] BY <1>2, <2>1
  <2> HIDE DEF Mid
  <2>3. <<Mid(r) + 1, r[2]>> \in D /\ <<r[1], Mid(r) - 1>> \in D BY <2>1, <2>2
  <2>4. rank[<<Mid(r) + 1, r[2]>>] < rank[r] BY <1>2, <2>1, <2>2, <2>3
  <2>5. rank[<<r[1], Mid(r) - 1>>] < rank[r] BY <1>2, <2>1, <2>2, <2>3
  <2>6. QED BY <2>2, <2>3, <2>4, <2>5
<1>3. \E f \in [D -> Int] : f = step[f]
  <2>1. [r \in D |-> 0] \in [D -> Int] OBVIOUS
  <2>2. rank \in [D -> Nat]
    <3>1. ASSUME NEW r \in D PROVE (IF r[1] > r[2] THEN 0 ELSE r[2] - r[1] + 1) \in Nat OBVIOUS
    <3>2. QED BY <3>1
  <2>3. step \in [[D -> Int] -> [D -> Int]]
    <3>1. ASSUME NEW f \in [D -> Int], NEW r \in D PROVE Value(f, r) \in Int
      <4>1. CASE r[1] > r[2] BY <4>1
      <4>2. CASE r[1] <= r[2]
        <5>1. Mid(r) \in Nat /\ Turn(r) \in D BY <1>2, <4>2
        <5> HIDE DEF Mid, Turn
        <5>2. QED BY <5>1
      <4>3. QED BY <4>1, <4>2
    <3> HIDE DEF Value
    <3>2. QED BY <3>1
  <2>4. \A f, g \in [D -> Int] : \A r \in D :
          (\A e \in D : rank[e] < rank[r] => f[e] = g[e]) => step[f][r] = step[g][r]
    <3>1. SUFFICES ASSUME NEW f \in [D -> Int], NEW g \in [D -> Int], NEW r \in D,
                          \A e \in D : rank[e] < rank[r] => f[e] = g[e]
                   PROVE  step[f][r] = step[g][r]
      OBVIOUS
    <3>2. Value(f, r) = Value(g, r)
      <4>1. CASE r[1] > r[2] BY <4>1
      <4>2. CASE r[1] <= r[2]
        <5>1. Turn(r) \in D /\ rank[Turn(r)] < rank[r] BY <1>2, <4>2
        <5>2. f[Turn(r)] = g[Turn(r)] BY <3>1, <5>1
        <5> HIDE DEF Mid, Turn
        <5>3. QED BY <5>2
      <4>3. QED BY <4>1, <4>2
    <3> HIDE DEF Value
    <3>3. QED BY <3>2
  <2>5. PICK base : base = [r \in D |-> 0] OBVIOUS
  <2> HIDE DEF step, rank, D, Value
  <2>6. base \in [D -> Int] BY <2>1, <2>5
  <2>7. Descending(D, Int, rank, step) BY <2>2, <2>3, <2>4 DEF Descending
  <2>8. QED BY <2>6, <2>7, RankedRecursion
<1>4. \E f : f = [r \in D |-> Value(f, r)]
  <2>1. PICK f \in [D -> Int] : f = step[f] BY <1>3
  <2> HIDE DEF Value
  <2>2. step[f] = [r \in D |-> Value(f, r)] BY <2>1
  <2>3. QED BY <2>1, <2>2
<1>5. \A r \in D : search[r] = Value(search, r)
  <2> HIDE DEF Value
  <2>1. search = [r \in D |-> Value(search, r)] BY <1>4
  <2> HIDE DEF search
  <2>2. QED BY <2>1
<1> HIDE DEF search
<1> DEFINE N == Len(keys)
           Within(r) == /\ r \in D /\ r[1] <= N /\ r[2] <= N - 1 /\ r[1] <= r[2] + 1
                        /\ \A i \in 1 .. r[1] : keys[i] < letter
                        /\ \A i \in r[2] + 2 .. N : letter < keys[i]
           Right(p) == /\ p \in 0 .. N /\ \A i \in 1 .. p : keys[i] < letter
                       /\ \A i \in p + 1 .. N : letter <= keys[i]
<1>6. N \in Nat /\ DOMAIN keys = 1 .. N /\ \A i \in 1 .. N : keys[i] \in Int
  BY SequenceIs, LettersAre
<1>7. letter \in Int BY LettersAre
<1>8. ASSUME NEW r, Within(r), NEW m \in Nat, rank[r] < m + 1,
             \A q : Within(q) /\ rank[q] < m => Right(search[q])
      PROVE  Right(search[r])
  <2>1. r \in D /\ r[1] \in Nat /\ r[2] \in Int BY <1>8
  <2>2. CASE r[1] > r[2]
    <3>1. search[r] = r[1] BY <1>5, <2>1, <2>2
    <3>2. r[1] = r[2] + 1 BY <1>8, <2>1, <2>2
    <3> HIDE DEF D, Mid, Turn, Value, rank
    <3>3. \A i \in r[1] + 1 .. N : letter <= keys[i] BY <1>6, <1>7, <1>8, <2>1, <3>2
    <3>4. QED BY <1>6, <1>8, <2>1, <3>1, <3>3
  <2>3. CASE r[1] <= r[2]
    <3>1. /\ Mid(r) \in Nat /\ r[1] <= Mid(r) /\ Mid(r) <= r[2]
          /\ <<Mid(r) + 1, r[2]>> \in D /\ <<r[1], Mid(r) - 1>> \in D
          /\ Turn(r) \in D /\ rank[Turn(r)] < rank[r]
      BY <1>2, <2>1, <2>3
    <3>2. search[r] = IF letter = keys[Mid(r) + 1] THEN Mid(r) ELSE search[Turn(r)]
      BY <1>5, <2>1, <2>3
    <3>3. PICK p : p = Mid(r) OBVIOUS
    <3>4. Turn(r) = IF letter > keys[p + 1] THEN <<p + 1, r[2]>> ELSE <<r[1], p - 1>> BY <3>3
    <3>5. rank[Turn(r)] < m
      <4>1. rank[Turn(r)] \in Int /\ rank[r] \in Int BY <2>1, <3>1
      <4>2. QED BY <1>8, <3>1, <4>1
    <3> HIDE DEF Mid, Turn, Value, rank
    <3>6. p \in Nat /\ r[1] <= p /\ p <= r[2] /\ p + 1 \in 1 .. N /\ keys[p + 1] \in Int
      BY <1>6, <1>8, <2>1, <3>1, <3>3
    <3>7. \A i \in 1 .. N : (i < p + 1 => keys[i] < keys[p + 1]) /\ (p + 1 < i => keys[p + 1] < keys[i])
      BY <1>6, <3>6 DEF Increasing
    <3>8. CASE letter = keys[p + 1]
      <4>1. search[r] = p BY <3>2, <3>3, <3>8
      <4>2. \A i \in 1 .. p : keys[i] < letter BY <1>6, <3>6, <3>7, <3>8
      <4>3. \A i \in p + 1 .. N : letter <= keys[i] BY <1>6, <3>6, <3>7, <3>8
      <4>4. p \in 0 .. N BY <3>6, <1>6
      <4>5. QED BY <4>1, <4>2, <4>3, <4>4
    <3>9. CASE letter > keys[p + 1]
      <4> DEFINE q == <<p + 1, r[2]>>
      <4>1. search[r] = search[q] /\ Turn(r) = q BY <1>7, <3>2, <3>3, <3>4, <3>6, <3>9
      <4>2. q \in D /\ q[1] = p + 1 /\ q[2] = r[2] BY <3>1, <3>3
      <4>3. \A i \in 1 .. p + 1 : keys[i] < letter BY <1>6, <1>7, <3>6, <3>7, <3>9
      <4>4. p + 1 <= N /\ p + 1 <= r[2] + 1 BY <1>6, <2>1, <3>6
      <4> HIDE DEF q, D
      <4>5. Within(q) BY <1>8, <4>2, <4>3, <4>4
      <4>6. QED BY <1>8, <3>5, <4>1, <4>5
    <3>10. CASE letter < keys[p + 1]
      <4> DEFINE q == <<r[1], p - 1>>
      <4>1. search[r] = search[q] /\ Turn(r) = q BY <1>7, <3>2, <3>3, <3>4, <3>6, <3>10
      <4>2. q \in D /\ q[1] = r[1] /\ q[2] = p - 1 BY <3>1, <3>3
      <4>3. \A i \in (p - 1) + 2 .. N : letter < keys[i] BY <1>6, <1>7, <3>6, <3>7, <3>10
      <4>4. r[1] <= N /\ p - 1 <= N - 1 /\ r[1] <= (p - 1) + 1 BY <1>6, <1>8, <2>1, <3>6
      <4> HIDE DEF q, D
      <4>5. Within(q) BY <1>8, <4>2, <4>3, <4>4
      <4>6. QED BY <1>8, <3>5, <4>1, <4>5
    <3>11. QED BY <1>7, <3>6, <3>8, <3>9, <3>10
  <2>4. QED BY <2>1, <2>2, <2>3
<1>9. \A r : Within(r) => rank[r] \in Nat
  <2>1. SUFFICES ASSUME NEW r, Within(r) PROVE rank[r] \in Nat OBVIOUS
  <2>2. r \in D /\ r[1] \in Nat /\ r[2] \in Int BY <2>1
  <2>3. rank[r] = IF r[1] > r[2] THEN 0 ELSE r[2] - r[1] + 1 BY <2>2
  <2>4. QED BY <2>2, <2>3
<1>10. Within(<<0, N - 1>>)
  <2>1. <<0, N - 1>> \in D BY <1>6
  <2>2. QED BY <1>6, <2>1
<1> HIDE DEF D, rank, Within, Right
<1>11. \A m \in Nat : \A r : Within(r) /\ rank[r] < m => Right(search[r])
  <2> DEFINE T == {m \in Nat : \A r : Within(r) /\ rank[r] < m => Right(search[r])}
  <2>1. 0 \in T
    <3>1. \A r : Within(r) => ~(rank[r] < 0) BY <1>9
    <3>2. QED BY <3>1
  <2>2. ASSUME NEW m \in Nat, m \in T PROVE m + 1 \in T BY <1>8, <2>2
  <2> HIDE DEF T
  <2>3. Nat \subseteq T BY <2>1, <2>2, NatSetInduction
  <2>4. QED BY <2>3 DEF T
<1>12. rank[<<0, N - 1>>] + 1 \in Nat /\ rank[<<0, N - 1>>] < rank[<<0, N - 1>>] + 1
  BY <1>9, <1>10
<1>13. Right(search[<<0, N - 1>>]) BY <1>10, <1>11, <1>12
<1>14. Right(Bisect(n, letter)) BY <1>1, <1>13
<1>15. QED BY <1>14 DEF Right

-----------------------------------------------------------------------------
\* Changes of a tree

LEMMA NodeIs ==
  ASSUME NEW ns, Tree(ns), NEW n \in DOMAIN ns
  PROVE  /\ n \in Seq(Letters) /\ Shape(n, ns[n]) /\ ns[n] \in Node
         /\ ns[n].keys \in Seq(Letters) /\ Increasing(ns[n].keys)
         /\ ns[n].suffix \in Seq(Letters) /\ ns[n].suffix_len = Len(ns[n].suffix)
         /\ ns[n].has_value \in BOOLEAN
         /\ ns[n].children = [i \in DOMAIN ns[n].keys |-> Append(n, ns[n].keys[i])]
         /\ ns[n].children = <<>> <=> ns[n].keys = <<>>
         /\ \A i \in DOMAIN ns[n].keys : Append(n, ns[n].keys[i]) \in DOMAIN ns
<1>1. n \in Seq(Letters) /\ Shape(n, ns[n]) /\ ns[n] \in Node BY DEF Tree, Shape
<1>2. /\ ns[n].keys \in Seq(Letters) /\ ns[n].suffix \in Seq(Letters)
      /\ ns[n].has_value \in BOOLEAN /\ ns[n].children \in Seq(Seq(Letters))
  BY <1>1 DEF Node
<1>3. ns[n].children = [i \in DOMAIN ns[n].keys |-> Append(n, ns[n].keys[i])]
  BY <1>1 DEF Shape
<1>4. ns[n].children = <<>> <=> ns[n].keys = <<>>
  <2>1. DOMAIN ns[n].children = DOMAIN ns[n].keys BY <1>3
  <2>2. DOMAIN ns[n].children = 1 .. Len(ns[n].children)
        /\ DOMAIN ns[n].keys = 1 .. Len(ns[n].keys)
        /\ Len(ns[n].children) \in Nat /\ Len(ns[n].keys) \in Nat
        /\ (ns[n].children = <<>> <=> Len(ns[n].children) = 0)
        /\ (ns[n].keys = <<>> <=> Len(ns[n].keys) = 0)
    BY <1>2, SequenceIs
  <2>3. Len(ns[n].children) # 0 <=> 1 \in DOMAIN ns[n].children BY <2>2
  <2>4. Len(ns[n].keys) # 0 <=> 1 \in DOMAIN ns[n].keys BY <2>2
  <2>5. QED BY <2>1, <2>2, <2>3, <2>4
<1>5. QED BY <1>1, <1>2, <1>3, <1>4 DEF Shape, Increasing, Tree

\* A node without children has any shape that keeps it so.
LEMMA ChildlessIs ==
  ASSUME NEW n, NEW node \in Node, node.keys = <<>>, node.children = <<>>,
         node.suffix_len = Len(node.suffix)
  PROVE  Shape(n, node)
<1>1. node.children = [i \in DOMAIN node.keys |-> Append(n, node.keys[i])]
  <2>1. DOMAIN node.keys = {} OBVIOUS
  <2>2. <<>> = [i \in {} |-> Append(n, node.keys[i])] OBVIOUS
  <2>3. QED BY <2>1, <2>2
<1>2. QED BY <1>1 DEF Shape

LEMMA NewNodeIs ==
  NewNode \in Node /\ NewNode.keys = <<>> /\ NewNode.children = <<>> /\ NewNode.suffix = <<>>
    /\ NewNode.suffix_len = 0 /\ NewNode.has_value = FALSE /\ NewNode.result = None
BY DEF NewNode, Node

\* A node may be another while its children stay.
LEMMA TreeReplaced ==
  ASSUME NEW ns, Tree(ns), NEW n \in DOMAIN ns, NEW node, Shape(n, node),
         node.keys = ns[n].keys
  PROVE  Tree([ns EXCEPT ![n] = node])
<1>1. PICK r : r = [ns EXCEPT ![n] = node] OBVIOUS
<1>2. /\ DOMAIN r = DOMAIN ns /\ r[n] = node
      /\ \A m \in DOMAIN ns : m # n => r[m] = ns[m]
  BY <1>1
<1>3. \A m \in DOMAIN ns : Shape(m, r[m]) /\ r[m].keys = ns[m].keys
  BY <1>2, NodeIs
<1>4. Tree(r)
  <2>1. Root \in DOMAIN r /\ DOMAIN r \subseteq Seq(Letters) BY <1>2 DEF Tree
  <2>2. \A m \in DOMAIN r : \A i \in DOMAIN r[m].keys : Append(m, r[m].keys[i]) \in DOMAIN r
    BY <1>2, <1>3 DEF Tree
  <2>3. \A m \in DOMAIN r \ {Root} :
          \E q \in DOMAIN r : \E i \in DOMAIN r[q].keys : m = Append(q, r[q].keys[i])
    <3>1. SUFFICES ASSUME NEW m \in DOMAIN ns \ {Root}
                   PROVE  \E q \in DOMAIN r : \E i \in DOMAIN r[q].keys : m = Append(q, r[q].keys[i])
      BY <1>2
    <3>2. PICK q \in DOMAIN ns : \E i \in DOMAIN ns[q].keys : m = Append(q, ns[q].keys[i])
      BY DEF Tree
    <3>3. q \in DOMAIN r /\ r[q].keys = ns[q].keys BY <1>2, <1>3
    <3>4. QED BY <3>2, <3>3
  <2>4. QED BY <1>2, <1>3, <2>1, <2>2, <2>3 DEF Tree
<1>5. QED BY <1>1, <1>4

\* What the two arrays of a node hold when a letter was put in its place.
Belongs(letter, keys, p) ==
  /\ p \in 0 .. Len(keys)
  /\ \A i \in 1 .. p : keys[i] < letter
  /\ \A i \in p + 1 .. Len(keys) : letter < keys[i]

Beside(n, keys, children) == children = [i \in DOMAIN keys |-> Append(n, keys[i])]

LEMMA ChildInserted ==
  ASSUME NEW n \in Seq(Letters), NEW keys \in Seq(Letters), Increasing(keys),
         NEW children \in Seq(Seq(Letters)), Beside(n, keys, children),
         NEW letter \in Letters, NEW p, Belongs(letter, keys, p),
         NEW keys2, keys2 = InsertAt(keys, p + 1, letter),
         NEW children2, children2 = InsertAt(children, p + 1, Append(n, letter))
  PROVE  /\ keys2 \in Seq(Letters) /\ Increasing(keys2)
         /\ children2 \in Seq(Seq(Letters)) /\ children2 # <<>>
         /\ Beside(n, keys2, children2)
         /\ \A i \in DOMAIN keys2 : keys2[i] = letter \/ \E j \in DOMAIN keys : keys2[i] = keys[j]
         /\ \E i \in DOMAIN keys2 : keys2[i] = letter
         /\ \A j \in DOMAIN keys : \E i \in DOMAIN keys2 : keys2[i] = keys[j]
<1>1. PICK N : N = Len(keys) OBVIOUS
<1>2. N \in Nat /\ DOMAIN keys = 1 .. N /\ \A i \in 1 .. N : keys[i] \in Letters
  BY <1>1, SequenceIs
<1>3. letter \in Int /\ \A i \in 1 .. N : keys[i] \in Int BY <1>2, LettersAre
<1>4. p \in 0 .. N /\ p \in Nat /\ p <= N BY <1>1, <1>2 DEF Belongs
<1>5. /\ keys2 \in Seq(Letters) /\ Len(keys2) = N + 1 /\ keys2[p + 1] = letter
      /\ \A i \in 1 .. p : keys2[i] = keys[i]
      /\ \A i \in p + 1 .. N : keys2[i + 1] = keys[i]
  <2>1. InsertAt(keys, p + 1, letter) \in Seq(Letters)
        /\ Inserted(InsertAt(keys, p + 1, letter), keys, p, letter)
    BY <1>1, <1>4, InsertIs
  <2>2. keys2 \in Seq(Letters) /\ Inserted(keys2, keys, p, letter) BY <2>1
  <2>3. QED BY <1>1, <2>2 DEF Inserted
<1>6. PICK child : child = Append(n, letter) OBVIOUS
<1>7. child \in Seq(Letters) BY <1>6
<1>8. Len(children) = N /\ \A i \in 1 .. N : children[i] = Append(n, keys[i])
  <2>1. DOMAIN children = 1 .. N BY <1>2 DEF Beside
  <2>2. Len(children) = N BY <1>2, <2>1
  <2>3. QED BY <1>2, <2>2 DEF Beside
<1>9. /\ children2 \in Seq(Seq(Letters)) /\ Len(children2) = N + 1 /\ children2[p + 1] = child
      /\ \A i \in 1 .. p : children2[i] = Append(n, keys[i])
      /\ \A i \in p + 1 .. N : children2[i + 1] = Append(n, keys[i])
  <2>1. p \in 0 .. Len(children) BY <1>4, <1>8
  <2>2. InsertAt(children, p + 1, child) \in Seq(Seq(Letters))
        /\ Inserted(InsertAt(children, p + 1, child), children, p, child)
    BY <1>7, <2>1, InsertIs
  <2>3. children2 \in Seq(Seq(Letters)) /\ Inserted(children2, children, p, child) BY <1>6, <2>2
  <2>4. \A i \in 1 .. p : i \in 1 .. N BY <1>2, <1>4
  <2>5. \A i \in p + 1 .. N : i \in 1 .. N BY <1>2, <1>4
  <2>6. QED BY <1>8, <2>3, <2>4, <2>5 DEF Inserted
<1>10. DOMAIN keys2 = 1 .. N + 1 /\ DOMAIN children2 = 1 .. N + 1
  BY <1>5, <1>9, SequenceIs
<1> DEFINE Below(i)  == i \in 1 .. p /\ keys2[i] = keys[i] /\ children2[i] = Append(n, keys[i])
           There(i)  == i = p + 1 /\ keys2[i] = letter /\ children2[i] = child
           Above(i)  == /\ i - 1 \in p + 1 .. N /\ keys2[i] = keys[i - 1]
                        /\ children2[i] = Append(n, keys[i - 1])
<1>11. \A i \in 1 .. N + 1 : Below(i) \/ There(i) \/ Above(i)
  <2>1. SUFFICES ASSUME NEW i \in 1 .. N + 1 PROVE Below(i) \/ There(i) \/ Above(i) OBVIOUS
  <2>2. CASE i <= p
    <3>1. i \in 1 .. p BY <1>4, <2>2
    <3>2. QED BY <1>5, <1>9, <3>1
  <2>3. CASE i = p + 1 BY <1>5, <1>9, <2>3
  <2>4. CASE i > p + 1
    <3>1. i - 1 \in p + 1 .. N /\ (i - 1) + 1 = i BY <1>2, <1>4, <2>4
    <3>2. keys2[(i - 1) + 1] = keys[i - 1] /\ children2[(i - 1) + 1] = Append(n, keys[i - 1])
      BY <1>5, <1>9, <3>1
    <3>3. Above(i) BY <3>1, <3>2
    <3>4. QED BY <3>3
  <2>5. QED BY <1>2, <1>4, <2>2, <2>3, <2>4
<1>12. children2 = [i \in DOMAIN keys2 |-> Append(n, keys2[i])]
  <2>1. \A i \in 1 .. N + 1 : children2[i] = Append(n, keys2[i]) BY <1>6, <1>11
  <2>2. children2 = [i \in DOMAIN children2 |-> children2[i]]
    <3>1. children2 \in [DOMAIN children2 -> Seq(Letters)] BY <1>9, <1>10, SequenceIs
    <3>2. QED BY <3>1
  <2>3. QED BY <1>10, <2>1, <2>2
<1>13. \A i, j \in 1 .. N + 1 : i < j => keys2[i] < keys2[j]
  <2>1. SUFFICES ASSUME NEW i \in 1 .. N + 1, NEW j \in 1 .. N + 1, i < j
                 PROVE  keys2[i] < keys2[j]
    OBVIOUS
  <2>2. \A a, b \in 1 .. N : a < b => keys[a] < keys[b] BY <1>2 DEF Increasing
  <2>3. \A a \in 1 .. p : a \in 1 .. N BY <1>2, <1>4
  <2>4. \A a \in p + 1 .. N : a \in 1 .. N BY <1>2, <1>4
  <2>5. CASE Below(i)
    <3>1. keys2[i] = keys[i] /\ keys[i] < letter /\ i \in 1 .. N BY <2>3, <2>5 DEF Belongs
    <3>2. CASE Below(j) BY <2>1, <2>2, <2>3, <3>1, <3>2
    <3>3. CASE There(j) BY <3>1, <3>3
    <3>4. CASE Above(j)
      <4>1. i < j - 1 /\ j - 1 \in 1 .. N BY <1>2, <1>4, <2>5, <3>4
      <4>2. QED BY <2>2, <3>1, <3>4, <4>1
    <3>5. QED BY <1>11, <3>2, <3>3, <3>4
  <2>6. CASE There(i)
    <3>1. ~(j \in 1 .. p) /\ j # p + 1 BY <1>2, <1>4, <2>1, <2>6
    <3>2. Above(j) BY <1>11, <3>1
    <3>3. letter < keys[j - 1] BY <1>1, <3>2 DEF Belongs
    <3>4. QED BY <2>6, <3>2, <3>3
  <2>7. CASE Above(i)
    <3>1. ~(j \in 1 .. p) /\ j # p + 1 BY <1>2, <1>4, <2>1, <2>7
    <3>2. Above(j) BY <1>11, <3>1
    <3>3. i - 1 < j - 1 /\ i - 1 \in 1 .. N /\ j - 1 \in 1 .. N BY <2>1, <2>4, <2>7, <3>2
    <3>4. keys[i - 1] < keys[j - 1] BY <2>2, <3>3
    <3>5. QED BY <2>7, <3>2, <3>4
  <2>8. QED BY <1>11, <2>5, <2>6, <2>7
<1>14. Increasing(keys2) BY <1>10, <1>13 DEF Increasing
<1>15. \A i \in DOMAIN keys2 : keys2[i] = letter \/ \E j \in DOMAIN keys : keys2[i] = keys[j]
  <2>1. SUFFICES ASSUME NEW i \in 1 .. N + 1
                 PROVE  keys2[i] = letter \/ \E j \in 1 .. N : keys2[i] = keys[j]
    BY <1>2, <1>10
  <2>2. CASE Below(i)
    <3>1. i \in 1 .. N BY <1>2, <1>4, <2>2
    <3>2. QED BY <2>2, <3>1
  <2>3. CASE Above(i)
    <3>1. i - 1 \in 1 .. N BY <1>2, <1>4, <2>3
    <3>2. QED BY <2>3, <3>1
  <2>4. QED BY <1>11, <2>2, <2>3
<1>16. \E i \in DOMAIN keys2 : keys2[i] = letter
  <2>1. p + 1 \in DOMAIN keys2 BY <1>2, <1>4, <1>10
  <2>2. QED BY <1>5, <2>1
<1>17. \A j \in DOMAIN keys : \E i \in DOMAIN keys2 : keys2[i] = keys[j]
  <2>1. SUFFICES ASSUME NEW j \in 1 .. N PROVE \E i \in 1 .. N + 1 : keys2[i] = keys[j]
    BY <1>2, <1>10
  <2>2. CASE j <= p
    <3>1. j \in 1 .. p /\ j \in 1 .. N + 1 BY <1>2, <1>4, <2>2
    <3>2. QED BY <1>5, <3>1
  <2>3. CASE j > p
    <3>1. j \in p + 1 .. N /\ j + 1 \in 1 .. N + 1 BY <1>2, <1>4, <2>3
    <3>2. QED BY <1>5, <3>1
  <2>4. QED BY <1>4, <2>2, <2>3
<1>18. children2 # <<>> BY <1>2, <1>9
<1>19. QED BY <1>5, <1>9, <1>12, <1>14, <1>15, <1>16, <1>17, <1>18 DEF Beside

\* A child for a letter that has none, at the place of the letter.
Grown(g, ns, n, child) ==
  /\ Tree(g) /\ DOMAIN g = DOMAIN ns \cup {child} /\ child \notin DOMAIN ns
  /\ g[child] = NewNode
  /\ g[n].has_value = ns[n].has_value /\ g[n].result = ns[n].result
  /\ g[n].suffix = <<>> /\ g[n].children # <<>>
  /\ \A m \in DOMAIN ns : m # n => g[m] = ns[m]

LEMMA TreeGrown ==
  ASSUME NEW ns, Tree(ns), NEW n \in DOMAIN ns, NEW letter \in Letters,
         NEW p, Belongs(letter, ns[n].keys, p), ns[n].suffix = <<>>,
         NEW child, child = Append(n, letter),
         NEW g, g = WithChild(ns, n, letter, p)
  PROVE  Grown(g, ns, n, child)
<1>1. PICK keys, children : keys = ns[n].keys /\ children = ns[n].children OBVIOUS
<1>2. /\ n \in Seq(Letters) /\ ns[n] \in Node /\ keys \in Seq(Letters) /\ Increasing(keys)
      /\ ns[n].suffix_len = Len(ns[n].suffix)
      /\ Beside(n, keys, children)
      /\ \A i \in DOMAIN keys : Append(n, keys[i]) \in DOMAIN ns
  <2>1. /\ n \in Seq(Letters) /\ ns[n] \in Node /\ ns[n].keys \in Seq(Letters)
        /\ Increasing(ns[n].keys) /\ ns[n].suffix_len = Len(ns[n].suffix)
        /\ ns[n].children = [i \in DOMAIN ns[n].keys |-> Append(n, ns[n].keys[i])]
        /\ \A i \in DOMAIN ns[n].keys : Append(n, ns[n].keys[i]) \in DOMAIN ns
    BY NodeIs
  <2>2. QED BY <1>1, <2>1 DEF Beside
<1>3. children \in Seq(Seq(Letters)) BY <1>1, <1>2 DEF Node
<1>4. PICK keys2, children2 : /\ keys2 = InsertAt(keys, p + 1, letter)
                              /\ children2 = InsertAt(children, p + 1, child)
  OBVIOUS
<1>5. /\ keys2 \in Seq(Letters) /\ Increasing(keys2)
      /\ children2 \in Seq(Seq(Letters)) /\ children2 # <<>>
      /\ Beside(n, keys2, children2)
      /\ \A i \in DOMAIN keys2 : keys2[i] = letter \/ \E j \in DOMAIN keys : keys2[i] = keys[j]
      /\ \E i \in DOMAIN keys2 : keys2[i] = letter
      /\ \A j \in DOMAIN keys : \E i \in DOMAIN keys2 : keys2[i] = keys[j]
  <2>1. Belongs(letter, keys, p) BY <1>1
  <2>2. children2 = InsertAt(children, p + 1, Append(n, letter)) BY <1>4
  <2>3. QED BY <1>2, <1>3, <1>4, <2>1, <2>2, ChildInserted
<1>6. child \in Seq(Letters) /\ child # n /\ child # Root BY <1>2, ParentIs DEF Root
<1>7. \A i \in DOMAIN keys : keys[i] # letter
  <2>1. Len(keys) \in Nat /\ DOMAIN keys = 1 .. Len(keys) BY <1>2, SequenceIs
  <2>2. \A i \in 1 .. Len(keys) : keys[i] \in Int /\ letter \in Int
    BY <1>2, SequenceIs, LettersAre
  <2>3. \A i \in 1 .. Len(keys) : i \in 1 .. p \/ i \in p + 1 .. Len(keys)
    BY <1>1, <2>1 DEF Belongs
  <2>4. QED BY <1>1, <2>1, <2>2, <2>3 DEF Belongs
<1>8. child \notin DOMAIN ns
  <2>1. SUFFICES ASSUME child \in DOMAIN ns PROVE FALSE OBVIOUS
  <2>2. PICK q \in DOMAIN ns : \E i \in DOMAIN ns[q].keys : child = Append(q, ns[q].keys[i])
    BY <1>6, <2>1 DEF Tree
  <2>3. PICK i \in DOMAIN ns[q].keys : child = Append(q, ns[q].keys[i]) BY <2>2
  <2>4. q \in Seq(Letters) /\ ns[q].keys[i] \in Letters
    <3>1. q \in Seq(Letters) /\ ns[q].keys \in Seq(Letters) BY NodeIs
    <3>2. QED BY <3>1, SequenceIs
  <2>5. q = n /\ ns[q].keys[i] = letter
    <3>1. PICK k : k = ns[q].keys[i] OBVIOUS
    <3>2. Append(q, k) = Append(n, letter) BY <2>3, <3>1
    <3>3. k \in Letters /\ q \in Seq(Letters) /\ n \in Seq(Letters) BY <1>2, <2>4, <3>1
    <3>4. \A m \in Seq(Letters) : \A l \in Letters : Append(m, l) = Append(n, letter) => m = n /\ l = letter
      BY <3>3, ParentIs
    <3>5. QED BY <3>1, <3>2, <3>3, <3>4
  <2>6. QED BY <1>1, <1>7, <2>3, <2>5
<1>9. PICK node : node = [ns[n] EXCEPT !.keys = keys2, !.children = children2] OBVIOUS
<1>10. /\ DOMAIN g = DOMAIN ns \cup {child} /\ g[child] = NewNode /\ g[n] = node
       /\ \A m \in DOMAIN ns : m # n => g[m] = ns[m]
  BY <1>1, <1>4, <1>6, <1>8, <1>9 DEF WithChild, Placed
<1>11. /\ node \in Node /\ node.keys = keys2 /\ node.children = children2
       /\ node.suffix = <<>> /\ node.suffix_len = 0 /\ node.has_value = ns[n].has_value
       /\ node.result = ns[n].result
  BY <1>2, <1>5, <1>9 DEF Node
<1>12. Shape(n, node) BY <1>5, <1>11 DEF Shape, Increasing, Beside
<1>13. Shape(child, NewNode) BY NewNodeIs, ChildlessIs
<1>14. Tree(g)
  <2>1. Root \in DOMAIN g /\ DOMAIN g \subseteq Seq(Letters) BY <1>6, <1>10 DEF Tree
  <2>2. \A m \in DOMAIN g : Shape(m, g[m]) BY <1>10, <1>12, <1>13 DEF Tree
  <2>3. \A m \in DOMAIN g : \A i \in DOMAIN g[m].keys : Append(m, g[m].keys[i]) \in DOMAIN g
    <3>1. SUFFICES ASSUME NEW m \in DOMAIN g, NEW i \in DOMAIN g[m].keys
                   PROVE  Append(m, g[m].keys[i]) \in DOMAIN g
      OBVIOUS
    <3>2. m # child
      <4>1. DOMAIN NewNode.keys = {} BY NewNodeIs
      <4>2. QED BY <1>10, <3>1, <4>1
    <3>3. CASE m = n
      <4>1. g[m].keys = keys2 BY <1>10, <1>11, <3>3
      <4>2. CASE keys2[i] = letter BY <1>10, <3>3, <4>1, <4>2
      <4>3. CASE keys2[i] # letter BY <1>2, <1>5, <1>10, <3>1, <3>3, <4>1, <4>3
      <4>4. QED BY <4>2, <4>3
    <3>4. CASE m # n
      <4>1. m \in DOMAIN ns /\ g[m] = ns[m] BY <1>10, <3>2, <3>4
      <4>2. QED BY <1>10, <4>1, NodeIs
    <3>5. QED BY <3>3, <3>4
  <2>4. \A m \in DOMAIN g \ {Root} :
          \E q \in DOMAIN g : \E i \in DOMAIN g[q].keys : m = Append(q, g[q].keys[i])
    <3>1. SUFFICES ASSUME NEW m \in DOMAIN g \ {Root}
                   PROVE  \E q \in DOMAIN g : \E i \in DOMAIN g[q].keys : m = Append(q, g[q].keys[i])
      OBVIOUS
    <3>2. n \in DOMAIN g /\ g[n].keys = keys2 BY <1>10, <1>11
    <3>3. CASE m = child BY <1>5, <3>2, <3>3
    <3>4. CASE m # child
      <4>1. PICK q \in DOMAIN ns : \E i \in DOMAIN ns[q].keys : m = Append(q, ns[q].keys[i])
        BY <1>10, <3>4 DEF Tree
      <4>2. PICK i \in DOMAIN ns[q].keys : m = Append(q, ns[q].keys[i]) BY <4>1
      <4>3. CASE q # n
        <5>1. q \in DOMAIN g /\ g[q].keys = ns[q].keys BY <1>10, <4>3
        <5>2. QED BY <4>2, <5>1
      <4>4. CASE q = n
        <5>1. PICK j \in DOMAIN keys2 : keys2[j] = keys[i] BY <1>1, <1>5, <4>4
        <5>2. QED BY <1>1, <3>2, <4>2, <4>4, <5>1
      <4>5. QED BY <4>3, <4>4
    <3>5. QED BY <3>3, <3>4
  <2>5. QED BY <2>1, <2>2, <2>3, <2>4 DEF Tree
<1>15. QED BY <1>5, <1>8, <1>10, <1>11, <1>14 DEF Grown

\* A suffix that is not empty: its first letter and the others.
LEMMA SuffixIs ==
  ASSUME NEW s \in Seq(Letters)
  PROVE  /\ SubSeq(s, 1, Len(s)) = s
         /\ s # <<>> => Head(s) \in Letters /\ Tail(s) \in Seq(Letters) /\ Len(Tail(s)) = Len(s) - 1
<1>1. SubSeq(s, 1, Len(s)) = s OBVIOUS
<1>2. QED BY <1>1

\* The suffix goes below its first letter with what is stored with the node.
Broken(b, n, child) ==
  /\ Tree(b) /\ DOMAIN b = DOMAIN nodes \cup {child} /\ child \notin DOMAIN nodes
  /\ child = Append(n, Head(nodes[n].suffix)) /\ b[child].suffix = Tail(nodes[n].suffix)
  /\ b[child].has_value = nodes[n].has_value /\ b[child].result = nodes[n].result
  /\ b[n].has_value = FALSE /\ b[n].suffix = <<>> /\ b[n].children # <<>>
  /\ \A m \in DOMAIN nodes : m # n => b[m] = nodes[m]

LEMMA TreeBrokenOut ==
  ASSUME Tree(nodes), NEW n \in DOMAIN nodes, HasSuffix(n), NEW b, b = BrokenOut(n)
  PROVE  \E child : Broken(b, n, child)
<1>1. PICK node : node = nodes[n] OBVIOUS
<1>2. PICK letter, child : letter = Head(node.suffix) /\ child = Append(n, letter) OBVIOUS
<1>3. /\ n \in Seq(Letters) /\ node \in Node /\ node.suffix \in Seq(Letters)
      /\ node.suffix_len = Len(node.suffix) /\ Shape(n, node)
      /\ node.children = <<>> <=> node.keys = <<>>
  <2>1. /\ n \in Seq(Letters) /\ nodes[n] \in Node /\ nodes[n].suffix \in Seq(Letters)
        /\ nodes[n].suffix_len = Len(nodes[n].suffix) /\ Shape(n, nodes[n])
        /\ nodes[n].children = <<>> <=> nodes[n].keys = <<>>
    BY NodeIs
  <2>2. QED BY <1>1, <2>1
<1>4. node.suffix # <<>> /\ node.keys = <<>> BY <1>1, <1>3 DEF HasSuffix, Shape
<1>5. letter \in Letters /\ Tail(node.suffix) \in Seq(Letters)
      /\ Len(Tail(node.suffix)) = Len(node.suffix) - 1 /\ SubSeq(node.suffix, 1, Len(node.suffix)) = node.suffix
  BY <1>2, <1>3, <1>4, SuffixIs
<1>6. child \in Seq(Letters) /\ child # n BY <1>2, <1>3, <1>5, ParentIs
<1>7. PICK emptied : emptied = [nodes EXCEPT ![n] = NewNode] OBVIOUS
<1>8. /\ DOMAIN emptied = DOMAIN nodes /\ emptied[n] = NewNode
      /\ \A m \in DOMAIN nodes : m # n => emptied[m] = nodes[m]
  BY <1>7
<1>9. Tree(emptied)
  <2>1. Shape(n, NewNode) BY NewNodeIs, ChildlessIs
  <2>2. NewNode.keys = nodes[n].keys BY <1>1, <1>4, NewNodeIs
  <2>3. Tree([nodes EXCEPT ![n] = NewNode]) BY <2>1, <2>2, TreeReplaced
  <2>4. QED BY <1>7, <2>3
<1>10. PICK g : g = WithChild(emptied, n, letter, 0) OBVIOUS
<1>11. /\ Tree(g) /\ DOMAIN g = DOMAIN emptied \cup {child} /\ child \notin DOMAIN emptied
       /\ g[child] = NewNode
       /\ g[n].has_value = emptied[n].has_value /\ g[n].suffix = <<>> /\ g[n].children # <<>>
       /\ \A m \in DOMAIN emptied : m # n => g[m] = emptied[m]
  <2>1. n \in DOMAIN emptied /\ emptied[n].suffix = <<>> /\ emptied[n].keys = <<>> BY <1>8, NewNodeIs
  <2>2. Belongs(letter, emptied[n].keys, 0)
    <3>1. Len(emptied[n].keys) = 0 BY <2>1
    <3>2. QED BY <3>1 DEF Belongs
  <2>3. Grown(g, emptied, n, child) BY <1>2, <1>5, <1>9, <1>10, <2>1, <2>2, TreeGrown
  <2>4. QED BY <2>3 DEF Grown
<1>12. PICK moved : moved = Moved(n) OBVIOUS
<1>13. /\ moved \in Node /\ moved.keys = <<>> /\ moved.children = <<>>
       /\ moved.suffix_len = Len(moved.suffix) /\ moved.has_value = node.has_value
       /\ moved.suffix = Tail(node.suffix) /\ moved.result = node.result
  <2>1. Suffix(n) = node.suffix BY <1>1, <1>3, <1>5 DEF Suffix
  <2>2. moved = [NewNode EXCEPT !.suffix = Tail(node.suffix), !.suffix_len = node.suffix_len - 1,
                                !.has_value = node.has_value, !.result = node.result]
    BY <1>1, <1>12, <2>1 DEF Moved
  <2>3. node.suffix_len - 1 \in Nat /\ node.suffix_len - 1 = Len(Tail(node.suffix))
    <3>1. Len(Tail(node.suffix)) \in Nat BY <1>5
    <3>2. QED BY <1>3, <1>5, <3>1
  <2>4. /\ moved.suffix = Tail(node.suffix) /\ moved.suffix_len = node.suffix_len - 1
        /\ moved.has_value = node.has_value /\ moved.result = node.result
        /\ moved.keys = <<>> /\ moved.children = <<>>
    BY <2>2 DEF NewNode
  <2>5. moved \in Node
    <3>1. /\ node.has_value \in BOOLEAN /\ node.result \in Buffers \cup {None}
          /\ node.has_value => node.result \in Buffers
      BY <1>3 DEF Node
    <3>2. PICK tail, left : tail = Tail(node.suffix) /\ left = node.suffix_len - 1 OBVIOUS
    <3>3. moved = [keys |-> <<>>, children |-> <<>>, suffix |-> tail, suffix_len |-> left,
                   has_value |-> node.has_value, result |-> node.result]
      BY <2>2, <3>2 DEF NewNode
    <3>4. tail \in Seq(Letters) /\ left \in Nat BY <1>5, <2>3, <3>2
    <3>5. <<>> \in Seq(Letters) /\ <<>> \in Seq(Seq(Letters)) OBVIOUS
    <3>6. QED BY <3>1, <3>3, <3>4, <3>5 DEF Node
  <2>6. QED BY <2>3, <2>4, <2>5
<1>14. b = [g EXCEPT ![child] = moved] BY <1>1, <1>2, <1>7, <1>10, <1>12 DEF BrokenOut
<1>15. /\ DOMAIN b = DOMAIN g /\ b[child] = moved
       /\ \A m \in DOMAIN g : m # child => b[m] = g[m]
  BY <1>11, <1>14
<1>16. Tree(b)
  <2>1. Shape(child, moved) BY <1>13, ChildlessIs
  <2>2. moved.keys = g[child].keys /\ child \in DOMAIN g BY <1>11, <1>13, NewNodeIs
  <2>3. Tree([g EXCEPT ![child] = moved]) BY <1>11, <2>1, <2>2, TreeReplaced
  <2>4. QED BY <1>14, <2>3
<1>17. /\ DOMAIN b = DOMAIN nodes \cup {child} /\ child \notin DOMAIN nodes
       /\ b[child].suffix = Tail(node.suffix)
       /\ b[child].has_value = node.has_value /\ b[child].result = node.result
       /\ b[n].has_value = FALSE /\ b[n].suffix = <<>> /\ b[n].children # <<>>
       /\ \A m \in DOMAIN nodes : m # n => b[m] = nodes[m]
  BY <1>6, <1>8, <1>11, <1>13, <1>15, NewNodeIs
<1>18. QED BY <1>1, <1>2, <1>16, <1>17 DEF Broken

-----------------------------------------------------------------------------
\* The steps of rtrie__add

LEMMA AddIs ==
  ASSUME RInv, InAdd
  PROVE  /\ Open /\ Tree(nodes) /\ Filled /\ call # "crashed"
         /\ adding \in [key : Keys, at : Nat, node : DOMAIN nodes] /\ n1 \in DOMAIN nodes
         /\ adding.key \in Keys /\ adding.at \in Nat /\ adding.at <= Len(adding.key)
         /\ adding.at < Len(adding.key) =>
              /\ Letter \in Letters /\ Rest \in Seq(Letters)
              /\ Len(Rest) \in Nat /\ Len(Rest) % Byte = Len(Rest)
<1>1. Open /\ Tree(nodes) /\ Filled /\ call # "crashed" /\ Adding BY DEF RInv, Open, InAdd
<1>2. /\ adding \in [key : Keys, at : Nat, node : DOMAIN nodes] /\ n1 \in DOMAIN nodes
      /\ adding.key \in Keys /\ adding.at \in Nat /\ adding.at <= Len(adding.key)
  BY <1>1 DEF Adding, n1
<1>3. ASSUME adding.at < Len(adding.key)
      PROVE  /\ Letter \in Letters /\ Rest \in Seq(Letters)
             /\ Len(Rest) \in Nat /\ Len(Rest) % Byte = Len(Rest)
  <2>1. PICK k, a : k = adding.key /\ a = adding.at OBVIOUS
  <2>2. k \in Seq(Letters) /\ Len(k) < Byte /\ Byte \in Int
    BY <1>2, <2>1, KeysAssumption, LettersAre DEF Letters
  <2>3. Len(k) \in Nat /\ a \in Nat /\ a < Len(k) /\ \A i \in 1 .. Len(k) : k[i] \in Letters
    BY <1>2, <1>3, <2>1, <2>2, SequenceIs
  <2>4. Letter \in Letters
    <3>1. a + 1 \in 1 .. Len(k) BY <2>3
    <3>2. QED BY <2>1, <2>3, <3>1 DEF Letter
  <2>5. Rest \in Seq(Letters) /\ Len(Rest) = Len(k) - a
    <3>1. \A i \in a + 1 .. Len(k) : k[i] \in Letters BY <2>3
    <3>2. /\ SubSeq(k, a + 1, Len(k)) \in Seq(Letters)
          /\ Len(SubSeq(k, a + 1, Len(k))) = IF a + 1 <= Len(k) THEN Len(k) - (a + 1) + 1 ELSE 0
      BY <2>2, <2>3, <3>1, SubSeqProperties
    <3>3. a + 1 <= Len(k) /\ Len(k) - (a + 1) + 1 = Len(k) - a BY <2>3
    <3>4. Rest = SubSeq(k, a + 1, Len(k)) BY <2>1 DEF Rest
    <3>5. QED BY <3>2, <3>3, <3>4
  <2>6. Len(Rest) \in Nat /\ Len(Rest) < Byte BY <2>2, <2>3, <2>5
  <2>7. Len(Rest) % Byte = Len(Rest) BY <2>2, <2>6
  <2>8. QED BY <2>4, <2>5, <2>6, <2>7
<1>4. QED BY <1>1, <1>2, <1>3

\* What holds of the nodes that do not take part.
LEMMA OthersAre ==
  ASSUME RInv, InAdd, NEW m \in DOMAIN nodes, m # n1, ~nodes[m].has_value
  PROVE  nodes[m].suffix = <<>> /\ (nodes[m].children # <<>> \/ DOMAIN nodes = {Root})
<1>1. Filled /\ call # "crashed" BY AddIs
<1>2. QED BY <1>1 DEF Filled, HasSuffix, HasChildren

LEMMA OnlyRoot ==
  ASSUME Tree(nodes), NEW n \in DOMAIN nodes, NEW m \in DOMAIN nodes, m # n, DOMAIN nodes = {Root}
  PROVE  FALSE
OBVIOUS

LEMMA KeepSuffixStep == ASSUME RInv, KeepSuffix PROVE RInv'
<1>1. /\ InAdd /\ call = "add" /\ call' = "added" /\ adding' = adding /\ len' = len
      /\ nodes[n1].suffix = <<>> /\ nodes[n1].children = <<>> /\ ~nodes[n1].has_value
      /\ adding.at < Len(adding.key)
      /\ nodes' = [nodes EXCEPT ![n1].suffix = Rest, ![n1].suffix_len = Len(Rest) % Byte]
  BY DEF KeepSuffix, InLoop, InAdd, HasSuffix, HasChildren, Leave
<1>2. /\ Tree(nodes) /\ Filled /\ n1 \in DOMAIN nodes
      /\ adding \in [key : Keys, at : Nat, node : DOMAIN nodes]
      /\ adding.at <= Len(adding.key)
      /\ Rest \in Seq(Letters) /\ Len(Rest) \in Nat /\ Len(Rest) % Byte = Len(Rest)
  BY <1>1, AddIs
<1>3. PICK rest, left : rest = Rest /\ left = Len(Rest) % Byte OBVIOUS
<1>4. PICK node : node = [nodes[n1] EXCEPT !.suffix = rest, !.suffix_len = left] OBVIOUS
<1>5. nodes' = [nodes EXCEPT ![n1] = node] BY <1>1, <1>2, <1>3, <1>4
<1>6. /\ node \in Node /\ node.keys = <<>> /\ node.children = <<>> /\ nodes[n1].keys = <<>>
      /\ node.suffix_len = Len(node.suffix) /\ node.has_value = nodes[n1].has_value
  <2>1. nodes[n1] \in Node /\ nodes[n1].keys = <<>> BY <1>1, <1>2, NodeIs
  <2>2. rest \in Seq(Letters) /\ left \in Nat /\ left = Len(rest) BY <1>2, <1>3
  <2>3. QED BY <1>1, <1>4, <2>1, <2>2 DEF Node
<1>7. Tree(nodes')
  <2>1. Shape(n1, node) BY <1>6, ChildlessIs
  <2>2. Tree([nodes EXCEPT ![n1] = node]) BY <1>2, <1>6, <2>1, TreeReplaced
  <2>3. QED BY <1>5, <2>2
<1>8. /\ DOMAIN nodes' = DOMAIN nodes /\ n1' = n1
      /\ \A m \in DOMAIN nodes : nodes'[m].has_value = nodes[m].has_value
      /\ \A m \in DOMAIN nodes : m # n1 => nodes'[m] = nodes[m]
  BY <1>1, <1>2, <1>5, <1>6 DEF n1
<1>9. Values(nodes') = Values(nodes) BY <1>8 DEF Values
<1>10. Filled'
  <2>1. ASSUME NEW m \in DOMAIN nodes', ~nodes'[m].has_value, m # n1
        PROVE  nodes'[m].suffix = <<>> /\ (nodes'[m].children # <<>> \/ DOMAIN nodes' = {Root})
    BY <1>1, <1>8, <2>1, OthersAre
  <2>2. QED BY <1>1, <1>2, <1>8, <1>9, <2>1 DEF Filled, HasSuffix, HasChildren, InAdd
<1>11. Adding' BY <1>1, <1>2, <1>8 DEF Adding
<1>12. QED BY <1>7, <1>10, <1>11 DEF RInv

LEMMA SameSuffixStep == ASSUME RInv, SameSuffix PROVE RInv'
<1>1. /\ InAdd /\ call = "add" /\ call' = "added" /\ adding' = adding
      /\ len' = len /\ nodes' = nodes
  BY DEF SameSuffix, InLoop, InAdd, Leave
<1>2. /\ Tree(nodes) /\ Filled /\ n1 \in DOMAIN nodes
      /\ adding \in [key : Keys, at : Nat, node : DOMAIN nodes] /\ adding.at <= Len(adding.key)
  BY <1>1, AddIs
<1>3. n1' = n1 BY <1>1 DEF n1
<1>4. Filled' BY <1>1, <1>2, <1>3 DEF Filled, HasSuffix, HasChildren, InAdd
<1>5. Adding' BY <1>1, <1>2 DEF Adding
<1>6. QED BY <1>1, <1>2, <1>4, <1>5 DEF RInv

\* The nodes where no suffix is in the way, after it was broken out.
LEMMA BreakOut ==
  ASSUME RInv, call = "add", HasSuffix(n1), nodes' = BrokenOut(n1), adding' = adding, len' = len,
         call' \in {"add", "added"}
  PROVE  RInv'
<1>1. InAdd /\ InAdd' BY DEF InAdd
<1>2. /\ Tree(nodes) /\ Filled /\ n1 \in DOMAIN nodes
      /\ adding \in [key : Keys, at : Nat, node : DOMAIN nodes] /\ adding.at <= Len(adding.key)
  BY <1>1, AddIs
<1>3. PICK child : Broken(nodes', n1, child)
  <2>1. PICK b : b = BrokenOut(n1) OBVIOUS
  <2>2. \E child : Broken(b, n1, child) BY <1>2, <2>1, TreeBrokenOut
  <2>3. QED BY <2>1, <2>2
<1>4. /\ Tree(nodes') /\ DOMAIN nodes' = DOMAIN nodes \cup {child} /\ child \notin DOMAIN nodes
      /\ nodes'[child].has_value = nodes[n1].has_value
      /\ nodes'[n1].has_value = FALSE /\ nodes'[n1].suffix = <<>> /\ nodes'[n1].children # <<>>
      /\ \A m \in DOMAIN nodes : m # n1 => nodes'[m] = nodes[m]
  BY <1>3 DEF Broken
<1>5. nodes[n1].has_value
  <2>1. HasSuffix(n1) /\ ~nodes[n1].has_value => call = "added" BY <1>1, <1>2 DEF Filled
  <2>2. nodes[n1].has_value \in BOOLEAN BY <1>2, NodeIs
  <2>3. QED BY <2>1, <2>2
<1>6. n1' = n1 BY DEF n1
<1>7. IsFiniteSet(Values(nodes')) /\ Cardinality(Values(nodes')) = len
  <2>1. PICK V, W : V = Values(nodes) /\ W = V \ {n1} OBVIOUS
  <2>2. Values(nodes') = W \cup {child} BY <1>2, <1>4, <1>5, <2>1 DEF Values
  <2>3. n1 \in V /\ child \notin W /\ IsFiniteSet(V) /\ Cardinality(V) = len
    BY <1>2, <1>4, <1>5, <2>1 DEF Values, Filled
  <2>4. IsFiniteSet(W) /\ Cardinality(W) = len - 1 BY <2>1, <2>3, FS_RemoveElement
  <2>5. IsFiniteSet(W \cup {child}) /\ Cardinality(W \cup {child}) = (len - 1) + 1
    BY <2>3, <2>4, FS_AddElement
  <2>6. len \in Nat BY <2>3, FS_CardinalityType
  <2>7. QED BY <2>2, <2>5, <2>6
<1>8. ASSUME NEW m \in DOMAIN nodes', ~nodes'[m].has_value
      PROVE  nodes'[m].suffix = <<>> /\ (nodes'[m].children # <<>> \/ DOMAIN nodes' = {Root})
  <2>1. CASE m = n1 BY <1>4, <2>1
  <2>2. CASE m # n1
    <3>1. m \in DOMAIN nodes /\ nodes'[m] = nodes[m] BY <1>4, <1>5, <1>8, <2>2
    <3>2. nodes[m].suffix = <<>> /\ (nodes[m].children # <<>> \/ DOMAIN nodes = {Root})
      BY <1>1, <1>8, <2>2, <3>1, OthersAre
    <3>3. DOMAIN nodes # {Root} BY <1>2, <2>2, <3>1, OnlyRoot
    <3>4. QED BY <3>1, <3>2, <3>3
  <2>3. QED BY <2>1, <2>2
<1>9. Filled' BY <1>7, <1>8 DEF Filled, HasSuffix, HasChildren
<1>10. Adding' BY <1>2, <1>4 DEF Adding
<1>11. QED BY <1>4, <1>9, <1>10 DEF RInv

LEMMA OtherSuffixStep == ASSUME RInv, OtherSuffix PROVE RInv'
BY BreakOut DEF OtherSuffix, InLoop

LEMMA LettersEndStep == ASSUME RInv, LettersEnd PROVE RInv'
<1>1. /\ InAdd /\ call = "add" /\ call' = "added" /\ adding' = adding /\ len' = len
      /\ nodes' = IF SplitAtEnd(n1) THEN BrokenOut(n1) ELSE nodes
  BY DEF LettersEnd, Leave, InAdd
<1>2. CASE HasSuffix(n1) BY <1>1, <1>2, BreakOut DEF SplitAtEnd
<1>3. CASE ~HasSuffix(n1)
  <2>1. nodes' = nodes BY <1>1, <1>3 DEF SplitAtEnd
  <2>2. /\ Tree(nodes) /\ Filled /\ n1 \in DOMAIN nodes
        /\ adding \in [key : Keys, at : Nat, node : DOMAIN nodes] /\ adding.at <= Len(adding.key)
    BY <1>1, AddIs
  <2>3. n1' = n1 BY <1>1 DEF n1
  <2>4. Filled' BY <1>1, <2>1, <2>2, <2>3 DEF Filled, HasSuffix, HasChildren, InAdd
  <2>5. Adding' BY <1>1, <2>1, <2>2 DEF Adding
  <2>6. QED BY <2>1, <2>2, <2>4, <2>5 DEF RInv
<1>4. QED BY <1>2, <1>3

\* The node goes on to a child that is there.
GoesTo(c) == adding' = [adding EXCEPT !.at = adding.at + 1, !.node = c] /\ call' = call

LEMMA GoneTo ==
  ASSUME RInv, InAdd, adding.at < Len(adding.key), NEW c, GoesTo(c), c \in DOMAIN nodes'
  PROVE  Adding' /\ n1' = c
<1>1. /\ adding \in [key : Keys, at : Nat, node : DOMAIN nodes] /\ adding.key \in Keys
      /\ adding.at \in Nat
  BY AddIs
<1>2. adding' = [adding EXCEPT !.at = adding.at + 1, !.node = c] BY DEF GoesTo
<1>3. adding'.key = adding.key /\ adding'.at = adding.at + 1 /\ adding'.node = c BY <1>1, <1>2
<1>4. adding' \in [key : Keys, at : Nat, node : DOMAIN nodes']
  <2>1. adding' = [key |-> adding.key, at |-> adding.at + 1, node |-> c] BY <1>1, <1>2
  <2>2. adding.at + 1 \in Nat BY <1>1
  <2>3. QED BY <1>1, <2>1, <2>2
<1>5. adding'.at <= Len(adding'.key)
  <2>1. Len(adding.key) \in Nat BY <1>1, KeysAssumption, SequenceIs
  <2>2. QED BY <1>1, <1>3, <2>1
<1>6. QED BY <1>3, <1>4, <1>5 DEF Adding, n1

\* The letter has no child, and its place is known.
LEMMA NewChildStep ==
  ASSUME RInv, call = "add", adding.at < Len(adding.key), nodes[n1].suffix = <<>>,
         nodes[n1].has_value \/ nodes[n1].children # <<>>,
         NEW p, Belongs(Letter, nodes[n1].keys, p), NewChild(p), len' = len
  PROVE  RInv'
<1>1. InAdd BY DEF InAdd
<1>2. /\ Tree(nodes) /\ Filled /\ n1 \in DOMAIN nodes /\ Letter \in Letters
      /\ nodes[n1].has_value \in BOOLEAN /\ call # "crashed"
  BY <1>1, AddIs, NodeIs
<1>3. CASE NoRoom(n1)
  <2>1. call' = "crashed" /\ nodes' = nodes BY <1>3 DEF NewChild
  <2>2. QED BY <1>2, <2>1 DEF RInv, Filled, Adding, InAdd
<1>4. CASE ~NoRoom(n1)
  <2>1. PICK c : c = Append(n1, Letter) OBVIOUS
  <2>2. nodes' = WithChild(nodes, n1, Letter, p) /\ GoesTo(c)
    BY <1>4, <2>1 DEF NewChild, Go, GoesTo
  <2>3. Grown(nodes', nodes, n1, c)
    <3>1. PICK g : g = WithChild(nodes, n1, Letter, p) OBVIOUS
    <3>2. Grown(g, nodes, n1, c) BY <1>2, <2>1, <3>1, TreeGrown
    <3>3. QED BY <2>2, <3>1, <3>2
  <2>4. /\ Tree(nodes') /\ DOMAIN nodes' = DOMAIN nodes \cup {c} /\ c \notin DOMAIN nodes
        /\ nodes'[c] = NewNode
        /\ nodes'[n1].has_value = nodes[n1].has_value /\ nodes'[n1].suffix = <<>>
        /\ nodes'[n1].children # <<>>
        /\ \A m \in DOMAIN nodes : m # n1 => nodes'[m] = nodes[m]
    BY <2>3 DEF Grown
  <2>5. Adding' /\ n1' = c BY <1>1, <2>2, <2>4, GoneTo
  <2>6. call' = "add" /\ InAdd' BY <2>2 DEF GoesTo, InAdd
  <2>7. Values(nodes') = Values(nodes) BY <2>4, NewNodeIs DEF Values
  <2>8. ASSUME NEW m \in DOMAIN nodes', ~nodes'[m].has_value
        PROVE  /\ nodes'[m].suffix = <<>>
               /\ nodes'[m].children # <<>> \/ m = c \/ DOMAIN nodes' = {Root}
    <3>1. CASE m = c BY <2>4, <3>1, NewNodeIs
    <3>2. CASE m = n1 BY <2>4, <3>2
    <3>3. CASE m # n1 /\ m # c
      <4>1. m \in DOMAIN nodes /\ nodes'[m] = nodes[m] BY <2>4, <3>3
      <4>2. nodes[m].suffix = <<>> /\ (nodes[m].children # <<>> \/ DOMAIN nodes = {Root})
        BY <1>1, <2>8, <3>3, <4>1, OthersAre
      <4>3. DOMAIN nodes # {Root} BY <1>2, <3>3, <4>1, OnlyRoot
      <4>4. QED BY <4>1, <4>2, <4>3
    <3>4. QED BY <3>1, <3>2, <3>3
  <2>9. Filled' BY <1>2, <2>5, <2>6, <2>7, <2>8 DEF Filled, HasSuffix, HasChildren
  <2>10. QED BY <2>4, <2>5, <2>9 DEF RInv
<1>5. QED BY <1>3, <1>4

LEMMA BelowValueStep == ASSUME RInv, BelowValue PROVE RInv'
<1>1. /\ call = "add" /\ adding.at < Len(adding.key) /\ nodes[n1].suffix = <<>>
      /\ nodes[n1].children = <<>> /\ nodes[n1].has_value /\ NewChild(0) /\ len' = len
  BY DEF BelowValue, InLoop, HasSuffix, HasChildren
<1>2. Tree(nodes) /\ n1 \in DOMAIN nodes BY <1>1, AddIs DEF InAdd
<1>3. nodes[n1].keys = <<>> BY <1>1, <1>2, NodeIs
<1>4. Belongs(Letter, nodes[n1].keys, 0)
  <2>1. Len(nodes[n1].keys) = 0 BY <1>3
  <2>2. QED BY <2>1 DEF Belongs
<1>5. QED BY <1>1, <1>4, NewChildStep

LEMMA ChildForIs ==
  ASSUME RInv, ChildFor
  PROVE  /\ InAdd /\ call = "add" /\ adding.at < Len(adding.key) /\ len' = len
         /\ nodes[n1].children # <<>> /\ nodes[n1].suffix = <<>>
         /\ \/ \E p : Belongs(Letter, nodes[n1].keys, p) /\ NewChild(p)
            \/ \E c : c = Append(n1, Letter) /\ c \in DOMAIN nodes /\ nodes' = nodes /\ GoesTo(c)
<1>1. PICK p, keys : p = Bisect(n1, Letter) /\ keys = nodes[n1].keys OBVIOUS
<1>2. /\ call = "add" /\ InAdd /\ adding.at < Len(adding.key) /\ nodes[n1].children # <<>>
      /\ len' = len
      /\ IF p < Len(keys) /\ keys[p + 1] = Letter
           THEN Go(nodes[n1].children[p + 1]) /\ nodes' = nodes
           ELSE NewChild(p)
  BY <1>1 DEF ChildFor, InLoop, InAdd, HasChildren
<1>3. Tree(nodes) /\ Filled /\ n1 \in DOMAIN nodes /\ Letter \in Letters BY <1>2, AddIs
<1>4. /\ keys \in Seq(Letters) /\ Increasing(keys) /\ nodes[n1].suffix = <<>>
      /\ nodes[n1].children = [i \in DOMAIN keys |-> Append(n1, keys[i])]
      /\ \A i \in DOMAIN keys : Append(n1, keys[i]) \in DOMAIN nodes
  <2>1. /\ nodes[n1].keys \in Seq(Letters) /\ Increasing(nodes[n1].keys)
        /\ nodes[n1].children = [i \in DOMAIN nodes[n1].keys |-> Append(n1, nodes[n1].keys[i])]
        /\ \A i \in DOMAIN nodes[n1].keys : Append(n1, nodes[n1].keys[i]) \in DOMAIN nodes
        /\ Shape(n1, nodes[n1])
    BY <1>3, NodeIs
  <2>2. nodes[n1].suffix = <<>> BY <1>2, <2>1 DEF Shape
  <2>3. QED BY <1>1, <2>1, <2>2
<1>5. Len(keys) \in Nat /\ DOMAIN keys = 1 .. Len(keys) /\ \A i \in 1 .. Len(keys) : keys[i] \in Letters
  BY <1>4, SequenceIs
<1>6. /\ p \in 0 .. Len(keys)
      /\ \A i \in 1 .. p : keys[i] < Letter
      /\ \A i \in p + 1 .. Len(keys) : Letter <= keys[i]
  <2>1. /\ Bisect(n1, Letter) \in 0 .. Len(keys)
        /\ \A i \in 1 .. Bisect(n1, Letter) : keys[i] < Letter
        /\ \A i \in Bisect(n1, Letter) + 1 .. Len(keys) : Letter <= keys[i]
    BY <1>1, <1>3, <1>4, BisectPlaces
  <2>2. QED BY <1>1, <2>1
<1>7. CASE p < Len(keys) /\ keys[p + 1] = Letter
  <2>1. PICK c : c = nodes[n1].children[p + 1] OBVIOUS
  <2>2. p + 1 \in DOMAIN keys BY <1>5, <1>6, <1>7
  <2>3. nodes' = nodes /\ GoesTo(c) BY <1>2, <1>7, <2>1 DEF Go, GoesTo
  <2>4. c \in DOMAIN nodes /\ c = Append(n1, Letter) BY <1>4, <1>7, <2>1, <2>2
  <2>5. QED BY <1>2, <1>4, <2>3, <2>4
<1>8. CASE ~(p < Len(keys) /\ keys[p + 1] = Letter)
  <2>1. \A i \in p + 1 .. Len(keys) : Letter < keys[i]
    <3>1. SUFFICES ASSUME NEW i \in p + 1 .. Len(keys) PROVE Letter < keys[i] OBVIOUS
    <3>2. p < Len(keys) /\ p + 1 \in 1 .. Len(keys) /\ p + 1 \in p + 1 .. Len(keys) /\ i \in 1 .. Len(keys)
      BY <1>5, <1>6
    <3>3. keys[p + 1] \in Int /\ keys[i] \in Int /\ Letter \in Int BY <1>3, <1>5, <3>2, LettersAre
    <3>4. Letter < keys[p + 1] BY <1>6, <1>8, <3>2, <3>3
    <3>5. CASE i = p + 1 BY <3>4, <3>5
    <3>6. CASE i # p + 1
      <4>1. p + 1 < i BY <1>6, <3>6
      <4>2. keys[p + 1] < keys[i] BY <1>4, <1>5, <3>2, <4>1 DEF Increasing
      <4>3. QED BY <3>3, <3>4, <4>2
    <3>7. QED BY <3>5, <3>6
  <2>2. Belongs(Letter, nodes[n1].keys, p) BY <1>1, <1>6, <2>1 DEF Belongs
  <2>3. NewChild(p) BY <1>2, <1>8
  <2>4. QED BY <1>2, <1>4, <2>2, <2>3
<1>9. QED BY <1>7, <1>8

LEMMA ChildForStep == ASSUME RInv, ChildFor PROVE RInv'
<1>1. /\ InAdd /\ call = "add" /\ adding.at < Len(adding.key) /\ len' = len
      /\ nodes[n1].children # <<>> /\ nodes[n1].suffix = <<>>
  BY ChildForIs
<1>2. Tree(nodes) /\ Filled /\ n1 \in DOMAIN nodes BY <1>1, AddIs
<1>3. ASSUME NEW c, c = Append(n1, Letter), c \in DOMAIN nodes, nodes' = nodes, GoesTo(c) PROVE RInv'
  <2>1. Adding' /\ n1' = c BY <1>1, <1>3, GoneTo
  <2>2. call' = "add" BY <1>1, <1>3 DEF GoesTo
  <2>3. ASSUME NEW m \in DOMAIN nodes, ~nodes[m].has_value
        PROVE  nodes[m].suffix = <<>> /\ (nodes[m].children # <<>> \/ DOMAIN nodes = {Root})
    <3>1. CASE m = n1 BY <1>1, <3>1
    <3>2. CASE m # n1 BY <1>1, <2>3, <3>2, OthersAre
    <3>3. QED BY <3>1, <3>2
  <2>4. Filled' BY <1>1, <1>2, <1>3, <2>2, <2>3 DEF Filled, HasSuffix, HasChildren
  <2>5. QED BY <1>2, <1>3, <2>1, <2>4 DEF RInv
<1>4. ASSUME NEW p, Belongs(Letter, nodes[n1].keys, p), NewChild(p) PROVE RInv'
  BY <1>1, <1>4, NewChildStep
<1>5. QED BY <1>3, <1>4, ChildForIs

LEMMA FinishAddStep == ASSUME RInv, FinishAdd PROVE RInv'
<1>1. /\ call = "added" /\ InAdd /\ call' = "none"
      /\ IF ~nodes[n1].has_value
           THEN /\ nodes' = [nodes EXCEPT ![n1].has_value = TRUE, ![n1].result = Buffer(adding.key)]
                /\ len' = len + 1
           ELSE nodes' = nodes /\ len' = len
  BY DEF FinishAdd, InAdd
<1>2. Tree(nodes) /\ Filled /\ n1 \in DOMAIN nodes /\ adding.key \in Keys BY <1>1, AddIs
<1>3. Adding' BY <1>1 DEF Adding, InAdd
<1>4. CASE nodes[n1].has_value
  <2>1. \A m \in DOMAIN nodes : ~nodes[m].has_value =>
          nodes[m].suffix = <<>> /\ (nodes[m].children # <<>> \/ DOMAIN nodes = {Root})
    BY <1>1, <1>4, OthersAre
  <2>2. Filled' BY <1>1, <1>2, <1>4, <2>1 DEF Filled, HasSuffix, HasChildren
  <2>3. QED BY <1>1, <1>2, <1>3, <1>4, <2>2 DEF RInv
<1>5. CASE ~nodes[n1].has_value
  <2>1. PICK node : node = [nodes[n1] EXCEPT !.has_value = TRUE, !.result = Buffer(adding.key)] OBVIOUS
  <2>2. nodes' = [nodes EXCEPT ![n1] = node] /\ len' = len + 1 BY <1>1, <1>2, <1>5, <2>1
  <2>3. nodes[n1] \in Node /\ Shape(n1, nodes[n1]) BY <1>2, NodeIs
  <2>4. /\ node \in Node /\ node.has_value = TRUE /\ node.keys = nodes[n1].keys
        /\ node.children = nodes[n1].children /\ node.suffix = nodes[n1].suffix
        /\ node.suffix_len = nodes[n1].suffix_len
    <3>1. PICK r : r = Buffer(adding.key) OBVIOUS
    <3>2. r \in Buffers BY <1>2, <3>1 DEF Buffers
    <3>3. QED BY <1>2, <2>1, <2>3, <3>1, <3>2 DEF Node
  <2>5. Shape(n1, node) BY <2>3, <2>4 DEF Shape
  <2>6. Tree(nodes')
    <3>1. Tree([nodes EXCEPT ![n1] = node]) BY <1>2, <2>4, <2>5, TreeReplaced
    <3>2. QED BY <2>2, <3>1
  <2>7. /\ DOMAIN nodes' = DOMAIN nodes /\ nodes'[n1].has_value = TRUE
        /\ \A m \in DOMAIN nodes : m # n1 => nodes'[m] = nodes[m]
    BY <1>2, <2>2, <2>4
  <2>8. IsFiniteSet(Values(nodes')) /\ Cardinality(Values(nodes')) = len'
    <3>1. Values(nodes') = Values(nodes) \cup {n1} BY <1>2, <2>7 DEF Values
    <3>2. n1 \notin Values(nodes) /\ IsFiniteSet(Values(nodes)) /\ Cardinality(Values(nodes)) = len
      BY <1>2, <1>5 DEF Values, Filled
    <3>3. PICK V : V = Values(nodes) OBVIOUS
    <3>4. IsFiniteSet(V \cup {n1}) /\ Cardinality(V \cup {n1}) = len + 1
      BY <3>2, <3>3, FS_AddElement
    <3>5. QED BY <2>2, <3>1, <3>3, <3>4
  <2>9. ASSUME NEW m \in DOMAIN nodes', ~nodes'[m].has_value
        PROVE  nodes'[m].suffix = <<>> /\ (nodes'[m].children # <<>> \/ DOMAIN nodes' = {Root})
    <3>1. m # n1 /\ m \in DOMAIN nodes /\ nodes'[m] = nodes[m] BY <2>7, <2>9
    <3>2. QED BY <1>1, <2>7, <2>9, <3>1, OthersAre
  <2>10. Filled' BY <2>8, <2>9 DEF Filled, HasSuffix, HasChildren
  <2>11. QED BY <1>3, <2>6, <2>10 DEF RInv
<1>6. QED BY <1>4, <1>5

-----------------------------------------------------------------------------
\* The theorems

\* What leaves the nodes alone, and does not add.
LEMMA NodesStay ==
  ASSUME RInv, Open => nodes' = nodes /\ len' = len /\ ~InAdd',
         call = "crashed" => call' = "crashed", call \notin {"add", "added"} \/ ~Open', Open' => Open
  PROVE  RInv'
<1>1. SUFFICES ASSUME Open' PROVE Tree(nodes') /\ Adding' /\ Filled' BY DEF RInv
<1>2. Tree(nodes) /\ Filled /\ nodes' = nodes /\ len' = len /\ ~InAdd' /\ ~InAdd
  BY <1>1 DEF RInv, InAdd
<1>3. Adding' BY <1>2 DEF Adding
<1>4. Filled' BY <1>2 DEF Filled, HasSuffix, HasChildren, InAdd
<1>5. QED BY <1>2, <1>3, <1>4

LEMMA StartAddStep == ASSUME RInv, NEW k \in Keys, StartAdd(k) PROVE RInv'
<1>1. /\ call = "none" /\ call' = "add" /\ nodes' = nodes /\ len' = len
      /\ adding' = [key |-> k, at |-> 0, node |-> Root]
  BY DEF StartAdd
<1>2. Tree(nodes) /\ Filled BY <1>1 DEF RInv, Open
<1>3. Adding'
  <2>1. Root \in DOMAIN nodes BY <1>2 DEF Tree
  <2>2. Len(k) \in Nat BY KeysAssumption, SequenceIs
  <2>3. QED BY <1>1, <2>1, <2>2 DEF Adding
<1>4. Filled' BY <1>1, <1>2 DEF Filled, HasSuffix, HasChildren, InAdd
<1>5. QED BY <1>1, <1>2, <1>3, <1>4 DEF RInv

LEMMA EnterStep == ASSUME RInv, Enter PROVE RInv'
<1>1. call \in {"next", "close"} /\ nodes' = nodes /\ len' = len BY DEF Enter, Walking
<1>2. (call' = "between" /\ call = "next") \/ call' = call BY DEF Enter
<1>3. QED BY <1>1, <1>2, NodesStay DEF Open, InAdd

LEMMA LeaveNodeStep == ASSUME RInv, LeaveNode PROVE RInv'
<1>1. /\ call \in {"next", "close"} /\ call' = call /\ len' = len
      /\ call = "next" => nodes' = nodes
  BY DEF LeaveNode, Walking
<1>2. QED BY <1>1, NodesStay DEF Open, InAdd

LEMMA RInvStep == ASSUME RInv, Next PROVE RInv'
<1>1. ASSUME NEW k \in Keys, StartAdd(k) PROVE RInv' BY <1>1, StartAddStep
<1>2. ASSUME NEW k \in Keys, Get(k) PROVE RInv'
  BY <1>2, NodesStay DEF Get, Open, InAdd
<1>3. CASE Iter BY <1>3, NodesStay DEF Iter, Idle, Open, InAdd
<1>4. CASE StartNext BY <1>4, NodesStay DEF StartNext, Open, InAdd
<1>5. CASE StartClose BY <1>5, NodesStay DEF StartClose, Idle, Open, InAdd
<1>6. CASE NoMoreKeys BY <1>6, NodesStay DEF NoMoreKeys, Open, InAdd
<1>7. CASE FinishClose BY <1>7, NodesStay DEF FinishClose, Open, InAdd
<1>8. CASE KeepSuffix BY <1>8, KeepSuffixStep
<1>9. CASE BelowValue BY <1>9, BelowValueStep
<1>10. CASE SameSuffix BY <1>10, SameSuffixStep
<1>11. CASE OtherSuffix BY <1>11, OtherSuffixStep
<1>12. CASE ChildFor BY <1>12, ChildForStep
<1>13. CASE LettersEnd BY <1>13, LettersEndStep
<1>14. CASE FinishAdd BY <1>14, FinishAddStep
<1>15. CASE Enter BY <1>15, EnterStep
<1>16. CASE LeaveNode BY <1>16, LeaveNodeStep
<1>17. QED
  BY <1>1, <1>2, <1>3, <1>4, <1>5, <1>6, <1>7, <1>8, <1>9, <1>10, <1>11, <1>12, <1>13,
     <1>14, <1>15, <1>16
  DEF Next, Calls, Steps

RtrieVars == <<nodes, len, call, adding>>

LEMMA RInvStutter == ASSUME RInv, UNCHANGED RtrieVars PROVE RInv'
<1>1. nodes' = nodes /\ len' = len /\ call' = call /\ adding' = adding BY DEF RtrieVars
<1>2. (Open' <=> Open) /\ (Tree(nodes') <=> Tree(nodes)) BY <1>1 DEF Open
<1>3. Adding' <=> Adding BY <1>1 DEF Adding, InAdd, n1
<1>4. Filled' <=> Filled BY <1>1 DEF Filled, HasSuffix, HasChildren, InAdd, n1
<1>5. QED BY <1>2, <1>3, <1>4 DEF RInv

\* These are steps of the radix trie.
LEMMA TrieSteps ==
  ASSUME InRtrie \/ CloseRtrie \/ CountNext \/ \E i \in 0 .. MaxKeys : StartCount(i)
  PROVE  Next
<1>1. CASE InRtrie BY <1>1 DEF InRtrie, Next
<1>2. CASE CloseRtrie BY <1>2 DEF CloseRtrie, Next, Steps
<1>3. CASE CountNext BY <1>3 DEF CountNext, Next
<1>4. ASSUME NEW i \in 0 .. MaxKeys, StartCount(i) PROVE Next BY <1>4 DEF StartCount, Next
<1>5. QED BY <1>1, <1>2, <1>3, <1>4

LEMMA RInvTStep == ASSUME RInv, TNext \/ UNCHANGED tvars PROVE RInv'
<1>1. CASE InRtrie BY <1>1, TrieSteps, RInvStep
<1>2. CASE StartOptimize BY <1>2, RInvStutter DEF StartOptimize, RtrieVars
<1>3. CASE ConvertSubtrie
  <2>1. Idle /\ nodes' = nodes /\ len' = len /\ adding' = adding
        /\ (call' = "crashed" \/ call' = call)
    BY <1>3 DEF ConvertSubtrie
  <2>2. CASE call' = "crashed" BY <2>1, <2>2, NodesStay DEF Idle, Open, InAdd
  <2>3. CASE call' = call BY <2>1, <2>3, RInvStutter DEF RtrieVars
  <2>4. QED BY <2>1, <2>2, <2>3
<1>4. CASE CloseRtrie BY <1>4, TrieSteps, RInvStep
<1>5. CASE ExchangeNext BY <1>5, RInvStutter DEF ExchangeNext, RtrieVars
<1>6. CASE LookNext BY <1>6, RInvStutter DEF LookNext, RtrieVars
<1>7. CASE WalkUp BY <1>7, RInvStutter DEF WalkUp, vars, RtrieVars
<1>8. CASE NoKeyThere BY <1>8, RInvStutter DEF NoKeyThere, RtrieVars
<1>9. CASE WriteTtrie BY <1>9, RInvStutter DEF WriteTtrie, vars, RtrieVars
<1>10. CASE CloseTable BY <1>10, RInvStutter DEF CloseTable, RtrieVars
<1>11. CASE OpenReader BY <1>11, RInvStutter DEF OpenReader, vars, RtrieVars
<1>12. ASSUME NEW k \in Keys, GetConverted(k) PROVE RInv'
  BY <1>12, RInvStutter DEF GetConverted, RtrieVars
<1>13. ASSUME NEW i \in 0 .. MaxKeys, StartKeyAt(i) PROVE RInv'
  BY <1>13, RInvStutter DEF StartKeyAt, RtrieVars
<1>14. CASE UNCHANGED tvars BY <1>14, RInvStutter DEF tvars, vars, RtrieVars
<1>15. ASSUME NEW i \in 0 .. MaxKeys, StartCount(i) PROVE RInv' BY <1>15, TrieSteps, RInvStep
<1>16. CASE CountNext BY <1>16, TrieSteps, RInvStep
<1>17. CASE FinishCount
  <2>1. nodes' = nodes /\ len' = len /\ call \in {"none", "between"} /\ call' = "none"
    BY <1>17 DEF FinishCount
  <2>2. QED BY <2>1, NodesStay DEF Open, InAdd
<1>18. QED
  BY <1>1, <1>2, <1>3, <1>4, <1>5, <1>6, <1>7, <1>8, <1>9, <1>10, <1>11, <1>12, <1>13, <1>14,
     <1>15, <1>16, <1>17
  DEF TNext

LEMMA RInvInit == Init => RInv
<1>1. SUFFICES ASSUME Init PROVE RInv OBVIOUS
<1>2. DOMAIN nodes = {Root} /\ nodes[Root] = NewNode /\ len = 0 /\ call = "none"
  BY <1>1 DEF Init
<1>3. Tree(nodes)
  <2>1. Shape(Root, NewNode) BY NewNodeIs, ChildlessIs
  <2>2. Root \in Seq(Letters) BY DEF Root
  <2>3. DOMAIN NewNode.keys = {} BY NewNodeIs
  <2>4. QED BY <1>2, <2>1, <2>2, <2>3 DEF Tree
<1>4. Values(nodes) = {} BY <1>2, NewNodeIs DEF Values
<1>5. Filled
  <2>1. IsFiniteSet({}) /\ Cardinality({}) = 0 BY FS_EmptySet
  <2>2. QED BY <1>2, <1>4, <2>1, NewNodeIs DEF Filled, HasSuffix
<1>6. Adding BY <1>2 DEF Adding, InAdd
<1>7. QED BY <1>3, <1>5, <1>6 DEF RInv

LEMMA RInvIsInOrder == RInv => InOrder
<1>1. SUFFICES ASSUME RInv, Open
               PROVE  /\ \A n \in InMemory :
                           LET keys == nodes[n].keys IN
                           /\ \A i \in 1 .. Len(keys) - 1 : keys[i] < keys[i + 1]
                           /\ nodes[n].children = [i \in DOMAIN keys |-> Append(n, keys[i])]
                      /\ \A n \in InMemory \ {Root} : n \in ToSet(nodes[Front(n)].children)
  BY DEF InOrder, Open
<1>2. Tree(nodes) BY <1>1 DEF RInv
<1>3. ASSUME NEW n \in DOMAIN nodes
      PROVE  /\ \A i \in 1 .. Len(nodes[n].keys) - 1 : nodes[n].keys[i] < nodes[n].keys[i + 1]
             /\ nodes[n].children = [i \in DOMAIN nodes[n].keys |-> Append(n, nodes[n].keys[i])]
  <2>1. PICK keys : keys = nodes[n].keys OBVIOUS
  <2>2. keys \in Seq(Letters) /\ Increasing(keys) BY <1>2, <2>1, NodeIs
  <2>3. Len(keys) \in Nat /\ DOMAIN keys = 1 .. Len(keys) BY <2>2, SequenceIs
  <2>4. ASSUME NEW i \in 1 .. Len(keys) - 1 PROVE keys[i] < keys[i + 1]
    <3>1. i \in DOMAIN keys /\ i + 1 \in DOMAIN keys /\ i < i + 1 BY <2>3
    <3>2. QED BY <2>2, <3>1 DEF Increasing
  <2>5. nodes[n].children = [i \in DOMAIN nodes[n].keys |-> Append(n, nodes[n].keys[i])]
    BY <1>2, NodeIs
  <2>6. QED BY <2>1, <2>4, <2>5
<1>4. ASSUME NEW m \in DOMAIN nodes \ {Root} PROVE m \in ToSet(nodes[Front(m)].children)
  <2>1. PICK n \in DOMAIN nodes : \E i \in DOMAIN nodes[n].keys : m = Append(n, nodes[n].keys[i])
    BY <1>2 DEF Tree
  <2>2. PICK i \in DOMAIN nodes[n].keys : m = Append(n, nodes[n].keys[i]) BY <2>1
  <2>3. /\ n \in Seq(Letters) /\ nodes[n].keys \in Seq(Letters)
        /\ nodes[n].children = [j \in DOMAIN nodes[n].keys |-> Append(n, nodes[n].keys[j])]
    BY <1>2, NodeIs
  <2>4. PICK letter : letter = nodes[n].keys[i] OBVIOUS
  <2>5. letter \in Letters BY <2>3, <2>4, SequenceIs
  <2>6. Front(Append(n, letter)) = n BY <2>3, <2>5, ParentIs
  <2>7. Front(m) = n BY <2>2, <2>4, <2>6
  <2>8. i \in DOMAIN nodes[n].children /\ nodes[n].children[i] = m BY <2>2, <2>3
  <2>9. QED BY <2>7, <2>8 DEF ToSet
<1>5. QED BY <1>3, <1>4 DEF InMemory

LEMMA RInvIsConvertible == RInv => Convertible
<1>1. SUFFICES ASSUME RInv, Idle, len > 0
               PROVE  /\ \A n \in InMemory : ~HasChildren(n) => nodes[n].has_value
                      /\ Cardinality({n \in InMemory : nodes[n].has_value}) = len
  BY DEF Convertible
<1>2. Open /\ ~InAdd /\ call # "crashed" BY <1>1 DEF Idle, Open, InAdd
<1>3. Tree(nodes) /\ Filled BY <1>1, <1>2 DEF RInv
<1>4. Cardinality({n \in InMemory : nodes[n].has_value}) = len
  BY <1>3 DEF Filled, Values, InMemory
<1>5. ASSUME NEW n \in DOMAIN nodes, ~HasChildren(n) PROVE nodes[n].has_value
  <2>1. SUFFICES ASSUME ~nodes[n].has_value PROVE FALSE OBVIOUS
  <2>2. DOMAIN nodes = {Root} BY <1>2, <1>3, <1>5, <2>1 DEF Filled
  <2>3. Values(nodes) = {} BY <2>1, <2>2 DEF Values
  <2>4. Cardinality(Values(nodes)) = 0 BY <2>3, FS_EmptySet
  <2>5. QED BY <1>1, <1>3, <2>4 DEF Filled
<1>6. QED BY <1>4, <1>5 DEF InMemory

\* The nodes are a tree in order, and hold as many values as were counted, through
\* every call of rtrie.c and of the ttrie.c that reads it.
THEOREM RtrieInvariantHolds == TSpec => []RInv
<1>1. TInit => RInv BY RInvInit DEF TInit
<1>2. RInv /\ [TNext]_tvars => RInv' BY RInvTStep
<1>3. QED BY <1>1, <1>2, PTL DEF TSpec

\* rtrie.c:86-94: children are beside their letters, in the order of the letters, and
\* each node is a child of the one its letters without the last lead to.
THEOREM TrieInOrder == TSpec => []InOrder
<1>1. RInv => InOrder BY RInvIsInOrder
<1>2. QED BY <1>1, RtrieInvariantHolds, PTL

\* ttrie.c:1439 and ttrie.c:1512: between calls a trie with a key has none of the nodes
\* the conversion has no table for.
THEOREM TrieConvertible == TSpec => []Convertible
<1>1. RInv => Convertible BY RInvIsConvertible
<1>2. QED BY <1>1, RtrieInvariantHolds, PTL

-----------------------------------------------------------------------------
(***************************************************************************)
(* The file                                                                *)
(***************************************************************************)

\* An array of as many cells is read as it was written.
LEMMA ArrayIs ==
  ASSUME NEW S, NEW s \in Seq(S), NEW cells, NEW o \in Nat, LiesAt(cells, o, s)
  PROVE  Array(cells, o, Len(s)) = Read(s, o + Len(s))
<1>1. PICK n : n = Len(s) OBVIOUS
<1>2. n \in Nat /\ \A j \in 1 .. n : s[j] \in S /\ cells[o + j - 1] = s[j] BY <1>1 DEF LiesAt
<1>3. PICK m : m = o + n - 1 OBVIOUS
<1>4. m \in Int /\ (IF o <= m THEN m - o + 1 ELSE 0) = n /\ 1 .. m - o + 1 = 1 .. n BY <1>2, <1>3
<1>5. \A i \in o .. m : cells[i] \in S
  <2>1. ASSUME NEW i \in o .. m PROVE cells[i] \in S
    <3>1. i - o + 1 \in 1 .. n /\ o + (i - o + 1) - 1 = i BY <1>2, <1>3
    <3>2. QED BY <1>2, <3>1
  <2>2. QED BY <2>1
<1>6. PICK t : t = SubSeq(cells, o, m) OBVIOUS
<1>7. t \in Seq(S) /\ Len(t) = n /\ \A j \in 1 .. n : t[j] = cells[o + j - 1]
  BY <1>4, <1>5, <1>6, SubSeqProperties
<1>8. t = s BY <1>1, <1>2, <1>7, SeqEqual
<1>9. QED BY <1>1, <1>3, <1>6, <1>8 DEF Array

LEMMA CountedIs ==
  ASSUME NEW S, Int \subseteq S, NEW x \in Int, NEW s \in Seq(S)
  PROVE  <<x>> \o s \in Seq(S) /\ Len(<<x>> \o s) = 1 + Len(s) /\ <<x>> \in Seq(S) /\ Len(<<x>>) = 1
<1>1. <<x>> \in Seq(S) /\ Len(<<x>>) = 1 OBVIOUS
<1>2. QED BY <1>1, ConcatProperties

\* Strings are read as they were written.
LEMMA StringsAre ==
  ASSUME NEW S, Int \subseteq S, NEW ss \in Seq(Seq(S)), NEW cells, NEW o \in Nat \ {0},
         LiesAt(cells, o, Strings(ss))
  PROVE  /\ Strings(ss) \in Seq(S)
         /\ ReadStrings(cells, o, Len(ss)) = Read(ss, o + Len(Strings(ss)))
<1> DEFINE n == Len(ss)
           parts == [i \in 1 .. n |-> <<Len(ss[i])>> \o ss[i]]
           Turn(f, i) ==
             IF i = 0 THEN Read(<<>>, o)
             ELSE LET before == f[i - 1]
                      string == Array(cells, before.offset + 1, cells[before.offset]) IN
                  Read(Append(before.value, string.value), string.offset)
           strings == CHOOSE f : f = [i \in 0 .. n |-> Turn(f, i)]
<1>1. n \in Nat /\ DOMAIN ss = 1 .. n /\ \A i \in 1 .. n : ss[i] \in Seq(S) /\ Len(ss[i]) \in Nat
  OBVIOUS
<1>2. ReadStrings(cells, o, n) = strings[n] BY DEF ReadStrings
<1>3. Strings(ss) = FlattenSeq(parts) BY <1>1 DEF Strings
<1>4. \A i \in 1 .. n : parts[i] = <<Len(ss[i])>> \o ss[i] OBVIOUS
<1>5. parts \in Seq(Seq(S)) /\ Len(parts) = n
  <2>1. ASSUME NEW i \in 1 .. n PROVE <<Len(ss[i])>> \o ss[i] \in Seq(S)
    <3>1. Len(ss[i]) \in Int /\ ss[i] \in Seq(S) BY <1>1
    <3>2. QED BY <3>1, CountedIs
  <2>2. QED BY <1>1, <2>1
<1> HIDE DEF n, parts, strings, Turn
<1>6. PICK off : Laid(S, parts, Strings(ss), off) BY <1>3, <1>5, FlattenIs
<1>7. /\ Strings(ss) \in Seq(S) /\ off \in [0 .. n -> Nat] /\ off[0] = 0
      /\ off[n] = Len(Strings(ss))
  BY <1>5, <1>6 DEF Laid
<1>8. ASSUME NEW i \in 1 .. n
      PROVE  Array(cells, o + off[i - 1] + 1, cells[o + off[i - 1]]) = Read(ss[i], o + off[i])
  <2>1. /\ off[i - 1] \in Nat /\ off[i] = off[i - 1] + Len(parts[i])
        /\ LiesAt(cells, o + off[i - 1], parts[i])
    BY <1>5, <1>6, PartsLie
  <2>2. PICK p, x, s : p = o + off[i - 1] /\ s = ss[i] /\ x = Len(ss[i]) OBVIOUS
  <2>3. p \in Nat /\ s \in Seq(S) /\ x \in Int /\ x = Len(s) BY <1>1, <2>1, <2>2
  <2>4. LiesAt(cells, p, <<x>> \o s) BY <1>4, <2>1, <2>2
  <2>5. <<x>> \in Seq(S) /\ Len(<<x>>) = 1 /\ Len(<<x>> \o s) = 1 + x BY <2>3, CountedIs
  <2>6. LiesAt(cells, p, <<x>>) /\ LiesAt(cells, p + 1, s) BY <2>3, <2>4, <2>5, LiesApart
  <2>7. cells[p] = x BY <2>3, <2>6, LiesAlone
  <2>8. Array(cells, p + 1, x) = Read(s, (p + 1) + x) BY <2>3, <2>6, ArrayIs
  <2>9. (p + 1) + x = o + off[i]
    <3>1. Len(parts[i]) = 1 + x BY <1>4, <2>2, <2>5
    <3>2. PICK a, b, l : a = off[i - 1] /\ b = off[i] /\ l = Len(parts[i]) OBVIOUS
    <3>3. a \in Nat /\ b = a + l /\ l = 1 + x /\ p = o + a /\ x \in Int /\ o \in Nat
      BY <2>1, <2>2, <2>3, <3>1, <3>2
    <3>4. (p + 1) + x = o + b BY <3>3
    <3>5. QED BY <3>2, <3>4
  <2>10. QED BY <2>2, <2>7, <2>8, <2>9
<1> DEFINE sofar == [i \in 0 .. n |-> Read(SubSeq(ss, 1, i), o + off[i])]
<1>9. /\ SubSeq(ss, 1, 0) = <<>> /\ SubSeq(ss, 1, n) = ss
      /\ \A i \in 1 .. n : Append(SubSeq(ss, 1, i - 1), ss[i]) = SubSeq(ss, 1, i)
  BY SubSeqGrows DEF n
<1>10. ASSUME NEW f, NEW i \in 0 .. n, i # 0 => f[i - 1] = sofar[i - 1]
       PROVE  Turn(f, i) = sofar[i]
  <2>1. CASE i = 0
    <3>1. Turn(f, 0) = Read(<<>>, o) BY DEF Turn
    <3>2. sofar[0] = Read(<<>>, o + 0)
      <4>1. 0 \in 0 .. n BY <1>1
      <4>2. sofar[0] = Read(SubSeq(ss, 1, 0), o + off[0]) BY <4>1
      <4>3. QED BY <1>7, <1>9, <4>2
    <3>3. o + 0 = o OBVIOUS
    <3>4. QED BY <2>1, <3>1, <3>2, <3>3
  <2>2. CASE i # 0
    <3>1. i \in 1 .. n /\ i - 1 \in 0 .. n BY <1>1, <2>2
    <3>2. f[i - 1] = Read(SubSeq(ss, 1, i - 1), o + off[i - 1]) BY <1>10, <2>2, <3>1
    <3>3. f[i - 1].value = SubSeq(ss, 1, i - 1) /\ f[i - 1].offset = o + off[i - 1]
      BY <3>2 DEF Read
    <3>4. Turn(f, i) = LET string == Array(cells, o + off[i - 1] + 1, cells[o + off[i - 1]]) IN
                       Read(Append(SubSeq(ss, 1, i - 1), string.value), string.offset)
      BY <2>2, <3>3 DEF Turn
    <3>5. Turn(f, i) = Read(Append(SubSeq(ss, 1, i - 1), ss[i]), o + off[i])
      <4>1. PICK r : r = Array(cells, o + off[i - 1] + 1, cells[o + off[i - 1]]) OBVIOUS
      <4>2. r = Read(ss[i], o + off[i]) BY <1>8, <3>1, <4>1
      <4>3. r.value = ss[i] /\ r.offset = o + off[i] BY <4>2 DEF Read
      <4>4. Turn(f, i) = Read(Append(SubSeq(ss, 1, i - 1), r.value), r.offset) BY <3>4, <4>1
      <4>5. QED BY <4>3, <4>4
    <3>6. QED BY <1>9, <3>1, <3>5
  <2>3. QED BY <2>1, <2>2
<1>11. strings = [i \in 0 .. n |-> Turn(strings, i)]
  <2>1. \A i \in 0 .. n : i # 0 => sofar[i - 1] = sofar[i - 1] OBVIOUS
  <2> HIDE DEF sofar
  <2>2. \A i \in 0 .. n : Turn(sofar, i) = sofar[i] BY <1>10
  <2>3. sofar = [i \in 0 .. n |-> sofar[i]] BY DEF sofar
  <2>4. sofar = [i \in 0 .. n |-> Turn(sofar, i)] BY <2>2, <2>3
  <2>5. QED BY <2>4 DEF strings
<1> HIDE DEF sofar
<1> DEFINE T == {i \in 0 .. n : strings[i] = sofar[i]}
<1>12. \A i \in 0 .. n : strings[i] = Turn(strings, i) BY <1>11
<1>13. 0 \in T
  <2>1. 0 \in 0 .. n BY <1>1
  <2>2. Turn(strings, 0) = sofar[0] BY <1>10, <2>1
  <2>3. QED BY <1>12, <2>1, <2>2
<1>14. ASSUME NEW i \in 0 .. n - 1, i \in T PROVE i + 1 \in T
  <2>1. i + 1 \in 0 .. n /\ (i + 1) - 1 = i BY <1>1
  <2>2. Turn(strings, i + 1) = sofar[i + 1] BY <1>10, <1>14, <2>1
  <2>3. QED BY <1>12, <2>1, <2>2
<1> HIDE DEF T
<1>15. Hereditary(T, 0, n) BY <1>13, <1>14 DEF Hereditary
<1>16. 0 .. n \subseteq T BY <1>1, <1>15, IntervalInduction
<1>17. n \in 0 .. n BY <1>1
<1>18. strings[n] = sofar[n] BY <1>16, <1>17 DEF T
<1>19. sofar[n] = Read(ss, o + Len(Strings(ss))) BY <1>7, <1>9, <1>17 DEF sofar
<1>20. QED BY <1>2, <1>7, <1>18, <1>19 DEF n

\* Choice tables whose rows are as wide as the name
ChoiceTables(S) ==
  {c \in [name : Seq(S), rows : Seq(Seq(S))] : \A i \in 1 .. Len(c.rows) : Len(c.rows[i]) = Len(c.name)}

\* One choice table, read from an offset
ReadChoice(cells, o) ==
  LET width  == cells[o] + 1
      name   == Array(cells, o + 1, width)
      rows   == cells[name.offset] + 1
      matrix == Array(cells, name.offset + 1, rows * width)
      row(j) == SubSeq(matrix.value, (j - 1) * width + 1, j * width)
  IN Read([name |-> name.value, rows |-> [j \in 1 .. rows |-> row(j)]], matrix.offset)

LEMMA ChoiceIs ==
  ASSUME NEW S, Int \subseteq S, NEW c \in ChoiceTables(S), NEW cells, NEW o \in Nat,
         LiesAt(cells, o, ChoiceCells(c))
  PROVE  /\ ChoiceCells(c) \in Seq(S)
         /\ ReadChoice(cells, o) = Read(c, o + Len(ChoiceCells(c)))
<1>1. PICK w, n, flat : w = Len(c.name) /\ n = Len(c.rows) /\ flat = FlattenSeq(c.rows) OBVIOUS
<1>2. /\ c \in [name : Seq(S), rows : Seq(Seq(S))]
      /\ c.name \in Seq(S) /\ c.rows \in Seq(Seq(S)) /\ w \in Nat /\ n \in Nat
      /\ \A j \in 1 .. Len(c.rows) : Len(c.rows[j]) = w
  BY <1>1 DEF ChoiceTables
<1>3. /\ flat \in Seq(S) /\ Len(flat) = n * w
      /\ c.rows = [j \in 1 .. n |-> SubSeq(flat, (j - 1) * w + 1, j * w)]
  <2>1. PICK rows : rows = c.rows OBVIOUS
  <2>2. Wide(S, rows, w) BY <1>2, <2>1 DEF Wide
  <2>3. RowsIn(S, FlattenSeq(rows), rows, w) BY <2>2, RowsAre
  <2>4. QED BY <1>1, <2>1, <2>3 DEF RowsIn
<1>4. PICK x, y : x = w - 1 /\ y = n - 1 OBVIOUS
<1>5. x \in Int /\ y \in Int /\ x + 1 = w /\ y + 1 = n BY <1>2, <1>4
<1>6. PICK named : named = <<x>> \o c.name OBVIOUS
<1>7. /\ named \in Seq(S) /\ Len(named) = 1 + w /\ <<x>> \in Seq(S) /\ Len(<<x>>) = 1
      /\ <<y>> \in Seq(S) /\ Len(<<y>>) = 1
  BY <1>1, <1>2, <1>5, <1>6, CountedIs
<1>8. PICK counted : counted = named \o <<y>> OBVIOUS
<1>9. counted \in Seq(S) /\ Len(counted) = 2 + w
  <2>1. counted \in Seq(S) /\ Len(counted) = Len(named) + Len(<<y>>) BY <1>7, <1>8, ConcatProperties
  <2>2. QED BY <1>2, <1>7, <2>1
<1>10. ChoiceCells(c) = counted \o flat BY <1>1, <1>4, <1>6, <1>8 DEF ChoiceCells
<1>11. counted \o flat \in Seq(S) /\ Len(counted \o flat) = (2 + w) + n * w
  BY <1>3, <1>9, ConcatProperties
<1>12. PICK p, q, r : p = o + 1 /\ q = o + (1 + w) /\ r = o + (2 + w) OBVIOUS
<1>13. p \in Nat /\ q \in Nat /\ r \in Nat /\ p + w = q /\ q + 1 = r BY <1>2, <1>12
<1>14. LiesAt(cells, o, counted) /\ LiesAt(cells, r, flat)
  BY <1>3, <1>9, <1>10, <1>12, LiesApart
<1>15. LiesAt(cells, o, named) /\ LiesAt(cells, q, <<y>>) BY <1>7, <1>8, <1>12, <1>14, LiesApart
<1>16. LiesAt(cells, o, <<x>>) /\ LiesAt(cells, p, c.name)
  BY <1>2, <1>6, <1>7, <1>12, <1>15, LiesApart
<1>17. cells[o] = x /\ cells[q] = y BY <1>13, <1>15, <1>16, LiesAlone
<1>18. Array(cells, p, w) = Read(c.name, q) BY <1>1, <1>2, <1>13, <1>16, ArrayIs
<1>19. n * w \in Nat BY <1>2
<1>20. Array(cells, r, n * w) = Read(flat, r + n * w) BY <1>3, <1>13, <1>14, ArrayIs
<1>21. PICK matrix, name : matrix = Array(cells, r, n * w) /\ name = Array(cells, p, w) OBVIOUS
<1>22. name.value = c.name /\ name.offset = q /\ matrix.value = flat /\ matrix.offset = r + n * w
  BY <1>18, <1>20, <1>21 DEF Read
<1>23. ReadChoice(cells, o) =
         Read([name |-> name.value,
               rows |-> [j \in 1 .. n |-> SubSeq(matrix.value, (j - 1) * w + 1, j * w)]],
              matrix.offset)
  <2>1. cells[o] + 1 = w /\ o + 1 = p BY <1>5, <1>12, <1>17
  <2>2. cells[name.offset] + 1 = n /\ name.offset + 1 = r BY <1>5, <1>13, <1>17, <1>22
  <2>3. QED BY <1>21, <2>1, <2>2 DEF ReadChoice
<1>24. [name |-> name.value, rows |-> [j \in 1 .. n |-> SubSeq(matrix.value, (j - 1) * w + 1, j * w)]] = c
  BY <1>2, <1>3, <1>22
<1>25. r + n * w = o + Len(ChoiceCells(c)) BY <1>2, <1>10, <1>11, <1>12, <1>19
<1>26. QED BY <1>10, <1>11, <1>22, <1>23, <1>24, <1>25

\* The choice tables are read as they were written.
LEMMA ChoicesAre ==
  ASSUME NEW S, Int \subseteq S, NEW cs \in Seq(ChoiceTables(S)), NEW cells, NEW o \in Nat,
         LiesAt(cells, o, FlattenSeq([i \in DOMAIN cs |-> ChoiceCells(cs[i])]))
  PROVE  LET flat == FlattenSeq([i \in DOMAIN cs |-> ChoiceCells(cs[i])])
         IN flat \in Seq(S) /\ ReadChoices(cells, o, Len(cs)) = Read(cs, o + Len(flat))
<1> DEFINE n == Len(cs)
           parts == [i \in 1 .. n |-> ChoiceCells(cs[i])]
           flat == FlattenSeq(parts)
           Turn(f, i) ==
             IF i = 0 THEN Read(<<>>, o)
             ELSE LET before == f[i - 1]
                      width  == cells[before.offset] + 1
                      name   == Array(cells, before.offset + 1, width)
                      rows   == cells[name.offset] + 1
                      matrix == Array(cells, name.offset + 1, rows * width)
                      row(j) == SubSeq(matrix.value, (j - 1) * width + 1, j * width) IN
                  Read(Append(before.value, [name |-> name.value, rows |-> [j \in 1 .. rows |-> row(j)]]),
                       matrix.offset)
           choices == CHOOSE f : f = [i \in 0 .. n |-> Turn(f, i)]
<1>1. n \in Nat /\ DOMAIN cs = 1 .. n /\ \A i \in 1 .. n : cs[i] \in ChoiceTables(S)
  OBVIOUS
<1>2. ReadChoices(cells, o, n) = choices[n] BY DEF ReadChoices
<1>3. FlattenSeq([i \in DOMAIN cs |-> ChoiceCells(cs[i])]) = flat BY <1>1
<1>4. \A i \in 1 .. n : parts[i] = ChoiceCells(cs[i]) OBVIOUS
<1>5. ASSUME NEW f, NEW i, i # 0
      PROVE  LET choice == ReadChoice(cells, f[i - 1].offset)
             IN Turn(f, i) = Read(Append(f[i - 1].value, choice.value), choice.offset)
  BY <1>5 DEF ReadChoice, Read
<1>6. \A f : Turn(f, 0) = Read(<<>>, o) OBVIOUS
<1> HIDE DEF n, parts, flat, choices, Turn
<1>7. \A i \in 1 .. n : ChoiceCells(cs[i]) \in Seq(S)
  <2>1. ASSUME NEW i \in 1 .. n PROVE ChoiceCells(cs[i]) \in Seq(S)
    <3>1. PICK c : c = cs[i] OBVIOUS
    <3>2. /\ c \in [name : Seq(S), rows : Seq(Seq(S))]
          /\ c.name \in Seq(S) /\ c.rows \in Seq(Seq(S)) /\ Len(c.name) \in Nat /\ Len(c.rows) \in Nat
          /\ \A j \in 1 .. Len(c.rows) : Len(c.rows[j]) = Len(c.name)
      <4>1. c \in ChoiceTables(S) BY <1>1, <3>1
      <4>2. QED BY <4>1 DEF ChoiceTables
    <3>3. Len(c.name) - 1 \in Int /\ Len(c.rows) - 1 \in Int BY <3>2
    <3>4. /\ <<Len(c.name) - 1>> \o c.name \in Seq(S) /\ <<Len(c.rows) - 1>> \in Seq(S)
      BY <3>2, <3>3, CountedIs
    <3>5. FlattenSeq(c.rows) \in Seq(S)
      <4>1. Wide(S, c.rows, Len(c.name)) BY <3>2 DEF Wide
      <4>2. RowsIn(S, FlattenSeq(c.rows), c.rows, Len(c.name)) BY <4>1, RowsAre
      <4>3. QED BY <4>2 DEF RowsIn
    <3>6. QED BY <3>1, <3>4, <3>5, ConcatProperties DEF ChoiceCells
  <2>2. QED BY <2>1
<1>8. parts \in Seq(Seq(S)) /\ Len(parts) = n BY <1>1, <1>7 DEF parts
<1>9. PICK off : Laid(S, parts, flat, off) BY <1>8, FlattenIs DEF flat
<1>10. flat \in Seq(S) /\ off \in [0 .. n -> Nat] /\ off[0] = 0 /\ off[n] = Len(flat)
  BY <1>8, <1>9 DEF Laid
<1>11. ASSUME NEW i \in 1 .. n PROVE ReadChoice(cells, o + off[i - 1]) = Read(cs[i], o + off[i])
  <2>1. /\ off[i - 1] \in Nat /\ off[i] = off[i - 1] + Len(parts[i])
        /\ LiesAt(cells, o + off[i - 1], parts[i])
    BY <1>3, <1>8, <1>9, PartsLie
  <2>2. PICK p, c : p = o + off[i - 1] /\ c = cs[i] OBVIOUS
  <2>3. p \in Nat /\ c \in ChoiceTables(S) BY <1>1, <2>1, <2>2
  <2>4. LiesAt(cells, p, ChoiceCells(c)) BY <1>4, <2>1, <2>2
  <2>5. ChoiceCells(c) \in Seq(S) /\ ReadChoice(cells, p) = Read(c, p + Len(ChoiceCells(c)))
    BY <2>3, <2>4, ChoiceIs
  <2>6. p + Len(ChoiceCells(c)) = o + off[i]
    <3>1. PICK a, b, l : a = off[i - 1] /\ b = off[i] /\ l = Len(ChoiceCells(c)) OBVIOUS
    <3>2. l \in Nat BY <2>5, <3>1
    <3>3. a \in Nat /\ b = a + l /\ p = o + a BY <1>4, <2>1, <2>2, <3>1
    <3>4. p + l = o + b BY <3>2, <3>3
    <3>5. QED BY <3>1, <3>4
  <2>7. QED BY <2>2, <2>5, <2>6
<1> DEFINE sofar == [i \in 0 .. n |-> Read(SubSeq(cs, 1, i), o + off[i])]
<1>12. /\ SubSeq(cs, 1, 0) = <<>> /\ SubSeq(cs, 1, n) = cs
       /\ \A i \in 1 .. n : Append(SubSeq(cs, 1, i - 1), cs[i]) = SubSeq(cs, 1, i)
  BY SubSeqGrows DEF n
<1>13. ASSUME NEW f, NEW i \in 0 .. n, i # 0 => f[i - 1] = sofar[i - 1]
       PROVE  Turn(f, i) = sofar[i]
  <2>1. CASE i = 0
    <3>1. Turn(f, 0) = Read(<<>>, o) BY <1>6
    <3>2. sofar[0] = Read(<<>>, o + 0)
      <4>1. 0 \in 0 .. n BY <1>1
      <4>2. sofar[0] = Read(SubSeq(cs, 1, 0), o + off[0]) BY <4>1
      <4>3. QED BY <1>10, <1>12, <4>2
    <3>3. o + 0 = o OBVIOUS
    <3>4. QED BY <2>1, <3>1, <3>2, <3>3
  <2>2. CASE i # 0
    <3>1. i \in 1 .. n /\ i - 1 \in 0 .. n BY <1>1, <2>2
    <3>2. f[i - 1] = Read(SubSeq(cs, 1, i - 1), o + off[i - 1]) BY <1>13, <2>2, <3>1
    <3>3. f[i - 1].value = SubSeq(cs, 1, i - 1) /\ f[i - 1].offset = o + off[i - 1]
      BY <3>2 DEF Read
    <3>4. PICK r : r = ReadChoice(cells, f[i - 1].offset) OBVIOUS
    <3>5. r = Read(cs[i], o + off[i]) BY <1>11, <3>1, <3>3, <3>4
    <3>6. r.value = cs[i] /\ r.offset = o + off[i] BY <3>5 DEF Read
    <3>7. Turn(f, i) = Read(Append(f[i - 1].value, r.value), r.offset) BY <1>5, <2>2, <3>4
    <3>8. QED BY <1>12, <3>1, <3>3, <3>6, <3>7
  <2>3. QED BY <2>1, <2>2
<1>14. choices = [i \in 0 .. n |-> Turn(choices, i)]
  <2>1. \A i \in 0 .. n : i # 0 => sofar[i - 1] = sofar[i - 1] OBVIOUS
  <2> HIDE DEF sofar
  <2>2. \A i \in 0 .. n : Turn(sofar, i) = sofar[i] BY <1>13
  <2>3. sofar = [i \in 0 .. n |-> sofar[i]] BY DEF sofar
  <2>4. sofar = [i \in 0 .. n |-> Turn(sofar, i)] BY <2>2, <2>3
  <2>5. QED BY <2>4 DEF choices
<1> HIDE DEF sofar
<1> DEFINE T == {i \in 0 .. n : choices[i] = sofar[i]}
<1>15. \A i \in 0 .. n : choices[i] = Turn(choices, i) BY <1>14
<1>16. 0 \in T
  <2>1. 0 \in 0 .. n BY <1>1
  <2>2. Turn(choices, 0) = sofar[0] BY <1>13, <2>1
  <2>3. QED BY <1>15, <2>1, <2>2
<1>17. ASSUME NEW i \in 0 .. n - 1, i \in T PROVE i + 1 \in T
  <2>1. i + 1 \in 0 .. n /\ (i + 1) - 1 = i BY <1>1
  <2>2. Turn(choices, i + 1) = sofar[i + 1] BY <1>13, <1>17, <2>1
  <2>3. QED BY <1>15, <2>1, <2>2
<1> HIDE DEF T
<1>18. Hereditary(T, 0, n) BY <1>16, <1>17 DEF Hereditary
<1>19. 0 .. n \subseteq T BY <1>1, <1>18, IntervalInduction
<1>20. n \in 0 .. n BY <1>1
<1>21. choices[n] = sofar[n] BY <1>19, <1>20 DEF T
<1>22. sofar[n] = Read(cs, o + Len(flat)) BY <1>10, <1>12, <1>20 DEF sofar
<1>23. QED BY <1>2, <1>3, <1>10, <1>21, <1>22 DEF n

\* The tables of one kind from an offset on, and what Deserialised makes of them
TermRows(cells, o, n) ==
  LET results == Array(cells, o, n)
  IN Read([i \in 1 .. n |-> [result |-> results.value[i]]], results.offset)

PassRows(cells, o, n) ==
  LET passed == Array(cells, o, n)
      results == Array(cells, passed.offset, n)
  IN Read([i \in 1 .. n |-> [id |-> passed.value[i], result |-> results.value[i]]], results.offset)

SuffixRows(cells, o, n) ==
  LET results == Array(cells, o, n)
      strings == ReadStrings(cells, results.offset, n)
  IN Read([i \in 1 .. n |-> [suffix |-> strings.value[i], result |-> results.value[i]]], strings.offset)

InfixRows(cells, o, n) ==
  LET below == Array(cells, o, n)
      strings == ReadStrings(cells, below.offset, n)
  IN Read([i \in 1 .. n |-> [infix |-> strings.value[i], id |-> below.value[i]]], strings.offset)

\* With what says whether there are rows, and how many, in front
Headed(cells, o, rows) == IF cells[o] = 1 THEN Read(<<>>, o + 1) ELSE rows

TermAt(cells, o) == Headed(cells, o, TermRows(cells, o + 2, cells[o + 1] + 1))

PassAt(cells, o) == Headed(cells, o, PassRows(cells, o + 2, cells[o + 1] + 1))

SuffixAt(cells, o) == Headed(cells, o, SuffixRows(cells, o + 2, cells[o + 1] + 1))

InfixAt(cells, o) == Headed(cells, o, InfixRows(cells, o + 2, cells[o + 1] + 1))

ChoiceAt(cells, o) == Headed(cells, o, ReadChoices(cells, o + 2, cells[o + 1] + 1))

LEMMA DeserialisedIs ==
  ASSUME NEW cells
  PROVE  Deserialised(cells) =
           LET c == ChoiceAt(cells, 3)
               t == TermAt(cells, c.offset)
               p == PassAt(cells, t.offset)
               s == SuffixAt(cells, p.offset)
               i == InfixAt(cells, s.offset)
           IN [len |-> cells[1], root_id |-> cells[2], choice |-> c.value, term |-> t.value,
               pass |-> p.value, suffix |-> s.value, infix |-> i.value]
BY Zenon DEF Deserialised, AtTable, Headed, ChoiceAt, TermAt, PassAt, SuffixAt, InfixAt,
  TermRows, PassRows, SuffixRows, InfixRows

\* The cells of a table are its number of rows, unless there are none, and the rows.
Heading(cells, o, n, body) ==
  IF n = 0 THEN cells[o] = 1
  ELSE cells[o] = 0 /\ cells[o + 1] + 1 = n /\ LiesAt(cells, o + 2, body)

LEMMA HeadingIs ==
  ASSUME NEW S, Int \subseteq S, NEW T, NEW table \in Seq(T), NEW body \in Seq(S),
         NEW cells, NEW o \in Nat, LiesAt(cells, o, OrNull(table, body))
  PROVE  /\ OrNull(table, body) \in Seq(S)
         /\ Len(OrNull(table, body)) = IF Len(table) = 0 THEN 1 ELSE 2 + Len(body)
         /\ Heading(cells, o, Len(table), body)
<1>1. PICK n : n = Len(table) OBVIOUS
<1>2. n \in Nat /\ (table = <<>> <=> n = 0) BY <1>1
<1>3. CASE n = 0
  <2>1. OrNull(table, body) = <<1>> BY <1>2, <1>3 DEF OrNull
  <2>2. <<1>> \in Seq(S) /\ Len(<<1>>) = 1 OBVIOUS
  <2>3. cells[o] = 1 BY <2>1, LiesAlone
  <2>4. QED BY <1>1, <1>3, <2>1, <2>2, <2>3 DEF Heading
<1>4. CASE n # 0
  <2>1. PICK x : x = n - 1 OBVIOUS
  <2>2. x \in Int /\ x + 1 = n BY <1>2, <2>1
  <2>3. OrNull(table, body) = <<0, x>> \o body BY <1>1, <1>2, <1>4, <2>1 DEF OrNull
  <2>4. <<0, x>> \in Seq(S) /\ Len(<<0, x>>) = 2 BY <2>2
  <2>5. <<0, x>> \o body \in Seq(S) /\ Len(<<0, x>> \o body) = 2 + Len(body) BY <2>4, ConcatProperties
  <2>6. LiesAt(cells, o, <<0, x>>) /\ LiesAt(cells, o + 2, body) BY <2>3, <2>4, LiesApart
  <2>7. cells[o] = 0 /\ cells[o + 1] = x BY <2>6, LiesAlone
  <2>8. QED BY <1>1, <1>4, <2>2, <2>3, <2>5, <2>6, <2>7 DEF Heading
<1>5. QED BY <1>3, <1>4

\* What is read at an offset is the table, and what it takes in the file is w.
IsRead(S, cells, o, at, table, w) == w \in Seq(S) /\ at = Read(table, o + Len(w))

\* Behind a heading, rows are what is read if there are rows.
RowsRead(cells, o, table, body, rows) ==
  cells[o + 1] + 1 = Len(table) /\ LiesAt(cells, o + 2, body)
    => rows = Read(table, (o + 2) + Len(body))

LEMMA HeadedIs ==
  ASSUME NEW S, Int \subseteq S, NEW T, NEW table \in Seq(T), NEW body \in Seq(S),
         NEW cells, NEW o \in Nat, NEW w, w = OrNull(table, body), LiesAt(cells, o, w),
         NEW rows, RowsRead(cells, o, table, body, rows)
  PROVE  IsRead(S, cells, o, Headed(cells, o, rows), table, w)
<1>1. PICK n, l : n = Len(table) /\ l = Len(body) OBVIOUS
<1>2. n \in Nat /\ l \in Nat /\ (table = <<>> <=> n = 0) BY <1>1
<1>3. w \in Seq(S) /\ Len(w) = (IF n = 0 THEN 1 ELSE 2 + l) /\ Heading(cells, o, n, body)
  BY <1>1, HeadingIs
<1>4. CASE n = 0
  <2>1. Headed(cells, o, rows) = Read(<<>>, o + 1) BY <1>3, <1>4 DEF Headed, Heading
  <2>2. QED BY <1>2, <1>3, <1>4, <2>1 DEF IsRead
<1>5. CASE n # 0
  <2>1. cells[o] = 0 /\ cells[o + 1] + 1 = n /\ LiesAt(cells, o + 2, body)
    BY <1>3, <1>5 DEF Heading
  <2>2. Headed(cells, o, rows) = rows
    <3>1. cells[o] # 1 BY <2>1
    <3>2. QED BY <3>1 DEF Headed
  <2>3. rows = Read(table, (o + 2) + l) BY <1>1, <2>1 DEF RowsRead
  <2>4. (o + 2) + l = o + Len(w) BY <1>2, <1>3, <1>5
  <2>5. QED BY <1>3, <2>2, <2>3, <2>4 DEF IsRead
<1>6. QED BY <1>4, <1>5

\* A field of every row is in S, and a column has it of each.
Field(T, f, S) == \A r \in T : r[f] \in S

ColumnOf(S, column, table, f) ==
  /\ column \in Seq(S) /\ Len(column) = Len(table)
  /\ \A i \in 1 .. Len(table) : column[i] = table[i][f]

LEMMA ColumnIs ==
  ASSUME NEW T, NEW table \in Seq(T), NEW S, NEW f, Field(T, f, S)
  PROVE  ColumnOf(S, Column(table, f), table, f)
<1>1. Len(table) \in Nat /\ DOMAIN table = 1 .. Len(table) /\ \A i \in 1 .. Len(table) : table[i] \in T
  OBVIOUS
<1>2. \A i \in 1 .. Len(table) : table[i][f] \in S BY <1>1 DEF Field
<1>3. QED BY <1>1, <1>2 DEF Column, ColumnOf

LEMMA TermIs ==
  ASSUME NEW S, Int \subseteq S, NEW T, T = [result : S], NEW table \in Seq(T),
         NEW cells, NEW o \in Nat, NEW w,
         w = OrNull(table, Column(table, "result")), LiesAt(cells, o, w)
  PROVE  IsRead(S, cells, o, TermAt(cells, o), table, w)
<1>1. PICK n, f : n = Len(table) /\ f = "result" OBVIOUS
<1>2. PICK rs : rs = Column(table, f) OBVIOUS
<1>3. n \in Nat /\ DOMAIN table = 1 .. n /\ \A i \in 1 .. n : table[i] \in T BY <1>1, SequenceIs
<1>4. rs \in Seq(S) /\ Len(rs) = n /\ \A i \in 1 .. n : rs[i] = table[i].result
  <2>1. Field(T, f, S) BY <1>1 DEF Field
  <2>2. ColumnOf(S, rs, table, f) BY <1>2, <2>1, ColumnIs
  <2>3. QED BY <1>1, <2>2 DEF ColumnOf
<1>5. PICK rows : rows = TermRows(cells, o + 2, cells[o + 1] + 1) OBVIOUS
<1>6. ASSUME cells[o + 1] + 1 = n, LiesAt(cells, o + 2, rs) PROVE rows = Read(table, (o + 2) + n)
  <2>1. PICK p : p = o + 2 OBVIOUS
  <2>2. p \in Nat BY <2>1
  <2>3. PICK results : results = Array(cells, p, n) OBVIOUS
  <2>4. results = Read(rs, p + n) BY <1>4, <1>6, <2>1, <2>2, <2>3, ArrayIs
  <2>5. results.value = rs /\ results.offset = p + n BY <2>4 DEF Read
  <2>6. TermRows(cells, p, n) = Read([i \in 1 .. n |-> [result |-> results.value[i]]], results.offset)
    BY <2>3 DEF TermRows
  <2>7. [i \in 1 .. n |-> [result |-> rs[i]]] = table
    <3>1. \A i \in 1 .. n : [result |-> rs[i]] = table[i] BY <1>3, <1>4
    <3>2. table = [i \in 1 .. n |-> table[i]] BY <1>3
    <3>3. QED BY <3>1, <3>2
  <2>8. QED BY <1>5, <1>6, <2>1, <2>5, <2>6, <2>7
<1>7. RowsRead(cells, o, table, rs, rows) BY <1>1, <1>4, <1>6 DEF RowsRead
<1>8. TermAt(cells, o) = Headed(cells, o, rows) BY <1>5 DEF TermAt
<1>9. w = OrNull(table, rs) BY <1>1, <1>2
<1>10. QED BY <1>4, <1>7, <1>8, <1>9, HeadedIs

LEMMA PassIs ==
  ASSUME NEW S, Int \subseteq S, NEW T, T = [id : S, result : S], NEW table \in Seq(T),
         NEW cells, NEW o \in Nat, NEW w,
         w = OrNull(table, Column(table, "id") \o Column(table, "result")), LiesAt(cells, o, w)
  PROVE  IsRead(S, cells, o, PassAt(cells, o), table, w)
<1>1. PICK n, f, g : n = Len(table) /\ f = "id" /\ g = "result" OBVIOUS
<1>2. PICK is, rs : is = Column(table, f) /\ rs = Column(table, g) OBVIOUS
<1>3. n \in Nat /\ DOMAIN table = 1 .. n /\ \A i \in 1 .. n : table[i] \in T BY <1>1, SequenceIs
<1>4. /\ is \in Seq(S) /\ Len(is) = n /\ \A i \in 1 .. n : is[i] = table[i].id
      /\ rs \in Seq(S) /\ Len(rs) = n /\ \A i \in 1 .. n : rs[i] = table[i].result
  <2>1. Field(T, f, S) /\ Field(T, g, S) BY <1>1 DEF Field
  <2>2. ColumnOf(S, is, table, f) /\ ColumnOf(S, rs, table, g) BY <1>2, <2>1, ColumnIs
  <2>3. QED BY <1>1, <2>2 DEF ColumnOf
<1>5. PICK body : body = is \o rs OBVIOUS
<1>6. body \in Seq(S) /\ Len(body) = n + n BY <1>4, <1>5, ConcatProperties
<1>7. PICK rows : rows = PassRows(cells, o + 2, cells[o + 1] + 1) OBVIOUS
<1>8. ASSUME cells[o + 1] + 1 = n, LiesAt(cells, o + 2, body)
      PROVE  rows = Read(table, (o + 2) + (n + n))
  <2>1. PICK p, q : p = o + 2 /\ q = p + n OBVIOUS
  <2>2. p \in Nat /\ q \in Nat /\ q + n = (o + 2) + (n + n) BY <1>3, <2>1
  <2>3. PICK passed, results : passed = Array(cells, p, n) /\ results = Array(cells, q, n) OBVIOUS
  <2>4. LiesAt(cells, p, is) /\ LiesAt(cells, q, rs) BY <1>4, <1>5, <1>8, <2>1, <2>2, LiesApart
  <2>5. passed = Read(is, q) BY <1>4, <2>1, <2>2, <2>3, <2>4, ArrayIs
  <2>6. results = Read(rs, q + n) BY <1>4, <2>2, <2>3, <2>4, ArrayIs
  <2>7. /\ passed.value = is /\ passed.offset = q
        /\ results.value = rs /\ results.offset = q + n
    BY <2>5, <2>6 DEF Read
  <2>8. PassRows(cells, p, n) =
          Read([i \in 1 .. n |-> [id |-> passed.value[i], result |-> results.value[i]]], results.offset)
    BY <2>3, <2>7 DEF PassRows
  <2>9. [i \in 1 .. n |-> [id |-> is[i], result |-> rs[i]]] = table
    <3>1. \A i \in 1 .. n : [id |-> is[i], result |-> rs[i]] = table[i] BY <1>3, <1>4
    <3>2. table = [i \in 1 .. n |-> table[i]] BY <1>3
    <3>3. QED BY <3>1, <3>2
  <2>10. QED BY <1>7, <1>8, <2>1, <2>2, <2>7, <2>8, <2>9
<1>9. RowsRead(cells, o, table, body, rows) BY <1>1, <1>6, <1>8 DEF RowsRead
<1>10. PassAt(cells, o) = Headed(cells, o, rows) BY <1>7 DEF PassAt
<1>11. w = OrNull(table, body) BY <1>1, <1>2, <1>5
<1>12. QED BY <1>6, <1>9, <1>10, <1>11, HeadedIs

LEMMA StringsIn ==
  ASSUME NEW S, Int \subseteq S, NEW ss \in Seq(Seq(S))
  PROVE  Strings(ss) \in Seq(S)
<1>1. LiesAt(Strings(ss), 1, Strings(ss)) BY DEF LiesAt
<1>2. QED BY <1>1, StringsAre

LEMMA SuffixAtIs ==
  ASSUME NEW S, Int \subseteq S, NEW T, T = [suffix : Seq(S), result : S], NEW table \in Seq(T),
         NEW cells, NEW o \in Nat, NEW w,
         w = OrNull(table, Column(table, "result") \o Strings(Column(table, "suffix"))),
         LiesAt(cells, o, w)
  PROVE  IsRead(S, cells, o, SuffixAt(cells, o), table, w)
<1>1. PICK n, f, g, Q : n = Len(table) /\ f = "suffix" /\ g = "result" /\ Q = Seq(S) OBVIOUS
<1>2. PICK ss, rs : ss = Column(table, f) /\ rs = Column(table, g) OBVIOUS
<1>3. n \in Nat /\ DOMAIN table = 1 .. n /\ \A i \in 1 .. n : table[i] \in T BY <1>1, SequenceIs
<1>4. /\ ss \in Seq(Seq(S)) /\ Len(ss) = n /\ \A i \in 1 .. n : ss[i] = table[i].suffix
      /\ rs \in Seq(S) /\ Len(rs) = n /\ \A i \in 1 .. n : rs[i] = table[i].result
  <2>1. Field(T, f, Q) /\ Field(T, g, S) BY <1>1 DEF Field
  <2>2. ColumnOf(Q, ss, table, f) /\ ColumnOf(S, rs, table, g) BY <1>2, <2>1, ColumnIs
  <2>3. QED BY <1>1, <2>2 DEF ColumnOf
<1>5. PICK text, body : text = Strings(ss) /\ body = rs \o text OBVIOUS
<1>6. text \in Seq(S) /\ body \in Seq(S) /\ Len(body) = n + Len(text) /\ Len(text) \in Nat
  <2>1. text \in Seq(S) BY <1>4, <1>5, StringsIn
  <2>2. Len(text) \in Nat BY <2>1
  <2>3. body \in Seq(S) /\ Len(body) = Len(rs) + Len(text) BY <1>4, <1>5, <2>1, ConcatProperties
  <2>4. QED BY <1>4, <2>1, <2>2, <2>3
<1>7. PICK rows : rows = SuffixRows(cells, o + 2, cells[o + 1] + 1) OBVIOUS
<1>8. ASSUME cells[o + 1] + 1 = n, LiesAt(cells, o + 2, body)
      PROVE  rows = Read(table, (o + 2) + (n + Len(text)))
  <2>1. PICK p, q, l : p = o + 2 /\ q = p + n /\ l = Len(text) OBVIOUS
  <2>2. p \in Nat /\ q \in Nat \ {0} /\ q + l = (o + 2) + (n + l) BY <1>3, <1>6, <2>1
  <2>3. PICK results, strings :
          results = Array(cells, p, n) /\ strings = ReadStrings(cells, q, n)
    OBVIOUS
  <2>4. LiesAt(cells, p, rs) /\ LiesAt(cells, q, text) BY <1>4, <1>5, <1>6, <1>8, <2>1, <2>2, LiesApart
  <2>5. results = Read(rs, q) BY <1>4, <2>1, <2>2, <2>3, <2>4, ArrayIs
  <2>6. strings = Read(ss, q + l) BY <1>4, <1>5, <2>1, <2>2, <2>3, <2>4, StringsAre
  <2>7. /\ results.value = rs /\ results.offset = q
        /\ strings.value = ss /\ strings.offset = q + l
    BY <2>5, <2>6 DEF Read
  <2>8. SuffixRows(cells, p, n) =
          Read([i \in 1 .. n |-> [suffix |-> strings.value[i], result |-> results.value[i]]],
               strings.offset)
    BY <2>3, <2>7 DEF SuffixRows
  <2>9. [i \in 1 .. n |-> [suffix |-> ss[i], result |-> rs[i]]] = table
    <3>1. \A i \in 1 .. n : [suffix |-> ss[i], result |-> rs[i]] = table[i] BY <1>3, <1>4
    <3>2. table = [i \in 1 .. n |-> table[i]] BY <1>3
    <3>3. QED BY <3>1, <3>2
  <2>10. QED BY <1>7, <1>8, <2>1, <2>2, <2>7, <2>8, <2>9
<1>9. RowsRead(cells, o, table, body, rows) BY <1>1, <1>6, <1>8 DEF RowsRead
<1>10. SuffixAt(cells, o) = Headed(cells, o, rows) BY <1>7 DEF SuffixAt
<1>11. w = OrNull(table, body) BY <1>1, <1>2, <1>5
<1>12. QED BY <1>6, <1>9, <1>10, <1>11, HeadedIs

LEMMA InfixAtIs ==
  ASSUME NEW S, Int \subseteq S, NEW T, T = [infix : Seq(S), id : S], NEW table \in Seq(T),
         NEW cells, NEW o \in Nat, NEW w,
         w = OrNull(table, Column(table, "id") \o Strings(Column(table, "infix"))),
         LiesAt(cells, o, w)
  PROVE  IsRead(S, cells, o, InfixAt(cells, o), table, w)
<1>1. PICK n, f, g, Q : n = Len(table) /\ f = "infix" /\ g = "id" /\ Q = Seq(S) OBVIOUS
<1>2. PICK ss, is : ss = Column(table, f) /\ is = Column(table, g) OBVIOUS
<1>3. n \in Nat /\ DOMAIN table = 1 .. n /\ \A i \in 1 .. n : table[i] \in T BY <1>1, SequenceIs
<1>4. /\ ss \in Seq(Seq(S)) /\ Len(ss) = n /\ \A i \in 1 .. n : ss[i] = table[i].infix
      /\ is \in Seq(S) /\ Len(is) = n /\ \A i \in 1 .. n : is[i] = table[i].id
  <2>1. Field(T, f, Q) /\ Field(T, g, S) BY <1>1 DEF Field
  <2>2. ColumnOf(Q, ss, table, f) /\ ColumnOf(S, is, table, g) BY <1>2, <2>1, ColumnIs
  <2>3. QED BY <1>1, <2>2 DEF ColumnOf
<1>5. PICK text, body : text = Strings(ss) /\ body = is \o text OBVIOUS
<1>6. text \in Seq(S) /\ body \in Seq(S) /\ Len(body) = n + Len(text) /\ Len(text) \in Nat
  <2>1. text \in Seq(S) BY <1>4, <1>5, StringsIn
  <2>2. Len(text) \in Nat BY <2>1
  <2>3. body \in Seq(S) /\ Len(body) = Len(is) + Len(text) BY <1>4, <1>5, <2>1, ConcatProperties
  <2>4. QED BY <1>4, <2>1, <2>2, <2>3
<1>7. PICK rows : rows = InfixRows(cells, o + 2, cells[o + 1] + 1) OBVIOUS
<1>8. ASSUME cells[o + 1] + 1 = n, LiesAt(cells, o + 2, body)
      PROVE  rows = Read(table, (o + 2) + (n + Len(text)))
  <2>1. PICK p, q, l : p = o + 2 /\ q = p + n /\ l = Len(text) OBVIOUS
  <2>2. p \in Nat /\ q \in Nat \ {0} /\ q + l = (o + 2) + (n + l) BY <1>3, <1>6, <2>1
  <2>3. PICK below, strings : below = Array(cells, p, n) /\ strings = ReadStrings(cells, q, n)
    OBVIOUS
  <2>4. LiesAt(cells, p, is) /\ LiesAt(cells, q, text) BY <1>4, <1>5, <1>6, <1>8, <2>1, <2>2, LiesApart
  <2>5. below = Read(is, q) BY <1>4, <2>1, <2>2, <2>3, <2>4, ArrayIs
  <2>6. strings = Read(ss, q + l) BY <1>4, <1>5, <2>1, <2>2, <2>3, <2>4, StringsAre
  <2>7. /\ below.value = is /\ below.offset = q
        /\ strings.value = ss /\ strings.offset = q + l
    BY <2>5, <2>6 DEF Read
  <2>8. InfixRows(cells, p, n) =
          Read([i \in 1 .. n |-> [infix |-> strings.value[i], id |-> below.value[i]]], strings.offset)
    BY <2>3, <2>7 DEF InfixRows
  <2>9. [i \in 1 .. n |-> [infix |-> ss[i], id |-> is[i]]] = table
    <3>1. \A i \in 1 .. n : [infix |-> ss[i], id |-> is[i]] = table[i] BY <1>3, <1>4
    <3>2. table = [i \in 1 .. n |-> table[i]] BY <1>3
    <3>3. QED BY <3>1, <3>2
  <2>10. QED BY <1>7, <1>8, <2>1, <2>2, <2>7, <2>8, <2>9
<1>9. RowsRead(cells, o, table, body, rows) BY <1>1, <1>6, <1>8 DEF RowsRead
<1>10. InfixAt(cells, o) = Headed(cells, o, rows) BY <1>7 DEF InfixAt
<1>11. w = OrNull(table, body) BY <1>1, <1>2, <1>5
<1>12. QED BY <1>6, <1>9, <1>10, <1>11, HeadedIs

LEMMA ChoiceAtIs ==
  ASSUME NEW S, Int \subseteq S, NEW T, T = ChoiceTables(S), NEW table \in Seq(T),
         NEW cells, NEW o \in Nat, NEW w,
         w = OrNull(table, FlattenSeq([i \in DOMAIN table |-> ChoiceCells(table[i])])),
         LiesAt(cells, o, w)
  PROVE  IsRead(S, cells, o, ChoiceAt(cells, o), table, w)
<1>1. PICK n, body : /\ n = Len(table)
                     /\ body = FlattenSeq([i \in DOMAIN table |-> ChoiceCells(table[i])])
  OBVIOUS
<1>2. body \in Seq(S)
  <2>1. LiesAt(body, 1, body) BY DEF LiesAt
  <2>2. 1 \in Nat OBVIOUS
  <2>3. QED BY <1>1, <2>1, <2>2, ChoicesAre
<1>3. PICK rows : rows = ReadChoices(cells, o + 2, cells[o + 1] + 1) OBVIOUS
<1>4. ASSUME cells[o + 1] + 1 = n, LiesAt(cells, o + 2, body)
      PROVE  rows = Read(table, (o + 2) + Len(body))
  <2>1. PICK p : p = o + 2 OBVIOUS
  <2>2. p \in Nat BY <2>1
  <2>3. ReadChoices(cells, p, n) = Read(table, p + Len(body)) BY <1>1, <1>4, <2>1, <2>2, ChoicesAre
  <2>4. QED BY <1>3, <1>4, <2>1, <2>3
<1>5. RowsRead(cells, o, table, body, rows) BY <1>1, <1>4 DEF RowsRead
<1>6. ChoiceAt(cells, o) = Headed(cells, o, rows) BY <1>3 DEF ChoiceAt
<1>7. QED BY <1>1, <1>2, <1>5, <1>6, HeadedIs

\* Tables whose cells are in S, the rows of a choice table as wide as its name
Tables(S) ==
  [len : S, root_id : S, choice : Seq(ChoiceTables(S)), term : Seq([result : S]),
   pass : Seq([id : S, result : S]), suffix : Seq([suffix : Seq(S), result : S]),
   infix : Seq([infix : Seq(S), id : S])]

\* What ttrie__read makes of the file is what ttrie__write wrote into it, whatever is
\* in the tables and however many rows each has.
THEOREM RoundTrip ==
  ASSUME NEW S, Int \subseteq S, NEW t \in Tables(S)
  PROVE  Deserialised(Serialised(t)) = t
<1>1. PICK TC, TT, TP, TS, TI :
        /\ TC = ChoiceTables(S) /\ TT = [result : S] /\ TP = [id : S, result : S]
        /\ TS = [suffix : Seq(S), result : S] /\ TI = [infix : Seq(S), id : S]
  OBVIOUS
<1>2. PICK tc, tt1, tp, ts, ti :
        /\ tc = t.choice /\ tt1 = t.term /\ tp = t.pass /\ ts = t.suffix /\ ti = t.infix
  OBVIOUS
<1>3. /\ tc \in Seq(TC) /\ tt1 \in Seq(TT) /\ tp \in Seq(TP) /\ ts \in Seq(TS) /\ ti \in Seq(TI)
      /\ t.len \in S /\ t.root_id \in S
  BY <1>1, <1>2 DEF Tables
<1>4. PICK wc, wt, wp, ws, wi :
        /\ wc = OrNull(tc, FlattenSeq([i \in DOMAIN tc |-> ChoiceCells(tc[i])]))
        /\ wt = OrNull(tt1, Column(tt1, "result"))
        /\ wp = OrNull(tp, Column(tp, "id") \o Column(tp, "result"))
        /\ ws = OrNull(ts, Column(ts, "result") \o Strings(Column(ts, "suffix")))
        /\ wi = OrNull(ti, Column(ti, "id") \o Strings(Column(ti, "infix")))
  OBVIOUS
<1>5. ASSUME NEW cells, NEW o \in Nat
      PROVE  /\ LiesAt(cells, o, wc) => IsRead(S, cells, o, ChoiceAt(cells, o), tc, wc)
             /\ LiesAt(cells, o, wt) => IsRead(S, cells, o, TermAt(cells, o), tt1, wt)
             /\ LiesAt(cells, o, wp) => IsRead(S, cells, o, PassAt(cells, o), tp, wp)
             /\ LiesAt(cells, o, ws) => IsRead(S, cells, o, SuffixAt(cells, o), ts, ws)
             /\ LiesAt(cells, o, wi) => IsRead(S, cells, o, InfixAt(cells, o), ti, wi)
  <2>1. LiesAt(cells, o, wc) => IsRead(S, cells, o, ChoiceAt(cells, o), tc, wc)
    BY <1>1, <1>3, <1>4, ChoiceAtIs
  <2>2. LiesAt(cells, o, wt) => IsRead(S, cells, o, TermAt(cells, o), tt1, wt)
    BY <1>1, <1>3, <1>4, TermIs
  <2>3. LiesAt(cells, o, wp) => IsRead(S, cells, o, PassAt(cells, o), tp, wp)
    BY <1>1, <1>3, <1>4, PassIs
  <2>4. LiesAt(cells, o, ws) => IsRead(S, cells, o, SuffixAt(cells, o), ts, ws)
    BY <1>1, <1>3, <1>4, SuffixAtIs
  <2>5. LiesAt(cells, o, wi) => IsRead(S, cells, o, InfixAt(cells, o), ti, wi)
    BY <1>1, <1>3, <1>4, InfixAtIs
  <2>6. QED BY <2>1, <2>2, <2>3, <2>4, <2>5
<1>6. wc \in Seq(S) /\ wt \in Seq(S) /\ wp \in Seq(S) /\ ws \in Seq(S) /\ wi \in Seq(S)
  <2>1. \A w : LiesAt(w, 1, w) BY DEF LiesAt
  <2>2. 1 \in Nat OBVIOUS
  <2>3. QED BY <1>5, <2>1, <2>2 DEF IsRead
<1>7. PICK lc, lt, lp, ls :
        lc = Len(wc) /\ lt = Len(wt) /\ lp = Len(wp) /\ ls = Len(ws)
  OBVIOUS
<1>8. lc \in Nat /\ lt \in Nat /\ lp \in Nat /\ ls \in Nat BY <1>6, <1>7
<1>9. PICK a, b, c, d, e : /\ a = <<t.len, t.root_id>> /\ b = a \o wc /\ c = b \o wt
                           /\ d = c \o wp /\ e = d \o ws
  OBVIOUS
<1>10. /\ a \in Seq(S) /\ b \in Seq(S) /\ c \in Seq(S) /\ d \in Seq(S) /\ e \in Seq(S)
       /\ Len(a) = 2 /\ Len(b) = 2 + lc /\ Len(c) = 2 + lc + lt /\ Len(d) = 2 + lc + lt + lp
       /\ Len(e) = 2 + lc + lt + lp + ls
  <2>1. a \in Seq(S) /\ Len(a) = 2 BY <1>3, <1>9
  <2>2. b \in Seq(S) /\ Len(b) = 2 + lc BY <1>6, <1>7, <1>9, <2>1, ConcatProperties
  <2>3. c \in Seq(S) /\ Len(c) = 2 + lc + lt BY <1>6, <1>7, <1>9, <2>2, ConcatProperties
  <2>4. d \in Seq(S) /\ Len(d) = 2 + lc + lt + lp BY <1>6, <1>7, <1>9, <2>3, ConcatProperties
  <2>5. e \in Seq(S) /\ Len(e) = 2 + lc + lt + lp + ls BY <1>6, <1>7, <1>9, <2>4, ConcatProperties
  <2>6. QED BY <2>1, <2>2, <2>3, <2>4, <2>5
<1>11. PICK cells : cells = e \o wi OBVIOUS
<1>12. Serialised(t) = cells
  BY <1>2, <1>4, <1>9, <1>11 DEF Serialised
<1>13. PICK ot, op, os, oi : /\ ot = 3 + lc /\ op = 3 + lc + lt /\ os = 3 + lc + lt + lp
                             /\ oi = 3 + lc + lt + lp + ls
  OBVIOUS
<1>14. /\ ot \in Nat /\ op \in Nat /\ os \in Nat /\ oi \in Nat
       /\ 1 + Len(a) = 3 /\ 1 + Len(b) = ot /\ 1 + Len(c) = op /\ 1 + Len(d) = os /\ 1 + Len(e) = oi
       /\ 3 + lc = ot /\ ot + lt = op /\ op + lp = os /\ os + ls = oi
  BY <1>8, <1>10, <1>13
<1>15. /\ LiesAt(cells, 1, a) /\ LiesAt(cells, 3, wc) /\ LiesAt(cells, ot, wt)
       /\ LiesAt(cells, op, wp) /\ LiesAt(cells, os, ws) /\ LiesAt(cells, oi, wi)
  <2>1. ASSUME NEW u \in Seq(S), NEW v \in Seq(S), NEW w, w = u \o v, LiesAt(cells, 1, w),
               NEW o, o = 1 + Len(u)
        PROVE  LiesAt(cells, 1, u) /\ LiesAt(cells, o, v)
    <3>1. LiesAt(cells, 1, u \o v) BY <2>1
    <3>2. 1 \in Nat OBVIOUS
    <3>3. LiesAt(cells, 1, u) /\ LiesAt(cells, 1 + Len(u), v) BY <3>1, <3>2, LiesApart
    <3>4. QED BY <2>1, <3>3
  <2>2. LiesAt(cells, 1, cells) BY DEF LiesAt
  <2>3. LiesAt(cells, 1, e) /\ LiesAt(cells, oi, wi)
    <3>1. oi = 1 + Len(e) BY <1>14
    <3>2. QED BY <1>6, <1>10, <1>11, <2>1, <2>2, <3>1
  <2>4. LiesAt(cells, 1, d) /\ LiesAt(cells, os, ws)
    <3>1. os = 1 + Len(d) BY <1>14
    <3>2. QED BY <1>6, <1>9, <1>10, <2>1, <2>3, <3>1
  <2>5. LiesAt(cells, 1, c) /\ LiesAt(cells, op, wp)
    <3>1. op = 1 + Len(c) BY <1>14
    <3>2. QED BY <1>6, <1>9, <1>10, <2>1, <2>4, <3>1
  <2>6. LiesAt(cells, 1, b) /\ LiesAt(cells, ot, wt)
    <3>1. ot = 1 + Len(b) BY <1>14
    <3>2. QED BY <1>6, <1>9, <1>10, <2>1, <2>5, <3>1
  <2>7. LiesAt(cells, 1, a) /\ LiesAt(cells, 3, wc)
    <3>1. 3 = 1 + Len(a) BY <1>14
    <3>2. QED BY <1>6, <1>9, <1>10, <2>1, <2>6, <3>1
  <2>8. QED BY <2>3, <2>4, <2>5, <2>6, <2>7
<1>16. cells[1] = t.len /\ cells[2] = t.root_id
  <2>1. 1 \in Nat /\ 1 + 1 = 2 OBVIOUS
  <2>2. QED BY <1>9, <1>15, <2>1, LiesAlone
<1>17. PICK rc, rt, rp, rs, ri :
         /\ rc = ChoiceAt(cells, 3) /\ rt = TermAt(cells, ot) /\ rp = PassAt(cells, op)
         /\ rs = SuffixAt(cells, os) /\ ri = InfixAt(cells, oi)
  OBVIOUS
<1>18. /\ rc.value = tc /\ rc.offset = ot /\ rt.value = tt1 /\ rt.offset = op
       /\ rp.value = tp /\ rp.offset = os /\ rs.value = ts /\ rs.offset = oi
       /\ ri.value = ti
  <2>1. 3 \in Nat OBVIOUS
  <2>2. /\ rc = Read(tc, ot) /\ rt = Read(tt1, op) /\ rp = Read(tp, os) /\ rs = Read(ts, oi)
        /\ ri = Read(ti, oi + Len(wi))
    BY <1>5, <1>7, <1>14, <1>15, <1>17, <2>1 DEF IsRead
  <2>3. QED BY <2>2 DEF Read
<1>19. Deserialised(cells) =
         [len |-> cells[1], root_id |-> cells[2], choice |-> rc.value, term |-> rt.value,
          pass |-> rp.value, suffix |-> rs.value, infix |-> ri.value]
  BY <1>17, <1>18, DeserialisedIs
<1>20. Deserialised(cells) =
         [len |-> t.len, root_id |-> t.root_id, choice |-> t.choice, term |-> t.term,
          pass |-> t.pass, suffix |-> t.suffix, infix |-> t.infix]
  BY <1>2, <1>16, <1>18, <1>19
<1>21. t = [len |-> t.len, root_id |-> t.root_id, choice |-> t.choice, term |-> t.term,
            pass |-> t.pass, suffix |-> t.suffix, infix |-> t.infix]
  BY DEF Tables
<1>22. QED BY <1>12, <1>20, <1>21

-----------------------------------------------------------------------------
(***************************************************************************)
(* The tables                                                              *)
(***************************************************************************)

Plain   == {"term", "pass", "suffix", "infix"}

Address == [table_type : Plain \cup {"choice"}, table_i : Nat, row_i : Nat]

Streams == {[of |-> "cpref", key |-> k] : k \in Keys}

Cells   == Int \cup Address \cup Buffers \cup Streams

\* Where there are rows
Height(t, type, i) ==
  IF type = "choice" THEN (IF i < Len(t.choice) THEN Len(t.choice[i + 1].rows) ELSE 0)
                     ELSE (IF i = 0 THEN Len(t[type]) ELSE 0)

Places(t) == {a \in Address : a.row_i < Height(t, a.table_type, a.table_i)}

\* The ids stored in a row
Links(t, a) ==
  CASE a.table_type = "choice"          -> RowAt(t, a)
    [] a.table_type \in {"pass", "infix"} -> <<RowAt(t, a).id>>
    [] a.table_type \in {"term", "suffix"} -> <<>>

LinkedBut(t, F) == Linked(Places(t), [a \in Places(t) |-> Links(t, a)], F)

FullFirst(t) ==
  \A i, j \in DOMAIN t.choice :
    i < j /\ t.choice[i].name = t.choice[j].name /\ MissedNames(t.choice[i].name) = {TRUE} =>
      Len(t.choice[i].rows) = MaxDepth

Kept(t) ==
  \A type \in {"term", "pass", "suffix"} : \A i \in DOMAIN t[type] :
    t[type][i].result \in Buffers \cup Streams

Shapely(t) ==
  /\ t \in Tables(Cells) /\ FullFirst(t) /\ Kept(t)
  /\ \A i \in DOMAIN t.choice : Len(t.choice[i].rows) \in 1 .. MaxDepth

Whole(t) == Shapely(t) /\ LinkedBut(t, {t.root_id})

\* Those of D that no other is above
Uppermost(D) == {m \in D : \A o \in D : ~IsStrictPrefix(o, m)}

\* What is converted, with all below it, from heads H
FreeOf(f) == {f[m] : m \in Uppermost(DOMAIN f)}

Partly(t, f, H) ==
  /\ Shapely(t) /\ DOMAIN f \subseteq H
  /\ \A m \in DOMAIN f, o \in H : IsStrictPrefix(m, o) => o \in DOMAIN f
  /\ \A m, o \in Uppermost(DOMAIN f) : f[m] = f[o] => m = o
  /\ LinkedBut(t, FreeOf(f))

Converting == state = "DIRTY" /\ Root \notin DOMAIN ids

Bounded    == \E b \in Nat : \A n \in DOMAIN nodes : Len(n) <= b

\* What is true of the tables in each state: converting, a table of keys is led to from
\* the converted heads; converted, from its root; and the file holds what was written.
TInv ==
  /\ state \in {"RAW", "DIRTY", "CONVERTED", "CLOSED", "READ"}
  /\ Open => Bounded
  /\ state = "RAW" => DOMAIN ids = {}
  /\ state \in {"RAW", "CLOSED"} => tt = Opened
  /\ Converting => (Idle \/ call = "crashed") /\ Partly(tt, ids, Heads)
  /\ state \in {"DIRTY", "CONVERTED", "READ"} /\ Root \in DOMAIN ids => Whole(tt)
  /\ state \in {"CONVERTED", "CLOSED", "READ"} =>
       /\ Root \in DOMAIN ids
       /\ Whole(written) /\ file = Serialised(written)
       /\ state # "CLOSED" => tt = written

LEMMA BoundedStep ==
  ASSUME NEW D, NEW E, NEW x, NEW b \in Nat, \A n \in D : Len(n) <= b,
         E \subseteq D \cup {x}, E \subseteq Seq(Letters)
  PROVE  \E c \in Nat : \A n \in E : Len(n) <= c
<1>1. CASE x \in E
  <2>1. Len(x) \in Nat BY <1>1, SequenceIs
  <2>2. PICK l : l = Len(x) OBVIOUS
  <2>3. b + l \in Nat /\ l <= b + l BY <2>1, <2>2
  <2>4. ASSUME NEW n \in E PROVE Len(n) <= b + l
    <3>1. Len(n) \in Nat BY SequenceIs
    <3>2. CASE n = x BY <2>2, <2>3, <3>2
    <3>3. CASE n # x
      <4>1. Len(n) <= b BY <3>3
      <4>2. QED BY <2>1, <2>2, <3>1, <4>1
    <3>4. QED BY <3>2, <3>3
  <2>5. QED BY <2>3, <2>4
<1>2. CASE x \notin E BY <1>2
<1>3. QED BY <1>1, <1>2

\* Tables with one row more, behind the others of its table
HeightAt(t, a) == Height(t, a.table_type, a.table_i)

NameAt(t, a)   == IF a.table_type = "choice" THEN t.choice[a.table_i + 1].name ELSE <<>>

OneMore(t, u, id) ==
  /\ id \in Address /\ id.row_i = HeightAt(t, id)
  /\ \A a \in Address :
       /\ HeightAt(t, a) \in Nat
       /\ HeightAt(u, a) = IF a.table_type = id.table_type /\ a.table_i = id.table_i
                             THEN HeightAt(t, a) + 1 ELSE HeightAt(t, a)
  /\ \A a \in Places(t) : /\ RowAt(u, a) = RowAt(t, a) /\ NameAt(u, a) = NameAt(t, a)
                          /\ Links(u, a) = Links(t, a)

LEMMA PlaceMore ==
  ASSUME NEW t, NEW u, NEW id, OneMore(t, u, id)
  PROVE  Places(u) = Places(t) \cup {id} /\ id \notin Places(t)
<1>1. /\ id \in Address /\ id.row_i = HeightAt(t, id)
      /\ \A a \in Address :
           /\ HeightAt(t, a) \in Nat
           /\ HeightAt(u, a) = IF a.table_type = id.table_type /\ a.table_i = id.table_i
                                 THEN HeightAt(t, a) + 1 ELSE HeightAt(t, a)
  BY DEF OneMore
<1>2. \A v : Places(v) = {a \in Address : a.row_i < HeightAt(v, a)} BY DEF Places, HeightAt
<1>3. \A a \in Address : a.row_i \in Nat BY DEF Address
<1>4. id \notin Places(t) BY <1>1, <1>2, <1>3
<1>5. ASSUME NEW a \in Address PROVE a.row_i < HeightAt(u, a) <=> a.row_i < HeightAt(t, a) \/ a = id
  <2>1. CASE a.table_type = id.table_type /\ a.table_i = id.table_i
    <3>1. HeightAt(t, a) = HeightAt(t, id) BY <2>1 DEF HeightAt
    <3>2. HeightAt(u, a) = id.row_i + 1 BY <1>1, <2>1, <3>1
    <3>3. a.row_i = id.row_i <=> a = id BY <1>1, <2>1 DEF Address
    <3>4. QED BY <1>1, <1>3, <3>1, <3>2, <3>3
  <2>2. CASE ~(a.table_type = id.table_type /\ a.table_i = id.table_i)
    <3>1. HeightAt(u, a) = HeightAt(t, a) /\ a # id BY <1>1, <2>2
    <3>2. QED BY <3>1
  <2>3. QED BY <2>1, <2>2
<1>6. QED BY <1>1, <1>2, <1>4, <1>5

LEMMA OneMoreLinked ==
  ASSUME NEW t, NEW u, NEW id, OneMore(t, u, id), NEW F, LinkedBut(t, F),
         NEW q \in Seq(F), Distinct(q), q = Links(u, id)
  PROVE  LinkedBut(u, (F \ ToSet(q)) \cup {id})
<1>1. Places(u) = Places(t) \cup {id} /\ id \notin Places(t) BY PlaceMore
<1>2. PICK P, Q, L, M : /\ P = Places(t) /\ Q = Places(u) /\ L = [a \in P |-> Links(t, a)]
                        /\ M = [a \in Q |-> Links(u, a)]
  OBVIOUS
<1>3. Linked(P, L, F) BY <1>2 DEF LinkedBut
<1>4. \A a \in P : M[a] = L[a]
  <2>1. ASSUME NEW a \in P PROVE M[a] = L[a]
    <3>1. Links(u, a) = Links(t, a) BY <1>2 DEF OneMore
    <3>2. a \in Q BY <1>1, <1>2
    <3>3. QED BY <1>2, <3>1, <3>2
  <2>2. QED BY <2>1
<1>5. M[id] = q BY <1>1, <1>2
<1>6. id \notin P BY <1>1, <1>2
<1>7. Linked(P \cup {id}, M, (F \ ToSet(q)) \cup {id}) BY <1>3, <1>4, <1>5, <1>6, LinkedGrows
<1>8. QED BY <1>1, <1>2, <1>7 DEF LinkedBut

\* terminator_append, passthrough_append, suffix_append, infix_append
RowAppended(t, u, type, row) == u = [t EXCEPT ![type] = Append(@, row)]

LEMMA PlainMore ==
  ASSUME NEW S, NEW t \in Tables(S), NEW type \in Plain, NEW row, NEW u, NEW id,
         RowAppended(t, u, type, row), id = Id(type, 0, Len(t[type]))
  PROVE  OneMore(t, u, id) /\ RowAt(u, id) = row
<1>1. /\ \A y \in Plain : t[y] \in Seq(UNION {ToSet(t[z]) : z \in Plain})
      /\ \A y \in Plain : y # "choice"
  <2>1. PICK V : V = UNION {ToSet(t[z]) : z \in Plain} OBVIOUS
  <2>2. ASSUME NEW y \in Plain PROVE t[y] \in Seq(V)
    <3>1. \E W : t[y] \in Seq(W) BY DEF Tables, Plain
    <3>2. PICK s, W : s = t[y] /\ s \in Seq(W) BY <3>1
    <3>3. ToSet(s) \subseteq V BY <2>1, <3>2
    <3>4. \A i \in 1 .. Len(s) : s[i] \in V BY <3>2, <3>3 DEF ToSet
    <3>5. QED BY <3>2, <3>4
  <2>3. QED BY <2>1, <2>2 DEF Plain
<1>2. PICK V : V = UNION {ToSet(t[z]) : z \in Plain} OBVIOUS
<1>3. PICK s, n : s = t[type] /\ n = Len(s) OBVIOUS
<1>4. n \in Nat /\ DOMAIN s = 1 .. n /\ s \in Seq(V) BY <1>1, <1>2, <1>3, SequenceIs
<1>5. PICK s2 : s2 = Append(s, row) OBVIOUS
<1>6. s2 \in Seq(V \cup {row}) /\ Len(s2) = n + 1 /\ s2[n + 1] = row /\ \A i \in 1 .. n : s2[i] = s[i]
  <2>1. s \in Seq(V \cup {row}) BY <1>4
  <2>2. QED BY <1>3, <1>4, <1>5, <2>1, AppendProperties
<1>7. u[type] = s2 /\ u.choice = t.choice /\ \A y \in Plain : y # type => u[y] = t[y]
  <2>1. DOMAIN t = {"len", "root_id", "choice", "term", "pass", "suffix", "infix"} BY DEF Tables
  <2>2. u = [t EXCEPT ![type] = s2] BY <1>3, <1>5 DEF RowAppended
  <2>3. "choice" \in DOMAIN t /\ "choice" # type /\ Plain \subseteq DOMAIN t BY <1>1, <2>1 DEF Plain
  <2>4. \A y \in DOMAIN t : u[y] = IF y = type THEN s2 ELSE t[y] BY <2>2
  <2>5. u["choice"] = t["choice"] BY <2>3, <2>4
  <2>6. QED BY <2>3, <2>4, <2>5
<1>8. id = [table_type |-> type, table_i |-> 0, row_i |-> n] BY <1>1, <1>3 DEF Id
<1>9. id \in Address /\ id.row_i = HeightAt(t, id)
  <2>1. id \in Address BY <1>4, <1>8 DEF Address
  <2>2. HeightAt(t, id) = n BY <1>1, <1>3, <1>8 DEF HeightAt, Height
  <2>3. QED BY <1>8, <2>1, <2>2
<1>10. ASSUME NEW a \in Address
       PROVE  /\ HeightAt(t, a) \in Nat
              /\ HeightAt(u, a) = IF a.table_type = id.table_type /\ a.table_i = id.table_i
                                    THEN HeightAt(t, a) + 1 ELSE HeightAt(t, a)
  <2>1. a.table_type \in Plain \cup {"choice"} /\ a.table_i \in Nat BY DEF Address
  <2>2. CASE a.table_type = "choice"
    <3>1. HeightAt(u, a) = HeightAt(t, a)
      <4>1. PICK c : c = t.choice OBVIOUS
      <4>2. u.choice = c BY <1>7, <4>1
      <4>3. HeightAt(u, a) = IF a.table_i < Len(c) THEN Len(c[a.table_i + 1].rows) ELSE 0
        BY <2>2, <4>2 DEF HeightAt, Height
      <4>4. HeightAt(t, a) = IF a.table_i < Len(c) THEN Len(c[a.table_i + 1].rows) ELSE 0
        BY <2>2, <4>1 DEF HeightAt, Height
      <4>5. QED BY <4>3, <4>4
    <3>2. HeightAt(t, a) \in Nat
      <4>1. t.choice \in Seq(ChoiceTables(S)) BY DEF Tables
      <4>2. ASSUME a.table_i < Len(t.choice) PROVE Len(t.choice[a.table_i + 1].rows) \in Nat
        <5>1. a.table_i + 1 \in 1 .. Len(t.choice) BY <2>1, <4>1, <4>2
        <5>2. t.choice[a.table_i + 1] \in ChoiceTables(S) BY <4>1, <5>1, SequenceIs
        <5>3. t.choice[a.table_i + 1].rows \in Seq(Seq(S)) BY <5>2 DEF ChoiceTables
        <5>4. QED BY <5>3, SequenceIs
      <4>3. QED BY <2>2, <4>2 DEF HeightAt, Height
    <3>3. QED BY <1>1, <1>8, <2>2, <3>1, <3>2
  <2>3. CASE a.table_type \in Plain /\ a.table_type # type
    <3>1. u[a.table_type] = t[a.table_type] /\ Len(t[a.table_type]) \in Nat BY <1>1, <1>7, <2>3, SequenceIs
    <3>2. QED BY <1>1, <1>8, <2>3, <3>1 DEF HeightAt, Height
  <2>4. CASE a.table_type = type
    <3>1. type # "choice" BY <1>1
    <3>2. HeightAt(t, a) = (IF a.table_i = 0 THEN n ELSE 0)
          /\ HeightAt(u, a) = (IF a.table_i = 0 THEN n + 1 ELSE 0)
      BY <1>3, <1>6, <1>7, <2>4, <3>1 DEF HeightAt, Height
    <3>3. QED BY <1>4, <1>8, <2>4, <3>2
  <2>5. QED BY <2>1, <2>2, <2>3, <2>4
<1>11. ASSUME NEW a \in Places(t)
       PROVE  RowAt(u, a) = RowAt(t, a) /\ NameAt(u, a) = NameAt(t, a) /\ Links(u, a) = Links(t, a)
  <2>1. a \in Address /\ a.row_i < HeightAt(t, a) BY DEF Places, HeightAt
  <2>2. a.table_type \in Plain \cup {"choice"} /\ a.table_i \in Nat /\ a.row_i \in Nat BY <2>1 DEF Address
  <2>3. RowAt(u, a) = RowAt(t, a)
    <3>1. CASE a.table_type = "choice"
      <4>1. PICK c : c = t.choice OBVIOUS
      <4>2. u.choice = c BY <1>7, <4>1
      <4>3. RowAt(u, a) = c[a.table_i + 1].rows[a.row_i + 1] BY <3>1, <4>2 DEF RowAt
      <4>4. RowAt(t, a) = c[a.table_i + 1].rows[a.row_i + 1] BY <3>1, <4>1 DEF RowAt
      <4>5. QED BY <4>3, <4>4
    <3>2. CASE a.table_type \in Plain /\ a.table_type # type BY <1>7, <3>2 DEF RowAt
    <3>3. CASE a.table_type = type
      <4>1. type # "choice" BY <1>1
      <4>2. a.row_i < n BY <1>3, <1>4, <2>1, <2>2, <3>3, <4>1 DEF HeightAt, Height
      <4>3. a.row_i + 1 \in 1 .. n BY <1>4, <2>2, <4>2
      <4>4. s2[a.row_i + 1] = s[a.row_i + 1] BY <1>6, <4>3
      <4>5. QED BY <1>3, <1>7, <3>3, <4>1, <4>4 DEF RowAt
    <3>4. QED BY <2>2, <3>1, <3>2, <3>3
  <2>4. NameAt(u, a) = NameAt(t, a) BY <1>7 DEF NameAt
  <2>5. QED BY <2>3, <2>4 DEF Links
<1>12. RowAt(u, id) = row BY <1>1, <1>6, <1>7, <1>8 DEF RowAt
<1>13. QED BY <1>9, <1>10, <1>11, <1>12 DEF OneMore

\* What a row may be
RowOfType(type, row) ==
  CASE type = "term"   -> row \in [result : Buffers \cup Streams]
    [] type = "pass"   -> row \in [id : Address, result : Buffers \cup Streams]
    [] type = "suffix" -> row \in [suffix : Seq(Letters), result : Buffers \cup Streams]
    [] type = "infix"  -> row \in [infix : Seq(Letters), id : Address]

LEMMA CellsAre == /\ Int \subseteq Cells /\ Letters \subseteq Cells /\ Address \subseteq Cells
                  /\ Buffers \cup Streams \subseteq Cells
BY LettersAre DEF Cells

LEMMA PlainTables ==
  ASSUME NEW t \in Tables(Cells), NEW type \in Plain, NEW row, RowOfType(type, row), NEW u,
         RowAppended(t, u, type, row)
  PROVE  u \in Tables(Cells)
<1>1. PICK S : S = Cells OBVIOUS
<1>2. /\ Int \subseteq S /\ Letters \subseteq S /\ Address \subseteq S /\ Buffers \cup Streams \subseteq S
  BY <1>1, CellsAre
<1>3. t = [len |-> t.len, root_id |-> t.root_id, choice |-> t.choice, term |-> t.term,
           pass |-> t.pass, suffix |-> t.suffix, infix |-> t.infix]
      /\ t.len \in S /\ t.root_id \in S /\ t.choice \in Seq(ChoiceTables(S))
      /\ t.term \in Seq([result : S]) /\ t.pass \in Seq([id : S, result : S])
      /\ t.suffix \in Seq([suffix : Seq(S), result : S])
      /\ t.infix \in Seq([infix : Seq(S), id : S])
  BY <1>1 DEF Tables
<1>4. CASE type = "term"
  <2>1. row \in [result : S] BY <1>2, <1>4 DEF RowOfType
  <2>2. PICK R, rows : R = [result : S] /\ rows = Append(t.term, row) OBVIOUS
  <2>3. rows \in Seq(R) BY <1>3, <2>1, <2>2
  <2>4. u = [t EXCEPT !.term = rows] BY <1>4, <2>2 DEF RowAppended
  <2>5. u = [len |-> t.len, root_id |-> t.root_id, choice |-> t.choice, term |-> rows,
             pass |-> t.pass, suffix |-> t.suffix, infix |-> t.infix]
    BY <1>3, <2>4
  <2>6. QED BY <1>1, <1>3, <2>2, <2>3, <2>5 DEF Tables
<1>5. CASE type = "pass"
  <2>1. row \in [id : S, result : S]
    <3>1. row \in [id : Address, result : Buffers \cup Streams] BY <1>5 DEF RowOfType
    <3>2. QED BY <1>2, <3>1
  <2>2. PICK R, rows : R = [id : S, result : S] /\ rows = Append(t.pass, row) OBVIOUS
  <2>3. rows \in Seq(R) BY <1>3, <2>1, <2>2
  <2>4. u = [t EXCEPT !.pass = rows] BY <1>5, <2>2 DEF RowAppended
  <2>5. u = [len |-> t.len, root_id |-> t.root_id, choice |-> t.choice, term |-> t.term,
             pass |-> rows, suffix |-> t.suffix, infix |-> t.infix]
    BY <1>3, <2>4
  <2>6. QED BY <1>1, <1>3, <2>2, <2>3, <2>5 DEF Tables
<1>6. CASE type = "suffix"
  <2>1. row \in [suffix : Seq(S), result : S]
    <3>1. row \in [suffix : Seq(Letters), result : Buffers \cup Streams] BY <1>6 DEF RowOfType
    <3>2. Seq(Letters) \subseteq Seq(S) BY <1>2
    <3>3. QED BY <1>2, <3>1, <3>2
  <2>2. PICK R, rows : R = [suffix : Seq(S), result : S] /\ rows = Append(t.suffix, row) OBVIOUS
  <2>3. rows \in Seq(R) BY <1>3, <2>1, <2>2
  <2>4. u = [t EXCEPT !.suffix = rows] BY <1>6, <2>2 DEF RowAppended
  <2>5. u = [len |-> t.len, root_id |-> t.root_id, choice |-> t.choice, term |-> t.term,
             pass |-> t.pass, suffix |-> rows, infix |-> t.infix]
    BY <1>3, <2>4
  <2>6. QED BY <1>1, <1>3, <2>2, <2>3, <2>5 DEF Tables
<1>7. CASE type = "infix"
  <2>1. row \in [infix : Seq(S), id : S]
    <3>1. row \in [infix : Seq(Letters), id : Address] BY <1>7 DEF RowOfType
    <3>2. Seq(Letters) \subseteq Seq(S) BY <1>2
    <3>3. QED BY <1>2, <3>1, <3>2
  <2>2. PICK R, rows : R = [infix : Seq(S), id : S] /\ rows = Append(t.infix, row) OBVIOUS
  <2>3. rows \in Seq(R) BY <1>3, <2>1, <2>2
  <2>4. u = [t EXCEPT !.infix = rows] BY <1>7, <2>2 DEF RowAppended
  <2>5. u = [len |-> t.len, root_id |-> t.root_id, choice |-> t.choice, term |-> t.term,
             pass |-> t.pass, suffix |-> t.suffix, infix |-> rows]
    BY <1>3, <2>4
  <2>6. QED BY <1>1, <1>3, <2>2, <2>3, <2>5 DEF Tables
<1>8. QED BY <1>4, <1>5, <1>6, <1>7 DEF Plain

LEMMA RowsOfAre ==
  ASSUME NEW t \in Tables(Cells), NEW type \in Plain
  PROVE  \E V : t[type] \in Seq(V)
BY DEF Tables, Plain

LEMMA PlainShapely ==
  ASSUME NEW t, Shapely(t), NEW type \in Plain, NEW row, RowOfType(type, row), NEW u,
         RowAppended(t, u, type, row)
  PROVE  Shapely(u) /\ u.root_id = t.root_id
<1>1. t \in Tables(Cells) /\ FullFirst(t) /\ Kept(t) BY DEF Shapely
<1>2. u \in Tables(Cells) BY <1>1, PlainTables
<1>3. PICK s2 : s2 = Append(t[type], row) OBVIOUS
<1>4. /\ u[type] = s2 /\ u.choice = t.choice /\ u.root_id = t.root_id
      /\ \A y \in Plain : y # type => u[y] = t[y]
  <2>1. DOMAIN t = {"len", "root_id", "choice", "term", "pass", "suffix", "infix"}
    BY <1>1 DEF Tables
  <2>2. u = [t EXCEPT ![type] = s2] BY <1>3 DEF RowAppended
  <2>3. /\ "choice" \in DOMAIN t /\ "choice" # type /\ "root_id" \in DOMAIN t /\ "root_id" # type
        /\ Plain \subseteq DOMAIN t
    BY <2>1 DEF Plain
  <2>4. \A y \in DOMAIN t : u[y] = IF y = type THEN s2 ELSE t[y] BY <2>2
  <2>5. u["choice"] = t["choice"] /\ u["root_id"] = t["root_id"] BY <2>3, <2>4
  <2>6. QED BY <2>3, <2>4, <2>5
<1>5. Kept(u)
  <2>1. SUFFICES ASSUME NEW y \in {"term", "pass", "suffix"}, NEW i \in DOMAIN u[y]
                 PROVE  u[y][i].result \in Buffers \cup Streams
    BY DEF Kept
  <2>2. y \in Plain BY DEF Plain
  <2>3. CASE y # type
    <3>1. u[y] = t[y] BY <1>4, <2>2, <2>3
    <3>2. QED BY <1>1, <2>1, <3>1 DEF Kept
  <2>4. CASE y = type
    <3>1. row.result \in Buffers \cup Streams BY <2>1, <2>4 DEF RowOfType
    <3>2. PICK V, s : s = t[type] /\ s \in Seq(V) BY <1>1, RowsOfAre
    <3>3. PICK n : n = Len(s) OBVIOUS
    <3>4. n \in Nat /\ DOMAIN s = 1 .. n BY <3>2, <3>3, SequenceIs
    <3>5. s \in Seq(V \cup {row}) BY <3>2
    <3>6. Len(s2) = n + 1 /\ s2[n + 1] = row /\ DOMAIN s2 = 1 .. n + 1 /\ \A j \in 1 .. n : s2[j] = s[j]
      BY <1>3, <3>2, <3>3, <3>4, <3>5, AppendProperties
    <3>7. i \in 1 .. n + 1 BY <1>4, <2>1, <2>4, <3>6
    <3>8. CASE i = n + 1 BY <1>4, <2>4, <3>1, <3>6, <3>8
    <3>9. CASE i # n + 1
      <4>1. i \in DOMAIN s /\ s2[i] = s[i] BY <3>4, <3>6, <3>7, <3>9
      <4>2. s[i].result \in Buffers \cup Streams BY <1>1, <2>1, <2>4, <3>2, <4>1 DEF Kept
      <4>3. QED BY <1>4, <2>4, <4>1, <4>2
    <3>10. QED BY <3>8, <3>9
  <2>5. QED BY <2>3, <2>4
<1>6. PICK c : c = t.choice OBVIOUS
<1>7. u.choice = c BY <1>4, <1>6
<1>8. FullFirst(u) BY <1>1, <1>6, <1>7 DEF FullFirst
<1>9. \A i \in DOMAIN u.choice : Len(u.choice[i].rows) \in 1 .. MaxDepth BY <1>6, <1>7 DEF Shapely
<1>10. QED BY <1>2, <1>4, <1>5, <1>8, <1>9 DEF Shapely

\* The table a row goes to: the last of the name, which has room, or a new one.
HasRoom(c, name, i) ==
  /\ i \in DOMAIN c /\ c[i].name = name /\ Len(c[i].rows) < MaxDepth
  /\ \A j \in DOMAIN c : j > i => c[j].name # name

GetsTable(c, name, i, found) ==
  \/ HasRoom(c, name, i)
  \/ i = Len(c) + 1 /\ (found => \A j \in DOMAIN c : ~HasRoom(c, name, j))

LEMMA TableForIs ==
  ASSUME NEW t, NEW C, t.choice \in Seq(C), NEW name, NEW found \in BOOLEAN
  PROVE  GetsTable(t.choice, name, TableFor(t, name, found), found)
<1>1. PICK c : c = t.choice OBVIOUS
<1>2. PICK named : named = {i \in DOMAIN c : /\ c[i].name = name
                                             /\ \A j \in DOMAIN c : j > i => c[j].name # name}
  OBVIOUS
<1>3. c \in Seq(C) BY <1>1
<1>4. PICK n : n = Len(c) OBVIOUS
<1>5. n \in Nat /\ DOMAIN c = 1 .. n BY <1>3, <1>4, SequenceIs
<1>6. \A i, j \in named : i = j BY <1>2, <1>5
<1>7. TableFor(t, name, found) =
        IF found /\ \E i \in named : Len(c[i].rows) < MaxDepth THEN CHOOSE i \in named : TRUE ELSE n + 1
  BY <1>1, <1>2, <1>4 DEF TableFor
<1>8. \A i : HasRoom(c, name, i) <=> i \in named /\ Len(c[i].rows) < MaxDepth BY <1>2 DEF HasRoom
<1>9. CASE found /\ \E i \in named : Len(c[i].rows) < MaxDepth
  <2>1. PICK i \in named : Len(c[i].rows) < MaxDepth BY <1>9
  <2>2. TableFor(t, name, found) = i BY <1>6, <1>7, <1>9, <2>1
  <2>3. QED BY <1>1, <1>8, <2>1, <2>2 DEF GetsTable
<1>10. CASE ~(found /\ \E i \in named : Len(c[i].rows) < MaxDepth)
  <2>1. TableFor(t, name, found) = n + 1 BY <1>7, <1>10
  <2>2. found => \A j \in DOMAIN c : ~HasRoom(c, name, j) BY <1>8, <1>10
  <2>3. QED BY <1>1, <1>4, <2>1, <2>2 DEF GetsTable
<1>11. QED BY <1>9, <1>10

\* Choice tables with the row in table i
Wider(c, d, name, row, i) ==
  \E r \in Seq(Seq(Cells)) :
    /\ i \in DOMAIN d /\ d[i] = [name |-> name, rows |-> Append(r, row)]
    /\ Len(r) < MaxDepth
    /\ IF i \in DOMAIN c THEN c[i] = [name |-> name, rows |-> r] /\ DOMAIN d = DOMAIN c
                         ELSE r = <<>> /\ i = Len(c) + 1 /\ DOMAIN d = 1 .. i
    /\ \A j \in DOMAIN c : j # i => d[j] = c[j]
    /\ d \in Seq([name : Seq(Cells), rows : Seq(Seq(Cells))])

ChoiceId(id, i, d) == id = [table_type |-> "choice", table_i |-> i - 1, row_i |-> Len(d[i].rows) - 1]

ChoiceSet(t, u, d) == u = [t EXCEPT !.choice = d]

ChoicePlaced(t, u, id, name, row, found, i, d) ==
  /\ GetsTable(t.choice, name, i, found) /\ Wider(t.choice, d, name, row, i) /\ ChoiceSet(t, u, d)
  /\ ChoiceId(id, i, d)

LEMMA ChoiceRowIs ==
  ASSUME NEW t \in Tables(Cells), NEW name \in Seq(Cells), NEW row \in Seq(Cells), NEW found \in BOOLEAN,
         NEW new, new = ChoiceRow(t, name, row, found)
  PROVE  \E i, d : ChoicePlaced(t, new.tables, new.id, name, row, found, i, d)
<1>1. PICK c, C, n : c = t.choice /\ C = [name : Seq(Cells), rows : Seq(Seq(Cells))] /\ n = Len(c)
  OBVIOUS
<1>2. c \in Seq(C) /\ n \in Nat /\ DOMAIN c = 1 .. n
  <2>1. t.choice \in Seq(ChoiceTables(Cells)) BY DEF Tables
  <2>2. PICK D : D = ChoiceTables(Cells) OBVIOUS
  <2>3. D \subseteq C BY <1>1, <2>2 DEF ChoiceTables
  <2>4. c \in Seq(D) BY <1>1, <2>1, <2>2
  <2>5. c \in Seq(C) BY <2>3, <2>4
  <2>6. QED BY <1>1, <2>5, SequenceIs
<1>3. PICK i : i = TableFor(t, name, found) OBVIOUS
<1>4. GetsTable(c, name, i, found) BY <1>1, <1>2, <1>3, TableForIs
<1>5. PICK e : e = (IF i > n THEN Append(c, [name |-> name, rows |-> <<>>]) ELSE c) OBVIOUS
<1>6. PICK d : d = [e EXCEPT ![i].rows = Append(@, row)] OBVIOUS
<1>7. /\ new.tables = [t EXCEPT !.choice = d]
      /\ new.id = Id("choice", i - 1, Len(e[i].rows))
  BY <1>1, <1>3, <1>5, <1>6 DEF ChoiceRow, RowNumber
<1>8. PICK empty : empty = [name |-> name, rows |-> <<>>] OBVIOUS
<1>9. empty \in C BY <1>1, <1>8
<1>10. MaxDepth \in 1 .. Byte /\ Byte \in Int BY MaxDepthAssumption, LettersAre
<1>11. /\ e \in Seq(C) /\ i \in DOMAIN e /\ e[i].name = name /\ Len(e[i].rows) < MaxDepth
       /\ IF i \in DOMAIN c THEN e = c ELSE i = n + 1 /\ e = Append(c, empty) /\ e[i] = empty
  <2>1. CASE HasRoom(c, name, i)
    <3>1. i \in 1 .. n BY <1>2, <2>1 DEF HasRoom
    <3>2. e = c BY <1>2, <1>5, <3>1
    <3>3. QED BY <1>2, <2>1, <3>1, <3>2 DEF HasRoom
  <2>2. CASE i = n + 1
    <3>1. e = Append(c, empty) BY <1>2, <1>5, <1>8, <2>2
    <3>2. e \in Seq(C) /\ Len(e) = n + 1 /\ e[n + 1] = empty BY <1>1, <1>2, <1>9, <3>1, AppendProperties
    <3>3. DOMAIN e = 1 .. n + 1 BY <3>2, SequenceIs
    <3>4. i \in DOMAIN e /\ i \notin DOMAIN c BY <1>2, <2>2, <3>3
    <3>5. empty.name = name /\ empty.rows = <<>> /\ Len(<<>>) = 0 BY <1>8
    <3>6. QED BY <1>10, <2>2, <3>1, <3>2, <3>4, <3>5
  <2>3. QED BY <1>1, <1>4, <2>1, <2>2 DEF GetsTable
<1>12. PICK r : r = e[i].rows OBVIOUS
<1>13. e[i] \in C BY <1>11, SequenceIs
<1>14. e[i] = [name |-> name, rows |-> r] /\ r \in Seq(Seq(Cells)) BY <1>1, <1>11, <1>12, <1>13
<1>15. PICK wide : wide = [name |-> name, rows |-> Append(r, row)] OBVIOUS
<1>16. wide \in C BY <1>1, <1>14, <1>15
<1>17. d = [e EXCEPT ![i] = wide]
  <2>1. [e[i] EXCEPT !.rows = Append(@, row)] = wide
    <3>1. PICK x, w : x = e[i] /\ w = Append(r, row) OBVIOUS
    <3>2. x = [name |-> name, rows |-> r] BY <1>14, <3>1
    <3>3. x.rows = r BY <3>2
    <3>4. [x EXCEPT !.rows = w] = wide
      <4>1. [x EXCEPT !.rows = w] = [name |-> name, rows |-> w] BY <3>2
      <4>2. wide = [name |-> name, rows |-> w] BY <1>15, <3>1
      <4>3. QED BY <4>1, <4>2
    <3>5. QED BY <3>1, <3>3, <3>4
  <2>2. d = [e EXCEPT ![i] = [e[i] EXCEPT !.rows = Append(@, row)]] BY <1>6, <1>11
  <2>3. QED BY <2>1, <2>2
<1>18. d \in Seq(C) /\ DOMAIN d = DOMAIN e /\ d[i] = wide /\ \A j \in DOMAIN e : j # i => d[j] = e[j]
  <2>1. /\ DOMAIN d = DOMAIN e /\ d[i] = wide /\ \A j \in DOMAIN e : j # i => d[j] = e[j]
    BY <1>11, <1>17
  <2>2. d \in Seq(C) BY <1>11, <1>16, <1>17
  <2>3. QED BY <2>1, <2>2
<1>19. Wider(c, d, name, row, i)
  <2>1. Len(r) < MaxDepth BY <1>11, <1>12
  <2>2. CASE i \in DOMAIN c
    <3>1. e = c BY <1>11, <2>2
    <3>2. QED BY <1>1, <1>14, <1>15, <1>18, <2>1, <2>2, <3>1 DEF Wider
  <2>3. CASE i \notin DOMAIN c
    <3>1. i = n + 1 /\ e = Append(c, empty) /\ e[i] = empty BY <1>11, <2>3
    <3>2. Len(e) = n + 1 /\ \A j \in 1 .. n : e[j] = c[j] BY <1>1, <1>2, <1>9, <3>1, AppendProperties
    <3>3. DOMAIN e = 1 .. i BY <1>11, <3>1, <3>2, SequenceIs
    <3>4. r = <<>>
      <4>1. empty.rows = <<>> BY <1>8
      <4>2. e[i].rows = empty.rows BY <3>1
      <4>3. QED BY <1>12, <4>1, <4>2
    <3>5. \A j \in DOMAIN c : j # i => d[j] = c[j]
      <4>1. \A j \in DOMAIN c : j \in DOMAIN e BY <1>2, <3>1, <3>3
      <4>2. QED BY <1>2, <1>18, <3>2, <4>1
    <3>6. i \in DOMAIN d /\ DOMAIN d = 1 .. i BY <1>11, <1>18, <3>3
    <3>7. QED BY <1>1, <1>14, <1>15, <1>18, <2>1, <2>3, <3>1, <3>4, <3>5, <3>6 DEF Wider
  <2>4. QED BY <2>2, <2>3
<1>20. new.id = [table_type |-> "choice", table_i |-> i - 1, row_i |-> Len(d[i].rows) - 1]
  <2>1. PICK l : l = Len(r) OBVIOUS
  <2>2. l \in Nat /\ l < Byte BY <1>10, <1>11, <1>12, <1>14, <2>1, SequenceIs
  <2>3. l % Byte = l BY <1>10, <2>2
  <2>4. Len(Append(r, row)) = l + 1 BY <1>14, <2>1
  <2>5. (l + 1) - 1 = l BY <2>2
  <2>6. d[i].rows = Append(r, row) BY <1>15, <1>18
  <2>7. QED BY <1>7, <1>12, <2>1, <2>3, <2>4, <2>5, <2>6 DEF Id
<1>21. ChoiceSet(t, new.tables, d) BY <1>7 DEF ChoiceSet
<1>22. ChoicePlaced(t, new.tables, new.id, name, row, found, i, d)
  BY <1>1, <1>4, <1>19, <1>20, <1>21 DEF ChoicePlaced, ChoiceId
<1>23. QED BY <1>22

LEMMA ChoiceSetIs ==
  ASSUME NEW t \in Tables(Cells), NEW u, NEW d \in Seq(ChoiceTables(Cells)), ChoiceSet(t, u, d)
  PROVE  /\ u \in Tables(Cells) /\ u.choice = d /\ u.root_id = t.root_id
         /\ \A y \in Plain : u[y] = t[y]
<1>1. PICK S, C : S = Cells /\ C = ChoiceTables(S) OBVIOUS
<1>2. t = [len |-> t.len, root_id |-> t.root_id, choice |-> t.choice, term |-> t.term,
           pass |-> t.pass, suffix |-> t.suffix, infix |-> t.infix]
      /\ t.len \in S /\ t.root_id \in S
      /\ t.term \in Seq([result : S]) /\ t.pass \in Seq([id : S, result : S])
      /\ t.suffix \in Seq([suffix : Seq(S), result : S])
      /\ t.infix \in Seq([infix : Seq(S), id : S])
  BY <1>1 DEF Tables
<1>3. u = [len |-> t.len, root_id |-> t.root_id, choice |-> d, term |-> t.term,
           pass |-> t.pass, suffix |-> t.suffix, infix |-> t.infix]
  BY <1>2 DEF ChoiceSet
<1>4. u \in Tables(Cells) BY <1>1, <1>2, <1>3 DEF Tables
<1>5. u.choice = d /\ u.root_id = t.root_id BY <1>3
<1>6. ASSUME NEW y \in Plain PROVE u[y] = t[y]
  <2>1. y \in DOMAIN t /\ y # "choice" BY <1>2 DEF Plain
  <2>2. QED BY <2>1 DEF ChoiceSet
<1>7. QED BY <1>4, <1>5, <1>6

LEMMA Within ==
  ASSUME NEW C, NEW s \in Seq(C), NEW D, \A j \in 1 .. Len(s) : s[j] \in D
  PROVE  s \in Seq(D)
OBVIOUS

LEMMA WiderIs ==
  ASSUME NEW c \in Seq(ChoiceTables(Cells)), NEW name \in Seq(Cells), NEW row \in Seq(Cells),
         Len(row) = Len(name), NEW i, NEW d, Wider(c, d, name, row, i),
         \A j \in DOMAIN c : Len(c[j].rows) \in 1 .. MaxDepth
  PROVE  d \in Seq(ChoiceTables(Cells)) /\ \A j \in DOMAIN d : Len(d[j].rows) \in 1 .. MaxDepth
<1>1. PICK C, D : C = [name : Seq(Cells), rows : Seq(Seq(Cells))] /\ D = ChoiceTables(Cells) OBVIOUS
<1>2. PICK r \in Seq(Seq(Cells)) :
        /\ i \in DOMAIN d /\ d[i] = [name |-> name, rows |-> Append(r, row)]
        /\ Len(r) < MaxDepth
        /\ IF i \in DOMAIN c THEN c[i] = [name |-> name, rows |-> r] /\ DOMAIN d = DOMAIN c
                             ELSE r = <<>> /\ i = Len(c) + 1 /\ DOMAIN d = 1 .. i
        /\ \A j \in DOMAIN c : j # i => d[j] = c[j]
        /\ d \in Seq(C)
  BY <1>1 DEF Wider
<1>3. PICK n, l : n = Len(c) /\ l = Len(r) OBVIOUS
<1>4. n \in Nat /\ DOMAIN c = 1 .. n /\ l \in Nat /\ DOMAIN r = 1 .. l /\ c \in Seq(D)
  BY <1>1, <1>3, SequenceIs
<1>5. PICK rows : rows = Append(r, row) OBVIOUS
<1>6. Len(rows) = l + 1 /\ rows[l + 1] = row /\ \A k \in 1 .. l : rows[k] = r[k]
  BY <1>3, <1>5, AppendProperties
<1>7. MaxDepth \in Int /\ Len(rows) \in 1 .. MaxDepth
  <2>1. MaxDepth \in Int BY MaxDepthAssumption, LettersAre
  <2>2. QED BY <1>2, <1>3, <1>4, <1>6, <2>1
<1>8. \A k \in 1 .. l : Len(r[k]) = Len(name)
  <2>1. CASE i \in DOMAIN c
    <3>1. c[i] \in D /\ c[i] = [name |-> name, rows |-> r] BY <1>2, <1>4, <2>1, SequenceIs
    <3>2. PICK x : x = c[i] OBVIOUS
    <3>3. x \in D /\ x.name = name /\ x.rows = r BY <3>1, <3>2
    <3>4. \A k \in 1 .. Len(x.rows) : Len(x.rows[k]) = Len(x.name) BY <1>1, <3>3 DEF ChoiceTables
    <3>5. QED BY <1>3, <3>3, <3>4
  <2>2. CASE i \notin DOMAIN c
    <3>1. l = 0 BY <1>2, <1>3, <2>2
    <3>2. QED BY <3>1
  <2>3. QED BY <2>1, <2>2
<1>9. \A k \in 1 .. l + 1 : Len(rows[k]) = Len(name)
  <2>1. ASSUME NEW k \in 1 .. l + 1 PROVE Len(rows[k]) = Len(name)
    <3>1. CASE k = l + 1 BY <1>6, <3>1
    <3>2. CASE k # l + 1
      <4>1. k \in 1 .. l BY <1>4, <3>2
      <4>2. QED BY <1>6, <1>8, <4>1
    <3>3. QED BY <3>1, <3>2
  <2>2. QED BY <2>1
<1>10. ASSUME NEW j \in DOMAIN d PROVE d[j] \in D /\ Len(d[j].rows) \in 1 .. MaxDepth
  <2>1. CASE j = i
    <3>1. PICK x : x = d[i] OBVIOUS
    <3>2. x \in C BY <1>2, <3>1, SequenceIs
    <3>3. x.name = name /\ x.rows = rows BY <1>2, <1>5, <3>1
    <3>4. x \in D BY <1>1, <1>6, <1>9, <3>2, <3>3 DEF ChoiceTables
    <3>5. QED BY <1>7, <2>1, <3>1, <3>3, <3>4
  <2>2. CASE j # i
    <3>1. j \in DOMAIN c
      <4>1. CASE i \in DOMAIN c BY <1>2, <4>1
      <4>2. CASE i \notin DOMAIN c
        <5>1. i = n + 1 /\ DOMAIN d = 1 .. i BY <1>2, <1>3, <4>2
        <5>2. QED BY <1>4, <2>2, <5>1
      <4>3. QED BY <4>1, <4>2
    <3>2. d[j] = c[j] BY <1>2, <2>2, <3>1
    <3>3. c[j] \in D BY <1>4, <3>1, SequenceIs
    <3>4. QED BY <3>1, <3>2, <3>3
  <2>3. QED BY <2>1, <2>2
<1>11. d \in Seq(D)
  <2>1. DOMAIN d = 1 .. Len(d) BY <1>2, SequenceIs
  <2>2. \A j \in 1 .. Len(d) : d[j] \in D BY <1>10, <2>1
  <2>3. d \in Seq(C) BY <1>2
  <2>4. QED BY <2>2, <2>3, Within
<1>12. QED BY <1>1, <1>10, <1>11

RowGoes(t, name, row, found, i, d) ==
  /\ Shapely(t) /\ name \in Seq(Letters) /\ row \in Seq(Address) /\ Len(row) = Len(name)
  /\ found \in MissedNames(name) /\ GetsTable(t.choice, name, i, found)
  /\ Wider(t.choice, d, name, row, i)

OnlyChoice(t, u, d) == u.choice = d /\ u.root_id = t.root_id /\ \A y \in Plain : u[y] = t[y]

LEMMA ChoiceShapely ==
  ASSUME NEW t, NEW name, NEW row, NEW found, NEW i, NEW d, RowGoes(t, name, row, found, i, d),
         NEW u, ChoiceSet(t, u, d)
  PROVE  Shapely(u) /\ OnlyChoice(t, u, d)
<1>1. /\ Shapely(t) /\ name \in Seq(Letters) /\ row \in Seq(Address) /\ Len(row) = Len(name)
      /\ found \in MissedNames(name) /\ GetsTable(t.choice, name, i, found)
      /\ Wider(t.choice, d, name, row, i)
  BY DEF RowGoes
<1> USE <1>1
<1>2. t \in Tables(Cells) /\ FullFirst(t) /\ Kept(t) BY DEF Shapely
<1>3. PICK c : c = t.choice OBVIOUS
<1>4. c \in Seq(ChoiceTables(Cells)) BY <1>2, <1>3 DEF Tables
<1>5. name \in Seq(Cells) /\ row \in Seq(Cells)
  <2>1. Seq(Letters) \subseteq Seq(Cells) /\ Seq(Address) \subseteq Seq(Cells) BY CellsAre
  <2>2. QED BY <2>1
<1>6. \A j \in DOMAIN c : Len(c[j].rows) \in 1 .. MaxDepth BY <1>3 DEF Shapely
<1>7. /\ d \in Seq(ChoiceTables(Cells)) /\ \A j \in DOMAIN d : Len(d[j].rows) \in 1 .. MaxDepth
  BY <1>3, <1>4, <1>5, <1>6, WiderIs
<1>8. /\ u \in Tables(Cells) /\ u.choice = d /\ u.root_id = t.root_id
      /\ \A y \in Plain : u[y] = t[y]
  BY <1>2, <1>7, ChoiceSetIs
<1>9. Kept(u) BY <1>2, <1>8 DEF Kept, Plain
<1>10. PICK n : n = Len(c) OBVIOUS
<1>11. n \in Nat /\ DOMAIN c = 1 .. n BY <1>4, <1>10, SequenceIs
<1>12. PICK r \in Seq(Seq(Cells)) :
         /\ i \in DOMAIN d /\ d[i] = [name |-> name, rows |-> Append(r, row)]
         /\ IF i \in DOMAIN c THEN c[i] = [name |-> name, rows |-> r] /\ DOMAIN d = DOMAIN c
                              ELSE r = <<>> /\ i = n + 1 /\ DOMAIN d = 1 .. i
         /\ \A j \in DOMAIN c : j # i => d[j] = c[j]
  BY <1>3, <1>10 DEF Wider
<1>13. d[i].name = name /\ \A j \in DOMAIN c : d[j].name = c[j].name
  <2>1. d[i].name = name BY <1>12
  <2>2. ASSUME NEW j \in DOMAIN c PROVE d[j].name = c[j].name
    <3>1. CASE j = i
      <4>1. c[i] = [name |-> name, rows |-> r] BY <1>12, <3>1
      <4>2. c[i].name = name BY <4>1
      <4>3. QED BY <2>1, <3>1, <4>2
    <3>2. CASE j # i BY <1>12, <3>2
    <3>3. QED BY <3>1, <3>2
  <2>3. QED BY <2>1, <2>2
<1>14. ASSUME NEW a \in DOMAIN d, NEW b \in DOMAIN d, a < b, d[a].name = d[b].name,
              MissedNames(d[a].name) = {TRUE}
       PROVE  Len(d[a].rows) = MaxDepth
  <2>1. a \in DOMAIN c
    <3>1. CASE i \in DOMAIN c BY <1>12, <3>1
    <3>2. CASE i \notin DOMAIN c
      <4>1. i = n + 1 /\ DOMAIN d = 1 .. i BY <1>12, <3>2
      <4>2. QED BY <1>11, <1>14, <4>1
    <3>3. QED BY <3>1, <3>2
  <2>2. ASSUME NEW x \in DOMAIN c, NEW y \in DOMAIN c, x < y, c[x].name = c[y].name,
               MissedNames(c[x].name) = {TRUE}
        PROVE  Len(c[x].rows) = MaxDepth
    BY <1>2, <1>3, <2>2 DEF FullFirst
  <2>3. CASE i \in DOMAIN c
    <3>1. b \in DOMAIN c BY <1>12, <2>3
    <3>2. c[a].name = c[b].name BY <1>13, <1>14, <2>1, <3>1
    <3>3. a # i
      <4>1. SUFFICES ASSUME a = i PROVE FALSE OBVIOUS
      <4>2. HasRoom(c, name, i) BY <1>3, <1>10, <1>11, <2>3 DEF GetsTable
      <4>3. c[b].name = name BY <1>13, <1>14, <3>1, <4>1
      <4>4. b > i BY <1>11, <1>14, <2>1, <3>1, <4>1
      <4>5. QED BY <3>1, <4>2, <4>3, <4>4 DEF HasRoom
    <3>4. d[a] = c[a] BY <1>12, <2>1, <3>3
    <3>5. QED BY <1>14, <2>1, <2>2, <3>1, <3>2, <3>4
  <2>4. CASE i \notin DOMAIN c
    <3>1. i = n + 1 /\ DOMAIN d = 1 .. i /\ d[a] = c[a] BY <1>11, <1>12, <2>1, <2>4
    <3>2. CASE b \in DOMAIN c
      <4>1. c[a].name = c[b].name BY <1>13, <1>14, <2>1, <3>2
      <4>2. QED BY <1>14, <2>1, <2>2, <3>1, <3>2, <4>1
    <3>3. CASE b = i
      <4>1. c[a].name = name BY <1>13, <1>14, <2>1, <3>3
      <4>2. found = TRUE BY <1>14, <3>1, <4>1
      <4>3. ~HasRoom(c, name, a)
        <5>1. ~HasRoom(c, name, i) BY <2>4 DEF HasRoom
        <5>2. QED BY <1>3, <2>1, <4>2, <5>1 DEF GetsTable
      <4>4. CASE \E y \in DOMAIN c : y > a /\ c[y].name = name
        <5>1. PICK y \in DOMAIN c : y > a /\ c[y].name = name BY <4>4
        <5>2. a < y BY <1>11, <2>1, <5>1
        <5>3. QED BY <1>14, <2>1, <2>2, <3>1, <4>1, <5>1, <5>2
      <4>5. CASE ~\E y \in DOMAIN c : y > a /\ c[y].name = name
        <5>1. ~(Len(c[a].rows) < MaxDepth) BY <2>1, <4>1, <4>3, <4>5 DEF HasRoom
        <5>2. Len(c[a].rows) \in 1 .. MaxDepth /\ MaxDepth \in Int
          BY <1>6, <2>1, MaxDepthAssumption, LettersAre
        <5>3. Len(c[a].rows) = MaxDepth BY <5>1, <5>2
        <5>4. QED BY <3>1, <5>3
      <4>6. QED BY <4>4, <4>5
    <3>4. b \in 1 .. n \/ b = i BY <1>11, <1>14, <3>1
    <3>5. QED BY <1>11, <3>2, <3>3, <3>4
  <2>5. QED BY <2>3, <2>4
<1>15. FullFirst(u) BY <1>8, <1>14 DEF FullFirst
<1>16. QED BY <1>7, <1>8, <1>9, <1>15 DEF Shapely, OnlyChoice

LEMMA ChoiceMore ==
  ASSUME NEW t, NEW name, NEW row, NEW found, NEW i, NEW d, RowGoes(t, name, row, found, i, d),
         NEW u, OnlyChoice(t, u, d), NEW id, ChoiceId(id, i, d)
  PROVE  OneMore(t, u, id) /\ RowAt(u, id) = row /\ NameAt(u, id) = name
<1>1. /\ t \in Tables(Cells) /\ Wider(t.choice, d, name, row, i)
      /\ i \in DOMAIN t.choice \/ i = Len(t.choice) + 1
      /\ u.choice = d /\ (\A y \in Plain : u[y] = t[y])
  BY DEF RowGoes, Shapely, OnlyChoice, GetsTable, HasRoom
<1>2. id = [table_type |-> "choice", table_i |-> i - 1, row_i |-> Len(d[i].rows) - 1] BY DEF ChoiceId
<1> USE <1>1
<1>3. PICK c, n : c = t.choice /\ n = Len(c) OBVIOUS
<1>4. c \in Seq(ChoiceTables(Cells)) BY <1>3 DEF Tables
<1>5. n \in Nat /\ DOMAIN c = 1 .. n BY <1>3, <1>4, SequenceIs
<1>6. PICK r \in Seq(Seq(Cells)) :
        /\ i \in DOMAIN d /\ d[i] = [name |-> name, rows |-> Append(r, row)]
        /\ IF i \in DOMAIN c THEN c[i] = [name |-> name, rows |-> r] /\ DOMAIN d = DOMAIN c
                             ELSE r = <<>> /\ i = n + 1 /\ DOMAIN d = 1 .. i
        /\ \A j \in DOMAIN c : j # i => d[j] = c[j]
        /\ d \in Seq([name : Seq(Cells), rows : Seq(Seq(Cells))])
  BY <1>3 DEF Wider
<1>7. PICK m, l, rows : m = Len(d) /\ l = Len(r) /\ rows = Append(r, row) OBVIOUS
<1>8. m \in Nat /\ DOMAIN d = 1 .. m /\ l \in Nat /\ DOMAIN r = 1 .. l
  <2>1. d \in Seq([name : Seq(Cells), rows : Seq(Seq(Cells))]) BY <1>6
  <2>2. QED BY <1>7, <2>1, SequenceIs
<1>9. rows \in Seq(Seq(Cells) \cup {row}) /\ Len(rows) = l + 1 /\ rows[l + 1] = row
      /\ \A k \in 1 .. l : rows[k] = r[k]
  <2>1. r \in Seq(Seq(Cells) \cup {row}) OBVIOUS
  <2>2. QED BY <1>7, <2>1, AppendProperties
<1>10. i \in Nat /\ i >= 1 /\ n <= m /\ i <= m /\ (i \notin DOMAIN c => m = n + 1 /\ i = n + 1)
      /\ (i \in DOMAIN c => m = n)
  <2>1. CASE i \in DOMAIN c
    <3>1. DOMAIN d = DOMAIN c BY <1>6, <2>1
    <3>2. m = n BY <1>5, <1>8, <3>1
    <3>3. QED BY <1>5, <2>1, <3>2
  <2>2. CASE i \notin DOMAIN c
    <3>1. DOMAIN d = 1 .. i /\ i = n + 1 BY <1>6, <2>2
    <3>2. m = n + 1 BY <1>5, <1>8, <3>1
    <3>3. QED BY <1>5, <2>2, <3>1, <3>2
  <2>3. QED BY <2>1, <2>2
<1>11. PICK p : p = i - 1 OBVIOUS
<1>12. p \in Nat /\ p + 1 = i BY <1>10, <1>11
<1>13. id = [table_type |-> "choice", table_i |-> p, row_i |-> l] /\ d[i].rows = rows /\ d[i].name = name
  <2>1. d[i].rows = rows /\ d[i].name = name BY <1>6, <1>7
  <2>2. Len(rows) - 1 = l BY <1>8, <1>9
  <2>3. QED BY <1>2, <1>11, <2>1, <2>2
<1>14. \A j \in Nat : \A y \in Plain : Height(u, y, j) = Height(t, y, j) /\ Height(t, y, j) \in Nat
  <2>1. ASSUME NEW y \in Plain PROVE y # "choice" /\ u[y] = t[y] /\ Len(t[y]) \in Nat
    <3>1. PICK s, V : s = t[y] /\ s \in Seq(V) BY RowsOfAre
    <3>2. QED BY <3>1, SequenceIs DEF Plain
  <2>2. QED BY <2>1 DEF Height
<1>15. \A j \in Nat : Height(t, "choice", j) = IF j < n THEN Len(c[j + 1].rows) ELSE 0
  BY <1>3 DEF Height
<1>16. \A j \in Nat : Height(u, "choice", j) = IF j < m THEN Len(d[j + 1].rows) ELSE 0
  BY <1>7 DEF Height
<1>17. Height(t, "choice", p) = l /\ Height(u, "choice", p) = l + 1
  <2>1. Height(u, "choice", p) = Len(d[i].rows)
    <3>1. p < m BY <1>8, <1>10, <1>12
    <3>2. QED BY <1>12, <1>16, <3>1
  <2>2. Height(t, "choice", p) = l
    <3>1. CASE i \in DOMAIN c
      <4>1. p < n BY <1>5, <1>12, <3>1
      <4>2. c[i].rows = r BY <1>6, <3>1
      <4>3. QED BY <1>7, <1>12, <1>15, <4>1, <4>2
    <3>2. CASE i \notin DOMAIN c
      <4>1. p = n BY <1>5, <1>10, <1>12, <3>2
      <4>2. Height(t, "choice", p) = 0 BY <1>5, <1>15, <4>1
      <4>3. l = 0 BY <1>6, <1>7, <3>2
      <4>4. QED BY <4>2, <4>3
    <3>3. QED BY <3>1, <3>2
  <2>3. QED BY <1>9, <1>13, <2>1, <2>2
<1>18. ASSUME NEW j \in Nat, j # p
       PROVE  Height(u, "choice", j) = Height(t, "choice", j) /\ Height(t, "choice", j) \in Nat
              /\ (j < n => d[j + 1] = c[j + 1])
  <2>1. j + 1 # i BY <1>12, <1>18
  <2>2. CASE j < n
    <3>1. j + 1 \in DOMAIN c /\ j < m BY <1>5, <1>8, <1>10, <2>2
    <3>2. d[j + 1] = c[j + 1] BY <1>6, <2>1, <3>1
    <3>3. PICK x : x = c[j + 1] OBVIOUS
    <3>4. x \in ChoiceTables(Cells) BY <1>4, <3>1, <3>3, SequenceIs
    <3>5. x.rows \in Seq(Seq(Cells)) BY <3>4 DEF ChoiceTables
    <3>6. Len(x.rows) \in Nat BY <3>5, SequenceIs
    <3>7. QED BY <1>15, <1>16, <2>2, <3>1, <3>2, <3>3, <3>6
  <2>3. CASE ~(j < n)
    <3>1. ~(j < m) BY <1>5, <1>8, <1>10, <1>12, <1>18, <2>3
    <3>2. QED BY <1>15, <1>16, <2>3, <3>1
  <2>4. QED BY <2>2, <2>3
<1>19. id \in Address /\ id.row_i = HeightAt(t, id) /\ id.table_type = "choice" /\ id.table_i = p
  <2>1. id.table_type = "choice" /\ id.table_i = p /\ id.row_i = l BY <1>13
  <2>2. QED BY <1>8, <1>12, <1>13, <1>17, <2>1 DEF Address, HeightAt
<1>20. ASSUME NEW a \in Address
       PROVE  /\ HeightAt(t, a) \in Nat
              /\ HeightAt(u, a) = IF a.table_type = id.table_type /\ a.table_i = id.table_i
                                    THEN HeightAt(t, a) + 1 ELSE HeightAt(t, a)
  <2>1. a.table_type \in Plain \cup {"choice"} /\ a.table_i \in Nat /\ "choice" \notin Plain
    BY DEF Address, Plain
  <2>2. CASE a.table_type \in Plain BY <1>14, <1>19, <2>1, <2>2 DEF HeightAt
  <2>3. CASE a.table_type = "choice" /\ a.table_i = p BY <1>8, <1>17, <1>19, <2>3 DEF HeightAt
  <2>4. CASE a.table_type = "choice" /\ a.table_i # p BY <1>18, <1>19, <2>1, <2>4 DEF HeightAt
  <2>5. QED BY <2>1, <2>2, <2>3, <2>4
<1>21. ASSUME NEW a \in Places(t)
       PROVE  RowAt(u, a) = RowAt(t, a) /\ NameAt(u, a) = NameAt(t, a) /\ Links(u, a) = Links(t, a)
  <2>1. /\ a \in Address /\ a.row_i < Height(t, a.table_type, a.table_i)
        /\ a.table_type \in Plain \cup {"choice"} /\ a.table_i \in Nat /\ a.row_i \in Nat
    BY DEF Places, Address
  <2>2. RowAt(u, a) = RowAt(t, a)
    <3>1. CASE a.table_type \in Plain
      <4>1. u[a.table_type] = t[a.table_type] /\ a.table_type # "choice" BY <3>1 DEF Plain
      <4>2. QED BY <4>1 DEF RowAt
    <3>2. CASE a.table_type = "choice"
      <4>1. PICK j, k : j = a.table_i /\ k = a.row_i OBVIOUS
      <4>2. RowAt(u, a) = d[j + 1].rows[k + 1] /\ RowAt(t, a) = c[j + 1].rows[k + 1]
        BY <1>3, <3>2, <4>1 DEF RowAt
      <4>3. j \in Nat /\ k \in Nat /\ k < Height(t, "choice", j) BY <2>1, <3>2, <4>1
      <4>4. j < n BY <1>15, <4>3
      <4>5. CASE j # p
        <5>1. d[j + 1] = c[j + 1] BY <1>18, <4>3, <4>4, <4>5
        <5>2. QED BY <4>2, <5>1
      <4>6. CASE j = p
        <5>1. k + 1 \in 1 .. l BY <1>8, <1>17, <4>3, <4>6
        <5>2. i \in DOMAIN c BY <1>5, <1>12, <4>3, <4>4, <4>6
        <5>3. c[i].rows = r BY <1>6, <5>2
        <5>4. rows[k + 1] = r[k + 1] BY <1>9, <5>1
        <5>5. QED BY <1>12, <1>13, <4>2, <4>6, <5>3, <5>4
      <4>7. QED BY <4>5, <4>6
    <3>3. QED BY <2>1, <3>1, <3>2
  <2>3. NameAt(u, a) = NameAt(t, a)
    <3>1. CASE a.table_type # "choice" BY <3>1 DEF NameAt
    <3>2. CASE a.table_type = "choice"
      <4>1. PICK j, k : j = a.table_i /\ k = a.row_i OBVIOUS
      <4>2. j \in Nat /\ k \in Nat /\ k < Height(t, "choice", j) BY <2>1, <3>2, <4>1
      <4>3. j < n BY <1>15, <4>2
      <4>4. d[j + 1].name = c[j + 1].name
        <5>1. CASE j # p BY <1>18, <4>2, <4>3, <5>1
        <5>2. CASE j = p
          <6>1. i \in DOMAIN c BY <1>5, <1>12, <4>2, <4>3, <5>2
          <6>2. c[i] = [name |-> name, rows |-> r] BY <1>6, <6>1
          <6>3. c[i].name = name BY <6>2
          <6>4. QED BY <1>12, <1>13, <5>2, <6>3
        <5>3. QED BY <5>1, <5>2
      <4>5. NameAt(u, a) = d[j + 1].name /\ NameAt(t, a) = c[j + 1].name
        BY <1>3, <3>2, <4>1 DEF NameAt
      <4>6. QED BY <4>4, <4>5
    <3>3. QED BY <3>1, <3>2
  <2>4. QED BY <2>2, <2>3 DEF Links
<1>22. RowAt(u, id) = row /\ NameAt(u, id) = name
  <2>1. id.table_type = "choice" /\ id.table_i = p /\ id.row_i = l BY <1>13
  <2>2. RowAt(u, id) = u.choice[id.table_i + 1].rows[id.row_i + 1] BY <2>1 DEF RowAt
  <2>3. RowAt(u, id) = d[p + 1].rows[l + 1] BY <1>1, <2>1, <2>2
  <2>4. NameAt(u, id) = d[p + 1].name BY <1>1, <2>1 DEF NameAt
  <2>5. QED BY <1>9, <1>12, <1>13, <2>3, <2>4
<1>23. QED BY <1>19, <1>20, <1>21, <1>22 DEF OneMore

\* choice_new_row
LEMMA ChoiceAppended ==
  ASSUME NEW t, Shapely(t), NEW name \in Seq(Letters), NEW row \in Seq(Address), Len(row) = Len(name),
         NEW found \in MissedNames(name), NEW new, new = ChoiceRow(t, name, row, found)
  PROVE  /\ Shapely(new.tables) /\ new.tables.root_id = t.root_id /\ OneMore(t, new.tables, new.id)
         /\ RowAt(new.tables, new.id) = row /\ NameAt(new.tables, new.id) = name
         /\ new.id.table_type = "choice"
<1>1. PICK u, id : u = new.tables /\ id = new.id OBVIOUS
<1>2. found \in BOOLEAN BY DEF MissedNames
<1>3. name \in Seq(Cells) /\ row \in Seq(Cells) /\ t \in Tables(Cells)
  <2>1. Seq(Letters) \subseteq Seq(Cells) /\ Seq(Address) \subseteq Seq(Cells) BY CellsAre
  <2>2. QED BY <2>1 DEF Shapely
<1>4. \E i, d : ChoicePlaced(t, u, id, name, row, found, i, d) BY <1>1, <1>2, <1>3, ChoiceRowIs
<1>5. PICK i, d : ChoicePlaced(t, u, id, name, row, found, i, d) BY <1>4
<1>6. RowGoes(t, name, row, found, i, d) /\ ChoiceSet(t, u, d) /\ ChoiceId(id, i, d)
  BY <1>5 DEF ChoicePlaced, RowGoes
<1>7. Shapely(u) /\ OnlyChoice(t, u, d) BY <1>6, ChoiceShapely
<1>8. OneMore(t, u, id) /\ RowAt(u, id) = row /\ NameAt(u, id) = name BY <1>6, <1>7, ChoiceMore
<1>9. id.table_type = "choice" /\ u.root_id = t.root_id BY <1>6, <1>7 DEF ChoiceId, OnlyChoice
<1>10. QED BY <1>1, <1>7, <1>8, <1>9

\* A key of a node
KeyAt(ns, n, l) == \E i \in DOMAIN ns[n].keys : ns[n].keys[i] = l

\* The letters of a node lead to it through nodes.
LEMMA NodesAbove ==
  ASSUME NEW ns, Tree(ns), NEW m \in DOMAIN ns
  PROVE  /\ \A k \in 0 .. Len(m) : SubSeq(m, 1, k) \in DOMAIN ns
         /\ \A k \in 0 .. Len(m) - 1 : KeyAt(ns, SubSeq(m, 1, k), m[k + 1])
<1>1. /\ m \in Seq(Letters) /\ DOMAIN ns \subseteq Seq(Letters)
      /\ \A o \in DOMAIN ns \ {Root} :
           \E n \in DOMAIN ns : \E i \in DOMAIN ns[n].keys : o = Append(n, ns[n].keys[i])
  BY DEF Tree
<1>2. PICK L : L = Len(m) OBVIOUS
<1>3. L \in Nat /\ \A i \in 1 .. L : m[i] \in Letters BY <1>1, <1>2, SequenceIs
<1>4. ASSUME NEW k \in 1 .. L, SubSeq(m, 1, k) \in DOMAIN ns
      PROVE  SubSeq(m, 1, k - 1) \in DOMAIN ns /\ KeyAt(ns, SubSeq(m, 1, k - 1), m[k])
  <2>1. PICK o, p : o = SubSeq(m, 1, k) /\ p = SubSeq(m, 1, k - 1) OBVIOUS
  <2>2. k \in 0 .. Len(m) /\ k - 1 \in 0 .. Len(m) BY <1>2, <1>3
  <2>3. p \in Seq(Letters) /\ o \in Seq(Letters) /\ Len(o) = k BY <1>1, <2>1, <2>2, StartIs
  <2>4. Append(p, m[k]) = o BY <1>1, <1>2, <2>1, SubSeqGrows
  <2>5. o # Root BY <1>3, <2>3 DEF Root
  <2>6. o \in DOMAIN ns \ {Root} BY <1>4, <2>1, <2>5
  <2>7. PICK n \in DOMAIN ns : \E i \in DOMAIN ns[n].keys : o = Append(n, ns[n].keys[i])
    BY <1>1, <2>6
  <2>8. PICK i \in DOMAIN ns[n].keys : o = Append(n, ns[n].keys[i]) BY <2>7
  <2>9. n \in Seq(Letters) /\ ns[n].keys \in Seq(Letters) BY NodeIs
  <2>10. PICK l : l = ns[n].keys[i] OBVIOUS
  <2>11. l \in Letters BY <2>9, <2>10, SequenceIs
  <2>12. Append(n, l) = Append(p, m[k]) /\ m[k] \in Letters BY <1>3, <2>4, <2>8, <2>10
  <2>13. n = p /\ l = m[k] BY <2>3, <2>9, <2>11, <2>12, ParentIs
  <2>14. QED BY <2>1, <2>8, <2>10, <2>13 DEF KeyAt
<1> DEFINE T == {d \in 0 .. L : SubSeq(m, 1, L - d) \in DOMAIN ns}
<1>5. Hereditary(T, 0, L)
  <2>1. 0 \in T
    <3>1. L - 0 = L /\ 0 \in 0 .. L BY <1>3
    <3>2. SubSeq(m, 1, L) = m BY <1>1, <1>2, SubSeqFull
    <3>3. QED BY <3>1, <3>2
  <2>2. ASSUME NEW d \in 0 .. L - 1, d \in T PROVE d + 1 \in T
    <3>1. L - d \in 1 .. L /\ L - d - 1 = L - (d + 1) /\ d + 1 \in 0 .. L BY <1>3
    <3>2. SubSeq(m, 1, L - d - 1) \in DOMAIN ns BY <1>4, <2>2, <3>1
    <3>3. QED BY <3>1, <3>2
  <2> HIDE DEF T
  <2>3. QED BY <2>1, <2>2 DEF Hereditary
<1>6. 0 .. L \subseteq T
  <2> HIDE DEF T
  <2>1. 0 \in Int /\ L \in Int BY <1>3
  <2>2. QED BY <1>5, <2>1, IntervalInduction
<1>7. ASSUME NEW k \in 0 .. L PROVE SubSeq(m, 1, k) \in DOMAIN ns
  <2>1. L - k \in 0 .. L /\ L - (L - k) = k BY <1>3
  <2>2. L - k \in T BY <1>6, <2>1
  <2>3. QED BY <2>1, <2>2
<1>8. ASSUME NEW k \in 0 .. L - 1 PROVE KeyAt(ns, SubSeq(m, 1, k), m[k + 1])
  <2>1. k + 1 \in 1 .. L /\ k + 1 \in 0 .. L /\ (k + 1) - 1 = k BY <1>3
  <2>2. SubSeq(m, 1, k + 1) \in DOMAIN ns BY <1>7, <2>1
  <2>3. QED BY <1>4, <2>1, <2>2
<1>9. QED BY <1>2, <1>7, <1>8

-----------------------------------------------------------------------------
\* The heads below a head

Under(n, m) == IsStart(n, m) /\ Len(n) < Len(m)

LEMMA NotHead ==
  ASSUME Tree(nodes), NEW n \in DOMAIN nodes
  PROVE  /\ Len(nodes[n].children) \in Nat
         /\ DOMAIN nodes[n].children = 1 .. Len(nodes[n].children)
         /\ DOMAIN nodes[n].keys = 1 .. Len(nodes[n].children)
         /\ \A i \in 1 .. Len(nodes[n].children) :
              nodes[n].children[i] = Append(n, nodes[n].keys[i]) /\ nodes[n].keys[i] \in Letters
         /\ n \notin Heads => Len(nodes[n].children) = 1 /\ n # Root
<1>1. PICK c, k : c = nodes[n].children /\ k = nodes[n].keys OBVIOUS
<1>2. c = [i \in DOMAIN k |-> Append(n, k[i])] /\ k \in Seq(Letters) BY <1>1, NodeIs
<1>3. c \in Seq(Seq(Letters)) BY <1>1, NodeIs DEF Node
<1>4. DOMAIN c = DOMAIN k /\ \A i \in DOMAIN c : c[i] = Append(n, k[i]) BY <1>2
<1>5. Len(c) \in Nat /\ DOMAIN c = 1 .. Len(c) BY <1>3, SequenceIs
<1>6. DOMAIN k = 1 .. Len(k) /\ \A i \in 1 .. Len(k) : k[i] \in Letters BY <1>2, SequenceIs
<1>7. n \notin Heads => Len(c) = 1 /\ n # Root BY <1>1 DEF Heads
<1>8. QED BY <1>1, <1>4, <1>5, <1>6, <1>7

LEMMA ChildIs ==
  ASSUME Tree(nodes), NEW n \in DOMAIN nodes, NEW i \in DOMAIN nodes[n].keys
  PROVE  /\ Append(n, nodes[n].keys[i]) \in DOMAIN nodes
         /\ Len(Append(n, nodes[n].keys[i])) = Len(n) + 1
         /\ Append(n, nodes[n].keys[i])[Len(n) + 1] = nodes[n].keys[i]
         /\ Under(n, Append(n, nodes[n].keys[i]))
         /\ Len(nodes[n].children) > 1 => Append(n, nodes[n].keys[i]) \in Heads
<1>1. n \in Seq(Letters) /\ nodes[n].keys \in Seq(Letters) BY NodeIs
<1>2. PICK l, m : l = nodes[n].keys[i] /\ m = Append(n, l) OBVIOUS
<1>3. l \in Letters BY <1>1, <1>2, SequenceIs
<1>4. m \in DOMAIN nodes BY <1>2, NodeIs
<1>5. Len(n) \in Nat /\ Len(m) = Len(n) + 1 /\ m[Len(n) + 1] = l /\ \A j \in 1 .. Len(n) : m[j] = n[j]
  BY <1>1, <1>2, <1>3, SequenceIs, AppendIs
<1>6. Under(n, m) BY <1>5 DEF Under, IsStart
<1>7. Front(m) = n BY <1>1, <1>2, <1>3, ParentIs
<1>8. Len(nodes[n].children) > 1 => Len(nodes[Front(m)].children) # 1 BY <1>7, NotHead
<1>9. Len(nodes[n].children) > 1 => m \in Heads BY <1>4, <1>8 DEF Heads
<1>10. QED BY <1>2, <1>4, <1>5, <1>6, <1>9

LEMMA HeadUnder ==
  ASSUME Tree(nodes), Bounded, NEW n \in DOMAIN nodes, Len(nodes[n].children) > 0
  PROVE  \E h \in Heads : Under(n, h)
<1>1. PICK b \in Nat : \A m \in DOMAIN nodes : Len(m) <= b BY DEF Bounded
<1>2. \A m \in DOMAIN nodes : m \in Seq(Letters) /\ Len(m) \in Nat BY SequenceIs DEF Tree
<1> DEFINE T == {d \in Nat : \E m \in DOMAIN nodes : Under(n, m) /\ d = b - Len(m)}
<1>3. \A m \in DOMAIN nodes : Under(n, m) => b - Len(m) \in T
  <2>1. ASSUME NEW m \in DOMAIN nodes PROVE b - Len(m) \in Nat
    <3>1. PICK l : l = Len(m) OBVIOUS
    <3>2. l \in Nat /\ l <= b BY <1>1, <1>2, <3>1
    <3>3. QED BY <3>1, <3>2
  <2>2. QED BY <2>1
<1>4. T # {}
  <2>1. 1 \in DOMAIN nodes[n].keys BY NotHead
  <2>2. PICK m : m = Append(n, nodes[n].keys[1]) OBVIOUS
  <2>3. m \in DOMAIN nodes /\ Under(n, m) BY <2>1, <2>2, ChildIs
  <2> HIDE DEF T
  <2>4. QED BY <1>3, <2>3
<1>5. PICK d \in T : \A e \in T : d <= e
  <2>1. T \in SUBSET Nat OBVIOUS
  <2> HIDE DEF T
  <2>2. QED BY <1>4, <2>1, LeastNatural
<1>6. PICK m \in DOMAIN nodes : Under(n, m) /\ d = b - Len(m) BY <1>5
<1>7. SUFFICES ASSUME m \notin Heads PROVE FALSE BY <1>6
<1>8. 1 \in DOMAIN nodes[m].keys BY <1>7, NotHead
<1>9. PICK o : o = Append(m, nodes[m].keys[1]) OBVIOUS
<1>10. o \in DOMAIN nodes /\ Len(o) = Len(m) + 1 /\ Under(m, o) BY <1>8, <1>9, ChildIs
<1>11. Under(n, o)
  <2>1. IsStart(n, o) BY <1>2, <1>6, <1>10, BeginsFurther DEF Under
  <2>2. Len(n) \in Nat /\ Len(m) \in Nat BY <1>2
  <2>3. QED BY <1>6, <1>10, <2>1, <2>2 DEF Under
<1>12. b - Len(o) \in T BY <1>3, <1>10, <1>11
<1>13. d <= b - Len(o)
  <2> HIDE DEF T
  <2>1. QED BY <1>5, <1>12
<1>14. PICK l : l = Len(m) OBVIOUS
<1>15. l \in Nat BY <1>2, <1>14
<1>16. QED BY <1>6, <1>10, <1>13, <1>14, <1>15

\* The only way down from a node with one child leads to one head before all others.
LEMMA NextHead ==
  ASSUME Tree(nodes), Bounded, NEW n \in DOMAIN nodes, Len(nodes[n].children) = 1
  PROVE  \E e \in Heads : Under(n, e) /\ \A o \in Heads : Under(n, o) => IsStart(e, o)
<1>1. Heads \subseteq DOMAIN nodes /\ \A m \in DOMAIN nodes : m \in Seq(Letters) /\ Len(m) \in Nat
  BY SequenceIs DEF Tree, Heads
<1> DEFINE T == {d \in Nat : \E h \in Heads : Under(n, h) /\ d = Len(h)}
<1>2. T # {}
  <2>1. PICK h \in Heads : Under(n, h) BY HeadUnder
  <2>2. Len(h) \in T BY <1>1, <2>1
  <2>3. QED BY <2>2
<1>3. PICK d \in T : \A x \in T : d <= x
  <2>1. T \in SUBSET Nat OBVIOUS
  <2> HIDE DEF T
  <2>2. QED BY <1>2, <2>1, LeastNatural
<1>4. PICK e \in Heads : Under(n, e) /\ d = Len(e) BY <1>3
<1>5. \A o \in Heads : Under(n, o) => Len(e) <= Len(o)
  <2>1. ASSUME NEW o \in Heads, Under(n, o) PROVE Len(e) <= Len(o)
    <3>1. Len(o) \in T BY <1>1, <2>1
    <3> HIDE DEF T
    <3>2. QED BY <1>3, <1>4, <3>1
  <2>2. QED BY <2>1
<1> HIDE DEF T
<1>6. PICK a, z : a = Len(n) /\ z = Len(e) OBVIOUS
<1>7. a \in Nat /\ z \in Nat /\ a < z BY <1>1, <1>4, <1>6 DEF Under
<1>8. ASSUME NEW k \in a .. z - 1
      PROVE  SubSeq(e, 1, k) \in DOMAIN nodes /\ Len(nodes[SubSeq(e, 1, k)].children) = 1
  <2>1. PICK x : x = SubSeq(e, 1, k) OBVIOUS
  <2>2. k \in 0 .. Len(e) /\ k < Len(e) /\ k \in Nat BY <1>6, <1>7
  <2>3. x \in DOMAIN nodes BY <1>1, <2>1, <2>2, NodesAbove
  <2>4. Len(x) = k /\ \A i \in 1 .. k : x[i] = e[i] BY <1>1, <2>1, <2>2, StartIs
  <2>5. CASE k = a
    <3>1. \A i \in 1 .. a : x[i] = n[i] BY <1>4, <1>6, <2>4, <2>5 DEF Under, IsStart
    <3>2. x = n BY <1>1, <1>6, <2>3, <2>4, <2>5, <3>1, SeqEqual
    <3>3. QED BY <2>1, <2>3, <3>2
  <2>6. CASE k # a
    <3>1. a < k BY <1>7, <2>6
    <3>2. \A i \in 1 .. a : x[i] = n[i]
      <4>1. \A i \in 1 .. a : i \in 1 .. k BY <1>7, <3>1
      <4>2. QED BY <1>4, <1>6, <2>4, <4>1 DEF Under, IsStart
    <3>3. Under(n, x) BY <1>6, <1>7, <2>4, <3>1, <3>2 DEF Under, IsStart
    <3>4. x \notin Heads
      <4>1. SUFFICES ASSUME x \in Heads PROVE FALSE OBVIOUS
      <4>2. z <= k BY <1>5, <1>6, <2>4, <3>3, <4>1
      <4>3. QED BY <1>7, <4>2
    <3>5. QED BY <2>1, <2>3, <3>4, NotHead
  <2>7. QED BY <2>5, <2>6
<1>9. ASSUME NEW o \in Heads, Under(n, o) PROVE IsStart(e, o)
  <2>1. Len(o) \in Nat /\ z <= Len(o) BY <1>1, <1>5, <1>6, <1>9
  <2> DEFINE V == {k \in a .. z : \A i \in 1 .. k : o[i] = e[i]}
  <2>2. a \in V
    <3>1. \A i \in 1 .. a : o[i] = n[i] /\ e[i] = n[i] BY <1>4, <1>6, <1>9 DEF Under, IsStart
    <3>2. QED BY <1>7, <3>1
  <2>3. ASSUME NEW k \in a .. z - 1, k \in V PROVE k + 1 \in V
    <3>1. k \in Nat /\ k \in 0 .. Len(o) - 1 /\ k \in 0 .. Len(e) - 1 /\ k \in 0 .. Len(o) /\ k \in 0 .. Len(e)
      BY <1>6, <1>7, <2>1
    <3>2. PICK x : x = SubSeq(e, 1, k) OBVIOUS
    <3>3. x \in Seq(Letters) /\ Len(x) = k /\ \A i \in 1 .. k : x[i] = e[i]
      BY <1>1, <3>1, <3>2, StartIs
    <3>4. PICK y : y = SubSeq(o, 1, k) OBVIOUS
    <3>5. y \in Seq(Letters) /\ Len(y) = k /\ \A i \in 1 .. k : y[i] = o[i]
      BY <1>1, <3>1, <3>4, StartIs
    <3>6. x = y
      <4>1. \A i \in 1 .. k : x[i] = y[i] BY <2>3, <3>3, <3>5
      <4>2. QED BY <3>3, <3>5, <4>1, SeqEqual
    <3>7. KeyAt(nodes, x, e[k + 1]) /\ KeyAt(nodes, x, o[k + 1])
      BY <1>1, <3>1, <3>2, <3>4, <3>6, NodesAbove
    <3>8. x \in DOMAIN nodes /\ Len(nodes[x].children) = 1 BY <1>8, <3>2
    <3>9. DOMAIN nodes[x].keys = 1 .. 1 BY <3>8, NotHead
    <3>10. \A i, j \in DOMAIN nodes[x].keys : i = j BY <3>9
    <3>11. e[k + 1] = o[k + 1] BY <3>7, <3>10 DEF KeyAt
    <3>12. \A i \in 1 .. k + 1 : i \in 1 .. k \/ i = k + 1 BY <3>1
    <3>13. k + 1 \in a .. z BY <1>7, <2>3
    <3>14. QED BY <2>3, <3>11, <3>12, <3>13
  <2> HIDE DEF V
  <2>4. Hereditary(V, a, z) BY <2>2, <2>3 DEF Hereditary
  <2>5. a .. z \subseteq V BY <1>7, <2>4, IntervalInduction
  <2>6. z \in V BY <1>7, <2>5
  <2>7. \A i \in 1 .. z : o[i] = e[i] BY <2>6 DEF V
  <2>8. QED BY <1>6, <2>1, <2>7 DEF IsStart
<1>10. QED BY <1>4, <1>9

LEMMA HeadsAre ==
  ASSUME Tree(nodes)
  PROVE  /\ Heads \subseteq DOMAIN nodes /\ \A m \in DOMAIN nodes : m \in Seq(Letters) /\ Len(m) \in Nat
         /\ \A m, o \in Heads : IsStrictPrefix(m, o) <=> Under(m, o)
<1>1. Heads \subseteq DOMAIN nodes /\ \A m \in DOMAIN nodes : m \in Seq(Letters) /\ Len(m) \in Nat
  BY SequenceIs DEF Tree, Heads
<1>2. \A m, o \in Heads : IsStrictPrefix(m, o) <=> Under(m, o) BY <1>1, BeginsIs DEF Under
<1>3. QED BY <1>1, <1>2

LEMMA InfixEndIs ==
  ASSUME Tree(nodes), Bounded, NEW n \in Heads, Len(nodes[n].children) = 1
  PROVE  /\ InfixEnd(n) \in Heads /\ Under(n, InfixEnd(n))
         /\ \A o \in Heads : Under(n, o) => IsStart(InfixEnd(n), o)
<1>1. n \in DOMAIN nodes BY HeadsAre
<1>2. PICK e \in Heads : Under(n, e) /\ \A o \in Heads : Under(n, o) => IsStart(e, o) BY <1>1, NextHead
<1>3. \A m, o \in Heads : (IsStrictPrefix(m, o) <=> Under(m, o)) /\ (IsPrefix(m, o) <=> IsStart(m, o))
  BY HeadsAre, BeginsIs
<1>4. IsStrictPrefix(n, e) /\ \A o \in Heads : IsStrictPrefix(n, o) => IsPrefix(e, o) BY <1>2, <1>3
<1>5. /\ InfixEnd(n) \in Heads /\ IsStrictPrefix(n, InfixEnd(n))
      /\ \A o \in Heads : IsStrictPrefix(n, o) => IsPrefix(InfixEnd(n), o)
  BY <1>4 DEF InfixEnd
<1>6. QED BY <1>3, <1>5

\* The heads that a head leads to
Kids(n) == IF Len(nodes[n].children) = 1 THEN {InfixEnd(n)} ELSE ToSet(nodes[n].children)

LEMMA KidsAre ==
  ASSUME Tree(nodes), Bounded, NEW n \in Heads
  PROVE  /\ \A k \in Kids(n) : k \in Heads /\ Under(n, k)
         /\ \A k \in Kids(n) : \A o \in Heads : Under(n, o) => ~Under(o, k)
         /\ \A o \in Heads : Under(n, o) => \E k \in Kids(n) : IsStart(k, o)
<1>1. n \in DOMAIN nodes /\ n \in Seq(Letters) /\ Len(n) \in Nat BY HeadsAre
<1>2. \A o \in Heads : o \in DOMAIN nodes /\ o \in Seq(Letters) /\ Len(o) \in Nat BY HeadsAre
<1>3. PICK l : l = Len(nodes[n].children) OBVIOUS
<1>4. l \in Nat /\ DOMAIN nodes[n].children = 1 .. l BY <1>1, <1>3, NotHead
<1>5. CASE l = 1
  <2>1. PICK e : e = InfixEnd(n) OBVIOUS
  <2>2. Kids(n) = {e} BY <1>3, <1>5, <2>1 DEF Kids
  <2>3. e \in Heads /\ Under(n, e) /\ \A o \in Heads : Under(n, o) => IsStart(e, o)
    BY <1>3, <1>5, <2>1, InfixEndIs
  <2>4. ASSUME NEW o \in Heads, Under(n, o) PROVE ~Under(o, e)
    <3>1. Len(e) <= Len(o) BY <2>3, <2>4 DEF IsStart
    <3>2. Len(e) \in Nat /\ Len(o) \in Nat BY <1>2, <2>3
    <3>3. QED BY <3>1, <3>2 DEF Under
  <2>5. QED BY <2>2, <2>3, <2>4
<1>6. CASE l # 1
  <2>1. Kids(n) = ToSet(nodes[n].children) BY <1>3, <1>6 DEF Kids
  <2>2. Kids(n) = {nodes[n].children[i] : i \in 1 .. l} BY <1>4, <2>1 DEF ToSet
  <2>3. \A i \in 1 .. l : nodes[n].children[i] = Append(n, nodes[n].keys[i]) BY <1>1, <1>3, NotHead
  <2>4. DOMAIN nodes[n].keys = 1 .. l BY <1>1, <1>3, NotHead
  <2>5. ASSUME NEW k \in Kids(n) PROVE k \in Heads /\ Under(n, k) /\ Len(k) = Len(n) + 1
    <3>1. PICK i \in 1 .. l : k = Append(n, nodes[n].keys[i]) BY <2>2, <2>3
    <3>2. l > 1 BY <1>4, <1>6
    <3>3. QED BY <1>1, <1>3, <2>4, <3>1, <3>2, ChildIs
  <2>6. ASSUME NEW k \in Kids(n), NEW o \in Heads, Under(n, o) PROVE ~Under(o, k)
    BY <1>1, <1>2, <2>5, <2>6 DEF Under
  <2>7. ASSUME NEW o \in Heads, Under(n, o) PROVE \E k \in Kids(n) : IsStart(k, o)
    <3>1. PICK a : a = Len(n) OBVIOUS
    <3>2. a \in Nat /\ Len(o) \in Nat /\ a < Len(o) /\ \A i \in 1 .. a : o[i] = n[i]
      BY <1>1, <1>2, <2>7, <3>1 DEF Under, IsStart
    <3>3. a \in 0 .. Len(o) /\ a \in 0 .. Len(o) - 1 BY <3>2
    <3>4. PICK x : x = SubSeq(o, 1, a) OBVIOUS
    <3>5. x \in Seq(Letters) /\ Len(x) = a /\ \A i \in 1 .. a : x[i] = o[i] BY <1>2, <3>3, <3>4, StartIs
    <3>6. x = n
      <4>1. \A i \in 1 .. a : x[i] = n[i] BY <3>2, <3>5
      <4>2. QED BY <1>1, <3>1, <3>5, <4>1, SeqEqual
    <3>7. KeyAt(nodes, n, o[a + 1]) BY <1>2, <3>3, <3>4, <3>6, NodesAbove
    <3>8. PICK i \in DOMAIN nodes[n].keys : nodes[n].keys[i] = o[a + 1] BY <3>7 DEF KeyAt
    <3>9. PICK k : k = Append(n, nodes[n].keys[i]) OBVIOUS
    <3>10. k \in Kids(n) BY <2>2, <2>3, <2>4, <3>8, <3>9
    <3>11. Len(k) = a + 1 /\ k[a + 1] = o[a + 1] /\ \A j \in 1 .. a : n[j] = k[j]
      BY <1>1, <3>1, <3>8, <3>9, ChildIs DEF Under, IsStart
    <3>12. \A j \in 1 .. a + 1 : j \in 1 .. a \/ j = a + 1 BY <3>2
    <3>13. IsStart(k, o) BY <3>2, <3>11, <3>12 DEF IsStart
    <3>14. QED BY <3>10, <3>13
  <2>8. QED BY <2>5, <2>6, <2>7
<1>7. QED BY <1>5, <1>6

\* What a head leads to is uppermost before it is converted, and it is afterwards.
LEMMA UppermostChanges ==
  ASSUME Tree(nodes), Bounded, NEW D \in SUBSET Heads, NEW n \in Heads, n \notin D,
         \A m \in D, o \in Heads : IsStrictPrefix(m, o) => o \in D,
         \A o \in Heads : IsStrictPrefix(n, o) => o \in D
  PROVE  /\ Kids(n) \subseteq Uppermost(D)
         /\ Uppermost(D \cup {n}) = (Uppermost(D) \ Kids(n)) \cup {n}
<1>1. \A o \in Heads : o \in Seq(Letters) /\ Len(o) \in Nat BY HeadsAre
<1>2. /\ \A m \in D, o \in Heads : Under(m, o) => o \in D
      /\ \A o \in Heads : Under(n, o) => o \in D
  BY HeadsAre
<1>3. \A C \in SUBSET Heads : Uppermost(C) = {m \in C : \A o \in C : ~Under(o, m)}
  BY HeadsAre DEF Uppermost
<1>4. ASSUME NEW o \in D PROVE ~Under(o, n) BY <1>2, <1>4
<1>5. ASSUME NEW k \in Kids(n) PROVE k \in Uppermost(D)
  <2>1. k \in Heads /\ Under(n, k) BY KidsAre
  <2>2. k \in D BY <1>2, <2>1
  <2>3. ASSUME NEW o \in D, Under(o, k) PROVE FALSE
    <3>1. o \in Heads OBVIOUS
    <3>2. ~Under(n, o) BY <2>3, <3>1, KidsAre
    <3>3. IsStart(o, k) /\ IsStart(n, k) BY <2>1, <2>3 DEF Under
    <3>4. CASE Len(n) < Len(o)
      <4>1. Len(n) <= Len(o) BY <1>1, <3>1, <3>4
      <4>2. IsStart(n, o) BY <1>1, <2>1, <3>1, <3>3, <4>1, BeginsBoth
      <4>3. QED BY <3>2, <3>4, <4>2 DEF Under
    <3>5. CASE ~(Len(n) < Len(o))
      <4>1. Len(o) <= Len(n) BY <1>1, <3>1, <3>5
      <4>2. IsStart(o, n) BY <1>1, <2>1, <3>1, <3>3, <4>1, BeginsBoth
      <4>3. ~(Len(o) < Len(n)) BY <1>4, <4>2 DEF Under
      <4>4. Len(o) = Len(n) BY <1>1, <3>1, <4>1, <4>3
      <4>5. o = n BY <1>1, <3>1, <4>2, <4>4, SeqEqual DEF IsStart
      <4>6. QED BY <4>5
    <3>6. QED BY <3>4, <3>5
  <2>4. QED BY <1>3, <2>2, <2>3
<1>6. ASSUME NEW m \in Uppermost(D), m \notin Kids(n) PROVE ~Under(n, m)
  <2>1. SUFFICES ASSUME Under(n, m) PROVE FALSE OBVIOUS
  <2>2. m \in D /\ m \in Heads BY <1>3
  <2>3. PICK k \in Kids(n) : IsStart(k, m) BY <2>1, <2>2, KidsAre
  <2>4. k \in Uppermost(D) BY <1>5
  <2>5. k \in D /\ k \in Heads BY <1>3, <2>4
  <2>6. ~Under(k, m) BY <1>3, <2>5
  <2>7. Len(k) = Len(m) BY <1>1, <2>2, <2>3, <2>5, <2>6 DEF Under, IsStart
  <2>8. k = m BY <1>1, <2>2, <2>3, <2>5, <2>7, SeqEqual DEF IsStart
  <2>9. QED BY <1>6, <2>8
<1>7. D \cup {n} \in SUBSET Heads OBVIOUS
<1>8. PICK C : C = D \cup {n} OBVIOUS
<1>9. Uppermost(C) = {m \in C : \A o \in C : ~Under(o, m)} BY <1>3, <1>7, <1>8
<1>10. ~Under(n, n) BY <1>1 DEF Under
<1>11. n \in Uppermost(C) BY <1>4, <1>8, <1>9, <1>10
<1>12. ASSUME NEW m \in D PROVE m \in Uppermost(C) <=> m \in Uppermost(D) /\ m \notin Kids(n)
  <2>1. m \in Uppermost(C) <=> m \in Uppermost(D) /\ ~Under(n, m) BY <1>3, <1>8, <1>9
  <2>2. m \in Kids(n) => Under(n, m) BY KidsAre
  <2>3. QED BY <1>6, <2>1, <2>2
<1>13. \A m \in Uppermost(D) : m \in D BY <1>3
<1>14. \A m \in Uppermost(C) : m \in C BY <1>9
<1>15. Uppermost(C) = (Uppermost(D) \ Kids(n)) \cup {n} BY <1>8, <1>11, <1>12, <1>13, <1>14
<1>16. QED BY <1>5, <1>8, <1>15

-----------------------------------------------------------------------------
\* convert_subtrie

LEMMA AppendedIs ==
  ASSUME NEW t, Shapely(t), NEW type \in Plain, NEW row, RowOfType(type, row),
         NEW new, new = Appended(t, type, row)
  PROVE  /\ Shapely(new.tables) /\ new.tables.root_id = t.root_id /\ OneMore(t, new.tables, new.id)
         /\ RowAt(new.tables, new.id) = row /\ new.id.table_type = type
<1>1. PICK u, id : u = new.tables /\ id = new.id OBVIOUS
<1>2. u = [t EXCEPT ![type] = Append(@, row)] /\ id = Id(type, 0, Len(t[type]))
  BY <1>1 DEF Appended
<1>3. RowAppended(t, u, type, row) BY <1>2 DEF RowAppended
<1>4. t \in Tables(Cells) BY DEF Shapely
<1>5. OneMore(t, u, id) /\ RowAt(u, id) = row BY <1>2, <1>3, <1>4, PlainMore
<1>6. Shapely(u) /\ u.root_id = t.root_id BY <1>3, PlainShapely
<1>7. id.table_type = type BY <1>2 DEF Id
<1>8. QED BY <1>1, <1>5, <1>6, <1>7

\* What is given for each of K
GivenIn(f, K, F) == (\A k \in K : f[k] \in F) /\ \A k, l \in K : f[k] = f[l] => k = l

GivenFor(f, K)   == {f[k] : k \in K}

\* q holds what is given for each of K, in any order.
Holds(q, f, K) ==
  /\ q \in Seq({f[k] : k \in K}) /\ ToSet(q) = {f[k] : k \in K}
  /\ (\A k, l \in K : f[k] = f[l] => k = l) => Distinct(q)

\* What is spelled on the way from a place to the i-th it leads to, and at its end
Onward(t, a, key, i) ==
  CASE a.table_type = "choice" -> Append(key, NameAt(t, a)[i])
    [] a.table_type = "infix"  -> key \o RowAt(t, a).infix
    [] OTHER                   -> key

Spelled(t, a, key) == IF a.table_type = "suffix" THEN key \o RowAt(t, a).suffix ELSE key

\* A place that is reached by n leads to what f gives K, by the letters of each.
LeadsTo(t, a, n, f, K) ==
  \A i \in DOMAIN Links(t, a) : \E k \in K : Links(t, a)[i] = f[k] /\ Onward(t, a, n, i) = k

LEMMA InnerIs ==
  ASSUME Tree(nodes), Bounded, Shapely(tt), NEW n \in Heads, HasChildren(n),
         \A k \in Kids(n) : ids[k] \in Address,
         NEW found \in MissedNames(nodes[n].keys), NEW new, new = Inner(n, found)
  PROVE  /\ Shapely(new.tables) /\ new.tables.root_id = tt.root_id /\ OneMore(tt, new.tables, new.id)
         /\ Holds(Links(new.tables, new.id), ids, Kids(n))
         /\ LeadsTo(new.tables, new.id, n, ids, Kids(n)) /\ new.id.table_type \in {"choice", "infix"}
<1>1. PICK name, c, l : name = nodes[n].keys /\ c = nodes[n].children /\ l = Len(c) OBVIOUS
<1>2. n \in DOMAIN nodes /\ n \in Seq(Letters) BY HeadsAre
<1>3. name \in Seq(Letters) /\ c \in Seq(Seq(Letters)) BY <1>1, <1>2, NodeIs DEF Node
<1>4. /\ l \in Nat /\ DOMAIN c = 1 .. l /\ DOMAIN name = 1 .. l /\ l # 0
      /\ \A i \in 1 .. l : c[i] = Append(n, name[i]) /\ name[i] \in Letters
  BY <1>1, <1>2, <1>3, NotHead, SequenceIs DEF HasChildren
<1>5. PICK u, id : u = new.tables /\ id = new.id OBVIOUS
<1>6. CASE l > 1
  <2>1. PICK row : row = [i \in DOMAIN c |-> ids[c[i]]] OBVIOUS
  <2>2. Kids(n) = ToSet(c) BY <1>1, <1>4, <1>6 DEF Kids
  <2>3. \A i \in 1 .. l : c[i] \in Kids(n) BY <1>4, <2>2 DEF ToSet
  <2>4. row = [i \in 1 .. l |-> ids[c[i]]] BY <1>4, <2>1
  <2>5. row \in Seq(Address) /\ Len(row) = l /\ DOMAIN row = 1 .. l
    <3>1. \A i \in 1 .. l : ids[c[i]] \in Address BY <2>3
    <3>2. QED BY <1>4, <2>4, <3>1
  <2>6. Len(name) = l BY <1>3, <1>4, SequenceIs
  <2>7. new = ChoiceRow(tt, name, row, found) BY <1>1, <1>6, <2>1 DEF Inner
  <2>8. found \in MissedNames(name) /\ found \in BOOLEAN BY <1>1 DEF MissedNames
  <2>9. /\ Shapely(u) /\ u.root_id = tt.root_id /\ OneMore(tt, u, id)
        /\ RowAt(u, id) = row /\ id.table_type = "choice" /\ NameAt(u, id) = name
    BY <1>3, <1>5, <2>5, <2>6, <2>7, <2>8, ChoiceAppended
  <2>10. Links(u, id) = row BY <2>9 DEF Links
  <2>11. Holds(row, ids, Kids(n))
    <3>1. PICK V : V = {ids[k] : k \in Kids(n)} OBVIOUS
    <3>2. \A j \in 1 .. l : row[j] \in V BY <2>3, <2>4, <3>1
    <3>3. row \in Seq(V) BY <2>5, <3>2, Within
    <3>4. ToSet(row) = V
      <4>1. \A k \in Kids(n) : \E j \in 1 .. l : k = c[j] BY <1>4, <2>2 DEF ToSet
      <4>2. QED BY <2>4, <2>5, <3>1, <3>2, <4>1 DEF ToSet
    <3>5. ASSUME \A k, m \in Kids(n) : ids[k] = ids[m] => k = m,
                 NEW a \in DOMAIN row, NEW b \in DOMAIN row, row[a] = row[b]
          PROVE  a = b
      <4>1. a \in 1 .. l /\ b \in 1 .. l BY <2>5
      <4>2. c[a] = c[b] BY <2>3, <2>4, <3>5, <4>1
      <4>3. name[a] = name[b] BY <1>2, <1>4, <4>1, <4>2, ParentIs
      <4>4. Increasing(name) BY <1>1, <1>2, NodeIs
      <4>5. ~(a < b) /\ ~(b < a)
        <5>1. name[a] \in Int /\ name[b] \in Int BY <1>4, <4>1, LettersAre
        <5>2. QED BY <1>4, <4>1, <4>3, <4>4, <5>1 DEF Increasing
      <4>6. QED BY <4>1, <4>5
    <3>6. QED BY <3>1, <3>3, <3>4, <3>5 DEF Holds, Distinct
  <2>12. LeadsTo(u, id, n, ids, Kids(n))
    <3>1. SUFFICES ASSUME NEW i \in DOMAIN Links(u, id)
                   PROVE  \E k \in Kids(n) : Links(u, id)[i] = ids[k] /\ Onward(u, id, n, i) = k
      BY DEF LeadsTo
    <3>2. i \in 1 .. l BY <2>5, <2>10, <3>1
    <3>3. Links(u, id)[i] = ids[c[i]] BY <2>4, <2>10, <3>2
    <3>4. Onward(u, id, n, i) = Append(n, name[i]) BY <2>9 DEF Onward
    <3>5. c[i] = Append(n, name[i]) BY <1>4, <3>2
    <3>6. QED BY <2>3, <3>2, <3>3, <3>4, <3>5
  <2>13. QED BY <1>5, <2>9, <2>10, <2>11, <2>12
<1>7. CASE l = 1
  <2>1. PICK e, infix, row : /\ e = InfixEnd(n) /\ infix = Infix(n)
                             /\ row = [infix |-> infix, id |-> ids[e]]
    OBVIOUS
  <2>2. Kids(n) = {e} BY <1>1, <1>7, <2>1 DEF Kids
  <2>3. e \in Heads BY <1>1, <1>7, <2>1, InfixEndIs
  <2>4. infix \in Seq(Letters)
    <3>1. e \in Seq(Letters) /\ Len(e) \in Nat /\ Len(n) \in Nat BY <2>3, HeadsAre
    <3>2. PICK a, b : a = Len(n) + 1 /\ b = Len(e) OBVIOUS
    <3>3. a \in Int /\ b \in Int /\ \A i \in a .. b : i \in 1 .. Len(e) BY <3>1, <3>2
    <3>4. \A i \in a .. b : e[i] \in Letters BY <3>1, <3>3, SequenceIs
    <3>5. SubSeq(e, a, b) \in Seq(Letters) BY <3>3, <3>4, SubSeqProperties
    <3>6. QED BY <2>1, <3>2, <3>5 DEF Infix
  <2>5. ids[e] \in Address BY <2>2
  <2>6. RowOfType("infix", row)
    <3>1. row \in [infix : Seq(Letters), id : Address] BY <2>1, <2>4, <2>5
    <3>2. QED BY <3>1 DEF RowOfType
  <2>7. new = Appended(tt, "infix", row) BY <1>1, <1>7, <2>1 DEF Inner
  <2>8. "infix" \in Plain BY DEF Plain
  <2>9. /\ Shapely(u) /\ u.root_id = tt.root_id /\ OneMore(tt, u, id)
        /\ RowAt(u, id) = row /\ id.table_type = "infix"
    BY <1>5, <2>6, <2>7, <2>8, AppendedIs
  <2>10. row.id = ids[e] BY <2>1
  <2>11. Links(u, id) = <<ids[e]>> BY <2>9, <2>10 DEF Links
  <2>12. Holds(<<ids[e]>>, ids, Kids(n))
    <3>1. PICK x : x = ids[e] OBVIOUS
    <3>2. {ids[k] : k \in Kids(n)} = {x} BY <2>2, <3>1
    <3>3. <<x>> \in Seq({x}) /\ DOMAIN <<x>> = {1} /\ <<x>>[1] = x OBVIOUS
    <3>4. ToSet(<<x>>) = {x} BY <3>3 DEF ToSet
    <3>5. Distinct(<<x>>) BY <3>3 DEF Distinct
    <3>6. QED BY <3>1, <3>2, <3>3, <3>4, <3>5 DEF Holds
  <2>13. n \o infix = e
    <3>1. IsStart(n, e) /\ Len(n) < Len(e) BY <1>1, <1>7, <2>1, InfixEndIs DEF Under
    <3>2. e \in Seq(Letters) /\ Len(e) \in Nat /\ Len(n) \in Nat BY <1>2, <2>3, HeadsAre
    <3>3. PICK a : a = Len(n) OBVIOUS
    <3>4. a \in 0 .. Len(e) BY <3>1, <3>2, <3>3
    <3>5. PICK b : b = SubSeq(e, 1, a) OBVIOUS
    <3>6. b \in Seq(Letters) /\ Len(b) = a /\ \A i \in 1 .. a : b[i] = e[i]
      BY <3>2, <3>4, <3>5, StartIs
    <3>7. \A i \in 1 .. a : b[i] = n[i] BY <3>1, <3>3, <3>6 DEF IsStart
    <3>8. b = n BY <1>2, <3>3, <3>6, <3>7, SeqEqual
    <3>9. b \o SubSeq(e, a + 1, Len(e)) = e BY <3>2, <3>4, <3>5, SplitAt
    <3>10. infix = SubSeq(e, a + 1, Len(e)) BY <2>1, <3>3 DEF Infix
    <3>11. QED BY <3>8, <3>9, <3>10
  <2>14. LeadsTo(u, id, n, ids, Kids(n))
    <3>1. PICK s : s = Links(u, id) OBVIOUS
    <3>2. DOMAIN s = {1} /\ s[1] = ids[e] BY <2>11, <3>1
    <3>3. Onward(u, id, n, 1) = e
      <4>1. RowAt(u, id).infix = infix BY <2>1, <2>9
      <4>2. QED BY <2>9, <2>13, <4>1 DEF Onward
    <3>4. \A i \in DOMAIN s : s[i] = ids[e] /\ Onward(u, id, n, i) = e BY <3>2, <3>3
    <3>5. QED BY <2>2, <3>1, <3>4 DEF LeadsTo
  <2>15. QED BY <1>5, <2>9, <2>11, <2>12, <2>14
<1>8. QED BY <1>4, <1>6, <1>7

\* One row more, with no ids in it
LEMMA LeafLinked ==
  ASSUME NEW t, NEW u, NEW id, OneMore(t, u, id), id.table_type \in {"term", "suffix"},
         NEW F, LinkedBut(t, F)
  PROVE  LinkedBut(u, F \cup {id})
<1>1. Links(u, id) = <<>> BY DEF Links
<1>2. PICK q : q = Links(u, id) OBVIOUS
<1>3. q \in Seq(F) /\ Distinct(q) /\ ToSet(q) = {} BY <1>1, <1>2 DEF Distinct, ToSet
<1>4. LinkedBut(u, (F \ ToSet(q)) \cup {id}) BY <1>2, <1>3, OneMoreLinked
<1>5. (F \ ToSet(q)) \cup {id} = F \cup {id} BY <1>3
<1>6. QED BY <1>4, <1>5

\* The tables after a node was converted
NewTables(t, new, F) ==
  /\ Shapely(new.tables) /\ new.tables.root_id = t.root_id /\ LinkedBut(new.tables, F \cup {new.id})
  /\ new.id \in Address /\ new.id \notin F

LEMMA LeafConverted ==
  ASSUME NEW t, Shapely(t), NEW type \in {"term", "suffix"}, NEW row, RowOfType(type, row),
         NEW F, LinkedBut(t, F), NEW new, new = Appended(t, type, row)
  PROVE  NewTables(t, new, F)
<1>1. type \in Plain BY DEF Plain
<1>2. PICK u, id : u = new.tables /\ id = new.id OBVIOUS
<1>3. Shapely(u) /\ u.root_id = t.root_id /\ OneMore(t, u, id) /\ id.table_type = type
  BY <1>1, <1>2, AppendedIs
<1>4. LinkedBut(u, F \cup {id}) BY <1>3, LeafLinked
<1>5. id \in Address /\ id \notin Places(t) BY <1>3, PlaceMore DEF OneMore
<1>6. F \subseteq Places(t) BY DEF LinkedBut, Linked
<1>7. QED BY <1>2, <1>3, <1>4, <1>5, <1>6 DEF NewTables

LEMMA InnerLinked ==
  ASSUME NEW t, NEW new, Shapely(new.tables), new.tables.root_id = t.root_id,
         OneMore(t, new.tables, new.id), NEW f, NEW K, Holds(Links(new.tables, new.id), f, K),
         NEW F, LinkedBut(t, F), GivenIn(f, K, F)
  PROVE  NewTables(t, new, F \ GivenFor(f, K))
<1>1. PICK u, id, q, V : u = new.tables /\ id = new.id /\ q = Links(u, id) /\ V = {f[k] : k \in K}
  OBVIOUS
<1>2. q \in Seq(V) /\ ToSet(q) = V /\ Distinct(q) BY <1>1 DEF Holds, GivenIn
<1>3. V \subseteq F /\ V = GivenFor(f, K) BY <1>1 DEF GivenIn, GivenFor
<1>4. q \in Seq(F) BY <1>2, <1>3
<1>5. LinkedBut(u, (F \ ToSet(q)) \cup {id}) BY <1>1, <1>2, <1>4, OneMoreLinked
<1>6. id \in Address /\ id \notin Places(t) BY <1>1, PlaceMore DEF OneMore
<1>7. F \subseteq Places(t) BY DEF LinkedBut, Linked
<1>8. id \notin F \ V BY <1>6, <1>7
<1>9. QED BY <1>1, <1>2, <1>3, <1>5, <1>6, <1>8 DEF NewTables

LEMMA PassedThrough ==
  ASSUME NEW t, NEW inner, NEW G, NewTables(t, inner, G),
         NEW result \in Buffers \cup Streams,
         NEW new, new = Appended(inner.tables, "pass", [id |-> inner.id, result |-> result])
  PROVE  NewTables(t, new, G)
<1>1. PICK v, x, row : v = inner.tables /\ x = inner.id /\ row = [id |-> x, result |-> result] OBVIOUS
<1>2. /\ Shapely(v) /\ v.root_id = t.root_id /\ LinkedBut(v, G \cup {x})
      /\ x \in Address /\ x \notin G
  BY <1>1 DEF NewTables
<1>3. RowOfType("pass", row)
  <2>1. row \in [id : Address, result : Buffers \cup Streams] BY <1>1, <1>2
  <2>2. QED BY <2>1 DEF RowOfType
<1>4. PICK u, id : u = new.tables /\ id = new.id OBVIOUS
<1>5. "pass" \in Plain BY DEF Plain
<1>6. new = Appended(v, "pass", row) BY <1>1
<1>7. /\ Shapely(u) /\ u.root_id = t.root_id /\ OneMore(v, u, id) /\ RowAt(u, id) = row
      /\ id.table_type = "pass"
  BY <1>2, <1>3, <1>4, <1>5, <1>6, AppendedIs
<1>8. row.id = x BY <1>1
<1>9. Links(u, id) = <<x>> BY <1>7, <1>8 DEF Links
<1>10. PICK q, F : q = <<x>> /\ F = G \cup {x} OBVIOUS
<1>11. q \in Seq(F) /\ Distinct(q) /\ ToSet(q) = {x}
  <2>1. DOMAIN q = {1} /\ q[1] = x /\ x \in F BY <1>10
  <2>2. q \in Seq(F) BY <1>10
  <2>3. QED BY <2>1, <2>2 DEF Distinct, ToSet
<1>12. LinkedBut(u, (F \ ToSet(q)) \cup {id}) BY <1>2, <1>7, <1>9, <1>10, <1>11, OneMoreLinked
<1>13. (F \ ToSet(q)) \cup {id} = G \cup {id} BY <1>2, <1>10, <1>11
<1>14. id \in Address /\ id \notin Places(v) BY <1>7, PlaceMore DEF OneMore
<1>15. id \notin G
  <2>1. G \cup {x} \subseteq Places(v) BY <1>2 DEF LinkedBut, Linked
  <2>2. QED BY <1>14, <2>1
<1>16. QED BY <1>4, <1>7, <1>12, <1>13, <1>14, <1>15 DEF NewTables

LEMMA ConvertedIs ==
  ASSUME Tree(nodes), Bounded, Shapely(tt), NEW n \in Heads, ~Fatal(n),
         nodes[n].has_value => nodes[n].result \in Buffers, HasSuffix(n) => nodes[n].has_value,
         NEW F, LinkedBut(tt, F), GivenIn(ids, Kids(n), F),
         NEW found \in MissedNames(nodes[n].keys), NEW new, new = Converted(n, found)
  PROVE  NewTables(tt, new, F \ GivenFor(ids, Kids(n)))
<1>1. n \in DOMAIN nodes BY HeadsAre
<1>2. /\ nodes[n].suffix \in Seq(Letters) /\ nodes[n].suffix_len = Len(nodes[n].suffix)
      /\ nodes[n].has_value \in BOOLEAN /\ Shape(n, nodes[n])
  BY <1>1, NodeIs
<1>3. HasSuffix(n) => ~HasChildren(n) BY <1>2 DEF Shape, HasSuffix, HasChildren
<1>4. PICK r : r = nodes[n].result OBVIOUS
<1>5. nodes[n].has_value => r \in Buffers \cup Streams BY <1>4
<1>6. ASSUME ~HasChildren(n) PROVE F \ GivenFor(ids, Kids(n)) = F
  <2>1. nodes[n].children = <<>> BY <1>6 DEF HasChildren
  <2>2. Len(nodes[n].children) # 1 /\ DOMAIN nodes[n].children = {} BY <2>1
  <2>3. Kids(n) = {} BY <2>2 DEF Kids, ToSet
  <2>4. QED BY <2>3 DEF GivenFor
<1>7. CASE HasSuffix(n)
  <2>1. PICK s, row : s = Suffix(n) /\ row = [suffix |-> s, result |-> r] OBVIOUS
  <2>2. s \in Seq(Letters)
    <3>1. s = nodes[n].suffix BY <1>2, <2>1, SubSeqFull DEF Suffix
    <3>2. QED BY <1>2, <3>1
  <2>3. row \in [suffix : Seq(Letters), result : Buffers \cup Streams] BY <1>5, <1>7, <2>1, <2>2
  <2>4. RowOfType("suffix", row) BY <2>3 DEF RowOfType
  <2>5. new = Appended(tt, "suffix", row) BY <1>3, <1>4, <1>7, <2>1 DEF Converted
  <2>6. NewTables(tt, new, F) BY <2>4, <2>5, LeafConverted
  <2>7. QED BY <1>3, <1>6, <1>7, <2>6
<1>8. CASE ~HasSuffix(n) /\ ~HasChildren(n)
  <2>1. nodes[n].has_value BY <1>8 DEF Fatal
  <2>2. PICK row : row = [result |-> r] OBVIOUS
  <2>3. row \in [result : Buffers \cup Streams] BY <1>5, <2>1, <2>2
  <2>4. RowOfType("term", row) BY <2>3 DEF RowOfType
  <2>5. new = Appended(tt, "term", row) BY <1>4, <1>8, <2>2 DEF Converted
  <2>6. NewTables(tt, new, F) BY <2>4, <2>5, LeafConverted
  <2>7. QED BY <1>6, <1>8, <2>6
<1>9. CASE HasChildren(n)
  <2>1. PICK inner : inner = Inner(n, found) OBVIOUS
  <2>2. PICK G : G = F \ GivenFor(ids, Kids(n)) OBVIOUS
  <2>3. F \subseteq Places(tt) BY DEF LinkedBut, Linked
  <2>4. \A k \in Kids(n) : ids[k] \in Address BY <2>3 DEF Places, GivenIn
  <2>5. /\ Shapely(inner.tables) /\ inner.tables.root_id = tt.root_id
        /\ OneMore(tt, inner.tables, inner.id) /\ Holds(Links(inner.tables, inner.id), ids, Kids(n))
    BY <1>9, <2>1, <2>4, InnerIs
  <2>6. NewTables(tt, inner, G) BY <2>2, <2>5, InnerLinked
  <2>7. new = WithValue(n, inner) BY <1>3, <1>9, <2>1 DEF Converted
  <2>8. CASE nodes[n].has_value
    <3>1. r \in Buffers \cup Streams BY <1>5, <2>8
    <3>2. new = Appended(inner.tables, "pass", [id |-> inner.id, result |-> r])
      BY <1>4, <2>7, <2>8 DEF WithValue
    <3>3. QED BY <2>2, <2>6, <3>1, <3>2, PassedThrough
  <2>9. CASE ~nodes[n].has_value
    <3>1. new = inner BY <2>7, <2>9 DEF WithValue
    <3>2. QED BY <2>2, <2>6, <3>1
  <2>10. QED BY <2>8, <2>9
<1>10. QED BY <1>7, <1>8, <1>9

\* What is below the first to be converted is converted.
LEMMA BelowFirst ==
  ASSUME Tree(nodes), NEW n \in Heads, NEW D,
         \A m \in Heads \ D : m = n \/ ConvertedBefore(n, m)
  PROVE  \A o \in Heads : IsStrictPrefix(n, o) => o \in D
<1>1. SUFFICES ASSUME NEW o \in Heads, IsStrictPrefix(n, o), o \notin D PROVE FALSE OBVIOUS
<1>2. n \in Seq(Letters) /\ o \in Seq(Letters) /\ Len(n) \in Nat /\ Len(o) \in Nat BY HeadsAre
<1>3. IsStart(n, o) /\ Len(n) < Len(o) BY <1>1, <1>2, BeginsIs
<1>4. o # n BY <1>2, <1>3
<1>5. ConvertedBefore(n, o) BY <1>1, <1>4
<1>6. CASE IsStrictPrefix(o, n)
  <2>1. Len(o) < Len(n) BY <1>2, <1>6, BeginsIs
  <2>2. QED BY <1>2, <1>3, <2>1
<1>7. CASE \E i \in DOMAIN n \cap DOMAIN o : n[i] < o[i]
  <2>1. PICK i \in DOMAIN n : n[i] < o[i] BY <1>7
  <2>2. i \in 1 .. Len(n) BY <1>2, SequenceIs
  <2>3. n[i] = o[i] /\ n[i] \in Letters BY <1>2, <1>3, <2>2, SequenceIs DEF IsStart
  <2>4. n[i] \in Int BY <2>3, LettersAre
  <2>5. QED BY <2>1, <2>3, <2>4
<1>8. QED BY <1>5, <1>6, <1>7 DEF ConvertedBefore

LEMMA ConvertedPartly ==
  ASSUME Tree(nodes), Bounded, Partly(tt, ids, Heads), NEW n \in Heads \ DOMAIN ids, ~Fatal(n),
         \A m \in Heads \ DOMAIN ids : m = n \/ ConvertedBefore(n, m),
         nodes[n].has_value => nodes[n].result \in Buffers, HasSuffix(n) => nodes[n].has_value,
         NEW found \in MissedNames(nodes[n].keys), NEW new, new = Converted(n, found),
         NEW f, f = [m \in DOMAIN ids \cup {n} |-> IF m = n THEN new.id ELSE ids[m]]
  PROVE  /\ Partly(new.tables, f, Heads) /\ DOMAIN f = DOMAIN ids \cup {n} /\ f[n] = new.id
         /\ new.id \in Address
<1>1. PICK D, U, F : D = DOMAIN ids /\ U = Uppermost(D) /\ F = {ids[m] : m \in U} OBVIOUS
<1>2. /\ Shapely(tt) /\ D \in SUBSET Heads /\ n \notin D /\ n \in Heads
      /\ \A m \in D, o \in Heads : IsStrictPrefix(m, o) => o \in D
      /\ \A m, o \in U : ids[m] = ids[o] => m = o
      /\ LinkedBut(tt, F)
  BY <1>1 DEF Partly, FreeOf
<1>3. \A o \in Heads : IsStrictPrefix(n, o) => o \in D BY <1>1, BelowFirst
<1>4. PICK K : K = Kids(n) OBVIOUS
<1>5. K \subseteq U /\ Uppermost(D \cup {n}) = (U \ K) \cup {n} BY <1>1, <1>2, <1>3, <1>4, UppermostChanges
<1>6. GivenIn(ids, K, F) BY <1>1, <1>2, <1>5 DEF GivenIn
<1>7. PICK u, id, G : u = new.tables /\ id = new.id /\ G = F \ GivenFor(ids, K) OBVIOUS
<1>8. NewTables(tt, new, G) BY <1>2, <1>4, <1>6, <1>7, ConvertedIs
<1>9. Shapely(u) /\ LinkedBut(u, G \cup {id}) /\ id \in Address /\ id \notin G
  BY <1>7, <1>8 DEF NewTables
<1>10. U \subseteq D /\ n \notin U BY <1>1, <1>2 DEF Uppermost
<1>11. G = {ids[m] : m \in U \ K} BY <1>1, <1>2, <1>5, <1>7 DEF GivenFor
<1>12. PICK E, V : E = D \cup {n} /\ V = Uppermost(E) OBVIOUS
<1>13. DOMAIN f = E /\ f[n] = id /\ \A m \in D : f[m] = ids[m] BY <1>1, <1>2, <1>7, <1>12
<1>14. V = (U \ K) \cup {n} BY <1>5, <1>12
<1>15. {f[m] : m \in V} = G \cup {id}
  <2>1. \A m \in U \ K : f[m] = ids[m] BY <1>10, <1>13
  <2>2. QED BY <1>11, <1>13, <1>14, <2>1
<1>16. \A m, o \in V : f[m] = f[o] => m = o
  <2>1. \A m \in U \ K : f[m] = ids[m] /\ ids[m] \in G BY <1>10, <1>11, <1>13
  <2>2. \A m, o \in U \ K : f[m] = f[o] => m = o BY <1>2, <2>1
  <2>3. \A m \in U \ K : f[m] # f[n] BY <1>9, <1>13, <2>1
  <2>4. QED BY <1>14, <2>2, <2>3
<1>17. \A m \in E, o \in Heads : IsStrictPrefix(m, o) => o \in E BY <1>2, <1>3, <1>12
<1>18. E \subseteq Heads BY <1>2, <1>12
<1>19. Partly(u, f, Heads)
  <2>1. FreeOf(f) = G \cup {id} BY <1>12, <1>13, <1>15 DEF FreeOf
  <2>2. LinkedBut(u, FreeOf(f)) BY <1>9, <2>1
  <2>3. \A m, o \in Uppermost(DOMAIN f) : f[m] = f[o] => m = o BY <1>12, <1>13, <1>16
  <2>4. \A m \in DOMAIN f, o \in Heads : IsStrictPrefix(m, o) => o \in DOMAIN f BY <1>13, <1>17
  <2>5. DOMAIN f \subseteq Heads BY <1>13, <1>18
  <2>6. QED BY <1>9, <2>2, <2>3, <2>4, <2>5 DEF Partly
<1>20. QED BY <1>1, <1>7, <1>9, <1>12, <1>13, <1>19

\* Tables that differ in nothing that leads anywhere
SameLinks(t, u) ==
  /\ \A a \in Address : HeightAt(u, a) = HeightAt(t, a)
  /\ \A a \in Places(t) : Links(u, a) = Links(t, a)

LEMMA SameLinked ==
  ASSUME NEW t, NEW u, SameLinks(t, u), NEW F, LinkedBut(t, F)
  PROVE  LinkedBut(u, F)
<1>1. Places(u) = Places(t) BY DEF SameLinks, Places, HeightAt
<1>2. [a \in Places(u) |-> Links(u, a)] = [a \in Places(t) |-> Links(t, a)]
  BY <1>1 DEF SameLinks
<1>3. PICK P, L : P = Places(t) /\ L = [a \in P |-> Links(t, a)] OBVIOUS
<1>4. Linked(P, L, F) BY <1>3 DEF LinkedBut
<1>5. QED BY <1>1, <1>2, <1>3, <1>4 DEF LinkedBut

\* Tables that differ in nothing that is spelled
SameSpelling(t, u) ==
  /\ Places(u) = Places(t)
  /\ \A a \in Places(t) :
       /\ Links(u, a) = Links(t, a)
       /\ \A key, i : Onward(u, a, key, i) = Onward(t, a, key, i) /\ Spelled(u, a, key) = Spelled(t, a, key)
       /\ a.table_type \in {"pass", "term", "suffix"} => RowAt(u, a).result.key = RowAt(t, a).result.key

RootSet(t, u, a) == u = [t EXCEPT !.root_id = a]

LEMMA RootConverted ==
  ASSUME NEW t, Shapely(t), NEW a \in Address, LinkedBut(t, {a}), NEW u, RootSet(t, u, a)
  PROVE  Whole(u) /\ SameSpelling(t, u) /\ u.root_id = a
<1>1. t \in Tables(Cells) /\ FullFirst(t) /\ Kept(t) BY DEF Shapely
<1>2. PICK S : S = Cells OBVIOUS
<1>3. t = [len |-> t.len, root_id |-> t.root_id, choice |-> t.choice, term |-> t.term,
           pass |-> t.pass, suffix |-> t.suffix, infix |-> t.infix]
      /\ t.len \in S /\ t.choice \in Seq(ChoiceTables(S))
      /\ t.term \in Seq([result : S]) /\ t.pass \in Seq([id : S, result : S])
      /\ t.suffix \in Seq([suffix : Seq(S), result : S])
      /\ t.infix \in Seq([infix : Seq(S), id : S])
  BY <1>1, <1>2 DEF Tables
<1>4. a \in S BY <1>2, CellsAre
<1>5. u = [len |-> t.len, root_id |-> a, choice |-> t.choice, term |-> t.term,
           pass |-> t.pass, suffix |-> t.suffix, infix |-> t.infix]
  BY <1>3 DEF RootSet
<1>6. u \in Tables(Cells) BY <1>2, <1>3, <1>4, <1>5 DEF Tables
<1>7. u.root_id = a /\ u.choice = t.choice BY <1>5
<1>8. ASSUME NEW y \in Plain PROVE u[y] = t[y] /\ y # "choice"
  <2>1. y \in DOMAIN t /\ y # "root_id" /\ y # "choice" BY <1>3 DEF Plain
  <2>2. QED BY <2>1 DEF RootSet
<1>9. Kept(u) BY <1>1, <1>8 DEF Kept, Plain
<1>10. PICK c : c = t.choice OBVIOUS
<1>11. u.choice = c BY <1>7, <1>10
<1>12. FullFirst(u) BY <1>1, <1>10, <1>11 DEF FullFirst
<1>13. \A i \in DOMAIN u.choice : Len(u.choice[i].rows) \in 1 .. MaxDepth BY <1>10, <1>11 DEF Shapely
<1>14. Shapely(u) BY <1>6, <1>9, <1>12, <1>13 DEF Shapely
<1>15. ASSUME NEW b \in Address
       PROVE  HeightAt(u, b) = HeightAt(t, b) /\ RowAt(u, b) = RowAt(t, b) /\ NameAt(u, b) = NameAt(t, b)
  <2>1. b.table_type \in Plain \/ b.table_type = "choice" BY DEF Address
  <2>2. CASE b.table_type \in Plain BY <1>8, <2>2 DEF HeightAt, Height, RowAt, NameAt
  <2>3. CASE b.table_type = "choice"
    <3>1. HeightAt(u, b) = (IF b.table_i < Len(c) THEN Len(c[b.table_i + 1].rows) ELSE 0)
          /\ HeightAt(t, b) = (IF b.table_i < Len(c) THEN Len(c[b.table_i + 1].rows) ELSE 0)
      BY <1>10, <1>11, <2>3 DEF HeightAt, Height
    <3>2. RowAt(u, b) = c[b.table_i + 1].rows[b.row_i + 1] /\ RowAt(t, b) = c[b.table_i + 1].rows[b.row_i + 1]
      BY <1>10, <1>11, <2>3 DEF RowAt
    <3>3. NameAt(u, b) = c[b.table_i + 1].name /\ NameAt(t, b) = c[b.table_i + 1].name
      BY <1>10, <1>11, <2>3 DEF NameAt
    <3>4. QED BY <3>1, <3>2, <3>3
  <2>4. QED BY <2>1, <2>2, <2>3
<1>16. SameLinks(t, u) BY <1>15 DEF SameLinks, Links, Places
<1>17. LinkedBut(u, {a}) BY <1>16, SameLinked
<1>18. SameSpelling(t, u)
  <2>1. Places(u) = Places(t) BY <1>15 DEF Places, HeightAt
  <2>2. SUFFICES ASSUME NEW b \in Places(t)
                 PROVE  /\ Links(u, b) = Links(t, b) /\ RowAt(u, b) = RowAt(t, b)
                        /\ \A key, i : /\ Onward(u, b, key, i) = Onward(t, b, key, i)
                                       /\ Spelled(u, b, key) = Spelled(t, b, key)
    BY <2>1 DEF SameSpelling
  <2>3. b \in Address BY DEF Places
  <2>4. RowAt(u, b) = RowAt(t, b) /\ NameAt(u, b) = NameAt(t, b) BY <1>15, <2>3
  <2>5. QED BY <2>4 DEF Links, Onward, Spelled
<1>19. QED BY <1>7, <1>14, <1>17, <1>18 DEF Whole

-----------------------------------------------------------------------------
\* Steps

LEMMA NodesGrow == ASSUME Next PROVE \E x : DOMAIN nodes' \subseteq DOMAIN nodes \cup {x}
<1>1. \A n : \E x : DOMAIN BrokenOut(n) \subseteq DOMAIN nodes \cup {x}
  <2>1. SUFFICES ASSUME NEW n PROVE \E x : DOMAIN BrokenOut(n) \subseteq DOMAIN nodes \cup {x} OBVIOUS
  <2>2. PICK l, ns, x : l = Head(nodes[n].suffix) /\ ns = [nodes EXCEPT ![n] = NewNode] /\ x = Append(n, l)
    OBVIOUS
  <2>3. BrokenOut(n) = [WithChild(ns, n, l, 0) EXCEPT ![x] = Moved(n)] BY <2>2 DEF BrokenOut
  <2>4. DOMAIN BrokenOut(n) = DOMAIN WithChild(ns, n, l, 0) BY <2>3
  <2>5. DOMAIN ns = DOMAIN nodes BY <2>2
  <2>6. DOMAIN WithChild(ns, n, l, 0) = DOMAIN ns \cup {x}
    <3>1. x = Append(n, l) BY <2>2
    <3>2. QED BY <3>1 DEF WithChild
  <2>7. DOMAIN BrokenOut(n) \subseteq DOMAIN nodes \cup {x} BY <2>4, <2>5, <2>6
  <2>8. QED BY <2>7
<1>2. ASSUME NEW p, NewChild(p) PROVE \E x : DOMAIN nodes' \subseteq DOMAIN nodes \cup {x}
  <2>1. PICK x, l : x = Append(n1, l) /\ l = Letter OBVIOUS
  <2>2. DOMAIN WithChild(nodes, n1, l, p) = DOMAIN nodes \cup {x}
    <3>1. x = Append(n1, l) BY <2>1
    <3>2. QED BY <3>1 DEF WithChild
  <2>3. nodes' = nodes \/ nodes' = WithChild(nodes, n1, l, p) BY <1>2, <2>1 DEF NewChild
  <2>4. DOMAIN nodes' \subseteq DOMAIN nodes \cup {x} BY <2>2, <2>3
  <2>5. QED BY <2>4
<1>3. ASSUME nodes' = nodes PROVE \E x : DOMAIN nodes' \subseteq DOMAIN nodes \cup {x} BY <1>3
<1>4. ASSUME NEW k \in Keys, StartAdd(k) PROVE nodes' = nodes BY <1>4 DEF StartAdd
<1>5. ASSUME NEW k \in Keys, Get(k) PROVE nodes' = nodes BY <1>5 DEF Get
<1>6. CASE Iter \/ StartNext \/ StartClose \/ NoMoreKeys \/ SameSuffix \/ Enter
  BY <1>3, <1>6 DEF Iter, StartNext, StartClose, NoMoreKeys, SameSuffix, Enter
<1>7. CASE FinishClose BY <1>7 DEF FinishClose
<1>8. CASE KeepSuffix
  <2>1. DOMAIN nodes' = DOMAIN nodes BY <1>8 DEF KeepSuffix
  <2>2. QED BY <2>1
<1>9. CASE BelowValue BY <1>2, <1>9 DEF BelowValue
<1>10. CASE OtherSuffix BY <1>1, <1>10 DEF OtherSuffix
<1>11. CASE ChildFor
  <2>1. nodes' = nodes \/ NewChild(Bisect(n1, Letter)) BY <1>11 DEF ChildFor
  <2>2. QED BY <1>2, <1>3, <2>1
<1>12. CASE LettersEnd BY <1>1, <1>3, <1>12 DEF LettersEnd
<1>13. CASE FinishAdd
  <2>1. DOMAIN nodes' = DOMAIN nodes BY <1>13 DEF FinishAdd
  <2>2. QED BY <2>1
<1>14. CASE LeaveNode
  <2>1. DOMAIN nodes' \subseteq DOMAIN nodes BY <1>14 DEF LeaveNode
  <2>2. QED BY <2>1
<1>15. QED
  BY <1>3, <1>4, <1>5, <1>6, <1>7, <1>8, <1>9, <1>10, <1>11, <1>12, <1>13, <1>14
  DEF Next, Calls, Steps

LEMMA StaysClosed == ASSUME Next, ~Open PROVE ~Open'
<1>1. call \in {"close", "closed"} BY DEF Open
<1>2. /\ ~\E k \in Keys : StartAdd(k) \/ Get(k)
      /\ ~Iter /\ ~StartNext /\ ~StartClose /\ ~NoMoreKeys
  BY <1>1 DEF StartAdd, Get, Iter, StartNext, StartClose, NoMoreKeys, Idle
<1>3. ~KeepSuffix /\ ~BelowValue /\ ~SameSuffix /\ ~OtherSuffix /\ ~ChildFor
  BY <1>1 DEF KeepSuffix, BelowValue, SameSuffix, OtherSuffix, ChildFor, InLoop
<1>4. ~LettersEnd /\ ~FinishAdd BY <1>1 DEF LettersEnd, FinishAdd
<1>5. CASE Enter BY <1>1, <1>5 DEF Enter, Open
<1>6. CASE LeaveNode BY <1>1, <1>6 DEF LeaveNode, Open
<1>7. CASE FinishClose BY <1>7 DEF FinishClose, Open
<1>8. QED BY <1>2, <1>3, <1>4, <1>5, <1>6, <1>7 DEF Next, Calls, Steps

LEMMA StaysBounded == ASSUME RInv, RInv', Open => Bounded, Next PROVE (Open => Bounded)'
<1>1. SUFFICES ASSUME Open' PROVE Bounded' OBVIOUS
<1>2. Open /\ Bounded /\ Tree(nodes') BY <1>1, StaysClosed DEF RInv
<1>3. PICK b \in Nat : \A n \in DOMAIN nodes : Len(n) <= b BY <1>2 DEF Bounded
<1>4. PICK x : DOMAIN nodes' \subseteq DOMAIN nodes \cup {x} BY NodesGrow
<1>5. PICK D, E : D = DOMAIN nodes /\ E = DOMAIN nodes' OBVIOUS
<1>6. E \subseteq Seq(Letters) /\ E \subseteq D \cup {x} /\ \A n \in D : Len(n) <= b
  BY <1>2, <1>3, <1>4, <1>5 DEF Tree
<1>7. \E c \in Nat : \A n \in E : Len(n) <= c BY <1>6, BoundedStep
<1>8. QED BY <1>5, <1>7 DEF Bounded

\* Steps that leave the tables as they are
LEMMA TablesStay ==
  ASSUME TInv, UNCHANGED <<state, tt, ids, file, written>>, (Open => Bounded)',
         Converting => nodes' = nodes /\ (call' = call \/ call' = "crashed")
  PROVE  TInv'
<1>1. state' = state /\ tt' = tt /\ ids' = ids /\ file' = file /\ written' = written OBVIOUS
<1>2. Converting' <=> Converting BY <1>1 DEF Converting
<1>3. ASSUME Converting' PROVE (Idle \/ call = "crashed")' /\ Partly(tt, ids, Heads)'
  <2>1. Converting /\ nodes' = nodes /\ (call' = call \/ call' = "crashed") BY <1>2, <1>3
  <2>2. (Idle \/ call = "crashed") /\ Partly(tt, ids, Heads) BY <2>1 DEF TInv
  <2>3. Heads' = Heads BY <2>1 DEF Heads
  <2>4. Partly(tt, ids, Heads)' BY <1>1, <2>2, <2>3
  <2>5. (Idle \/ call = "crashed")' BY <2>1, <2>2 DEF Idle
  <2>6. QED BY <2>4, <2>5
<1>4. (state \in {"RAW", "DIRTY", "CONVERTED", "CLOSED", "READ"})' BY <1>1 DEF TInv
<1>5. (state = "RAW" => DOMAIN ids = {})' /\ (state \in {"RAW", "CLOSED"} => tt = Opened)'
  BY <1>1 DEF TInv
<1>6. (state \in {"DIRTY", "CONVERTED", "READ"} /\ Root \in DOMAIN ids => Whole(tt))' BY <1>1 DEF TInv
<1>7. (state \in {"CONVERTED", "CLOSED", "READ"} =>
         /\ Root \in DOMAIN ids
         /\ Whole(written) /\ file = Serialised(written)
         /\ state # "CLOSED" => tt = written)'
  BY <1>1 DEF TInv
<1>8. QED BY <1>3, <1>4, <1>5, <1>6, <1>7 DEF TInv

LEMMA BoundedStays ==
  ASSUME Open => Bounded, nodes' = nodes, Open' => Open
  PROVE  (Open => Bounded)'
BY DEF Bounded

EmptyTables(t, n) ==
  t = [len |-> n, root_id |-> NoRoot, choice |-> <<>>, term |-> <<>>,
       pass |-> <<>>, suffix |-> <<>>, infix |-> <<>>]

LEMMA OpenedIs ==
  ASSUME NEW n \in Nat, NEW t, EmptyTables(t, n)
  PROVE  Shapely(t) /\ Places(t) = {}
<1>1. t = [len |-> n, root_id |-> NoRoot, choice |-> <<>>, term |-> <<>>,
           pass |-> <<>>, suffix |-> <<>>, infix |-> <<>>]
  BY DEF EmptyTables
<1>2. t.choice = <<>> /\ \A y \in Plain : t[y] = <<>> /\ y # "choice" BY <1>1 DEF Plain
<1>3. PICK S : S = Cells OBVIOUS
<1>4. n \in S /\ NoRoot \in S
  <2>1. NoRoot \in Address BY DEF NoRoot, Address
  <2>2. QED BY <1>3, <2>1, CellsAre
<1>5. t \in Tables(Cells)
  <2>1. PICK TC, TT, TP, TS, TI :
          /\ TC = ChoiceTables(S) /\ TT = [result : S] /\ TP = [id : S, result : S]
          /\ TS = [suffix : Seq(S), result : S] /\ TI = [infix : Seq(S), id : S]
    OBVIOUS
  <2>2. t \in [len : S, root_id : S, choice : Seq(TC), term : Seq(TT), pass : Seq(TP),
               suffix : Seq(TS), infix : Seq(TI)]
    <3>1. /\ <<>> \in Seq(TC) /\ <<>> \in Seq(TT) /\ <<>> \in Seq(TP) /\ <<>> \in Seq(TS)
          /\ <<>> \in Seq(TI)
      OBVIOUS
    <3>2. QED BY <1>1, <1>4, <3>1
  <2>3. QED BY <1>3, <2>1, <2>2 DEF Tables
<1>6. DOMAIN t.choice = {} /\ \A y \in Plain : DOMAIN t[y] = {} BY <1>2
<1>7. Shapely(t)
  <2>1. FullFirst(t) BY <1>6 DEF FullFirst
  <2>2. Kept(t) BY <1>6 DEF Kept, Plain
  <2>3. QED BY <1>5, <1>6, <2>1, <2>2 DEF Shapely
<1>8. \A a \in Address : HeightAt(t, a) = 0
  <2>1. Len(t.choice) = 0 /\ \A y \in Plain : Len(t[y]) = 0 BY <1>2
  <2>2. SUFFICES ASSUME NEW a \in Address PROVE HeightAt(t, a) = 0 OBVIOUS
  <2>3. a.table_type \in Plain \cup {"choice"} /\ a.table_i \in Nat BY DEF Address
  <2>4. CASE a.table_type = "choice" BY <2>1, <2>3, <2>4 DEF HeightAt, Height
  <2>5. CASE a.table_type # "choice" BY <2>1, <2>3, <2>5 DEF HeightAt, Height
  <2>6. QED BY <2>4, <2>5
<1>9. Places(t) = {}
  <2>1. \A a \in Address : a.row_i \in Nat BY DEF Address
  <2>2. QED BY <1>8, <2>1 DEF Places, HeightAt
<1>10. QED BY <1>7, <1>9

LEMMA StartOptimizeStep == ASSUME RInv, TInv, StartOptimize PROVE TInv'
<1>1. /\ state = "RAW" /\ Idle /\ state' = "DIRTY" /\ tt' = [Opened EXCEPT !.len = len]
      /\ nodes' = nodes /\ call' = call /\ ids' = ids
  BY DEF StartOptimize
<1>2. Open /\ Tree(nodes) /\ Filled BY <1>1 DEF Idle, Open, RInv
<1>3. len \in Nat BY <1>2, FS_CardinalityType DEF Filled
<1>4. PICK t : t = tt' OBVIOUS
<1>5. Shapely(t) /\ Places(t) = {}
  <2>1. EmptyTables(t, len) BY <1>1, <1>4 DEF EmptyTables, Opened
  <2>2. QED BY <1>3, <2>1, OpenedIs
<1>6. PICK f, H : f = ids /\ H = Heads OBVIOUS
<1>7. DOMAIN f = {} BY <1>1, <1>6 DEF TInv
<1>8. Partly(t, f, H)
  <2>1. Uppermost(DOMAIN f) = {} BY <1>7 DEF Uppermost
  <2>2. FreeOf(f) = {} BY <2>1 DEF FreeOf
  <2>3. LinkedBut(t, {}) BY <1>5 DEF LinkedBut, Linked
  <2>4. QED BY <1>5, <1>7, <2>1, <2>2, <2>3 DEF Partly
<1>9. Heads' = H /\ tt' = t /\ ids' = f BY <1>1, <1>4, <1>6 DEF Heads
<1>10. Partly(tt, ids, Heads)' BY <1>8, <1>9
<1>11. (Idle \/ call = "crashed")' BY <1>1 DEF Idle
<1>12. (Open => Bounded)'
  <2>1. Open' => Open BY <1>2
  <2>2. QED BY <1>1, <2>1, BoundedStays DEF TInv
<1>13. Root \notin DOMAIN ids' BY <1>7, <1>9
<1>14. QED BY <1>1, <1>10, <1>11, <1>12, <1>13 DEF TInv

LEMMA AllConverted ==
  ASSUME Tree(nodes), NEW f, Root \in DOMAIN f, DOMAIN f \subseteq Heads
  PROVE  FreeOf(f) = {f[Root]}
<1>1. PICK D : D = DOMAIN f OBVIOUS
<1>2. \A m \in D : m \in Heads /\ m \in Seq(Letters) /\ Len(m) \in Nat BY <1>1, HeadsAre
<1>3. Root \in Heads /\ Len(Root) = 0 BY DEF Root
<1>4. \A m \in D : m # Root => IsStrictPrefix(Root, m)
  <2>1. SUFFICES ASSUME NEW m \in D, m # Root PROVE IsStrictPrefix(Root, m) OBVIOUS
  <2>2. Len(m) # 0 BY <1>2, <2>1, SequenceIs DEF Root
  <2>3. Under(Root, m) BY <1>2, <1>3, <2>2 DEF Under, IsStart
  <2>4. QED BY <1>2, <1>3, <2>3, HeadsAre
<1>5. \A o \in D : ~IsStrictPrefix(o, Root)
  <2>1. SUFFICES ASSUME NEW o \in D, IsStrictPrefix(o, Root) PROVE FALSE OBVIOUS
  <2>2. Under(o, Root) BY <1>2, <1>3, <2>1, HeadsAre
  <2>3. QED BY <1>2, <1>3, <2>2 DEF Under
<1>6. Uppermost(D) = {Root} BY <1>1, <1>4, <1>5 DEF Uppermost
<1>7. QED BY <1>1, <1>6 DEF FreeOf

LEMMA ConvertSubtrieStep == ASSUME RInv, TInv, ConvertSubtrie PROVE TInv'
<1>1. /\ state = "DIRTY" /\ Idle /\ Root \notin DOMAIN ids /\ nodes' = nodes /\ state' = state
      /\ file' = file /\ written' = written
  BY DEF ConvertSubtrie
<1>2. Open /\ Tree(nodes) /\ Filled BY <1>1 DEF Idle, Open, RInv
<1>3. Bounded /\ Converting BY <1>1, <1>2 DEF TInv, Converting
<1>4. Partly(tt, ids, Heads) BY <1>3 DEF TInv
<1>5. Open' => Open BY <1>2
<1>6. (Open => Bounded)' BY <1>1, <1>3, <1>5, BoundedStays
<1>7. PICK n \in Heads \ DOMAIN ids :
        /\ \A m \in Heads \ DOMAIN ids : m = n \/ ConvertedBefore(n, m)
        /\ IF Fatal(n)
             THEN call' = "crashed" /\ UNCHANGED <<tt, ids>>
             ELSE \E found \in MissedNames(nodes[n].keys) :
                    LET new == Converted(n, found) IN
                    /\ ids' = [m \in DOMAIN ids \cup {n} |-> IF m = n THEN new.id ELSE ids[m]]
                    /\ tt' = IF n = Root THEN [new.tables EXCEPT !.root_id = new.id]
                                         ELSE new.tables
                    /\ UNCHANGED call
  BY DEF ConvertSubtrie
<1>8. CASE Fatal(n)
  <2>1. call' = "crashed" /\ tt' = tt /\ ids' = ids BY <1>7, <1>8
  <2>2. QED BY <1>1, <1>6, <2>1, TablesStay
<1>9. CASE ~Fatal(n)
  <2>1. PICK found \in MissedNames(nodes[n].keys) :
          LET new == Converted(n, found) IN
          /\ ids' = [m \in DOMAIN ids \cup {n} |-> IF m = n THEN new.id ELSE ids[m]]
          /\ tt' = IF n = Root THEN [new.tables EXCEPT !.root_id = new.id]
                               ELSE new.tables
          /\ UNCHANGED call
    BY <1>7, <1>9
  <2>2. PICK new : new = Converted(n, found) OBVIOUS
  <2>3. PICK f : f = [m \in DOMAIN ids \cup {n} |-> IF m = n THEN new.id ELSE ids[m]] OBVIOUS
  <2>4. /\ ids' = f /\ call' = call
        /\ tt' = IF n = Root THEN [new.tables EXCEPT !.root_id = new.id] ELSE new.tables
    BY <2>1, <2>2, <2>3
  <2>5. n \in DOMAIN nodes BY <1>2, HeadsAre
  <2>6. nodes[n].has_value => nodes[n].result \in Buffers BY <1>2, <2>5, NodeIs DEF Node
  <2>7. HasSuffix(n) => nodes[n].has_value
    <3>1. call # "added" /\ call # "crashed" BY <1>1 DEF Idle
    <3>2. QED BY <1>2, <2>5, <3>1 DEF Filled
  <2>8. /\ Partly(new.tables, f, Heads) /\ DOMAIN f = DOMAIN ids \cup {n} /\ f[n] = new.id
        /\ new.id \in Address
    BY <1>2, <1>3, <1>4, <1>7, <1>9, <2>2, <2>3, <2>6, <2>7, ConvertedPartly
  <2>9. PICK u, a : u = new.tables /\ a = new.id OBVIOUS
  <2>10. (Idle \/ call = "crashed")' BY <1>1, <2>4 DEF Idle
  <2>11. state' = "DIRTY" BY <1>1
  <2>12. CASE n = Root
    <3>1. PICK t : t = tt' OBVIOUS
    <3>2. Root \in DOMAIN f /\ DOMAIN f \subseteq Heads /\ f[Root] = a BY <2>8, <2>9, <2>12 DEF Partly
    <3>3. FreeOf(f) = {a} BY <1>2, <3>2, AllConverted
    <3>4. Shapely(u) /\ LinkedBut(u, {a}) BY <2>8, <2>9, <3>3 DEF Partly
    <3>5. RootSet(u, t, a) BY <2>4, <2>9, <2>12, <3>1 DEF RootSet
    <3>6. Whole(t) BY <2>8, <2>9, <3>4, <3>5, RootConverted
    <3>7. Whole(tt)' BY <3>1, <3>6
    <3>8. Root \in DOMAIN ids' BY <2>4, <3>2
    <3>9. ~Converting' BY <3>8 DEF Converting
    <3>10. QED BY <1>6, <2>11, <3>7, <3>9 DEF TInv
  <2>13. CASE n # Root
    <3>1. tt' = u /\ Heads' = Heads BY <1>1, <2>4, <2>9, <2>13 DEF Heads
    <3>2. Partly(tt, ids, Heads)' BY <2>4, <2>8, <2>9, <3>1
    <3>3. Root \notin DOMAIN ids' BY <1>1, <2>4, <2>8, <2>13
    <3>4. QED BY <1>6, <2>10, <2>11, <3>2, <3>3 DEF TInv
  <2>14. QED BY <2>12, <2>13
<1>10. QED BY <1>8, <1>9

\* kds__optimize_write, at a node with a value
RowExchanged(t, u, y, i) == u = [t EXCEPT ![y][i].result = [of |-> "cpref", key |-> @.key]]

StreamOf(t, y, i) == [of |-> "cpref", key |-> t[y][i].result.key]

LEMMA RowExchangedIs ==
  ASSUME NEW t, Shapely(t), NEW y \in {"pass", "term", "suffix"}, NEW i, NEW u, RowExchanged(t, u, y, i)
  PROVE  \E r, w :
           /\ r = [t[y][i] EXCEPT !.result = StreamOf(t, y, i)]
           /\ i \in DOMAIN t[y] => StreamOf(t, y, i) \in Streams
           /\ SetRow(t[y], w, i, r) /\ u = [t EXCEPT ![y] = w]
<1>1. PICK r, w, x : /\ x = StreamOf(t, y, i) /\ r = [t[y][i] EXCEPT !.result = x]
                     /\ w = [t[y] EXCEPT ![i] = r]
  OBVIOUS
<1>2. u = [t EXCEPT ![y] = w] BY <1>1 DEF RowExchanged, StreamOf
<1>3. ASSUME i \in DOMAIN t[y] PROVE x \in Streams
  <2>1. t[y][i].result \in Buffers \cup Streams BY <1>3 DEF Shapely, Kept
  <2>2. \E k \in Keys : t[y][i].result = [of |-> "dpref", key |-> k]
                        \/ t[y][i].result = [of |-> "cpref", key |-> k]
    BY <2>1 DEF Buffers, Buffer, Streams
  <2>3. t[y][i].result.key \in Keys BY <2>2
  <2>4. QED BY <1>1, <2>3 DEF StreamOf, Streams
<1>4. SetRow(t[y], w, i, r) BY <1>1 DEF SetRow
<1>5. QED BY <1>1, <1>2, <1>3, <1>4

\* Tables with other rows of one type, in which only what is stored differs
OtherRows(t, u, y, w, i, r, x) ==
  /\ i \in DOMAIN t[y] => x \in Streams
  /\ x.key = t[y][i].result.key
  /\ r = [t[y][i] EXCEPT !.result = x] /\ SetRow(t[y], w, i, r) /\ u = [t EXCEPT ![y] = w]

LEMMA OtherRowsTables ==
  ASSUME NEW t \in Tables(Cells), NEW y \in {"pass", "term", "suffix"}, NEW w, NEW i, NEW r, NEW x,
         NEW u, OtherRows(t, u, y, w, i, r, x)
  PROVE  u \in Tables(Cells)
<1>1. /\ i \in DOMAIN t[y] => x \in Streams
      /\ r = [t[y][i] EXCEPT !.result = x] /\ SetRow(t[y], w, i, r) /\ u = [t EXCEPT ![y] = w]
  BY DEF OtherRows
<1>2. PICK S : S = Cells OBVIOUS
<1>3. x \in Streams => x \in S BY <1>2, CellsAre
<1>4. PICK TC, TT, TP, TS, TI :
        /\ TC = ChoiceTables(S) /\ TT = [result : S] /\ TP = [id : S, result : S]
        /\ TS = [suffix : Seq(S), result : S] /\ TI = [infix : Seq(S), id : S]
  OBVIOUS
<1>5. /\ t = [len |-> t.len, root_id |-> t.root_id, choice |-> t.choice, term |-> t.term,
             pass |-> t.pass, suffix |-> t.suffix, infix |-> t.infix]
      /\ t.len \in S /\ t.root_id \in S /\ t.choice \in Seq(TC) /\ t.term \in Seq(TT)
      /\ t.pass \in Seq(TP) /\ t.suffix \in Seq(TS) /\ t.infix \in Seq(TI)
  BY <1>2, <1>4 DEF Tables
<1>6. Tables(Cells) = [len : S, root_id : S, choice : Seq(TC), term : Seq(TT), pass : Seq(TP),
                       suffix : Seq(TS), infix : Seq(TI)]
  BY <1>2, <1>4 DEF Tables
<1>7. CASE y = "term"
  <2>1. PICK s : s = t.term OBVIOUS
  <2>2. i \in DOMAIN s => r \in TT
    <3>1. SUFFICES ASSUME i \in DOMAIN s PROVE r \in TT OBVIOUS
    <3>2. s[i] \in TT /\ x \in S BY <1>1, <1>3, <1>5, <1>7, <2>1, <3>1, SequenceIs
    <3>3. r = [s[i] EXCEPT !.result = x] BY <1>1, <1>7, <2>1
    <3>4. QED BY <1>4, <3>2, <3>3
  <2>3. SetRow(s, w, i, r) BY <1>1, <1>7, <2>1
  <2>4. w \in Seq(TT) BY <1>5, <2>1, <2>2, <2>3, RowSetIs
  <2>5. u = [t EXCEPT !.term = w] BY <1>1, <1>7
  <2>6. u = [len |-> t.len, root_id |-> t.root_id, choice |-> t.choice, term |-> w,
             pass |-> t.pass, suffix |-> t.suffix, infix |-> t.infix]
    BY <1>5, <2>5
  <2>7. QED BY <1>5, <1>6, <2>4, <2>6
<1>8. CASE y = "pass"
  <2>1. PICK s : s = t.pass OBVIOUS
  <2>2. i \in DOMAIN s => r \in TP
    <3>1. SUFFICES ASSUME i \in DOMAIN s PROVE r \in TP OBVIOUS
    <3>2. s[i] \in TP /\ x \in S BY <1>1, <1>3, <1>5, <1>8, <2>1, <3>1, SequenceIs
    <3>3. r = [s[i] EXCEPT !.result = x] BY <1>1, <1>8, <2>1
    <3>4. QED BY <1>4, <3>2, <3>3
  <2>3. SetRow(s, w, i, r) BY <1>1, <1>8, <2>1
  <2>4. w \in Seq(TP) BY <1>5, <2>1, <2>2, <2>3, RowSetIs
  <2>5. u = [t EXCEPT !.pass = w] BY <1>1, <1>8
  <2>6. u = [len |-> t.len, root_id |-> t.root_id, choice |-> t.choice, term |-> t.term,
             pass |-> w, suffix |-> t.suffix, infix |-> t.infix]
    BY <1>5, <2>5
  <2>7. QED BY <1>5, <1>6, <2>4, <2>6
<1>9. CASE y = "suffix"
  <2>1. PICK s : s = t.suffix OBVIOUS
  <2>2. i \in DOMAIN s => r \in TS
    <3>1. SUFFICES ASSUME i \in DOMAIN s PROVE r \in TS OBVIOUS
    <3>2. s[i] \in TS /\ x \in S BY <1>1, <1>3, <1>5, <1>9, <2>1, <3>1, SequenceIs
    <3>3. r = [s[i] EXCEPT !.result = x] BY <1>1, <1>9, <2>1
    <3>4. QED BY <1>4, <3>2, <3>3
  <2>3. SetRow(s, w, i, r) BY <1>1, <1>9, <2>1
  <2>4. w \in Seq(TS) BY <1>5, <2>1, <2>2, <2>3, RowSetIs
  <2>5. u = [t EXCEPT !.suffix = w] BY <1>1, <1>9
  <2>6. u = [len |-> t.len, root_id |-> t.root_id, choice |-> t.choice, term |-> t.term,
             pass |-> t.pass, suffix |-> w, infix |-> t.infix]
    BY <1>5, <2>5
  <2>7. QED BY <1>5, <1>6, <2>4, <2>6
<1>10. QED BY <1>7, <1>8, <1>9

LEMMA OtherRowsWhole ==
  ASSUME NEW t, Whole(t), NEW y \in {"pass", "term", "suffix"}, NEW w, NEW i, NEW r, NEW x,
         NEW u, OtherRows(t, u, y, w, i, r, x)
  PROVE  Whole(u) /\ SameSpelling(t, u) /\ u.root_id = t.root_id
<1>1. /\ i \in DOMAIN t[y] => x \in Streams
      /\ x.key = t[y][i].result.key
      /\ r = [t[y][i] EXCEPT !.result = x] /\ SetRow(t[y], w, i, r) /\ u = [t EXCEPT ![y] = w]
  BY DEF OtherRows
<1>2. Shapely(t) /\ LinkedBut(t, {t.root_id}) /\ t \in Tables(Cells) /\ FullFirst(t) /\ Kept(t)
  BY DEF Whole, Shapely
<1>3. u \in Tables(Cells) BY <1>2, OtherRowsTables
<1>4. y \in Plain /\ y # "choice" BY DEF Plain
<1>5. /\ u[y] = w /\ u.choice = t.choice /\ u.root_id = t.root_id
      /\ \A z \in Plain : z # y => u[z] = t[z]
  <2>1. DOMAIN t = {"len", "root_id", "choice", "term", "pass", "suffix", "infix"}
    BY <1>2 DEF Tables
  <2>2. /\ "choice" \in DOMAIN t /\ "choice" # y /\ "root_id" \in DOMAIN t /\ "root_id" # y
        /\ Plain \subseteq DOMAIN t /\ y \in DOMAIN t
    BY <2>1 DEF Plain
  <2>3. \A z \in DOMAIN t : u[z] = IF z = y THEN w ELSE t[z] BY <1>1
  <2>4. u["choice"] = t["choice"] /\ u["root_id"] = t["root_id"] BY <2>2, <2>3
  <2>5. QED BY <2>2, <2>3, <2>4
<1>6. PICK s, R : s = t[y] /\ s \in Seq(R) BY <1>2, <1>4, RowsOfAre
<1>7. /\ Len(w) = Len(s) /\ DOMAIN w = DOMAIN s /\ DOMAIN s = 1 .. Len(s) /\ Len(s) \in Nat
      /\ \A j \in DOMAIN s : w[j] = IF j = i THEN r ELSE s[j]
  <2>1. PICK V : V = R \cup {r} OBVIOUS
  <2>2. s \in Seq(V) /\ (i \in DOMAIN s => r \in V) BY <1>6, <2>1
  <2>3. SetRow(s, w, i, r) BY <1>1, <1>6
  <2>4. RowIs(s, w, i, r) BY <2>2, <2>3, RowSetIs
  <2>5. DOMAIN s = 1 .. Len(s) /\ Len(s) \in Nat BY <2>2, SequenceIs
  <2>6. QED BY <2>4, <2>5 DEF RowIs
<1>8. i \in DOMAIN s => /\ "result" \in DOMAIN s[i] /\ (y = "pass" => "id" \in DOMAIN s[i])
                        /\ (y = "suffix" => "suffix" \in DOMAIN s[i])
  <2>1. SUFFICES ASSUME i \in DOMAIN s
                 PROVE  /\ "result" \in DOMAIN s[i] /\ (y = "pass" => "id" \in DOMAIN s[i])
                        /\ (y = "suffix" => "suffix" \in DOMAIN s[i])
    OBVIOUS
  <2>2. PICK S : S = Cells OBVIOUS
  <2>3. CASE y = "term"
    <3>1. PICK Q : Q = [result : S] OBVIOUS
    <3>2. t.term \in Seq(Q) BY <1>2, <2>2, <3>1 DEF Tables
    <3>3. s \in Seq(Q) /\ i \in 1 .. Len(s) BY <1>6, <1>7, <2>1, <2>3, <3>2
    <3>4. s[i] \in Q BY <3>3, SequenceIs
    <3>5. QED BY <2>3, <3>1, <3>4
  <2>4. CASE y = "pass"
    <3>1. PICK Q : Q = [id : S, result : S] OBVIOUS
    <3>2. t.pass \in Seq(Q) BY <1>2, <2>2, <3>1 DEF Tables
    <3>3. s \in Seq(Q) /\ i \in 1 .. Len(s) BY <1>6, <1>7, <2>1, <2>4, <3>2
    <3>4. s[i] \in Q BY <3>3, SequenceIs
    <3>5. QED BY <2>4, <3>1, <3>4
  <2>5. CASE y = "suffix"
    <3>1. PICK Q : Q = [suffix : Seq(S), result : S] OBVIOUS
    <3>2. t.suffix \in Seq(Q) BY <1>2, <2>2, <3>1 DEF Tables
    <3>3. s \in Seq(Q) /\ i \in 1 .. Len(s) BY <1>6, <1>7, <2>1, <2>5, <3>2
    <3>4. s[i] \in Q BY <3>3, SequenceIs
    <3>5. QED BY <2>5, <3>1, <3>4
  <2>6. QED BY <2>3, <2>4, <2>5
<1>9. i \in DOMAIN s => /\ r.result = x /\ x \in Streams /\ (y = "pass" => r.id = s[i].id)
                        /\ (y = "suffix" => r.suffix = s[i].suffix) /\ r.result.key = s[i].result.key
  <2>1. SUFFICES ASSUME i \in DOMAIN s
                 PROVE  /\ r.result = x /\ x \in Streams /\ (y = "pass" => r.id = s[i].id)
                        /\ (y = "suffix" => r.suffix = s[i].suffix) /\ r.result.key = s[i].result.key
    OBVIOUS
  <2>2. PICK q : q = s[i] OBVIOUS
  <2>3. r = [q EXCEPT !.result = x] /\ x \in Streams BY <1>1, <1>6, <2>1, <2>2
  <2>4. /\ "result" \in DOMAIN q /\ (y = "pass" => "id" \in DOMAIN q)
        /\ (y = "suffix" => "suffix" \in DOMAIN q)
    BY <1>8, <2>1, <2>2
  <2>5. x.key = q.result.key BY <1>1, <1>6, <2>2
  <2>6. r.result = x /\ (y = "pass" => r.id = q.id) /\ (y = "suffix" => r.suffix = q.suffix)
    BY <2>3, <2>4
  <2>7. QED BY <2>2, <2>3, <2>5, <2>6
<1>10. Kept(u)
  <2>1. SUFFICES ASSUME NEW z \in {"term", "pass", "suffix"}, NEW j \in DOMAIN u[z]
                 PROVE  u[z][j].result \in Buffers \cup Streams
    BY DEF Kept
  <2>2. CASE z # y
    <3>1. u[z] = t[z] BY <1>5, <2>2 DEF Plain
    <3>2. QED BY <1>2, <2>1, <3>1 DEF Kept
  <2>3. CASE z = y
    <3>1. j \in DOMAIN s /\ u[z][j] = w[j] BY <1>5, <1>7, <2>1, <2>3
    <3>2. CASE j = i BY <1>7, <1>9, <3>1, <3>2
    <3>3. CASE j # i
      <4>1. s[j].result \in Buffers \cup Streams BY <1>2, <1>6, <2>1, <2>3, <3>1 DEF Kept
      <4>2. QED BY <1>7, <3>1, <3>3, <4>1
    <3>4. QED BY <3>2, <3>3
  <2>4. QED BY <2>2, <2>3
<1>11. PICK c : c = t.choice OBVIOUS
<1>12. u.choice = c BY <1>5, <1>11
<1>13. FullFirst(u) BY <1>2, <1>11, <1>12 DEF FullFirst
<1>14. \A j \in DOMAIN u.choice : Len(u.choice[j].rows) \in 1 .. MaxDepth
  BY <1>2, <1>11, <1>12 DEF Shapely
<1>15. Shapely(u) BY <1>3, <1>10, <1>13, <1>14 DEF Shapely
<1>16. ASSUME NEW a \in Address PROVE HeightAt(u, a) = HeightAt(t, a)
  <2>1. a.table_type \in Plain \/ a.table_type = "choice" BY DEF Address
  <2>2. CASE a.table_type = "choice"
    <3>1. HeightAt(u, a) = (IF a.table_i < Len(c) THEN Len(c[a.table_i + 1].rows) ELSE 0)
          /\ HeightAt(t, a) = (IF a.table_i < Len(c) THEN Len(c[a.table_i + 1].rows) ELSE 0)
      BY <1>11, <1>12, <2>2 DEF HeightAt, Height
    <3>2. QED BY <3>1
  <2>3. CASE a.table_type \in Plain
    <3>1. Len(u[a.table_type]) = Len(t[a.table_type]) BY <1>5, <1>6, <1>7, <2>3
    <3>2. a.table_type # "choice" BY <2>3 DEF Plain
    <3>3. QED BY <3>1, <3>2 DEF HeightAt, Height
  <2>4. QED BY <2>1, <2>2, <2>3
<1>17. ASSUME NEW a \in Places(t) PROVE Links(u, a) = Links(t, a)
  <2>1. a \in Address /\ a.row_i < HeightAt(t, a) BY DEF Places, HeightAt
  <2>2. /\ a.table_type \in {"term", "pass", "suffix", "infix", "choice"} /\ a.table_i \in Nat
        /\ a.row_i \in Nat
    BY <2>1 DEF Address, Plain
  <2>3. CASE a.table_type = "choice"
    <3>1. RowAt(u, a) = c[a.table_i + 1].rows[a.row_i + 1] /\ RowAt(t, a) = c[a.table_i + 1].rows[a.row_i + 1]
      BY <1>11, <1>12, <2>3 DEF RowAt
    <3>2. QED BY <2>3, <3>1 DEF Links
  <2>4. CASE a.table_type \in {"term", "suffix"} BY <2>4 DEF Links
  <2>5. CASE a.table_type = "infix"
    <3>1. u.infix = t.infix BY <1>5 DEF Plain
    <3>2. RowAt(u, a) = RowAt(t, a) BY <2>5, <3>1 DEF RowAt
    <3>3. QED BY <2>5, <3>2 DEF Links
  <2>6. CASE a.table_type = "pass"
    <3>1. Links(u, a) = <<RowAt(u, a).id>> /\ Links(t, a) = <<RowAt(t, a).id>> BY <2>6 DEF Links
    <3>2. RowAt(u, a) = u.pass[a.row_i + 1] /\ RowAt(t, a) = t.pass[a.row_i + 1] BY <2>6 DEF RowAt
    <3>3. CASE y # "pass"
      <4>1. u.pass = t.pass BY <1>5, <3>3 DEF Plain
      <4>2. QED BY <3>1, <3>2, <4>1
    <3>4. CASE y = "pass"
      <4>1. u.pass = w /\ t.pass = s BY <1>5, <1>6, <3>4
      <4>2. a.row_i < Len(s) BY <1>7, <2>1, <2>2, <2>6, <4>1 DEF HeightAt, Height
      <4>3. PICK j : j = a.row_i + 1 OBVIOUS
      <4>4. j \in DOMAIN s BY <1>7, <2>2, <4>2, <4>3
      <4>5. w[j].id = s[j].id BY <1>7, <1>9, <3>4, <4>4
      <4>6. QED BY <3>1, <3>2, <4>1, <4>3, <4>5
    <3>5. QED BY <3>3, <3>4
  <2>7. QED BY <2>2, <2>3, <2>4, <2>5, <2>6
<1>18. SameLinks(t, u) BY <1>16, <1>17 DEF SameLinks
<1>19. PICK F : F = {t.root_id} OBVIOUS
<1>20. LinkedBut(u, F) BY <1>2, <1>18, <1>19, SameLinked
<1>21. ASSUME NEW a \in Places(t)
       PROVE  /\ \A key, k : Onward(u, a, key, k) = Onward(t, a, key, k) /\ Spelled(u, a, key) = Spelled(t, a, key)
              /\ a.table_type \in {"pass", "term", "suffix"} => RowAt(u, a).result.key = RowAt(t, a).result.key
  <2>1. a \in Address /\ a.row_i < HeightAt(t, a) BY DEF Places, HeightAt
  <2>2. /\ a.table_type \in {"term", "pass", "suffix", "infix", "choice"} /\ a.table_i \in Nat
        /\ a.row_i \in Nat
    BY <2>1 DEF Address, Plain
  <2>3. CASE a.table_type = "choice"
    <3>1. NameAt(u, a) = NameAt(t, a) BY <1>11, <1>12, <2>3 DEF NameAt
    <3>2. QED BY <2>3, <3>1 DEF Onward, Spelled
  <2>4. CASE a.table_type \in Plain /\ a.table_type # y
    <3>1. RowAt(u, a) = RowAt(t, a) /\ a.table_type # "choice" BY <1>5, <2>4 DEF RowAt, Plain
    <3>2. NameAt(u, a) = NameAt(t, a) BY <3>1 DEF NameAt
    <3>3. QED BY <3>1, <3>2 DEF Onward, Spelled
  <2>5. CASE a.table_type = y
    <3>1. PICK j : j = a.row_i + 1 OBVIOUS
    <3>2. a.row_i < Len(s) BY <1>4, <1>6, <1>7, <2>1, <2>2, <2>5 DEF HeightAt, Height
    <3>3. j \in DOMAIN s BY <1>7, <2>2, <3>1, <3>2
    <3>4. RowAt(u, a) = w[j] /\ RowAt(t, a) = s[j] BY <1>4, <1>5, <1>6, <2>5, <3>1 DEF RowAt
    <3>5. (y = "suffix" => w[j].suffix = s[j].suffix) /\ w[j].result.key = s[j].result.key
      BY <1>7, <1>9, <3>3
    <3>6. QED BY <2>5, <3>4, <3>5 DEF Onward, Spelled
  <2>6. QED BY <2>2, <2>3, <2>4, <2>5 DEF Plain
<1>22. SameSpelling(t, u)
  <2>1. Places(u) = Places(t) BY <1>16 DEF Places, HeightAt
  <2>2. QED BY <1>17, <1>21, <2>1 DEF SameSpelling
<1>23. QED BY <1>5, <1>15, <1>19, <1>20, <1>22 DEF Whole

LEMMA ExchangeStep == ASSUME TInv, ExchangeNext PROVE TInv'
<1>1. /\ state = "DIRTY" /\ call = "closed" /\ state' = state /\ nodes' = nodes /\ call' = call
      /\ ids' = ids /\ file' = file /\ written' = written
  BY DEF ExchangeNext, Exchanging
<1>2. PICK f : f = Last(Deeper) OBVIOUS
<1>3. (Yields(f) /\ tt' = Exchanged(f)) \/ tt' = tt BY <1>2 DEF ExchangeNext
<1>4. (Open => Bounded)'
  <2>1. Open' => Open BY <1>1 DEF Open
  <2>2. QED BY <1>1, <2>1, BoundedStays DEF TInv
<1>5. ~Converting /\ ~Converting' BY <1>1 DEF TInv, Idle, Converting
<1>6. CASE tt' = tt BY <1>1, <1>4, <1>5, <1>6, TablesStay
<1>7. CASE Yields(f) /\ tt' = Exchanged(f)
  <2>1. PICK t, u, y, i : t = tt /\ u = tt' /\ y = f.id.table_type /\ i = f.id.row_i + 1 OBVIOUS
  <2>2. y \in {"pass", "term", "suffix"} BY <1>7, <2>1 DEF Yields
  <2>3. RowExchanged(t, u, y, i) BY <1>7, <2>1 DEF Exchanged, RowExchanged
  <2>4. Whole(t) BY <1>1, <1>5, <2>1 DEF TInv, Converting
  <2>5. Shapely(t) BY <2>4 DEF Whole
  <2>6. PICK r, w : /\ r = [t[y][i] EXCEPT !.result = StreamOf(t, y, i)]
                    /\ i \in DOMAIN t[y] => StreamOf(t, y, i) \in Streams
                    /\ SetRow(t[y], w, i, r) /\ u = [t EXCEPT ![y] = w]
    BY <2>2, <2>3, <2>5, RowExchangedIs
  <2>7. PICK x : x = StreamOf(t, y, i) OBVIOUS
  <2>8. OtherRows(t, u, y, w, i, r, x) BY <2>6, <2>7 DEF OtherRows, StreamOf
  <2>9. Whole(u) BY <2>2, <2>4, <2>8, OtherRowsWhole
  <2>10. Whole(tt)' BY <2>1, <2>9
  <2>11. state' = "DIRTY" BY <1>1
  <2>12. QED BY <1>4, <1>5, <2>10, <2>11 DEF TInv
<1>8. QED BY <1>3, <1>6, <1>7

LEMMA WriteStep == ASSUME TInv, WriteTtrie PROVE TInv'
<1>1. /\ state = "DIRTY" /\ call = "closed" /\ state' = "CONVERTED" /\ nodes' = nodes /\ call' = call
      /\ ids' = ids /\ file' = Serialised(tt) /\ written' = tt /\ tt' = tt
  BY DEF WriteTtrie, Exchanging, vars
<1>2. (Open => Bounded)'
  <2>1. Open' => Open BY <1>1 DEF Open
  <2>2. QED BY <1>1, <2>1, BoundedStays DEF TInv
<1>3. ~Converting /\ ~Converting' BY <1>1 DEF TInv, Idle, Converting
<1>4. Whole(tt) /\ Root \in DOMAIN ids BY <1>1, <1>3 DEF TInv, Converting
<1>5. Root \in DOMAIN ids' BY <1>1, <1>4
<1>6. PICK t : t = tt OBVIOUS
<1>7. Whole(t) /\ tt' = t /\ written' = t /\ file' = Serialised(t) BY <1>1, <1>4, <1>6
<1>8. Whole(tt)' /\ Whole(written)' /\ (file = Serialised(written))' /\ (tt = written)' BY <1>7
<1>9. QED BY <1>1, <1>2, <1>3, <1>5, <1>8 DEF TInv

LEMMA CloseTableStep == ASSUME TInv, CloseTable PROVE TInv'
<1>1. /\ state \in {"CONVERTED", "READ"} /\ state' = "CLOSED" /\ nodes' = nodes /\ call' = call
      /\ ids' = ids /\ file' = file /\ written' = written /\ tt' = Opened
  BY DEF CloseTable
<1>2. (Open => Bounded)'
  <2>1. Open' => Open BY <1>1 DEF Open
  <2>2. QED BY <1>1, <2>1, BoundedStays DEF TInv
<1>3. Root \in DOMAIN ids /\ Whole(written) /\ file = Serialised(written) BY <1>1 DEF TInv
<1>4. (Root \in DOMAIN ids)' /\ Whole(written)' /\ (file = Serialised(written))' BY <1>1, <1>3
<1>5. (tt = Opened)' BY <1>1 DEF Opened
<1>6. ~Converting' BY <1>1 DEF Converting
<1>7. QED BY <1>1, <1>2, <1>4, <1>5, <1>6 DEF TInv

LEMMA OpenReaderStep == ASSUME TInv, OpenReader PROVE TInv'
<1>1. /\ state = "CLOSED" /\ state' = "READ" /\ nodes' = nodes /\ call' = call
      /\ ids' = ids /\ file' = file /\ written' = written /\ tt' = Deserialised(file)
  BY DEF OpenReader, vars
<1>2. (Open => Bounded)'
  <2>1. Open' => Open BY <1>1 DEF Open
  <2>2. QED BY <1>1, <2>1, BoundedStays DEF TInv
<1>3. Root \in DOMAIN ids /\ Whole(written) /\ file = Serialised(written) BY <1>1 DEF TInv
<1>4. PICK t : t = written OBVIOUS
<1>5. PICK S : S = Cells OBVIOUS
<1>6. Int \subseteq S /\ t \in Tables(S) BY <1>3, <1>4, <1>5, CellsAre DEF Whole, Shapely
<1>7. Deserialised(Serialised(t)) = t BY <1>6, RoundTrip
<1>8. tt' = t /\ written' = t /\ Whole(t) BY <1>1, <1>3, <1>4, <1>7
<1>9. (Root \in DOMAIN ids)' /\ Whole(written)' /\ (file = Serialised(written))' /\ (tt = written)' /\ Whole(tt)'
  BY <1>1, <1>3, <1>8
<1>10. ~Converting' BY <1>1 DEF Converting
<1>11. QED BY <1>1, <1>2, <1>9, <1>10 DEF TInv

\* Steps that touch neither the tables nor the nodes
LEMMA Untouched ==
  ASSUME TInv, UNCHANGED <<state, tt, ids, file, written>>, nodes' = nodes, call' = call
  PROVE  TInv'
<1>1. Open' => Open BY DEF Open
<1>2. Open => Bounded BY DEF TInv
<1>3. (Open => Bounded)' BY <1>1, <1>2, BoundedStays
<1>4. QED BY <1>3, TablesStay

LEMMA TInvStep == ASSUME RInv, RInv', TInv, TNext \/ UNCHANGED tvars PROVE TInv'
<1>1. ASSUME Next, UNCHANGED <<state, tt, ids, file, written>>, ~Converting PROVE TInv'
  <2>1. (Open => Bounded)' BY <1>1, StaysBounded DEF TInv
  <2>2. QED BY <1>1, <2>1, TablesStay
<1>2. CASE InRtrie
  <2>1. state = "RAW" /\ Next /\ UNCHANGED <<state, tt, ids, file, written>>
    BY <1>2, TrieSteps DEF InRtrie, tables
  <2>2. ~Converting BY <2>1 DEF Converting
  <2>3. QED BY <1>1, <2>1, <2>2
<1>3. CASE CloseRtrie
  <2>1. Root \in DOMAIN ids /\ UNCHANGED <<state, tt, ids, file, written>> BY <1>3 DEF CloseRtrie, tables
  <2>2. Next BY <1>3, TrieSteps
  <2>3. ~Converting BY <2>1 DEF Converting
  <2>4. QED BY <1>1, <2>1, <2>2, <2>3
<1>4. CASE StartOptimize BY <1>4, StartOptimizeStep
<1>5. CASE ConvertSubtrie BY <1>5, ConvertSubtrieStep
<1>6. CASE ExchangeNext BY <1>6, ExchangeStep
<1>7. CASE LookNext BY <1>7, Untouched DEF LookNext
<1>8. CASE WalkUp BY <1>8, Untouched DEF WalkUp, vars
<1>9. CASE NoKeyThere BY <1>9, Untouched DEF NoKeyThere
<1>10. CASE WriteTtrie BY <1>10, WriteStep
<1>11. CASE CloseTable BY <1>11, CloseTableStep
<1>12. CASE OpenReader BY <1>12, OpenReaderStep
<1>13. ASSUME NEW k \in Keys, GetConverted(k) PROVE TInv'
  BY <1>13, Untouched DEF GetConverted, tables
<1>14. ASSUME NEW i \in 0 .. MaxKeys, StartKeyAt(i) PROVE TInv' BY <1>14, Untouched DEF StartKeyAt
<1>15. CASE UNCHANGED tvars BY <1>15, Untouched DEF tvars, vars, tables
<1>16. ASSUME NEW i \in 0 .. MaxKeys, StartCount(i) PROVE TInv'
  <2>1. state = "RAW" /\ Next /\ UNCHANGED <<state, tt, ids, file, written>>
    BY <1>16, TrieSteps DEF StartCount
  <2>2. ~Converting BY <2>1 DEF Converting
  <2>3. QED BY <1>1, <2>1, <2>2
<1>17. CASE CountNext
  <2>1. state = "RAW" /\ Next /\ UNCHANGED <<state, tt, ids, file, written>>
    BY <1>17, TrieSteps DEF CountNext, Counting
  <2>2. ~Converting BY <2>1 DEF Converting
  <2>3. QED BY <1>1, <2>1, <2>2
<1>18. CASE FinishCount
  <2>1. /\ state = "RAW" /\ call \in {"none", "between"} /\ call' = "none" /\ nodes' = nodes
        /\ UNCHANGED <<state, tt, ids, file, written>>
    BY <1>18 DEF FinishCount, Counting
  <2>2. ~Converting /\ (Open' => Open) BY <2>1 DEF Converting, Open
  <2>3. (Open => Bounded)' BY <2>1, <2>2, BoundedStays DEF TInv
  <2>4. QED BY <2>1, <2>2, <2>3, TablesStay
<1>19. QED
  BY <1>2, <1>3, <1>4, <1>5, <1>6, <1>7, <1>8, <1>9, <1>10, <1>11, <1>12, <1>13, <1>14, <1>15,
     <1>16, <1>17, <1>18
  DEF TNext

LEMMA TInvInit == TInit => TInv
<1>1. SUFFICES ASSUME TInit PROVE TInv OBVIOUS
<1>2. /\ state = "RAW" /\ tt = Opened /\ DOMAIN ids = {} /\ DOMAIN nodes = {Root}
  BY <1>1 DEF TInit, Init
<1>3. Bounded
  <2>1. Len(Root) = 0 /\ 0 \in Nat BY DEF Root
  <2>2. \A n \in DOMAIN nodes : Len(n) <= 0 BY <1>2, <2>1
  <2>3. QED BY <2>1, <2>2 DEF Bounded
<1>4. ~Converting BY <1>2 DEF Converting
<1>5. QED BY <1>2, <1>3, <1>4 DEF TInv

\* ttrie.c:1491-1548 and ttrie.c:1980-2015: while subtries are converted, each
\* row is where one id leads, but for the rows of the uppermost converted heads;
\* from then on but for the root's, through the exchange of rows, the file that is
\* written and what a reader has of it. No choice table has more than MaxDepth rows.
THEOREM TablesInvariantHolds == TSpec => []TInv
<1>1. TInit => RInv /\ TInv BY RInvInit, TInvInit DEF TInit
<1>2. RInv /\ TInv /\ [TNext]_tvars => (RInv /\ TInv)'
  <2>1. SUFFICES ASSUME RInv, TInv, TNext \/ UNCHANGED tvars PROVE RInv' /\ TInv'
    OBVIOUS
  <2>2. RInv' BY <2>1, RInvTStep
  <2>3. QED BY <2>1, <2>2, TInvStep
<1>3. QED BY <1>1, <1>2, PTL DEF TSpec

LEMMA TInvIsFull == TInv => NewTableWhenFull
<1>1. SUFFICES ASSUME TInv PROVE NewTableWhenFull OBVIOUS
<1>2. CASE state \in {"RAW", "CLOSED"}
  <2>1. tt.choice = <<>> BY <1>1, <1>2 DEF TInv, Opened
  <2>2. DOMAIN tt.choice = {} BY <2>1
  <2>3. QED BY <2>2 DEF NewTableWhenFull
<1>3. CASE state \notin {"RAW", "CLOSED"}
  <2>1. Shapely(tt) BY <1>1, <1>3 DEF TInv, Converting, Partly, Whole
  <2>2. FullFirst(tt) BY <2>1 DEF Shapely
  <2>3. PICK c : c = tt.choice OBVIOUS
  <2>4. QED BY <2>2, <2>3 DEF FullFirst, NewTableWhenFull
<1>4. QED BY <1>2, <1>3

\* ttrie.c:384: "If a table fills we make a new one and point to it": of the tables of
\* a name that the index can find, all but the last are full.
THEOREM NamesShareTables == TSpec => []NewTableWhenFull
<1>1. TInv => NewTableWhenFull BY TInvIsFull
<1>2. QED BY <1>1, TablesInvariantHolds, PTL

-----------------------------------------------------------------------------
(***************************************************************************)
(* Rows once                                                               *)
(***************************************************************************)

\* The places that those of D lead to
OutOf(t, D) == UNION {ToSet(Links(t, a)) : a \in D}

\* Every place but the root's is led to once.
LEMMA OnceFrom ==
  ASSUME NEW t, NEW r, LinkedBut(t, {r})
  PROVE  /\ r \in Places(t) /\ OutOf(t, Places(t)) = Places(t) \ {r}
         /\ \A a \in Places(t) : Listing(Links(t, a), OutOf(t, {a}))
         /\ \A a, b \in Places(t) : a # b => ToSet(Links(t, a)) \cap ToSet(Links(t, b)) = {}
<1>1. PICK P, L, F : P = Places(t) /\ L = [a \in P |-> Links(t, a)] /\ F = {r} OBVIOUS
<1>2. Linked(P, L, F) BY <1>1 DEF LinkedBut
<1>3. /\ F \subseteq P
      /\ \A a \in P : L[a] \in Seq(P \ F)
      /\ \A a, b \in P : \A i \in DOMAIN L[a], j \in DOMAIN L[b] : L[a][i] = L[b][j] => a = b /\ i = j
      /\ \A x \in P \ F : \E a \in P : \E i \in DOMAIN L[a] : L[a][i] = x
  BY <1>2 DEF Linked
<1>4. \A a \in P : L[a] = Links(t, a) BY <1>1
<1>5. ASSUME NEW a \in P PROVE ToSet(L[a]) \subseteq P \ F
  <2>1. PICK s, U : s = L[a] /\ U = P \ F OBVIOUS
  <2>2. s \in Seq(U) BY <1>3, <2>1
  <2>3. \A i \in DOMAIN s : s[i] \in U BY <2>2, SequenceIs
  <2>4. QED BY <2>1, <2>3 DEF ToSet
<1>6. ASSUME NEW a \in P PROVE Listing(L[a], ToSet(L[a]))
  <2>1. PICK s, U : s = L[a] /\ U = P \ F OBVIOUS
  <2>2. s \in Seq(U) BY <1>3, <2>1
  <2>3. PICK V : V = ToSet(s) OBVIOUS
  <2>4. \A i \in 1 .. Len(s) : s[i] \in V BY <2>2, <2>3, SequenceIs DEF ToSet
  <2>5. s \in Seq(V) BY <2>2, <2>4, Within
  <2>6. Distinct(s) BY <1>3, <2>1 DEF Distinct
  <2>7. QED BY <2>1, <2>3, <2>5, <2>6 DEF Listing
<1>7. \A a \in P : OutOf(t, {a}) = ToSet(L[a]) BY <1>4 DEF OutOf
<1>8. OutOf(t, P) = P \ F
  <2>1. OutOf(t, P) = UNION {ToSet(L[a]) : a \in P} BY <1>4 DEF OutOf
  <2>2. ASSUME NEW x \in P \ F PROVE \E a \in P : x \in ToSet(L[a]) BY <1>3, <2>2 DEF ToSet
  <2>3. QED BY <1>5, <2>1, <2>2
<1>9. ASSUME NEW a \in P, NEW b \in P, a # b PROVE ToSet(L[a]) \cap ToSet(L[b]) = {}
  BY <1>3, <1>9 DEF ToSet
<1>10. QED BY <1>1, <1>3, <1>4, <1>6, <1>7, <1>8, <1>9

LEMMA OutApart ==
  ASSUME NEW t, NEW r, LinkedBut(t, {r}), NEW D, NEW E, D \subseteq Places(t), E \subseteq Places(t),
         D \cap E = {}
  PROVE  OutOf(t, D) \cap OutOf(t, E) = {} /\ OutOf(t, D) \cap {r} = {}
<1>1. /\ OutOf(t, Places(t)) = Places(t) \ {r}
      /\ \A a, b \in Places(t) : a # b => ToSet(Links(t, a)) \cap ToSet(Links(t, b)) = {}
  BY OnceFrom
<1>2. ASSUME NEW x \in OutOf(t, D), x \in OutOf(t, E) PROVE FALSE
  <2>1. PICK a \in D : x \in ToSet(Links(t, a)) BY DEF OutOf
  <2>2. PICK b \in E : x \in ToSet(Links(t, b)) BY <1>2 DEF OutOf
  <2>3. a # b /\ a \in Places(t) /\ b \in Places(t) OBVIOUS
  <2>4. QED BY <1>1, <2>1, <2>2, <2>3
<1>3. OutOf(t, D) \subseteq OutOf(t, Places(t)) BY DEF OutOf
<1>4. QED BY <1>1, <1>2, <1>3

\* The ids in one column
OfType(t, y) == {a \in Places(t) : a.table_type = y}

LEMMA ColumnLists ==
  ASSUME NEW t, NEW r, LinkedBut(t, {r}), t \in Tables(Cells), NEW y \in {"pass", "infix"}
  PROVE  Listing(Column(t[y], "id"), OutOf(t, OfType(t, y)))
<1>1. PICK s, n, q, D, X : /\ s = t[y] /\ n = Len(s) /\ q = Column(s, "id") /\ D = OfType(t, y)
                           /\ X = OutOf(t, D)
  OBVIOUS
<1>2. y \in Plain /\ y # "choice" BY DEF Plain
<1>3. PICK R : s \in Seq(R) BY <1>1, <1>2, RowsOfAre
<1>4. n \in Nat /\ DOMAIN s = 1 .. n BY <1>1, <1>3, SequenceIs
<1>5. q = [i \in 1 .. n |-> s[i].id]
  <2>1. PICK field : field = "id" OBVIOUS
  <2>2. q = [i \in DOMAIN s |-> s[i][field]] BY <1>1, <2>1 DEF Column
  <2>3. QED BY <1>4, <2>1, <2>2
<1>6. D = {a \in Address : a.table_type = y /\ a.row_i < (IF a.table_i = 0 THEN n ELSE 0)}
  BY <1>1, <1>2 DEF OfType, Places, Height
<1>7. ASSUME NEW i \in 1 .. n
      PROVE  \E a \in D : a.row_i = i - 1 /\ a.table_i = 0 /\ Links(t, a) = <<s[i].id>>
  <2>1. PICK j, a : j = i - 1 /\ a = [table_type |-> y, table_i |-> 0, row_i |-> j] OBVIOUS
  <2>2. j \in Nat /\ j < n /\ j + 1 = i BY <1>4, <2>1
  <2>3. a \in D BY <1>2, <1>6, <2>1, <2>2 DEF Address
  <2>4. a.table_type = y /\ a.row_i = j BY <2>1
  <2>5. RowAt(t, a) = s[i] BY <1>1, <1>2, <2>2, <2>4 DEF RowAt
  <2>6. Links(t, a) = <<RowAt(t, a).id>> BY <2>4 DEF Links
  <2>7. QED BY <2>1, <2>3, <2>5, <2>6
<1>8. ASSUME NEW a \in D PROVE \E i \in 1 .. n : Links(t, a) = <<s[i].id>>
  <2>1. /\ a.table_type = y /\ a.row_i \in Nat /\ a.row_i < n
    <3>1. a \in Address /\ a.table_type = y /\ a.row_i < (IF a.table_i = 0 THEN n ELSE 0) BY <1>6
    <3>2. a.row_i \in Nat /\ a.table_i \in Nat BY <3>1 DEF Address
    <3>3. QED BY <3>1, <3>2
  <2>2. PICK i : i = a.row_i + 1 OBVIOUS
  <2>3. i \in 1 .. n BY <1>4, <2>1, <2>2
  <2>4. RowAt(t, a) = s[i] BY <1>1, <1>2, <2>1, <2>2 DEF RowAt
  <2>5. Links(t, a) = <<RowAt(t, a).id>> BY <2>1 DEF Links
  <2>6. QED BY <2>3, <2>4, <2>5
<1>9. \A x : ToSet(<<x>>) = {x}
  <2>1. SUFFICES ASSUME NEW x PROVE ToSet(<<x>>) = {x} OBVIOUS
  <2>2. DOMAIN <<x>> = {1} /\ <<x>>[1] = x OBVIOUS
  <2>3. QED BY <2>2 DEF ToSet
<1>10. X = {s[i].id : i \in 1 .. n}
  <2>1. ASSUME NEW x \in X PROVE \E i \in 1 .. n : x = s[i].id
    <3>1. PICK a \in D : x \in ToSet(Links(t, a)) BY <1>1, <2>1 DEF OutOf
    <3>2. PICK i \in 1 .. n : Links(t, a) = <<s[i].id>> BY <1>8
    <3>3. QED BY <1>9, <3>1, <3>2
  <2>2. ASSUME NEW i \in 1 .. n PROVE s[i].id \in X
    <3>1. PICK a \in D : Links(t, a) = <<s[i].id>> BY <1>7
    <3>2. s[i].id \in ToSet(Links(t, a)) BY <1>9, <3>1
    <3>3. QED BY <1>1, <3>2 DEF OutOf
  <2>3. QED BY <2>1, <2>2
<1>11. q \in Seq(X) /\ DOMAIN q = 1 .. n /\ ToSet(q) = X
  <2>1. \A i \in 1 .. n : s[i].id \in X BY <1>10
  <2>2. q \in [1 .. n -> X] BY <1>5, <2>1
  <2>3. ToSet(q) = X BY <1>5, <1>10 DEF ToSet
  <2>4. QED BY <1>4, <2>2, <2>3
<1>12. ASSUME NEW i \in 1 .. n, NEW j \in 1 .. n, q[i] = q[j] PROVE i = j
  <2>1. PICK a \in D : a.row_i = i - 1 /\ Links(t, a) = <<s[i].id>> BY <1>7
  <2>2. PICK b \in D : b.row_i = j - 1 /\ Links(t, b) = <<s[j].id>> BY <1>7
  <2>3. s[i].id = s[j].id BY <1>5, <1>12
  <2>4. s[i].id \in ToSet(Links(t, a)) \cap ToSet(Links(t, b)) BY <1>9, <2>1, <2>2, <2>3
  <2>5. a \in Places(t) /\ b \in Places(t) BY <1>1 DEF OfType
  <2>6. a = b BY <2>4, <2>5, OnceFrom
  <2>7. QED BY <2>1, <2>2, <2>6
<1>13. QED BY <1>1, <1>11, <1>12 DEF Listing, Distinct

\* The ids in the rows of choice tables
OfTable(t, c) == {a \in Places(t) : a.table_type = "choice" /\ a.table_i = c - 1}

LEMMA TableLists ==
  ASSUME NEW t, NEW r, LinkedBut(t, {r}), t \in Tables(Cells), NEW c \in DOMAIN t.choice
  PROVE  Listing(FlattenSeq(t.choice[c].rows), OutOf(t, OfTable(t, c)))
<1>1. PICK choice, rows, n : choice = t.choice /\ rows = choice[c].rows /\ n = Len(rows) OBVIOUS
<1>2. choice \in Seq(ChoiceTables(Cells)) BY <1>1 DEF Tables
<1>3. rows \in Seq(Seq(Cells))
  <2>1. PICK x, C : x = choice[c] /\ C = ChoiceTables(Cells) OBVIOUS
  <2>2. x \in C BY <1>1, <1>2, <2>1, SequenceIs
  <2>3. x.rows \in Seq(Seq(Cells)) BY <2>1, <2>2 DEF ChoiceTables
  <2>4. QED BY <1>1, <2>1, <2>3
<1>4. n \in Nat /\ DOMAIN rows = 1 .. n BY <1>1, <1>3, SequenceIs
<1>5. c \in Nat /\ c >= 1 /\ c <= Len(choice) /\ Len(choice) \in Nat BY <1>1, <1>2, SequenceIs
<1>6. PICK d : d = c - 1 OBVIOUS
<1>7. d \in Nat /\ d < Len(choice) /\ d + 1 = c BY <1>5, <1>6
<1> DEFINE Place(k) == [table_type |-> "choice", table_i |-> d, row_i |-> k - 1]
<1>8. ASSUME NEW k \in 1 .. n
      PROVE  Place(k) \in OfTable(t, c) /\ Links(t, Place(k)) = rows[k] /\ Place(k) \in Places(t)
  <2>1. PICK a, j : a = Place(k) /\ j = k - 1 OBVIOUS
  <2>2. j \in Nat /\ j < n /\ j + 1 = k BY <1>4, <2>1
  <2>3. a = [table_type |-> "choice", table_i |-> d, row_i |-> j] BY <2>1
  <2>4. a \in Address /\ a.table_type = "choice" /\ a.table_i = d /\ a.row_i = j BY <1>7, <2>2, <2>3 DEF Address
  <2>5. Height(t, a.table_type, a.table_i) = n BY <1>1, <1>7, <2>4 DEF Height
  <2>6. a \in Places(t) BY <2>2, <2>4, <2>5 DEF Places
  <2>7. a \in OfTable(t, c) BY <1>6, <2>4, <2>6 DEF OfTable
  <2>8. RowAt(t, a) = rows[k] BY <1>1, <1>7, <2>2, <2>4 DEF RowAt
  <2>9. Links(t, a) = rows[k] BY <2>4, <2>8 DEF Links
  <2>10. QED BY <2>1, <2>6, <2>7, <2>9
<1>9. ASSUME NEW a \in OfTable(t, c) PROVE \E k \in 1 .. n : a = Place(k)
  <2>1. a \in Address /\ a.table_type = "choice" /\ a.table_i = d
        /\ a.row_i < Height(t, a.table_type, a.table_i)
    BY <1>6 DEF OfTable, Places
  <2>2. a.row_i \in Nat BY <2>1 DEF Address
  <2>3. Height(t, a.table_type, a.table_i) = n BY <1>1, <1>7, <2>1 DEF Height
  <2>4. PICK k : k = a.row_i + 1 OBVIOUS
  <2>5. k \in 1 .. n /\ a.row_i = k - 1 BY <1>4, <2>1, <2>2, <2>3, <2>4
  <2>6. a = [table_type |-> a.table_type, table_i |-> a.table_i, row_i |-> a.row_i] BY <2>1 DEF Address
  <2>7. a = Place(k) BY <2>1, <2>5, <2>6
  <2>8. QED BY <2>5, <2>7
<1>10. \A k, l \in 1 .. n : k # l => Place(k) # Place(l)
  <2>1. SUFFICES ASSUME NEW k \in 1 .. n, NEW l \in 1 .. n, Place(k) = Place(l) PROVE k = l OBVIOUS
  <2>2. Place(k).row_i = Place(l).row_i BY <2>1
  <2>3. k - 1 = l - 1 BY <2>2
  <2>4. QED BY <1>4, <2>3
<1> HIDE DEF Place
<1>11. PICK X : X = [k \in 1 .. n |-> OutOf(t, {Place(k)})] OBVIOUS
<1>12. Lists(rows, X)
  <2>1. ASSUME NEW k \in 1 .. n PROVE Listing(rows[k], X[k])
    <3>1. Listing(Links(t, Place(k)), OutOf(t, {Place(k)})) BY <1>8, OnceFrom
    <3>2. QED BY <1>8, <1>11, <3>1
  <2>2. ASSUME NEW k \in 1 .. n, NEW l \in 1 .. n, k # l PROVE X[k] \cap X[l] = {}
    <3>1. PICK D, E : D = {Place(k)} /\ E = {Place(l)} OBVIOUS
    <3>2. D \subseteq Places(t) /\ E \subseteq Places(t) /\ D \cap E = {} BY <1>8, <1>10, <2>2, <3>1
    <3>3. OutOf(t, D) \cap OutOf(t, E) = {} BY <3>2, OutApart
    <3>4. QED BY <1>11, <3>1, <3>3
  <2>3. QED BY <1>4, <2>1, <2>2 DEF Lists
<1>13. UNION {X[k] : k \in DOMAIN rows} = OutOf(t, OfTable(t, c))
  <2>1. \A k \in 1 .. n : X[k] = ToSet(Links(t, Place(k))) BY <1>11 DEF OutOf
  <2>2. ASSUME NEW x \in OutOf(t, OfTable(t, c)) PROVE \E k \in 1 .. n : x \in X[k]
    <3>1. PICK a \in OfTable(t, c) : x \in ToSet(Links(t, a)) BY DEF OutOf
    <3>2. PICK k \in 1 .. n : a = Place(k) BY <1>9
    <3>3. QED BY <2>1, <3>1, <3>2
  <2>3. ASSUME NEW k \in 1 .. n, NEW x \in X[k] PROVE x \in OutOf(t, OfTable(t, c))
    BY <1>8, <2>1 DEF OutOf
  <2>4. QED BY <1>4, <2>2, <2>3
<1>14. Listing(FlattenSeq(rows), UNION {X[k] : k \in DOMAIN rows}) BY <1>3, <1>12, ListingFlat
<1>15. QED BY <1>1, <1>13, <1>14

LEMMA ChoiceLists ==
  ASSUME NEW t, NEW r, LinkedBut(t, {r}), t \in Tables(Cells)
  PROVE  Listing(FlattenSeq([c \in DOMAIN t.choice |-> FlattenSeq(t.choice[c].rows)]),
                 OutOf(t, OfType(t, "choice")))
<1>1. PICK choice, n, S, parts, X :
        /\ choice = t.choice /\ n = Len(choice) /\ S = Places(t)
        /\ parts = [c \in DOMAIN choice |-> FlattenSeq(choice[c].rows)]
        /\ X = [c \in DOMAIN choice |-> OutOf(t, OfTable(t, c))]
  OBVIOUS
<1>2. choice \in Seq(ChoiceTables(Cells)) BY <1>1 DEF Tables
<1>3. n \in Nat /\ DOMAIN choice = 1 .. n BY <1>1, <1>2, SequenceIs
<1>4. \A c \in 1 .. n : Listing(parts[c], X[c]) BY <1>1, <1>3, TableLists
<1>5. OutOf(t, S) \subseteq S BY <1>1, OnceFrom
<1>6. \A c \in 1 .. n : OfTable(t, c) \subseteq S /\ X[c] \subseteq S
  <2>1. \A c \in 1 .. n : OfTable(t, c) \subseteq S BY <1>1 DEF OfTable
  <2>2. \A c \in 1 .. n : OutOf(t, OfTable(t, c)) \subseteq OutOf(t, S) BY <2>1 DEF OutOf
  <2>3. QED BY <1>1, <1>3, <1>5, <2>1, <2>2
<1>7. parts \in Seq(Seq(S))
  <2>1. ASSUME NEW c \in 1 .. n PROVE parts[c] \in Seq(S)
    <3>1. PICK p, Y : p = parts[c] /\ Y = X[c] OBVIOUS
    <3>2. p \in Seq(Y) /\ Y \subseteq S BY <1>4, <1>6, <3>1 DEF Listing
    <3>3. QED BY <3>1, <3>2
  <2>2. PICK SS : SS = Seq(S) OBVIOUS
  <2>3. parts \in [1 .. n -> SS] BY <1>1, <1>3, <2>1, <2>2
  <2>4. QED BY <1>3, <2>2, <2>3
<1>8. DOMAIN parts = 1 .. n BY <1>1, <1>3
<1>9. ASSUME NEW c \in 1 .. n, NEW d \in 1 .. n, c # d PROVE X[c] \cap X[d] = {}
  <2>1. OfTable(t, c) \cap OfTable(t, d) = {}
    <3>1. c - 1 # d - 1 BY <1>3, <1>9
    <3>2. QED BY <3>1 DEF OfTable
  <2>2. OutOf(t, OfTable(t, c)) \cap OutOf(t, OfTable(t, d)) = {} BY <1>1, <1>6, <2>1, OutApart
  <2>3. QED BY <1>1, <1>3, <2>2
<1>10. Lists(parts, X) BY <1>4, <1>8, <1>9 DEF Lists
<1>11. UNION {X[c] : c \in DOMAIN parts} = OutOf(t, OfType(t, "choice"))
  <2>1. ASSUME NEW x \in OutOf(t, OfType(t, "choice")) PROVE \E c \in 1 .. n : x \in X[c]
    <3>1. PICK a \in OfType(t, "choice") : x \in ToSet(Links(t, a)) BY DEF OutOf
    <3>2. /\ a \in Address /\ a.table_type = "choice" /\ a \in Places(t)
          /\ a.row_i < Height(t, "choice", a.table_i)
      BY DEF OfType, Places
    <3>3. a.table_i \in Nat /\ a.row_i \in Nat BY <3>2 DEF Address
    <3>4. a.table_i < n
      <4>1. SUFFICES ASSUME ~(a.table_i < n) PROVE FALSE OBVIOUS
      <4>2. Height(t, "choice", a.table_i) = 0 BY <1>1, <4>1 DEF Height
      <4>3. QED BY <3>2, <3>3, <4>2
    <3>5. PICK c : c = a.table_i + 1 OBVIOUS
    <3>6. c \in 1 .. n /\ a.table_i = c - 1 BY <1>3, <3>3, <3>4, <3>5
    <3>7. a \in OfTable(t, c) BY <3>2, <3>6 DEF OfTable
    <3>8. x \in OutOf(t, OfTable(t, c)) BY <3>1, <3>7 DEF OutOf
    <3>9. QED BY <1>1, <1>3, <3>6, <3>8
  <2>2. ASSUME NEW c \in 1 .. n, NEW x \in X[c] PROVE x \in OutOf(t, OfType(t, "choice"))
    <3>1. X[c] = OutOf(t, OfTable(t, c)) BY <1>1, <1>3
    <3>2. OfTable(t, c) \subseteq OfType(t, "choice") BY DEF OfTable, OfType
    <3>3. QED BY <3>1, <3>2 DEF OutOf
  <2>3. QED BY <1>8, <2>1, <2>2
<1>12. Listing(FlattenSeq(parts), UNION {X[c] : c \in DOMAIN parts}) BY <1>7, <1>10, ListingFlat
<1>13. QED BY <1>1, <1>11, <1>12

LEMMA AllIdsAre == ASSUME NEW t, Shapely(t) PROVE AllIds(t) = Places(t)
<1>1. t \in Tables(Cells) /\ \A i \in DOMAIN t.choice : Len(t.choice[i].rows) \in 1 .. MaxDepth
  BY DEF Shapely
<1>2. PICK choice, n : choice = t.choice /\ n = Len(choice) OBVIOUS
<1>3. choice \in Seq(ChoiceTables(Cells)) BY <1>1, <1>2 DEF Tables
<1>4. n \in Nat /\ DOMAIN choice = 1 .. n BY <1>2, <1>3, SequenceIs
<1>5. ASSUME NEW y \in Plain
      PROVE  Len(t[y]) \in Nat /\ DOMAIN t[y] = 1 .. Len(t[y]) /\ y # "choice"
  <2>1. PICK V, s : s = t[y] /\ s \in Seq(V) BY <1>1, RowsOfAre
  <2>2. QED BY <2>1, SequenceIs DEF Plain
<1>6. ASSUME NEW c \in 1 .. n
      PROVE  /\ Len(choice[c].rows) \in 1 .. Byte /\ Byte \in Int
             /\ DOMAIN choice[c].rows = 1 .. Len(choice[c].rows)
  <2>1. Len(choice[c].rows) \in 1 .. MaxDepth BY <1>1, <1>2, <1>4
  <2>2. MaxDepth \in 1 .. Byte /\ Byte \in Int BY MaxDepthAssumption, LettersAre
  <2>3. PICK x, C : x = choice[c] /\ C = ChoiceTables(Cells) OBVIOUS
  <2>4. x \in C BY <1>2, <1>3, <1>4, <2>3, SequenceIs
  <2>5. x.rows \in Seq(Seq(Cells)) BY <2>3, <2>4 DEF ChoiceTables
  <2>6. DOMAIN x.rows = 1 .. Len(x.rows) BY <2>5, SequenceIs
  <2>7. QED BY <2>1, <2>2, <2>3, <2>6
<1>7. ASSUME NEW a \in AllIds(t) PROVE a \in Places(t)
  <2>1. CASE \E y \in Plain : \E i \in DOMAIN t[y] : a = Id(y, 0, i - 1)
    <3>1. PICK y \in Plain : \E i \in DOMAIN t[y] : a = Id(y, 0, i - 1) BY <2>1
    <3>2. PICK i \in DOMAIN t[y] : a = Id(y, 0, i - 1) BY <3>1
    <3>3. PICK j : j = i - 1 OBVIOUS
    <3>4. y # "choice" /\ j \in Nat /\ j < Len(t[y]) BY <1>5, <3>3
    <3>5. a = [table_type |-> y, table_i |-> 0, row_i |-> j] BY <3>2, <3>3, <3>4 DEF Id
    <3>6. a \in Address /\ a.table_type = y /\ a.table_i = 0 /\ a.row_i = j BY <3>4, <3>5 DEF Address
    <3>7. QED BY <3>4, <3>6 DEF Places, Height
  <2>2. CASE \E c \in 1 .. n : \E i \in DOMAIN choice[c].rows : a = Id("choice", c - 1, i - 1)
    <3>1. PICK c \in 1 .. n : \E i \in DOMAIN choice[c].rows : a = Id("choice", c - 1, i - 1) BY <2>2
    <3>2. PICK i \in DOMAIN choice[c].rows : a = Id("choice", c - 1, i - 1) BY <3>1
    <3>3. PICK j, d, l : j = i - 1 /\ d = c - 1 /\ l = Len(choice[c].rows) OBVIOUS
    <3>4. /\ j \in Nat /\ d \in Nat /\ d < n /\ d + 1 = c
      BY <1>4, <1>6, <3>3
    <3>5. l \in 1 .. Byte /\ Byte \in Int /\ j < l BY <1>6, <3>3
    <3>6. j % Byte = j BY <3>4, <3>5
    <3>7. a = [table_type |-> "choice", table_i |-> d, row_i |-> j] BY <3>2, <3>3, <3>6 DEF Id
    <3>8. a \in Address /\ a.table_type = "choice" /\ a.table_i = d /\ a.row_i = j
      BY <3>4, <3>7 DEF Address
    <3>9. Height(t, "choice", d) = l BY <1>2, <3>3, <3>4 DEF Height
    <3>10. QED BY <3>5, <3>8, <3>9 DEF Places
  <2>3. QED BY <1>2, <1>4, <1>7, <2>1, <2>2 DEF AllIds, Plain
<1>8. ASSUME NEW a \in Places(t) PROVE a \in AllIds(t)
  <2>1. /\ a \in Address /\ a.row_i < Height(t, a.table_type, a.table_i)
        /\ a.table_type \in Plain \cup {"choice"} /\ a.table_i \in Nat /\ a.row_i \in Nat
        /\ a = [table_type |-> a.table_type, table_i |-> a.table_i, row_i |-> a.row_i]
    BY DEF Places, Address
  <2>2. PICK y, d, j : y = a.table_type /\ d = a.table_i /\ j = a.row_i OBVIOUS
  <2>3. /\ j < Height(t, y, d) /\ d \in Nat /\ j \in Nat /\ y \in Plain \cup {"choice"}
        /\ a = [table_type |-> y, table_i |-> d, row_i |-> j]
    BY <2>1, <2>2
  <2>4. PICK i : i = j + 1 OBVIOUS
  <2>5. i - 1 = j BY <2>3, <2>4
  <2>6. CASE y \in Plain
    <3>1. y # "choice" /\ DOMAIN t[y] = 1 .. Len(t[y]) /\ Len(t[y]) \in Nat BY <1>5, <2>6
    <3>2. Height(t, y, d) = (IF d = 0 THEN Len(t[y]) ELSE 0) BY <3>1 DEF Height
    <3>3. d = 0 /\ j < Len(t[y]) BY <2>3, <3>2
    <3>4. i \in DOMAIN t[y] BY <2>3, <2>4, <3>1, <3>3
    <3>5. a = Id(y, 0, i - 1) BY <2>3, <2>5, <3>1, <3>3 DEF Id
    <3>6. a \in {Id(y, 0, k - 1) : k \in DOMAIN t[y]} BY <3>4, <3>5
    <3>7. QED BY <2>6, <3>6 DEF AllIds, Plain
  <2>7. CASE y = "choice"
    <3>1. Height(t, y, d) = (IF d < n THEN Len(choice[d + 1].rows) ELSE 0) BY <1>2, <2>7 DEF Height
    <3>2. d < n BY <2>3, <3>1
    <3>3. PICK c : c = d + 1 OBVIOUS
    <3>4. c \in 1 .. n /\ c - 1 = d BY <1>4, <2>3, <3>2, <3>3
    <3>5. PICK l : l = Len(choice[c].rows) OBVIOUS
    <3>6. j < l /\ l \in 1 .. Byte /\ Byte \in Int /\ DOMAIN choice[c].rows = 1 .. l
      BY <1>6, <2>3, <3>1, <3>2, <3>3, <3>4, <3>5
    <3>7. i \in DOMAIN choice[c].rows /\ j % Byte = j
      <4>1. l \in Int /\ l <= Byte /\ i \in 1 .. l BY <2>3, <2>4, <3>6
      <4>2. j \in Nat /\ Byte \in Int /\ j < Byte BY <2>3, <3>6, <4>1
      <4>3. j % Byte = j BY ONLY <4>2
      <4>4. QED BY <3>6, <4>1, <4>3
    <3>8. a = Id("choice", c - 1, i - 1) BY <2>3, <2>5, <2>7, <3>4, <3>7 DEF Id
    <3>9. PICK A : A = {Id("choice", c - 1, k - 1) : k \in DOMAIN choice[c].rows} OBVIOUS
    <3>10. a \in A BY <3>7, <3>8, <3>9
    <3>11. A \subseteq AllIds(t) BY <1>2, <1>4, <3>4, <3>9 DEF AllIds
    <3>12. QED BY <3>10, <3>11
  <2>8. QED BY <2>3, <2>6, <2>7
<1>9. QED BY <1>7, <1>8

\* All places but the root's are led to by an id in a table.
PointersOf(t) ==
  <<t.root_id>> \o Column(t.pass, "id") \o Column(t.infix, "id")
    \o FlattenSeq([c \in DOMAIN t.choice |-> FlattenSeq(t.choice[c].rows)])

LEMMA PointersList == ASSUME NEW t, Whole(t) PROVE Listing(PointersOf(t), Places(t))
<1>1. PICK r : r = t.root_id OBVIOUS
<1>2. Shapely(t) /\ LinkedBut(t, {r}) /\ t \in Tables(Cells) BY <1>1 DEF Whole, Shapely
<1>3. PICK sp, si, sc, xp, xi, xc :
        /\ sp = Column(t.pass, "id") /\ si = Column(t.infix, "id")
        /\ sc = FlattenSeq([c \in DOMAIN t.choice |-> FlattenSeq(t.choice[c].rows)])
        /\ xp = OutOf(t, OfType(t, "pass")) /\ xi = OutOf(t, OfType(t, "infix"))
        /\ xc = OutOf(t, OfType(t, "choice"))
  OBVIOUS
<1>4. Listing(sc, xc) BY <1>2, <1>3, ChoiceLists
<1>5. Listing(sp, xp) /\ Listing(si, xi)
  <2>1. Listing(Column(t["pass"], "id"), OutOf(t, OfType(t, "pass"))) BY <1>2, ColumnLists
  <2>2. Listing(Column(t["infix"], "id"), OutOf(t, OfType(t, "infix"))) BY <1>2, ColumnLists
  <2>3. QED BY <1>3, <2>1, <2>2
<1>6. Listing(<<r>>, {r})
  <2>1. DOMAIN <<r>> = {1} /\ <<r>>[1] = r /\ <<r>> \in Seq({r}) OBVIOUS
  <2>2. QED BY <2>1 DEF Listing, Distinct, ToSet
<1>7. /\ xp \cap xi = {} /\ xp \cap xc = {} /\ xi \cap xc = {}
      /\ xp \cap {r} = {} /\ xi \cap {r} = {} /\ xc \cap {r} = {}
  <2>1. PICK P, I, C : P = OfType(t, "pass") /\ I = OfType(t, "infix") /\ C = OfType(t, "choice") OBVIOUS
  <2>2. /\ P \subseteq Places(t) /\ I \subseteq Places(t) /\ C \subseteq Places(t)
        /\ P \cap I = {} /\ P \cap C = {} /\ I \cap C = {} /\ C \cap P = {}
    BY <2>1 DEF OfType
  <2>3. /\ OutOf(t, P) \cap OutOf(t, I) = {} /\ OutOf(t, P) \cap {r} = {} BY <1>2, <2>2, OutApart
  <2>4. /\ OutOf(t, I) \cap OutOf(t, C) = {} /\ OutOf(t, I) \cap {r} = {} BY <1>2, <2>2, OutApart
  <2>5. /\ OutOf(t, C) \cap OutOf(t, P) = {} /\ OutOf(t, C) \cap {r} = {} BY <1>2, <2>2, OutApart
  <2>6. QED BY <1>3, <2>1, <2>3, <2>4, <2>5
<1>8. Listing(<<r>> \o sp, {r} \cup xp) BY <1>5, <1>6, <1>7, ListingJoins
<1>9. Listing((<<r>> \o sp) \o si, ({r} \cup xp) \cup xi)
  <2>1. ({r} \cup xp) \cap xi = {} BY <1>7
  <2>2. QED BY <1>5, <1>8, <2>1, ListingJoins
<1>10. Listing(((<<r>> \o sp) \o si) \o sc, (({r} \cup xp) \cup xi) \cup xc)
  <2>1. (({r} \cup xp) \cup xi) \cap xc = {} BY <1>7
  <2>2. QED BY <1>4, <1>9, <2>1, ListingJoins
<1>11. PointersOf(t) = ((<<r>> \o sp) \o si) \o sc BY <1>1, <1>3 DEF PointersOf
<1>12. (({r} \cup xp) \cup xi) \cup xc = Places(t)
  <2>1. r \in Places(t) /\ OutOf(t, Places(t)) = Places(t) \ {r} BY <1>2, OnceFrom
  <2>2. OutOf(t, Places(t)) = (xp \cup xi) \cup xc
    <3>1. \A a \in Places(t) : a.table_type \in {"pass", "infix", "choice", "term", "suffix"}
      BY DEF Places, Address, Plain
    <3>2. \A a \in Places(t) : a.table_type \in {"term", "suffix"} => Links(t, a) = <<>> BY DEF Links
    <3>3. \A a \in Places(t) : a.table_type \in {"term", "suffix"} => ToSet(Links(t, a)) = {}
      BY <3>2 DEF ToSet
    <3>4. ASSUME NEW a \in Places(t), NEW x \in ToSet(Links(t, a)) PROVE x \in (xp \cup xi) \cup xc
      <4>1. a.table_type \in {"pass", "infix", "choice"} BY <3>1, <3>3
      <4>2. QED BY <1>3, <4>1 DEF OutOf, OfType
    <3>5. xp \subseteq OutOf(t, Places(t)) /\ xi \subseteq OutOf(t, Places(t)) /\ xc \subseteq OutOf(t, Places(t))
      BY <1>3 DEF OutOf, OfType
    <3>6. OutOf(t, Places(t)) \subseteq (xp \cup xi) \cup xc BY <3>4 DEF OutOf
    <3>7. QED BY <3>5, <3>6
  <2>3. QED BY <2>1, <2>2
<1>13. QED BY <1>10, <1>11, <1>12

LEMMA TInvIsOnce == TInv => RowsOnce
<1>1. SUFFICES ASSUME TInv, InTables
               PROVE  ToSet(Pointers) = AllIds(tt) /\ Len(Pointers) = Cardinality(ToSet(Pointers))
  BY DEF RowsOnce
<1>2. Whole(tt)
  <2>1. Root \in DOMAIN ids /\ state # "CLOSED" BY <1>1 DEF InTables
  <2>2. QED BY <1>1, <2>1 DEF TInv
<1>3. Pointers = PointersOf(tt) BY DEF Pointers, PointersOf
<1>4. Listing(Pointers, Places(tt)) BY <1>2, <1>3, PointersList
<1>5. ToSet(Pointers) = Places(tt) BY <1>4 DEF Listing
<1>6. Len(Pointers) = Cardinality(Places(tt)) BY <1>4, ListingLen
<1>7. AllIds(tt) = Places(tt) BY <1>2, AllIdsAre DEF Whole
<1>8. QED BY <1>5, <1>6, <1>7

\* ttrie.c:1491-1548: rows are shared by tables but not by nodes. Every row of every
\* table, in memory or read back, is where exactly one id leads.
THEOREM RowsLedToOnce == TSpec => []RowsOnce
<1>1. TInv => RowsOnce BY TInvIsOnce
<1>2. QED BY <1>1, TablesInvariantHolds, PTL

-----------------------------------------------------------------------------
(***************************************************************************)
(* Keys, stacks and the closing of the radix trie                          *)
(***************************************************************************)

StackFrame == [stack_child_index : Int, node : Seq(Letters)]

\* rtrie.c:257-323: the stack of a walk leads from the root to where it is: each frame but
\* the last is at the child where the next frame is.
Stacked(ns, st) ==
  /\ st \in Seq(StackFrame) /\ (Len(st) > 0 => st[1].node = Root)
  /\ \A i \in 1 .. Len(st) :
       /\ st[i].node \in DOMAIN ns
       /\ st[i].stack_child_index \in -1 .. Len(ns[st[i].node].keys) - 1
  /\ \A i \in 1 .. Len(st) - 1 :
       /\ st[i].stack_child_index >= 0
       /\ st[i + 1].node = Append(st[i].node, ns[st[i].node].keys[st[i].stack_child_index + 1])
  /\ \A i \in 1 .. Len(st) :
       /\ Len(st[i].node) = i - 1
       /\ \A j \in 1 .. i - 1 : st[i].node[j] = ns[st[j].node].keys[st[j].stack_child_index + 1]

\* The letters of a node, and those of its suffix
LabelOf(ns, n) == n \o ns[n].suffix

\* What a node spells is a key where it has a suffix or a value, and the value is the key's.
Keyed(ns) ==
  \A n \in DOMAIN ns :
    /\ ns[n].suffix # <<>> => LabelOf(ns, n) \in Keys
    /\ ns[n].has_value => LabelOf(ns, n) \in Keys /\ ns[n].result = Buffer(LabelOf(ns, n))

\* rtrie__add is at the node of the letters it has read of its key.
AddingAt ==
  /\ adding \in [key : Keys, at : Nat, node : DOMAIN nodes] /\ adding.at <= Len(adding.key)
  /\ adding.node = SubSeq(adding.key, 1, adding.at)

\* Close has freed the children a frame has walked: the one below is not among them, but
\* at the top; what is left of them has no children.
Walked(st, i) == IF i = Len(st) THEN st[i].stack_child_index + 1 ELSE st[i].stack_child_index

EmptyBehind(ns, st) ==
  \A i \in 1 .. Len(st) : \A j \in 1 .. Walked(st, i) :
    ns[Append(st[i].node, ns[st[i].node].keys[j])].keys = <<>>

\* The invariant: what is between calls, what rtrie__add has found, the stack, and what
\* closing leaves.
KTypes == /\ call \in {"none", "add", "added", "between", "next", "close", "closed", "crashed"}
          /\ side \in {"L", "R"} /\ len \in 0 .. MaxKeys /\ given \in Keys \cup {None}

KAdding ==
  /\ InAdd => len < MaxKeys /\ AddingAt
  /\ call = "crashed" => adding = NotAdding \/ AddingAt
  /\ call \notin {"add", "added", "crashed"} => adding = NotAdding
  /\ call = "added" => LabelOf(nodes, n1) = adding.key

KNodes ==
  /\ call # "closed" => Tree(nodes) /\ Keyed(nodes) /\ Stacked(nodes, stack)
  /\ call = "closed" => DOMAIN nodes = {}
  /\ call \in {"none", "add", "added", "closed"} => stack = <<>>

KClosing ==
  call = "close" => /\ EmptyBehind(nodes, stack)
                    /\ stack = <<>> /\ side = "R" => nodes[Root].keys = <<>>

KInv == KTypes /\ KAdding /\ KNodes /\ KClosing

LEMMA KeyIs ==
  ASSUME NEW k \in Keys
  PROVE  k \in Seq(Letters) /\ Len(k) \in Nat /\ Len(k) < Byte
BY KeysAssumption, SequenceIs DEF Letters

LEMMA StackEmpty == ASSUME NEW ns PROVE Stacked(ns, <<>>) /\ EmptyBehind(ns, <<>>)
<1>1. <<>> \in Seq(StackFrame) /\ Len(<<>>) = 0 OBVIOUS
<1>2. 1 .. 0 = {} /\ 1 .. 0 - 1 = {} OBVIOUS
<1>3. QED BY <1>1, <1>2 DEF Stacked, EmptyBehind

\* What is new in nodes that differ from others in what a step of an add changes
LEMMA KeyedChanges ==
  ASSUME NEW ns, NEW us, Keyed(ns), NEW C,
         \A m \in DOMAIN us \ C : m \in DOMAIN ns /\ us[m] = ns[m],
         \A m \in C : /\ us[m].suffix # <<>> => LabelOf(us, m) \in Keys
                      /\ us[m].has_value => LabelOf(us, m) \in Keys /\ us[m].result = Buffer(LabelOf(us, m))
  PROVE  Keyed(us)
<1>1. SUFFICES ASSUME NEW m \in DOMAIN us, m \notin C
               PROVE  /\ us[m].suffix # <<>> => LabelOf(us, m) \in Keys
                      /\ us[m].has_value => LabelOf(us, m) \in Keys /\ us[m].result = Buffer(LabelOf(us, m))
  BY DEF Keyed
<1>2. m \in DOMAIN ns /\ us[m] = ns[m] BY <1>1
<1>3. LabelOf(us, m) = LabelOf(ns, m) BY <1>2 DEF LabelOf
<1>4. QED BY <1>2, <1>3 DEF Keyed

LEMMA AddingIs ==
  ASSUME RInv, KInv, InAdd
  PROVE  /\ Open /\ Tree(nodes) /\ Keyed(nodes) /\ stack = <<>> /\ AddingAt /\ n1 = adding.node
         /\ len < MaxKeys /\ len \in Nat /\ MaxKeys \in Nat
         /\ n1 \in DOMAIN nodes /\ n1 \in Seq(Letters) /\ adding.key \in Keys /\ adding.key \in Seq(Letters)
         /\ adding.at \in 0 .. Len(adding.key) /\ Len(adding.key) \in Nat /\ n1 = SubSeq(adding.key, 1, adding.at)
         /\ n1 \o Rest = adding.key
<1>1. call \in {"add", "added"} BY DEF InAdd
<1>2. Tree(nodes) /\ Keyed(nodes) /\ stack = <<>> BY <1>1 DEF KInv, KNodes
<1>3. AddingAt /\ len < MaxKeys /\ len \in 0 .. MaxKeys BY DEF KInv, KAdding, KTypes
<1>4. /\ adding.key \in Keys /\ adding.at \in Nat /\ adding.node \in DOMAIN nodes
      /\ adding.at <= Len(adding.key) /\ adding.node = SubSeq(adding.key, 1, adding.at)
  BY <1>3 DEF AddingAt
<1>5. adding.key \in Seq(Letters) /\ Len(adding.key) \in Nat BY <1>4, KeyIs
<1>6. adding.at \in 0 .. Len(adding.key) BY <1>4, <1>5
<1>7. n1 \in Seq(Letters) BY <1>2, <1>4 DEF Tree, n1
<1>8. n1 \o Rest = adding.key BY <1>4, <1>5, <1>6, SplitAt DEF n1, Rest
<1>9. QED BY <1>1, <1>2, <1>3, <1>4, <1>5, <1>6, <1>7, <1>8, MaxKeysAssumption DEF n1, Open

\* Steps of an add that leave it where it is
LEMMA AddStays ==
  ASSUME KTypes, KAdding, InAdd, adding' = adding, len' = len, given' = given, side' = side, stack' = stack,
         stack = <<>>, Tree(nodes'), Keyed(nodes'), DOMAIN nodes \subseteq DOMAIN nodes',
         call' \in {"add", "added", "crashed"},
         call' = "added" => LabelOf(nodes', adding.node) = adding.key
  PROVE  KInv'
<1>1. AddingAt /\ len < MaxKeys BY DEF KAdding
<1>2. AddingAt'
  <2>1. adding \in [key : Keys, at : Nat, node : DOMAIN nodes'] BY <1>1 DEF AddingAt
  <2>2. QED BY <1>1, <2>1 DEF AddingAt
<1>3. KAdding' BY <1>1, <1>2 DEF KAdding, InAdd, n1, LabelOf
<1>4. KTypes' BY DEF KTypes
<1>5. KNodes'
  <2>1. PICK us : us = nodes' OBVIOUS
  <2>2. Stacked(us, <<>>) BY StackEmpty
  <2>3. Stacked(nodes', stack') BY <2>1, <2>2
  <2>4. QED BY <2>3 DEF KNodes
<1>6. KClosing' BY DEF KClosing
<1>7. QED BY <1>3, <1>4, <1>5, <1>6 DEF KInv

LEMMA KKeepSuffix == ASSUME RInv, RInv', KInv, KeepSuffix PROVE KInv'
<1>1. /\ InAdd /\ call = "add" /\ call' = "added" /\ adding' = adding /\ len' = len
      /\ given' = given /\ side' = side /\ stack' = stack
      /\ ~nodes[n1].has_value
      /\ nodes' = [nodes EXCEPT ![n1].suffix = Rest, ![n1].suffix_len = Len(Rest) % Byte]
  BY DEF KeepSuffix, InLoop, InAdd, Leave, walked
<1>2. /\ Tree(nodes) /\ Keyed(nodes) /\ stack = <<>> /\ n1 \in DOMAIN nodes /\ adding.key \in Keys
      /\ n1 \o Rest = adding.key /\ n1 = adding.node
  BY <1>1, AddingIs
<1>3. Tree(nodes') BY <1>1 DEF RInv, Open
<1>4. PICK rest, left, node : rest = Rest /\ left = Len(Rest) % Byte
                              /\ node = [nodes[n1] EXCEPT !.suffix = rest, !.suffix_len = left]
  OBVIOUS
<1>5. nodes' = [nodes EXCEPT ![n1] = node] BY <1>1, <1>2, <1>4
<1>6. nodes[n1] \in Node BY <1>2, NodeIs
<1>7. node.suffix = rest /\ node.has_value = nodes[n1].has_value BY <1>4, <1>6 DEF Node
<1>8. /\ DOMAIN nodes' = DOMAIN nodes /\ nodes'[n1] = node
      /\ \A m \in DOMAIN nodes : m # n1 => nodes'[m] = nodes[m]
  BY <1>2, <1>5
<1>9. LabelOf(nodes', n1) = adding.key BY <1>2, <1>4, <1>7, <1>8 DEF LabelOf
<1>10. Keyed(nodes')
  <2>1. PICK ns, us, C : ns = nodes /\ us = nodes' /\ C = {n1} OBVIOUS
  <2>2. \A m \in DOMAIN us \ C : m \in DOMAIN ns /\ us[m] = ns[m] BY <1>8, <2>1
  <2>3. LabelOf(us, n1) \in Keys /\ ~us[n1].has_value BY <1>1, <1>2, <1>7, <1>8, <1>9, <2>1
  <2>4. \A m \in C : LabelOf(us, m) \in Keys /\ ~us[m].has_value BY <2>1, <2>3
  <2>5. Keyed(ns) BY <1>2, <2>1
  <2>6. Keyed(us) BY <2>2, <2>4, <2>5, KeyedChanges
  <2>7. QED BY <2>1, <2>6
<1>11. QED BY <1>1, <1>2, <1>3, <1>8, <1>9, <1>10, AddStays DEF KInv

LEMMA KSameSuffix == ASSUME RInv, RInv', KInv, SameSuffix PROVE KInv'
<1>1. /\ InAdd /\ call = "add" /\ call' = "added" /\ adding' = adding /\ len' = len
      /\ given' = given /\ side' = side /\ stack' = stack
      /\ nodes' = nodes /\ Suffix(n1) = Rest
  BY DEF SameSuffix, InLoop, InAdd, Leave, walked
<1>2. /\ Tree(nodes) /\ Keyed(nodes) /\ stack = <<>> /\ n1 \in DOMAIN nodes
      /\ n1 \o Rest = adding.key /\ n1 = adding.node
  BY <1>1, AddingIs
<1>3. nodes[n1].suffix = Rest
  <2>1. nodes[n1].suffix \in Seq(Letters) /\ nodes[n1].suffix_len = Len(nodes[n1].suffix) BY <1>2, NodeIs
  <2>2. QED BY <1>1, <2>1, SubSeqFull DEF Suffix
<1>4. LabelOf(nodes', adding.node) = adding.key BY <1>1, <1>2, <1>3 DEF LabelOf
<1>5. QED BY <1>1, <1>2, <1>4, AddStays DEF KInv

\* A suffix keeps its key below its first letter.
LEMMA KeyedBrokenOut ==
  ASSUME Tree(nodes), Keyed(nodes), NEW n \in DOMAIN nodes, HasSuffix(n), NEW b, b = BrokenOut(n)
  PROVE  /\ Tree(b) /\ Keyed(b) /\ DOMAIN nodes \subseteq DOMAIN b /\ n \in DOMAIN b
         /\ b[n].suffix = <<>>
<1>1. PICK c : Broken(b, n, c) BY TreeBrokenOut
<1>2. PICK s : s = nodes[n].suffix OBVIOUS
<1>3. /\ Tree(b) /\ DOMAIN b = DOMAIN nodes \cup {c} /\ c = Append(n, Head(s)) /\ b[c].suffix = Tail(s)
      /\ b[c].has_value = nodes[n].has_value /\ b[c].result = nodes[n].result
      /\ b[n].has_value = FALSE /\ b[n].suffix = <<>>
      /\ \A m \in DOMAIN nodes : m # n => b[m] = nodes[m]
  BY <1>1, <1>2 DEF Broken
<1>4. n \in Seq(Letters) /\ s \in Seq(Letters) BY <1>2, NodeIs
<1>5. s # <<>> BY <1>2 DEF HasSuffix
<1>6. LabelOf(b, c) = LabelOf(nodes, n)
  <2>1. Append(n, Head(s)) \o Tail(s) = n \o s BY <1>4, <1>5, HeadMoves
  <2>2. QED BY <1>2, <1>3, <2>1 DEF LabelOf
<1>7. /\ LabelOf(nodes, n) \in Keys
      /\ nodes[n].has_value => nodes[n].result = Buffer(LabelOf(nodes, n))
  BY <1>2, <1>5 DEF Keyed
<1>8. Keyed(b)
  <2>1. PICK C : C = {n, c} OBVIOUS
  <2>2. \A m \in DOMAIN b \ C : m \in DOMAIN nodes /\ b[m] = nodes[m] BY <1>3, <2>1
  <2>3. \A m \in C : /\ b[m].suffix # <<>> => LabelOf(b, m) \in Keys
                     /\ b[m].has_value => LabelOf(b, m) \in Keys /\ b[m].result = Buffer(LabelOf(b, m))
    <3>1. ASSUME NEW m \in C, m # c PROVE b[m].suffix = <<>> /\ ~b[m].has_value BY <1>3, <2>1, <3>1
    <3>2. /\ LabelOf(b, c) \in Keys
          /\ b[c].has_value => b[c].result = Buffer(LabelOf(b, c))
      BY <1>3, <1>6, <1>7
    <3>3. QED BY <3>1, <3>2
  <2>4. QED BY <2>2, <2>3, KeyedChanges
<1>9. QED BY <1>3, <1>8

LEMMA KOtherSuffix == ASSUME RInv, KInv, OtherSuffix PROVE KInv'
<1>1. /\ InAdd /\ call = "add" /\ call' = call /\ adding' = adding /\ len' = len
      /\ given' = given /\ side' = side /\ stack' = stack
      /\ HasSuffix(n1) /\ nodes' = BrokenOut(n1)
  BY DEF OtherSuffix, InLoop, InAdd, walked
<1>2. Tree(nodes) /\ Keyed(nodes) /\ stack = <<>> /\ n1 \in DOMAIN nodes BY <1>1, AddingIs
<1>3. PICK b : b = BrokenOut(n1) OBVIOUS
<1>4. Tree(b) /\ Keyed(b) /\ DOMAIN nodes \subseteq DOMAIN b BY <1>1, <1>2, <1>3, KeyedBrokenOut
<1>5. Tree(nodes') /\ Keyed(nodes') /\ DOMAIN nodes \subseteq DOMAIN nodes' BY <1>1, <1>3, <1>4
<1>6. QED BY <1>1, <1>2, <1>5, AddStays DEF KInv

LEMMA KLettersEnd == ASSUME RInv, KInv, LettersEnd PROVE KInv'
<1>1. /\ InAdd /\ call = "add" /\ call' = "added" /\ adding' = adding /\ len' = len
      /\ given' = given /\ side' = side /\ stack' = stack /\ adding.at = Len(adding.key)
      /\ nodes' = IF HasSuffix(n1) THEN BrokenOut(n1) ELSE nodes
  BY DEF LettersEnd, InAdd, Leave, SplitAtEnd, walked
<1>2. /\ Tree(nodes) /\ Keyed(nodes) /\ stack = <<>> /\ n1 \in DOMAIN nodes /\ n1 \in Seq(Letters)
      /\ n1 = adding.node /\ adding.key \in Seq(Letters) /\ n1 = SubSeq(adding.key, 1, adding.at)
  BY <1>1, AddingIs
<1>3. n1 = adding.key
  <2>1. SubSeq(adding.key, 1, Len(adding.key)) = adding.key BY <1>2, SubSeqFull
  <2>2. QED BY <1>1, <1>2, <2>1
<1>4. PICK b : b = nodes' OBVIOUS
<1>5. Tree(b) /\ Keyed(b) /\ DOMAIN nodes \subseteq DOMAIN b /\ b[n1].suffix = <<>>
  <2>1. CASE HasSuffix(n1) BY <1>1, <1>2, <1>4, <2>1, KeyedBrokenOut
  <2>2. CASE ~HasSuffix(n1) BY <1>1, <1>2, <1>4, <2>2 DEF HasSuffix
  <2>3. QED BY <2>1, <2>2
<1>6. LabelOf(b, n1) = adding.key BY <1>2, <1>3, <1>5, WithNone DEF LabelOf
<1>7. Tree(nodes') /\ Keyed(nodes') /\ DOMAIN nodes \subseteq DOMAIN nodes' /\ LabelOf(nodes', adding.node) = adding.key
  BY <1>2, <1>4, <1>5, <1>6
<1>8. QED BY <1>1, <1>2, <1>7, AddStays DEF KInv

\* Steps of an add to the node of the next letter
LEMMA AddGoes ==
  ASSUME RInv, KInv, call = "add", adding.at < Len(adding.key), NEW c, c = Append(n1, Letter), GoesTo(c),
         c \in DOMAIN nodes', len' = len, given' = given, side' = side, stack' = stack,
         Tree(nodes'), Keyed(nodes')
  PROVE  KInv'
<1>1. InAdd BY DEF InAdd
<1>2. /\ stack = <<>> /\ len < MaxKeys /\ adding.key \in Keys /\ adding.key \in Seq(Letters)
      /\ adding.at \in 0 .. Len(adding.key) /\ Len(adding.key) \in Nat
      /\ n1 = SubSeq(adding.key, 1, adding.at) /\ AddingAt
  BY <1>1, AddingIs
<1>3. adding \in [key : Keys, at : Nat, node : DOMAIN nodes] BY <1>2 DEF AddingAt
<1>4. adding' = [key |-> adding.key, at |-> adding.at + 1, node |-> c] /\ call' = "add"
  BY <1>3 DEF GoesTo
<1>5. c = SubSeq(adding.key, 1, adding.at + 1)
  <2>1. PICK s, k : s = adding.key /\ k = adding.at OBVIOUS
  <2>2. s \in Seq(Letters) /\ k \in 0 .. Len(s) - 1 BY <1>2, <2>1
  <2>3. Append(SubSeq(s, 1, k), s[k + 1]) = SubSeq(s, 1, k + 1) BY <2>2, StartGrows
  <2>4. QED BY <1>2, <2>1, <2>3 DEF Letter
<1>6. AddingAt'
  <2>1. adding.at + 1 \in Nat /\ adding.at + 1 <= Len(adding.key) BY <1>2
  <2>2. adding' \in [key : Keys, at : Nat, node : DOMAIN nodes'] BY <1>2, <1>4, <2>1
  <2>3. QED BY <1>4, <1>5, <2>1, <2>2 DEF AddingAt
<1>7. KAdding' BY <1>2, <1>4, <1>6 DEF KAdding, InAdd
<1>8. KTypes' BY <1>4 DEF KInv, KTypes
<1>9. KNodes'
  <2>1. PICK us : us = nodes' OBVIOUS
  <2>2. Stacked(us, <<>>) BY StackEmpty
  <2>3. Stacked(nodes', stack') BY <1>2, <2>1, <2>2
  <2>4. QED BY <1>2, <1>4, <2>3 DEF KNodes
<1>10. KClosing' BY <1>4 DEF KClosing
<1>11. QED BY <1>7, <1>8, <1>9, <1>10 DEF KInv

LEMMA KNewChild ==
  ASSUME RInv, KInv, call = "add", adding.at < Len(adding.key), nodes[n1].suffix = <<>>,
         NEW p, Belongs(Letter, nodes[n1].keys, p), NewChild(p),
         len' = len, given' = given, side' = side, stack' = stack
  PROVE  KInv'
<1>1. InAdd BY DEF InAdd
<1>2. Tree(nodes) /\ Keyed(nodes) /\ stack = <<>> /\ n1 \in DOMAIN nodes BY <1>1, AddingIs
<1>3. Letter \in Letters BY <1>1, AddIs
<1>4. CASE NoRoom(n1)
  <2>1. call' = "crashed" /\ nodes' = nodes /\ adding' = adding BY <1>4 DEF NewChild
  <2>2. QED BY <1>1, <1>2, <2>1, AddStays DEF KInv
<1>5. CASE ~NoRoom(n1)
  <2>1. PICK c, g : c = Append(n1, Letter) /\ g = WithChild(nodes, n1, Letter, p) OBVIOUS
  <2>2. nodes' = g /\ GoesTo(c) BY <1>5, <2>1 DEF NewChild, Go, GoesTo
  <2>3. Grown(g, nodes, n1, c) BY <1>2, <1>3, <2>1, TreeGrown
  <2>4. /\ Tree(g) /\ DOMAIN g = DOMAIN nodes \cup {c} /\ c \notin DOMAIN nodes /\ g[c] = NewNode
        /\ g[n1].has_value = nodes[n1].has_value /\ g[n1].result = nodes[n1].result /\ g[n1].suffix = <<>>
        /\ \A m \in DOMAIN nodes : m # n1 => g[m] = nodes[m]
    BY <2>3 DEF Grown
  <2>5. Keyed(g)
    <3>1. PICK C : C = {n1, c} OBVIOUS
    <3>2. \A m \in DOMAIN g \ C : m \in DOMAIN nodes /\ g[m] = nodes[m] BY <2>4, <3>1
    <3>3. LabelOf(g, n1) = LabelOf(nodes, n1) BY <2>4 DEF LabelOf
    <3>4. \A m \in C : /\ g[m].suffix # <<>> => LabelOf(g, m) \in Keys
                       /\ g[m].has_value => LabelOf(g, m) \in Keys /\ g[m].result = Buffer(LabelOf(g, m))
      <4>1. g[c].suffix = <<>> /\ ~g[c].has_value BY <2>4, NewNodeIs
      <4>2. g[n1].has_value => LabelOf(g, n1) \in Keys /\ g[n1].result = Buffer(LabelOf(g, n1))
        BY <1>2, <2>4, <3>3 DEF Keyed
      <4>3. QED BY <2>4, <3>1, <4>1, <4>2
    <3>5. QED BY <1>2, <3>2, <3>4, KeyedChanges
  <2>6. c \in DOMAIN nodes' /\ Tree(nodes') /\ Keyed(nodes') BY <2>2, <2>4, <2>5
  <2>7. QED BY <2>1, <2>2, <2>6, AddGoes
<1>6. QED BY <1>4, <1>5

LEMMA KBelowValue == ASSUME RInv, KInv, BelowValue PROVE KInv'
<1>1. /\ call = "add" /\ adding.at < Len(adding.key) /\ nodes[n1].suffix = <<>>
      /\ nodes[n1].children = <<>> /\ NewChild(0) /\ len' = len
      /\ given' = given /\ side' = side /\ stack' = stack
  BY DEF BelowValue, InLoop, HasSuffix, HasChildren, walked
<1>2. Tree(nodes) /\ n1 \in DOMAIN nodes BY <1>1, AddIs DEF InAdd
<1>3. nodes[n1].keys = <<>> BY <1>1, <1>2, NodeIs
<1>4. Belongs(Letter, nodes[n1].keys, 0)
  <2>1. Len(nodes[n1].keys) = 0 BY <1>3
  <2>2. QED BY <2>1 DEF Belongs
<1>5. QED BY <1>1, <1>4, KNewChild

LEMMA KChildFor == ASSUME RInv, KInv, ChildFor PROVE KInv'
<1>1. /\ InAdd /\ call = "add" /\ adding.at < Len(adding.key) /\ len' = len
      /\ nodes[n1].suffix = <<>>
  BY ChildForIs
<1>2. given' = given /\ side' = side /\ stack' = stack BY DEF ChildFor, walked
<1>3. Tree(nodes) /\ Keyed(nodes) BY <1>1, AddingIs
<1>4. ASSUME NEW c, c = Append(n1, Letter), c \in DOMAIN nodes, nodes' = nodes, GoesTo(c) PROVE KInv'
  BY <1>1, <1>2, <1>3, <1>4, AddGoes
<1>5. ASSUME NEW p, Belongs(Letter, nodes[n1].keys, p), NewChild(p) PROVE KInv'
  BY <1>1, <1>2, <1>5, KNewChild
<1>6. QED BY <1>4, <1>5, ChildForIs

LEMMA KFinishAdd == ASSUME RInv, RInv', KInv, FinishAdd PROVE KInv'
<1>1. /\ call = "added" /\ InAdd /\ call' = "none" /\ adding' = NotAdding
      /\ given' = given /\ side' = side /\ stack' = stack
      /\ IF ~nodes[n1].has_value
           THEN /\ nodes' = [nodes EXCEPT ![n1].has_value = TRUE, ![n1].result = Buffer(adding.key)]
                /\ len' = len + 1
           ELSE nodes' = nodes /\ len' = len
  BY DEF FinishAdd, InAdd, walked
<1>2. /\ Tree(nodes) /\ Keyed(nodes) /\ stack = <<>> /\ n1 \in DOMAIN nodes /\ adding.key \in Keys
      /\ len < MaxKeys /\ len \in Nat /\ MaxKeys \in Nat
  BY <1>1, AddingIs
<1>3. LabelOf(nodes, n1) = adding.key BY <1>1 DEF KInv, KAdding
<1>4. Keyed(nodes')
  <2>1. CASE nodes[n1].has_value BY <1>1, <1>2, <2>1
  <2>2. CASE ~nodes[n1].has_value
    <3>1. PICK r, node : r = Buffer(adding.key) /\ node = [nodes[n1] EXCEPT !.has_value = TRUE, !.result = r]
      OBVIOUS
    <3>2. nodes' = [nodes EXCEPT ![n1] = node] BY <1>1, <1>2, <2>2, <3>1
    <3>3. nodes[n1] \in Node BY <1>2, NodeIs
    <3>4. node.suffix = nodes[n1].suffix /\ node.result = r BY <3>1, <3>3 DEF Node
    <3>5. PICK us, C : us = nodes' /\ C = {n1} OBVIOUS
    <3>6. \A m \in DOMAIN us \ C : m \in DOMAIN nodes /\ us[m] = nodes[m] BY <3>2, <3>5
    <3>7. us[n1] = node BY <1>2, <3>2, <3>5
    <3>8. LabelOf(us, n1) = adding.key BY <1>3, <3>4, <3>7 DEF LabelOf
    <3>9. \A m \in C : /\ us[m].suffix # <<>> => LabelOf(us, m) \in Keys
                       /\ us[m].has_value => LabelOf(us, m) \in Keys /\ us[m].result = Buffer(LabelOf(us, m))
      BY <1>2, <3>1, <3>4, <3>5, <3>7, <3>8
    <3>10. Keyed(us) BY <1>2, <3>6, <3>9, KeyedChanges
    <3>11. QED BY <3>5, <3>10
  <2>3. QED BY <2>1, <2>2
<1>5. Tree(nodes') BY <1>1 DEF RInv, Open
<1>6. KTypes'
  <2>1. len' \in 0 .. MaxKeys BY <1>1, <1>2
  <2>2. QED BY <1>1, <2>1 DEF KInv, KTypes
<1>7. KAdding' BY <1>1 DEF KAdding, InAdd
<1>8. KNodes'
  <2>1. PICK us : us = nodes' OBVIOUS
  <2>2. Stacked(us, <<>>) BY StackEmpty
  <2>3. Stacked(nodes', stack') BY <1>1, <1>2, <2>1, <2>2
  <2>4. QED BY <1>1, <1>2, <1>4, <1>5, <2>3 DEF KNodes
<1>9. KClosing' BY <1>1 DEF KClosing
<1>10. QED BY <1>6, <1>7, <1>8, <1>9 DEF KInv

LEMMA KStartAdd == ASSUME RInv, KInv, NEW k \in Keys, StartAdd(k) PROVE KInv'
<1>1. /\ call = "none" /\ call' = "add" /\ nodes' = nodes /\ len' = len /\ len < MaxKeys
      /\ given' = given /\ side' = side /\ stack' = stack
      /\ adding' = [key |-> k, at |-> 0, node |-> Root]
  BY DEF StartAdd, walked
<1>2. Tree(nodes) BY <1>1 DEF KInv, KNodes
<1>3. AddingAt'
  <2>1. Root \in DOMAIN nodes BY <1>2 DEF Tree
  <2>2. k \in Seq(Letters) /\ Len(k) \in Nat BY KeyIs
  <2>3. SubSeq(k, 1, 0) = Root BY <2>2 DEF Root
  <2>4. adding' \in [key : Keys, at : Nat, node : DOMAIN nodes] BY <1>1, <2>1
  <2>5. QED BY <1>1, <2>2, <2>3, <2>4 DEF AddingAt
<1>4. KTypes' BY <1>1 DEF KInv, KTypes
<1>5. KAdding' BY <1>1, <1>3 DEF KAdding, InAdd
<1>6. KNodes' BY <1>1 DEF KInv, KNodes
<1>7. KClosing' BY <1>1 DEF KClosing
<1>8. QED BY <1>4, <1>5, <1>6, <1>7 DEF KInv

\* Calls that begin, end or are made in one step
LEMMA KRests ==
  ASSUME KInv, call \in {"none", "between", "next"}, nodes' = nodes, len' = len, adding' = adding,
         given' \in Keys \cup {None}, call' \in {"none", "between", "next", "close"}, side' \in {"L", "R"},
         stack' = stack \/ stack' = <<>>, call' = "none" => stack' = <<>>,
         call' = "close" => stack' = <<>> /\ side' = "L"
  PROVE  KInv'
<1>1. KTypes' BY DEF KInv, KTypes
<1>2. adding = NotAdding BY DEF KInv, KAdding
<1>3. KAdding' BY <1>2 DEF KAdding, InAdd
<1>4. PICK ns : ns = nodes OBVIOUS
<1>5. Stacked(ns, <<>>) /\ EmptyBehind(ns, <<>>) BY StackEmpty
<1>6. KNodes' BY <1>4, <1>5 DEF KInv, KNodes
<1>7. KClosing' BY <1>4, <1>5 DEF KClosing
<1>8. QED BY <1>1, <1>3, <1>6, <1>7 DEF KInv

RestVars == <<nodes, len, stack, side, call, adding, given>>

LEMMA KStutter == ASSUME KInv, UNCHANGED RestVars PROVE KInv'
<1>1. /\ nodes' = nodes /\ len' = len /\ stack' = stack /\ side' = side /\ call' = call
      /\ adding' = adding /\ given' = given
  BY DEF RestVars
<1>2. KTypes' BY <1>1 DEF KInv, KTypes
<1>3. KAdding' BY <1>1 DEF KInv, KAdding, InAdd, AddingAt, n1
<1>4. KNodes' BY <1>1 DEF KInv, KNodes
<1>5. KClosing' BY <1>1 DEF KInv, KClosing
<1>6. QED BY <1>2, <1>3, <1>4, <1>5 DEF KInv

LEMMA FrameIs ==
  ASSUME NEW n \in Seq(Letters)
  PROVE  Frame(n) \in StackFrame /\ Frame(n).stack_child_index = -1 /\ Frame(n).node = n
BY DEF Frame, StackFrame

\* What is below the frame on top stays, and the top goes on to its next child.
Pushed(st, k, i, c, new) ==
  /\ new \in Seq(StackFrame) /\ Len(new) = k + 1
  /\ \A j \in 1 .. k : new[j].node = st[j].node
  /\ \A j \in 1 .. k - 1 : new[j] = st[j]
  /\ new[k].stack_child_index = i
  /\ new[k + 1].node = c /\ new[k + 1].stack_child_index = -1

LEMMA PushedIs ==
  ASSUME NEW st \in Seq(StackFrame), NEW k, k = Len(st), k > 0, NEW i \in Int, NEW c \in Seq(Letters),
         NEW new, new = Append([st EXCEPT ![k].stack_child_index = i], Frame(c))
  PROVE  Pushed(st, k, i, c, new)
<1>1. k \in Nat /\ k \in 1 .. k /\ DOMAIN st = 1 .. k /\ \A j \in 1 .. k : st[j] \in StackFrame
  BY SequenceIs
<1>2. PICK top, t : top = [st[k] EXCEPT !.stack_child_index = i] /\ t = [st EXCEPT ![k] = top] OBVIOUS
<1>3. [st EXCEPT ![k].stack_child_index = i] = t BY <1>2
<1>4. top \in StackFrame /\ top.stack_child_index = i /\ top.node = st[k].node
  BY <1>1, <1>2 DEF StackFrame
<1>5. t \in Seq(StackFrame) /\ Len(t) = k BY <1>1, <1>2, <1>4
<1>6. t[k] = top /\ \A j \in 1 .. k : j # k => t[j] = st[j] BY <1>1, <1>2
<1>7. PICK f : f = Frame(c) OBVIOUS
<1>8. f \in StackFrame /\ f.stack_child_index = -1 /\ f.node = c BY <1>7, FrameIs
<1>9. new = Append(t, f) BY <1>3, <1>7
<1>10. new \in Seq(StackFrame) /\ Len(new) = k + 1 /\ new[k + 1] = f /\ \A j \in 1 .. k : new[j] = t[j]
  <2>1. /\ Append(t, f) \in Seq(StackFrame) /\ Len(Append(t, f)) = Len(t) + 1
        /\ Append(t, f)[Len(t) + 1] = f /\ \A j \in 1 .. Len(t) : Append(t, f)[j] = t[j]
    BY <1>5, <1>8, AppendIs
  <2>2. QED BY <1>5, <1>9, <2>1
<1>11. \A j \in 1 .. k - 1 : j \in 1 .. k /\ j # k BY <1>1
<1>12. new[k] = top BY <1>1, <1>6, <1>10
<1>13. \A j \in 1 .. k : new[j].node = st[j].node
  <2>1. SUFFICES ASSUME NEW j \in 1 .. k PROVE new[j].node = st[j].node OBVIOUS
  <2>2. CASE j = k BY <1>4, <1>12, <2>2
  <2>3. CASE j # k BY <1>6, <1>10, <2>3
  <2>4. QED BY <2>2, <2>3
<1>14. \A j \in 1 .. k - 1 : new[j] = st[j] BY <1>6, <1>10, <1>11
<1>15. QED BY <1>4, <1>8, <1>10, <1>12, <1>13, <1>14 DEF Pushed

\* The walk steps from the top of a stack of k frames to its child i, which is c.
StepsTo(ns, st, k, i, c) ==
  /\ Stacked(ns, st) /\ k = Len(st) /\ k > 0
  /\ i = st[k].stack_child_index + 1 /\ i < Len(ns[st[k].node].keys)
  /\ c = Append(st[k].node, ns[st[k].node].keys[i + 1])

LEMMA StackWalks ==
  ASSUME NEW ns, Tree(ns), NEW st, NEW k, NEW i, NEW c, StepsTo(ns, st, k, i, c),
         NEW new, Pushed(st, k, i, c, new)
  PROVE  Stacked(ns, new) /\ (EmptyBehind(ns, st) => EmptyBehind(ns, new))
<1>1. Stacked(ns, st) /\ k = Len(st) /\ k > 0 BY DEF StepsTo
<1>2. st \in Seq(StackFrame) /\ st[1].node = Root BY <1>1 DEF Stacked
<1>3. \A j \in 1 .. k : /\ st[j].node \in DOMAIN ns
                        /\ st[j].stack_child_index \in -1 .. Len(ns[st[j].node].keys) - 1
  BY <1>1 DEF Stacked
<1>4. \A j \in 1 .. k - 1 :
        /\ st[j].stack_child_index >= 0
        /\ st[j + 1].node = Append(st[j].node, ns[st[j].node].keys[st[j].stack_child_index + 1])
  BY <1>1 DEF Stacked
<1>5. \A j \in 1 .. k : Len(st[j].node) = j - 1 BY <1>1 DEF Stacked
<1>6. \A j \in 1 .. k : \A l \in 1 .. j - 1 :
        st[j].node[l] = ns[st[l].node].keys[st[l].stack_child_index + 1]
  BY <1>1 DEF Stacked
<1>7. k \in Nat /\ k > 0 /\ k \in 1 .. k
  <2>1. k \in Nat BY <1>1, <1>2, SequenceIs
  <2>2. QED BY <1>1, <2>1
<1>8. new \in Seq(StackFrame) /\ Len(new) = k + 1 BY DEF Pushed
<1>9. \A j \in 1 .. k : new[j].node = st[j].node BY DEF Pushed
<1>10. \A j \in 1 .. k - 1 : new[j] = st[j] BY DEF Pushed
<1>11. new[k].stack_child_index = i /\ new[k + 1].node = c /\ new[k + 1].stack_child_index = -1
  BY DEF Pushed
<1>12. PICK n, keys : n = st[k].node /\ keys = ns[n].keys OBVIOUS
<1>13. n \in DOMAIN ns /\ Len(n) = k - 1 /\ st[k].stack_child_index \in -1 .. Len(keys) - 1
  BY <1>7, <1>3, <1>5, <1>12
<1>14. /\ n \in Seq(Letters) /\ keys \in Seq(Letters)
       /\ \A j \in DOMAIN keys : Append(n, keys[j]) \in DOMAIN ns
  BY <1>12, <1>13, NodeIs
<1>15. Len(keys) \in Nat /\ DOMAIN keys = 1 .. Len(keys) /\ \A j \in 1 .. Len(keys) : keys[j] \in Letters
  BY <1>14, SequenceIs
<1>16. i \in Int /\ i >= 0 /\ i < Len(keys) /\ i + 1 \in 1 .. Len(keys) /\ i \in -1 .. Len(keys) - 1
  <2>1. PICK x, y : x = st[k].stack_child_index /\ y = Len(keys) OBVIOUS
  <2>2. x \in -1 .. y - 1 /\ y \in Nat /\ i = x + 1 /\ i < y
      BY <1>12, <1>13, <1>15, <2>1 DEF StepsTo
  <2>3. QED BY <2>1, <2>2
<1>17. /\ c \in DOMAIN ns /\ c = Append(n, keys[i + 1]) /\ Len(c) = k /\ c[k] = keys[i + 1]
       /\ \A l \in 1 .. k - 1 : c[l] = n[l]
  <2>1. PICK l : l = keys[i + 1] OBVIOUS
  <2>2. l \in Letters /\ c = Append(n, l)
    <3>1. l \in Letters BY <1>15, <1>16, <2>1
    <3>2. c = Append(n, l) BY <1>12, <2>1 DEF StepsTo
    <3>3. QED BY <3>1, <3>2
  <2>3. Len(c) = Len(n) + 1 /\ c[Len(n) + 1] = l /\ \A j \in 1 .. Len(n) : c[j] = n[j]
    BY <1>14, <2>2, AppendIs
  <2>4. c \in DOMAIN ns BY <1>14, <1>15, <1>16, <2>1, <2>2
  <2>5. k - 1 + 1 = k BY <1>7
  <2>6. QED BY <1>13, <2>1, <2>2, <2>3, <2>4, <2>5
<1>18. \A j \in 1 .. k + 1 : j = k + 1 \/ j = k \/ j \in 1 .. k - 1 BY <1>7
<1>19. Stacked(ns, new)
  <2>1. new[1].node = Root
    <3>1. 1 \in 1 .. k BY <1>7
    <3>2. QED BY <1>2, <1>9, <3>1
  <2>2. ASSUME NEW j \in 1 .. k + 1
        PROVE  new[j].node \in DOMAIN ns /\ new[j].stack_child_index \in -1 .. Len(ns[new[j].node].keys) - 1
    <3>1. CASE j = k + 1
      <4>1. PICK y : y = Len(ns[c].keys) OBVIOUS
      <4>2. y \in Nat BY <1>17, <4>1, NodeIs, SequenceIs
      <4>3. -1 \in -1 .. y - 1 BY <4>2
      <4>4. new[j].node = c /\ new[j].stack_child_index = -1 BY <1>11, <3>1
      <4>5. QED BY <1>17, <4>1, <4>3, <4>4
    <3>2. CASE j = k
      <4>1. new[j].node = n /\ new[j].stack_child_index = i BY <1>7, <1>9, <1>11, <1>12, <3>2
      <4>2. QED BY <1>12, <1>13, <1>16, <4>1
    <3>3. CASE j \in 1 .. k - 1
      <4>1. j \in 1 .. k BY <1>7, <3>3
      <4>2. new[j] = st[j] BY <1>10, <3>3
      <4>3. QED BY <1>3, <4>1, <4>2
    <3>4. QED BY <1>18, <3>1, <3>2, <3>3
  <2>3. ASSUME NEW j \in 1 .. k
        PROVE  /\ new[j].stack_child_index >= 0
               /\ new[j + 1].node = Append(new[j].node, ns[new[j].node].keys[new[j].stack_child_index + 1])
    <3>1. CASE j = k
      <4>1. new[j].node = n /\ new[j].stack_child_index = i /\ new[j + 1].node = c
        BY <1>7, <1>9, <1>11, <1>12, <3>1
      <4>2. QED BY <1>12, <1>16, <1>17, <4>1
    <3>2. CASE j # k
      <4>1. j \in 1 .. k - 1 /\ j + 1 \in 1 .. k BY <1>7, <3>2
      <4>2. new[j] = st[j] /\ new[j + 1].node = st[j + 1].node BY <1>9, <1>10, <4>1
      <4>3. QED BY <1>4, <4>1, <4>2
    <3>3. QED BY <3>1, <3>2
  <2>4. ASSUME NEW j \in 1 .. k + 1
        PROVE  /\ Len(new[j].node) = j - 1
               /\ \A l \in 1 .. j - 1 : new[j].node[l] = ns[new[l].node].keys[new[l].stack_child_index + 1]
    <3>1. CASE j = k + 1
      <4>1. \A l \in 1 .. k - 1 : c[l] = ns[new[l].node].keys[new[l].stack_child_index + 1]
        <5>1. ASSUME NEW l \in 1 .. k - 1
              PROVE  c[l] = ns[new[l].node].keys[new[l].stack_child_index + 1]
          <6>1. c[l] = st[k].node[l] BY <1>12, <1>17
          <6>2. st[k].node[l] = ns[st[l].node].keys[st[l].stack_child_index + 1] BY <1>7, <1>6
          <6>3. new[l] = st[l] BY <1>10
          <6>4. QED BY <6>1, <6>2, <6>3
        <5>2. QED BY <5>1
      <4>2. c[k] = ns[new[k].node].keys[new[k].stack_child_index + 1]
        <5>1. new[k].node = n /\ new[k].stack_child_index = i BY <1>7, <1>9, <1>11, <1>12
        <5>2. QED BY <1>12, <1>17, <5>1
      <4>3. \A l \in 1 .. j - 1 : l \in 1 .. k - 1 \/ l = k BY <1>7, <3>1
      <4>4. j - 1 = k BY <1>7, <3>1
      <4>5. new[j].node = c BY <1>11, <3>1
      <4>6. Len(c) = j - 1 BY <1>17, <4>4
      <4>7. \A l \in 1 .. j - 1 : c[l] = ns[new[l].node].keys[new[l].stack_child_index + 1]
        BY <4>1, <4>2, <4>3
      <4>8. QED BY <4>5, <4>6, <4>7
    <3>2. CASE j # k + 1
      <4>1. j \in 1 .. k /\ \A l \in 1 .. j - 1 : l \in 1 .. k - 1 BY <1>7, <3>2
      <4>2. new[j].node = st[j].node /\ \A l \in 1 .. j - 1 : new[l] = st[l] BY <1>9, <1>10, <4>1
      <4>3. Len(new[j].node) = j - 1 BY <1>5, <4>1, <4>2
      <4>4. ASSUME NEW l \in 1 .. j - 1
            PROVE  new[j].node[l] = ns[new[l].node].keys[new[l].stack_child_index + 1]
        <5>1. st[j].node[l] = ns[st[l].node].keys[st[l].stack_child_index + 1] BY <1>6, <4>1
        <5>2. QED BY <4>2, <5>1
      <4>5. QED BY <4>3, <4>4
    <3>3. QED BY <3>1, <3>2
  <2>5. k + 1 - 1 = k BY <1>7
  <2>6. PICK h : h = Len(new) OBVIOUS
  <2>7. h = k + 1 /\ h - 1 = k
    <3>1. h = k + 1 BY <1>8, <2>6
    <3>2. QED BY ONLY <1>7, <3>1
  <2>8. /\ \A j \in 1 .. h : /\ new[j].node \in DOMAIN ns
                            /\ new[j].stack_child_index \in -1 .. Len(ns[new[j].node].keys) - 1
        /\ \A j \in 1 .. h - 1 :
             /\ new[j].stack_child_index >= 0
             /\ new[j + 1].node = Append(new[j].node, ns[new[j].node].keys[new[j].stack_child_index + 1])
        /\ \A j \in 1 .. h :
             /\ Len(new[j].node) = j - 1
             /\ \A l \in 1 .. j - 1 : new[j].node[l] = ns[new[l].node].keys[new[l].stack_child_index + 1]
    BY <2>2, <2>3, <2>4, <2>7
  <2>9. QED BY <1>8, <2>1, <2>6, <2>8 DEF Stacked
<1>20. ASSUME EmptyBehind(ns, st) PROVE EmptyBehind(ns, new)
  <2>1. SUFFICES ASSUME NEW j \in 1 .. k + 1, NEW l \in 1 .. Walked(new, j)
                 PROVE  ns[Append(new[j].node, ns[new[j].node].keys[l])].keys = <<>>
    BY <1>8 DEF EmptyBehind
  <2>2. CASE j = k + 1
    <3>1. Walked(new, j) = 0 BY <1>8, <1>11, <2>2 DEF Walked
    <3>2. QED BY <2>1, <3>1
  <2>3. CASE j = k
    <3>1. Len(new) # j /\ j = k BY <1>7, <1>8, <2>3
    <3>2. Walked(new, j) = i BY <1>11, <3>1 DEF Walked
    <3>3. Walked(st, j) = i BY <1>1, <3>1 DEF Walked, StepsTo
    <3>4. j \in 1 .. Len(st) /\ new[j].node = st[j].node BY <1>1, <1>7, <1>9, <3>1
    <3>5. l \in 1 .. Walked(st, j) BY <3>2, <3>3
    <3>6. QED BY <1>20, <3>4, <3>5 DEF EmptyBehind
  <2>4. CASE j \in 1 .. k - 1
    <3>1. j \in 1 .. Len(st) /\ j # Len(st) /\ j # Len(new) BY <1>1, <1>7, <1>8, <2>4
    <3>2. new[j] = st[j] BY <1>10, <2>4
    <3>3. Walked(new, j) = Walked(st, j) BY <3>1, <3>2 DEF Walked
    <3>4. l \in 1 .. Walked(st, j) BY <3>3
    <3>5. QED BY <1>20, <3>1, <3>2, <3>4 DEF EmptyBehind
  <2>5. QED BY <1>18, <2>2, <2>3, <2>4
<1>21. QED BY <1>19, <1>20

LEMMA StackGrows ==
  ASSUME NEW ns, Tree(ns), NEW st, Stacked(ns, st), NEW k, k = Len(st), k > 0,
         NEW i, i = st[k].stack_child_index + 1, i < Len(ns[st[k].node].keys),
         NEW c, c = Append(st[k].node, ns[st[k].node].keys[i + 1]), NEW new, Pushed(st, k, i, c, new)
  PROVE  Stacked(ns, new) /\ (EmptyBehind(ns, st) => EmptyBehind(ns, new))
BY StackWalks DEF StepsTo

LEMMA StackBegins ==
  ASSUME NEW ns, Tree(ns), NEW st, st = <<Frame(Root)>>
  PROVE  Stacked(ns, st) /\ EmptyBehind(ns, st)
<1>1. Root \in DOMAIN ns /\ Root \in Seq(Letters) /\ Len(Root) = 0 BY DEF Tree, Root
<1>2. PICK f : f = Frame(Root) OBVIOUS
<1>3. f \in StackFrame /\ f.stack_child_index = -1 /\ f.node = Root BY <1>1, <1>2, FrameIs
<1>4. st = <<f>> /\ st \in Seq(StackFrame) /\ Len(st) = 1 /\ st[1] = f BY <1>2, <1>3
<1>5. Len(ns[Root].keys) \in Nat BY <1>1, NodeIs, SequenceIs
<1>6. -1 \in -1 .. Len(ns[Root].keys) - 1 BY <1>5
<1>7. \A j \in 1 .. 1 : j = 1 BY SMT
<1>8. 1 .. 1 - 1 = {} OBVIOUS
<1>9. Walked(st, 1) = 0 BY <1>3, <1>4 DEF Walked
<1>10. \A j \in 1 .. 1 : 1 .. Walked(st, j) = {} BY <1>7, <1>9
<1>11. EmptyBehind(ns, st) BY <1>4, <1>10 DEF EmptyBehind
<1>12. \A j \in 1 .. 1 : /\ st[j].node \in DOMAIN ns
                         /\ st[j].stack_child_index \in -1 .. Len(ns[st[j].node].keys) - 1
  BY <1>1, <1>3, <1>4, <1>6, <1>7
<1>13. \A j \in 1 .. 1 : Len(st[j].node) = j - 1 /\ 1 .. j - 1 = {} BY <1>1, <1>3, <1>4, <1>7, <1>8
<1>14. QED BY <1>3, <1>4, <1>8, <1>11, <1>12, <1>13 DEF Stacked

\* rtrie__fullkey reads the key from the stack.
LEMMA FullKeyIs ==
  ASSUME Tree(nodes), NEW st, Stacked(nodes, st), st # <<>>
  PROVE  /\ Last(st).node \in DOMAIN nodes
         /\ FullKey(st) = LabelOf(nodes, Last(st).node)
<1>1. PICK k, n : k = Len(st) /\ n = st[k].node OBVIOUS
<1>2. /\ st \in Seq(StackFrame)
      /\ \A j \in 1 .. k : st[j].node \in DOMAIN nodes
      /\ \A j \in 1 .. k : Len(st[j].node) = j - 1
      /\ \A j \in 1 .. k : \A l \in 1 .. j - 1 :
           st[j].node[l] = nodes[st[l].node].keys[st[l].stack_child_index + 1]
  BY <1>1 DEF Stacked
<1>3. k \in Nat /\ k # 0 /\ k \in 1 .. k BY <1>1, <1>2, SequenceIs
<1>4. Last(st).node = n /\ n \in DOMAIN nodes /\ Len(n) = k - 1 BY <1>1, <1>2, <1>3 DEF Last
<1>5. n \in Seq(Letters) /\ nodes[n].suffix \in Seq(Letters) /\ nodes[n].suffix_len = Len(nodes[n].suffix)
  BY <1>4, NodeIs
<1>6. Suffix(n) = nodes[n].suffix BY <1>5, SubSeqFull DEF Suffix
<1>7. PICK path : path = [i \in 1 .. Len(st) - 1 |-> nodes[st[i].node].keys[st[i].stack_child_index + 1]]
  OBVIOUS
<1>8. path = n
  <2>1. DOMAIN n = 1 .. k - 1 BY <1>4, <1>5, SequenceIs
  <2>2. \A l \in 1 .. k - 1 : n[l] = path[l] BY <1>1, <1>2, <1>3, <1>7
  <2>3. n = [l \in 1 .. k - 1 |-> n[l]] BY <1>5, <2>1
  <2>4. path = [l \in 1 .. k - 1 |-> path[l]] BY <1>1, <1>7
  <2>5. QED BY <2>2, <2>3, <2>4
<1>9. FullKey(st) = path \o Suffix(Last(st).node) BY <1>7 DEF FullKey
<1>10. QED BY <1>4, <1>6, <1>8, <1>9 DEF LabelOf

LEMMA KEnter == ASSUME RInv, KInv, Enter PROVE KInv'
<1>1. /\ call \in {"next", "close"} /\ nodes' = nodes /\ len' = len /\ side' = side /\ adding' = adding
      /\ \/ stack = <<>> /\ side = "L" /\ stack' = <<Frame(Root)>>
         \/ /\ stack # <<>> /\ HasChildren(Top.node)
            /\ Len(nodes[Top.node].children) - 1 > Top.stack_child_index
            /\ stack' = Append([stack EXCEPT ![Len(stack)].stack_child_index = Top.stack_child_index + 1],
                               Frame(nodes[Top.node].children[Top.stack_child_index + 1 + 1]))
      /\ \/ /\ call = "next" /\ call' = "between" /\ nodes[Last(stack').node].has_value
            /\ given' = FullKey(stack')
         \/ call' = call /\ given' = given
  BY DEF Enter, Walking, MoreBelow
<1>2. Tree(nodes) /\ Keyed(nodes) /\ Stacked(nodes, stack) BY <1>1 DEF KInv, KNodes
<1>3. PICK ns, st, new : ns = nodes /\ st = stack /\ new = stack' OBVIOUS
<1>4. Tree(ns) /\ Stacked(ns, st) BY <1>2, <1>3
<1>5. Stacked(ns, new) /\ (EmptyBehind(ns, st) => EmptyBehind(ns, new)) /\ new # <<>>
  <2>1. CASE st = <<>>
    <3>1. new = <<Frame(Root)>> BY <1>1, <1>3, <2>1
    <3>2. QED BY <1>4, <3>1, StackBegins
  <2>2. CASE st # <<>>
    <3>1. PICK k, n, keys, i : /\ k = Len(st) /\ n = st[k].node /\ keys = ns[n].keys
                               /\ i = st[k].stack_child_index + 1
      OBVIOUS
    <3>2. st \in Seq(StackFrame) BY <1>4 DEF Stacked
    <3>3. k \in Nat /\ k # 0 /\ k > 0 /\ k \in 1 .. k BY <2>2, <3>1, <3>2, SequenceIs
    <3>4. n \in DOMAIN ns /\ st[k].stack_child_index \in -1 .. Len(keys) - 1
      BY <1>4, <3>1, <3>3 DEF Stacked
    <3>5. n \in Seq(Letters) /\ keys \in Seq(Letters) /\ ns[n].children = [j \in DOMAIN keys |-> Append(n, keys[j])]
          /\ ns[n] \in Node
      BY <1>4, <3>1, <3>4, NodeIs
    <3>6. Len(keys) \in Nat /\ DOMAIN keys = 1 .. Len(keys) /\ \A j \in 1 .. Len(keys) : keys[j] \in Letters
      BY <3>5, SequenceIs
    <3>7. Len(ns[n].children) = Len(keys)
      <4>1. ns[n].children \in Seq(Seq(Letters)) BY <3>5 DEF Node
      <4>2. DOMAIN ns[n].children = 1 .. Len(keys) BY <3>5, <3>6
      <4>3. QED BY <3>6, <4>1, <4>2
    <3>8. Top = st[k] BY <1>3, <3>1 DEF Top, Last
    <3>9. i \in Int /\ i >= 0 /\ i < Len(keys) /\ i + 1 \in 1 .. Len(keys)
      <4>1. Len(keys) - 1 > st[k].stack_child_index BY <1>1, <1>3, <2>2, <3>1, <3>7, <3>8
      <4>2. PICK x, y : x = st[k].stack_child_index /\ y = Len(keys) OBVIOUS
      <4>3. x \in -1 .. y - 1 /\ y \in Nat /\ i = x + 1 /\ y - 1 > x BY <3>1, <3>4, <3>6, <4>1, <4>2
      <4>4. QED BY <4>2, <4>3
    <3>10. PICK c : c = Append(n, keys[i + 1]) OBVIOUS
    <3>11. ns[n].children[i + 1] = c BY <3>5, <3>6, <3>9, <3>10
    <3>12. c \in Seq(Letters)
      <4>1. PICK l : l = keys[i + 1] OBVIOUS
      <4>2. l \in Letters BY <3>6, <3>9, <4>1
      <4>3. QED BY <3>5, <3>10, <4>1, <4>2, AppendIs
    <3>13. new = Append([st EXCEPT ![k].stack_child_index = i], Frame(c))
      BY <1>1, <1>3, <2>2, <3>1, <3>8, <3>11
    <3>14. Pushed(st, k, i, c, new) BY <3>1, <3>2, <3>3, <3>9, <3>12, <3>13, PushedIs
    <3>15. Stacked(ns, new) /\ (EmptyBehind(ns, st) => EmptyBehind(ns, new))
      BY <1>4, <3>1, <3>3, <3>9, <3>10, <3>14, StackGrows
    <3>16. new # <<>>
      <4>1. new \in Seq(StackFrame) /\ Len(new) = k + 1 BY <3>14 DEF Pushed
      <4>2. QED BY <3>3, <4>1
    <3>17. QED BY <3>15, <3>16
  <2>3. QED BY <2>1, <2>2
<1>6. given' \in Keys \cup {None}
  <2>1. CASE call' = call /\ given' = given BY <2>1 DEF KInv, KTypes
  <2>2. CASE nodes[Last(stack').node].has_value /\ given' = FullKey(stack')
    <3>1. Stacked(nodes, new) /\ new # <<>> BY <1>3, <1>5
    <3>2. Last(new).node \in DOMAIN nodes /\ FullKey(new) = LabelOf(nodes, Last(new).node)
      BY <1>2, <3>1, FullKeyIs
    <3>3. LabelOf(nodes, Last(new).node) \in Keys BY <1>2, <1>3, <2>2, <3>2 DEF Keyed
    <3>4. QED BY <1>3, <2>2, <3>2, <3>3
  <2>3. QED BY <1>1, <2>1, <2>2
<1>7. call' \in {"next", "close", "between"} /\ (call' = "close" => call = "close") BY <1>1
<1>8. KTypes' BY <1>1, <1>6, <1>7 DEF KInv, KTypes
<1>9. KAdding' BY <1>1, <1>7 DEF KInv, KAdding, InAdd
<1>10. KNodes' BY <1>1, <1>2, <1>3, <1>5, <1>7 DEF KNodes
<1>11. KClosing' BY <1>1, <1>3, <1>5, <1>7 DEF KInv, KClosing
<1>12. QED BY <1>8, <1>9, <1>10, <1>11 DEF KInv

\* The stack as the steps that pop it see it
Frames(ns, st, k) ==
  /\ st \in Seq(StackFrame) /\ k \in Nat /\ k \in 1 .. k /\ st[1].node = Root
  /\ \A j \in 1 .. k :
       /\ st[j].node \in DOMAIN ns /\ Len(st[j].node) = j - 1
       /\ st[j].stack_child_index \in -1 .. Len(ns[st[j].node].keys) - 1
       /\ \A l \in 1 .. j - 1 : st[j].node[l] = ns[st[l].node].keys[st[l].stack_child_index + 1]
  /\ \A j \in 1 .. k - 1 :
       /\ st[j].stack_child_index >= 0
       /\ st[j + 1].node = Append(st[j].node, ns[st[j].node].keys[st[j].stack_child_index + 1])

LEMMA FramesAre ==
  ASSUME NEW ns, NEW st, Stacked(ns, st), NEW k, k = Len(st), k > 0
  PROVE  Frames(ns, st, k)
<1>1. st \in Seq(StackFrame) BY DEF Stacked
<1>2. k \in Nat BY <1>1, SequenceIs
<1>3. k \in 1 .. k BY <1>2
<1>4. QED BY <1>1, <1>2, <1>3 DEF Stacked, Frames

\* While keys are given the nodes stay.
LEMMA StackShrinks ==
  ASSUME NEW ns, Tree(ns), NEW st, Stacked(ns, st), NEW k, k = Len(st), k > 0, NEW new, new = Front(st)
  PROVE  Stacked(ns, new)
<1>1. /\ st \in Seq(StackFrame) /\ k \in Nat /\ k \in 1 .. k /\ st[1].node = Root
      /\ \A j \in 1 .. k :
           /\ st[j].node \in DOMAIN ns /\ Len(st[j].node) = j - 1
           /\ st[j].stack_child_index \in -1 .. Len(ns[st[j].node].keys) - 1
           /\ \A l \in 1 .. j - 1 : st[j].node[l] = ns[st[l].node].keys[st[l].stack_child_index + 1]
      /\ \A j \in 1 .. k - 1 :
           /\ st[j].stack_child_index >= 0
           /\ st[j + 1].node = Append(st[j].node, ns[st[j].node].keys[st[j].stack_child_index + 1])
  <2>1. Frames(ns, st, k) BY FramesAre
  <2>2. QED BY <2>1 DEF Frames
<1>2. PICK h : h = k - 1 OBVIOUS
<1>3. /\ new \in Seq(StackFrame) /\ Len(new) = h /\ \A j \in 1 .. h : new[j] = st[j]
      /\ h \in Nat /\ \A j \in 1 .. h : j \in 1 .. k /\ j \in 1 .. k - 1
      /\ \A j \in 1 .. h - 1 : j \in 1 .. h /\ j + 1 \in 1 .. h
  <2>1. st \in Seq(StackFrame) /\ k \in Nat BY <1>1
  <2>2. Front(st) \in Seq(StackFrame) /\ Len(Front(st)) = k - 1 /\ \A j \in 1 .. k - 1 : Front(st)[j] = st[j]
    BY <2>1, FrontIs
  <2>3. new \in Seq(StackFrame) /\ Len(new) = h /\ \A j \in 1 .. h : new[j] = st[j] BY <1>2, <2>2
  <2>4. h \in Nat /\ \A j \in 1 .. h : j \in 1 .. k /\ j \in 1 .. k - 1 BY <1>2, <2>1
  <2>5. \A j \in 1 .. h - 1 : j \in 1 .. h /\ j + 1 \in 1 .. h BY <2>4
  <2>6. QED BY <2>3, <2>4, <2>5
<1>4. h > 0 => new[1].node = Root
  <2>1. h > 0 => 1 \in 1 .. h BY <1>3
  <2>2. QED BY <1>1, <1>3, <2>1
<1>5. ASSUME NEW j \in 1 .. h
      PROVE  /\ new[j].node \in DOMAIN ns
             /\ new[j].stack_child_index \in -1 .. Len(ns[new[j].node].keys) - 1
             /\ Len(new[j].node) = j - 1
  <2>1. j \in 1 .. k /\ new[j] = st[j] BY <1>3
  <2>2. QED BY <1>1, <2>1
<1>6. ASSUME NEW j \in 1 .. h, NEW l \in 1 .. j - 1
      PROVE  new[j].node[l] = ns[new[l].node].keys[new[l].stack_child_index + 1]
  <2>1. j \in 1 .. k /\ new[j] = st[j] BY <1>3
  <2>2. l \in 1 .. h BY <1>3
  <2>3. new[l] = st[l] BY <1>3, <2>2
  <2>4. QED BY <1>1, <2>1, <2>3
<1>7. ASSUME NEW j \in 1 .. h - 1
      PROVE  /\ new[j].stack_child_index >= 0
             /\ new[j + 1].node = Append(new[j].node, ns[new[j].node].keys[new[j].stack_child_index + 1])
  <2>1. j \in 1 .. h /\ j + 1 \in 1 .. h BY <1>3
  <2>2. new[j] = st[j] /\ new[j + 1] = st[j + 1] /\ j \in 1 .. k - 1 BY <1>3, <2>1
  <2>3. QED BY <1>1, <2>2
<1>8. QED BY <1>3, <1>4, <1>5, <1>6, <1>7 DEF Stacked

\* When the trie is closed a node loses its children as it is left.
Emptied(ns, us, n) ==
  /\ DOMAIN us = DOMAIN ns \ ToSet(ns[n].children)
  /\ us[n] = [ns[n] EXCEPT !.keys = <<>>, !.children = <<>>]
  /\ \A m \in DOMAIN us : m # n => us[m] = ns[m]

LEMMA TreeEmptied ==
  ASSUME NEW ns, Tree(ns), Keyed(ns), NEW n \in DOMAIN ns,
         \A j \in DOMAIN ns[n].keys : ns[Append(n, ns[n].keys[j])].keys = <<>>,
         NEW us, Emptied(ns, us, n)
  PROVE  /\ Tree(us) /\ Keyed(us) /\ n \in DOMAIN us /\ us[n].keys = <<>>
         /\ DOMAIN us \subseteq DOMAIN ns
         /\ \A m \in DOMAIN ns : m \notin DOMAIN us => Len(m) = Len(n) + 1
<1>1. PICK keys, children : keys = ns[n].keys /\ children = ns[n].children OBVIOUS
<1>2. /\ n \in Seq(Letters) /\ ns[n] \in Node /\ keys \in Seq(Letters) /\ Shape(n, ns[n])
      /\ ns[n].suffix_len = Len(ns[n].suffix)
      /\ children = [j \in DOMAIN keys |-> Append(n, keys[j])]
      /\ \A j \in DOMAIN keys : Append(n, keys[j]) \in DOMAIN ns
  <2>1. /\ n \in Seq(Letters) /\ ns[n] \in Node /\ ns[n].keys \in Seq(Letters) /\ Shape(n, ns[n])
        /\ ns[n].suffix_len = Len(ns[n].suffix)
        /\ ns[n].children = [j \in DOMAIN ns[n].keys |-> Append(n, ns[n].keys[j])]
        /\ \A j \in DOMAIN ns[n].keys : Append(n, ns[n].keys[j]) \in DOMAIN ns
    BY NodeIs
  <2>2. QED BY <1>1, <2>1
<1>3. ToSet(children) = {Append(n, keys[j]) : j \in DOMAIN keys}
  BY <1>2 DEF ToSet
<1>4. ASSUME NEW j \in DOMAIN keys
      PROVE  /\ Append(n, keys[j]) # n /\ Append(n, keys[j]) # Root
             /\ Len(Append(n, keys[j])) = Len(n) + 1 /\ ns[Append(n, keys[j])].keys = <<>>
  <2>1. PICK l : l = keys[j] OBVIOUS
  <2>2. l \in Letters BY <1>2, <2>1, SequenceIs
  <2>3. Append(n, l) # n /\ Append(n, l) # <<>> /\ Len(Append(n, l)) = Len(n) + 1
    BY <1>2, <2>2, ParentIs, AppendIs
  <2>4. QED BY <1>1, <2>1, <2>3 DEF Root
<1>5. PICK node : node = [ns[n] EXCEPT !.keys = <<>>, !.children = <<>>] OBVIOUS
<1>6. /\ DOMAIN us = DOMAIN ns \ {Append(n, keys[j]) : j \in DOMAIN keys}
      /\ us[n] = node /\ \A m \in DOMAIN us : m # n => us[m] = ns[m]
  BY <1>1, <1>3, <1>5 DEF Emptied
<1>7. n \in DOMAIN us /\ DOMAIN us \subseteq DOMAIN ns BY <1>4, <1>6
<1>8. \A m \in DOMAIN ns : m \notin DOMAIN us => Len(m) = Len(n) + 1 BY <1>4, <1>6
<1>9. /\ node \in Node /\ node.keys = <<>> /\ node.children = <<>> /\ node.suffix = ns[n].suffix
      /\ node.suffix_len = ns[n].suffix_len /\ node.has_value = ns[n].has_value /\ node.result = ns[n].result
  <2>1. <<>> \in Seq(Letters) /\ <<>> \in Seq(Seq(Letters)) OBVIOUS
  <2>2. QED BY <1>2, <1>5, <2>1 DEF Node
<1>10. Tree(us)
  <2>1. Root \in DOMAIN us /\ DOMAIN us \subseteq Seq(Letters) BY <1>4, <1>6 DEF Tree
  <2>2. ASSUME NEW m \in DOMAIN us PROVE Shape(m, us[m])
    <3>1. CASE m = n
      <4>1. Shape(n, node) BY <1>2, <1>9, ChildlessIs
      <4>2. QED BY <1>6, <3>1, <4>1
    <3>2. CASE m # n BY <1>6, <3>2, NodeIs
    <3>3. QED BY <3>1, <3>2
  <2>3. ASSUME NEW m \in DOMAIN us, NEW i \in DOMAIN us[m].keys PROVE Append(m, us[m].keys[i]) \in DOMAIN us
    <3>1. m # n
      <4>1. DOMAIN node.keys = {} BY <1>9
      <4>2. QED BY <1>6, <2>3, <4>1
    <3>2. us[m] = ns[m] /\ m \in DOMAIN ns BY <1>6, <3>1
    <3>3. m \in Seq(Letters) /\ ns[m].keys \in Seq(Letters) /\ Append(m, ns[m].keys[i]) \in DOMAIN ns
      BY <2>3, <3>2, NodeIs
    <3>4. ASSUME NEW j \in DOMAIN keys, Append(m, ns[m].keys[i]) = Append(n, keys[j]) PROVE FALSE
      <4>1. PICK l, o : l = ns[m].keys[i] /\ o = keys[j] OBVIOUS
      <4>2. l \in Letters /\ o \in Letters BY <1>2, <2>3, <3>2, <3>3, <4>1, SequenceIs
      <4>3. Append(m, l) = Append(n, o) => m = n BY <1>2, <3>3, <4>2, ParentIs
      <4>4. QED BY <3>1, <3>4, <4>1, <4>3
    <3>5. QED BY <1>6, <3>2, <3>3, <3>4
  <2>4. ASSUME NEW m \in DOMAIN us \ {Root}
        PROVE  \E q \in DOMAIN us : \E i \in DOMAIN us[q].keys : m = Append(q, us[q].keys[i])
    <3>1. m \in DOMAIN ns \ {Root} BY <1>6
    <3>2. PICK q \in DOMAIN ns : \E i \in DOMAIN ns[q].keys : m = Append(q, ns[q].keys[i])
      BY <3>1 DEF Tree
    <3>3. PICK i \in DOMAIN ns[q].keys : m = Append(q, ns[q].keys[i]) BY <3>2
    <3>4. q # n BY <1>1, <1>6, <3>3
    <3>5. q \in DOMAIN us
      <4>1. SUFFICES ASSUME NEW j \in DOMAIN keys, q = Append(n, keys[j]) PROVE FALSE BY <1>6
      <4>2. ns[q].keys = <<>> BY <1>4, <4>1
      <4>3. QED BY <3>3, <4>2
    <3>6. us[q] = ns[q] BY <1>6, <3>4, <3>5
    <3>7. QED BY <3>3, <3>5, <3>6
  <2>5. QED BY <2>1, <2>2, <2>3, <2>4 DEF Tree
<1>11. Keyed(us)
  <2>1. PICK C : C = {n} OBVIOUS
  <2>2. \A m \in DOMAIN us \ C : m \in DOMAIN ns /\ us[m] = ns[m] BY <1>6, <2>1
  <2>3. LabelOf(us, n) = LabelOf(ns, n) BY <1>6, <1>9 DEF LabelOf
  <2>4. \A m \in C : /\ us[m].suffix # <<>> => LabelOf(us, m) \in Keys
                     /\ us[m].has_value => LabelOf(us, m) \in Keys /\ us[m].result = Buffer(LabelOf(us, m))
    BY <1>6, <1>9, <2>1, <2>3 DEF Keyed
  <2>5. QED BY <2>2, <2>4, KeyedChanges
<1>12. QED BY <1>6, <1>7, <1>8, <1>9, <1>10, <1>11

\* What is left on the stack when the top was emptied
LEMMA StackEmptied ==
  ASSUME NEW ns, Tree(ns), Keyed(ns), NEW st, Stacked(ns, st), EmptyBehind(ns, st), NEW k, k = Len(st), k > 0,
         NEW n, n = st[k].node, Walked(st, k) = Len(ns[n].keys),
         NEW us, Emptied(ns, us, n), NEW new, new = Front(st)
  PROVE  /\ Tree(us) /\ Keyed(us) /\ Stacked(us, new) /\ EmptyBehind(us, new)
         /\ new = <<>> => us[Root].keys = <<>>
<1>1. /\ st \in Seq(StackFrame) /\ k \in Nat /\ k \in 1 .. k /\ st[1].node = Root
      /\ \A j \in 1 .. k :
           /\ st[j].node \in DOMAIN ns /\ Len(st[j].node) = j - 1
           /\ st[j].stack_child_index \in -1 .. Len(ns[st[j].node].keys) - 1
           /\ \A l \in 1 .. j - 1 : st[j].node[l] = ns[st[l].node].keys[st[l].stack_child_index + 1]
      /\ \A j \in 1 .. k - 1 :
           /\ st[j].stack_child_index >= 0
           /\ st[j + 1].node = Append(st[j].node, ns[st[j].node].keys[st[j].stack_child_index + 1])
  <2>1. Frames(ns, st, k) BY FramesAre
  <2>2. QED BY <2>1 DEF Frames
<1>2. n \in DOMAIN ns /\ Len(n) = k - 1 BY <1>1
<1>3. \A j \in DOMAIN ns[n].keys : ns[Append(n, ns[n].keys[j])].keys = <<>>
  <2>1. ns[n].keys \in Seq(Letters) BY <1>2, NodeIs
  <2>2. DOMAIN ns[n].keys = 1 .. Len(ns[n].keys) BY <2>1, SequenceIs
  <2>3. QED BY <1>1, <2>2 DEF EmptyBehind
<1>4. /\ Tree(us) /\ Keyed(us) /\ n \in DOMAIN us /\ us[n].keys = <<>> /\ DOMAIN us \subseteq DOMAIN ns
      /\ \A m \in DOMAIN ns : m \notin DOMAIN us => Len(m) = Len(n) + 1
  BY <1>2, <1>3, TreeEmptied
<1>5. \A m \in DOMAIN us : m # n => us[m] = ns[m] BY DEF Emptied
<1>6. ASSUME NEW m \in DOMAIN ns, Len(m) # k PROVE m \in DOMAIN us
  <2>1. Len(n) + 1 = k BY <1>1, <1>2
  <2>2. QED BY <1>4, <1>6, <2>1
<1>7. PICK h : h = k - 1 OBVIOUS
<1>8. /\ new \in Seq(StackFrame) /\ Len(new) = h /\ \A j \in 1 .. h : new[j] = st[j]
      /\ h \in Nat /\ \A j \in 1 .. h : j \in 1 .. k /\ j \in 1 .. k - 1 /\ j # k
      /\ \A j \in 1 .. h - 1 : j \in 1 .. h /\ j + 1 \in 1 .. h
  <2>1. st \in Seq(StackFrame) /\ k \in Nat BY <1>1
  <2>2. Front(st) \in Seq(StackFrame) /\ Len(Front(st)) = k - 1 /\ \A j \in 1 .. k - 1 : Front(st)[j] = st[j]
    BY <2>1, FrontIs
  <2>3. new \in Seq(StackFrame) /\ Len(new) = h /\ \A j \in 1 .. h : new[j] = st[j] BY <1>7, <2>2
  <2>4. h \in Nat /\ \A j \in 1 .. h : j \in 1 .. k /\ j \in 1 .. k - 1 /\ j # k BY <1>7, <2>1
  <2>5. \A j \in 1 .. h - 1 : j \in 1 .. h /\ j + 1 \in 1 .. h BY <2>4
  <2>6. QED BY <2>3, <2>4, <2>5
<1>9. Stacked(ns, new) BY <1>1, StackShrinks
<1>10. ASSUME NEW j \in 1 .. h
       PROVE  new[j].node \in DOMAIN us /\ us[new[j].node] = ns[new[j].node]
  <2>1. j \in 1 .. k /\ new[j] = st[j] /\ j \in Int /\ j <= h BY <1>8
  <2>2. Len(st[j].node) = j - 1 /\ st[j].node \in DOMAIN ns BY <1>1, <2>1
  <2>3. j - 1 # k /\ j - 1 # k - 1 BY <1>1, <1>7, <2>1
  <2>4. st[j].node \in DOMAIN us BY <1>6, <2>2, <2>3
  <2>5. st[j].node # n BY <1>2, <2>2, <2>3
  <2>6. QED BY <1>5, <2>1, <2>4, <2>5
<1>11. Stacked(us, new)
  <2>1. /\ \A j \in 1 .. h : /\ new[j].node \in DOMAIN ns
                             /\ new[j].stack_child_index \in -1 .. Len(ns[new[j].node].keys) - 1
        /\ \A j \in 1 .. h - 1 :
             /\ new[j].stack_child_index >= 0
             /\ new[j + 1].node = Append(new[j].node, ns[new[j].node].keys[new[j].stack_child_index + 1])
        /\ \A j \in 1 .. h :
             /\ Len(new[j].node) = j - 1
             /\ \A l \in 1 .. j - 1 : new[j].node[l] = ns[new[l].node].keys[new[l].stack_child_index + 1]
        /\ h > 0 => new[1].node = Root
    BY <1>8, <1>9 DEF Stacked
  <2>2. ASSUME NEW j \in 1 .. h
        PROVE  new[j].node \in DOMAIN us /\ new[j].stack_child_index \in -1 .. Len(us[new[j].node].keys) - 1
    BY <1>10, <2>1
  <2>3. ASSUME NEW j \in 1 .. h - 1
        PROVE  new[j + 1].node = Append(new[j].node, us[new[j].node].keys[new[j].stack_child_index + 1])
    <3>1. j \in 1 .. h BY <1>8
    <3>2. QED BY <1>10, <2>1, <3>1
  <2>4. ASSUME NEW j \in 1 .. h, NEW l \in 1 .. j - 1
        PROVE  new[j].node[l] = us[new[l].node].keys[new[l].stack_child_index + 1]
    <3>1. l \in 1 .. h BY <1>8
    <3>2. us[new[l].node] = ns[new[l].node] BY <1>10, <3>1
    <3>3. QED BY <2>1, <3>2
  <2>5. QED BY <1>8, <2>1, <2>2, <2>3, <2>4 DEF Stacked
<1>12. ASSUME NEW j \in 1 .. h, NEW l \in 1 .. Walked(new, j)
       PROVE  us[Append(new[j].node, us[new[j].node].keys[l])].keys = <<>>
  <2>1. PICK m, keys, x : /\ m = st[j].node /\ keys = ns[m].keys /\ x = st[j].stack_child_index
    OBVIOUS
  <2>2. /\ j \in 1 .. k /\ j \in 1 .. k - 1 /\ j # k /\ new[j] = st[j] /\ us[m] = ns[m] /\ m \in DOMAIN ns
        /\ x \in 0 .. Len(keys) - 1 /\ Len(m) = j - 1 /\ st[j + 1].node = Append(m, keys[x + 1])
    <3>1. j \in 1 .. k /\ j \in 1 .. k - 1 /\ j # k /\ new[j] = st[j] BY <1>8
    <3>2. us[m] = ns[m] /\ m \in DOMAIN ns BY <1>1, <1>10, <2>1, <3>1
    <3>3. x \in -1 .. Len(keys) - 1 /\ x >= 0 BY <1>1, <2>1, <3>1
    <3>4. QED BY <1>1, <2>1, <3>1, <3>2, <3>3
  <2>3. m \in Seq(Letters) /\ keys \in Seq(Letters) /\ \A i \in DOMAIN keys : Append(m, keys[i]) \in DOMAIN ns
    BY <2>1, <2>2, NodeIs
  <2>4. Len(keys) \in Nat /\ DOMAIN keys = 1 .. Len(keys) /\ \A i \in 1 .. Len(keys) : keys[i] \in Letters
    BY <2>3, SequenceIs
  <2>5. Walked(st, j) = x BY <2>1, <2>2 DEF Walked
  <2>6. Walked(new, j) = IF j = h THEN x + 1 ELSE x BY <1>8, <2>1, <2>2 DEF Walked
  <2>7. l \in 1 .. Len(keys) /\ (l \in 1 .. x \/ (l = x + 1 /\ j = h))
    <3>1. PICK w : w = Walked(new, j) OBVIOUS
    <3>2. l \in 1 .. w /\ w = IF j = h THEN x + 1 ELSE x BY <1>12, <2>6, <3>1
    <3>3. CASE j = h BY <2>2, <2>4, <3>2, <3>3
    <3>4. CASE j # h BY <2>2, <2>4, <3>2, <3>4
    <3>5. QED BY <3>3, <3>4
  <2>8. PICK c, letter : letter = keys[l] /\ c = Append(m, letter) OBVIOUS
  <2>9. letter \in Letters /\ c \in DOMAIN ns /\ Len(c) = j
    <3>1. letter \in Letters /\ c \in DOMAIN ns BY <2>3, <2>4, <2>7, <2>8
    <3>2. Len(c) = Len(m) + 1 BY <2>3, <2>8, <3>1, AppendIs
    <3>3. QED BY <2>2, <3>1, <3>2
  <2>10. c \in DOMAIN us BY <1>6, <2>2, <2>9
  <2>11. us[c].keys = <<>>
    <3>1. CASE c = n BY <1>4, <3>1
    <3>2. CASE c # n
      <4>1. us[c] = ns[c] BY <1>5, <2>10, <3>2
      <4>2. ~(l = x + 1 /\ j = h)
        <5>1. SUFFICES ASSUME l = x + 1, j = h PROVE FALSE OBVIOUS
        <5>2. j + 1 = k BY <1>1, <1>7, <5>1
        <5>3. st[k].node = c BY <2>2, <2>8, <5>1, <5>2
        <5>4. QED BY <3>2, <5>3
      <4>3. l \in 1 .. Walked(st, j) BY <2>5, <2>7, <4>2
      <4>4. ns[c].keys = <<>> BY <2>1, <2>2, <2>8, <4>3 DEF EmptyBehind
      <4>5. QED BY <4>1, <4>4
    <3>3. QED BY <3>1, <3>2
  <2>12. new[j].node = m /\ us[new[j].node].keys = keys BY <2>1, <2>2
  <2>13. QED BY <2>8, <2>11, <2>12
<1>13. EmptyBehind(us, new) BY <1>8, <1>12 DEF EmptyBehind
<1>14. ASSUME new = <<>> PROVE us[Root].keys = <<>>
  <2>1. Len(new) = 0 BY <1>14
  <2>2. k \in Nat BY <1>1
  <2>3. h = 0 BY <1>8, <2>1
  <2>4. k = 1 BY ONLY <1>7, <2>2, <2>3
  <2>5. QED BY <1>1, <1>4, <2>4
<1>15. QED BY <1>4, <1>11, <1>13, <1>14

LEMMA KLeaveNode == ASSUME RInv, KInv, LeaveNode PROVE KInv'
<1>1. PICK n, k : n = Top.node /\ k = Len(stack) OBVIOUS
<1>2. /\ call \in {"next", "close"} /\ call' = call /\ len' = len /\ adding' = adding /\ given' = given
      /\ stack # <<>> /\ stack' = Front(stack) /\ side' = AfterPop
      /\ ~(HasChildren(n) /\ Len(nodes[n].children) - 1 > Top.stack_child_index)
      /\ nodes' = IF call = "close" /\ HasChildren(n)
                    THEN [m \in DOMAIN nodes \ ToSet(nodes[n].children) |->
                            IF m = n THEN [nodes[n] EXCEPT !.keys = <<>>, !.children = <<>>] ELSE nodes[m]]
                    ELSE nodes
  BY <1>1 DEF LeaveNode, Walking, MoreBelow
<1>3. Tree(nodes) /\ Keyed(nodes) /\ Stacked(nodes, stack) BY <1>2 DEF KInv, KNodes
<1>4. stack \in Seq(StackFrame) BY <1>3 DEF Stacked
<1>5. k \in Nat /\ k > 0 /\ k \in 1 .. k
  <2>1. k \in Nat BY <1>1, <1>4, SequenceIs
  <2>2. k # 0 BY <1>1, <1>2, <1>4, SequenceIs
  <2>3. QED BY <2>1, <2>2
<1>6. Top = stack[k] /\ n = stack[k].node BY <1>1 DEF Top, Last
<1>7. /\ n \in DOMAIN nodes
      /\ stack[k].stack_child_index \in -1 .. Len(nodes[n].keys) - 1
  BY <1>1, <1>3, <1>5, <1>6 DEF Stacked
<1>8. side' \in {"L", "R"} BY <1>2 DEF AfterPop, KInv, KTypes
<1>9. KTypes' BY <1>2, <1>8 DEF KInv, KTypes
<1>10. KAdding' BY <1>2 DEF KInv, KAdding, InAdd
<1>11. PICK ns, st, us, new : ns = nodes /\ st = stack /\ us = nodes' /\ new = stack' OBVIOUS
<1>12. Tree(ns) /\ Keyed(ns) /\ Stacked(ns, st) /\ k = Len(st) /\ n = st[k].node /\ new = Front(st)
  BY <1>1, <1>2, <1>3, <1>6, <1>11
<1>13. CASE call = "next"
  <2>1. us = ns BY <1>2, <1>11, <1>13
  <2>2. Stacked(ns, new) BY <1>5, <1>12, StackShrinks
  <2>3. KNodes' BY <1>2, <1>11, <1>12, <1>13, <2>1, <2>2 DEF KNodes
  <2>4. KClosing' BY <1>2, <1>13 DEF KClosing
  <2>5. QED BY <1>9, <1>10, <2>3, <2>4 DEF KInv
<1>14. CASE call = "close"
  <2>1. EmptyBehind(ns, st) BY <1>11, <1>14 DEF KInv, KClosing
  <2>2. /\ ns[n].keys \in Seq(Letters) /\ ns[n] \in Node
        /\ ns[n].children = [j \in DOMAIN ns[n].keys |-> Append(n, ns[n].keys[j])]
        /\ ns[n].children = <<>> <=> ns[n].keys = <<>>
    BY <1>3, <1>7, <1>11, NodeIs
  <2>3. Len(ns[n].keys) \in Nat /\ DOMAIN ns[n].keys = 1 .. Len(ns[n].keys) BY <2>2, SequenceIs
  <2>4. Len(ns[n].children) = Len(ns[n].keys)
    <3>1. ns[n].children \in Seq(Seq(Letters)) BY <2>2 DEF Node
    <3>2. DOMAIN ns[n].children = 1 .. Len(ns[n].keys) BY <2>2, <2>3
    <3>3. QED BY <2>3, <3>1, <3>2
  <2>5. Walked(st, k) = Len(ns[n].keys)
    <3>1. PICK x, y : x = st[k].stack_child_index /\ y = Len(ns[n].keys) OBVIOUS
    <3>2. x \in -1 .. y - 1 /\ y \in Nat BY <1>7, <1>11, <2>3, <3>1
    <3>3. ~(y # 0 /\ y - 1 > x)
      <4>1. ns[n].children # <<>> <=> y # 0 BY <2>2, <3>1, SequenceIs
      <4>2. QED BY <1>2, <1>6, <1>11, <2>4, <3>1, <4>1 DEF HasChildren
    <3>4. x + 1 = y BY <3>2, <3>3
    <3>5. QED BY <1>12, <3>1, <3>4 DEF Walked
  <2>6. Emptied(ns, us, n)
    <3>1. CASE HasChildren(n)
      <4>1. us = [m \in DOMAIN ns \ ToSet(ns[n].children) |->
                    IF m = n THEN [ns[n] EXCEPT !.keys = <<>>, !.children = <<>>] ELSE ns[m]]
        BY <1>2, <1>11, <1>14, <3>1
      <4>2. n \notin ToSet(ns[n].children)
        <5>1. SUFFICES ASSUME NEW j \in DOMAIN ns[n].keys, n = Append(n, ns[n].keys[j]) PROVE FALSE
          BY <2>2 DEF ToSet
        <5>2. PICK l : l = ns[n].keys[j] OBVIOUS
        <5>3. n \in Seq(Letters) BY <1>3, <1>7, NodeIs
        <5>4. l \in Letters BY <2>2, <2>3, <5>2, SequenceIs
        <5>5. l \in Letters /\ n \in Seq(Letters) BY <5>3, <5>4
        <5>6. Append(n, l) # n BY <5>5, ParentIs
        <5>7. QED BY <5>1, <5>2, <5>6
      <4>3. n \in DOMAIN ns BY <1>7, <1>11
      <4>4. QED BY <4>1, <4>2, <4>3 DEF Emptied
    <3>2. CASE ~HasChildren(n)
      <4>1. us = ns /\ ns[n].children = <<>> /\ ns[n].keys = <<>>
        BY <1>2, <1>11, <2>2, <3>2 DEF HasChildren
      <4>2. ToSet(ns[n].children) = {} BY <4>1 DEF ToSet
      <4>3. ns[n] = [ns[n] EXCEPT !.keys = <<>>, !.children = <<>>] BY <2>2, <4>1 DEF Node
      <4>4. QED BY <4>1, <4>2, <4>3 DEF Emptied
    <3>3. QED BY <3>1, <3>2
  <2>7. /\ Tree(us) /\ Keyed(us) /\ Stacked(us, new) /\ EmptyBehind(us, new)
        /\ new = <<>> => us[Root].keys = <<>>
    BY <1>5, <1>12, <2>1, <2>5, <2>6, StackEmptied
  <2>8. KNodes' BY <1>2, <1>11, <1>14, <2>7 DEF KNodes
  <2>9. KClosing' BY <1>11, <2>7 DEF KClosing
  <2>10. QED BY <1>9, <1>10, <2>8, <2>9 DEF KInv
<1>15. QED BY <1>2, <1>13, <1>14

\* A root without children is alone.
LEMMA RootAlone ==
  ASSUME NEW ns, Tree(ns), ns[Root].keys = <<>>
  PROVE  DOMAIN ns = {Root}
<1>1. Root \in DOMAIN ns /\ DOMAIN ns \subseteq Seq(Letters) BY DEF Tree
<1>2. SUFFICES ASSUME NEW o \in DOMAIN ns, o # Root PROVE FALSE BY <1>1
<1>3. PICK T : T = {Len(m) : m \in DOMAIN ns \ {Root}} OBVIOUS
<1>4. T \in SUBSET Nat /\ T # {}
  <2>1. \A m \in DOMAIN ns : Len(m) \in Nat BY <1>1, SequenceIs
  <2>2. QED BY <1>2, <1>3, <2>1
<1>5. PICK x \in T : \A y \in T : x <= y BY <1>4, LeastNatural
<1>6. PICK m \in DOMAIN ns \ {Root} : x = Len(m) BY <1>3, <1>5
<1>7. PICK n \in DOMAIN ns : \E i \in DOMAIN ns[n].keys : m = Append(n, ns[n].keys[i]) BY <1>6 DEF Tree
<1>8. PICK i \in DOMAIN ns[n].keys : m = Append(n, ns[n].keys[i]) BY <1>7
<1>9. n # Root BY <1>8
<1>10. Len(m) = Len(n) + 1 /\ Len(n) \in Nat
  <2>1. n \in Seq(Letters) /\ ns[n].keys \in Seq(Letters) BY NodeIs
  <2>2. PICK l : l = ns[n].keys[i] OBVIOUS
  <2>3. l \in Letters BY <2>1, <2>2, SequenceIs
  <2>4. Len(Append(n, l)) = Len(n) + 1 BY <2>1, <2>3, AppendIs
  <2>5. QED BY <1>8, <2>1, <2>2, <2>4, SequenceIs
<1>11. Len(n) \in T BY <1>3, <1>9
<1>12. x <= Len(n) BY <1>5, <1>11
<1>13. QED BY <1>6, <1>10, <1>12

LEMMA KFinishClose == ASSUME RInv, KInv, FinishClose PROVE KInv'
<1>1. /\ call = "close" /\ call' = "closed" /\ stack = <<>> /\ side = "R" /\ stack' = stack /\ side' = side
      /\ len' = len /\ adding' = adding /\ given' = given
      /\ nodes' = [n \in DOMAIN nodes \ {Root} |-> nodes[n]]
  BY DEF FinishClose, walked
<1>2. Tree(nodes) /\ nodes[Root].keys = <<>> BY <1>1 DEF KInv, KNodes, KClosing
<1>3. DOMAIN nodes' = {} BY <1>1, <1>2, RootAlone
<1>4. KTypes' BY <1>1 DEF KInv, KTypes
<1>5. KAdding' BY <1>1 DEF KInv, KAdding, InAdd
<1>6. KNodes' BY <1>1, <1>3 DEF KNodes
<1>7. KClosing' BY <1>1 DEF KClosing
<1>8. QED BY <1>4, <1>5, <1>6, <1>7 DEF KInv

LEMMA KInvStep == ASSUME RInv, RInv', KInv, Next PROVE KInv'
<1>1. ASSUME NEW k \in Keys, StartAdd(k) PROVE KInv' BY <1>1, KStartAdd
<1>2. ASSUME NEW k \in Keys, Get(k) PROVE KInv' BY <1>2, KStutter DEF Get, RestVars, walked
<1>3. CASE Iter
  <2>1. adding = NotAdding BY <1>3 DEF Iter, Idle, KInv, KAdding
  <2>2. QED BY <1>3, <2>1, KRests DEF Iter, Idle, walked
<1>4. CASE StartNext
  <2>1. given \in Keys \cup {None} /\ side \in {"L", "R"} BY DEF KInv, KTypes
  <2>2. QED BY <1>4, <2>1, KRests DEF StartNext, walked, KInv, KTypes
<1>5. CASE StartClose BY <1>5, KRests DEF StartClose, Idle, walked
<1>6. CASE NoMoreKeys
  <2>1. given \in Keys \cup {None} /\ side \in {"L", "R"} BY DEF KInv, KTypes
  <2>2. QED BY <1>6, <2>1, KRests DEF NoMoreKeys, walked, KInv, KTypes
<1>7. CASE FinishClose BY <1>7, KFinishClose
<1>8. CASE KeepSuffix BY <1>8, KKeepSuffix
<1>9. CASE BelowValue BY <1>9, KBelowValue
<1>10. CASE SameSuffix BY <1>10, KSameSuffix
<1>11. CASE OtherSuffix BY <1>11, KOtherSuffix
<1>12. CASE ChildFor BY <1>12, KChildFor
<1>13. CASE LettersEnd BY <1>13, KLettersEnd
<1>14. CASE FinishAdd BY <1>14, KFinishAdd
<1>15. CASE Enter BY <1>15, KEnter
<1>16. CASE LeaveNode BY <1>16, KLeaveNode
<1>17. QED
  BY <1>1, <1>2, <1>3, <1>4, <1>5, <1>6, <1>7, <1>8, <1>9, <1>10, <1>11, <1>12, <1>13,
     <1>14, <1>15, <1>16
  DEF Next, Calls, Steps

LEMMA KInvInit == Init => KInv
<1>1. SUFFICES ASSUME Init PROVE KInv OBVIOUS
<1>2. /\ DOMAIN nodes = {Root} /\ nodes[Root] = NewNode /\ len = 0 /\ call = "none" /\ stack = <<>>
      /\ side = "L" /\ adding = NotAdding /\ given = None
  BY <1>1 DEF Init
<1>3. RInv BY <1>1, RInvInit
<1>4. Tree(nodes) BY <1>2, <1>3 DEF RInv, Open
<1>5. Keyed(nodes) BY <1>2, NewNodeIs DEF Keyed
<1>6. PICK ns : ns = nodes OBVIOUS
<1>7. Stacked(ns, <<>>) BY StackEmpty
<1>8. KNodes BY <1>2, <1>4, <1>5, <1>6, <1>7 DEF KNodes
<1>9. KTypes BY <1>2, MaxKeysAssumption DEF KTypes
<1>10. KAdding BY <1>2 DEF KAdding, InAdd
<1>11. KClosing BY <1>2 DEF KClosing
<1>12. QED BY <1>8, <1>9, <1>10, <1>11 DEF KInv

-----------------------------------------------------------------------------
(***************************************************************************)
(* The keys that the tables spell                                          *)
(***************************************************************************)

\* P gives each place the letters that lead to it, and what is stored there is
\* stored with the key that is spelled.
LabelledAt(t, P, a) ==
  /\ \A i \in DOMAIN Links(t, a) : P[Links(t, a)[i]] = Onward(t, a, P[a], i)
  /\ a.table_type \in {"pass", "term", "suffix"} => RowAt(t, a).result.key = Spelled(t, a, P[a])

\* Such labels for all places; below the heads that are converted, each of which has its
\* own letters; and from the root, which has none.
Labelled(t, P) == P \in [Places(t) -> Seq(Letters)] /\ \A a \in Places(t) : LabelledAt(t, P, a)

LabelledBelow(t, P, f) == Labelled(t, P) /\ \A m \in Uppermost(DOMAIN f) : P[f[m]] = m

LabelledFrom(t, P)     == Labelled(t, P) /\ P[t.root_id] = <<>>

\* A frame of the iterator is at a place, and has its letters.
KeyFrame == [id : Address, child_index : Int, key : Seq(Letters)]

FrameFits(t, P, f) ==
  /\ f.id \in Places(t) /\ f.key = P[f.id]
  /\ f.child_index >= -1 /\ f.child_index < Len(Links(t, f.id))

FramesFit(t, P, fs) == fs \in Seq(KeyFrame) /\ \A i \in 1 .. Len(fs) : FrameFits(t, P, fs[i])

Finished == state \in {"DIRTY", "CONVERTED", "READ"} /\ Root \in DOMAIN ids

\* The iterator is between keys of an exchange or of a lookup; in the radix trie one key
\* more is passed.
LWalk ==
  /\ frames # <<>> => Exchanging \/ LookingUp
  /\ \/ upto = NoKeyAt
     \/ /\ state \in {"CONVERTED", "READ"} /\ upto \in [i : 0 .. MaxKeys, passed : 0 .. MaxKeys]
        /\ upto.passed <= upto.i
     \/ state = "RAW" /\ upto \in [i : 0 .. MaxKeys, passed : 0 .. MaxKeys + 1]

\* The invariant: there are labels, in every state of the tables.
LInv ==
  /\ DOMAIN ids \subseteq Seq(Letters) /\ LWalk
  /\ Converting => \E P : LabelledBelow(tt, P, ids)
  /\ Finished => \E P : LabelledFrom(tt, P) /\ FramesFit(tt, P, frames)
  /\ state = "CLOSED" => \E P : LabelledFrom(written, P)

\* What a row that is added has below it is spelled as it is, and what it stores.
LeadsOn(t, u, a, P, key) ==
  /\ \A i \in DOMAIN Links(u, a) : /\ Links(u, a)[i] \in Places(t)
                                   /\ P[Links(u, a)[i]] = Onward(u, a, key, i)
  /\ a.table_type \in {"pass", "term", "suffix"} => RowAt(u, a).result.key = Spelled(u, a, key)

\* The labels P with one for a
LabelsWith(t, u, P, a, key) == \E Q : Labelled(u, Q) /\ Q[a] = key /\ \A b \in Places(t) : Q[b] = P[b]

LEMMA RowsSpell ==
  ASSUME NEW t, NEW u, NEW a, RowAt(u, a) = RowAt(t, a), NameAt(u, a) = NameAt(t, a)
  PROVE  \A key, i : Onward(u, a, key, i) = Onward(t, a, key, i) /\ Spelled(u, a, key) = Spelled(t, a, key)
BY DEF Onward, Spelled

LEMMA LinkedWithin ==
  ASSUME NEW t, NEW F, LinkedBut(t, F), NEW a \in Places(t), NEW i \in DOMAIN Links(t, a)
  PROVE  Links(t, a)[i] \in Places(t)
<1>1. PICK P, L : P = Places(t) /\ L = [b \in P |-> Links(t, b)] OBVIOUS
<1>2. Linked(P, L, F) BY <1>1 DEF LinkedBut
<1>3. L[a] \in Seq(P \ F) BY <1>1, <1>2 DEF Linked
<1>4. PICK s, R : s = L[a] /\ R = P \ F OBVIOUS
<1>5. s \in Seq(R) /\ s = Links(t, a) BY <1>1, <1>3, <1>4
<1>6. s[i] \in R BY <1>5, SequenceIs
<1>7. QED BY <1>1, <1>4, <1>5, <1>6

LEMMA LabelMore ==
  ASSUME NEW t, NEW u, NEW a, OneMore(t, u, a), NEW F, LinkedBut(t, F), NEW P, Labelled(t, P),
         NEW key \in Seq(Letters), LeadsOn(t, u, a, P, key)
  PROVE  LabelsWith(t, u, P, a, key)
<1>1. Places(u) = Places(t) \cup {a} /\ a \notin Places(t) BY PlaceMore
<1>2. PICK Q : Q = [b \in Places(u) |-> IF b = a THEN key ELSE P[b]] OBVIOUS
<1>3. Q[a] = key /\ \A b \in Places(t) : Q[b] = P[b] BY <1>1, <1>2
<1>4. P \in [Places(t) -> Seq(Letters)] BY DEF Labelled
<1>5. Q \in [Places(u) -> Seq(Letters)]
  <2>1. \A b \in Places(u) : (IF b = a THEN key ELSE P[b]) \in Seq(Letters) BY <1>1, <1>4
  <2>2. QED BY <1>2, <2>1
<1>6. ASSUME NEW b \in Places(t) PROVE LabelledAt(u, Q, b)
  <2>1. RowAt(u, b) = RowAt(t, b) /\ NameAt(u, b) = NameAt(t, b) /\ Links(u, b) = Links(t, b)
    BY DEF OneMore
  <2>2. \A k, i : Onward(u, b, k, i) = Onward(t, b, k, i) /\ Spelled(u, b, k) = Spelled(t, b, k)
    BY <2>1, RowsSpell
  <2>3. PICK s : s = Links(t, b) OBVIOUS
  <2>4. \A i \in DOMAIN s : P[s[i]] = Onward(t, b, P[b], i) BY <2>3 DEF Labelled, LabelledAt
  <2>5. \A i \in DOMAIN s : s[i] \in Places(t) BY <2>3, LinkedWithin
  <2>6. Q[b] = P[b] BY <1>3
  <2>7. \A i \in DOMAIN s : Q[s[i]] = Onward(u, b, Q[b], i) BY <1>3, <2>2, <2>4, <2>5, <2>6
  <2>8. b.table_type \in {"pass", "term", "suffix"} => RowAt(t, b).result.key = Spelled(t, b, P[b])
    BY DEF Labelled, LabelledAt
  <2>9. b.table_type \in {"pass", "term", "suffix"} => RowAt(u, b).result.key = Spelled(u, b, Q[b])
    BY <2>1, <2>2, <2>6, <2>8
  <2>10. QED BY <2>1, <2>3, <2>7, <2>9 DEF LabelledAt
<1>7. LabelledAt(u, Q, a)
  <2>1. PICK s : s = Links(u, a) OBVIOUS
  <2>2. \A i \in DOMAIN s : s[i] \in Places(t) /\ P[s[i]] = Onward(u, a, key, i) BY <2>1 DEF LeadsOn
  <2>3. \A i \in DOMAIN s : Q[s[i]] = Onward(u, a, Q[a], i) BY <1>3, <2>2
  <2>4. QED BY <1>3, <2>1, <2>3 DEF LabelledAt, LeadsOn
<1>8. Labelled(u, Q) BY <1>1, <1>5, <1>6, <1>7 DEF Labelled
<1>9. QED BY <1>3, <1>8 DEF LabelsWith

\* A row with no ids in it
LEMMA LeafLabelled ==
  ASSUME NEW t, Shapely(t), NEW type \in {"term", "suffix"}, NEW row, RowOfType(type, row),
         NEW F, LinkedBut(t, F), NEW new, new = Appended(t, type, row), NEW P, Labelled(t, P),
         NEW key \in Seq(Letters),
         row.result.key = IF type = "suffix" THEN key \o row.suffix ELSE key
  PROVE  LabelsWith(t, new.tables, P, new.id, key)
<1>1. type \in Plain BY DEF Plain
<1>2. PICK u, a : u = new.tables /\ a = new.id OBVIOUS
<1>3. OneMore(t, u, a) /\ RowAt(u, a) = row /\ a.table_type = type BY <1>1, <1>2, AppendedIs
<1>4. Links(u, a) = <<>> BY <1>3 DEF Links
<1>5. DOMAIN Links(u, a) = {} BY <1>4
<1>6. Spelled(u, a, key) = row.result.key BY <1>3 DEF Spelled
<1>7. LeadsOn(t, u, a, P, key) BY <1>3, <1>5, <1>6 DEF LeadsOn
<1>8. LabelsWith(t, u, P, a, key) BY <1>3, <1>7, LabelMore
<1>9. QED BY <1>2, <1>8

LEMMA InnerLabelled ==
  ASSUME NEW t, NEW u, NEW a, OneMore(t, u, a), a.table_type \in {"choice", "infix"},
         NEW f, NEW K, NEW n \in Seq(Letters), LeadsTo(u, a, n, f, K),
         NEW F, LinkedBut(t, F), GivenIn(f, K, F), NEW P, Labelled(t, P), \A k \in K : P[f[k]] = k
  PROVE  LabelsWith(t, u, P, a, n)
<1>1. F \subseteq Places(t) BY DEF LinkedBut, Linked
<1>2. PICK s : s = Links(u, a) OBVIOUS
<1>3. \A i \in DOMAIN s : \E k \in K : s[i] = f[k] /\ Onward(u, a, n, i) = k BY <1>2 DEF LeadsTo
<1>4. \A i \in DOMAIN s : s[i] \in Places(t) /\ P[s[i]] = Onward(u, a, n, i)
  BY <1>1, <1>3 DEF GivenIn
<1>5. LeadsOn(t, u, a, P, n) BY <1>2, <1>4 DEF LeadsOn
<1>6. QED BY <1>5, LabelMore

\* A node with a value and children: the passthrough row has the letters of the row below.
LEMMA PassLabelled ==
  ASSUME NEW t, NEW inner, NEW G, NewTables(t, inner, G), NEW result \in Buffers \cup Streams,
         NEW new, new = Appended(inner.tables, "pass", [id |-> inner.id, result |-> result]),
         NEW n \in Seq(Letters), result.key = n, NEW P, LabelsWith(t, inner.tables, P, inner.id, n),
         Places(t) \subseteq Places(inner.tables)
  PROVE  LabelsWith(t, new.tables, P, new.id, n)
<1>1. PICK v, x, row : v = inner.tables /\ x = inner.id /\ row = [id |-> x, result |-> result] OBVIOUS
<1>2. Shapely(v) /\ LinkedBut(v, G \cup {x}) /\ x \in Address BY <1>1 DEF NewTables
<1>3. RowOfType("pass", row)
  <2>1. row \in [id : Address, result : Buffers \cup Streams] BY <1>1, <1>2
  <2>2. QED BY <2>1 DEF RowOfType
<1>4. PICK u, a : u = new.tables /\ a = new.id OBVIOUS
<1>5. "pass" \in Plain BY DEF Plain
<1>6. new = Appended(v, "pass", row) BY <1>1
<1>7. OneMore(v, u, a) /\ RowAt(u, a) = row /\ a.table_type = "pass"
  BY <1>2, <1>3, <1>4, <1>5, <1>6, AppendedIs
<1>8. row.id = x /\ row.result = result BY <1>1
<1>9. Links(u, a) = <<x>> BY <1>7, <1>8 DEF Links
<1>10. PICK Q : Labelled(v, Q) /\ Q[x] = n /\ \A b \in Places(t) : Q[b] = P[b] BY <1>1 DEF LabelsWith
<1>11. x \in Places(v) BY <1>2 DEF LinkedBut, Linked
<1>12. \A i : Onward(u, a, n, i) = n BY <1>7 DEF Onward
<1>13. Spelled(u, a, n) = n BY <1>7 DEF Spelled
<1>14. LeadsOn(v, u, a, Q, n)
  <2>1. PICK s : s = Links(u, a) OBVIOUS
  <2>2. \A i \in DOMAIN s : s[i] = x BY <1>9, <2>1
  <2>3. \A i \in DOMAIN s : s[i] \in Places(v) /\ Q[s[i]] = Onward(u, a, n, i) BY <1>10, <1>11, <1>12, <2>2
  <2>4. RowAt(u, a).result.key = Spelled(u, a, n) BY <1>7, <1>8, <1>13
  <2>5. QED BY <2>1, <2>3, <2>4 DEF LeadsOn
<1>15. LabelsWith(v, u, Q, a, n) BY <1>2, <1>7, <1>10, <1>14, LabelMore
<1>16. PICK R : Labelled(u, R) /\ R[a] = n /\ \A b \in Places(v) : R[b] = Q[b] BY <1>15 DEF LabelsWith
<1>17. \A b \in Places(t) : R[b] = P[b] BY <1>1, <1>10, <1>16
<1>18. QED BY <1>4, <1>16, <1>17 DEF LabelsWith

\* The key of a node with a value is stored with it.
LEMMA ValueKey ==
  ASSUME Tree(nodes), Keyed(nodes), NEW n \in DOMAIN nodes, nodes[n].has_value
  PROVE  /\ nodes[n].result.key = n \o nodes[n].suffix
         /\ nodes[n].suffix = <<>> => nodes[n].result.key = n
<1>1. nodes[n].result = Buffer(LabelOf(nodes, n)) BY DEF Keyed
<1>2. nodes[n].result.key = n \o nodes[n].suffix BY <1>1 DEF Buffer, LabelOf
<1>3. n \in Seq(Letters) BY NodeIs
<1>4. n \o <<>> = n BY <1>3, WithNone
<1>5. QED BY <1>2, <1>4

LEMMA ConvertedSpells ==
  ASSUME Tree(nodes), Keyed(nodes), Bounded, Shapely(tt), NEW n \in Heads, ~Fatal(n),
         nodes[n].has_value => nodes[n].result \in Buffers, HasSuffix(n) => nodes[n].has_value,
         NEW F, LinkedBut(tt, F), GivenIn(ids, Kids(n), F),
         NEW P, Labelled(tt, P), \A k \in Kids(n) : P[ids[k]] = k,
         NEW found \in MissedNames(nodes[n].keys), NEW new, new = Converted(n, found)
  PROVE  LabelsWith(tt, new.tables, P, new.id, n)
<1>1. n \in DOMAIN nodes /\ n \in Seq(Letters) BY HeadsAre
<1>2. /\ nodes[n].suffix \in Seq(Letters) /\ nodes[n].suffix_len = Len(nodes[n].suffix)
      /\ nodes[n].has_value \in BOOLEAN /\ Shape(n, nodes[n])
  BY <1>1, NodeIs
<1>3. HasSuffix(n) => ~HasChildren(n) BY <1>2 DEF Shape, HasSuffix, HasChildren
<1>4. PICK r : r = nodes[n].result OBVIOUS
<1>5. nodes[n].has_value => r \in Buffers \cup Streams BY <1>4
<1>6. /\ nodes[n].has_value => r.key = n \o nodes[n].suffix
      /\ nodes[n].has_value /\ ~HasSuffix(n) => r.key = n
  BY <1>1, <1>4, ValueKey DEF HasSuffix
<1>7. CASE HasSuffix(n)
  <2>1. PICK s, row : s = Suffix(n) /\ row = [suffix |-> s, result |-> r] OBVIOUS
  <2>2. s = nodes[n].suffix /\ s \in Seq(Letters)
    <3>1. s = nodes[n].suffix BY <1>2, <2>1, SubSeqFull DEF Suffix
    <3>2. QED BY <1>2, <3>1
  <2>3. row \in [suffix : Seq(Letters), result : Buffers \cup Streams] BY <1>5, <1>7, <2>1, <2>2
  <2>4. RowOfType("suffix", row) BY <2>3 DEF RowOfType
  <2>5. new = Appended(tt, "suffix", row) BY <1>3, <1>4, <1>7, <2>1 DEF Converted
  <2>6. row.result.key = n \o row.suffix BY <1>6, <1>7, <2>1, <2>2
  <2>7. QED BY <1>1, <2>4, <2>5, <2>6, LeafLabelled
<1>8. CASE ~HasSuffix(n) /\ ~HasChildren(n)
  <2>1. nodes[n].has_value BY <1>8 DEF Fatal
  <2>2. PICK row : row = [result |-> r] OBVIOUS
  <2>3. row \in [result : Buffers \cup Streams] BY <1>5, <2>1, <2>2
  <2>4. RowOfType("term", row) BY <2>3 DEF RowOfType
  <2>5. new = Appended(tt, "term", row) BY <1>4, <1>8, <2>2 DEF Converted
  <2>6. row.result.key = n BY <1>6, <1>8, <2>1, <2>2
  <2>7. QED BY <1>1, <2>4, <2>5, <2>6, LeafLabelled
<1>9. CASE HasChildren(n)
  <2>1. PICK inner : inner = Inner(n, found) OBVIOUS
  <2>2. PICK G : G = F \ GivenFor(ids, Kids(n)) OBVIOUS
  <2>3. F \subseteq Places(tt) BY DEF LinkedBut, Linked
  <2>4. \A k \in Kids(n) : ids[k] \in Address BY <2>3 DEF Places, GivenIn
  <2>5. /\ Shapely(inner.tables) /\ inner.tables.root_id = tt.root_id
        /\ OneMore(tt, inner.tables, inner.id) /\ Holds(Links(inner.tables, inner.id), ids, Kids(n))
        /\ LeadsTo(inner.tables, inner.id, n, ids, Kids(n)) /\ inner.id.table_type \in {"choice", "infix"}
    BY <1>9, <2>1, <2>4, InnerIs
  <2>6. NewTables(tt, inner, G) BY <2>2, <2>5, InnerLinked
  <2>7. LabelsWith(tt, inner.tables, P, inner.id, n)
    <3>1. PICK u, a : u = inner.tables /\ a = inner.id OBVIOUS
    <3>2. OneMore(tt, u, a) /\ a.table_type \in {"choice", "infix"} /\ LeadsTo(u, a, n, ids, Kids(n))
      BY <2>5, <3>1
    <3>3. LabelsWith(tt, u, P, a, n) BY <1>1, <3>2, InnerLabelled
    <3>4. QED BY <3>1, <3>3
  <2>8. new = WithValue(n, inner) BY <1>3, <1>9, <2>1 DEF Converted
  <2>9. CASE nodes[n].has_value
    <3>1. r \in Buffers \cup Streams /\ r.key = n BY <1>3, <1>5, <1>6, <1>9, <2>9
    <3>2. new = Appended(inner.tables, "pass", [id |-> inner.id, result |-> r])
      BY <1>4, <2>8, <2>9 DEF WithValue
    <3>3. Places(tt) \subseteq Places(inner.tables) BY <2>5, PlaceMore
    <3>4. QED BY <1>1, <2>6, <2>7, <3>1, <3>2, <3>3, PassLabelled
  <2>10. CASE ~nodes[n].has_value
    <3>1. new = inner BY <2>8, <2>10 DEF WithValue
    <3>2. QED BY <2>7, <3>1
  <2>11. QED BY <2>9, <2>10
<1>10. QED BY <1>7, <1>8, <1>9

LEMMA SameLabels ==
  ASSUME NEW t, NEW u, SameSpelling(t, u), NEW P, Labelled(t, P)
  PROVE  Labelled(u, P)
<1>1. Places(u) = Places(t) /\ P \in [Places(t) -> Seq(Letters)] BY DEF SameSpelling, Labelled
<1>2. SUFFICES ASSUME NEW a \in Places(t) PROVE LabelledAt(u, P, a) BY <1>1 DEF Labelled
<1>3. /\ Links(u, a) = Links(t, a)
      /\ \A key, i : Onward(u, a, key, i) = Onward(t, a, key, i) /\ Spelled(u, a, key) = Spelled(t, a, key)
      /\ a.table_type \in {"pass", "term", "suffix"} => RowAt(u, a).result.key = RowAt(t, a).result.key
  BY DEF SameSpelling
<1>4. LabelledAt(t, P, a) BY DEF Labelled
<1>5. PICK s : s = Links(t, a) OBVIOUS
<1>6. \A i \in DOMAIN s : P[s[i]] = Onward(t, a, P[a], i) BY <1>4, <1>5 DEF LabelledAt
<1>7. \A i \in DOMAIN s : P[s[i]] = Onward(u, a, P[a], i) BY <1>3, <1>6
<1>8. QED BY <1>3, <1>4, <1>5, <1>7 DEF LabelledAt

LEMMA SameFrames ==
  ASSUME NEW t, NEW u, SameSpelling(t, u), NEW P, NEW fs, FramesFit(t, P, fs)
  PROVE  FramesFit(u, P, fs)
<1>1. SUFFICES ASSUME NEW i \in 1 .. Len(fs) PROVE FrameFits(u, P, fs[i]) BY DEF FramesFit
<1>2. FrameFits(t, P, fs[i]) BY DEF FramesFit
<1>3. PICK f : f = fs[i] OBVIOUS
<1>4. f.id \in Places(t) BY <1>2, <1>3 DEF FrameFits
<1>5. Places(u) = Places(t) /\ Links(u, f.id) = Links(t, f.id) BY <1>4 DEF SameSpelling
<1>6. QED BY <1>2, <1>3, <1>5 DEF FrameFits

LEMMA NoFrames == ASSUME NEW t, NEW P PROVE FramesFit(t, P, <<>>)
<1>1. <<>> \in Seq(KeyFrame) /\ 1 .. Len(<<>>) = {} OBVIOUS
<1>2. QED BY <1>1 DEF FramesFit

\* Head n is converted, and the ids are f from then on.
ConvertsTo(n, found, new, f) ==
  /\ n \in Heads \ DOMAIN ids /\ ~Fatal(n)
  /\ \A m \in Heads \ DOMAIN ids : m = n \/ ConvertedBefore(n, m)
  /\ nodes[n].has_value => nodes[n].result \in Buffers
  /\ HasSuffix(n) => nodes[n].has_value
  /\ found \in MissedNames(nodes[n].keys) /\ new = Converted(n, found)
  /\ f = [m \in DOMAIN ids \cup {n} |-> IF m = n THEN new.id ELSE ids[m]]

LEMMA LabelsConverted ==
  ASSUME Tree(nodes), Keyed(nodes), Bounded, Partly(tt, ids, Heads),
         NEW n, NEW found, NEW new, NEW f, ConvertsTo(n, found, new, f), NEW P, LabelledBelow(tt, P, ids)
  PROVE  \E Q : LabelledBelow(new.tables, Q, f) /\ Q[new.id] = n
<1>1. /\ n \in Heads \ DOMAIN ids /\ ~Fatal(n)
      /\ \A m \in Heads \ DOMAIN ids : m = n \/ ConvertedBefore(n, m)
      /\ nodes[n].has_value => nodes[n].result \in Buffers
      /\ HasSuffix(n) => nodes[n].has_value
      /\ found \in MissedNames(nodes[n].keys) /\ new = Converted(n, found)
      /\ f = [m \in DOMAIN ids \cup {n} |-> IF m = n THEN new.id ELSE ids[m]]
  BY DEF ConvertsTo
<1>2. PICK D, U, F : D = DOMAIN ids /\ U = Uppermost(D) /\ F = {ids[m] : m \in U} OBVIOUS
<1>3. /\ Shapely(tt) /\ D \in SUBSET Heads /\ n \notin D /\ n \in Heads
      /\ \A m \in D, o \in Heads : IsStrictPrefix(m, o) => o \in D
      /\ \A m, o \in U : ids[m] = ids[o] => m = o
      /\ LinkedBut(tt, F)
  BY <1>1, <1>2 DEF Partly, FreeOf
<1>4. \A o \in Heads : IsStrictPrefix(n, o) => o \in D BY <1>1, <1>2, BelowFirst
<1>5. PICK K : K = Kids(n) OBVIOUS
<1>6. K \subseteq U /\ Uppermost(D \cup {n}) = (U \ K) \cup {n} BY <1>2, <1>3, <1>4, <1>5, UppermostChanges
<1>7. GivenIn(ids, K, F) BY <1>2, <1>3, <1>6 DEF GivenIn
<1>8. Labelled(tt, P) /\ \A m \in U : P[ids[m]] = m BY <1>2 DEF LabelledBelow
<1>9. \A k \in K : P[ids[k]] = k BY <1>6, <1>8
<1>10. PICK u, id : u = new.tables /\ id = new.id OBVIOUS
<1>11. LabelsWith(tt, u, P, id, n) BY <1>1, <1>3, <1>5, <1>7, <1>8, <1>9, <1>10, ConvertedSpells
<1>12. PICK Q : Labelled(u, Q) /\ Q[id] = n /\ \A b \in Places(tt) : Q[b] = P[b] BY <1>11 DEF LabelsWith
<1>13. F \subseteq Places(tt) BY <1>3 DEF LinkedBut, Linked
<1>14. U \subseteq D /\ n \notin U BY <1>2, <1>3 DEF Uppermost
<1>15. DOMAIN f = D \cup {n} /\ f[n] = id /\ \A m \in D : f[m] = ids[m] BY <1>1, <1>2, <1>3, <1>10
<1>16. \A m \in U : Q[f[m]] = m
  <2>1. SUFFICES ASSUME NEW m \in U PROVE Q[f[m]] = m OBVIOUS
  <2>2. f[m] = ids[m] /\ ids[m] \in F BY <1>2, <1>14, <1>15
  <2>3. QED BY <1>8, <1>12, <1>13, <2>2
<1>17. \A m \in Uppermost(DOMAIN f) : Q[f[m]] = m BY <1>6, <1>12, <1>15, <1>16
<1>18. QED BY <1>10, <1>12, <1>17 DEF LabelledBelow

LEMMA LConvert == ASSUME RInv, TInv, KInv, LInv, ConvertSubtrie PROVE LInv'
<1>1. /\ state = "DIRTY" /\ Idle /\ Root \notin DOMAIN ids /\ nodes' = nodes /\ state' = state
      /\ frames' = frames /\ upto' = upto
  BY DEF ConvertSubtrie, iterator
<1>2. Open /\ Tree(nodes) /\ Filled BY <1>1 DEF Idle, Open, RInv
<1>3. Bounded /\ Converting BY <1>1, <1>2 DEF TInv, Converting
<1>4. Partly(tt, ids, Heads) BY <1>3 DEF TInv
<1>5. Keyed(nodes) BY <1>1 DEF KInv, KNodes, Idle
<1>6. upto = NoKeyAt /\ frames = <<>> BY <1>1 DEF LInv, LWalk, Exchanging, Idle, LookingUp
<1>7. PICK P : LabelledBelow(tt, P, ids) BY <1>3 DEF LInv
<1>8. LWalk' BY <1>1, <1>6 DEF LWalk
<1>9. state' = "DIRTY" BY <1>1
<1>10. PICK n \in Heads \ DOMAIN ids :
        /\ \A m \in Heads \ DOMAIN ids : m = n \/ ConvertedBefore(n, m)
        /\ IF Fatal(n)
             THEN call' = "crashed" /\ UNCHANGED <<tt, ids>>
             ELSE \E found \in MissedNames(nodes[n].keys) :
                    LET new == Converted(n, found) IN
                    /\ ids' = [m \in DOMAIN ids \cup {n} |-> IF m = n THEN new.id ELSE ids[m]]
                    /\ tt' = IF n = Root THEN [new.tables EXCEPT !.root_id = new.id]
                                         ELSE new.tables
                    /\ UNCHANGED call
  BY DEF ConvertSubtrie
<1>11. n \in DOMAIN nodes /\ n \in Seq(Letters) BY <1>2, HeadsAre
<1>12. CASE Fatal(n)
  <2>1. tt' = tt /\ ids' = ids BY <1>10, <1>12
  <2>2. LabelledBelow(tt', P, ids') BY <1>7, <2>1
  <2>3. ~Finished' BY <1>1, <2>1 DEF Finished
  <2>4. QED BY <1>8, <1>9, <2>1, <2>2, <2>3 DEF LInv
<1>13. CASE ~Fatal(n)
  <2>1. PICK found \in MissedNames(nodes[n].keys) :
          LET new == Converted(n, found) IN
          /\ ids' = [m \in DOMAIN ids \cup {n} |-> IF m = n THEN new.id ELSE ids[m]]
          /\ tt' = IF n = Root THEN [new.tables EXCEPT !.root_id = new.id]
                               ELSE new.tables
          /\ UNCHANGED call
    BY <1>10, <1>13
  <2>2. PICK new : new = Converted(n, found) OBVIOUS
  <2>3. PICK f : f = [m \in DOMAIN ids \cup {n} |-> IF m = n THEN new.id ELSE ids[m]] OBVIOUS
  <2>4. /\ ids' = f
        /\ tt' = IF n = Root THEN [new.tables EXCEPT !.root_id = new.id] ELSE new.tables
    BY <2>1, <2>2, <2>3
  <2>5. nodes[n].has_value => nodes[n].result \in Buffers BY <1>2, <1>11, NodeIs DEF Node
  <2>6. HasSuffix(n) => nodes[n].has_value
    <3>1. call # "added" /\ call # "crashed" BY <1>1 DEF Idle
    <3>2. QED BY <1>2, <1>11, <3>1 DEF Filled
  <2>7. /\ Partly(new.tables, f, Heads) /\ DOMAIN f = DOMAIN ids \cup {n} /\ f[n] = new.id
        /\ new.id \in Address
    BY <1>2, <1>3, <1>4, <1>10, <1>13, <2>2, <2>3, <2>5, <2>6, ConvertedPartly
  <2>8. \E Q : LabelledBelow(new.tables, Q, f) /\ Q[new.id] = n
    <3>1. ConvertsTo(n, found, new, f) BY <1>10, <1>13, <2>2, <2>3, <2>5, <2>6 DEF ConvertsTo
    <3>2. QED BY <1>2, <1>3, <1>4, <1>5, <1>7, <3>1, LabelsConverted
  <2>9. PICK u, a : u = new.tables /\ a = new.id OBVIOUS
  <2>10. PICK Q : LabelledBelow(u, Q, f) /\ Q[a] = n BY <2>8, <2>9
  <2>11. DOMAIN ids' \subseteq Seq(Letters) BY <1>11, <2>4, <2>7 DEF LInv
  <2>12. CASE n = Root
    <3>1. PICK t : t = tt' OBVIOUS
    <3>2. Root \in DOMAIN f /\ DOMAIN f \subseteq Heads /\ f[Root] = a BY <2>7, <2>9, <2>12 DEF Partly
    <3>3. FreeOf(f) = {a} BY <1>2, <3>2, AllConverted
    <3>4. Shapely(u) /\ LinkedBut(u, {a}) /\ a \in Address BY <2>7, <2>9, <3>3 DEF Partly
    <3>5. RootSet(u, t, a) BY <2>4, <2>9, <2>12, <3>1 DEF RootSet
    <3>6. SameSpelling(u, t) /\ t.root_id = a BY <3>4, <3>5, RootConverted
    <3>7. Labelled(t, Q) BY <2>10, <3>6, SameLabels DEF LabelledBelow
    <3>8. LabelledFrom(t, Q) BY <2>10, <2>12, <3>6, <3>7 DEF LabelledFrom, Root
    <3>9. frames' = <<>> BY <1>1, <1>6
    <3>10. FramesFit(t, Q, frames') BY <3>9, NoFrames
    <3>11. \E R : LabelledFrom(tt', R) /\ FramesFit(tt', R, frames') BY <3>1, <3>8, <3>10
    <3>12. ~Converting' BY <2>4, <3>2 DEF Converting
    <3>13. QED BY <1>8, <1>9, <2>11, <3>11, <3>12 DEF LInv
  <2>13. CASE n # Root
    <3>1. LabelledBelow(tt', Q, ids') BY <2>4, <2>9, <2>10, <2>13
    <3>2. ~Finished' BY <1>1, <2>4, <2>7, <2>13 DEF Finished
    <3>3. QED BY <1>8, <1>9, <2>11, <3>1, <3>2 DEF LInv
  <2>14. QED BY <2>12, <2>13
<1>14. QED BY <1>12, <1>13

LEMMA ChildrenAre ==
  ASSUME NEW F, LinkedBut(tt, F), NEW f, f.id \in Places(tt), NEW s, s = Links(tt, f.id)
  PROVE  /\ s \in Seq(Places(tt)) /\ Len(Children(f)) = Len(s)
         /\ \A i \in 1 .. Len(s) : Children(f)[i] = NewFrame(s[i], Onward(tt, f.id, f.key, i))
<1>1. PICK P, L : P = Places(tt) /\ L = [b \in P |-> Links(tt, b)] OBVIOUS
<1>2. Linked(P, L, F) BY <1>1 DEF LinkedBut
<1>3. L[f.id] \in Seq(P \ F) BY <1>1, <1>2 DEF Linked
<1>4. s \in Seq(P \ F) BY <1>1, <1>3
<1>5. s \in Seq(P) /\ Len(s) \in Nat /\ DOMAIN s = 1 .. Len(s) BY <1>4
<1>6. f.id \in Address BY DEF Places
<1>7. f.id.table_type \in {"choice", "infix", "pass", "term", "suffix"} BY <1>6 DEF Address, Plain
<1>8. PICK a, key, row, name, c :
        a = f.id /\ key = f.key /\ row = RowAt(tt, a) /\ name = NameAt(tt, a) /\ c = Children(f)
  OBVIOUS
<1>9. CASE a.table_type = "choice"
  <2>1. s = row BY <1>8, <1>9 DEF Links
  <2>2. c = [i \in DOMAIN row |-> NewFrame(row[i], Append(key, name[i]))]
    BY <1>8, <1>9 DEF Children, RowOf, NameAt
  <2>3. \A i : Onward(tt, a, key, i) = Append(key, name[i]) BY <1>8, <1>9 DEF Onward
  <2>4. Len(c) = Len(s) BY <1>5, <2>1, <2>2
  <2>5. QED BY <1>1, <1>5, <1>8, <2>1, <2>2, <2>3, <2>4
<1>10. CASE a.table_type \in {"infix", "pass"}
  <2>1. s = <<row.id>> BY <1>8, <1>10 DEF Links
  <2>2. c = <<NewFrame(row.id, Onward(tt, a, key, 1))>>
    BY <1>8, <1>10 DEF Children, RowOf, Onward
  <2>3. Len(s) = 1 /\ Len(c) = 1 /\ 1 .. 1 = {1} /\ s[1] = row.id BY <2>1, <2>2
  <2>4. c[1] = NewFrame(s[1], Onward(tt, a, key, 1)) BY <2>2, <2>3
  <2>5. QED BY <1>1, <1>5, <1>8, <2>3, <2>4
<1>11. CASE a.table_type \in {"term", "suffix"}
  <2>1. s = <<>> BY <1>8, <1>11 DEF Links
  <2>2. c = <<>> BY <1>8, <1>11 DEF Children
  <2>3. QED BY <1>1, <1>5, <1>8, <2>1, <2>2
<1>12. QED BY <1>7, <1>8, <1>9, <1>10, <1>11

LEMMA NewFrameFits ==
  ASSUME NEW F, LinkedBut(tt, F), NEW P, Labelled(tt, P), NEW a \in Places(tt), NEW key, key = P[a],
         NEW f, f = NewFrame(a, key)
  PROVE  f \in KeyFrame /\ FrameFits(tt, P, f)
<1>1. P[a] \in Seq(Letters) BY DEF Labelled
<1>2. a \in Address BY DEF Places
<1>3. f.id = a /\ f.key = key /\ f.child_index = -1 BY DEF NewFrame
<1>4. f \in KeyFrame BY <1>1, <1>2 DEF NewFrame, KeyFrame
<1>5. Len(Links(tt, a)) \in Nat
  <2>1. Links(tt, f.id) \in Seq(Places(tt)) BY <1>3, ChildrenAre
  <2>2. PICK s : s = Links(tt, a) OBVIOUS
  <2>3. QED BY <1>3, <2>1, <2>2, SequenceIs
<1>6. PICK l : l = Len(Links(tt, f.id)) OBVIOUS
<1>7. -1 < l /\ -1 >= -1 BY <1>3, <1>5, <1>6
<1>8. QED BY <1>3, <1>4, <1>6, <1>7 DEF FrameFits

LEMMA DeeperFits ==
  ASSUME Whole(tt), NEW P, LabelledFrom(tt, P), FramesFit(tt, P, frames), CanGoDown
  PROVE  FramesFit(tt, P, Deeper) /\ FrameFits(tt, P, Last(Deeper))
<1>1. PICK F : F = {tt.root_id} OBVIOUS
<1>2. LinkedBut(tt, F) /\ tt.root_id \in Places(tt) BY <1>1 DEF Whole, LinkedBut, Linked
<1>3. Labelled(tt, P) /\ P[tt.root_id] = <<>> BY DEF LabelledFrom
<1>4. PICK new, k : new = Deeper /\ k = Len(frames) OBVIOUS
<1>5. CASE frames = <<>>
  <2>1. PICK f : f = NewFrame(tt.root_id, <<>>) OBVIOUS
  <2>2. new = <<f>> BY <1>4, <1>5, <2>1 DEF Deeper
  <2>3. f \in KeyFrame /\ FrameFits(tt, P, f) BY <1>2, <1>3, <2>1, NewFrameFits
  <2>4. new \in Seq(KeyFrame) /\ Len(new) = 1 /\ 1 .. 1 = {1} /\ new[1] = f BY <2>2, <2>3
  <2>5. Last(new) = f BY <2>4 DEF Last
  <2>6. QED BY <1>4, <2>3, <2>4, <2>5 DEF FramesFit
<1>6. CASE frames # <<>>
  <2>1. frames \in Seq(KeyFrame) /\ \A i \in 1 .. k : FrameFits(tt, P, frames[i])
    BY <1>4 DEF FramesFit
  <2>2. k \in Nat /\ k \in 1 .. k /\ DOMAIN frames = 1 .. k /\ \A j \in 1 .. k : frames[j] \in KeyFrame
    <3>1. k \in Nat /\ DOMAIN frames = 1 .. k /\ k # 0 BY <1>4, <1>6, <2>1, SequenceIs
    <3>2. QED BY <1>4, <2>1, <3>1, SequenceIs
  <2>3. PICK f, i, s : f = frames[k] /\ i = f.child_index + 1 /\ s = Links(tt, f.id) OBVIOUS
  <2>4. TopFrame = f BY <1>4, <2>3 DEF TopFrame, Last
  <2>5. FrameFits(tt, P, f) /\ f \in KeyFrame BY <2>1, <2>2, <2>3
  <2>6. /\ f.id \in Places(tt) /\ f.key = P[f.id] /\ f.child_index >= -1 /\ f.child_index \in Int
    BY <2>5 DEF FrameFits, KeyFrame
  <2>7. /\ s \in Seq(Places(tt)) /\ Len(Children(f)) = Len(s)
        /\ \A j \in 1 .. Len(s) : Children(f)[j] = NewFrame(s[j], Onward(tt, f.id, f.key, j))
    BY <1>2, <2>3, <2>6, ChildrenAre
  <2>8. Len(s) \in Nat /\ DOMAIN s = 1 .. Len(s) /\ \A j \in 1 .. Len(s) : s[j] \in Places(tt)
    BY <2>7, SequenceIs
  <2>9. f.child_index < Len(s) - 1 BY <1>6, <2>4, <2>7 DEF CanGoDown, Unvisited
  <2>10. i \in Int /\ i >= -1 /\ i < Len(s) /\ i + 1 \in 1 .. Len(s) BY <2>3, <2>6, <2>8, <2>9
  <2>11. PICK g : g = Children(f)[i + 1] OBVIOUS
  <2>12. g \in KeyFrame /\ FrameFits(tt, P, g)
    <3>1. g = NewFrame(s[i + 1], Onward(tt, f.id, f.key, i + 1)) BY <2>7, <2>10, <2>11
    <3>2. P[s[i + 1]] = Onward(tt, f.id, f.key, i + 1)
      <4>1. LabelledAt(tt, P, f.id) BY <1>3, <2>6 DEF Labelled
      <4>2. QED BY <2>3, <2>6, <2>8, <2>10, <4>1 DEF LabelledAt
    <3>3. s[i + 1] \in Places(tt) BY <2>8, <2>10
    <3>4. QED BY <1>2, <1>3, <3>1, <3>2, <3>3, NewFrameFits
  <2>13. PICK top, t : top = [f EXCEPT !.child_index = i] /\ t = [frames EXCEPT ![k] = top] OBVIOUS
  <2>14. top \in KeyFrame /\ top.id = f.id /\ top.key = f.key /\ top.child_index = i
    BY <2>5, <2>10, <2>13 DEF KeyFrame
  <2>15. FrameFits(tt, P, top) BY <2>3, <2>6, <2>10, <2>14 DEF FrameFits
  <2>16. t \in Seq(KeyFrame) /\ Len(t) = k BY <1>4, <2>1, <2>2, <2>13, <2>14
  <2>17. \A j \in 1 .. k : t[j] = IF j = k THEN top ELSE frames[j] BY <2>2, <2>13
  <2>18. new = Append(t, g)
    <3>1. [frames EXCEPT ![k].child_index = i] = t BY <2>3, <2>13
    <3>2. QED BY <1>4, <1>6, <2>3, <2>4, <2>11, <3>1 DEF Deeper
  <2>19. /\ new \in Seq(KeyFrame) /\ Len(new) = k + 1 /\ new[k + 1] = g
         /\ \A j \in 1 .. k : new[j] = t[j]
    BY <2>12, <2>16, <2>18, AppendIs
  <2>20. \A j \in 1 .. k + 1 : FrameFits(tt, P, new[j])
    <3>1. \A j \in 1 .. k + 1 : j = k + 1 \/ j \in 1 .. k BY <2>2
    <3>2. QED BY <2>1, <2>12, <2>15, <2>17, <2>19, <3>1
  <2>21. Last(new) = g BY <2>19 DEF Last
  <2>22. QED BY <1>4, <2>12, <2>19, <2>20, <2>21 DEF FramesFit
<1>7. QED BY <1>5, <1>6

\* What is above the frame that is popped fits as before.
LEMMA FrontFits ==
  ASSUME NEW P, FramesFit(tt, P, frames), frames # <<>>
  PROVE  FramesFit(tt, P, Front(frames))
<1>1. PICK k : k = Len(frames) OBVIOUS
<1>2. frames \in Seq(KeyFrame) /\ \A i \in 1 .. k : FrameFits(tt, P, frames[i]) BY <1>1 DEF FramesFit
<1>3. k \in Nat /\ k > 0
  <2>1. k \in Nat /\ k # 0 BY <1>1, <1>2, SequenceIs
  <2>2. QED BY <2>1
<1>4. PICK new : new = Front(frames) OBVIOUS
<1>5. new \in Seq(KeyFrame) /\ Len(new) = k - 1 /\ \A i \in 1 .. k - 1 : new[i] = frames[i]
  BY <1>1, <1>2, <1>3, <1>4, FrontIs
<1>6. \A i \in 1 .. k - 1 : i \in 1 .. k BY <1>3
<1>7. QED BY <1>2, <1>4, <1>5, <1>6 DEF FramesFit

\* What is iterated over is what is stored.
LEMMA FullKeyFits ==
  ASSUME Shapely(tt), NEW P, Labelled(tt, P), NEW f, FrameFits(tt, P, f), Yields(f)
  PROVE  FullKeyOf(f) = RowOf(f).result.key /\ FullKeyOf(f) \in Keys
<1>1. f.id \in Places(tt) /\ f.key = P[f.id] /\ f.id.table_type \in {"pass", "term", "suffix"}
  BY DEF FrameFits, Yields
<1>2. LabelledAt(tt, P, f.id) BY <1>1 DEF Labelled
<1>3. RowAt(tt, f.id).result.key = Spelled(tt, f.id, P[f.id]) BY <1>1, <1>2 DEF LabelledAt
<1>4. FullKeyOf(f) = RowOf(f).result.key BY <1>1, <1>3 DEF FullKeyOf, Spelled, RowOf
<1>5. PICK y, i, s : y = f.id.table_type /\ i = f.id.row_i + 1 /\ s = tt[y] OBVIOUS
<1>6. i \in DOMAIN s
  <2>1. f.id \in Address /\ f.id.row_i < Height(tt, y, f.id.table_i) BY <1>1, <1>5 DEF Places
  <2>2. f.id.row_i \in Nat /\ y # "choice" /\ y \in Plain BY <1>1, <1>5, <2>1 DEF Address, Plain
  <2>3. Len(s) \in Nat /\ DOMAIN s = 1 .. Len(s)
    <3>1. tt \in Tables(Cells) BY DEF Shapely
    <3>2. QED BY <1>1, <1>5, <3>1 DEF Tables
  <2>4. f.id.row_i < Len(s) BY <1>5, <2>1, <2>2, <2>3 DEF Height
  <2>5. QED BY <1>5, <2>2, <2>3, <2>4
<1>7. RowOf(f).result = s[i].result BY <1>1, <1>5 DEF RowOf, RowAt
<1>8. s[i].result \in Buffers \cup Streams BY <1>1, <1>5, <1>6 DEF Shapely, Kept
<1>9. s[i].result.key \in Keys BY <1>8 DEF Buffers, Buffer, Streams
<1>10. QED BY <1>4, <1>7, <1>9

\* A walk that is made from one frame to the next
LEMMA LMoves ==
  ASSUME LInv, UNCHANGED <<state, tt, ids, written>>, LWalk',
         Finished => \A P : LabelledFrom(tt, P) /\ FramesFit(tt, P, frames) => FramesFit(tt, P, frames')
  PROVE  LInv'
<1>1. state' = state /\ tt' = tt /\ ids' = ids /\ written' = written OBVIOUS
<1>2. (Converting' <=> Converting) /\ (Finished' <=> Finished) BY <1>1 DEF Converting, Finished
<1>3. (DOMAIN ids \subseteq Seq(Letters))' BY <1>1 DEF LInv
<1>4. (Converting => \E P : LabelledBelow(tt, P, ids))' BY <1>1, <1>2 DEF LInv
<1>5. (Finished => \E P : LabelledFrom(tt, P) /\ FramesFit(tt, P, frames))'
  <2>1. SUFFICES ASSUME Finished PROVE \E P : LabelledFrom(tt', P) /\ FramesFit(tt', P, frames') BY <1>2
  <2>2. PICK P : LabelledFrom(tt, P) /\ FramesFit(tt, P, frames) BY <2>1 DEF LInv
  <2>3. FramesFit(tt, P, frames') BY <2>1, <2>2
  <2>4. QED BY <1>1, <2>2, <2>3
<1>6. (state = "CLOSED" => \E P : LabelledFrom(written, P))' BY <1>1 DEF LInv
<1>7. QED BY <1>3, <1>4, <1>5, <1>6 DEF LInv

LEMMA LStays ==
  ASSUME LInv, UNCHANGED <<state, tt, ids, written>>, frames' = frames, LWalk'
  PROVE  LInv'
BY LMoves

LEMMA LCloses ==
  ASSUME LInv, UNCHANGED <<state, tt, ids, written>>, frames' = <<>>, LWalk'
  PROVE  LInv'
<1>1. PICK fs : fs = frames' OBVIOUS
<1>2. \A P : FramesFit(tt, P, fs) BY <1>1, NoFrames
<1>3. QED BY <1>1, <1>2, LMoves

\* No keys are iterated.
LEMMA LAtRest ==
  ASSUME LInv, ~Exchanging, ~LookingUp
  PROVE  frames = <<>> /\ (state # "RAW" => upto = NoKeyAt)
BY DEF LInv, LWalk, LookingUp

LEMMA LTrie == ASSUME LInv, UNCHANGED tables, ~Exchanging, ~LookingUp PROVE LInv'
<1>1. frames = <<>> BY LAtRest
<1>2. frames' = frames /\ upto' = upto /\ state' = state BY DEF tables, iterator
<1>3. LWalk' BY <1>1, <1>2 DEF LInv, LWalk
<1>4. QED BY <1>3, LStays DEF tables, iterator

LEMMA LStartOptimize == ASSUME RInv, TInv, LInv, StartOptimize PROVE LInv'
<1>1. /\ state = "RAW" /\ Idle /\ state' = "DIRTY" /\ tt' = [Opened EXCEPT !.len = len]
      /\ ids' = ids /\ frames' = frames /\ upto' = upto /\ upto = NoKeyAt
  BY DEF StartOptimize, iterator
<1>2. Open /\ Filled BY <1>1 DEF Idle, Open, RInv
<1>3. len \in Nat BY <1>2, FS_CardinalityType DEF Filled
<1>4. frames = <<>> /\ upto = NoKeyAt BY <1>1 DEF LInv, LWalk, Exchanging, LookingUp
<1>5. PICK t, f : t = tt' /\ f = ids OBVIOUS
<1>6. Places(t) = {}
  <2>1. EmptyTables(t, len) BY <1>1, <1>5 DEF EmptyTables, Opened
  <2>2. QED BY <1>3, <2>1, OpenedIs
<1>7. DOMAIN f = {} BY <1>1, <1>5 DEF TInv
<1>8. PICK P : P = [a \in {} |-> <<>>] OBVIOUS
<1>9. LabelledBelow(t, P, f)
  <2>1. P \in [Places(t) -> Seq(Letters)] BY <1>6, <1>8
  <2>2. Uppermost(DOMAIN f) = {} BY <1>7 DEF Uppermost
  <2>3. QED BY <1>6, <2>1, <2>2 DEF LabelledBelow, Labelled
<1>10. ~Finished' BY <1>1, <1>5, <1>7 DEF Finished
<1>11. LWalk' BY <1>1, <1>4 DEF LWalk
<1>12. QED BY <1>1, <1>5, <1>7, <1>9, <1>10, <1>11 DEF LInv

LEMMA LExchange == ASSUME TInv, LInv, ExchangeNext PROVE LInv' /\ given' \in Keys \cup {given}
<1>1. /\ state = "DIRTY" /\ call = "closed" /\ state' = state /\ call' = call
      /\ ids' = ids /\ written' = written /\ upto' = upto /\ CanGoDown /\ frames' = Deeper
  BY DEF ExchangeNext, Exchanging
<1>2. Root \in DOMAIN ids BY <1>1 DEF TInv, Idle, Converting
<1>3. Whole(tt) BY <1>1, <1>2 DEF TInv
<1>4. PICK P : LabelledFrom(tt, P) /\ FramesFit(tt, P, frames) BY <1>1, <1>2 DEF LInv, Finished
<1>5. FramesFit(tt, P, Deeper) /\ FrameFits(tt, P, Last(Deeper)) BY <1>1, <1>3, <1>4, DeeperFits
<1>6. PICK f, fs : f = Last(Deeper) /\ fs = Deeper OBVIOUS
<1>7. IF Yields(f) THEN given' = FullKeyOf(f) /\ tt' = Exchanged(f) ELSE given' = given /\ tt' = tt
  BY <1>6 DEF ExchangeNext
<1>8. LWalk'
  <2>1. Exchanging' BY <1>1 DEF Exchanging
  <2>2. upto' = NoKeyAt BY <1>1 DEF LInv, LWalk
  <2>3. QED BY <2>1, <2>2 DEF LWalk
<1>9. ~Converting' /\ state' # "CLOSED" BY <1>1, <1>2 DEF Converting
<1>10. DOMAIN ids' \subseteq Seq(Letters) BY <1>1 DEF LInv
<1>11. CASE ~Yields(f)
  <2>1. LabelledFrom(tt', P) /\ FramesFit(tt', P, frames') BY <1>1, <1>4, <1>5, <1>7, <1>11
  <2>2. QED BY <1>7, <1>8, <1>9, <1>10, <1>11, <2>1 DEF LInv
<1>12. CASE Yields(f)
  <2>1. PICK t, u, y, i : t = tt /\ u = tt' /\ y = f.id.table_type /\ i = f.id.row_i + 1 OBVIOUS
  <2>2. y \in {"pass", "term", "suffix"} BY <1>12, <2>1 DEF Yields
  <2>3. RowExchanged(t, u, y, i) BY <1>7, <1>12, <2>1 DEF Exchanged, RowExchanged
  <2>4. Whole(t) /\ Shapely(t) BY <1>3, <2>1 DEF Whole
  <2>5. PICK r, w : /\ r = [t[y][i] EXCEPT !.result = StreamOf(t, y, i)]
                    /\ i \in DOMAIN t[y] => StreamOf(t, y, i) \in Streams
                    /\ SetRow(t[y], w, i, r) /\ u = [t EXCEPT ![y] = w]
    BY <2>2, <2>3, <2>4, RowExchangedIs
  <2>6. PICK x : x = StreamOf(t, y, i) OBVIOUS
  <2>7. OtherRows(t, u, y, w, i, r, x) BY <2>5, <2>6 DEF OtherRows, StreamOf
  <2>8. SameSpelling(t, u) /\ u.root_id = t.root_id BY <2>2, <2>4, <2>7, OtherRowsWhole
  <2>9. Labelled(u, P) /\ P[u.root_id] = <<>> BY <1>4, <2>1, <2>8, SameLabels DEF LabelledFrom
  <2>10. FramesFit(u, P, fs) BY <1>5, <1>6, <2>1, <2>8, SameFrames
  <2>11. LabelledFrom(tt', P) /\ FramesFit(tt', P, frames')
    BY <1>1, <1>6, <2>1, <2>9, <2>10 DEF LabelledFrom
  <2>12. given' \in Keys
    <3>1. Shapely(tt) /\ Labelled(tt, P) BY <1>3, <1>4 DEF Whole, LabelledFrom
    <3>2. FullKeyOf(f) \in Keys BY <1>5, <1>6, <1>12, <3>1, FullKeyFits
    <3>3. QED BY <1>7, <1>12, <3>2
  <2>13. QED BY <1>8, <1>9, <1>10, <2>11, <2>12 DEF LInv
<1>13. QED BY <1>11, <1>12

LEMMA LLook == ASSUME TInv, LInv, LookNext PROVE LInv'
<1>1. UNCHANGED <<state, tt, ids, written, call>> /\ LookingUp /\ CanGoDown BY DEF LookNext
<1>2. /\ state \in {"CONVERTED", "READ"} /\ upto \in [i : 0 .. MaxKeys, passed : 0 .. MaxKeys]
      /\ upto.passed <= upto.i
  BY <1>1 DEF LInv, LWalk, LookingUp
<1>3. Whole(tt) BY <1>2 DEF TInv
<1>4. PICK f : f = Last(Deeper) OBVIOUS
<1>5. PICK i, p : i = upto.i /\ p = upto.passed OBVIOUS
<1>6. i \in 0 .. MaxKeys /\ p \in 0 .. MaxKeys /\ p <= i /\ upto = [i |-> i, passed |-> p] /\ MaxKeys \in Nat
  BY <1>2, <1>5, MaxKeysAssumption
<1>7. \/ frames' = Deeper /\ upto' = upto
      \/ frames' = Deeper /\ upto' = [i |-> i, passed |-> p + 1] /\ p < i
      \/ frames' = <<>> /\ upto' = NoKeyAt
  <2>1. CASE ~Yields(f) BY <1>4, <2>1 DEF LookNext
  <2>2. CASE Yields(f) /\ p < i
    <3>1. p # i BY <1>6, <2>2
    <3>2. frames' = Deeper /\ upto' = [upto EXCEPT !.passed = @ + 1]
      BY <1>4, <1>5, <2>2, <3>1 DEF LookNext
    <3>3. QED BY <1>6, <2>2, <3>2
  <2>3. CASE Yields(f) /\ p = i BY <1>4, <1>5, <1>6, <2>3 DEF LookNext, CloseIterator
  <2>4. QED BY <1>6, <2>1, <2>2, <2>3
<1>8. CASE frames' = <<>> /\ upto' = NoKeyAt
  <2>1. LWalk' BY <1>8 DEF LWalk
  <2>2. QED BY <1>1, <1>8, <2>1, LCloses
<1>9. CASE frames' = Deeper /\ \E q \in 0 .. MaxKeys : upto' = [i |-> i, passed |-> q] /\ q <= i
  <2>1. PICK q \in 0 .. MaxKeys : upto' = [i |-> i, passed |-> q] /\ q <= i BY <1>9
  <2>2. upto'.i = i /\ upto'.passed = q BY <2>1
  <2>3. upto' \in [i : 0 .. MaxKeys, passed : 0 .. MaxKeys] BY <1>6, <2>1
  <2>4. LookingUp' BY <1>1, <1>2, <1>6, <2>2 DEF LookingUp, NoKeyAt
  <2>5. LWalk' BY <1>1, <1>2, <2>1, <2>2, <2>3, <2>4 DEF LWalk
  <2>6. \A P : LabelledFrom(tt, P) /\ FramesFit(tt, P, frames) => FramesFit(tt, P, frames')
    BY <1>1, <1>3, <1>9, DeeperFits
  <2>7. QED BY <1>1, <2>5, <2>6, LMoves
<1>10. QED
  <2>1. (p < i => p + 1 \in 0 .. MaxKeys /\ p + 1 <= i) BY <1>6
  <2>2. QED BY <1>6, <1>7, <1>8, <1>9, <2>1

LEMMA LWalkUp == ASSUME LInv, WalkUp PROVE LInv'
<1>1. /\ UNCHANGED <<state, tt, ids, written, call, upto>> /\ frames # <<>> /\ frames' = Front(frames)
      /\ Exchanging \/ LookingUp
  BY DEF WalkUp, vars
<1>2. LWalk' BY <1>1 DEF LInv, LWalk, Exchanging, LookingUp
<1>3. \A P : FramesFit(tt, P, frames) => FramesFit(tt, P, frames') BY <1>1, FrontFits
<1>4. QED BY <1>1, <1>2, <1>3, LMoves

LEMMA LWrite == ASSUME TInv, LInv, WriteTtrie PROVE LInv'
<1>1. /\ state = "DIRTY" /\ call = "closed" /\ state' = "CONVERTED" /\ ids' = ids /\ tt' = tt
      /\ upto' = upto /\ frames' = <<>>
  BY DEF WriteTtrie, Exchanging, CloseIterator
<1>2. Root \in DOMAIN ids BY <1>1 DEF TInv, Idle, Converting
<1>3. PICK P : LabelledFrom(tt, P) BY <1>1, <1>2 DEF LInv, Finished
<1>4. upto = NoKeyAt BY <1>1 DEF LInv, LWalk
<1>5. LWalk' BY <1>1, <1>4 DEF LWalk
<1>6. PICK fs : fs = frames' OBVIOUS
<1>7. FramesFit(tt, P, fs) BY <1>1, <1>6, NoFrames
<1>8. LabelledFrom(tt', P) /\ FramesFit(tt', P, frames') BY <1>1, <1>3, <1>6, <1>7
<1>9. ~Converting' BY <1>1 DEF Converting
<1>10. DOMAIN ids' \subseteq Seq(Letters) BY <1>1 DEF LInv
<1>11. QED BY <1>1, <1>5, <1>8, <1>9, <1>10 DEF LInv

LEMMA LCloseTable == ASSUME TInv, LInv, CloseTable PROVE LInv'
<1>1. /\ state \in {"CONVERTED", "READ"} /\ upto = NoKeyAt /\ state' = "CLOSED" /\ ids' = ids
      /\ written' = written /\ upto' = upto /\ frames' = frames
  BY DEF CloseTable, iterator
<1>2. Root \in DOMAIN ids /\ tt = written BY <1>1 DEF TInv
<1>3. PICK P : LabelledFrom(tt, P) BY <1>1, <1>2 DEF LInv, Finished
<1>4. frames = <<>> BY <1>1, LAtRest DEF Exchanging, LookingUp
<1>5. LWalk' BY <1>1, <1>4 DEF LWalk
<1>6. ~Converting' /\ ~Finished' BY <1>1 DEF Converting, Finished
<1>7. LabelledFrom(written', P) BY <1>1, <1>2, <1>3
<1>8. DOMAIN ids' \subseteq Seq(Letters) BY <1>1 DEF LInv
<1>9. QED BY <1>5, <1>6, <1>7, <1>8 DEF LInv

LEMMA LOpenReader == ASSUME TInv, TInv', LInv, OpenReader PROVE LInv'
<1>1. /\ state = "CLOSED" /\ state' = "READ" /\ ids' = ids /\ written' = written
      /\ upto' = upto /\ frames' = frames
  BY DEF OpenReader, iterator
<1>2. Root \in DOMAIN ids BY <1>1 DEF TInv
<1>3. PICK P : LabelledFrom(written, P) BY <1>1 DEF LInv
<1>4. frames = <<>> /\ upto = NoKeyAt BY <1>1 DEF LInv, LWalk, Exchanging, LookingUp
<1>5. tt' = written BY <1>1 DEF TInv
<1>6. PICK t, fs : t = tt' /\ fs = frames' OBVIOUS
<1>7. FramesFit(t, P, fs) BY <1>1, <1>4, <1>6, NoFrames
<1>8. LabelledFrom(tt', P) /\ FramesFit(tt', P, frames') BY <1>3, <1>5, <1>6, <1>7
<1>9. LWalk' BY <1>1, <1>4 DEF LWalk
<1>10. ~Converting' /\ state' # "CLOSED" BY <1>1 DEF Converting
<1>11. DOMAIN ids' \subseteq Seq(Letters) BY <1>1 DEF LInv
<1>12. QED BY <1>8, <1>9, <1>10, <1>11 DEF LInv

LEMMA LStartKeyAt == ASSUME LInv, NEW i \in 0 .. MaxKeys, StartKeyAt(i) PROVE LInv'
<1>1. /\ UNCHANGED <<state, tt, ids, written>> /\ frames' = frames /\ upto = NoKeyAt
      /\ state \in {"CONVERTED", "READ"} /\ upto' = [i |-> i, passed |-> 0]
  BY DEF StartKeyAt, iterator
<1>2. frames = <<>> BY <1>1, LAtRest DEF Exchanging, LookingUp
<1>3. upto' \in [i : 0 .. MaxKeys, passed : 0 .. MaxKeys] /\ upto'.passed <= upto'.i
  BY <1>1, MaxKeysAssumption
<1>4. LWalk' BY <1>1, <1>2, <1>3 DEF LWalk
<1>5. QED BY <1>1, <1>4, LStays

LEMMA LStartCount == ASSUME LInv, NEW i \in 0 .. MaxKeys, StartCount(i) PROVE LInv'
<1>1. /\ UNCHANGED <<state, tt, ids, written>> /\ frames' = frames /\ state = "RAW"
      /\ upto' = [i |-> i, passed |-> 0]
  BY DEF StartCount, iterator
<1>2. frames = <<>> BY <1>1, LAtRest DEF Exchanging, LookingUp
<1>3. upto' \in [i : 0 .. MaxKeys, passed : 0 .. MaxKeys + 1] BY <1>1, MaxKeysAssumption
<1>4. LWalk' BY <1>1, <1>2, <1>3 DEF LWalk
<1>5. QED BY <1>1, <1>4, LStays

LEMMA LCountNext == ASSUME LInv, CountNext PROVE LInv'
<1>1. /\ UNCHANGED <<state, tt, ids, written>> /\ frames' = frames /\ state = "RAW" /\ upto # NoKeyAt
      /\ upto.passed <= upto.i /\ upto' = [upto EXCEPT !.passed = @ + 1]
  BY DEF CountNext, Counting, iterator
<1>2. frames = <<>> BY <1>1, LAtRest DEF Exchanging, LookingUp
<1>3. upto \in [i : 0 .. MaxKeys, passed : 0 .. MaxKeys + 1] BY <1>1 DEF LInv, LWalk
<1>4. upto.passed + 1 \in 0 .. MaxKeys + 1 BY <1>1, <1>3, MaxKeysAssumption
<1>5. upto' \in [i : 0 .. MaxKeys, passed : 0 .. MaxKeys + 1] BY <1>1, <1>3, <1>4
<1>6. LWalk' BY <1>1, <1>2, <1>5 DEF LWalk
<1>7. QED BY <1>1, <1>6, LStays

LEMMA LFinishCount == ASSUME LInv, FinishCount PROVE LInv'
<1>1. /\ UNCHANGED <<state, tt, ids, written>> /\ frames' = frames /\ state = "RAW" /\ upto' = NoKeyAt
  BY DEF FinishCount, Counting, iterator
<1>2. frames = <<>> BY <1>1, LAtRest DEF Exchanging, LookingUp
<1>3. LWalk' BY <1>1, <1>2 DEF LWalk
<1>4. QED BY <1>1, <1>3, LStays

LEMMA LInvStep ==
  ASSUME RInv, TInv, TInv', KInv, LInv, TNext \/ UNCHANGED tvars
  PROVE  LInv'
<1>1. CASE InRtrie
  <2>1. state = "RAW" /\ UNCHANGED tables BY <1>1 DEF InRtrie
  <2>2. ~Exchanging /\ ~LookingUp BY <2>1 DEF Exchanging, LookingUp
  <2>3. QED BY <2>1, <2>2, LTrie
<1>2. CASE CloseRtrie
  <2>1. state = "DIRTY" /\ call # "closed" /\ UNCHANGED tables
    BY <1>2 DEF CloseRtrie, StartClose, FinishClose, Idle
  <2>2. ~Exchanging /\ ~LookingUp BY <2>1 DEF LInv, LWalk, Exchanging, LookingUp
  <2>3. QED BY <2>1, <2>2, LTrie
<1>3. CASE StartOptimize BY <1>3, LStartOptimize
<1>4. CASE ConvertSubtrie BY <1>4, LConvert
<1>5. CASE ExchangeNext BY <1>5, LExchange
<1>6. CASE LookNext BY <1>6, LLook
<1>7. CASE WalkUp BY <1>7, LWalkUp
<1>8. CASE NoKeyThere
  <2>1. UNCHANGED <<state, tt, ids, written>> /\ frames' = <<>> /\ upto' = NoKeyAt
    BY <1>8 DEF NoKeyThere, CloseIterator
  <2>2. LWalk' BY <2>1 DEF LWalk
  <2>3. QED BY <2>1, <2>2, LCloses
<1>9. CASE WriteTtrie BY <1>9, LWrite
<1>10. CASE CloseTable BY <1>10, LCloseTable
<1>11. CASE OpenReader BY <1>11, LOpenReader
<1>12. ASSUME NEW k \in Keys, GetConverted(k) PROVE LInv'
  <2>1. UNCHANGED <<state, tt, ids, written>> /\ frames' = frames /\ upto' = upto /\ call' = call
    BY <1>12 DEF GetConverted, tables, iterator
  <2>2. LWalk' BY <2>1 DEF LInv, LWalk, Exchanging, LookingUp
  <2>3. QED BY <2>1, <2>2, LStays
<1>13. ASSUME NEW i \in 0 .. MaxKeys, StartKeyAt(i) PROVE LInv' BY <1>13, LStartKeyAt
<1>14. CASE UNCHANGED tvars
  <2>1. UNCHANGED <<state, tt, ids, written>> /\ frames' = frames /\ upto' = upto /\ call' = call
    BY <1>14 DEF tvars, tables, iterator, vars
  <2>2. LWalk' BY <2>1 DEF LInv, LWalk, Exchanging, LookingUp
  <2>3. QED BY <2>1, <2>2, LStays
<1>15. ASSUME NEW i \in 0 .. MaxKeys, StartCount(i) PROVE LInv' BY <1>15, LStartCount
<1>16. CASE CountNext BY <1>16, LCountNext
<1>17. CASE FinishCount BY <1>17, LFinishCount
<1>18. QED
  BY <1>1, <1>2, <1>3, <1>4, <1>5, <1>6, <1>7, <1>8, <1>9, <1>10, <1>11, <1>12, <1>13, <1>14,
     <1>15, <1>16, <1>17
  DEF TNext

-----------------------------------------------------------------------------
\* The radix trie in the steps of the tables

\* What is given is a key; the trie stays as it is.
LEMMA KGives ==
  ASSUME KInv, nodes' = nodes, len' = len, stack' = stack, side' = side, adding' = adding,
         given' \in Keys \cup {None}, call' = call \/ (Idle /\ call' = "crashed")
  PROVE  KInv'
<1>1. /\ nodes' = nodes /\ len' = len /\ stack' = stack /\ side' = side /\ adding' = adding
  OBVIOUS
<1>2. KTypes' BY <1>1 DEF KInv, KTypes
<1>3. KAdding'
  <2>1. CASE call' = call BY <1>1, <2>1 DEF KInv, KAdding, InAdd, AddingAt, n1
  <2>2. CASE Idle /\ call' = "crashed" BY <1>1, <2>2 DEF KInv, KAdding, InAdd, Idle
  <2>3. QED BY <2>1, <2>2
<1>4. KNodes' BY <1>1 DEF KInv, KNodes, Idle
<1>5. KClosing' BY <1>1 DEF KInv, KClosing
<1>6. QED BY <1>2, <1>3, <1>4, <1>5 DEF KInv

LEMMA KInvTStep ==
  ASSUME RInv, RInv', TInv, KInv, LInv, TNext \/ UNCHANGED tvars
  PROVE  KInv'
<1>1. given \in Keys \cup {None} BY DEF KInv, KTypes
<1>2. CASE InRtrie BY <1>2, TrieSteps, KInvStep
<1>3. CASE CloseRtrie BY <1>3, TrieSteps, KInvStep
<1>4. CASE StartOptimize BY <1>4, KStutter DEF StartOptimize, RestVars, walked
<1>5. CASE ConvertSubtrie
  <2>1. nodes' = nodes /\ len' = len /\ stack' = stack /\ side' = side /\ adding' = adding /\ given' = given
    BY <1>5 DEF ConvertSubtrie, walked
  <2>2. Idle /\ (call' = call \/ call' = "crashed") BY <1>5 DEF ConvertSubtrie
  <2>3. QED BY <1>1, <2>1, <2>2, KGives
<1>6. CASE ExchangeNext
  <2>1. given' \in Keys \cup {None} BY <1>1, <1>6, LExchange
  <2>2. nodes' = nodes /\ len' = len /\ stack' = stack /\ side' = side /\ adding' = adding /\ call' = call
    BY <1>6 DEF ExchangeNext, walked
  <2>3. QED BY <2>1, <2>2, KGives
<1>7. CASE LookNext BY <1>7, KStutter DEF LookNext, RestVars, walked
<1>8. CASE WalkUp BY <1>8, KStutter DEF WalkUp, RestVars, walked, vars
<1>9. CASE NoKeyThere BY <1>9, KStutter DEF NoKeyThere, RestVars, walked
<1>10. CASE WriteTtrie BY <1>10, KStutter DEF WriteTtrie, RestVars, walked, vars
<1>11. CASE CloseTable BY <1>11, KStutter DEF CloseTable, RestVars, walked
<1>12. CASE OpenReader BY <1>12, KStutter DEF OpenReader, RestVars, walked, vars
<1>13. ASSUME NEW k \in Keys, GetConverted(k) PROVE KInv'
  BY <1>13, KStutter DEF GetConverted, RestVars, walked
<1>14. ASSUME NEW i \in 0 .. MaxKeys, StartKeyAt(i) PROVE KInv'
  BY <1>14, KStutter DEF StartKeyAt, RestVars, walked
<1>15. CASE UNCHANGED tvars BY <1>15, KStutter DEF tvars, vars, RestVars, walked
<1>16. ASSUME NEW i \in 0 .. MaxKeys, StartCount(i) PROVE KInv' BY <1>16, TrieSteps, KInvStep
<1>17. CASE CountNext BY <1>17, TrieSteps, KInvStep
<1>18. CASE FinishCount
  <2>1. /\ call \in {"none", "between"} /\ call' = "none" /\ stack' = <<>> /\ side' = "L"
        /\ given' = None /\ nodes' = nodes /\ len' = len /\ adding' = adding
    BY <1>18 DEF FinishCount
  <2>2. QED BY <2>1, KRests
<1>19. QED
  BY <1>2, <1>3, <1>4, <1>5, <1>6, <1>7, <1>8, <1>9, <1>10, <1>11, <1>12, <1>13, <1>14, <1>15,
     <1>16, <1>17, <1>18
  DEF TNext

LEMMA LInvInit == TInit => LInv
<1>1. SUFFICES ASSUME TInit PROVE LInv OBVIOUS
<1>2. state = "RAW" /\ DOMAIN ids = {} /\ frames = <<>> /\ upto = NoKeyAt BY <1>1 DEF TInit
<1>3. QED BY <1>2 DEF LInv, LWalk, Converting, Finished

\* rtrie.c:371-477, rtrie.c:595-689 and ttrie.c:1411-1548, ttrie.c:1608-1831: what a node with a value spells is a key,
\* the value is that key's, and the stack of a walk, an iteration's or a closing's, leads
\* from the root to where it is. And the tables spell what the trie does: the letters on
\* the way to a row, by any steps of the conversion, the exchange of rows, the file and
\* its reading, and what a row stores is stored with the key that is spelled there.
THEOREM KeysInvariantHolds == TSpec => [](KInv /\ LInv)
<1>1. TInit => RInv /\ TInv /\ KInv /\ LInv BY RInvInit, TInvInit, KInvInit, LInvInit DEF TInit
<1>2. RInv /\ TInv /\ KInv /\ LInv /\ [TNext]_tvars => (RInv /\ TInv /\ KInv /\ LInv)'
  <2>1. SUFFICES ASSUME RInv, TInv, KInv, LInv, TNext \/ UNCHANGED tvars
                 PROVE  RInv' /\ TInv' /\ KInv' /\ LInv'
    OBVIOUS
  <2>2. RInv' BY <2>1, RInvTStep
  <2>3. TInv' BY <2>1, <2>2, TInvStep
  <2>4. KInv' BY <2>1, <2>2, KInvTStep
  <2>5. LInv' BY <2>1, <2>3, LInvStep
  <2>6. QED BY <2>2, <2>3, <2>4, <2>5
<1>3. QED BY <1>1, <1>2, PTL DEF TSpec

LEMMA NodesTyped ==
  ASSUME Tree(nodes), Keyed(nodes), NEW n \in InMemory
  PROVE  /\ nodes[n] \in [keys : Seq(0 .. Byte - 1), children : Seq(InMemory), suffix : Seq(0 .. Byte - 1),
                          suffix_len : 0 .. Byte - 1, has_value : BOOLEAN,
                          result : {Buffer(k) : k \in Keys} \cup {None}]
         /\ HasSuffix(n) => ~HasChildren(n)
<1>1. n \in DOMAIN nodes BY DEF InMemory
<1>2. PICK node, c, keys, s : node = nodes[n] /\ c = node.children /\ keys = node.keys /\ s = node.suffix
  OBVIOUS
<1>3. /\ n \in Seq(Letters) /\ Shape(n, node) /\ node \in Node /\ keys \in Seq(Letters) /\ s \in Seq(Letters)
      /\ node.suffix_len = Len(s) /\ c = [i \in DOMAIN keys |-> Append(n, keys[i])]
      /\ \A i \in DOMAIN keys : Append(n, keys[i]) \in DOMAIN nodes
  BY <1>1, <1>2, NodeIs
<1>4. c \in Seq(InMemory)
  <2>1. DOMAIN keys = 1 .. Len(keys) /\ Len(keys) \in Nat BY <1>3, SequenceIs
  <2>2. PICK M : M = InMemory OBVIOUS
  <2>3. \A i \in 1 .. Len(keys) : Append(n, keys[i]) \in M BY <1>3, <2>1, <2>2 DEF InMemory
  <2>4. c \in [1 .. Len(keys) -> M] BY <1>3, <2>1, <2>3
  <2>5. QED BY <2>1, <2>2, <2>4
<1>5. node.suffix_len \in 0 .. Byte - 1
  <2>1. Len(s) \in Nat /\ Len(n) \in Nat /\ Byte \in Int /\ (s = <<>> <=> Len(s) = 0)
    BY <1>3, LettersAre, SequenceIs
  <2>2. CASE s = <<>>
    <3>1. 1 <= Byte BY <2>1, MaxDepthAssumption
    <3>2. QED BY <1>3, <2>1, <2>2, <3>1
  <2>3. CASE s # <<>>
    <3>1. PICK k : k = n \o s OBVIOUS
    <3>2. k \in Keys BY <1>1, <1>2, <2>3, <3>1 DEF Keyed, LabelOf
    <3>3. Len(k) = Len(n) + Len(s) BY <1>3, <3>1, ConcatProperties
    <3>4. Len(k) < Byte BY <3>2, KeyIs
    <3>5. Len(s) < Byte BY <2>1, <3>3, <3>4
    <3>6. QED BY <1>3, <2>1, <3>5
  <2>4. QED BY <2>2, <2>3
<1>6. PICK B : B = {Buffer(k) : k \in Keys} \cup {None} OBVIOUS
<1>7. node.has_value \in BOOLEAN /\ node.result \in B BY <1>3, <1>6 DEF Node, Buffers
<1>8. node = [keys |-> node.keys, children |-> node.children, suffix |-> node.suffix,
              suffix_len |-> node.suffix_len, has_value |-> node.has_value, result |-> node.result]
  BY <1>3 DEF Node
<1>9. node \in [keys : Seq(0 .. Byte - 1), children : Seq(InMemory), suffix : Seq(0 .. Byte - 1),
                suffix_len : 0 .. Byte - 1, has_value : BOOLEAN, result : B]
  BY <1>2, <1>3, <1>4, <1>5, <1>7, <1>8 DEF Letters
<1>10. HasSuffix(n) => ~HasChildren(n) BY <1>2, <1>3 DEF Shape, HasSuffix, HasChildren
<1>11. QED BY <1>2, <1>6, <1>9, <1>10

LEMMA KInvIsTyped == KInv => TypeOK
<1>1. SUFFICES ASSUME KInv PROVE TypeOK OBVIOUS
<1>2. /\ call \in {"none", "add", "added", "between", "next", "close", "closed", "crashed"}
      /\ side \in {"L", "R"} /\ len \in 0 .. MaxKeys /\ given \in Keys \cup {None}
  BY <1>1 DEF KInv, KTypes
<1>3. \A n \in InMemory :
        /\ nodes[n] \in [keys : Seq(0 .. Byte - 1), children : Seq(InMemory), suffix : Seq(0 .. Byte - 1),
                         suffix_len : 0 .. Byte - 1, has_value : BOOLEAN,
                         result : {Buffer(k) : k \in Keys} \cup {None}]
        /\ HasSuffix(n) => ~HasChildren(n)
  <2>1. CASE call = "closed" BY <1>1, <2>1 DEF KInv, KNodes, InMemory
  <2>2. CASE call # "closed"
    <3>1. Tree(nodes) /\ Keyed(nodes) BY <1>1, <2>2 DEF KInv, KNodes
    <3>2. QED BY <3>1, NodesTyped
  <2>3. QED BY <2>1, <2>2
<1>4. adding # NotAdding =>
        adding.key \in Keys /\ adding.at \in 0 .. Len(adding.key) /\ adding.node \in InMemory
  <2>1. SUFFICES ASSUME adding # NotAdding
                 PROVE  adding.key \in Keys /\ adding.at \in 0 .. Len(adding.key) /\ adding.node \in InMemory
    OBVIOUS
  <2>2. AddingAt BY <1>1, <2>1 DEF KInv, KAdding, InAdd
  <2>3. /\ adding.key \in Keys /\ adding.at \in Nat /\ adding.node \in DOMAIN nodes
        /\ adding.at <= Len(adding.key)
    BY <2>2 DEF AddingAt
  <2>4. Len(adding.key) \in Nat BY <2>3, KeyIs
  <2>5. QED BY <2>3, <2>4 DEF InMemory
<1>5. \A i \in DOMAIN stack :
        /\ stack[i].node \in InMemory
        /\ i < Len(stack) =>
             stack[i + 1].node = nodes[stack[i].node].children[stack[i].stack_child_index + 1]
  <2>1. CASE call = "closed"
    <3>1. stack = <<>> BY <1>1, <2>1 DEF KInv, KNodes
    <3>2. DOMAIN stack = {} BY <3>1
    <3>3. QED BY <3>2
  <2>2. CASE call # "closed"
    <3>1. Tree(nodes) /\ Stacked(nodes, stack) BY <1>1, <2>2 DEF KInv, KNodes
    <3>2. PICK k : k = Len(stack) OBVIOUS
    <3>3. k \in Nat /\ DOMAIN stack = 1 .. k BY <3>1, <3>2, SequenceIs DEF Stacked
    <3>4. SUFFICES ASSUME NEW i \in 1 .. k
                   PROVE  /\ stack[i].node \in InMemory
                          /\ i < k => stack[i + 1].node =
                                        nodes[stack[i].node].children[stack[i].stack_child_index + 1]
      BY <3>2, <3>3
    <3>5. PICK n, j : n = stack[i].node /\ j = stack[i].stack_child_index OBVIOUS
    <3>6. n \in DOMAIN nodes /\ j \in -1 .. Len(nodes[n].keys) - 1 BY <3>1, <3>2, <3>5 DEF Stacked
    <3>7. ASSUME i < k PROVE stack[i + 1].node = nodes[n].children[j + 1]
      <4>1. i \in 1 .. k - 1 BY <3>3, <3>7
      <4>2. j >= 0 /\ stack[i + 1].node = Append(n, nodes[n].keys[j + 1])
        BY <3>1, <3>2, <3>5, <4>1 DEF Stacked
      <4>3. PICK keys : keys = nodes[n].keys OBVIOUS
      <4>4. keys \in Seq(Letters) /\ nodes[n].children = [l \in DOMAIN keys |-> Append(n, keys[l])]
        BY <3>1, <3>6, <4>3, NodeIs
      <4>5. DOMAIN keys = 1 .. Len(keys) /\ Len(keys) \in Nat BY <4>4, SequenceIs
      <4>6. j + 1 \in DOMAIN keys BY <3>6, <4>2, <4>3, <4>5
      <4>7. QED BY <4>2, <4>3, <4>4, <4>6
    <3>8. QED BY <3>5, <3>6, <3>7 DEF InMemory
  <2>3. QED BY <2>1, <2>2
<1>6. call = "closed" => InMemory = {} BY <1>1 DEF KInv, KNodes, InMemory
<1>7. QED BY <1>2, <1>3, <1>4, <1>5, <1>6 DEF TypeOK

\* What the rows of shapely tables are
LEMMA ShapelyTyped ==
  ASSUME NEW t, Shapely(t)
  PROVE  /\ \A c \in ToSet(t.choice) : /\ Len(c.rows) \in 1 .. MaxDepth
                                       /\ \A i \in DOMAIN c.rows : DOMAIN c.rows[i] = DOMAIN c.name
         /\ \A row \in ToSet(t.term) \cup ToSet(t.pass) \cup ToSet(t.suffix) : row.result \in Results
<1>1. t.choice \in Seq(ChoiceTables(Cells)) BY DEF Shapely, Tables
<1>2. PICK s : s = t.choice OBVIOUS
<1>3. ASSUME NEW j \in DOMAIN s
      PROVE  Len(s[j].rows) \in 1 .. MaxDepth /\ \A i \in DOMAIN s[j].rows : DOMAIN s[j].rows[i] = DOMAIN s[j].name
  <2>1. PICK c : c = s[j] OBVIOUS
  <2>2. c \in ChoiceTables(Cells) BY <1>1, <1>2, <1>3, <2>1, SequenceIs
  <2>3. \A i \in DOMAIN c.rows : DOMAIN c.rows[i] = DOMAIN c.name
    <3>1. /\ c.name \in Seq(Cells) /\ c.rows \in Seq(Seq(Cells))
          /\ \A i \in 1 .. Len(c.rows) : Len(c.rows[i]) = Len(c.name)
      BY <2>2 DEF ChoiceTables, Wide
    <3>2. PICK rows, name : rows = c.rows /\ name = c.name OBVIOUS
    <3>3. DOMAIN rows = 1 .. Len(rows) /\ \A i \in 1 .. Len(rows) : rows[i] \in Seq(Cells)
      BY <3>1, <3>2, SequenceIs
    <3>4. DOMAIN name = 1 .. Len(name) BY <3>1, <3>2, SequenceIs
    <3>5. \A i \in DOMAIN rows : DOMAIN rows[i] = DOMAIN name
      BY <3>1, <3>2, <3>3, <3>4, SequenceIs
    <3>6. QED BY <3>2, <3>5
  <2>4. Len(c.rows) \in 1 .. MaxDepth BY <1>2, <2>1 DEF Shapely
  <2>5. QED BY <2>1, <2>3, <2>4
<1>4. Buffers \cup Streams = Results BY DEF Buffers, Streams, Results
<1>5. /\ \A i \in DOMAIN t.term : t.term[i].result \in Results
      /\ \A i \in DOMAIN t.pass : t.pass[i].result \in Results
      /\ \A i \in DOMAIN t.suffix : t.suffix[i].result \in Results
  <2>1. \A y \in {"term", "pass", "suffix"} : \A i \in DOMAIN t[y] : t[y][i].result \in Results
    BY <1>4 DEF Shapely, Kept
  <2>2. QED BY <2>1
<1>6. QED BY <1>2, <1>3, <1>5 DEF ToSet

LEMMA InvIsTTypeOK == ASSUME TInv, KInv, LInv PROVE TTypeOK
<1>1. TypeOK BY KInvIsTyped
<1>2. state \in {"RAW", "DIRTY", "CONVERTED", "CLOSED", "READ"} BY DEF TInv
<1>3. /\ \A c \in ToSet(tt.choice) : /\ Len(c.rows) \in 1 .. MaxDepth
                                     /\ \A i \in DOMAIN c.rows : DOMAIN c.rows[i] = DOMAIN c.name
      /\ \A row \in ToSet(tt.term) \cup ToSet(tt.pass) \cup ToSet(tt.suffix) : row.result \in Results
  <2>1. Shapely(tt)
    <3>1. CASE state \in {"RAW", "CLOSED"}
      <4>1. PICK t : t = tt OBVIOUS
      <4>2. EmptyTables(t, 0) BY <3>1, <4>1 DEF TInv, Opened, EmptyTables
      <4>3. 0 \in Nat OBVIOUS
      <4>4. QED BY <4>1, <4>2, <4>3, OpenedIs
    <3>2. CASE state \notin {"RAW", "CLOSED"} BY <3>2 DEF TInv, Converting, Partly, Whole
    <3>3. QED BY <3>1, <3>2
  <2>2. QED BY <2>1, ShapelyTyped
<1>4. DOMAIN ids \subseteq Seq(0 .. Byte - 1) BY DEF LInv, Letters
<1>5. \A i \in DOMAIN frames : frames[i].child_index < Len(Children(frames[i]))
  <2>1. CASE frames = <<>>
    <3>1. DOMAIN frames = {} BY <2>1
    <3>2. QED BY <3>1
  <2>2. CASE frames # <<>>
    <3>1. state \in {"DIRTY", "CONVERTED", "READ"} /\ Root \in DOMAIN ids
      <4>1. Exchanging \/ LookingUp BY <2>2 DEF LInv, LWalk
      <4>2. CASE Exchanging BY <4>2 DEF Exchanging, TInv, Converting, Idle
      <4>3. CASE LookingUp BY <4>3 DEF LookingUp, LInv, LWalk, TInv
      <4>4. QED BY <4>1, <4>2, <4>3
    <3>2. PICK P : FramesFit(tt, P, frames) BY <3>1 DEF LInv, Finished
    <3>3. frames \in Seq(KeyFrame) /\ \A i \in 1 .. Len(frames) : FrameFits(tt, P, frames[i])
      BY <3>2 DEF FramesFit
    <3>4. DOMAIN frames = 1 .. Len(frames) BY <3>3, SequenceIs
    <3>5. SUFFICES ASSUME NEW i \in 1 .. Len(frames) PROVE frames[i].child_index < Len(Children(frames[i]))
      BY <3>4
    <3>6. PICK f, s : f = frames[i] /\ s = Links(tt, f.id) OBVIOUS
    <3>7. f.id \in Places(tt) /\ f.child_index < Len(s) BY <3>3, <3>6 DEF FrameFits
    <3>8. PICK F : F = {tt.root_id} OBVIOUS
    <3>9. LinkedBut(tt, F) BY <3>1, <3>8 DEF TInv, Whole
    <3>10. Len(Children(f)) = Len(s) BY <3>6, <3>7, <3>9, ChildrenAre
    <3>11. QED BY <3>6, <3>7, <3>10
  <2>3. QED BY <2>1, <2>2
<1>6. upto \in [i : -1 .. MaxKeys, passed : 0 .. MaxKeys + 1]
  <2>1. CASE upto = NoKeyAt BY <2>1, MaxKeysAssumption DEF NoKeyAt
  <2>2. CASE upto \in [i : 0 .. MaxKeys, passed : 0 .. MaxKeys] BY <2>2, MaxKeysAssumption
  <2>3. CASE upto \in [i : 0 .. MaxKeys, passed : 0 .. MaxKeys + 1] BY <2>3, MaxKeysAssumption
  <2>4. QED BY <2>1, <2>2, <2>3 DEF LInv, LWalk
<1>7. QED BY <1>1, <1>2, <1>3, <1>4, <1>5, <1>6 DEF TTypeOK

\* ttrie.c:380-470 and ttrie.c:1608-1831: every row and letter the tables hold is in the
\* range of its field, no choice table is empty or has more rows than MaxDepth, and the
\* iterator's place in a row is one of its children.
THEOREM TablesTyped == TSpec => []TTypeOK
<1>1. TInv /\ KInv /\ LInv => TTypeOK BY InvIsTTypeOK
<1>2. QED BY <1>1, TablesInvariantHolds, KeysInvariantHolds, PTL

=============================================================================
