----------------------------- MODULE DataLemmas -----------------------------
(***************************************************************************)
(* What the proofs about several components need of numbers and sequences. *)
(*                                                                         *)
(* Induction and recursion over the natural numbers, stated about sets and *)
(* functions instead of predicates: an instance of a lemma is then a set   *)
(* or a function, which first-order provers can find.  They establish what *)
(* the loops of the code compute.  And the place of an item in blocks that *)
(* hold c of them each, as clumps and pages do.  And what sequences        *)
(* become: an element inserted or set in one, sequences laid one behind    *)
(* the other, one that begins another, a listing of a set; and places of   *)
(* which each is led to once.                                              *)
(***************************************************************************)
EXTENDS Integers, Sequences, SequencesExt, WellFoundedInduction, FiniteSetTheorems,
        SequenceTheorems, TLAPS

\* A set of natural numbers that is not empty has a least element.
LEMMA LeastNatural ==
  ASSUME NEW T \in SUBSET Nat, T # {}
  PROVE  \E x \in T : \A y \in T : x <= y
<1> DEFINE R == OpToRel(<, Nat)
<1>1. IsWellFoundedOn(R, Nat) BY NatLessThanWellFounded
<1>2. \A x, y \in Nat : x < y => <<x, y>> \in R BY DEF OpToRel
<1> HIDE DEF R
<1>3. PICK x \in T : \A y \in T : <<y, x>> \notin R BY <1>1, WFMin
<1>4. ASSUME NEW y \in T PROVE x <= y
  <2>1. x \in Nat /\ y \in Nat OBVIOUS
  <2>2. ~(y < x) BY <2>1, <1>2, <1>3
  <2>3. QED BY <2>1, <2>2
<1>5. QED BY <1>4

\* A set with 0, and with n + 1 for each natural n in it, has every natural number.
LEMMA NatSetInduction ==
  ASSUME NEW S, 0 \in S, \A n \in Nat : n \in S => n + 1 \in S
  PROVE  Nat \subseteq S
<1> DEFINE T == Nat \ S
<1>1. SUFFICES ASSUME T # {} PROVE FALSE OBVIOUS
<1>2. T \in SUBSET Nat OBVIOUS
<1>3. PICK x \in T : \A y \in T : x <= y BY <1>1, <1>2, LeastNatural
<1>4. x # 0 /\ x \in Nat OBVIOUS
<1>5. x - 1 \in Nat /\ x - 1 \in S BY <1>3, <1>4
<1>6. x - 1 + 1 \in S BY <1>5
<1>7. QED BY <1>4, <1>6

\* The same for the numbers from a to b.
Hereditary(S, a, b) == a \in S /\ \A i \in a .. b - 1 : i \in S => i + 1 \in S

LEMMA IntervalInduction ==
  ASSUME NEW a \in Int, NEW b \in Int, NEW S, Hereditary(S, a, b)
  PROVE  a .. b \subseteq S
<1>1. a \in S /\ \A i \in a .. b - 1 : i \in S => i + 1 \in S BY DEF Hereditary
<1> DEFINE T == {n \in Nat : a + n <= b => a + n \in S}
<1>2. 0 \in T BY <1>1
<1>3. ASSUME NEW n \in Nat, n \in T PROVE n + 1 \in T
  <2>1. SUFFICES ASSUME a + (n + 1) <= b PROVE a + (n + 1) \in S OBVIOUS
  <2>2. a + n \in a .. b - 1 /\ a + n \in S BY <1>3, <2>1
  <2>3. a + n + 1 \in S BY <1>1, <2>2
  <2>4. QED BY <2>3
<1>4. Nat \subseteq T BY <1>2, <1>3, NatSetInduction
<1>5. ASSUME NEW i \in a .. b PROVE i \in S
  <2>1. i - a \in T BY <1>4
  <2>2. a + (i - a) = i OBVIOUS
  <2>3. QED BY <2>1, <2>2
<1>6. QED BY <1>5

\* The numbers from 0 to b - 1, of each of which those before it are known: the loop
\* that ends at the first number outside S runs to b.
LEMMA CourseInduction ==
  ASSUME NEW b \in Nat, NEW S,
         \A i \in 0 .. b - 1 : (0 .. i - 1) \subseteq S => i \in S
  PROVE  0 .. b - 1 \subseteq S
<1> DEFINE T == (0 .. b - 1) \ S
<1>1. SUFFICES ASSUME T # {} PROVE FALSE OBVIOUS
<1>2. T \in SUBSET Nat OBVIOUS
<1>3. PICK x \in T : \A y \in T : x <= y BY <1>1, <1>2, LeastNatural
<1>4. 0 .. x - 1 \subseteq S BY <1>3
<1>5. QED BY <1>3, <1>4

-----------------------------------------------------------------------------

\* A start and a step from each value, and the number of the step, to the next; and
\* the values they lead to.
Recursion(A, a, step) == a \in A /\ step \in [A \X Nat -> A]
Unfolds(f, A, a, step) ==
  /\ f \in [Nat -> A]
  /\ f[0] = a
  /\ \A n \in Nat : f[n + 1] = step[<<f[n], n + 1>>]

\* A function over the natural numbers is defined by its value at 0 and the step
\* from each value to the next.
LEMMA RecursionExists ==
  ASSUME NEW A, NEW a, NEW step, Recursion(A, a, step)
  PROVE  \E f : Unfolds(f, A, a, step)
<1>1. a \in A /\ step \in [A \X Nat -> A] BY DEF Recursion
<1> DEFINE Partial(n, g) == /\ g \in [0 .. n -> A] /\ g[0] = a
                            /\ \A i \in 0 .. n - 1 : g[i + 1] = step[<<g[i], i + 1>>]
<1>2. ASSUME NEW n \in Nat PROVE \E g : Partial(n, g)
  <2> DEFINE T == {m \in Nat : \E g : Partial(m, g)}
  <2>1. 0 \in T
    <3>1. Partial(0, [i \in 0 .. 0 |-> a]) BY <1>1
    <3>2. QED BY <3>1
  <2>2. ASSUME NEW m \in Nat, m \in T PROVE m + 1 \in T
    <3>1. PICK g : Partial(m, g) BY <2>2
    <3> DEFINE v == step[<<g[m], m + 1>>]
               h == [i \in 0 .. m + 1 |-> IF i = m + 1 THEN v ELSE g[i]]
    <3>2. g[m] \in A /\ v \in A BY <1>1, <3>1
    <3>3. h \in [0 .. m + 1 -> A] /\ h[0] = a BY <1>1, <3>1, <3>2
    <3>4. ASSUME NEW i \in 0 .. m PROVE h[i + 1] = step[<<h[i], i + 1>>]
      <4>1. CASE i = m
        <5>1. h[m + 1] = v /\ h[m] = g[m] OBVIOUS
        <5>2. QED BY <4>1, <5>1
      <4>2. CASE i # m BY <3>1, <4>2
      <4>3. QED BY <4>1, <4>2
    <3> HIDE DEF h
    <3>5. \A i \in 0 .. (m + 1) - 1 : h[i + 1] = step[<<h[i], i + 1>>]
      <4>1. (m + 1) - 1 = m OBVIOUS
      <4>2. QED BY <3>4, <4>1
    <3>6. Partial(m + 1, h) BY <3>3, <3>5
    <3> HIDE DEF Partial
    <3>7. QED BY <3>6
  <2>3. Nat \subseteq T BY <2>1, <2>2, NatSetInduction
  <2>4. QED BY <2>3
<1>3. ASSUME NEW n \in Nat, NEW m \in Nat, n <= m, NEW g, NEW h, Partial(n, g), Partial(m, h)
      PROVE  \A i \in 0 .. n : g[i] = h[i]
  <2> DEFINE T == {i \in 0 .. n : g[i] = h[i]}
  <2>1. 0 \in T BY <1>3
  <2>2. ASSUME NEW i \in 0 .. n - 1, i \in T PROVE i + 1 \in T
    <3>1. g[i + 1] = step[<<g[i], i + 1>>] /\ h[i + 1] = step[<<h[i], i + 1>>] BY <1>3
    <3>2. QED BY <2>2, <3>1
  <2> HIDE DEF T
  <2>3. Hereditary(T, 0, n) BY <2>1, <2>2 DEF Hereditary
  <2>4. 0 .. n \subseteq T BY <2>3, IntervalInduction
  <2> USE DEF T
  <2>5. QED BY <2>4
<1> DEFINE up == [n \in Nat |-> CHOOSE g : Partial(n, g)]
           f == [n \in Nat |-> up[n][n]]
<1>4. ASSUME NEW n \in Nat PROVE Partial(n, up[n])
  <2> HIDE DEF Partial
  <2>1. QED BY <1>2
<1> HIDE DEF up
<1>5. f \in [Nat -> A] /\ f[0] = a
  <2>1. ASSUME NEW n \in Nat PROVE f[n] \in A BY <1>4
  <2>2. f[0] = a BY <1>4
  <2>3. QED BY <2>1, <2>2
<1>6. ASSUME NEW n \in Nat PROVE f[n + 1] = step[<<f[n], n + 1>>]
  <2>1. Partial(n, up[n]) /\ Partial(n + 1, up[n + 1]) BY <1>4
  <2>2. up[n][n] = up[n + 1][n]
    <3> HIDE DEF Partial
    <3>1. \A i \in 0 .. n : up[n][i] = up[n + 1][i] BY <1>3, <2>1
    <3>2. QED BY <3>1
  <2>3. up[n + 1][n + 1] = step[<<up[n + 1][n], n + 1>>] BY <2>1
  <2>4. QED BY <2>2, <2>3
<1>7. Unfolds(f, A, a, step) BY <1>5, <1>6 DEF Unfolds
<1>8. QED BY <1>7

\* A function is defined by recursion from the arguments of a lower rank: step tells
\* its value at an argument from a function that is right about those below.
Descending(D, V, rank, step) ==
  /\ rank \in [D -> Nat] /\ step \in [[D -> V] -> [D -> V]]
  /\ \A f, g \in [D -> V] : \A d \in D :
       (\A e \in D : rank[e] < rank[d] => f[e] = g[e]) => step[f][d] = step[g][d]

LEMMA RankedRecursion ==
  ASSUME NEW D, NEW V, NEW base \in [D -> V], NEW rank, NEW step, Descending(D, V, rank, step)
  PROVE  \E f \in [D -> V] : f = step[f]
<1> DEFINE Decided == \A f, g \in [D -> V] : \A d \in D :
             (\A e \in D : rank[e] < rank[d] => f[e] = g[e]) => step[f][d] = step[g][d]
<1>1. rank \in [D -> Nat] /\ step \in [[D -> V] -> [D -> V]] BY DEF Descending
<1>2. Decided BY DEF Descending
<1> USE <1>1
<1> DEFINE A == [D -> V]
           next == [p \in A \X Nat |-> step[p[1]]]
<1>3. Recursion(A, base, next)
  <2>1. next \in [A \X Nat -> A] OBVIOUS
  <2>2. QED BY <2>1 DEF Recursion
<1>4. PICK h : Unfolds(h, A, base, next) BY <1>3, RecursionExists
<1>5. h \in [Nat -> A] /\ \A n \in Nat : h[n + 1] = next[<<h[n], n + 1>>]
  BY <1>4 DEF Unfolds
<1>6. \A n \in Nat : h[n] \in [D -> V] /\ h[n + 1] = step[h[n]]
  <2>1. SUFFICES ASSUME NEW n \in Nat PROVE h[n] \in A /\ h[n + 1] = step[h[n]] OBVIOUS
  <2>2. h[n] \in A /\ <<h[n], n + 1>> \in A \X Nat BY <1>5
  <2>3. QED BY <1>5, <2>2
<1> HIDE DEF A, next
<1> DEFINE Fixed(n) == \A d \in D : rank[d] < n => h[n + 1][d] = h[n][d]
<1>7. \A n \in Nat : Fixed(n)
  <2> DEFINE T == {n \in Nat : Fixed(n)}
  <2>1. 0 \in T OBVIOUS
  <2>2. ASSUME NEW n \in Nat, n \in T PROVE n + 1 \in T
    <3>1. ASSUME NEW d \in D, rank[d] < n + 1 PROVE h[(n + 1) + 1][d] = h[n + 1][d]
      <4>1. \A e \in D : rank[e] < rank[d] => h[n + 1][e] = h[n][e] BY <2>2, <3>1
      <4>2. h[n + 1] \in [D -> V] /\ h[n] \in [D -> V] BY <1>6
      <4>3. step[h[n + 1]][d] = step[h[n]][d] BY <1>2, <4>1, <4>2
      <4>4. h[(n + 1) + 1] = step[h[n + 1]] /\ h[n + 1] = step[h[n]] BY <1>6
      <4>5. QED BY <4>3, <4>4
    <3>2. QED BY <3>1
  <2> HIDE DEF T
  <2>3. Nat \subseteq T BY <2>1, <2>2, NatSetInduction
  <2>4. QED BY <2>3 DEF T
<1>8. ASSUME NEW d \in D PROVE \A n \in Nat : h[(rank[d] + 1) + n][d] = h[rank[d] + 1][d]
  <2> DEFINE T == {n \in Nat : h[(rank[d] + 1) + n][d] = h[rank[d] + 1][d]}
  <2>1. 0 \in T OBVIOUS
  <2>2. ASSUME NEW n \in Nat, n \in T PROVE n + 1 \in T
    <3>1. (rank[d] + 1) + n \in Nat /\ rank[d] < (rank[d] + 1) + n OBVIOUS
    <3>2. h[((rank[d] + 1) + n) + 1][d] = h[(rank[d] + 1) + n][d] BY <1>7, <3>1
    <3>3. rank[d] \in Nat OBVIOUS
    <3>4. ((rank[d] + 1) + n) + 1 = (rank[d] + 1) + (n + 1) BY <3>3
    <3>5. QED BY <2>2, <3>2, <3>4
  <2> HIDE DEF T
  <2>3. Nat \subseteq T BY <2>1, <2>2, NatSetInduction
  <2>4. QED BY <2>3 DEF T
<1> DEFINE f == [d \in D |-> h[rank[d] + 1][d]]
<1>9. f \in [D -> V]
  <2>1. ASSUME NEW d \in D PROVE h[rank[d] + 1][d] \in V
    <3>1. rank[d] + 1 \in Nat OBVIOUS
    <3>2. QED BY <1>6, <3>1
  <2>2. QED BY <2>1
<1>10. ASSUME NEW d \in D PROVE f[d] = step[f][d]
  <2>1. rank[d] \in Nat OBVIOUS
  <2>2. f[d] = step[h[rank[d]]][d] BY <1>6, <2>1
  <2>3. ASSUME NEW e \in D, rank[e] < rank[d] PROVE f[e] = h[rank[d]][e]
    <3>1. PICK n \in Nat : rank[d] = (rank[e] + 1) + n
      <4>1. rank[d] - (rank[e] + 1) \in Nat BY <2>3
      <4>2. rank[d] = (rank[e] + 1) + (rank[d] - (rank[e] + 1)) OBVIOUS
      <4>3. QED BY <4>1, <4>2
    <3>2. h[(rank[e] + 1) + n][e] = h[rank[e] + 1][e] BY <1>8
    <3>3. QED BY <3>1, <3>2
  <2>4. h[rank[d]] \in [D -> V] BY <1>6, <2>1
  <2> HIDE DEF f
  <2>5. step[f][d] = step[h[rank[d]]][d] BY <1>2, <1>9, <2>3, <2>4
  <2>6. QED BY <2>2, <2>5
<1>11. step[f] \in [D -> V] BY <1>9
<1> HIDE DEF f
<1>12. f = step[f] BY <1>9, <1>10, <1>11
<1>13. QED BY <1>9, <1>12

-----------------------------------------------------------------------------

\* Later blocks begin at later items.
LEMMA BlocksOrdered ==
  ASSUME NEW c \in Nat \ {0}, NEW a \in Nat, NEW b \in Nat, a <= b
  PROVE  /\ a * c \in Nat /\ b * c \in Nat
         /\ a * c <= b * c
         /\ (a + 1) * c = a * c + c
<1>1. PICK d \in Nat : b = a + d
  <2>1. b - a \in Nat /\ b = a + (b - a) OBVIOUS
  <2>2. QED BY <2>1
<1>2. d * c \in Nat /\ a * c \in Nat /\ b * c \in Nat BY <1>1
<1>3. b * c = a * c + d * c BY <1>1
<1>4. (a + 1) * c = a * c + c OBVIOUS
<1>5. QED BY <1>2, <1>3, <1>4

\* An item that is in or past block a, and before block b, shows a < b.
LEMMA BlockBefore ==
  ASSUME NEW c \in Nat \ {0}, NEW a \in Nat, NEW b \in Nat, NEW i \in Int,
         a * c <= i, i < b * c
  PROVE  a < b
<1>1. SUFFICES ASSUME b <= a PROVE FALSE OBVIOUS
<1>2. b * c <= a * c /\ b * c \in Nat /\ a * c \in Nat BY <1>1, BlocksOrdered
<1>3. QED BY <1>2

\* The block and the slot of an item.
LEMMA PlaceOf ==
  ASSUME NEW c \in Nat \ {0}, NEW i \in Nat
  PROVE  /\ i \div c \in Nat /\ i % c \in 0 .. c - 1
         /\ i = (i \div c) * c + (i % c)
OBVIOUS

\* No other block and slot are those of the item.
LEMMA PlaceIs ==
  ASSUME NEW c \in Nat \ {0}, NEW b \in Nat, NEW s \in 0 .. c - 1
  PROVE  /\ b * c + s \in Nat
         /\ (b * c + s) \div c = b /\ (b * c + s) % c = s
<1> DEFINE i == b * c + s
<1>1. b * c \in Nat /\ i \in Nat BY BlocksOrdered
<1> HIDE DEF i
<1>2. i \div c \in Nat /\ i % c \in 0 .. c - 1 /\ i = (i \div c) * c + (i % c)
  BY <1>1, PlaceOf
<1>3. (i \div c) * c \in Nat BY <1>2, BlocksOrdered
<1>4. i = b * c + s BY DEF i
<1>5. (i \div c) * c < (b + 1) * c /\ b * c < (i \div c + 1) * c
  <2>1. (b + 1) * c = b * c + c /\ (i \div c + 1) * c = (i \div c) * c + c
    BY <1>2, BlocksOrdered
  <2>2. QED BY <1>1, <1>2, <1>3, <1>4, <2>1
<1>6. i \div c < b + 1 /\ b < i \div c + 1
  <2>1. (i \div c) * c \in Int /\ b * c \in Int BY <1>1, <1>3
  <2>2. QED BY <1>2, <1>5, <2>1, BlockBefore
<1>7. i \div c = b BY <1>2, <1>6
<1>8. QED BY <1>1, <1>2, <1>4, <1>7 DEF i

-----------------------------------------------------------------------------

\* An element behind a sequence.
LEMMA AppendIs ==
  ASSUME NEW S, NEW s \in Seq(S), NEW e \in S
  PROVE  /\ Append(s, e) \in Seq(S)
         /\ Len(Append(s, e)) = Len(s) + 1
         /\ Append(s, e)[Len(s) + 1] = e
         /\ \A i \in 1 .. Len(s) : Append(s, e)[i] = s[i]
OBVIOUS

LEMMA AppendedTwo ==
  ASSUME NEW S, NEW s \in Seq(S), NEW d \in S, NEW e \in S
  PROVE  /\ s \o <<d, e>> \in Seq(S)
         /\ Len(s \o <<d, e>>) = Len(s) + 2
         /\ \A i \in 1 .. Len(s) : (s \o <<d, e>>)[i] = s[i]
         /\ (s \o <<d, e>>)[Len(s) + 1] = d /\ (s \o <<d, e>>)[Len(s) + 2] = e
<1>1. <<d, e>> \in Seq(S) /\ Len(<<d, e>>) = 2 OBVIOUS
<1>2. QED BY <1>1

\* What holds at an argument if it holds at those of a lower rank holds everywhere.
LEMMA RankInduction ==
  ASSUME NEW D, NEW rank \in [D -> Nat], NEW S,
         \A d \in D : (\A e \in D : rank[e] < rank[d] => e \in S) => d \in S
  PROVE  D \subseteq S
<1> DEFINE T == {n \in Nat : \A d \in D : rank[d] < n => d \in S}
<1>1. 0 \in T OBVIOUS
<1>2. ASSUME NEW n \in Nat, n \in T PROVE n + 1 \in T
  <2>1. ASSUME NEW d \in D, rank[d] < n + 1 PROVE d \in S
    <3>1. \A e \in D : rank[e] < rank[d] => rank[e] < n BY <2>1
    <3>2. \A e \in D : rank[e] < rank[d] => e \in S BY <1>2, <3>1
    <3>3. QED BY <3>2
  <2>2. QED BY <2>1
<1> HIDE DEF T
<1>3. Nat \subseteq T BY <1>1, <1>2, NatSetInduction
<1>4. ASSUME NEW d \in D PROVE d \in S
  <2>1. rank[d] + 1 \in T BY <1>3
  <2>2. rank[d] \in Nat /\ rank[d] < rank[d] + 1 OBVIOUS
  <2>3. QED BY <2>1, <2>2 DEF T
<1>5. QED BY <1>4

-----------------------------------------------------------------------------
\* Sequences

LEMMA SequenceIs ==
  ASSUME NEW S, NEW s \in Seq(S)
  PROVE  /\ Len(s) \in Nat /\ DOMAIN s = 1 .. Len(s)
         /\ s = <<>> <=> Len(s) = 0
         /\ \A i \in 1 .. Len(s) : s[i] \in S
OBVIOUS

\* InsertAt puts an element behind the first p.
Inserted(t, s, p, e) ==
  /\ Len(t) = Len(s) + 1
  /\ \A i \in 1 .. p : t[i] = s[i]
  /\ t[p + 1] = e
  /\ \A i \in p + 1 .. Len(s) : t[i + 1] = s[i]

LEMMA InsertIs ==
  ASSUME NEW S, NEW s \in Seq(S), NEW e \in S, NEW p \in 0 .. Len(s)
  PROVE  InsertAt(s, p + 1, e) \in Seq(S) /\ Inserted(InsertAt(s, p + 1, e), s, p, e)
<1> DEFINE n == Len(s)
           a == SubSeq(s, 1, p)
           c == SubSeq(s, p + 1, n)
           t == InsertAt(s, p + 1, e)
<1>1. n \in Nat /\ p \in Nat /\ p <= n /\ DOMAIN s = 1 .. n /\ \A i \in 1 .. n : s[i] \in S
  BY SequenceIs
<1>2. a \in Seq(S) /\ Len(a) = p /\ \A i \in 1 .. p : a[i] = s[i]
  <2>1. \A i \in 1 .. p : s[i] \in S BY <1>1
  <2>2. /\ SubSeq(s, 1, p) \in Seq(S)
        /\ Len(SubSeq(s, 1, p)) = IF 1 <= p THEN p - 1 + 1 ELSE 0
        /\ \A i \in 1 .. p - 1 + 1 : SubSeq(s, 1, p)[i] = s[1 + i - 1]
    BY <1>1, <2>1, SubSeqProperties
  <2>3. QED BY <1>1, <2>2
<1>3. c \in Seq(S) /\ Len(c) = n - p /\ \A i \in 1 .. n - p : c[i] = s[p + i]
  <2>1. \A i \in p + 1 .. n : s[i] \in S BY <1>1
  <2>2. /\ SubSeq(s, p + 1, n) \in Seq(S)
        /\ Len(SubSeq(s, p + 1, n)) = IF p + 1 <= n THEN n - (p + 1) + 1 ELSE 0
        /\ \A i \in 1 .. n - (p + 1) + 1 : SubSeq(s, p + 1, n)[i] = s[p + 1 + i - 1]
    BY <1>1, <2>1, SubSeqProperties
  <2> HIDE DEF n
  <2>3. c \in Seq(S) /\ Len(c) = n - p
    <3>1. c = SubSeq(s, p + 1, n) OBVIOUS
    <3> HIDE DEF c
    <3>2. p + 1 <= n \/ n - p = 0 BY <1>1
    <3>3. Len(c) = n - p BY <1>1, <2>2, <3>1, <3>2
    <3>4. QED BY <2>2, <3>1, <3>3
  <2>4. ASSUME NEW i \in 1 .. n - p PROVE c[i] = s[p + i]
    <3>1. i \in 1 .. n - (p + 1) + 1 /\ p + 1 + i - 1 = p + i BY <1>1
    <3>2. QED BY <2>2, <3>1
  <2>5. QED BY <2>3, <2>4
<1>4. t = (a \o <<e>>) \o c
  <2>1. (p + 1) - 1 = p BY <1>1
  <2>2. QED BY <2>1 DEF InsertAt
<1> HIDE DEF n, a, c, t
<1>5. <<e>> \in Seq(S) /\ Len(<<e>>) = 1 /\ <<e>>[1] = e OBVIOUS
<1>6. PICK b : b = a \o <<e>> OBVIOUS
<1>7. /\ b \in Seq(S) /\ Len(b) = p + 1 /\ b[p + 1] = e
      /\ \A i \in 1 .. p : b[i] = s[i]
  <2>1. /\ a \o <<e>> \in Seq(S) /\ Len(a \o <<e>>) = Len(a) + Len(<<e>>)
        /\ \A i \in 1 .. Len(a) + Len(<<e>>) : (a \o <<e>>)[i] =
              IF i <= Len(a) THEN a[i] ELSE <<e>>[i - Len(a)]
    BY <1>2, <1>5, ConcatProperties
  <2>2. \A i \in 1 .. p + 1 : b[i] = IF i <= p THEN a[i] ELSE <<e>>[i - p]
    BY <1>2, <1>5, <1>6, <2>1
  <2>3. b[p + 1] = <<e>>[1]
    <3>1. p + 1 \in 1 .. p + 1 /\ ~(p + 1 <= p) /\ (p + 1) - p = 1 BY <1>1
    <3>2. QED BY <2>2, <3>1
  <2>4. QED BY <1>1, <1>2, <1>5, <1>6, <2>1, <2>2, <2>3
<1>8. /\ b \o c \in Seq(S) /\ Len(b \o c) = Len(b) + Len(c)
      /\ \A i \in 1 .. Len(b) + Len(c) : (b \o c)[i] = IF i <= Len(b) THEN b[i] ELSE c[i - Len(b)]
  BY <1>3, <1>7, ConcatProperties
<1>9. /\ t \in Seq(S) /\ Len(t) = n + 1
      /\ \A i \in 1 .. n + 1 : t[i] = IF i <= p + 1 THEN b[i] ELSE c[i - (p + 1)]
  BY <1>1, <1>3, <1>4, <1>6, <1>7, <1>8
<1>10. \A i \in p + 1 .. n : t[i + 1] = s[i]
  <2>1. SUFFICES ASSUME NEW i \in p + 1 .. n PROVE t[i + 1] = s[i] OBVIOUS
  <2>2. i + 1 \in 1 .. n + 1 /\ ~(i + 1 <= p + 1) BY <1>1
  <2>3. t[i + 1] = c[(i + 1) - (p + 1)] BY <1>9, <2>2
  <2>4. (i + 1) - (p + 1) \in 1 .. n - p /\ p + ((i + 1) - (p + 1)) = i BY <1>1
  <2>5. QED BY <1>3, <2>3, <2>4
<1>11. t[p + 1] = e /\ \A i \in 1 .. p : t[i] = s[i] BY <1>1, <1>7, <1>9
<1>12. QED BY <1>9, <1>10, <1>11 DEF t, n, Inserted

\* The parts of a flattened sequence, each behind those before it.
Laid(S, parts, flat, off) ==
  /\ flat \in Seq(S)
  /\ off \in [0 .. Len(parts) -> Nat] /\ off[0] = 0 /\ off[Len(parts)] = Len(flat)
  /\ \A i \in 1 .. Len(parts) :
       /\ off[i] = off[i - 1] + Len(parts[i])
       /\ \A j \in 1 .. Len(parts[i]) : flat[off[i - 1] + j] = parts[i][j]

LEMMA FlattenUnfolds ==
  ASSUME NEW S, NEW parts \in Seq(Seq(S))
  PROVE  \E f : /\ f \in [Nat -> Seq(S)] /\ f[0] = <<>>
                /\ \A n \in 0 .. Len(parts) - 1 : f[n + 1] = f[n] \o parts[n + 1]
                /\ FlattenSeq(parts) = f[Len(parts)]
<1> DEFINE L == Len(parts)
           step == [p \in Seq(S) \X Nat |-> IF p[2] \in 1 .. L THEN p[1] \o parts[p[2]] ELSE p[1]]
           flatten == CHOOSE f : f = [i \in 1 .. L |-> IF i = 1 THEN parts[i] ELSE f[i - 1] \o parts[i]]
<1>1. L \in Nat /\ \A i \in 1 .. L : parts[i] \in Seq(S) OBVIOUS
<1>2. FlattenSeq(parts) = IF L = 0 THEN parts ELSE flatten[L] BY DEF FlattenSeq
<1> HIDE DEF L, flatten
<1>3. Recursion(Seq(S), <<>>, step)
  <2>1. ASSUME NEW p \in Seq(S) \X Nat
        PROVE  (IF p[2] \in 1 .. L THEN p[1] \o parts[p[2]] ELSE p[1]) \in Seq(S)
    BY <1>1
  <2>2. step \in [Seq(S) \X Nat -> Seq(S)] BY <2>1
  <2>3. QED BY <2>2 DEF Recursion
<1>4. PICK f : Unfolds(f, Seq(S), <<>>, step) BY <1>3, RecursionExists
<1>5. f \in [Nat -> Seq(S)] /\ f[0] = <<>> /\ \A n \in Nat : f[n + 1] = step[<<f[n], n + 1>>]
  BY <1>4 DEF Unfolds
<1>6. ASSUME NEW n \in 0 .. L - 1 PROVE f[n + 1] = f[n] \o parts[n + 1]
  <2>1. n \in Nat /\ n + 1 \in 1 .. L /\ n + 1 \in Nat BY <1>1
  <2>2. f[n + 1] = step[<<f[n], n + 1>>] /\ f[n] \in Seq(S) BY <1>5, <2>1
  <2>3. <<f[n], n + 1>> \in Seq(S) \X Nat BY <2>1, <2>2
  <2>4. QED BY <2>1, <2>2, <2>3
<1> HIDE DEF step
<1>7. CASE L = 0
  <2>1. parts = <<>> BY <1>7 DEF L
  <2>2. QED BY <1>2, <1>5, <1>6, <1>7, <2>1 DEF L
<1>8. CASE L # 0
  <2> DEFINE g == [i \in 1 .. L |-> f[i]]
  <2>1. f[1] = parts[1]
    <3>1. f[1] = f[0] \o parts[1]
      <4>1. 0 \in 0 .. L - 1 /\ 0 + 1 = 1 BY <1>1, <1>8
      <4>2. QED BY <1>6, <4>1
    <3>2. parts[1] \in Seq(S) BY <1>1, <1>8
    <3>3. <<>> \o parts[1] = parts[1] BY <3>2, ConcatEmptySeq
    <3>4. QED BY <1>5, <3>1, <3>3
  <2>2. ASSUME NEW i \in 1 .. L PROVE g[i] = IF i = 1 THEN parts[i] ELSE g[i - 1] \o parts[i]
    <3>1. CASE i = 1 BY <2>1, <3>1
    <3>2. CASE i # 1
      <4>1. i - 1 \in 0 .. L - 1 /\ i - 1 \in 1 .. L /\ (i - 1) + 1 = i BY <1>1, <3>2
      <4>2. f[i] = f[i - 1] \o parts[i] BY <1>6, <4>1
      <4>3. QED BY <3>2, <4>1, <4>2
    <3>3. QED BY <3>1, <3>2
  <2>3. g = [i \in 1 .. L |-> IF i = 1 THEN parts[i] ELSE g[i - 1] \o parts[i]] BY <2>2
  <2> HIDE DEF g
  <2>4. flatten = [i \in 1 .. L |-> IF i = 1 THEN parts[i] ELSE flatten[i - 1] \o parts[i]]
    BY <2>3 DEF flatten
  <2> DEFINE T == {i \in 1 .. L : flatten[i] = f[i]}
  <2>5. 1 \in T BY <1>1, <1>8, <2>1, <2>4
  <2>6. ASSUME NEW i \in 1 .. L - 1, i \in T PROVE i + 1 \in T
    <3>1. i + 1 \in 1 .. L /\ i + 1 # 1 /\ (i + 1) - 1 = i /\ i \in 0 .. L - 1 BY <1>1
    <3>2. flatten[i + 1] = flatten[i] \o parts[i + 1] BY <2>4, <3>1
    <3>3. f[i + 1] = f[i] \o parts[i + 1] BY <1>6, <3>1
    <3>4. QED BY <2>6, <3>1, <3>2, <3>3
  <2> HIDE DEF T
  <2>7. Hereditary(T, 1, L) BY <2>5, <2>6 DEF Hereditary
  <2>8. 1 .. L \subseteq T BY <1>1, <2>7, IntervalInduction
  <2>9. flatten[L] = f[L] BY <1>1, <1>8, <2>8 DEF T
  <2>10. QED BY <1>2, <1>5, <1>6, <1>8, <2>9 DEF L
<1>9. QED BY <1>7, <1>8

LEMMA FlattenIs ==
  ASSUME NEW S, NEW parts \in Seq(Seq(S))
  PROVE  \E off : Laid(S, parts, FlattenSeq(parts), off)
<1> DEFINE L == Len(parts)
<1>1. PICK f : /\ f \in [Nat -> Seq(S)] /\ f[0] = <<>>
               /\ \A n \in 0 .. L - 1 : f[n + 1] = f[n] \o parts[n + 1]
               /\ FlattenSeq(parts) = f[L]
  BY FlattenUnfolds
<1>2. L \in Nat /\ \A i \in 1 .. L : parts[i] \in Seq(S) /\ Len(parts[i]) \in Nat OBVIOUS
<1> HIDE DEF L
<1>3. \A n \in Nat : f[n] \in Seq(S) /\ Len(f[n]) \in Nat
  <2>1. ASSUME NEW n \in Nat PROVE f[n] \in Seq(S) /\ Len(f[n]) \in Nat
    <3>1. f[n] \in Seq(S) BY <1>1
    <3>2. QED BY <3>1
  <2>2. QED BY <2>1
<1>4. ASSUME NEW n \in 0 .. L - 1
      PROVE  /\ Len(f[n + 1]) = Len(f[n]) + Len(parts[n + 1])
             /\ \A j \in 1 .. Len(f[n]) : f[n + 1][j] = f[n][j]
             /\ \A j \in 1 .. Len(parts[n + 1]) : f[n + 1][Len(f[n]) + j] = parts[n + 1][j]
  <2>1. n \in Nat /\ n + 1 \in 1 .. L BY <1>2
  <2>2. PICK a : a = f[n] OBVIOUS
  <2>3. PICK p : p = parts[n + 1] OBVIOUS
  <2>4. a \in Seq(S) /\ p \in Seq(S) /\ Len(a) \in Nat /\ Len(p) \in Nat BY <1>2, <1>3, <2>1, <2>2, <2>3
  <2>5. f[n + 1] = a \o p BY <1>1, <2>2, <2>3
  <2>6. /\ Len(a \o p) = Len(a) + Len(p)
        /\ \A j \in 1 .. Len(a) + Len(p) : (a \o p)[j] = IF j <= Len(a) THEN a[j] ELSE p[j - Len(a)]
    BY <2>4, ConcatProperties
  <2>7. \A j \in 1 .. Len(a) : (a \o p)[j] = a[j] BY <2>4, <2>6
  <2>8. ASSUME NEW j \in 1 .. Len(p) PROVE (a \o p)[Len(a) + j] = p[j]
    <3>1. /\ Len(a) + j \in 1 .. Len(a) + Len(p) /\ ~(Len(a) + j <= Len(a))
          /\ (Len(a) + j) - Len(a) = j
      BY <2>4
    <3>2. QED BY <2>6, <3>1
  <2>9. QED BY <2>2, <2>3, <2>5, <2>6, <2>7, <2>8
<1> DEFINE off == [i \in 0 .. L |-> Len(f[i])]
           T == {n \in 0 .. L : \A i \in 1 .. n : \A j \in 1 .. Len(parts[i]) :
                   off[i - 1] + j \in 1 .. Len(f[n]) /\ f[n][off[i - 1] + j] = parts[i][j]}
<1>5. \A i \in 1 .. L : off[i - 1] \in Nat /\ off[i] = off[i - 1] + Len(parts[i])
  <2>1. ASSUME NEW i \in 1 .. L PROVE off[i - 1] \in Nat /\ off[i] = off[i - 1] + Len(parts[i])
    <3>1. i - 1 \in 0 .. L - 1 /\ i - 1 \in Nat /\ (i - 1) + 1 = i BY <1>2
    <3>2. Len(f[i]) = Len(f[i - 1]) + Len(parts[i]) BY <1>4, <3>1
    <3>3. off[i] = Len(f[i]) /\ off[i - 1] = Len(f[i - 1]) BY <1>2, <3>1
    <3>4. QED BY <1>3, <3>1, <3>2, <3>3
  <2>2. QED BY <2>1
<1>6. 0 \in T BY <1>2
<1>7. ASSUME NEW n \in 0 .. L - 1, n \in T PROVE n + 1 \in T
  <2>1. n \in Nat /\ n + 1 \in 1 .. L /\ n + 1 \in 0 .. L /\ (n + 1) - 1 = n BY <1>2
  <2>2. off[n] = Len(f[n]) /\ Len(f[n]) \in Nat /\ Len(parts[n + 1]) \in Nat BY <1>2, <1>3, <2>1
  <2>3. /\ \A j \in 1 .. Len(parts[n + 1]) : Len(f[n]) + j \in 1 .. Len(f[n + 1])
        /\ 1 .. Len(f[n]) \subseteq 1 .. Len(f[n + 1])
    <3>1. PICK a, p, b : a = Len(f[n]) /\ p = Len(parts[n + 1]) /\ b = Len(f[n + 1]) OBVIOUS
    <3>2. a \in Nat /\ p \in Nat /\ b = a + p BY <1>4, <2>2, <3>1
    <3>3. (\A j \in 1 .. p : a + j \in 1 .. b) /\ 1 .. a \subseteq 1 .. b BY <3>2
    <3>4. QED BY <3>1, <3>3
  <2>4. \A i \in 1 .. n : \A j \in 1 .. Len(parts[i]) :
           off[i - 1] + j \in 1 .. Len(f[n]) /\ f[n][off[i - 1] + j] = parts[i][j]
    BY <1>7
  <2> HIDE DEF off, T
  <2>5. ASSUME NEW i \in 1 .. n + 1, NEW j \in 1 .. Len(parts[i])
        PROVE  off[i - 1] + j \in 1 .. Len(f[n + 1]) /\ f[n + 1][off[i - 1] + j] = parts[i][j]
    <3>1. CASE i = n + 1
      <4>1. off[i - 1] = Len(f[n]) /\ j \in 1 .. Len(parts[n + 1]) BY <2>1, <2>2, <3>1
      <4>2. f[n + 1][Len(f[n]) + j] = parts[n + 1][j] BY <1>4, <4>1
      <4>3. Len(f[n]) + j \in 1 .. Len(f[n + 1]) BY <2>2, <2>3, <4>1
      <4>4. QED BY <3>1, <4>1, <4>2, <4>3
    <3>2. CASE i # n + 1
      <4>1. i \in 1 .. n BY <2>1, <3>2
      <4>2. off[i - 1] + j \in 1 .. Len(f[n]) /\ f[n][off[i - 1] + j] = parts[i][j] BY <2>4, <4>1
      <4>3. f[n + 1][off[i - 1] + j] = f[n][off[i - 1] + j] BY <1>4, <4>2
      <4>4. off[i - 1] + j \in 1 .. Len(f[n + 1]) BY <2>2, <2>3, <4>2
      <4>5. QED BY <4>2, <4>3, <4>4
    <3>3. QED BY <3>1, <3>2
  <2>6. QED BY <2>1, <2>5 DEF T
<1> HIDE DEF T, off
<1>8. Hereditary(T, 0, L) BY <1>6, <1>7 DEF Hereditary
<1>9. 0 .. L \subseteq T BY <1>2, <1>8, IntervalInduction
<1>10. \A i \in 1 .. L : \A j \in 1 .. Len(parts[i]) : f[L][off[i - 1] + j] = parts[i][j]
  BY <1>2, <1>9 DEF T
<1>11. off \in [0 .. L -> Nat] /\ off[0] = 0 /\ off[L] = Len(f[L]) BY <1>1, <1>2, <1>3 DEF off
<1>12. f[L] \in Seq(S) BY <1>2, <1>3
<1>13. Laid(S, parts, FlattenSeq(parts), off) BY <1>1, <1>5, <1>10, <1>11, <1>12 DEF Laid, L
<1>14. QED BY <1>13

\* A sequence from a position of a file on.
LiesAt(cells, o, s) == \A j \in 1 .. Len(s) : cells[o + j - 1] = s[j]

LEMMA LiesApart ==
  ASSUME NEW S, NEW s \in Seq(S), NEW t \in Seq(S), NEW cells, NEW o \in Nat,
         LiesAt(cells, o, s \o t)
  PROVE  LiesAt(cells, o, s) /\ LiesAt(cells, o + Len(s), t)
<1>1. PICK m, n : m = Len(s) /\ n = Len(t) OBVIOUS
<1>2. m \in Nat /\ n \in Nat BY <1>1
<1>3. PICK u : u = s \o t OBVIOUS
<1>4. Len(u) = m + n /\ \A j \in 1 .. m + n : u[j] = IF j <= m THEN s[j] ELSE t[j - m]
  BY <1>1, <1>3, ConcatProperties
<1>5. \A j \in 1 .. m + n : cells[o + j - 1] = u[j] BY <1>3, <1>4 DEF LiesAt
<1>6. \A j \in 1 .. m : cells[o + j - 1] = s[j] BY <1>2, <1>4, <1>5
<1>7. ASSUME NEW j \in 1 .. n PROVE cells[(o + m) + j - 1] = t[j]
  <2>1. /\ m + j \in 1 .. m + n /\ ~(m + j <= m) /\ (m + j) - m = j
        /\ o + (m + j) - 1 = (o + m) + j - 1
    BY <1>2
  <2>2. QED BY <1>4, <1>5, <2>1
<1>8. QED BY <1>1, <1>6, <1>7 DEF LiesAt

LEMMA LiesAlone ==
  ASSUME NEW cells, NEW o \in Nat, NEW x, NEW y
  PROVE  /\ LiesAt(cells, o, <<x>>) => cells[o] = x
         /\ LiesAt(cells, o, <<x, y>>) => cells[o] = x /\ cells[o + 1] = y
<1>1. o + 1 - 1 = o /\ o + 2 - 1 = o + 1 OBVIOUS
<1>2. Len(<<x>>) = 1 /\ <<x>>[1] = x /\ Len(<<x, y>>) = 2 /\ <<x, y>>[1] = x /\ <<x, y>>[2] = y
  OBVIOUS
<1>3. 1 \in 1 .. 1 /\ 1 \in 1 .. 2 /\ 2 \in 1 .. 2 OBVIOUS
<1>4. QED BY <1>1, <1>2, <1>3 DEF LiesAt

LEMMA PartsLie ==
  ASSUME NEW S, NEW parts \in Seq(Seq(S)), NEW flat, NEW off, Laid(S, parts, flat, off),
         NEW cells, NEW o \in Nat, LiesAt(cells, o, flat), NEW i \in 1 .. Len(parts)
  PROVE  /\ off[i - 1] \in Nat /\ off[i] = off[i - 1] + Len(parts[i])
         /\ LiesAt(cells, o + off[i - 1], parts[i])
<1>1. PICK L : L = Len(parts) OBVIOUS
<1>2. L \in Nat /\ i \in 1 .. L /\ i - 1 \in 0 .. L /\ i \in 0 .. L /\ L \in 0 .. L BY <1>1
<1>3. /\ off[i - 1] \in Nat /\ off[i] = off[i - 1] + Len(parts[i]) /\ off[i] \in Nat
      /\ \A j \in 1 .. Len(parts[i]) : flat[off[i - 1] + j] = parts[i][j]
  BY <1>1, <1>2 DEF Laid
<1> DEFINE T == {n \in 0 .. L : off[L - n] <= off[L]}
<1>4. 0 \in T BY <1>1, <1>2 DEF Laid
<1>5. ASSUME NEW n \in 0 .. L - 1, n \in T PROVE n + 1 \in T
  <2>1. /\ L - n \in 1 .. L /\ (L - n) - 1 = L - (n + 1) /\ n + 1 \in 0 .. L
        /\ L - (n + 1) \in 0 .. L
    BY <1>2
  <2>2. off[L - n] = off[L - (n + 1)] + Len(parts[L - n]) BY <1>1, <2>1 DEF Laid
  <2>3. off[L - (n + 1)] \in Nat /\ off[L] \in Nat BY <1>1, <1>2, <2>1 DEF Laid
  <2>4. Len(parts[L - n]) \in Nat
    <3>1. parts[L - n] \in Seq(S) BY <1>1, <2>1
    <3>2. QED BY <3>1
  <2>5. QED BY <1>5, <2>1, <2>2, <2>3, <2>4
<1> HIDE DEF T
<1>6. Hereditary(T, 0, L) BY <1>4, <1>5 DEF Hereditary
<1>7. 0 .. L \subseteq T BY <1>2, <1>6, IntervalInduction
<1>8. off[i] <= off[L]
  <2>1. L - i \in 0 .. L /\ L - (L - i) = i BY <1>2
  <2>2. QED BY <1>7, <2>1 DEF T
<1>9. off[L] = Len(flat) /\ off[L] \in Nat BY <1>1, <1>2 DEF Laid
<1>10. PICK a, p : a = off[i - 1] /\ p = Len(parts[i]) OBVIOUS
<1>11. p \in Nat
  <2>1. parts[i] \in Seq(S) OBVIOUS
  <2>2. QED BY <1>10, <2>1
<1>12. ASSUME NEW j \in 1 .. p PROVE cells[(o + a) + j - 1] = parts[i][j]
  <2>1. a + j \in 1 .. Len(flat) BY <1>3, <1>8, <1>9, <1>10, <1>11
  <2>2. cells[o + (a + j) - 1] = flat[a + j] BY <2>1 DEF LiesAt
  <2>3. o + (a + j) - 1 = (o + a) + j - 1 BY <1>3, <1>10, <1>11
  <2>4. QED BY <1>3, <1>10, <2>2, <2>3
<1>13. QED BY <1>3, <1>10, <1>12 DEF LiesAt

LEMMA SubSeqGrows ==
  ASSUME NEW W, NEW s \in Seq(W)
  PROVE  /\ SubSeq(s, 1, 0) = <<>> /\ SubSeq(s, 1, Len(s)) = s
         /\ \A i \in 1 .. Len(s) : Append(SubSeq(s, 1, i - 1), s[i]) = SubSeq(s, 1, i)
<1>1. Len(s) \in Nat /\ \A i \in 1 .. Len(s) : s[i] \in W OBVIOUS
<1>2. SubSeq(s, 1, 0) = <<>> BY SubSeqEmpty
<1>3. SubSeq(s, 1, Len(s)) = s BY SubSeqFull
<1>4. ASSUME NEW i \in 1 .. Len(s) PROVE Append(SubSeq(s, 1, i - 1), s[i]) = SubSeq(s, 1, i)
  <2>1. 1 \in 1 .. Len(s) /\ i \in 1 .. Len(s) /\ i - 1 \in Int /\ 1 \in Int BY <1>1
  <2>2. SubSeq(s, 1, i) = SubSeq(s, 1, i - 1) \o <<s[i]>> BY <2>1, SubSeqRecursiveSecond
  <2>3. \A j \in 1 .. i - 1 : s[j] \in W BY <1>1
  <2>4. SubSeq(s, 1, i - 1) \in Seq(W) BY <2>1, <2>3, SubSeqProperties
  <2>5. Append(SubSeq(s, 1, i - 1), s[i]) = SubSeq(s, 1, i - 1) \o <<s[i]>>
    BY <1>1, <2>4, AppendIsConcat
  <2>6. QED BY <2>2, <2>5
<1>5. QED BY <1>2, <1>3, <1>4

\* Rows of one width, read from where they were written one behind the other.
Wide(S, rows, w) == rows \in Seq(Seq(S)) /\ w \in Nat /\ \A j \in 1 .. Len(rows) : Len(rows[j]) = w

RowsIn(S, flat, rows, w) ==
  /\ flat \in Seq(S) /\ Len(flat) = Len(rows) * w
  /\ rows = [j \in 1 .. Len(rows) |-> SubSeq(flat, (j - 1) * w + 1, j * w)]

LEMMA RowsAre ==
  ASSUME NEW S, NEW rows, NEW w, Wide(S, rows, w)
  PROVE  RowsIn(S, FlattenSeq(rows), rows, w)
<1>1. SUFFICES ASSUME rows \in Seq(Seq(S)), w \in Nat, \A j \in 1 .. Len(rows) : Len(rows[j]) = w
                PROVE  RowsIn(S, FlattenSeq(rows), rows, w)
  BY DEF Wide
<1> USE <1>1
<1>2. PICK n : n = Len(rows) OBVIOUS
<1>3. n \in Nat /\ DOMAIN rows = 1 .. n /\ \A j \in 1 .. n : rows[j] \in Seq(S) /\ Len(rows[j]) = w
  BY <1>2, <1>1
<1>4. PICK flat : flat = FlattenSeq(rows) OBVIOUS
<1>5. PICK off : Laid(S, rows, flat, off) BY <1>4, <1>1, FlattenIs
<1>6. /\ flat \in Seq(S) /\ off \in [0 .. n -> Nat] /\ off[0] = 0 /\ off[n] = Len(flat)
      /\ \A i \in 1 .. n : /\ off[i] = off[i - 1] + w
                           /\ \A j \in 1 .. w : flat[off[i - 1] + j] = rows[i][j]
  BY <1>2, <1>3, <1>5 DEF Laid
<1> DEFINE T == {i \in 0 .. n : off[i] = i * w}
<1>7. 0 \in T BY <1>3, <1>6
<1>8. ASSUME NEW i \in 0 .. n - 1, i \in T PROVE i + 1 \in T
  <2>1. i + 1 \in 1 .. n /\ i + 1 \in 0 .. n /\ (i + 1) - 1 = i BY <1>3
  <2>2. off[i + 1] = off[i] + w BY <1>6, <2>1
  <2>3. (i + 1) * w = i * w + w OBVIOUS
  <2>4. QED BY <1>8, <2>1, <2>2, <2>3
<1> HIDE DEF T
<1>9. Hereditary(T, 0, n) BY <1>7, <1>8 DEF Hereditary
<1>10. 0 .. n \subseteq T BY <1>3, <1>9, IntervalInduction
<1>11. Len(flat) = n * w
  <2>1. n \in 0 .. n BY <1>3
  <2>2. QED BY <1>6, <1>10, <2>1 DEF T
<1>12. ASSUME NEW j \in 1 .. n PROVE SubSeq(flat, (j - 1) * w + 1, j * w) = rows[j]
  <2>1. j - 1 \in 0 .. n /\ j - 1 \in Nat BY <1>3
  <2>2. PICK a : a = (j - 1) * w OBVIOUS
  <2>3. a \in Nat /\ j * w = a + w
    <3>1. (j - 1) * w + w = j * w OBVIOUS
    <3>2. (j - 1) * w \in Nat BY <2>1
    <3>3. QED BY <2>2, <3>1, <3>2
  <2>4. off[j - 1] = a BY <1>10, <2>1, <2>2 DEF T
  <2>5. \A k \in 1 .. w : flat[a + k] = rows[j][k] BY <1>6, <2>4
  <2>6. rows[j] \in Seq(S) /\ Len(rows[j]) = w /\ \A k \in 1 .. w : rows[j][k] \in S BY <1>3
  <2>7. PICK m, l : m = a + 1 /\ l = a + w OBVIOUS
  <2>8. /\ m \in Int /\ l \in Int /\ 1 .. l - m + 1 = 1 .. w
        /\ (IF m <= l THEN l - m + 1 ELSE 0) = w
    BY <2>3, <2>7
  <2>9. ASSUME NEW k \in m .. l PROVE flat[k] \in S
    <3>1. k - a \in 1 .. w /\ a + (k - a) = k BY <2>3, <2>7
    <3>2. QED BY <2>5, <2>6, <3>1
  <2>10. PICK t : t = SubSeq(flat, m, l) OBVIOUS
  <2>11. t \in Seq(S) /\ Len(t) = w /\ \A k \in 1 .. w : t[k] = flat[m + k - 1]
    BY <2>8, <2>9, <2>10, SubSeqProperties
  <2>12. \A k \in 1 .. w : m + k - 1 = a + k BY <2>3, <2>7
  <2>13. \A k \in 1 .. w : t[k] = rows[j][k] BY <2>5, <2>11, <2>12
  <2>14. t = rows[j] BY <2>6, <2>11, <2>13, SeqEqual
  <2>15. QED BY <2>2, <2>3, <2>7, <2>10, <2>14
<1>13. rows = [j \in 1 .. n |-> rows[j]] BY <1>3
<1>14. rows = [j \in 1 .. n |-> SubSeq(flat, (j - 1) * w + 1, j * w)] BY <1>12, <1>13
<1>15. QED BY <1>2, <1>4, <1>6, <1>11, <1>14 DEF RowsIn

Distinct(s) == \A i, j \in DOMAIN s : s[i] = s[j] => i = j

\* Links L from places P lead to every place once, but to none of F.
Linked(P, L, F) ==
  /\ F \subseteq P
  /\ \A a \in P : L[a] \in Seq(P \ F)
  /\ \A a, b \in P : \A i \in DOMAIN L[a], j \in DOMAIN L[b] : L[a][i] = L[b][j] => a = b /\ i = j
  /\ \A x \in P \ F : \E a \in P : \E i \in DOMAIN L[a] : L[a][i] = x

\* What may be linked to: one more place, the links of which lead to free ones.
LEMMA LinkedGrows ==
  ASSUME NEW P, NEW L, NEW F, Linked(P, L, F), NEW x, x \notin P,
         NEW q \in Seq(F), Distinct(q),
         NEW L2, \A a \in P : L2[a] = L[a], L2[x] = q
  PROVE  Linked(P \cup {x}, L2, (F \ ToSet(q)) \cup {x})
<1>1. PICK P2, F2 : P2 = P \cup {x} /\ F2 = (F \ ToSet(q)) \cup {x} OBVIOUS
<1>2. /\ F \subseteq P
      /\ \A a \in P : L[a] \in Seq(P \ F)
      /\ \A a, b \in P : \A i \in DOMAIN L[a], j \in DOMAIN L[b] : L[a][i] = L[b][j] => a = b /\ i = j
      /\ \A y \in P \ F : \E a \in P : \E i \in DOMAIN L[a] : L[a][i] = y
  BY DEF Linked
<1>3. DOMAIN q = 1 .. Len(q) /\ \A i \in DOMAIN q : q[i] \in F /\ q[i] \in ToSet(q)
  BY SequenceIs DEF ToSet
<1>4. F2 \subseteq P2 BY <1>1, <1>2
<1>5. \A a \in P2 : L2[a] \in Seq(P2 \ F2)
  <2>1. ASSUME NEW a \in P PROVE L2[a] \in Seq(P2 \ F2)
    <3>1. PICK s : s = L[a] OBVIOUS
    <3>2. PICK U : U = P \ F OBVIOUS
    <3>3. s \in Seq(U) BY <1>2, <3>1, <3>2
    <3>4. PICK V : V = P2 \ F2 OBVIOUS
    <3>5. U \subseteq V BY <1>1, <3>2, <3>4
    <3>6. s \in Seq(V) BY <3>3, <3>5
    <3>7. QED BY <3>1, <3>4, <3>6
  <2>2. L2[x] \in Seq(P2 \ F2)
    <3>1. PICK V : V = P2 \ F2 OBVIOUS
    <3>2. \A i \in 1 .. Len(q) : q[i] \in V BY <1>1, <1>2, <1>3, <3>1
    <3>3. q \in Seq(V) BY <3>2
    <3>4. QED BY <3>1, <3>3
  <2>3. QED BY <1>1, <2>1, <2>2
<1>6. \A a \in P : \A i \in DOMAIN L[a] : L[a][i] \in P \ F
  <2>1. ASSUME NEW a \in P, NEW i \in DOMAIN L[a] PROVE L[a][i] \in P \ F
    <3>1. PICK s, U : s = L[a] /\ U = P \ F OBVIOUS
    <3>2. s \in Seq(U) BY <1>2, <3>1
    <3>3. QED BY <3>1, <3>2, SequenceIs
  <2>2. QED BY <2>1
<1>7. ASSUME NEW a \in P2, NEW b \in P2, NEW i \in DOMAIN L2[a], NEW j \in DOMAIN L2[b],
             L2[a][i] = L2[b][j]
      PROVE  a = b /\ i = j
  <2>1. CASE a \in P /\ b \in P
    <3>1. L2[a] = L[a] /\ L2[b] = L[b] BY <2>1
    <3>2. QED BY <1>2, <1>7, <2>1, <3>1
  <2>2. CASE a \in P /\ b = x
    <3>1. L2[a][i] \in P \ F BY <1>6, <2>2
    <3>2. L2[b][j] \in F BY <1>3, <2>2
    <3>3. QED BY <1>7, <3>1, <3>2
  <2>3. CASE a = x /\ b \in P
    <3>1. L2[b][j] \in P \ F BY <1>6, <2>3
    <3>2. L2[a][i] \in F BY <1>3, <2>3
    <3>3. QED BY <1>7, <3>1, <3>2
  <2>4. CASE a = x /\ b = x BY <1>7, <2>4 DEF Distinct
  <2>5. QED BY <1>1, <2>1, <2>2, <2>3, <2>4
<1>8. ASSUME NEW y \in P2 \ F2 PROVE \E a \in P2 : \E i \in DOMAIN L2[a] : L2[a][i] = y
  <2>1. CASE y \in F
    <3>1. y \in ToSet(q) BY <1>1, <1>8, <2>1
    <3>2. PICK i \in DOMAIN q : q[i] = y BY <3>1 DEF ToSet
    <3>3. x \in P2 /\ i \in DOMAIN L2[x] /\ L2[x][i] = y BY <1>1, <3>2
    <3>4. QED BY <3>3
  <2>2. CASE y \notin F
    <3>1. y \in P \ F BY <1>1, <1>8, <2>2
    <3>2. PICK a \in P : \E i \in DOMAIN L[a] : L[a][i] = y BY <1>2, <3>1
    <3>3. a \in P2 /\ L2[a] = L[a] BY <1>1
    <3>4. QED BY <3>2, <3>3
  <2>3. QED BY <2>1, <2>2
<1>9. Linked(P2, L2, F2) BY <1>4, <1>5, <1>7, <1>8 DEF Linked
<1>10. QED BY <1>1, <1>9

IsStart(s, t) == Len(s) <= Len(t) /\ \A i \in 1 .. Len(s) : s[i] = t[i]

LEMMA StartIs ==
  ASSUME NEW W, NEW s \in Seq(W), NEW k \in 0 .. Len(s)
  PROVE  /\ SubSeq(s, 1, k) \in Seq(W) /\ Len(SubSeq(s, 1, k)) = k
         /\ \A i \in 1 .. k : SubSeq(s, 1, k)[i] = s[i]
<1>1. Len(s) \in Nat /\ \A i \in 1 .. Len(s) : s[i] \in W BY SequenceIs
<1>2. k \in Nat /\ k <= Len(s) /\ \A i \in 1 .. k : s[i] \in W BY <1>1
<1>3. /\ SubSeq(s, 1, k) \in Seq(W) /\ Len(SubSeq(s, 1, k)) = IF 1 <= k THEN k - 1 + 1 ELSE 0
      /\ \A i \in 1 .. k - 1 + 1 : SubSeq(s, 1, k)[i] = s[1 + i - 1]
  BY <1>2, SubSeqProperties
<1>4. k - 1 + 1 = k /\ \A i \in 1 .. k : 1 + i - 1 = i BY <1>2
<1>5. Len(SubSeq(s, 1, k)) = k BY <1>2, <1>3
<1>6. \A i \in 1 .. k : SubSeq(s, 1, k)[i] = s[i] BY <1>3, <1>4
<1>7. QED BY <1>3, <1>5, <1>6

\* A sequence is what it begins with and the rest.
LEMMA SplitAt ==
  ASSUME NEW W, NEW s \in Seq(W), NEW k \in 0 .. Len(s)
  PROVE  SubSeq(s, 1, k) \o SubSeq(s, k + 1, Len(s)) = s
<1>1. PICK n, a, b : n = Len(s) /\ a = SubSeq(s, 1, k) /\ b = SubSeq(s, k + 1, n) OBVIOUS
<1>2. n \in Nat /\ \A i \in 1 .. n : s[i] \in W BY <1>1, SequenceIs
<1>3. k \in Nat /\ k <= n BY <1>1, <1>2
<1>4. a \in Seq(W) /\ Len(a) = k /\ \A i \in 1 .. k : a[i] = s[i] BY <1>1, StartIs
<1>5. b \in Seq(W) /\ Len(b) = n - k /\ \A i \in 1 .. n - k : b[i] = s[k + i]
  <2>1. \A i \in k + 1 .. n : s[i] \in W BY <1>2, <1>3
  <2>2. /\ b \in Seq(W) /\ Len(b) = IF k + 1 <= n THEN n - (k + 1) + 1 ELSE 0
        /\ \A i \in 1 .. n - (k + 1) + 1 : b[i] = s[k + 1 + i - 1]
    BY <1>1, <1>2, <1>3, <2>1, SubSeqProperties
  <2>3. n - (k + 1) + 1 = n - k /\ \A i \in 1 .. n - k : k + 1 + i - 1 = k + i BY <1>2, <1>3
  <2>4. Len(b) = n - k BY <1>2, <1>3, <2>2
  <2>5. QED BY <2>2, <2>3, <2>4
<1>6. /\ a \o b \in Seq(W) /\ Len(a \o b) = Len(a) + Len(b)
      /\ \A i \in 1 .. Len(a) + Len(b) : (a \o b)[i] = IF i <= Len(a) THEN a[i] ELSE b[i - Len(a)]
  BY <1>4, <1>5, ConcatProperties
<1>7. Len(a) + Len(b) = n BY <1>2, <1>3, <1>4, <1>5
<1>8. \A i \in 1 .. n : (a \o b)[i] = s[i]
  <2>1. SUFFICES ASSUME NEW i \in 1 .. n PROVE (a \o b)[i] = s[i] OBVIOUS
  <2>2. CASE i <= k BY <1>3, <1>4, <1>6, <1>7, <2>2
  <2>3. CASE ~(i <= k)
    <3>1. i - k \in 1 .. n - k /\ k + (i - k) = i BY <1>2, <1>3, <2>3
    <3>2. (a \o b)[i] = b[i - k] BY <1>4, <1>6, <1>7, <2>3
    <3>3. b[i - k] = s[k + (i - k)] BY <1>5, <3>1
    <3>4. QED BY <3>1, <3>2, <3>3
  <2>4. QED BY <2>2, <2>3
<1>9. a \o b = s BY <1>1, <1>2, <1>6, <1>7, <1>8, SeqEqual
<1>10. QED BY <1>1, <1>9

LEMMA BeginsIs ==
  ASSUME NEW W, NEW s \in Seq(W), NEW t \in Seq(W)
  PROVE  /\ IsPrefix(s, t) <=> IsStart(s, t)
         /\ IsStrictPrefix(s, t) <=> IsStart(s, t) /\ Len(s) < Len(t)
<1>1. Len(s) \in Nat /\ Len(t) \in Nat BY SequenceIs
<1>2. ASSUME Len(s) <= Len(t)
      PROVE  SubSeq(s, 1, Len(s)) = SubSeq(t, 1, Len(s)) <=> \A i \in 1 .. Len(s) : s[i] = t[i]
  <2>1. PICK k, u : k = Len(s) /\ u = SubSeq(t, 1, k) OBVIOUS
  <2>2. k \in 0 .. Len(t) /\ k \in Nat BY <1>1, <1>2, <2>1
  <2>3. u \in Seq(W) /\ Len(u) = k /\ \A i \in 1 .. k : u[i] = t[i] BY <2>1, <2>2, StartIs
  <2>4. SubSeq(s, 1, k) = s BY <2>1, SubSeqFull
  <2>5. s = u <=> \A i \in 1 .. k : s[i] = u[i] BY <2>1, <2>3, SeqEqual
  <2>6. QED BY <2>1, <2>3, <2>4, <2>5
<1>3. IsPrefix(s, t) <=> IsStart(s, t) BY <1>2 DEF IsPrefix, IsStart
<1>4. IsStart(s, t) => (s # t <=> Len(s) < Len(t))
  <2>1. ASSUME IsStart(s, t), Len(s) = Len(t) PROVE s = t BY <2>1, SeqEqual DEF IsStart
  <2>2. QED BY <1>1, <2>1 DEF IsStart
<1>5. QED BY <1>3, <1>4 DEF IsStrictPrefix

\* Two that begin the same one: the shorter begins the other.
LEMMA BeginsBoth ==
  ASSUME NEW W, NEW r \in Seq(W), NEW s \in Seq(W), NEW t \in Seq(W), IsStart(r, t), IsStart(s, t),
         Len(r) <= Len(s)
  PROVE  IsStart(r, s)
<1>1. Len(r) \in Nat /\ Len(s) \in Nat /\ Len(t) \in Nat BY SequenceIs
<1>2. QED BY <1>1 DEF IsStart

LEMMA BeginsFurther ==
  ASSUME NEW W, NEW r \in Seq(W), NEW s \in Seq(W), NEW t \in Seq(W), IsStart(r, s), IsStart(s, t)
  PROVE  IsStart(r, t)
<1>1. Len(r) \in Nat /\ Len(s) \in Nat /\ Len(t) \in Nat BY SequenceIs
<1>2. QED BY <1>1 DEF IsStart

SetRow(s, w, i, r) == w = [s EXCEPT ![i] = r]

RowIs(s, w, i, r) ==
  /\ Len(w) = Len(s) /\ DOMAIN w = DOMAIN s
  /\ \A j \in DOMAIN s : w[j] = IF j = i THEN r ELSE s[j]

LEMMA RowSetIs ==
  ASSUME NEW R, NEW s \in Seq(R), NEW i, NEW r, i \in DOMAIN s => r \in R, NEW w, SetRow(s, w, i, r)
  PROVE  w \in Seq(R) /\ RowIs(s, w, i, r)
<1>1. DOMAIN s = 1 .. Len(s) /\ Len(s) \in Nat /\ \A j \in 1 .. Len(s) : s[j] \in R BY SequenceIs
<1>2. w = [s EXCEPT ![i] = r] BY DEF SetRow
<1>3. w = [j \in 1 .. Len(s) |-> IF j = i THEN r ELSE s[j]] BY <1>1, <1>2
<1>4. \A j \in 1 .. Len(s) : (IF j = i THEN r ELSE s[j]) \in R BY <1>1
<1>5. w \in [1 .. Len(s) -> R] BY <1>3, <1>4
<1>6. w \in Seq(R) /\ Len(w) = Len(s) BY <1>1, <1>5
<1>7. QED BY <1>1, <1>3, <1>6 DEF RowIs

\* A sequence of a set's members, each once
Listing(s, X) == s \in Seq(X) /\ Distinct(s) /\ ToSet(s) = X

LEMMA ListingLen ==
  ASSUME NEW s, NEW X, Listing(s, X)
  PROVE  Len(s) = Cardinality(X)
<1>1. s \in Seq(X) /\ Distinct(s) /\ ToSet(s) = X BY DEF Listing
<1>2. PICK n : n = Len(s) OBVIOUS
<1>3. n \in Nat /\ DOMAIN s = 1 .. n /\ \A i \in 1 .. n : s[i] \in X BY <1>1, <1>2, SequenceIs
<1>4. s \in [1 .. n -> X] BY <1>1, <1>2
<1>5. IsInjective(s) BY <1>1 DEF Distinct, IsInjective
<1>6. s \in Injection(1 .. n, X) BY <1>4, <1>5 DEF Injection
<1>7. \A x \in X : \E i \in 1 .. n : s[i] = x BY <1>1, <1>3 DEF ToSet
<1>8. s \in Surjection(1 .. n, X) BY <1>4, <1>7 DEF Surjection
<1>9. s \in Bijection(1 .. n, X) BY <1>6, <1>8 DEF Bijection
<1>10. ExistsBijection(1 .. n, X) BY <1>9 DEF ExistsBijection
<1>11. QED BY <1>2, <1>3, <1>10, FS_CountingElements

LEMMA ListingJoins ==
  ASSUME NEW s, NEW X, Listing(s, X), NEW u, NEW Y, Listing(u, Y), X \cap Y = {}
  PROVE  Listing(s \o u, X \cup Y)
<1>1. s \in Seq(X) /\ Distinct(s) /\ ToSet(s) = X /\ u \in Seq(Y) /\ Distinct(u) /\ ToSet(u) = Y
  BY DEF Listing
<1>2. PICK Z, m, n, w : Z = X \cup Y /\ m = Len(s) /\ n = Len(u) /\ w = s \o u OBVIOUS
<1>3. /\ m \in Nat /\ DOMAIN s = 1 .. m /\ \A i \in 1 .. m : s[i] \in X
      /\ n \in Nat /\ DOMAIN u = 1 .. n /\ \A i \in 1 .. n : u[i] \in Y
  BY <1>1, <1>2, SequenceIs
<1>4. s \in Seq(Z) /\ u \in Seq(Z) BY <1>1, <1>2
<1>5. w \in Seq(Z) /\ Len(w) = m + n /\ \A i \in 1 .. m + n : w[i] = IF i <= m THEN s[i] ELSE u[i - m]
  BY <1>2, <1>4, ConcatProperties
<1>6. DOMAIN w = 1 .. m + n BY <1>5, SequenceIs
<1>7. ASSUME NEW i \in 1 .. m + n
      PROVE  \/ i \in 1 .. m /\ w[i] = s[i] /\ w[i] \in X
             \/ i - m \in 1 .. n /\ w[i] = u[i - m] /\ w[i] \in Y
  <2>1. CASE i <= m
    <3>1. i \in 1 .. m BY <1>3, <2>1
    <3>2. QED BY <1>3, <1>5, <2>1, <3>1
  <2>2. CASE ~(i <= m)
    <3>1. i - m \in 1 .. n BY <1>3, <2>2
    <3>2. QED BY <1>3, <1>5, <2>2, <3>1
  <2>3. QED BY <2>1, <2>2
<1>8. ASSUME NEW i \in 1 .. m + n, NEW j \in 1 .. m + n, w[i] = w[j] PROVE i = j
  <2>1. CASE i \in 1 .. m /\ w[i] = s[i] /\ w[i] \in X
    <3>1. j \in 1 .. m /\ w[j] = s[j] BY <1>7, <1>8, <2>1
    <3>2. QED BY <1>1, <1>3, <1>8, <2>1, <3>1 DEF Distinct
  <2>2. CASE i - m \in 1 .. n /\ w[i] = u[i - m] /\ w[i] \in Y
    <3>1. j - m \in 1 .. n /\ w[j] = u[j - m] BY <1>7, <1>8, <2>2
    <3>2. PICK a, b : a = i - m /\ b = j - m OBVIOUS
    <3>3. a \in DOMAIN u /\ b \in DOMAIN u /\ u[a] = u[b] BY <1>3, <1>8, <2>2, <3>1, <3>2
    <3>4. a = b BY <1>1, <3>3 DEF Distinct
    <3>5. QED BY <1>3, <3>2, <3>4
  <2>3. QED BY <1>7, <2>1, <2>2
<1>9. ASSUME NEW z \in Z PROVE \E i \in 1 .. m + n : w[i] = z
  <2>1. CASE z \in X
    <3>1. PICK i \in 1 .. m : s[i] = z BY <1>1, <1>3, <2>1 DEF ToSet
    <3>2. i \in 1 .. m + n /\ i <= m BY <1>3
    <3>3. w[i] = z BY <1>5, <3>1, <3>2
    <3>4. QED BY <3>2, <3>3
  <2>2. CASE z \in Y
    <3>1. PICK i \in 1 .. n : u[i] = z BY <1>1, <1>3, <2>2 DEF ToSet
    <3>2. PICK j : j = m + i OBVIOUS
    <3>3. j \in 1 .. m + n /\ ~(j <= m) /\ j - m = i BY <1>3, <3>2
    <3>4. w[j] = z BY <1>5, <3>1, <3>3
    <3>5. QED BY <3>3, <3>4
  <2>3. QED BY <1>2, <2>1, <2>2
<1>10. \A i \in 1 .. m + n : w[i] \in Z BY <1>2, <1>7
<1>11. ToSet(w) = Z BY <1>6, <1>9, <1>10 DEF ToSet
<1>12. Distinct(w) BY <1>6, <1>8 DEF Distinct
<1>13. QED BY <1>2, <1>5, <1>11, <1>12 DEF Listing

Lists(parts, X) ==
  /\ \A i \in DOMAIN parts : Listing(parts[i], X[i])
  /\ \A i, j \in DOMAIN parts : i # j => X[i] \cap X[j] = {}

LEMMA ListingFlat ==
  ASSUME NEW S, NEW parts \in Seq(Seq(S)), NEW X, Lists(parts, X)
  PROVE  Listing(FlattenSeq(parts), UNION {X[i] : i \in DOMAIN parts})
<1>1. PICK f : /\ f \in [Nat -> Seq(S)] /\ f[0] = <<>>
               /\ \A n \in 0 .. Len(parts) - 1 : f[n + 1] = f[n] \o parts[n + 1]
               /\ FlattenSeq(parts) = f[Len(parts)]
  BY FlattenUnfolds
<1>2. PICK L : L = Len(parts) OBVIOUS
<1>3. L \in Nat /\ DOMAIN parts = 1 .. L BY <1>2, SequenceIs
<1> DEFINE Z(n) == UNION {X[i] : i \in 1 .. n}
           T == {n \in 0 .. L : Listing(f[n], Z(n))}
<1>4. 0 \in T
  <2>1. Z(0) = {} OBVIOUS
  <2>2. Listing(<<>>, {}) BY DEF Listing, Distinct, ToSet
  <2> HIDE DEF Z
  <2>3. PICK e, z : e = f[0] /\ z = Z(0) OBVIOUS
  <2>4. e = <<>> /\ z = {} BY <1>1, <2>1, <2>3
  <2>5. Listing(e, z) BY <2>2, <2>4
  <2>6. 0 \in 0 .. L BY <1>3
  <2>7. QED BY <2>3, <2>5, <2>6
<1>5. ASSUME NEW n \in 0 .. L - 1, n \in T PROVE n + 1 \in T
  <2>1. n \in Nat /\ n + 1 \in 1 .. L /\ n + 1 \in 0 .. L /\ \A i \in 1 .. n : i \in 1 .. L /\ i # n + 1
    BY <1>3
  <2>2. PICK k, p, Y : k = n + 1 /\ p = parts[k] /\ Y = X[k] OBVIOUS
  <2>3. Listing(p, Y) BY <1>3, <2>1, <2>2 DEF Lists
  <2>4. Z(n) \cap Y = {}
    <3>1. \A i \in 1 .. n : X[i] \cap Y = {}
      <4>1. k \in DOMAIN parts /\ \A i \in 1 .. n : i \in DOMAIN parts /\ i # k BY <1>3, <2>1, <2>2
      <4>2. QED BY <2>2, <4>1 DEF Lists
    <3>2. QED BY <3>1
  <2>5. Z(k) = Z(n) \cup Y
    <3>1. \A i : i \in 1 .. k <=> i \in 1 .. n \/ i = k BY <2>1, <2>2
    <3>2. QED BY <2>2, <3>1
  <2>6. Listing(f[n], Z(n)) BY <1>5
  <2>7. f[k] = f[n] \o p BY <1>1, <1>2, <2>2
  <2> HIDE DEF Z
  <2>8. Listing(f[k], Z(k))
    <3>1. PICK u, U : u = f[n] /\ U = Z(n) OBVIOUS
    <3>2. Listing(u, U) /\ U \cap Y = {} BY <2>4, <2>6, <3>1
    <3>3. Listing(u \o p, U \cup Y) BY <2>3, <3>2, ListingJoins
    <3>4. f[k] = u \o p /\ Z(k) = U \cup Y BY <2>5, <2>7, <3>1
    <3>5. QED BY <3>3, <3>4
  <2>9. QED BY <2>1, <2>2, <2>8
<1>6. L \in T
  <2> HIDE DEF T
  <2>1. Hereditary(T, 0, L) BY <1>4, <1>5 DEF Hereditary
  <2>2. 0 .. L \subseteq T BY <1>3, <2>1, IntervalInduction
  <2>3. QED BY <1>3, <2>2
<1>7. Z(L) = UNION {X[i] : i \in DOMAIN parts} BY <1>3
<1> HIDE DEF Z
<1>8. QED BY <1>1, <1>2, <1>6, <1>7

\* One letter further into a key
LEMMA StartGrows ==
  ASSUME NEW W, NEW s \in Seq(W), NEW k \in 0 .. Len(s) - 1
  PROVE  Append(SubSeq(s, 1, k), s[k + 1]) = SubSeq(s, 1, k + 1)
<1>1. PICK n, a, b, c : n = Len(s) /\ a = SubSeq(s, 1, k) /\ b = SubSeq(s, 1, k + 1) /\ c = Append(a, s[k + 1])
  OBVIOUS
<1>2. n \in Nat /\ \A i \in 1 .. n : s[i] \in W BY <1>1, SequenceIs
<1>3. k \in 0 .. n /\ k + 1 \in 0 .. n /\ k \in Nat /\ k + 1 \in 1 .. n BY <1>1, <1>2
<1>4. a \in Seq(W) /\ Len(a) = k /\ \A i \in 1 .. k : a[i] = s[i] BY <1>1, <1>3, StartIs
<1>5. b \in Seq(W) /\ Len(b) = k + 1 /\ \A i \in 1 .. k + 1 : b[i] = s[i] BY <1>1, <1>3, StartIs
<1>6. s[k + 1] \in W BY <1>2, <1>3
<1>7. c \in Seq(W) /\ Len(c) = k + 1 /\ c[k + 1] = s[k + 1] /\ \A i \in 1 .. k : c[i] = a[i]
  BY <1>1, <1>4, <1>6, AppendIs
<1>8. \A i \in 1 .. k + 1 : c[i] = b[i]
  <2>1. \A i \in 1 .. k + 1 : i \in 1 .. k \/ i = k + 1 BY <1>3
  <2>2. k + 1 \in 1 .. k + 1 BY <1>3
  <2>3. QED BY <1>4, <1>5, <1>7, <2>1, <2>2
<1>9. c = b BY <1>5, <1>7, <1>8, SeqEqual
<1>10. QED BY <1>1, <1>9

\* The letter a suffix is broken after
LEMMA HeadMoves ==
  ASSUME NEW W, NEW n \in Seq(W), NEW s \in Seq(W), s # <<>>
  PROVE  Append(n, Head(s)) \o Tail(s) = n \o s
<1>1. PICK x, t, l : x = Head(s) /\ t = Tail(s) /\ l = Append(n, x) OBVIOUS
<1>2. Len(s) \in Nat /\ Len(s) # 0 /\ Len(n) \in Nat BY SequenceIs
<1>3. x \in W /\ x = s[1] /\ t \in Seq(W) /\ Len(t) = Len(s) - 1 /\ \A i \in 1 .. Len(t) : t[i] = s[i + 1]
  <2>1. Head(s) = s[1] /\ 1 \in 1 .. Len(s) BY <1>2
  <2>2. Tail(s) \in Seq(W) /\ Len(Tail(s)) = Len(s) - 1 BY <1>2
  <2>3. \A i \in 1 .. Len(Tail(s)) : Tail(s)[i] = s[i + 1] BY <1>2, <2>2
  <2>4. s[1] \in W BY <2>1, SequenceIs
  <2>5. QED BY <1>1, <2>1, <2>2, <2>3, <2>4
<1>4. l \in Seq(W) /\ Len(l) = Len(n) + 1 /\ l[Len(n) + 1] = x /\ \A i \in 1 .. Len(n) : l[i] = n[i]
  BY <1>1, <1>3, AppendIs
<1>5. /\ l \o t \in Seq(W) /\ Len(l \o t) = Len(l) + Len(t)
      /\ \A i \in 1 .. Len(l) + Len(t) : (l \o t)[i] = IF i <= Len(l) THEN l[i] ELSE t[i - Len(l)]
  BY <1>3, <1>4, ConcatProperties
<1>6. /\ n \o s \in Seq(W) /\ Len(n \o s) = Len(n) + Len(s)
      /\ \A i \in 1 .. Len(n) + Len(s) : (n \o s)[i] = IF i <= Len(n) THEN n[i] ELSE s[i - Len(n)]
  BY ConcatProperties
<1>7. Len(l) + Len(t) = Len(n) + Len(s) BY <1>2, <1>3, <1>4
<1>8. \A i \in 1 .. Len(n) + Len(s) : (l \o t)[i] = (n \o s)[i]
  <2>1. SUFFICES ASSUME NEW i \in 1 .. Len(n) + Len(s) PROVE (l \o t)[i] = (n \o s)[i] OBVIOUS
  <2>2. CASE i <= Len(n) BY <1>2, <1>4, <1>5, <1>6, <1>7, <2>2
  <2>3. CASE i = Len(n) + 1
    <3>1. (l \o t)[i] = s[1] BY <1>2, <1>3, <1>4, <1>5, <1>7, <2>3
    <3>2. (n \o s)[i] = s[1] BY <1>2, <1>6, <2>3
    <3>3. QED BY <3>1, <3>2
  <2>4. CASE i > Len(n) + 1
    <3>1. i - Len(l) \in 1 .. Len(t) /\ i - Len(l) + 1 = i - Len(n) BY <1>2, <1>3, <1>4, <2>4
    <3>2. (l \o t)[i] = t[i - Len(l)] BY <1>2, <1>4, <1>5, <1>7, <2>4
    <3>3. (n \o s)[i] = s[i - Len(n)] BY <1>2, <1>6, <2>4
    <3>4. QED BY <1>3, <3>1, <3>2, <3>3
  <2>5. i <= Len(n) \/ i = Len(n) + 1 \/ i > Len(n) + 1 BY <1>2
  <2>6. QED BY <2>2, <2>3, <2>4, <2>5
<1>9. l \o t = n \o s BY <1>5, <1>6, <1>7, <1>8, SeqEqual
<1>10. QED BY <1>1, <1>9

LEMMA WithNone == ASSUME NEW W, NEW s \in Seq(W) PROVE s \o <<>> = s
OBVIOUS

LEMMA FrontIs ==
  ASSUME NEW S, NEW s \in Seq(S), NEW k, k = Len(s), k > 0
  PROVE  Front(s) \in Seq(S) /\ Len(Front(s)) = k - 1 /\ \A i \in 1 .. k - 1 : Front(s)[i] = s[i]
<1>1. k \in Nat BY SequenceIs
<1>2. k - 1 \in 0 .. Len(s) BY <1>1
<1>3. /\ SubSeq(s, 1, k - 1) \in Seq(S) /\ Len(SubSeq(s, 1, k - 1)) = k - 1
      /\ \A i \in 1 .. k - 1 : SubSeq(s, 1, k - 1)[i] = s[i]
  BY <1>2, StartIs
<1>4. Front(s) = SubSeq(s, 1, k - 1) BY DEF Front
<1>5. QED BY <1>3, <1>4

-----------------------------------------------------------------------------
\* Numbers for the members of a listed set have a bound.
LEMMA ListingBound ==
  ASSUME NEW X, NEW s, Listing(s, X), NEW f \in [X -> Nat]
  PROVE  \E b \in Nat : \A x \in X : f[x] <= b
<1>1. s \in Seq(X) /\ ToSet(s) = X BY DEF Listing
<1>2. PICK n : n = Len(s) OBVIOUS
<1>3. n \in Nat /\ DOMAIN s = 1 .. n /\ \A i \in 1 .. n : s[i] \in X BY <1>1, <1>2, SequenceIs
<1> DEFINE T == {m \in Nat : m <= n => \E b \in Nat : \A i \in 1 .. m : f[s[i]] <= b}
<1>4. 0 \in T OBVIOUS
<1>5. ASSUME NEW m \in Nat, m \in T PROVE m + 1 \in T
  <2>1. SUFFICES ASSUME m + 1 <= n PROVE \E b \in Nat : \A i \in 1 .. m + 1 : f[s[i]] <= b
    <3>1. m + 1 \in Nat OBVIOUS
    <3>2. QED BY <3>1
  <2>2. PICK b \in Nat : \A i \in 1 .. m : f[s[i]] <= b BY <1>3, <1>5, <2>1
  <2>3. PICK c : c = f[s[m + 1]] OBVIOUS
  <2>4. c \in Nat BY <1>3, <2>1, <2>3
  <2>5. \A i \in 1 .. m + 1 : i \in 1 .. m \/ i = m + 1 OBVIOUS
  <2>6. \A i \in 1 .. m : f[s[i]] \in Nat BY <1>3, <2>1
  <2>7. \A i \in 1 .. m + 1 : f[s[i]] <= b + c BY <2>2, <2>3, <2>4, <2>5, <2>6
  <2>8. QED BY <2>4, <2>7
<1> HIDE DEF T
<1>6. Nat \subseteq T BY <1>4, <1>5, NatSetInduction
<1>7. PICK b \in Nat : \A i \in 1 .. n : f[s[i]] <= b
  <2>1. n \in T BY <1>3, <1>6
  <2>2. QED BY <1>3, <2>1 DEF T
<1>8. \A x \in X : \E i \in 1 .. n : s[i] = x BY <1>1, <1>3 DEF ToSet
<1>9. QED BY <1>7, <1>8

\* Links that lead down, from a rank of b at most
Descends(P, L, rank, b) ==
  /\ rank \in [P -> Nat] /\ b \in Nat /\ \A a \in P : rank[a] <= b
  /\ \A a \in P : \A i \in DOMAIN L[a] : rank[L[a][i]] < rank[a]

\* What has the root, and all that its places are linked to, has every place.
LEMMA LinksReach ==
  ASSUME NEW P, NEW L, NEW r, Linked(P, L, {r}), NEW rank, NEW b, Descends(P, L, rank, b),
         NEW V, r \in V, \A a \in P \cap V : \A i \in DOMAIN L[a] : L[a][i] \in V
  PROVE  P \subseteq V
<1> DEFINE up == [a \in P |-> b - rank[a]]
<1>1. up \in [P -> Nat]
  <2>1. \A a \in P : b - rank[a] \in Nat BY DEF Descends
  <2>2. QED BY <2>1
<1>2. ASSUME NEW d \in P, \A e \in P : up[e] < up[d] => e \in V PROVE d \in V
  <2>1. SUFFICES ASSUME d # r PROVE d \in V OBVIOUS
  <2>2. PICK a \in P : \E i \in DOMAIN L[a] : L[a][i] = d BY <2>1 DEF Linked
  <2>3. PICK i \in DOMAIN L[a] : L[a][i] = d BY <2>2
  <2>4. rank[d] < rank[a] /\ rank[d] \in Nat /\ rank[a] \in Nat /\ b \in Nat BY <2>3 DEF Descends
  <2>5. up[a] < up[d] BY <2>4
  <2>6. a \in V BY <1>2, <2>5
  <2>7. QED BY <2>3, <2>6
<1> HIDE DEF up
<1>3. QED BY <1>1, <1>2, RankInduction

\* What is at each place and below it is at the root from all places.
GathersAt(L, U, own, a) == U[a] = own[a] \cup UNION {U[L[a][i]] : i \in DOMAIN L[a]}

AllOf(own, P) == UNION {own[a] : a \in P}

LEMMA Gathered ==
  ASSUME NEW P, NEW L, NEW r, Linked(P, L, {r}), NEW rank, NEW b, Descends(P, L, rank, b),
         NEW U, NEW own, \A a \in P : GathersAt(L, U, own, a)
  PROVE  U[r] = AllOf(own, P)
<1> DEFINE all == UNION {own[a] : a \in P}
           S == {a \in P : U[a] \subseteq all}
           V == {a \in P : U[a] \subseteq U[r]}
<1>1. r \in P BY DEF Linked
<1>2. \A a \in P : \A i \in DOMAIN L[a] : L[a][i] \in P
  <2>1. ASSUME NEW a \in P, NEW i \in DOMAIN L[a] PROVE L[a][i] \in P
    <3>1. PICK Q, s : Q = P \ {r} /\ s = L[a] OBVIOUS
    <3>2. s \in Seq(Q) BY <3>1 DEF Linked
    <3>3. QED BY <3>1, <3>2, SequenceIs
  <2>2. QED BY <2>1
<1>3. P \subseteq S
  <2>1. rank \in [P -> Nat] BY DEF Descends
  <2>2. ASSUME NEW d \in P, \A e \in P : rank[e] < rank[d] => e \in S PROVE d \in S
    <3>1. \A i \in DOMAIN L[d] : L[d][i] \in S BY <1>2, <2>2 DEF Descends
    <3>2. U[d] = own[d] \cup UNION {U[L[d][i]] : i \in DOMAIN L[d]} BY DEF GathersAt
    <3>3. QED BY <3>1, <3>2
  <2> HIDE DEF S
  <2>3. QED BY <2>1, <2>2, RankInduction
<1>4. P \subseteq V
  <2>1. r \in V BY <1>1
  <2>2. ASSUME NEW a \in P \cap V, NEW i \in DOMAIN L[a] PROVE L[a][i] \in V
    <3>1. U[a] = own[a] \cup UNION {U[L[a][j]] : j \in DOMAIN L[a]} BY DEF GathersAt
    <3>2. U[L[a][i]] \subseteq U[a] BY <3>1
    <3>3. QED BY <1>2, <3>2
  <2> HIDE DEF V
  <2>3. QED BY <2>1, <2>2, LinksReach
<1>5. \A a \in P : own[a] \subseteq U[a] BY DEF GathersAt
<1>6. all \subseteq U[r] BY <1>4, <1>5
<1>7. U[r] \subseteq all BY <1>1, <1>3
<1>8. QED BY <1>6, <1>7 DEF AllOf

\* The search for a number in a sequence, from low to below high.
SearchIn(s, l, f, r) ==
  LET low  == r[1]
      high == r[2]
      i    == (high + low) \div 2 IN
  IF low >= high THEN {}
  ELSE IF l = s[i] THEN {i}
  ELSE f[IF l > s[i] THEN <<i + 1, high>> ELSE <<low, i>>]

Ascending(s) == \A i, j \in DOMAIN s : i < j => s[i] < s[j]

LEMMA SearchFinds ==
  ASSUME NEW s \in Seq(Int), Ascending(s), NEW l \in Int, NEW search,
         search = CHOOSE f : f = [r \in Nat \X Nat |-> SearchIn(s, l, f, r)]
  PROVE  search[<<1, Len(s) + 1>>] = {i \in DOMAIN s : s[i] = l}
<1> DEFINE D == Nat \X Nat
           V == SUBSET Nat
           Mid(r) == (r[2] + r[1]) \div 2
           Turn(r) == IF l > s[Mid(r)] THEN <<Mid(r) + 1, r[2]>> ELSE <<r[1], Mid(r)>>
           Value(f, r) == IF r[1] >= r[2] THEN {} ELSE IF l = s[Mid(r)] THEN {Mid(r)} ELSE f[Turn(r)]
           step == [f \in [D -> V] |-> [r \in D |-> Value(f, r)]]
           rank == [r \in D |-> IF r[1] >= r[2] THEN 0 ELSE r[2] - r[1]]
<1>1. search = CHOOSE f : f = [r \in D |-> Value(f, r)] BY DEF SearchIn
<1>2. ASSUME NEW r \in D, ~(r[1] >= r[2])
      PROVE  /\ Mid(r) \in Nat /\ r[1] <= Mid(r) /\ Mid(r) < r[2]
             /\ <<Mid(r) + 1, r[2]>> \in D /\ <<r[1], Mid(r)>> \in D
             /\ Turn(r) \in D /\ rank[Turn(r)] < rank[r]
  <2>1. r[1] \in Nat /\ r[2] \in Nat OBVIOUS
  <2>2. Mid(r) \in Nat /\ r[1] <= Mid(r) /\ Mid(r) < r[2] BY <1>2, <2>1
  <2> HIDE DEF Mid
  <2>3. <<Mid(r) + 1, r[2]>> \in D /\ <<r[1], Mid(r)>> \in D BY <2>1, <2>2
  <2>4. rank[<<Mid(r) + 1, r[2]>>] < rank[r] BY <1>2, <2>1, <2>2, <2>3
  <2>5. rank[<<r[1], Mid(r)>>] < rank[r] BY <1>2, <2>1, <2>2, <2>3
  <2>6. QED BY <2>2, <2>3, <2>4, <2>5
<1>3. \E f \in [D -> V] : f = step[f]
  <2>1. [r \in D |-> {}] \in [D -> V] OBVIOUS
  <2>2. rank \in [D -> Nat]
    <3>1. ASSUME NEW r \in D PROVE (IF r[1] >= r[2] THEN 0 ELSE r[2] - r[1]) \in Nat OBVIOUS
    <3>2. QED BY <3>1
  <2>3. step \in [[D -> V] -> [D -> V]]
    <3>1. ASSUME NEW f \in [D -> V], NEW r \in D PROVE Value(f, r) \in V
      <4>1. CASE r[1] >= r[2] BY <4>1
      <4>2. CASE ~(r[1] >= r[2])
        <5>1. Mid(r) \in Nat /\ Turn(r) \in D BY <1>2, <4>2
        <5> HIDE DEF Mid, Turn, D
        <5>2. QED BY <5>1
      <4>3. QED BY <4>1, <4>2
    <3> HIDE DEF Value
    <3>2. QED BY <3>1
  <2>4. \A f, g \in [D -> V] : \A r \in D :
          (\A e \in D : rank[e] < rank[r] => f[e] = g[e]) => step[f][r] = step[g][r]
    <3>1. SUFFICES ASSUME NEW f \in [D -> V], NEW g \in [D -> V], NEW r \in D,
                          \A e \in D : rank[e] < rank[r] => f[e] = g[e]
                   PROVE  step[f][r] = step[g][r]
      OBVIOUS
    <3>2. Value(f, r) = Value(g, r)
      <4>1. CASE r[1] >= r[2] BY <4>1
      <4>2. CASE ~(r[1] >= r[2])
        <5>1. Turn(r) \in D /\ rank[Turn(r)] < rank[r] BY <1>2, <4>2
        <5>2. f[Turn(r)] = g[Turn(r)] BY <3>1, <5>1
        <5> HIDE DEF Mid, Turn
        <5>3. QED BY <5>2
      <4>3. QED BY <4>1, <4>2
    <3> HIDE DEF Value
    <3>3. QED BY <3>2
  <2>5. PICK base : base = [r \in D |-> {}] OBVIOUS
  <2> HIDE DEF step, rank, D, V, Value
  <2>6. base \in [D -> V] BY <2>1, <2>5
  <2>7. Descending(D, V, rank, step) BY <2>2, <2>3, <2>4 DEF Descending
  <2>8. QED BY <2>6, <2>7, RankedRecursion
<1>4. \A r \in D : search[r] = Value(search, r)
  <2>1. PICK f \in [D -> V] : f = step[f] BY <1>3
  <2> HIDE DEF Value
  <2>2. step[f] = [r \in D |-> Value(f, r)] BY <2>1
  <2>3. search = [r \in D |-> Value(search, r)] BY <1>1, <2>1, <2>2
  <2>4. QED BY <2>3
<1> DEFINE N == Len(s)
           Within(r) == /\ r \in D /\ r[1] >= 1 /\ r[2] <= N + 1
                        /\ \A i \in 1 .. r[1] - 1 : s[i] < l
                        /\ \A i \in r[2] .. N : l < s[i]
           Right(r) == Within(r) => search[r] = {i \in 1 .. N : s[i] = l}
<1>5. N \in Nat /\ DOMAIN s = 1 .. N /\ \A i \in 1 .. N : s[i] \in Int BY SequenceIs
<1>6. ASSUME NEW r \in D, \A q \in D : rank[q] < rank[r] => Right(q) PROVE Right(r)
  <2>1. SUFFICES ASSUME Within(r) PROVE search[r] = {i \in 1 .. N : s[i] = l} OBVIOUS
  <2>2. r[1] \in Nat /\ r[2] \in Nat /\ \A i \in 1 .. N : s[i] \in Int BY <1>5
  <2>3. CASE r[1] >= r[2]
    <3>1. search[r] = {} BY <1>4, <2>3
    <3>2. \A i \in 1 .. N : i \in 1 .. r[1] - 1 \/ i \in r[2] .. N BY <1>5, <2>2, <2>3
    <3>3. \A i \in 1 .. N : s[i] # l BY <2>1, <2>2, <3>2
    <3>4. QED BY <3>1, <3>3
  <2>4. CASE ~(r[1] >= r[2])
    <3>1. /\ Mid(r) \in Nat /\ r[1] <= Mid(r) /\ Mid(r) < r[2]
          /\ <<Mid(r) + 1, r[2]>> \in D /\ <<r[1], Mid(r)>> \in D
          /\ Turn(r) \in D /\ rank[Turn(r)] < rank[r]
      BY <1>2, <2>4
    <3>2. search[r] = IF l = s[Mid(r)] THEN {Mid(r)} ELSE search[Turn(r)] BY <1>4, <2>4
    <3>3. PICK p : p = Mid(r) OBVIOUS
    <3>4. Turn(r) = IF l > s[p] THEN <<p + 1, r[2]>> ELSE <<r[1], p>> BY <3>3
    <3> HIDE DEF Mid, Turn, Value, rank
    <3>5. p \in Nat /\ r[1] <= p /\ p < r[2] /\ p \in 1 .. N /\ s[p] \in Int
      BY <1>5, <2>1, <2>2, <3>1, <3>3
    <3>6. \A i \in 1 .. N : (i < p => s[i] < s[p]) /\ (p < i => s[p] < s[i])
      BY <1>5, <3>5 DEF Ascending
    <3>7. CASE l = s[p]
      <4>1. search[r] = {p} BY <3>2, <3>3, <3>7
      <4>2. \A i \in 1 .. N : s[i] = l => i = p
        <5>1. SUFFICES ASSUME NEW i \in 1 .. N, s[i] = l PROVE i = p OBVIOUS
        <5>2. ~(i < p) /\ ~(p < i) BY <2>2, <3>6, <3>7, <5>1
        <5>3. QED BY <3>5, <5>2
      <4>3. QED BY <3>5, <3>7, <4>1, <4>2
    <3>8. CASE l > s[p]
      <4> DEFINE q == <<p + 1, r[2]>>
      <4>1. search[r] = search[q] /\ Turn(r) = q BY <3>2, <3>3, <3>4, <3>5, <3>8
      <4>2. q \in D /\ q[1] = p + 1 /\ q[2] = r[2] BY <3>1, <3>3
      <4>3. \A i \in 1 .. p : s[i] < l BY <2>2, <3>5, <3>6, <3>8
      <4>4. q[1] - 1 = p /\ q[1] >= 1 BY <3>5
      <4> HIDE DEF q, D
      <4>5. Within(q) BY <2>1, <4>2, <4>3, <4>4
      <4>6. QED BY <1>6, <3>1, <4>1, <4>2, <4>5
    <3>9. CASE l < s[p]
      <4> DEFINE q == <<r[1], p>>
      <4>1. search[r] = search[q] /\ Turn(r) = q BY <3>2, <3>3, <3>4, <3>5, <3>9
      <4>2. q \in D /\ q[1] = r[1] /\ q[2] = p BY <3>1, <3>3
      <4>3. \A i \in p .. N : l < s[i] BY <2>2, <3>5, <3>6, <3>9
      <4>4. p <= N + 1 BY <1>5, <3>5
      <4> HIDE DEF q, D
      <4>5. Within(q) BY <2>1, <4>2, <4>3, <4>4
      <4>6. QED BY <1>6, <3>1, <4>1, <4>2, <4>5
    <3>10. QED BY <3>5, <3>7, <3>8, <3>9
  <2>5. QED BY <2>3, <2>4
<1> DEFINE S == {r \in D : Right(r)}
<1>7. D \subseteq S
  <2>1. rank \in [D -> Nat]
    <3>1. ASSUME NEW r \in D PROVE (IF r[1] >= r[2] THEN 0 ELSE r[2] - r[1]) \in Nat OBVIOUS
    <3>2. QED BY <3>1
  <2> HIDE DEF D, rank, Right
  <2>2. \A d \in D : (\A e \in D : rank[e] < rank[d] => e \in S) => d \in S BY <1>6
  <2> HIDE DEF S
  <2>3. QED BY <2>1, <2>2, RankInduction
<1>8. Within(<<1, N + 1>>)
  <2>1. <<1, N + 1>> \in D BY <1>5
  <2>2. QED BY <1>5, <2>1
<1> HIDE DEF D, Within
<1>9. <<1, N + 1>> \in S BY <1>7, <1>8 DEF Within
<1>10. QED BY <1>5, <1>8, <1>9

\* Behind what a sequence begins with is its rest.
RestOf(p, k) == SubSeq(k, Len(p) + 1, Len(k))

LEMMA RestOfIs ==
  ASSUME NEW W, NEW p \in Seq(W), NEW k \in Seq(W), Len(p) <= Len(k)
  PROVE  /\ RestOf(p, k) \in Seq(W) /\ Len(RestOf(p, k)) = Len(k) - Len(p)
         /\ \A i \in 1 .. Len(k) - Len(p) : RestOf(p, k)[i] = k[Len(p) + i]
<1>1. PICK m, n, e : m = Len(p) /\ n = Len(k) /\ e = RestOf(p, k) OBVIOUS
<1>2. m \in Nat /\ n \in Nat /\ m <= n BY <1>1, SequenceIs
<1>3. \A i \in m + 1 .. n : k[i] \in W BY <1>1, <1>2, SequenceIs
<1>4. /\ SubSeq(k, m + 1, n) \in Seq(W) /\ Len(SubSeq(k, m + 1, n)) = IF m + 1 <= n THEN n - (m + 1) + 1 ELSE 0
      /\ \A i \in 1 .. n - (m + 1) + 1 : SubSeq(k, m + 1, n)[i] = k[m + 1 + i - 1]
  BY <1>1, <1>2, <1>3, SubSeqProperties
<1>5. n - (m + 1) + 1 = n - m /\ \A i \in 1 .. n - m : k[m + 1 + i - 1] = k[m + i] BY <1>2
<1>6. e = SubSeq(k, m + 1, n) BY <1>1 DEF RestOf
<1>7. Len(e) = n - m BY <1>2, <1>4, <1>6
<1>8. \A i \in 1 .. n - m : e[i] = k[m + i] BY <1>4, <1>5, <1>6
<1>9. QED BY <1>1, <1>4, <1>6, <1>7, <1>8

LEMMA StartsOn ==
  ASSUME NEW W, NEW p \in Seq(W), NEW s \in Seq(W), NEW k \in Seq(W), IsStart(p, k)
  PROVE  /\ p \o s \in Seq(W) /\ Len(p \o s) = Len(p) + Len(s)
         /\ IsStart(p \o s, k) <=> IsPrefix(s, RestOf(p, k))
         /\ p \o s = k <=> s = RestOf(p, k)
<1>1. PICK m, n, l, q, e :
        m = Len(p) /\ n = Len(k) /\ l = Len(s) /\ q = p \o s /\ e = RestOf(p, k)
  OBVIOUS
<1>2. m \in Nat /\ n \in Nat /\ l \in Nat /\ m <= n /\ \A i \in 1 .. m : p[i] = k[i]
  BY <1>1, SequenceIs DEF IsStart
<1>3. e \in Seq(W) /\ Len(e) = n - m /\ \A i \in 1 .. n - m : e[i] = k[m + i]
  <2>1. Len(p) <= Len(k) BY <1>1, <1>2
  <2>2. /\ RestOf(p, k) \in Seq(W) /\ Len(RestOf(p, k)) = Len(k) - Len(p)
        /\ \A i \in 1 .. Len(k) - Len(p) : RestOf(p, k)[i] = k[Len(p) + i]
    BY ONLY <2>1, p \in Seq(W), k \in Seq(W), RestOfIs
  <2>3. QED BY <1>1, <2>2
<1>4. /\ q \in Seq(W) /\ Len(q) = m + l
      /\ \A i \in 1 .. m + l : q[i] = IF i <= m THEN p[i] ELSE s[i - m]
  BY <1>1, ConcatProperties
<1>5. IsStart(q, k) <=> IsStart(s, e)
  <2>1. ASSUME IsStart(q, k) PROVE IsStart(s, e)
    <3>1. m + l <= n /\ \A i \in 1 .. m + l : q[i] = k[i] BY <1>1, <1>4, <2>1 DEF IsStart
    <3>2. ASSUME NEW i \in 1 .. l PROVE s[i] = e[i]
      <4>1. PICK j : j = m + i OBVIOUS
      <4>2. j \in 1 .. m + l /\ ~(j <= m) /\ j - m = i /\ i \in 1 .. n - m BY <1>2, <3>1, <4>1
      <4>3. q[j] = s[i] /\ q[j] = k[j] BY <1>4, <3>1, <4>2
      <4>4. e[i] = k[j] BY <1>3, <4>1, <4>2
      <4>5. QED BY <4>3, <4>4
    <3>3. l <= n - m BY <1>2, <3>1
    <3>4. QED BY <1>1, <1>3, <3>2, <3>3 DEF IsStart
  <2>2. ASSUME IsStart(s, e) PROVE IsStart(q, k)
    <3>1. l <= n - m /\ \A i \in 1 .. l : s[i] = e[i] BY <1>1, <1>3, <2>2 DEF IsStart
    <3>2. ASSUME NEW j \in 1 .. m + l PROVE q[j] = k[j]
      <4>1. CASE j <= m
        <5>1. j \in 1 .. m BY <1>2, <4>1
        <5>2. QED BY <1>2, <1>4, <4>1, <5>1
      <4>2. CASE ~(j <= m)
        <5>1. PICK i : i = j - m OBVIOUS
        <5>2. i \in 1 .. l /\ i \in 1 .. n - m /\ m + i = j BY <1>2, <3>1, <4>2, <5>1
        <5>3. q[j] = s[i] BY <1>4, <4>2, <5>1
        <5>4. QED BY <1>3, <3>1, <5>2, <5>3
      <4>3. QED BY <4>1, <4>2
    <3>3. m + l <= n BY <1>2, <3>1
    <3>4. QED BY <1>1, <1>4, <3>2, <3>3 DEF IsStart
  <2>3. QED BY <2>1, <2>2
<1>6. IsStart(s, e) <=> IsPrefix(s, e) BY <1>3, BeginsIs
<1>7. q = k <=> IsStart(q, k) /\ Len(q) = Len(k)
  <2>1. ASSUME IsStart(q, k), Len(q) = Len(k) PROVE q = k BY <1>4, <2>1, SeqEqual DEF IsStart
  <2>2. ASSUME q = k PROVE IsStart(q, k) /\ Len(q) = Len(k) BY <1>1, <1>2, <2>2 DEF IsStart
  <2>3. QED BY <2>1, <2>2
<1>8. s = e <=> IsStart(s, e) /\ Len(s) = Len(e)
  <2>1. ASSUME IsStart(s, e), Len(s) = Len(e) PROVE s = e BY <1>3, <2>1, SeqEqual DEF IsStart
  <2>2. ASSUME s = e PROVE IsStart(s, e) /\ Len(s) = Len(e) BY <1>1, <1>2, <2>2 DEF IsStart
  <2>3. QED BY <2>1, <2>2
<1>9. Len(q) = Len(k) <=> Len(s) = Len(e) BY <1>1, <1>2, <1>3, <1>4
<1>10. QED BY <1>1, <1>4, <1>5, <1>6, <1>7, <1>8, <1>9

\* One that does not begin another is not the beginning of one that does.
LEMMA StartsNot ==
  ASSUME NEW W, NEW p \in Seq(W), NEW s \in Seq(W), NEW k \in Seq(W), ~IsStart(p, k)
  PROVE  ~IsStart(p \o s, k) /\ p \o s # k
<1>1. PICK m, l, q : m = Len(p) /\ l = Len(s) /\ q = p \o s OBVIOUS
<1>2. m \in Nat /\ l \in Nat /\ Len(k) \in Nat BY <1>1, SequenceIs
<1>3. /\ q \in Seq(W) /\ Len(q) = m + l
      /\ \A i \in 1 .. m + l : q[i] = IF i <= m THEN p[i] ELSE s[i - m]
  BY <1>1, ConcatProperties
<1>4. ~IsStart(q, k)
  <2>1. SUFFICES ASSUME IsStart(q, k) PROVE IsStart(p, k) OBVIOUS
  <2>2. m + l <= Len(k) /\ \A i \in 1 .. m + l : q[i] = k[i] BY <1>3, <2>1 DEF IsStart
  <2>3. m <= Len(k) BY <1>2, <2>2
  <2>4. ASSUME NEW i \in 1 .. m PROVE p[i] = k[i]
    <3>1. i \in 1 .. m + l /\ i <= m BY <1>2
    <3>2. QED BY <1>3, <2>2, <3>1
  <2>5. QED BY <1>1, <2>3, <2>4 DEF IsStart
<1>5. IsStart(k, k) BY <1>2 DEF IsStart
<1>6. QED BY <1>1, <1>4, <1>5

\* What is at each argument, and at those of a lower rank that it goes on to
GathersDown(f, D, own, next) == f = [d \in D |-> own[d] \cup UNION {f[e] : e \in next[d]}]

LEMMA GatherExists ==
  ASSUME NEW D, NEW V, NEW rank \in [D -> Nat], NEW own, NEW next,
         \A d \in D : own[d] \subseteq V /\ next[d] \subseteq D,
         \A d \in D : \A e \in next[d] : rank[e] < rank[d]
  PROVE  \E f : GathersDown(f, D, own, next)
<1> DEFINE Value(f, d) == own[d] \cup UNION {f[e] : e \in next[d]}
           S == SUBSET V
           step == [f \in [D -> S] |-> [d \in D |-> Value(f, d)]]
<1>1. [d \in D |-> {}] \in [D -> S] OBVIOUS
<1>2. step \in [[D -> S] -> [D -> S]]
  <2>1. ASSUME NEW f \in [D -> S], NEW d \in D PROVE Value(f, d) \in S OBVIOUS
  <2> HIDE DEF Value
  <2>2. QED BY <2>1
<1>3. \A f, g \in [D -> S] : \A d \in D :
        (\A e \in D : rank[e] < rank[d] => f[e] = g[e]) => step[f][d] = step[g][d]
  <2>1. SUFFICES ASSUME NEW f \in [D -> S], NEW g \in [D -> S], NEW d \in D,
                        \A e \in D : rank[e] < rank[d] => f[e] = g[e]
                 PROVE  step[f][d] = step[g][d]
    OBVIOUS
  <2>2. \A e \in next[d] : f[e] = g[e] BY <2>1
  <2>3. Value(f, d) = Value(g, d) BY <2>2
  <2> HIDE DEF Value
  <2>4. QED BY <2>3
<1>4. PICK base : base = [d \in D |-> {}] OBVIOUS
<1> HIDE DEF step, S, Value
<1>5. base \in [D -> S] BY <1>1, <1>4
<1>6. Descending(D, S, rank, step) BY <1>2, <1>3 DEF Descending
<1>7. PICK f \in [D -> S] : f = step[f] BY <1>5, <1>6, RankedRecursion
<1>8. step[f] = [d \in D |-> Value(f, d)] BY DEF step
<1>9. f = [d \in D |-> Value(f, d)] BY <1>7, <1>8
<1>10. QED BY <1>9 DEF Value, GathersDown

=============================================================================
