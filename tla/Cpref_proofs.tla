---------------------------- MODULE Cpref_proofs ----------------------------
(***************************************************************************)
(* Proofs about Cpref, for any size of a block and any length of a stream. *)
(***************************************************************************)
EXTENDS Cpref, DataLemmas

\* The first and the last position of a block.
FirstOf(b) == b * Size
LastOf(b) == IF b = NumBlocks - 1 THEN nmsgs - 1 ELSE b * Size + Size - 1

Sorted == \A i, j \in 0 .. Written - 1 : i <= j => refs[i] <= refs[j]
Taken == \A i \in 0 .. Written - 1 : refs[i] \in Refs

\* The stream being written: its full blocks have their metas, and the first reference
\* of the block in the making is kept.
WriteInv ==
  /\ mode = "none" => nmsgs = 0
  /\ mode # "none" => nmsgs > 0
  /\ mode \in {"none", "w"} =>
       /\ current_i \in -1 .. nmsgs - 1
       /\ meta_block_i = (current_i + 1) \div Size
  /\ mode = "none" => current_i = -1
  /\ mode = "w" =>
       /\ \A b \in 0 .. meta_block_i - 1 :
            metas[b].min = refs[b * Size] /\ metas[b].max = refs[b * Size + Size - 1]
       /\ (current_i + 1) % Size # 0 => current_block_ref_low = refs[meta_block_i * Size]

\* A closed stream.
FileInv ==
  mode \in {"closed", "r"} => high_ref = refs[nmsgs - 1] /\ MetasBound

\* The block looked at last, if there is one, is buffered with its bounds.
CacheInv ==
  mode = "r" =>
    /\ meta_block_i \in Blocks
    /\ current_block_ref_low # -1 =>
         /\ current_block_ref_low = metas[meta_block_i].min
         /\ current_block_ref_high = metas[meta_block_i].max

\* The blocks before low are below the reference, those behind high are above it; the
\* gap at the end is next to the block looked at last.
MetasInv ==
  search # NoSearch /\ search.stage = "metas" =>
    /\ search.low \in 0 .. NumBlocks /\ search.high \in -1 .. NumBlocks - 1
    /\ search.low <= search.high + 1
    /\ \A b \in Blocks : b < search.low => metas[b].max < search.ref
    /\ \A b \in Blocks : b > search.high => metas[b].min > search.ref
    /\ search.low > search.high => meta_block_i \in {search.low - 1, search.low}

\* The reference lies within the block; in one that is not the last, the slots before
\* low are below it, those from high on above it, and p_ref is next to one of them.
BlockInv ==
  search # NoSearch /\ search.stage = "block" =>
    /\ metas[meta_block_i].min <= search.ref /\ search.ref <= metas[meta_block_i].max
    /\ search.low \in 0 .. Size - 1 /\ search.high \in 1 .. Size /\ search.low <= search.high
    /\ ~LastBlock =>
         /\ \A p \in 0 .. Size - 1 : p < search.low => InThisBlock(p) < search.ref
         /\ \A p \in 0 .. Size - 1 : p >= search.high => InThisBlock(p) > search.ref
         /\ \/ search.low = 0 /\ search.high = Size
            \/ search.op = "ge" /\ search.p_ref = InThisBlock(search.low)
            \/ search.op = "ge" /\ search.high < Size /\ search.p_ref = InThisBlock(search.high)
            \/ search.op = "le" /\ search.low > 0 /\ search.p_ref = InThisBlock(search.low - 1)
            \/ search.op = "le" /\ search.p_ref = InThisBlock(search.high - 1)

\* Searches and answers are of a stream that is read.
ReadInv ==
  /\ search # NoSearch => mode = "r" /\ answer = NoAnswer
  /\ answer # NoAnswer => mode = "r"

IInv ==
  /\ TypeOK /\ Sorted /\ Taken /\ WriteInv /\ FileInv /\ CacheInv
  /\ MetasInv /\ BlockInv /\ ReadInv /\ GeExact /\ LeExact

-----------------------------------------------------------------------------
(* The blocks of a stream                                                  *)

LEMMA SizeFacts == Size \in Nat \ {0} /\ Size >= 2
BY SizeAssumption

\* The blocks lie one behind the other, the last one up to the end of the stream.
LEMMA Bounds ==
  ASSUME nmsgs \in Nat \ {0}
  PROVE  /\ NumBlocks \in Nat \ {0}
         /\ \A b \in Blocks :
              /\ FirstOf(b) \in Slots /\ LastOf(b) \in Slots
              /\ FirstOf(b) <= LastOf(b) /\ LastOf(b) <= FirstOf(b) + Size - 1
              /\ b = 0 => FirstOf(b) = 0
              /\ b # NumBlocks - 1 => /\ b + 1 \in Blocks
                                      /\ LastOf(b) = FirstOf(b) + Size - 1
                                      /\ FirstOf(b + 1) = LastOf(b) + 1
         /\ LastOf(NumBlocks - 1) = nmsgs - 1
<1> USE SizeFacts
<1> DEFINE q == nmsgs \div Size
           r == nmsgs % Size
<1>1. q \in Nat /\ r \in 0 .. Size - 1 /\ nmsgs = q * Size + r BY PlaceOf
<1>2. q * Size \in Nat BY <1>1, BlocksOrdered
<1>3. NumBlocks = IF r > 0 THEN q + 1 ELSE q BY <1>1 DEF NumBlocks
<1> HIDE DEF q, r
<1>4. NumBlocks \in Nat /\ NumBlocks # 0
  <2>1. q = 0 => q * Size = 0 OBVIOUS
  <2>2. QED BY <1>1, <1>2, <1>3, <2>1
<1>5. ASSUME NEW b \in Blocks
      PROVE  /\ FirstOf(b) \in Slots /\ LastOf(b) \in Slots
             /\ FirstOf(b) <= LastOf(b) /\ LastOf(b) <= FirstOf(b) + Size - 1
             /\ b = 0 => FirstOf(b) = 0
             /\ b # NumBlocks - 1 => /\ b + 1 \in Blocks
                                     /\ LastOf(b) = FirstOf(b) + Size - 1
                                     /\ FirstOf(b + 1) = LastOf(b) + 1
  <2>1. b \in Nat /\ b <= NumBlocks - 1 /\ b \in 0 .. NumBlocks - 1 BY <1>4 DEF Blocks
  <2>2. b * Size \in Nat /\ (b + 1) * Size = b * Size + Size BY <2>1, BlocksOrdered
  <2>3. b = 0 => b * Size = 0 OBVIOUS
  <2>4. CASE b = NumBlocks - 1
    <3>1. b * Size < nmsgs /\ nmsgs <= b * Size + Size
      <4>1. CASE r > 0
        <5>1. b = q BY <1>1, <1>3, <2>4, <4>1
        <5>2. QED BY <1>1, <1>2, <4>1, <5>1
      <4>2. CASE ~(r > 0)
        <5>1. q = b + 1 BY <1>1, <1>3, <2>1, <2>4, <4>2
        <5>2. nmsgs = b * Size + Size BY <1>1, <2>2, <4>2, <5>1
        <5>3. QED BY <2>2, <5>2
      <4>3. QED BY <4>1, <4>2
    <3>2. QED BY <2>1, <2>2, <2>3, <2>4, <3>1 DEF FirstOf, LastOf, Slots
  <2>5. CASE b # NumBlocks - 1
    <3>1. b + 1 <= q /\ b + 1 \in Nat BY <1>1, <1>3, <2>1, <2>5
    <3>2. (b + 1) * Size <= q * Size BY <1>1, <3>1, BlocksOrdered
    <3>3. b * Size + Size <= nmsgs BY <1>1, <1>2, <2>2, <3>2
    <3>4. b + 1 \in Blocks BY <1>4, <2>1, <2>5 DEF Blocks
    <3>5. QED BY <2>1, <2>2, <2>3, <2>5, <3>3, <3>4 DEF FirstOf, LastOf, Slots
  <2>6. QED BY <2>4, <2>5
<1>6. LastOf(NumBlocks - 1) = nmsgs - 1 BY DEF LastOf
<1>7. QED BY <1>4, <1>5, <1>6

\* A step that leaves the length alone leaves the blocks alone.
LEMMA SameBlocks ==
  ASSUME nmsgs' = nmsgs
  PROVE  /\ NumBlocks' = NumBlocks /\ Slots' = Slots /\ Blocks' = Blocks
BY DEF NumBlocks, Slots, Blocks

-----------------------------------------------------------------------------
(* What answers a search                                                   *)

GeRight(t, r) ==
  IF r = -1 THEN \A i \in Slots : refs[i] < t
            ELSE /\ \E i \in Slots : refs[i] = r
                 /\ r >= t
                 /\ \A i \in Slots : refs[i] >= t => refs[i] >= r
LeRight(t, r) ==
  IF r = -1 THEN \A i \in Slots : refs[i] > t
            ELSE /\ \E i \in Slots : refs[i] = r
                 /\ r <= t
                 /\ \A i \in Slots : refs[i] <= t => refs[i] <= r

\* The stream that is read.
Readable ==
  /\ nmsgs \in Nat \ {0} /\ refs \in [Slots -> Nat]
  /\ \A i, j \in Slots : i <= j => refs[i] <= refs[j]

\* The first reference not below t, or t itself, answers ge; without one, nothing does.
LEMMA GeAt ==
  ASSUME Readable, NEW t \in Nat, NEW k \in Slots, refs[k] >= t,
         refs[k] = t \/ k = 0 \/ refs[k - 1] < t
  PROVE  GeRight(t, refs[k]) /\ refs[k] \in Nat
<1>1. refs[k] \in Nat /\ k \in Nat BY DEF Readable, Slots
<1>2. ASSUME NEW i \in Slots, refs[i] >= t PROVE refs[i] >= refs[k]
  <2>1. refs[i] \in Nat /\ i \in Nat BY DEF Readable, Slots
  <2>2. CASE i >= k BY <1>1, <2>1, <2>2 DEF Readable
  <2>3. CASE i < k /\ refs[k - 1] < t
    <3>1. k - 1 \in Slots /\ i <= k - 1 BY <1>1, <2>1, <2>3 DEF Slots, Readable
    <3>2. refs[i] <= refs[k - 1] /\ refs[k - 1] \in Nat BY <3>1 DEF Readable
    <3>3. QED BY <1>2, <2>1, <2>3, <3>2
  <2>4. CASE refs[k] = t BY <1>2, <2>4
  <2>5. QED BY <1>1, <2>1, <2>2, <2>3, <2>4
<1>3. QED BY <1>1, <1>2 DEF GeRight

LEMMA GeNone ==
  ASSUME Readable, NEW t \in Nat, refs[nmsgs - 1] < t
  PROVE  GeRight(t, -1)
<1>1. nmsgs - 1 \in Slots BY DEF Readable, Slots
<1>2. ASSUME NEW i \in Slots PROVE refs[i] < t
  <2>1. i <= nmsgs - 1 BY DEF Slots, Readable
  <2>2. refs[i] <= refs[nmsgs - 1] /\ refs[i] \in Nat /\ refs[nmsgs - 1] \in Nat
    BY <1>1, <2>1 DEF Readable
  <2>3. QED BY <2>2
<1>3. QED BY <1>2 DEF GeRight

\* The last reference not above t, or t itself, answers le; without one, nothing does.
LEMMA LeAt ==
  ASSUME Readable, NEW t \in Nat, NEW k \in Slots, refs[k] <= t,
         refs[k] = t \/ k = nmsgs - 1 \/ refs[k + 1] > t
  PROVE  LeRight(t, refs[k]) /\ refs[k] \in Nat
<1>1. refs[k] \in Nat /\ k \in Nat /\ k <= nmsgs - 1 BY DEF Readable, Slots
<1>2. ASSUME NEW i \in Slots, refs[i] <= t PROVE refs[i] <= refs[k]
  <2>1. refs[i] \in Nat /\ i \in Nat /\ i <= nmsgs - 1 BY DEF Readable, Slots
  <2>2. CASE i <= k BY <1>1, <2>1, <2>2 DEF Readable
  <2>3. CASE i > k /\ refs[k + 1] > t
    <3>1. k + 1 \in Slots /\ k + 1 <= i BY <1>1, <2>1, <2>3 DEF Slots, Readable
    <3>2. refs[k + 1] <= refs[i] /\ refs[k + 1] \in Nat BY <3>1 DEF Readable
    <3>3. QED BY <1>2, <2>1, <2>3, <3>2
  <2>4. CASE refs[k] = t BY <1>2, <2>4
  <2>5. CASE i > k /\ k = nmsgs - 1 BY <1>1, <2>1, <2>5 DEF Readable
  <2>6. QED BY <1>1, <2>1, <2>2, <2>3, <2>4, <2>5
<1>3. QED BY <1>1, <1>2 DEF LeRight

LEMMA LeNone ==
  ASSUME Readable, NEW t \in Nat, refs[0] > t
  PROVE  LeRight(t, -1)
<1>1. 0 \in Slots BY DEF Readable, Slots
<1>2. ASSUME NEW i \in Slots PROVE refs[i] > t
  <2>1. 0 <= i BY DEF Slots
  <2>2. refs[0] <= refs[i] /\ refs[i] \in Nat /\ refs[0] \in Nat
    BY <1>1, <2>1 DEF Readable
  <2>3. QED BY <2>2
<1>3. QED BY <1>2 DEF LeRight

-----------------------------------------------------------------------------
(* Writing a stream                                                        *)

\* Without a search and an answer there is nothing to say of them.
LEMMA Quiet ==
  ASSUME search' = NoSearch, answer' = NoAnswer
  PROVE  MetasInv' /\ BlockInv' /\ ReadInv' /\ GeExact' /\ LeExact'
BY DEF MetasInv, BlockInv, ReadInv, GeExact, LeExact, NoSearch, NoAnswer

LEMMA InitInv == Init => IInv
<1> SUFFICES ASSUME Init PROVE IInv OBVIOUS
<1> USE SizeFacts DEF Init
<1>1. NumBlocks = 0 /\ Slots = {} /\ Blocks = {} /\ Written = 0
  <2>1. 0 \div Size = 0 /\ 0 % Size = 0
    <3>1. 0 * Size + 0 = 0 OBVIOUS
    <3>2. QED BY <3>1, PlaceIs
  <2>2. NumBlocks = 0 BY <2>1 DEF NumBlocks
  <2>3. QED BY <2>2 DEF Slots, Blocks, Written
<1>2. TypeOK
  <2>1. refs \in [Slots -> Nat] /\ metas \in [Blocks -> [min : Int, max : Nat]]
    BY <1>1
  <2>2. QED BY <1>1, <2>1 DEF TypeOK
<1>3. Sorted /\ Taken BY <1>1 DEF Sorted, Taken
<1>4. WriteInv
  <2>1. (current_i + 1) \div Size = 0
    <3>1. 0 * Size + 0 = 0 OBVIOUS
    <3>2. QED BY <3>1, PlaceIs
  <2>2. QED BY <2>1 DEF WriteInv
<1>5. FileInv /\ CacheInv BY DEF FileInv, CacheInv
<1>6. MetasInv /\ BlockInv /\ ReadInv /\ GeExact /\ LeExact
  BY DEF MetasInv, BlockInv, ReadInv, GeExact, LeExact, NoSearch, NoAnswer
<1>7. QED BY <1>2, <1>3, <1>4, <1>5, <1>6 DEF IInv

LEMMA SetupWriteInv ==
  ASSUME IInv, NEW total \in Totals, SetupWrite(total)
  PROVE  IInv'
<1> USE SizeFacts
<1>1. total \in Nat \ {0} BY TotalsAssumption
<1>2. /\ mode = "none" /\ mode' = "w" /\ nmsgs' = total
      /\ refs' = [i \in 0 .. total - 1 |-> 0]
      /\ metas' = [b \in 0 .. NumBlocks' - 1 |-> [min |-> 0, max |-> 0]]
      /\ UNCHANGED <<low_ref, high_ref, block, current_i, search, answer>>
  BY DEF SetupWrite
<1>3. /\ current_i = -1 /\ meta_block_i = (current_i + 1) \div Size
      /\ search = NoSearch /\ answer = NoAnswer
  BY <1>2 DEF IInv, WriteInv, ReadInv
<1>4. current_i + 1 = 0 /\ 0 \div Size = 0 /\ 0 % Size = 0
  <2>1. 0 * Size + 0 = 0 OBVIOUS
  <2>2. QED BY <1>3, <2>1, PlaceIs
<1>5. NumBlocks' \in Nat \ {0}
  <2>1. nmsgs' \in Nat \ {0} BY <1>1, <1>2
  <2>2. (nmsgs \in Nat \ {0} => NumBlocks \in Nat \ {0})' BY Bounds, PTL
  <2>3. QED BY <2>1, <2>2
<1>6. TypeOK'
  <2>1. refs' \in [Slots' -> Nat] BY <1>1, <1>2 DEF Slots
  <2>2. metas' \in [Blocks' -> [min : Int, max : Nat]] BY <1>2 DEF Blocks
  <2>3. current_i' \in -1 .. nmsgs' /\ meta_block_i' \in 0 .. NumBlocks'
    BY <1>1, <1>2, <1>3, <1>4, <1>5 DEF block
  <2>4. {low_ref', high_ref', current_block_ref_low', current_block_ref_high'}
          \subseteq Nat \cup {-1}
    BY <1>2 DEF IInv, TypeOK, block
  <2>5. search' = NoSearch /\ answer' = NoAnswer BY <1>2, <1>3
  <2>6. QED BY <1>1, <1>2, <2>1, <2>2, <2>3, <2>4, <2>5 DEF TypeOK
<1>7. Sorted' /\ Taken'
  <2>1. Written' = 0 BY <1>2, <1>4 DEF Written
  <2>2. QED BY <2>1 DEF Sorted, Taken
<1>8. WriteInv'
  <2>1. meta_block_i' = 0 /\ current_i' = -1 /\ current_i' + 1 = 0
    BY <1>2, <1>3, <1>4 DEF block
  <2>2. QED BY <1>1, <1>2, <1>4, <2>1 DEF WriteInv
<1>9. FileInv' /\ CacheInv' BY <1>2 DEF FileInv, CacheInv
<1>10. search' = NoSearch /\ answer' = NoAnswer BY <1>2, <1>3
<1>11. MetasInv' /\ BlockInv' /\ ReadInv' /\ GeExact' /\ LeExact' BY <1>10, Quiet
<1>12. QED BY <1>6, <1>7, <1>8, <1>9, <1>11 DEF IInv

\* The block of the reference to write next, and what that reference is in it.
LEMMA NextPlace ==
  ASSUME IInv, mode = "w", current_i + 1 < nmsgs
  PROVE  \E q \in Blocks, r \in 0 .. Size - 1 :
           /\ q \in Nat /\ q * Size \in Nat /\ q * Size + r = current_i + 1
           /\ (current_i + 1) \div Size = q /\ (current_i + 1) % Size = r
           /\ r = Size - 1 => /\ (current_i + 2) \div Size = q + 1
                              /\ (current_i + 2) % Size = 0
           /\ r # Size - 1 => /\ (current_i + 2) \div Size = q
                              /\ (current_i + 2) % Size = r + 1
<1> USE SizeFacts
<1>1. current_i \in Int /\ current_i + 1 \in Nat /\ nmsgs \in Nat \ {0}
  BY DEF IInv, WriteInv, TypeOK
<1>2. PICK n \in Nat : n = current_i + 1 BY <1>1
<1>3. PICK q, r : q = n \div Size /\ r = n % Size OBVIOUS
<1>4. q \in Nat /\ r \in 0 .. Size - 1 /\ n = q * Size + r BY <1>2, <1>3, PlaceOf
<1>5. q * Size \in Nat /\ (q + 1) * Size = q * Size + Size BY <1>4, BlocksOrdered
<1>6. q \in Blocks
  <2>1. NumBlocks \in Nat \ {0} /\ LastOf(NumBlocks - 1) = nmsgs - 1
        /\ NumBlocks - 1 \in Blocks /\ LastOf(NumBlocks - 1) <= FirstOf(NumBlocks - 1) + Size - 1
    BY <1>1, Bounds DEF Blocks
  <2>2. (NumBlocks - 1) * Size \in Nat /\ NumBlocks * Size = (NumBlocks - 1) * Size + Size
    <3>1. NumBlocks - 1 \in Nat /\ (NumBlocks - 1) + 1 = NumBlocks BY <2>1
    <3>2. QED BY <3>1, BlocksOrdered
  <2>3. n < NumBlocks * Size BY <1>1, <1>2, <2>1, <2>2 DEF FirstOf
  <2>4. q * Size <= n BY <1>4, <1>5
  <2>5. q < NumBlocks BY <1>2, <1>4, <2>1, <2>3, <2>4, BlockBefore
  <2>6. QED BY <1>4, <2>1, <2>5 DEF Blocks
<1>7. n + 1 = current_i + 2 BY <1>1, <1>2
<1>8. ASSUME r = Size - 1 PROVE (n + 1) \div Size = q + 1 /\ (n + 1) % Size = 0
  <2>1. PICK b \in Nat, s \in 0 .. Size - 1 : b = q + 1 /\ s = 0 BY <1>4
  <2>2. n + 1 = b * Size + s BY <1>4, <1>5, <1>8, <2>1
  <2>3. (b * Size + s) \div Size = b /\ (b * Size + s) % Size = s BY PlaceIs
  <2>4. QED BY <2>1, <2>2, <2>3
<1>9. ASSUME r # Size - 1 PROVE (n + 1) \div Size = q /\ (n + 1) % Size = r + 1
  <2>1. n + 1 = q * Size + (r + 1) BY <1>4, <1>5
  <2>2. r + 1 \in 0 .. Size - 1 BY <1>4, <1>9
  <2>3. QED BY <1>4, <2>1, <2>2, PlaceIs
<1>10. QED BY <1>2, <1>3, <1>4, <1>5, <1>6, <1>7, <1>8, <1>9

LEMMA Write1Inv ==
  ASSUME IInv, NEW value \in Refs, Write1(value)
  PROVE  IInv'
<1> USE SizeFacts
<1>1. /\ mode = "w" /\ current_i + 1 < nmsgs /\ mode' = mode /\ nmsgs' = nmsgs
      /\ current_i >= 0 => value >= refs[current_i]
      /\ refs' = [refs EXCEPT ![current_i + 1] = value] /\ current_i' = current_i + 1
      /\ UNCHANGED <<low_ref, high_ref, search, answer>>
  BY DEF Write1
<1>2. /\ current_i \in Int /\ current_i + 1 \in Slots /\ nmsgs \in Nat \ {0}
      /\ meta_block_i = (current_i + 1) \div Size
      /\ search = NoSearch /\ answer = NoAnswer /\ value \in Nat
      /\ refs \in [Slots -> Nat] /\ metas \in [Blocks -> [min : Int, max : Nat]]
      /\ current_block_ref_low \in Nat \cup {-1} /\ current_block_ref_high \in Nat \cup {-1}
  BY <1>1, RefsAssumption DEF IInv, WriteInv, ReadInv, TypeOK, Slots
<1>3. PICK q \in Blocks, r \in 0 .. Size - 1 :
           /\ q \in Nat /\ q * Size \in Nat /\ q * Size + r = current_i + 1
           /\ (current_i + 1) \div Size = q /\ (current_i + 1) % Size = r
           /\ r = Size - 1 => /\ (current_i + 2) \div Size = q + 1
                              /\ (current_i + 2) % Size = 0
           /\ r # Size - 1 => /\ (current_i + 2) \div Size = q
                              /\ (current_i + 2) % Size = r + 1
  BY <1>1, NextPlace
<1>4. current_i + 1 + 1 = current_i + 2 BY <1>2
<1>5. /\ r = Size - 1 => AppendMeta(value) /\ UNCHANGED current_block_ref_low
      /\ r # Size - 1 => UNCHANGED <<metas, meta_block_i, current_block_ref_high>>
      /\ r = 0 => current_block_ref_low' = value
      /\ r # Size - 1 /\ r # 0 => current_block_ref_low' = current_block_ref_low
  <2>1. CASE r = Size - 1
    <3>1. r # 0 /\ (current_i + 1 + 1) % Size = 0 BY <1>3, <1>4, <2>1
    <3>2. AppendMeta(value) /\ UNCHANGED current_block_ref_low BY <3>1 DEF Write1
    <3>3. QED BY <2>1, <3>1, <3>2
  <2>2. CASE r = 0
    <3>1. r # Size - 1 /\ (current_i + 1 + 1) % Size = 1 BY <1>3, <1>4, <2>2
    <3>2. /\ current_block_ref_low' = value
          /\ UNCHANGED <<metas, meta_block_i, current_block_ref_high>>
      BY <3>1 DEF Write1
    <3>3. QED BY <2>2, <3>1, <3>2
  <2>3. CASE r # 0 /\ r # Size - 1
    <3>1. (current_i + 1 + 1) % Size # 0 /\ (current_i + 1 + 1) % Size # 1
      BY <1>3, <1>4, <2>3
    <3>2. UNCHANGED <<metas, block>> BY <3>1 DEF Write1
    <3>3. QED BY <2>3, <3>2 DEF block
  <2>4. QED BY <2>1, <2>2, <2>3
<1>6. /\ NumBlocks' = NumBlocks /\ Slots' = Slots /\ Blocks' = Blocks
      /\ NumBlocks \in Nat \ {0}
  BY <1>1, <1>2, SameBlocks, Bounds
<1>7. /\ meta_block_i = q
      /\ r = Size - 1 => /\ metas' = [metas EXCEPT ![q] = [min |-> current_block_ref_low, max |-> value]]
                         /\ meta_block_i' = q + 1
                         /\ current_block_ref_high' = value
  BY <1>2, <1>3, <1>5 DEF AppendMeta, MetaOf
<1>8. refs' \in [Slots -> Nat] /\ refs'[current_i + 1] = value
      /\ \A i \in Slots : i # current_i + 1 => refs'[i] = refs[i]
  BY <1>1, <1>2
<1>9. TypeOK'
  <2>1. metas' \in [Blocks -> [min : Int, max : Nat]] BY <1>2, <1>3, <1>5, <1>7
  <2>2. meta_block_i' \in 0 .. NumBlocks
    <3>1. q + 1 \in 0 .. NumBlocks /\ q \in 0 .. NumBlocks BY <1>3, <1>6 DEF Blocks
    <3>2. QED BY <1>5, <1>7, <3>1
  <2>3. {low_ref', high_ref', current_block_ref_low', current_block_ref_high'}
          \subseteq Nat \cup {-1}
    <3>1. low_ref' \in Nat \cup {-1} /\ high_ref' \in Nat \cup {-1}
      BY <1>1 DEF IInv, TypeOK
    <3>2. current_block_ref_low' \in Nat \cup {-1} /\ current_block_ref_high' \in Nat \cup {-1}
      BY <1>2, <1>5, <1>7
    <3>3. QED BY <3>1, <3>2
  <2>4. current_i' \in -1 .. nmsgs' BY <1>1, <1>2 DEF Slots
  <2>5. search' = NoSearch /\ answer' = NoAnswer BY <1>1, <1>2
  <2>6. QED BY <1>1, <1>2, <1>6, <1>8, <2>1, <2>2, <2>3, <2>4, <2>5 DEF TypeOK
<1>10. Sorted' /\ Taken'
  <2>1. Written = current_i + 1 /\ Written' = current_i + 2 BY <1>1, <1>4 DEF Written
  <2>2. ASSUME NEW i \in 0 .. current_i + 1 PROVE i \in Slots /\ (i # current_i + 1 => i \in 0 .. Written - 1)
    BY <1>2, <2>1 DEF Slots
  <2>3. ASSUME NEW i \in 0 .. current_i + 1 PROVE refs'[i] \in Refs
    BY <1>8, <2>2 DEF IInv, Taken
  <2>4. ASSUME NEW i \in 0 .. current_i + 1, NEW j \in 0 .. current_i + 1, i <= j
        PROVE  refs'[i] <= refs'[j]
    <3>1. CASE j # current_i + 1
      <4>1. i # current_i + 1 BY <1>2, <2>4, <3>1
      <4>2. QED BY <1>8, <2>2, <2>4, <3>1, <4>1 DEF IInv, Sorted
    <3>2. CASE j = current_i + 1 /\ i # current_i + 1
      <4>1. i \in 0 .. Written - 1 /\ current_i \in 0 .. Written - 1 /\ i <= current_i /\ i \in Slots
            /\ current_i \in Slots
        BY <1>2, <2>1, <2>2, <3>2 DEF Slots
      <4>2. refs[i] <= refs[current_i] BY <4>1 DEF IInv, Sorted
      <4>3. refs[current_i] <= value BY <1>1, <4>1, <1>2 DEF Slots
      <4>4. refs[i] \in Nat /\ refs[current_i] \in Nat BY <1>2, <4>1
      <4>5. refs'[i] = refs[i] /\ refs'[j] = value BY <1>8, <3>2, <4>1
      <4>6. QED BY <1>2, <4>2, <4>3, <4>4, <4>5
    <3>3. CASE i = current_i + 1 /\ j = i BY <1>2, <1>8, <3>3
    <3>4. QED BY <1>2, <2>4, <3>1, <3>2, <3>3
  <2>5. Written' - 1 = current_i + 1 BY <1>2, <2>1
  <2>6. QED BY <2>3, <2>4, <2>5 DEF Sorted, Taken
<1>11. WriteInv'
  <2>1. current_i' \in -1 .. nmsgs - 1 /\ current_i' + 1 = current_i + 2
    BY <1>1, <1>2 DEF Slots
  <2>2. meta_block_i' = (current_i' + 1) \div Size BY <1>3, <1>5, <1>7, <2>1
  <2>3. ASSUME NEW b \in 0 .. q - 1
        PROVE  /\ refs'[b * Size] = refs[b * Size]
               /\ refs'[b * Size + Size - 1] = refs[b * Size + Size - 1]
    <3>1. b + 1 \in Nat /\ b + 1 <= q BY <1>3
    <3>2. (b + 1) * Size = b * Size + Size /\ b * Size \in Nat /\ (b + 1) * Size <= q * Size
      BY <1>3, <3>1, BlocksOrdered
    <3>3. b * Size + Size <= q * Size /\ b * Size \in Nat /\ q * Size \in Nat BY <1>3, <3>2
    <3>4. q * Size <= current_i + 1 /\ current_i + 1 <= nmsgs - 1 BY <1>2, <1>3 DEF Slots
    <3>5. PICK x \in Nat : x = b * Size BY <3>3
    <3>6. x + Size <= current_i + 1 BY <1>2, <3>3, <3>4, <3>5
    <3>7. /\ x # current_i + 1 /\ x + Size - 1 # current_i + 1
          /\ x \in Slots /\ x + Size - 1 \in Slots
      BY <1>2, <3>4, <3>6 DEF Slots
    <3>8. QED BY <1>2, <1>8, <3>5, <3>7
  <2>4. ASSUME NEW b \in 0 .. q - 1
        PROVE  metas'[b].min = refs'[b * Size] /\ metas'[b].max = refs'[b * Size + Size - 1]
    <3>1. metas[b].min = refs[b * Size] /\ metas[b].max = refs[b * Size + Size - 1]
      BY <1>1, <1>7 DEF IInv, WriteInv
    <3>2. metas'[b] = metas[b]
      <4>1. b # q /\ b \in Blocks BY <1>3, <1>6 DEF Blocks
      <4>2. QED BY <1>2, <1>5, <1>7, <4>1
    <3>3. QED BY <2>3, <3>1, <3>2
  <2>5. ASSUME r = Size - 1
        PROVE  metas'[q].min = refs'[q * Size] /\ metas'[q].max = refs'[q * Size + Size - 1]
    <3>1. metas'[q] = [min |-> current_block_ref_low, max |-> value] BY <1>2, <1>3, <1>7, <2>5
    <3>2. (current_i + 1) % Size # 0 BY <1>3, <2>5
    <3>3. current_block_ref_low = refs[q * Size] BY <1>1, <1>7, <3>2 DEF IInv, WriteInv
    <3>4. q * Size # current_i + 1 /\ q * Size \in Slots /\ q * Size + Size - 1 = current_i + 1
      BY <1>2, <1>3, <2>5 DEF Slots
    <3>5. QED BY <1>8, <3>1, <3>3, <3>4
  <2>6. \A b \in 0 .. meta_block_i' - 1 :
           metas'[b].min = refs'[b * Size] /\ metas'[b].max = refs'[b * Size + Size - 1]
    <3>1. CASE r = Size - 1
      <4>1. meta_block_i' - 1 = q BY <1>3, <1>7, <3>1
      <4>2. \A b \in 0 .. q : b = q \/ b \in 0 .. q - 1 BY <1>3
      <4>3. QED BY <2>4, <2>5, <3>1, <4>1, <4>2
    <3>2. CASE r # Size - 1
      <4>1. meta_block_i' = q BY <1>5, <1>7, <3>2
      <4>2. QED BY <2>4, <4>1
    <3>3. QED BY <3>1, <3>2
  <2>7. ASSUME (current_i' + 1) % Size # 0
        PROVE  current_block_ref_low' = refs'[meta_block_i' * Size]
    <3>1. r # Size - 1 BY <1>3, <2>1, <2>7
    <3>2. meta_block_i' = q BY <1>5, <1>7, <3>1
    <3>3. CASE r = 0
      <4>1. q * Size = current_i + 1 BY <1>2, <1>3, <3>3
      <4>2. QED BY <1>5, <1>8, <3>2, <3>3, <4>1
    <3>4. CASE r # 0
      <4>1. current_block_ref_low = refs[q * Size] BY <1>1, <1>3, <1>7, <3>4 DEF IInv, WriteInv
      <4>2. q * Size # current_i + 1 /\ q * Size \in Slots BY <1>2, <1>3, <3>4 DEF Slots
      <4>3. QED BY <1>5, <1>8, <3>1, <3>2, <3>4, <4>1, <4>2
    <3>5. QED BY <3>3, <3>4
  <2>8. QED BY <1>1, <1>2, <2>1, <2>2, <2>6, <2>7 DEF WriteInv
<1>12. FileInv' /\ CacheInv' BY <1>1 DEF FileInv, CacheInv
<1>13. search' = NoSearch /\ answer' = NoAnswer BY <1>1, <1>2
<1>14. MetasInv' /\ BlockInv' /\ ReadInv' /\ GeExact' /\ LeExact' BY <1>13, Quiet
<1>15. QED BY <1>9, <1>10, <1>11, <1>12, <1>14 DEF IInv

LEMMA CloseStreamInv ==
  ASSUME IInv, CloseStream
  PROVE  IInv'
<1> USE SizeFacts
<1>1. /\ mode = "w" /\ current_i = nmsgs - 1 /\ mode' = "closed"
      /\ (current_i + 1) % Size # 0 => AppendMeta(refs[current_i])
      /\ (current_i + 1) % Size = 0 => UNCHANGED <<metas, meta_block_i, current_block_ref_high>>
      /\ low_ref' = refs[0] /\ high_ref' = refs[nmsgs - 1]
      /\ UNCHANGED <<nmsgs, refs, current_i, current_block_ref_low, search, answer>>
  BY DEF CloseStream, PartBlock
<1>2. /\ nmsgs \in Nat \ {0} /\ current_i + 1 = nmsgs
      /\ meta_block_i = nmsgs \div Size
      /\ search = NoSearch /\ answer = NoAnswer
      /\ refs \in [Slots -> Nat] /\ metas \in [Blocks -> [min : Int, max : Nat]]
      /\ current_block_ref_low \in Nat \cup {-1} /\ current_block_ref_high \in Nat \cup {-1}
      /\ nmsgs - 1 \in Slots /\ 0 \in Slots
  BY <1>1 DEF IInv, WriteInv, ReadInv, TypeOK, Slots
<1>3. /\ NumBlocks' = NumBlocks /\ Slots' = Slots /\ Blocks' = Blocks
      /\ NumBlocks \in Nat \ {0}
  BY <1>1, <1>2, SameBlocks, Bounds
<1>4. PICK q \in Nat, r \in 0 .. Size - 1 :
             /\ q = nmsgs \div Size /\ r = nmsgs % Size
             /\ nmsgs = q * Size + r /\ q * Size \in Nat
  <2>1. nmsgs \div Size \in Nat /\ nmsgs % Size \in 0 .. Size - 1
        /\ nmsgs = (nmsgs \div Size) * Size + (nmsgs % Size)
    BY <1>2, PlaceOf
  <2>2. (nmsgs \div Size) * Size \in Nat BY <2>1, BlocksOrdered
  <2>3. QED BY <2>1, <2>2
<1>5. NumBlocks = IF r > 0 THEN q + 1 ELSE q BY <1>4 DEF NumBlocks
<1>6. /\ r # 0 => /\ metas' = [metas EXCEPT ![q] = [min |-> current_block_ref_low, max |-> refs[nmsgs - 1]]]
                  /\ meta_block_i' = q + 1 /\ current_block_ref_high' = refs[nmsgs - 1]
                  /\ current_block_ref_low = refs[q * Size]
      /\ r = 0 => UNCHANGED <<metas, meta_block_i, current_block_ref_high>>
  <2>1. current_i + 1 = nmsgs /\ meta_block_i = q BY <1>2, <1>4
  <2>2. ASSUME r # 0
        PROVE  /\ AppendMeta(refs[nmsgs - 1])
               /\ current_block_ref_low = refs[q * Size]
    BY <1>1, <1>4, <2>1, <2>2 DEF IInv, WriteInv
  <2>3. QED BY <1>1, <1>4, <2>1, <2>2 DEF AppendMeta, MetaOf
<1>7. TypeOK'
  <2>1. refs[nmsgs - 1] \in Nat /\ refs[0] \in Nat BY <1>2
  <2>2. metas' \in [Blocks -> [min : Int, max : Nat]] BY <1>2, <1>6, <2>1
  <2>3. meta_block_i' \in 0 .. NumBlocks BY <1>2, <1>4, <1>5, <1>6
  <2>4. {low_ref', high_ref', current_block_ref_low', current_block_ref_high'}
          \subseteq Nat \cup {-1}
    <3>1. low_ref' \in Nat /\ high_ref' \in Nat BY <1>1, <2>1
    <3>2. current_block_ref_low' \in Nat \cup {-1} /\ current_block_ref_high' \in Nat \cup {-1}
      BY <1>1, <1>2, <1>6, <2>1
    <3>3. QED BY <3>1, <3>2
  <2>5. current_i' \in -1 .. nmsgs' /\ nmsgs' \in Nat BY <1>1, <1>2
  <2>6. search' = NoSearch /\ answer' = NoAnswer BY <1>1, <1>2
  <2>7. QED BY <1>1, <1>2, <1>3, <2>2, <2>3, <2>4, <2>5, <2>6 DEF TypeOK
<1>8. Sorted' /\ Taken'
  <2>1. Written = nmsgs /\ Written' = nmsgs BY <1>1, <1>2 DEF Written
  <2>2. QED BY <1>1, <2>1 DEF Sorted, Taken, IInv
<1>9. WriteInv' BY <1>1, <1>2 DEF WriteInv
<1>10. MetasBound'
  <2>1. ASSUME NEW b \in Blocks
        PROVE  /\ metas'[b].min = refs[b * Size]
               /\ metas'[b].max = IF b = NumBlocks - 1 THEN refs[nmsgs - 1] ELSE refs[b * Size + Size - 1]
    <3>1. b \in 0 .. NumBlocks - 1 BY DEF Blocks
    <3>2. ASSUME b \in 0 .. q - 1
          PROVE  metas'[b].min = refs[b * Size] /\ metas'[b].max = refs[b * Size + Size - 1]
      <4>1. metas[b].min = refs[b * Size] /\ metas[b].max = refs[b * Size + Size - 1]
        BY <1>1, <1>2, <1>4, <3>2 DEF IInv, WriteInv
      <4>2. metas'[b] = metas[b] BY <1>2, <1>4, <1>6, <3>2
      <4>3. QED BY <4>1, <4>2
    <3>3. CASE r # 0
      <4>1. NumBlocks - 1 = q /\ q \in Blocks BY <1>4, <1>5, <3>3 DEF Blocks
      <4>2. CASE b = q
        <5>1. metas'[q] = [min |-> refs[q * Size], max |-> refs[nmsgs - 1]]
          BY <1>2, <1>6, <3>3, <4>1
        <5>2. QED BY <4>1, <4>2, <5>1
      <4>3. CASE b # q
        <5>1. b \in 0 .. q - 1 BY <1>4, <3>1, <4>1, <4>3
        <5>2. QED BY <3>2, <4>1, <4>3, <5>1
      <4>4. QED BY <4>2, <4>3
    <3>4. CASE r = 0
      <4>1. NumBlocks = q BY <1>5, <3>4
      <4>2. b \in 0 .. q - 1 BY <3>1, <4>1
      <4>3. b = NumBlocks - 1 => b * Size + Size - 1 = nmsgs - 1
        <5>1. SUFFICES ASSUME b = NumBlocks - 1 PROVE b * Size + Size - 1 = nmsgs - 1 OBVIOUS
        <5>2. b \in Nat /\ b + 1 = q BY <1>4, <4>1, <4>2, <5>1
        <5>3. (b + 1) * Size = b * Size + Size /\ b * Size \in Nat BY <5>2, BlocksOrdered
        <5>4. q * Size = b * Size + Size BY <5>2, <5>3
        <5>5. QED BY <1>4, <3>4, <5>3, <5>4
      <4>4. QED BY <3>2, <4>2, <4>3
    <3>5. QED BY <3>3, <3>4
  <2>2. QED BY <1>1, <1>3, <2>1 DEF MetasBound
<1>11. FileInv' /\ CacheInv' BY <1>1, <1>10 DEF FileInv, CacheInv
<1>12. search' = NoSearch /\ answer' = NoAnswer BY <1>1, <1>2
<1>13. MetasInv' /\ BlockInv' /\ ReadInv' /\ GeExact' /\ LeExact' BY <1>12, Quiet
<1>14. QED BY <1>7, <1>8, <1>9, <1>11, <1>13 DEF IInv

-----------------------------------------------------------------------------
(* Reading a stream                                                        *)

\* What the reader's steps find and leave alone.
LEMMA StoredFacts ==
  ASSUME IInv, mode \in {"closed", "r"}
  PROVE  /\ Readable /\ nmsgs \in Nat \ {0} /\ NumBlocks \in Nat \ {0}
         /\ metas \in [Blocks -> [min : Int, max : Nat]]
         /\ high_ref = refs[nmsgs - 1]
         /\ \A b \in Blocks : /\ metas[b].min = refs[FirstOf(b)] /\ metas[b].max = refs[LastOf(b)]
                              /\ metas[b].min \in Nat /\ metas[b].max \in Nat
<1>1. nmsgs \in Nat \ {0} /\ refs \in [Slots -> Nat]
      /\ metas \in [Blocks -> [min : Int, max : Nat]]
  BY DEF IInv, WriteInv, TypeOK
<1>2. Written = nmsgs BY DEF Written
<1>3. Readable BY <1>1, <1>2 DEF Readable, IInv, Sorted, Slots
<1>4. ASSUME NEW b \in Blocks
      PROVE  /\ metas[b].min = refs[FirstOf(b)] /\ metas[b].max = refs[LastOf(b)]
             /\ metas[b].min \in Nat /\ metas[b].max \in Nat
  <2>1. FirstOf(b) \in Slots /\ LastOf(b) \in Slots BY <1>1, Bounds
  <2>2. refs[FirstOf(b)] \in Nat /\ refs[LastOf(b)] \in Nat BY <1>1, <2>1
  <2>3. QED BY <2>2 DEF IInv, FileInv, MetasBound, FirstOf, LastOf
<1>5. QED BY <1>1, <1>3, <1>4, Bounds DEF IInv, FileInv

LEMMA StoredKept ==
  ASSUME IInv, mode \in {"closed", "r"}, mode' = "r", UNCHANGED stored
  PROVE  /\ Sorted' /\ Taken' /\ WriteInv' /\ FileInv'
         /\ NumBlocks' = NumBlocks /\ Slots' = Slots /\ Blocks' = Blocks
         /\ nmsgs' = nmsgs /\ refs' = refs /\ metas' = metas
<1>1. nmsgs' = nmsgs /\ refs' = refs /\ metas' = metas /\ low_ref' = low_ref /\ high_ref' = high_ref
  BY DEF stored
<1>2. NumBlocks' = NumBlocks /\ Slots' = Slots /\ Blocks' = Blocks BY <1>1, SameBlocks
<1>3. Written = nmsgs /\ Written' = nmsgs BY <1>1 DEF Written
<1>4. Sorted' /\ Taken' BY <1>1, <1>3 DEF IInv, Sorted, Taken
<1>5. WriteInv' BY <1>1 DEF IInv, WriteInv
<1>6. MetasBound' BY <1>1, <1>2 DEF IInv, FileInv, MetasBound
<1>7. FileInv' BY <1>1, <1>6 DEF IInv, FileInv
<1>8. QED BY <1>1, <1>2, <1>4, <1>5, <1>7

LEMMA SetupReadInv ==
  ASSUME IInv, SetupRead
  PROVE  IInv'
<1>1. /\ mode = "closed" /\ mode' = "r" /\ meta_block_i' = 0 /\ current_i' = -1
      /\ current_block_ref_low' = -1 /\ current_block_ref_high' = -1
      /\ UNCHANGED <<stored, search, answer>>
  BY DEF SetupRead
<1>2. /\ Sorted' /\ Taken' /\ WriteInv' /\ FileInv'
      /\ NumBlocks' = NumBlocks /\ Slots' = Slots /\ Blocks' = Blocks
      /\ nmsgs' = nmsgs /\ refs' = refs /\ metas' = metas
  BY <1>1, StoredKept
<1>3. search' = NoSearch /\ answer' = NoAnswer BY <1>1 DEF IInv, ReadInv
<1>4. NumBlocks \in Nat \ {0} /\ nmsgs \in Nat BY <1>1, StoredFacts
<1>5. TypeOK'
  <2>1. refs \in [Slots -> Nat] /\ metas \in [Blocks -> [min : Int, max : Nat]]
    BY DEF IInv, TypeOK
  <2>2. {low_ref', high_ref', current_block_ref_low', current_block_ref_high'}
          \subseteq Nat \cup {-1}
    BY <1>1 DEF IInv, TypeOK, stored
  <2>3. current_i' \in -1 .. nmsgs' /\ meta_block_i' \in 0 .. NumBlocks' BY <1>1, <1>2, <1>4
  <2>4. QED BY <1>1, <1>2, <1>3, <1>4, <2>1, <2>2, <2>3 DEF TypeOK
<1>6. CacheInv'
  <2>1. meta_block_i' \in Blocks' BY <1>1, <1>2, <1>4 DEF Blocks
  <2>2. QED BY <1>1, <2>1 DEF CacheInv
<1>7. MetasInv' /\ BlockInv' /\ ReadInv' /\ GeExact' /\ LeExact' BY <1>3, Quiet
<1>8. QED BY <1>2, <1>5, <1>6, <1>7 DEF IInv

\* The cursor's steps: what they read is no answer to a search.
Moves == {"get", "next", "prev"}

LEMMA MoveInv ==
  ASSUME IInv, Idle, UNCHANGED <<mode, stored, block, search>>,
         current_i' \in -1 .. nmsgs,
         answer' \in [op : Moves, ref : Nat \cup {-1}]
  PROVE  IInv'
<1>1. /\ mode = "r" /\ mode' = "r" /\ search = NoSearch /\ search' = NoSearch
      /\ UNCHANGED stored /\ UNCHANGED block
  BY DEF Idle
<1>2. /\ Sorted' /\ Taken' /\ WriteInv' /\ FileInv'
      /\ NumBlocks' = NumBlocks /\ Slots' = Slots /\ Blocks' = Blocks
      /\ nmsgs' = nmsgs /\ refs' = refs /\ metas' = metas
  BY <1>1, StoredKept
<1>3. TypeOK'
  <2>1. /\ refs \in [Slots -> Nat] /\ metas \in [Blocks -> [min : Int, max : Nat]]
        /\ nmsgs \in Nat /\ meta_block_i \in 0 .. NumBlocks
    BY DEF IInv, TypeOK
  <2>2. {low_ref', high_ref', current_block_ref_low', current_block_ref_high'}
          \subseteq Nat \cup {-1}
    BY <1>1 DEF IInv, TypeOK, stored, block
  <2>3. meta_block_i' = meta_block_i BY <1>1 DEF block
  <2>4. QED BY <1>1, <1>2, <2>1, <2>2, <2>3 DEF TypeOK, Moves
<1>4. CacheInv' BY <1>1, <1>2 DEF IInv, CacheInv, block
<1>5. MetasInv' /\ BlockInv' BY <1>1 DEF MetasInv, BlockInv
<1>6. ReadInv' BY <1>1 DEF ReadInv
<1>7. answer'.op # "ge" /\ answer'.op # "le" BY DEF Moves
<1>8. GeExact' /\ LeExact' BY <1>7 DEF GeExact, LeExact
<1>9. QED BY <1>2, <1>3, <1>4, <1>5, <1>6, <1>8 DEF IInv

LEMMA CursorInv ==
  ASSUME IInv, (\E i \in 0 .. nmsgs : Get(i)) \/ Next1 \/ Prev1
  PROVE  IInv'
<1>1. Idle /\ UNCHANGED <<mode, stored, block, search>> BY DEF Get, Next1, Prev1
<1>2. /\ nmsgs \in Nat \ {0} /\ refs \in [Slots -> Nat] /\ current_i \in -1 .. nmsgs
  BY <1>1 DEF IInv, TypeOK, WriteInv, Idle
<1>3. ASSUME NEW i \in Slots, NEW op \in Moves, Read(op, i)
      PROVE  current_i' \in -1 .. nmsgs /\ answer' \in [op : Moves, ref : Nat \cup {-1}]
  <2>1. refs[i] \in Nat /\ i \in -1 .. nmsgs BY <1>2 DEF Slots
  <2>2. QED BY <1>3, <2>1 DEF Read
<1>4. current_i' \in -1 .. nmsgs /\ answer' \in [op : Moves, ref : Nat \cup {-1}]
  <2>1. ASSUME NEW i \in 0 .. nmsgs, Get(i)
        PROVE  current_i' \in -1 .. nmsgs /\ answer' \in [op : Moves, ref : Nat \cup {-1}]
    <3>1. CASE i < nmsgs
      <4>1. i \in Slots /\ "get" \in Moves BY <1>2, <3>1 DEF Slots, Moves
      <4>2. Read("get", i) BY <2>1, <3>1 DEF Get
      <4>3. QED BY <1>3, <4>1, <4>2
    <3>2. CASE ~(i < nmsgs)
      <4>1. current_i' = i /\ \E r \in Refs : answer' = [op |-> "get", ref |-> r]
        BY <2>1, <3>2 DEF Get
      <4>2. QED BY <1>2, <4>1, RefsAssumption DEF Moves
    <3>3. QED BY <3>1, <3>2
  <2>2. CASE Next1
    <3>1. CASE current_i < nmsgs - 1
      <4>1. current_i + 1 \in Slots /\ "next" \in Moves BY <1>2, <3>1 DEF Slots, Moves
      <4>2. Read("next", current_i + 1) BY <2>2, <3>1 DEF Next1
      <4>3. QED BY <1>3, <4>1, <4>2
    <3>2. CASE ~(current_i < nmsgs - 1)
      <4>1. current_i' = PastEnd /\ answer' = [op |-> "next", ref |-> -1]
        BY <2>2, <3>2 DEF Next1
      <4>2. QED BY <1>2, <4>1 DEF Moves, PastEnd
    <3>3. QED BY <3>1, <3>2
  <2>3. CASE Prev1
    <3>1. CASE current_i > 0
      <4>1. current_i - 1 \in Slots /\ "prev" \in Moves BY <1>2, <3>1 DEF Slots, Moves
      <4>2. Read("prev", current_i - 1) BY <2>3, <3>1 DEF Prev1
      <4>3. QED BY <1>3, <4>1, <4>2
    <3>2. CASE ~(current_i > 0)
      <4>1. current_i' = (IF current_i = 0 THEN -1 ELSE current_i)
            /\ answer' = [op |-> "prev", ref |-> -1]
        BY <2>3, <3>2 DEF Prev1
      <4>2. QED BY <1>2, <4>1 DEF Moves
    <3>3. QED BY <3>1, <3>2
  <2>4. QED BY <2>1, <2>2, <2>3
<1>5. QED BY <1>1, <1>4, MoveInv

-----------------------------------------------------------------------------
(* Searching: what every step of a search keeps                            *)

SearchType == [op : Ops, ref : Targets, stage : {"metas", "block"},
               low : 0 .. NumBlocks + Size, high : -1 .. NumBlocks + Size,
               p_ref : Nat \cup {-1}]
Looks == UNCHANGED block \/ \E b \in Blocks : LookAt(b)

\* A search looks at blocks of the stream, and leaves its cursor alone.
LEMMA LooksKeep ==
  ASSUME IInv, mode = "r", UNCHANGED <<mode, stored, current_i>>, Looks
  PROVE  /\ CacheInv' /\ meta_block_i' \in 0 .. NumBlocks
         /\ current_i' \in -1 .. nmsgs'
         /\ {low_ref', high_ref', current_block_ref_low', current_block_ref_high'}
              \subseteq Nat \cup {-1}
<1>1. /\ NumBlocks' = NumBlocks /\ Slots' = Slots /\ Blocks' = Blocks
      /\ nmsgs' = nmsgs /\ refs' = refs /\ metas' = metas
  BY StoredKept
<1>2. /\ NumBlocks \in Nat \ {0}
      /\ \A b \in Blocks : metas[b].min \in Nat /\ metas[b].max \in Nat
  BY StoredFacts
<1>3. low_ref' \in Nat \cup {-1} /\ high_ref' \in Nat \cup {-1}
  BY DEF IInv, TypeOK, stored
<1>4. current_i' \in -1 .. nmsgs' BY <1>1 DEF IInv, TypeOK
<1>5. CASE UNCHANGED block
  <2>1. /\ meta_block_i' = meta_block_i /\ current_block_ref_low' = current_block_ref_low
        /\ current_block_ref_high' = current_block_ref_high
    BY <1>5 DEF block
  <2>2. CacheInv' BY <1>1, <2>1 DEF IInv, CacheInv
  <2>3. current_block_ref_low' \in Nat \cup {-1} /\ current_block_ref_high' \in Nat \cup {-1}
    BY <2>1 DEF IInv, TypeOK
  <2>4. meta_block_i' \in 0 .. NumBlocks BY <2>1 DEF IInv, TypeOK
  <2>5. QED BY <1>3, <1>4, <2>2, <2>3, <2>4
<1>6. CASE \E b \in Blocks : LookAt(b)
  <2>1. PICK b \in Blocks : LookAt(b) BY <1>6
  <2>2. /\ meta_block_i' = b /\ current_block_ref_low' = metas[b].min
        /\ current_block_ref_high' = metas[b].max
    BY <2>1 DEF LookAt
  <2>3. CacheInv' BY <1>1, <2>2 DEF CacheInv
  <2>4. current_block_ref_low' \in Nat \cup {-1} /\ current_block_ref_high' \in Nat \cup {-1}
    BY <1>2, <2>2
  <2>5. meta_block_i' \in 0 .. NumBlocks BY <1>2, <2>2 DEF Blocks
  <2>6. QED BY <1>3, <1>4, <2>3, <2>4, <2>5
<1>7. QED BY <1>5, <1>6 DEF Looks

\* A step that searches on.
LEMMA SearchesOn ==
  ASSUME IInv, mode = "r", UNCHANGED <<mode, stored, current_i>>, Looks,
         search' \in SearchType, answer' = NoAnswer, MetasInv', BlockInv'
  PROVE  IInv'
<1>1. /\ Sorted' /\ Taken' /\ WriteInv' /\ FileInv'
      /\ NumBlocks' = NumBlocks /\ Slots' = Slots /\ Blocks' = Blocks
      /\ nmsgs' = nmsgs /\ refs' = refs /\ metas' = metas
  BY StoredKept
<1>2. /\ CacheInv' /\ meta_block_i' \in 0 .. NumBlocks
      /\ current_i' \in -1 .. nmsgs'
      /\ {low_ref', high_ref', current_block_ref_low', current_block_ref_high'}
           \subseteq Nat \cup {-1}
  BY LooksKeep
<1>3. /\ refs \in [Slots -> Nat] /\ metas \in [Blocks -> [min : Int, max : Nat]]
      /\ nmsgs \in Nat
  BY DEF IInv, TypeOK
<1>4. TypeOK' BY <1>1, <1>2, <1>3 DEF TypeOK, SearchType
<1>5. ReadInv' BY DEF ReadInv
<1>6. GeExact' /\ LeExact' BY DEF GeExact, LeExact, NoAnswer
<1>7. QED BY <1>1, <1>2, <1>4, <1>5, <1>6 DEF IInv

\* A step that answers rightly.
LEMMA Answers ==
  ASSUME IInv, search # NoSearch, UNCHANGED <<mode, stored, current_i>>, Looks,
         NEW r, Answered(r), r \in Nat \cup {-1},
         search.op = "ge" => GeRight(search.ref, r),
         search.op = "le" => LeRight(search.ref, r)
  PROVE  IInv'
<1>1. mode = "r" /\ answer = NoAnswer BY DEF IInv, ReadInv
<1>2. /\ Sorted' /\ Taken' /\ WriteInv' /\ FileInv'
      /\ NumBlocks' = NumBlocks /\ Slots' = Slots /\ Blocks' = Blocks
      /\ nmsgs' = nmsgs /\ refs' = refs /\ metas' = metas
  BY <1>1, StoredKept
<1>3. /\ CacheInv' /\ meta_block_i' \in 0 .. NumBlocks
      /\ current_i' \in -1 .. nmsgs'
      /\ {low_ref', high_ref', current_block_ref_low', current_block_ref_high'}
           \subseteq Nat \cup {-1}
  BY <1>1, LooksKeep
<1>4. /\ refs \in [Slots -> Nat] /\ metas \in [Blocks -> [min : Int, max : Nat]]
      /\ nmsgs \in Nat
  BY DEF IInv, TypeOK
<1>5. search.op \in Ops /\ search.ref \in Targets BY DEF IInv, TypeOK
<1>6. answer' = [op |-> search.op, arg |-> search.ref, ref |-> r] /\ search' = NoSearch
  BY DEF Answered
<1>7. TypeOK'
  <2>1. answer' \in [op : Ops, arg : Targets, ref : Nat \cup {-1}] BY <1>5, <1>6
  <2>2. QED BY <1>1, <1>2, <1>3, <1>4, <1>6, <2>1 DEF TypeOK
<1>8. MetasInv' /\ BlockInv' BY <1>6 DEF MetasInv, BlockInv
<1>9. ReadInv' BY <1>1, <1>6 DEF ReadInv
<1>10. GeExact'
  <2>1. SUFFICES ASSUME search.op = "ge"
                 PROVE  IF r = -1
                          THEN \A i \in Slots : refs[i] < search.ref
                          ELSE /\ \E i \in Slots : refs[i] = r
                               /\ r >= search.ref
                               /\ \A i \in Slots : refs[i] >= search.ref => refs[i] >= r
    BY <1>2, <1>6 DEF GeExact
  <2>2. QED BY <2>1 DEF GeRight
<1>11. LeExact'
  <2>1. SUFFICES ASSUME search.op = "le"
                 PROVE  IF r = -1
                          THEN \A i \in Slots : refs[i] > search.ref
                          ELSE /\ \E i \in Slots : refs[i] = r
                               /\ r <= search.ref
                               /\ \A i \in Slots : refs[i] <= search.ref => refs[i] <= r
    BY <1>2, <1>6 DEF LeExact
  <2>2. QED BY <2>1 DEF LeRight
<1>12. QED BY <1>2, <1>3, <1>7, <1>8, <1>9, <1>10, <1>11 DEF IInv

\* Later blocks hold greater references.
LEMMA MetasOrdered ==
  ASSUME IInv, mode = "r", NEW b \in Blocks, NEW c \in Blocks
  PROVE  /\ metas[b].min <= metas[b].max
         /\ b <= c => metas[b].min <= metas[c].min /\ metas[b].max <= metas[c].max
<1> USE SizeFacts
<1>1. /\ Readable /\ nmsgs \in Nat \ {0} /\ NumBlocks \in Nat \ {0}
      /\ metas[b].min = refs[FirstOf(b)] /\ metas[b].max = refs[LastOf(b)]
      /\ metas[c].min = refs[FirstOf(c)] /\ metas[c].max = refs[LastOf(c)]
      /\ metas[b].min \in Nat /\ metas[b].max \in Nat
  BY StoredFacts
<1>2. /\ FirstOf(b) \in Slots /\ LastOf(b) \in Slots /\ FirstOf(c) \in Slots /\ LastOf(c) \in Slots
      /\ FirstOf(b) <= LastOf(b) /\ FirstOf(c) <= LastOf(c) /\ LastOf(b) <= FirstOf(b) + Size - 1
  BY <1>1, Bounds
<1>3. metas[b].min <= metas[b].max BY <1>1, <1>2 DEF Readable
<1>4. ASSUME b < c PROVE FirstOf(b) <= FirstOf(c) /\ LastOf(b) <= LastOf(c)
  <2>1. b \in Nat /\ b + 1 \in Nat /\ c \in Nat /\ b + 1 <= c BY <1>1, <1>4 DEF Blocks
  <2>2. (b + 1) * Size = b * Size + Size /\ (b + 1) * Size <= c * Size
        /\ b * Size \in Nat /\ c * Size \in Nat
    BY <2>1, BlocksOrdered
  <2>3. FirstOf(b) = b * Size /\ FirstOf(c) = c * Size BY DEF FirstOf
  <2>4. FirstOf(b) + Size <= FirstOf(c) /\ FirstOf(b) \in Nat /\ FirstOf(c) \in Nat
    BY <2>2, <2>3
  <2>5. LastOf(b) \in Int /\ LastOf(c) \in Int BY <1>1, <1>2 DEF Slots
  <2>6. QED BY <1>2, <2>4, <2>5
<1>5. b <= c => metas[b].min <= metas[c].min /\ metas[b].max <= metas[c].max
  <2>1. CASE b = c BY <1>1, <2>1
  <2>2. CASE b < c
    <3>1. refs[FirstOf(b)] <= refs[FirstOf(c)] /\ refs[LastOf(b)] <= refs[LastOf(c)]
      BY <1>1, <1>2, <1>4, <2>2 DEF Readable
    <3>2. QED BY <1>1, <3>1
  <2>3. b \in Int /\ c \in Int BY <1>1 DEF Blocks
  <2>4. QED BY <2>1, <2>2, <2>3
<1>6. QED BY <1>3, <1>5

-----------------------------------------------------------------------------
(* Searching: the search of the metas                                      *)

LEMMA InMetasInv ==
  ASSUME IInv, mode = "r", UNCHANGED <<mode, stored, block, current_i>>, answer' = NoAnswer,
         NEW op \in Ops, NEW ref \in Targets, search' = InMetas(op, ref)
  PROVE  IInv'
<1> USE SizeFacts
<1>1. NumBlocks \in Nat \ {0} /\ NumBlocks' = NumBlocks /\ Blocks' = Blocks
  BY StoredFacts, StoredKept
<1>2. search' \in SearchType BY <1>1 DEF SearchType, InMetas
<1>3. MetasInv'
  <2>1. search'.low = 0 /\ search'.high = NumBlocks - 1 BY DEF InMetas
  <2>2. \A b \in Blocks : ~(b < 0) /\ ~(b > NumBlocks - 1) BY <1>1 DEF Blocks
  <2>3. QED BY <1>1, <2>1, <2>2 DEF MetasInv
<1>4. BlockInv' BY DEF BlockInv, InMetas
<1>5. QED BY <1>2, <1>3, <1>4, SearchesOn DEF Looks

\* A search goes on in a block that spans the reference.
LEMMA InBlockInv ==
  ASSUME IInv, mode = "r", UNCHANGED <<mode, stored, current_i>>, Looks, answer' = NoAnswer,
         NEW op \in Ops, NEW ref \in Targets, search' = InBlock(op, ref),
         metas[meta_block_i'].min <= ref, ref <= metas[meta_block_i'].max
  PROVE  IInv'
<1> USE SizeFacts
<1>1. NumBlocks \in Nat \ {0} /\ metas' = metas BY StoredFacts, StoredKept
<1>2. search' \in SearchType BY <1>1 DEF SearchType, InBlock
<1>3. MetasInv' BY DEF MetasInv, InBlock
<1>4. BlockInv'
  <2>1. search'.low = 0 /\ search'.high = Size /\ search'.ref = ref BY DEF InBlock
  <2>2. \A p \in 0 .. Size - 1 : ~(p < 0) /\ ~(p >= Size) OBVIOUS
  <2>3. metas'[meta_block_i'].min <= ref /\ ref <= metas'[meta_block_i'].max BY <1>1
  <2>4. QED BY <2>1, <2>2, <2>3 DEF BlockInv
<1>5. QED BY <1>2, <1>3, <1>4, SearchesOn

LEMMA StartInv ==
  ASSUME IInv, NEW ref \in Targets, StartGe(ref) \/ StartLe(ref)
  PROVE  IInv'
<1>1. /\ mode = "r" /\ UNCHANGED <<mode, stored, block, current_i>> /\ answer' = NoAnswer
  BY DEF StartGe, StartLe, Idle
<1>2. CASE StartGe(ref) BY <1>1, <1>2, InMetasInv DEF StartGe, Ops
<1>3. CASE StartLe(ref) /\ ~Buffered(ref) BY <1>1, <1>3, InMetasInv DEF StartLe, Ops
<1>4. CASE StartLe(ref) /\ Buffered(ref)
  <2>1. search' = InBlock("le", ref) /\ "le" \in Ops BY <1>4 DEF StartLe, Ops
  <2>2. meta_block_i' = meta_block_i /\ Looks BY <1>1 DEF block, Looks
  <2>3. metas[meta_block_i].min <= ref /\ ref <= metas[meta_block_i].max
    BY <1>1, <1>4 DEF Buffered, IInv, CacheInv
  <2>4. QED BY <1>1, <2>1, <2>2, <2>3, InBlockInv
<1>5. QED BY <1>2, <1>3, <1>4

LEMMA MetaStepInv ==
  ASSUME IInv, MetaStep
  PROVE  IInv'
<1> DEFINE pivot == (search.high + search.low) \div 2
<1>1. /\ search # NoSearch /\ search.stage = "metas" /\ search.low <= search.high
      /\ LookAt(pivot)
      /\ search' = IF search.ref < metas[pivot].min THEN [search EXCEPT !.high = pivot - 1]
                   ELSE IF search.ref > metas[pivot].max
                          THEN [search EXCEPT !.low = pivot + 1]
                          ELSE InBlock(search.op, search.ref)
      /\ UNCHANGED <<mode, stored, current_i, answer>>
  BY DEF MetaStep, AfterPivot
<1>2. mode = "r" /\ answer' = NoAnswer BY <1>1 DEF IInv, ReadInv
<1>3. /\ NumBlocks \in Nat \ {0} /\ NumBlocks' = NumBlocks /\ Blocks' = Blocks
      /\ metas' = metas
  BY <1>1, <1>2, StoredFacts, StoredKept
<1>4. /\ search.low \in 0 .. NumBlocks /\ search.high \in -1 .. NumBlocks - 1
      /\ \A b \in Blocks : b < search.low => metas[b].max < search.ref
      /\ \A b \in Blocks : b > search.high => metas[b].min > search.ref
  BY <1>1 DEF IInv, MetasInv
<1>5. search \in SearchType /\ search.ref \in Targets /\ search.op \in Ops /\ search.ref \in Nat
  BY <1>1, TargetsAssumption DEF IInv, TypeOK, SearchType
<1>6. pivot \in Nat /\ search.low <= pivot /\ pivot <= search.high /\ pivot \in Blocks
  BY <1>1, <1>3, <1>4 DEF Blocks
<1> HIDE DEF pivot
<1>7. Looks /\ meta_block_i' = pivot BY <1>1, <1>6 DEF Looks, LookAt
<1>8. \A b \in Blocks : /\ b \in Int
                        /\ metas[b].min \in Nat /\ metas[b].max \in Nat
                        /\ b <= pivot => metas[b].max <= metas[pivot].max
                        /\ pivot <= b => metas[pivot].min <= metas[b].min
  BY <1>2, <1>3, <1>6, MetasOrdered, StoredFacts DEF Blocks
<1>9. CASE search.ref < metas[pivot].min
  <2>1. search' = [search EXCEPT !.high = pivot - 1] BY <1>1, <1>9
  <2>2. search' \in SearchType /\ search'.low = search.low /\ search'.high = pivot - 1
        /\ search'.ref = search.ref /\ search'.stage = "metas"
    <3>1. pivot - 1 \in -1 .. NumBlocks + Size BY <1>3, <1>4, <1>6, SizeFacts
    <3>2. QED BY <1>1, <1>5, <2>1, <3>1 DEF SearchType
  <2>3. ASSUME NEW b \in Blocks, b > pivot - 1 PROVE metas[b].min > search.ref
    <3>1. b >= pivot BY <1>6, <1>8, <2>3
    <3>2. QED BY <1>5, <1>6, <1>8, <1>9, <3>1
  <2>4. MetasInv'
    <3>1. pivot - 1 \in -1 .. NumBlocks - 1 /\ search.low <= (pivot - 1) + 1
      BY <1>3, <1>4, <1>6
    <3>2. search.low > pivot - 1 => pivot = search.low BY <1>4, <1>6
    <3>3. QED BY <1>3, <1>4, <1>7, <2>2, <2>3, <3>1, <3>2 DEF MetasInv
  <2>5. BlockInv' BY <2>2 DEF BlockInv
  <2>6. QED BY <1>1, <1>2, <1>7, <2>2, <2>4, <2>5, SearchesOn
<1>10. CASE ~(search.ref < metas[pivot].min) /\ search.ref > metas[pivot].max
  <2>1. search' = [search EXCEPT !.low = pivot + 1] BY <1>1, <1>10
  <2>2. search' \in SearchType /\ search'.low = pivot + 1 /\ search'.high = search.high
        /\ search'.ref = search.ref /\ search'.stage = "metas"
    <3>1. pivot + 1 \in 0 .. NumBlocks + Size BY <1>3, <1>4, <1>6, SizeFacts
    <3>2. QED BY <1>1, <1>5, <2>1, <3>1 DEF SearchType
  <2>3. ASSUME NEW b \in Blocks, b < pivot + 1 PROVE metas[b].max < search.ref
    <3>1. b <= pivot BY <1>6, <1>8, <2>3
    <3>2. QED BY <1>5, <1>6, <1>8, <1>10, <3>1
  <2>4. MetasInv'
    <3>1. pivot + 1 \in 0 .. NumBlocks /\ pivot + 1 <= search.high + 1 /\ pivot = (pivot + 1) - 1
      BY <1>3, <1>4, <1>6
    <3>2. QED BY <1>3, <1>4, <1>7, <2>2, <2>3, <3>1 DEF MetasInv
  <2>5. BlockInv' BY <2>2 DEF BlockInv
  <2>6. QED BY <1>1, <1>2, <1>7, <2>2, <2>4, <2>5, SearchesOn
<1>11. CASE ~(search.ref < metas[pivot].min) /\ ~(search.ref > metas[pivot].max)
  <2>1. search' = InBlock(search.op, search.ref) BY <1>1, <1>11
  <2>2. metas[pivot].min <= search.ref /\ search.ref <= metas[pivot].max
    BY <1>5, <1>6, <1>8, <1>11
  <2>3. QED BY <1>1, <1>2, <1>5, <1>7, <2>1, <2>2, InBlockInv
<1>12. QED BY <1>9, <1>10, <1>11

\* The blocks next to the gap: those before low are below the reference, those from low
\* on above it; and the ones that count are near.
LEMMA GapScanInv ==
  ASSUME IInv, GapScan
  PROVE  IInv'
<1> USE SizeFacts
<1>1. /\ search # NoSearch /\ search.stage = "metas" /\ search.low > search.high
      /\ UNCHANGED <<mode, stored, current_i>>
  BY DEF GapScan
<1>2. mode = "r" BY <1>1 DEF IInv, ReadInv
<1>3. /\ Readable /\ nmsgs \in Nat \ {0} /\ NumBlocks \in Nat \ {0}
      /\ \A b \in Blocks : /\ metas[b].min = refs[FirstOf(b)] /\ metas[b].max = refs[LastOf(b)]
                           /\ metas[b].min \in Nat /\ metas[b].max \in Nat
  BY <1>2, StoredFacts
<1>4. PICK low \in 0 .. NumBlocks : low = search.low BY <1>1 DEF IInv, MetasInv
<1>5. PICK t \in Nat : t = search.ref
  BY <1>1, TargetsAssumption DEF IInv, TypeOK, SearchType
<1>6. search.op \in Ops BY <1>1 DEF IInv, TypeOK
<1>7. /\ \A b \in Blocks : b < low => metas[b].max < t
      /\ \A b \in Blocks : b >= low => metas[b].min > t
      /\ meta_block_i \in {low - 1, low}
  <2>1. search.high \in Int /\ search.high < low BY <1>1, <1>4 DEF IInv, MetasInv
  <2>2. \A b \in Blocks : b \in Int BY <1>3 DEF Blocks
  <2>3. \A b \in Blocks : b >= low => b > search.high BY <1>4, <2>1, <2>2
  <2>4. QED BY <1>1, <1>4, <1>5, <2>3 DEF IInv, MetasInv
<1>8. \A b \in NearBlocks : b \in Blocks BY DEF NearBlocks, Blocks
<1>9. \A b \in Blocks : b = low \/ b = low - 1 => b \in NearBlocks
  BY <1>3, <1>4, <1>7 DEF NearBlocks, Blocks
<1>10. \A b \in Blocks : b \in Int /\ metas[b].min <= metas[b].max
  BY <1>2, <1>3, MetasOrdered DEF Blocks
<1>11. CASE search.op = "ge"
  <2>1. \A b \in Blocks : Beyond(b) <=> metas[b].min > t BY <1>5, <1>11 DEF Beyond
  <2>2. \A b \in Blocks : Beyond(b) <=> b >= low
    <3>1. ASSUME NEW b \in Blocks, Beyond(b), b < low PROVE FALSE
      BY <1>3, <1>7, <1>10, <2>1, <3>1
    <3>2. QED BY <1>4, <1>7, <1>10, <2>1, <3>1
  <2>3. CASE low \in Blocks
    <3>1. ASSUME NEW b \in NearBlocks, Beyond(b), \A c \in NearBlocks : Beyond(c) => Nearer(b, c)
          PROVE  b = low
      <4>1. Beyond(low) /\ low \in NearBlocks BY <1>4, <1>9, <2>2, <2>3
      <4>2. b <= low BY <1>11, <3>1, <4>1 DEF Nearer
      <4>3. b >= low BY <1>8, <2>2, <3>1
      <4>4. QED BY <1>4, <1>8, <1>10, <4>2, <4>3
    <3>2. Beyond(low) /\ low \in NearBlocks BY <1>4, <1>9, <2>2, <2>3
    <3>3. LookAt(low) /\ Answered(metas[low].min) BY <1>11, <3>1, <3>2 DEF GapScan
    <3>4. GeRight(t, refs[FirstOf(low)])
      <4>1. FirstOf(low) \in Slots /\ (low = 0 => FirstOf(low) = 0) BY <1>3, <2>3, Bounds
      <4>2. low # 0 => refs[FirstOf(low) - 1] < t
        <5>1. SUFFICES ASSUME low # 0 PROVE refs[FirstOf(low) - 1] < t OBVIOUS
        <5>2. low - 1 \in Blocks /\ low - 1 # NumBlocks - 1 /\ (low - 1) + 1 = low /\ low - 1 < low
          BY <1>3, <1>4, <2>3, <5>1 DEF Blocks
        <5>3. FirstOf(low) = LastOf(low - 1) + 1 /\ LastOf(low - 1) \in Slots
          BY <1>3, <5>2, Bounds
        <5>4. FirstOf(low) - 1 = LastOf(low - 1) BY <5>3 DEF Slots
        <5>5. QED BY <1>3, <1>7, <5>2, <5>4
      <4>3. refs[FirstOf(low)] > t BY <1>3, <1>7, <1>4, <2>1, <2>3, <3>2
      <4>4. refs[FirstOf(low)] >= t BY <1>3, <2>3, <4>3
      <4>5. QED BY <1>3, <4>1, <4>2, <4>4, GeAt
    <3>5. metas[low].min = refs[FirstOf(low)] /\ metas[low].min \in Nat BY <1>3, <2>3
    <3>6. Looks BY <2>3, <3>3 DEF Looks
    <3>7. QED BY <1>1, <1>5, <1>11, <3>3, <3>4, <3>5, <3>6, Answers
  <2>4. CASE low \notin Blocks
    <3>1. low = NumBlocks BY <1>3, <1>4, <2>4 DEF Blocks
    <3>2. \A b \in Blocks : ~Beyond(b) BY <1>3, <2>2, <3>1 DEF Blocks
    <3>3. Answered(-1) /\ \E b \in NearBlocks : LookAt(b) BY <1>8, <3>2 DEF GapScan
    <3>4. GeRight(t, -1)
      <4>1. NumBlocks - 1 \in Blocks /\ NumBlocks - 1 < low BY <1>3, <3>1 DEF Blocks
      <4>2. LastOf(NumBlocks - 1) = nmsgs - 1 BY <1>3, Bounds
      <4>3. refs[nmsgs - 1] < t BY <1>3, <1>7, <4>1, <4>2
      <4>4. QED BY <1>3, <4>3, GeNone
    <3>5. Looks BY <1>8, <3>3 DEF Looks
    <3>6. QED BY <1>1, <1>5, <1>11, <3>3, <3>4, <3>5, Answers
  <2>5. QED BY <2>3, <2>4
<1>12. CASE search.op = "le"
  <2>1. \A b \in Blocks : Beyond(b) <=> metas[b].max < t BY <1>5, <1>12 DEF Beyond
  <2>2. \A b \in Blocks : Beyond(b) <=> b < low
    <3>1. ASSUME NEW b \in Blocks, Beyond(b), b >= low PROVE FALSE
      BY <1>3, <1>7, <1>10, <2>1, <3>1
    <3>2. QED BY <1>4, <1>7, <1>10, <2>1, <3>1
  <2>3. CASE low - 1 \in Blocks
    <3>0. low - 1 < low BY <1>4
    <3>1. Beyond(low - 1) /\ low - 1 \in NearBlocks BY <1>9, <2>2, <2>3, <3>0
    <3>2. ASSUME NEW b \in NearBlocks, Beyond(b), \A c \in NearBlocks : Beyond(c) => Nearer(b, c)
          PROVE  b = low - 1
      <4>1. b >= low - 1 BY <1>12, <3>1, <3>2 DEF Nearer
      <4>2. b < low BY <1>8, <2>2, <3>2
      <4>3. QED BY <1>4, <1>8, <1>10, <4>1, <4>2
    <3>3. LookAt(low - 1) /\ Answered(metas[low - 1].max) BY <1>12, <3>1, <3>2 DEF GapScan
    <3>4. LeRight(t, refs[LastOf(low - 1)])
      <4>1. LastOf(low - 1) \in Slots BY <1>3, <2>3, Bounds
      <4>2. low - 1 # NumBlocks - 1 => refs[LastOf(low - 1) + 1] > t
        <5>1. SUFFICES ASSUME low - 1 # NumBlocks - 1 PROVE refs[LastOf(low - 1) + 1] > t OBVIOUS
        <5>2. (low - 1) + 1 = low BY <1>4
        <5>3. FirstOf(low) = LastOf(low - 1) + 1 /\ low \in Blocks
          BY <1>3, <2>3, <5>1, <5>2, Bounds
        <5>4. metas[low].min > t BY <1>4, <1>7, <5>3
        <5>5. QED BY <1>3, <5>3, <5>4
      <4>3. low - 1 = NumBlocks - 1 => LastOf(low - 1) = nmsgs - 1 BY <1>3, Bounds
      <4>4. refs[LastOf(low - 1)] < t /\ refs[LastOf(low - 1)] \in Nat
        BY <1>3, <1>7, <2>3, <3>0
      <4>5. refs[LastOf(low - 1)] <= t BY <4>4
      <4>6. QED BY <1>3, <4>1, <4>2, <4>3, <4>5, LeAt
    <3>5. metas[low - 1].max = refs[LastOf(low - 1)] /\ metas[low - 1].max \in Nat BY <1>3, <2>3
    <3>6. Looks BY <2>3, <3>3 DEF Looks
    <3>7. QED BY <1>1, <1>5, <1>12, <3>3, <3>4, <3>5, <3>6, Answers
  <2>4. CASE low - 1 \notin Blocks
    <3>1. low = 0 BY <1>3, <1>4, <2>4 DEF Blocks
    <3>2. \A b \in Blocks : ~Beyond(b) BY <1>3, <2>2, <3>1 DEF Blocks
    <3>3. Answered(-1) /\ \E b \in NearBlocks : LookAt(b) BY <1>8, <3>2 DEF GapScan
    <3>4. LeRight(t, -1)
      <4>1. 0 \in Blocks /\ 0 >= low BY <1>3, <3>1 DEF Blocks
      <4>2. FirstOf(0) = 0 BY <1>3, <4>1, Bounds
      <4>3. refs[0] > t BY <1>3, <1>7, <4>1, <4>2
      <4>4. QED BY <1>3, <4>3, LeNone
    <3>5. Looks BY <1>8, <3>3 DEF Looks
    <3>6. QED BY <1>1, <1>5, <1>12, <3>3, <3>4, <3>5, Answers
  <2>5. QED BY <2>3, <2>4
<1>13. QED BY <1>6, <1>11, <1>12 DEF Ops

-----------------------------------------------------------------------------
(* Searching: within a block                                               *)

\* A search in a block: the reference lies between its first and its last.
LEMMA InBlockFacts ==
  ASSUME IInv, search # NoSearch, search.stage = "block"
  PROVE  /\ mode = "r" /\ Readable /\ nmsgs \in Nat \ {0} /\ NumBlocks \in Nat \ {0}
         /\ search.op \in Ops /\ search.ref \in Nat /\ search.ref \in Targets
         /\ meta_block_i \in Blocks
         /\ metas[meta_block_i].min = refs[FirstOf(meta_block_i)]
         /\ metas[meta_block_i].max = refs[LastOf(meta_block_i)]
         /\ refs[FirstOf(meta_block_i)] <= search.ref /\ search.ref <= refs[LastOf(meta_block_i)]
         /\ \A p : InThisBlock(p) = refs[FirstOf(meta_block_i) + p]
<1>1. mode = "r" BY DEF IInv, ReadInv
<1>2. search.op \in Ops /\ search.ref \in Nat /\ search.ref \in Targets
  BY TargetsAssumption DEF IInv, TypeOK
<1>3. meta_block_i \in Blocks BY <1>1 DEF IInv, CacheInv
<1>4. metas[meta_block_i].min <= search.ref /\ search.ref <= metas[meta_block_i].max
  BY DEF IInv, BlockInv
<1>5. \A p : InThisBlock(p) = refs[FirstOf(meta_block_i) + p] BY DEF InThisBlock, FirstOf
<1>6. QED BY <1>1, <1>2, <1>3, <1>4, <1>5, StoredFacts

\* The last block, up to the first stop.
LEMMA FirstStop ==
  ASSUME NEW stops \in SUBSET Nat, stops # {}
  PROVE  /\ FirstInLast(stops) \in stops
         /\ \A q \in stops : FirstInLast(stops) <= q
BY LeastNatural DEF FirstInLast

LEMMA LinearScanInv ==
  ASSUME IInv, LinearScan
  PROVE  IInv'
<1> USE SizeFacts
<1>1. /\ search # NoSearch /\ search.stage = "block" /\ LastBlock
      /\ UNCHANGED <<mode, stored, current_i>> /\ UNCHANGED block
      /\ Answered(IF search.op = "ge" THEN LinearGe(search.ref) ELSE LinearLe(search.ref))
  BY DEF LinearScan, block
<1>2. PICK f \in Slots, t \in Nat : f = FirstOf(meta_block_i) /\ t = search.ref
  BY <1>1, InBlockFacts, Bounds
<1>3. /\ Readable /\ nmsgs \in Nat \ {0} /\ NumBlocks \in Nat \ {0} /\ search.op \in Ops
      /\ refs[f] <= t /\ t <= refs[nmsgs - 1]
      /\ \A p : InThisBlock(p) = refs[f + p]
      /\ nmsgs - 1 \in Slots /\ nmsgs - 1 <= f + Size - 1
      /\ high_ref = refs[nmsgs - 1]
  <2>1. meta_block_i = NumBlocks - 1 BY <1>1 DEF LastBlock
  <2>2. LastOf(meta_block_i) = nmsgs - 1 BY <2>1 DEF LastOf
  <2>3. LastOf(meta_block_i) \in Slots /\ LastOf(meta_block_i) <= f + Size - 1
    BY <1>1, <1>2, InBlockFacts, Bounds
  <2>4. QED BY <1>1, <1>2, <2>2, <2>3, InBlockFacts, StoredFacts
<1>4. f \in Nat /\ f <= nmsgs - 1 BY <1>2, <1>3 DEF Slots
<1> DEFINE stops == {p \in LastSlots : InThisBlock(p) = high_ref \/ InThisBlock(p) >= t}
           k == FirstInLast(stops)
<1>5. \A p \in 0 .. Size - 1 : p \in LastSlots <=> f + p \in Slots
  BY <1>2, <1>3, <1>4 DEF LastSlots, FirstOf, Slots
<1>6. LastSlots \subseteq 0 .. Size - 1 BY DEF LastSlots
<1> HIDE DEF k
<1>7. stops \in SUBSET Nat /\ stops # {}
  <2>0. stops \subseteq LastSlots /\ 0 .. Size - 1 \subseteq Nat OBVIOUS
  <2>1. PICK p \in 0 .. Size - 1 : f + p = nmsgs - 1
    <3>1. nmsgs - 1 - f \in 0 .. Size - 1 /\ f + (nmsgs - 1 - f) = nmsgs - 1
      BY <1>3, <1>4
    <3>2. QED BY <3>1
  <2>2. p \in stops BY <1>3, <1>5, <2>1
  <2>3. stops \subseteq Nat
    <3> HIDE DEF stops
    <3>1. QED BY <1>6, <2>0
  <2>4. QED BY <2>2, <2>3
<1>8. k \in stops /\ \A q \in stops : k <= q
  <2> HIDE DEF stops
  <2>1. QED BY <1>7, FirstStop DEF k
<1>9. k \in 0 .. Size - 1 /\ k \in LastSlots /\ f + k \in Slots BY <1>5, <1>6, <1>8
<1>10. InThisBlock(k) = refs[f + k] /\ refs[f + k] >= t /\ refs[f + k] \in Nat
  BY <1>3, <1>8, <1>9 DEF Readable
<1>11. ASSUME k # 0
       PROVE  f + k - 1 \in Slots /\ refs[f + k - 1] < t /\ InThisBlock(k - 1) = refs[f + k - 1]
  <2>1. k - 1 \in 0 .. Size - 1 /\ f + (k - 1) = f + k - 1 BY <1>4, <1>9, <1>11
  <2>2. f + k - 1 \in Slots BY <1>3, <1>4, <1>9, <2>1 DEF Slots
  <2>3. k - 1 \in LastSlots BY <1>5, <2>1, <2>2
  <2>4. k - 1 \notin stops
    <3> HIDE DEF stops
    <3>1. QED BY <1>8, <1>9, <2>1
  <2>5. InThisBlock(k - 1) = refs[f + k - 1] BY <1>3, <2>1
  <2>6. ~(refs[f + k - 1] >= t) /\ refs[f + k - 1] \in Nat
    BY <1>3, <2>2, <2>3, <2>4, <2>5 DEF Readable
  <2>7. QED BY <2>2, <2>5, <2>6
<1>12. k = 0 => refs[f + k] = t
  <2>1. SUFFICES ASSUME k = 0 PROVE refs[f] = t BY <1>4
  <2>2. refs[f + 0] >= t /\ f + 0 = f BY <1>4, <1>10, <2>1
  <2>3. refs[f] \in Nat BY <1>3 DEF Readable
  <2>4. QED BY <1>3, <2>2, <2>3
<1>13. Looks BY <1>1 DEF Looks
<1>14. CASE search.op = "ge"
  <2>1. LinearGe(t) = refs[f + k] BY <1>10 DEF LinearGe, k
  <2>2. GeRight(t, refs[f + k])
    <3>1. refs[f + k] = t \/ refs[f + k - 1] < t BY <1>11, <1>12
    <3>2. PICK i \in Slots : i = f + k BY <1>9
    <3>3. i - 1 = f + k - 1 BY <1>4, <1>9, <3>2
    <3>4. refs[i] >= t /\ (refs[i] = t \/ refs[i - 1] < t) BY <1>10, <3>1, <3>2, <3>3
    <3>5. GeRight(t, refs[i]) BY <1>3, <3>4, GeAt
    <3>6. QED BY <3>2, <3>5
  <2>3. QED BY <1>1, <1>2, <1>10, <1>13, <1>14, <2>1, <2>2, Answers
<1>15. CASE search.op = "le"
  <2>1. stops = {q \in LastSlots : InThisBlock(q) >= t \/ InThisBlock(q) = high_ref} OBVIOUS
  <2>2. CASE refs[f + k] <= t
    <3>1. LinearLe(t) = refs[f + k] BY <1>10, <2>1, <2>2 DEF LinearLe, k
    <3>2. refs[f + k] = t BY <1>10, <2>2
    <3>3. LeRight(t, refs[f + k])
      <4>1. PICK i \in Slots : i = f + k BY <1>9
      <4>2. QED BY <1>3, <2>2, <3>2, <4>1, LeAt
    <3>4. QED BY <1>1, <1>2, <1>10, <1>13, <1>15, <3>1, <3>3, Answers
  <2>3. CASE ~(refs[f + k] <= t)
    <3>1. k # 0 BY <1>12, <2>3
    <3>2. LinearLe(t) = refs[f + k - 1] BY <1>10, <1>11, <2>1, <2>3, <3>1 DEF LinearLe, k
    <3>3. LeRight(t, refs[f + k - 1]) /\ refs[f + k - 1] \in Nat
      <4>1. PICK i \in Slots : i = f + k - 1 BY <1>11, <3>1
      <4>2. i + 1 = f + k BY <1>4, <1>9, <4>1
      <4>3. refs[i] < t /\ refs[i] \in Nat BY <1>3, <1>11, <3>1, <4>1 DEF Readable
      <4>4. refs[i] <= t /\ refs[i + 1] > t BY <1>10, <2>3, <4>2, <4>3
      <4>5. QED BY <1>3, <4>1, <4>4, LeAt
    <3>4. QED BY <1>1, <1>2, <1>13, <1>15, <3>2, <3>3, Answers
  <2>4. QED BY <2>2, <2>3
<1>16. QED BY <1>3, <1>14, <1>15 DEF Ops

\* A block that is not the last is full.
LEMMA FullBlock ==
  ASSUME IInv, search # NoSearch, search.stage = "block", ~LastBlock
  PROVE  \E f \in Slots :
           /\ f \in Nat /\ f = FirstOf(meta_block_i)
           /\ \A p \in 0 .. Size - 1 : /\ f + p \in Slots /\ InThisBlock(p) = refs[f + p]
                                       /\ InThisBlock(p) \in Nat
           /\ \A p, q \in 0 .. Size - 1 : p <= q => InThisBlock(p) <= InThisBlock(q)
           /\ InThisBlock(0) <= search.ref /\ search.ref <= InThisBlock(Size - 1)
<1> USE SizeFacts
<1>1. PICK f \in Slots : f = FirstOf(meta_block_i) BY InBlockFacts, Bounds
<1>2. /\ Readable /\ nmsgs \in Nat \ {0}
      /\ LastOf(meta_block_i) = f + Size - 1 /\ LastOf(meta_block_i) \in Slots
  BY <1>1, InBlockFacts, Bounds DEF LastBlock
<1>3. f \in Nat BY DEF Slots
<1>4. ASSUME NEW p \in 0 .. Size - 1
      PROVE  /\ f + p \in Slots /\ InThisBlock(p) = refs[f + p]
             /\ InThisBlock(p) \in Nat
  <2>1. f + p \in Slots BY <1>2, <1>3 DEF Slots
  <2>2. InThisBlock(p) = refs[f + p] BY <1>1, InBlockFacts
  <2>3. QED BY <1>2, <2>1, <2>2 DEF Readable
<1>5. ASSUME NEW p \in 0 .. Size - 1, NEW q \in 0 .. Size - 1, p <= q
      PROVE  InThisBlock(p) <= InThisBlock(q)
  <2>1. f + p <= f + q BY <1>3, <1>5
  <2>2. QED BY <1>2, <1>4, <2>1 DEF Readable
<1>6. InThisBlock(0) <= search.ref /\ search.ref <= InThisBlock(Size - 1)
  <2>1. 0 \in 0 .. Size - 1 /\ Size - 1 \in 0 .. Size - 1 /\ f + 0 = f /\ f + (Size - 1) = f + Size - 1
    BY <1>3
  <2>2. InThisBlock(0) = refs[f] /\ InThisBlock(Size - 1) = refs[LastOf(meta_block_i)]
    BY <1>2, <1>4, <2>1
  <2>3. QED BY <1>1, <2>2, InBlockFacts
<1>7. QED BY <1>1, <1>3, <1>4, <1>5, <1>6

\* One turn: the half that cannot hold the answer is left.
LEMMA BinStepInv ==
  ASSUME IInv, BinStep
  PROVE  IInv'
<1> USE SizeFacts
<1> DEFINE p == (search.high + search.low) \div 2
<1>1. /\ search # NoSearch /\ search.stage = "block" /\ ~LastBlock /\ search.low < search.high
      /\ InThisBlock(p) = search.ref => Answered(search.ref)
      /\ InThisBlock(p) # search.ref => search' = Narrowed(p) /\ UNCHANGED answer
      /\ UNCHANGED <<mode, stored, current_i>> /\ UNCHANGED block
  BY DEF BinStep, block
<1>2. /\ mode = "r" /\ Readable /\ nmsgs \in Nat \ {0} /\ NumBlocks \in Nat \ {0}
      /\ search.op \in Ops /\ search.ref \in Nat /\ search.ref \in Targets
  BY <1>1, InBlockFacts
<1>3. PICK f \in Slots :
           /\ f \in Nat /\ f = FirstOf(meta_block_i)
           /\ \A i \in 0 .. Size - 1 : /\ f + i \in Slots /\ InThisBlock(i) = refs[f + i]
                                       /\ InThisBlock(i) \in Nat
           /\ \A i, j \in 0 .. Size - 1 : i <= j => InThisBlock(i) <= InThisBlock(j)
           /\ InThisBlock(0) <= search.ref /\ search.ref <= InThisBlock(Size - 1)
  BY <1>1, FullBlock
<1>4. /\ search.low \in 0 .. Size - 1 /\ search.high \in 1 .. Size
      /\ \A i \in 0 .. Size - 1 : i < search.low => InThisBlock(i) < search.ref
      /\ \A i \in 0 .. Size - 1 : i >= search.high => InThisBlock(i) > search.ref
  BY <1>1 DEF IInv, BlockInv
<1>5. p \in 0 .. Size - 1 /\ search.low <= p /\ p < search.high BY <1>1, <1>4
<1>6. Looks BY <1>1 DEF Looks
<1>7. search \in SearchType BY <1>1 DEF IInv, TypeOK, SearchType
<1> HIDE DEF p
<1>8. InThisBlock(p) \in Nat BY <1>3, <1>5
<1>9. CASE InThisBlock(p) = search.ref
  <2>1. PICK k \in Slots : k = f + p BY <1>3, <1>5
  <2>2. refs[k] = search.ref BY <1>3, <1>5, <1>9, <2>1
  <2>3. GeRight(search.ref, search.ref) /\ LeRight(search.ref, search.ref)
    <3>1. refs[k] >= search.ref /\ refs[k] <= search.ref BY <1>2, <2>2
    <3>2. GeRight(search.ref, refs[k]) BY <1>2, <2>2, <3>1, GeAt
    <3>3. LeRight(search.ref, refs[k]) BY <1>2, <2>2, <3>1, LeAt
    <3>4. QED BY <2>2, <3>2, <3>3
  <2>4. Answered(search.ref) BY <1>1, <1>9
  <2>5. search.ref \in Nat \cup {-1} BY <1>2
  <2>6. QED BY <1>1, <1>6, <2>3, <2>4, <2>5, Answers
<1>10. CASE InThisBlock(p) # search.ref
  <2>1. search' = Narrowed(p) /\ answer' = NoAnswer BY <1>1, <1>10 DEF IInv, ReadInv
  <2>2. /\ metas' = metas /\ NumBlocks' = NumBlocks /\ meta_block_i' = meta_block_i
        /\ refs' = refs
    BY <1>1, <1>2, StoredKept DEF block
  <2>3. LastBlock' = LastBlock /\ \A i : InThisBlock(i)' = InThisBlock(i)
    BY <2>2 DEF LastBlock, InThisBlock
  <2>4. metas[meta_block_i].min <= search.ref /\ search.ref <= metas[meta_block_i].max
    BY <1>1 DEF IInv, BlockInv
  <2>5. CASE search.ref < InThisBlock(p)
    <3>1. p # 0 BY <1>2, <1>3, <1>8, <2>5
    <3>2. p \in 1 .. Size /\ p - 1 \in 0 .. Size - 1 /\ search.low <= p BY <1>5, <3>1
    <3>3. PICK v \in Nat : v = IF search.op = "ge" THEN InThisBlock(p) ELSE InThisBlock(p - 1)
      BY <1>3, <1>5, <3>2
    <3>4. search' = [search EXCEPT !.high = p, !.p_ref = v] BY <2>1, <2>5, <3>3 DEF Narrowed
    <3>5. /\ search'.low = search.low /\ search'.high = p /\ search'.p_ref = v
          /\ search'.ref = search.ref /\ search'.op = search.op /\ search'.stage = "block"
          /\ search' \in SearchType
      <4>1. p \in -1 .. NumBlocks + Size BY <1>2, <3>2
      <4>2. QED BY <1>1, <1>7, <3>4, <4>1 DEF SearchType
    <3>6. ASSUME NEW i \in 0 .. Size - 1, i >= p PROVE InThisBlock(i) > search.ref
      <4>1. InThisBlock(p) <= InThisBlock(i) /\ InThisBlock(i) \in Nat BY <1>3, <1>5, <3>6
      <4>2. QED BY <1>2, <1>8, <2>5, <4>1
    <3>7. BlockInv'
      <4>1. \/ search.op = "ge" /\ p < Size /\ v = InThisBlock(p)
            \/ search.op = "le" /\ v = InThisBlock(p - 1)
        BY <1>2, <1>5, <3>3 DEF Ops
      <4>2. \A i \in 0 .. Size - 1 : i < search.low => InThisBlock(i) < search.ref BY <1>4
      <4>3. search.low \in 0 .. Size - 1 BY <1>4
      <4>4. QED BY <2>2, <2>3, <2>4, <3>2, <3>5, <3>6, <4>1, <4>2, <4>3 DEF BlockInv
    <3>8. MetasInv' BY <3>5 DEF MetasInv
    <3>9. QED BY <1>1, <1>2, <1>6, <2>1, <3>5, <3>7, <3>8, SearchesOn
  <2>6. CASE ~(search.ref < InThisBlock(p))
    <3>1. p # Size - 1 /\ InThisBlock(p) < search.ref BY <1>2, <1>3, <1>8, <1>10, <2>6
    <3>2. p + 1 \in 1 .. Size - 1 /\ p + 1 \in 0 .. Size - 1 /\ p + 1 <= search.high /\ (p + 1) - 1 = p
      BY <1>4, <1>5, <3>1
    <3>3. PICK v \in Nat : v = IF search.op = "ge" THEN InThisBlock(p + 1) ELSE InThisBlock(p)
      BY <1>3, <1>5, <3>2
    <3>4. search' = [search EXCEPT !.low = p + 1, !.p_ref = v] BY <2>1, <2>6, <3>3 DEF Narrowed
    <3>5. /\ search'.low = p + 1 /\ search'.high = search.high /\ search'.p_ref = v
          /\ search'.ref = search.ref /\ search'.op = search.op /\ search'.stage = "block"
          /\ search' \in SearchType
      <4>1. p + 1 \in 0 .. NumBlocks + Size BY <1>2, <3>2
      <4>2. QED BY <1>1, <1>7, <3>4, <4>1 DEF SearchType
    <3>6. ASSUME NEW i \in 0 .. Size - 1, i < p + 1 PROVE InThisBlock(i) < search.ref
      <4>1. i <= p BY <1>5, <3>6
      <4>2. InThisBlock(i) <= InThisBlock(p) /\ InThisBlock(i) \in Nat BY <1>3, <1>5, <4>1
      <4>3. QED BY <1>2, <1>8, <3>1, <4>2
    <3>7. BlockInv'
      <4>1. \/ search.op = "ge" /\ v = InThisBlock(p + 1)
            \/ search.op = "le" /\ p + 1 > 0 /\ v = InThisBlock((p + 1) - 1)
        BY <1>2, <3>2, <3>3 DEF Ops
      <4>2. \A i \in 0 .. Size - 1 : i >= search.high => InThisBlock(i) > search.ref BY <1>4
      <4>3. search.high \in 1 .. Size BY <1>4
      <4>4. QED BY <2>2, <2>3, <2>4, <3>2, <3>5, <3>6, <4>1, <4>2, <4>3 DEF BlockInv
    <3>8. MetasInv' BY <3>5 DEF MetasInv
    <3>9. QED BY <1>1, <1>2, <1>6, <2>1, <3>5, <3>7, <3>8, SearchesOn
  <2>7. QED BY <2>5, <2>6
<1>11. QED BY <1>9, <1>10

LEMMA BinDoneInv ==
  ASSUME IInv, BinDone
  PROVE  IInv'
<1> USE SizeFacts
<1>1. /\ search # NoSearch /\ search.stage = "block" /\ ~LastBlock /\ search.low >= search.high
      /\ Answered(IF IF search.op = "ge" THEN search.ref > search.p_ref
                                         ELSE search.ref < search.p_ref
                    THEN -1 ELSE search.p_ref)
      /\ UNCHANGED <<mode, stored, current_i>> /\ UNCHANGED block
  BY DEF BinDone, block
<1>2. /\ mode = "r" /\ Readable /\ nmsgs \in Nat \ {0}
      /\ search.op \in Ops /\ search.ref \in Nat
  BY <1>1, InBlockFacts
<1>3. PICK f \in Slots :
           /\ f \in Nat /\ f = FirstOf(meta_block_i)
           /\ \A i \in 0 .. Size - 1 : /\ f + i \in Slots /\ InThisBlock(i) = refs[f + i]
                                       /\ InThisBlock(i) \in Nat
  BY <1>1, FullBlock
<1>4. /\ search.low \in 0 .. Size - 1 /\ search.high \in 1 .. Size /\ search.low <= search.high
      /\ \A i \in 0 .. Size - 1 : i < search.low => InThisBlock(i) < search.ref
      /\ \A i \in 0 .. Size - 1 : i >= search.high => InThisBlock(i) > search.ref
      /\ \/ search.low = 0 /\ search.high = Size
         \/ search.op = "ge" /\ search.p_ref = InThisBlock(search.low)
         \/ search.op = "ge" /\ search.high < Size /\ search.p_ref = InThisBlock(search.high)
         \/ search.op = "le" /\ search.low > 0 /\ search.p_ref = InThisBlock(search.low - 1)
         \/ search.op = "le" /\ search.p_ref = InThisBlock(search.high - 1)
  BY <1>1 DEF IInv, BlockInv
<1>5. PICK m \in 1 .. Size - 1 : m = search.low /\ m = search.high BY <1>1, <1>4
<1>6. m \in 0 .. Size - 1 /\ m - 1 \in 0 .. Size - 1 /\ m - 1 < m OBVIOUS
<1>7. /\ InThisBlock(m) > search.ref /\ InThisBlock(m - 1) < search.ref
      /\ InThisBlock(m) \in Nat /\ InThisBlock(m - 1) \in Nat
  BY <1>3, <1>4, <1>5, <1>6
<1>8. search.op = "ge" => search.p_ref = InThisBlock(m) BY <1>4, <1>5
<1>9. search.op = "le" => search.p_ref = InThisBlock(m - 1) BY <1>4, <1>5
<1>10. Looks BY <1>1 DEF Looks
<1>11. PICK k \in Slots : k = f + m BY <1>3, <1>6
<1>12. PICK j \in Slots : j = f + (m - 1) BY <1>3, <1>6
<1>13. InThisBlock(m) = refs[k] /\ InThisBlock(m - 1) = refs[j] BY <1>3, <1>6, <1>11, <1>12
<1>14. k - 1 = j /\ j + 1 = k BY <1>3, <1>11, <1>12
<1>15. CASE search.op = "ge"
  <2>1. Answered(refs[k]) BY <1>1, <1>2, <1>7, <1>8, <1>13, <1>15
  <2>2. GeRight(search.ref, refs[k])
    <3>1. refs[k] >= search.ref /\ refs[k - 1] < search.ref BY <1>2, <1>7, <1>13, <1>14
    <3>2. QED BY <1>2, <3>1, GeAt
  <2>3. refs[k] \in Nat \cup {-1} BY <1>7, <1>13
  <2>4. QED BY <1>1, <1>10, <1>15, <2>1, <2>2, <2>3, Answers
<1>16. CASE search.op = "le"
  <2>1. Answered(refs[j]) BY <1>1, <1>2, <1>7, <1>9, <1>13, <1>16
  <2>2. LeRight(search.ref, refs[j])
    <3>1. refs[j] <= search.ref /\ refs[j + 1] > search.ref BY <1>2, <1>7, <1>13, <1>14
    <3>2. QED BY <1>2, <3>1, LeAt
  <2>3. refs[j] \in Nat \cup {-1} BY <1>7, <1>13
  <2>4. QED BY <1>1, <1>10, <1>16, <2>1, <2>2, <2>3, Answers
<1>17. QED BY <1>2, <1>15, <1>16 DEF Ops

-----------------------------------------------------------------------------
(* The invariant                                                           *)

LEMMA StutterInv ==
  ASSUME IInv, UNCHANGED vars
  PROVE  IInv'
<1>1. /\ mode' = mode /\ nmsgs' = nmsgs /\ refs' = refs /\ metas' = metas
      /\ low_ref' = low_ref /\ high_ref' = high_ref /\ meta_block_i' = meta_block_i
      /\ current_block_ref_low' = current_block_ref_low
      /\ current_block_ref_high' = current_block_ref_high
      /\ current_i' = current_i /\ search' = search /\ answer' = answer
  BY DEF vars, stored, block
<1>2. NumBlocks' = NumBlocks /\ Slots' = Slots /\ Blocks' = Blocks BY <1>1, SameBlocks
<1>3. Written' = Written BY <1>1 DEF Written
<1>4. TypeOK' BY <1>1, <1>2 DEF IInv, TypeOK
<1>5. Sorted' /\ Taken' BY <1>1, <1>3 DEF IInv, Sorted, Taken
<1>6. WriteInv' BY <1>1 DEF IInv, WriteInv
<1>7. FileInv' BY <1>1, <1>2 DEF IInv, FileInv, MetasBound
<1>8. CacheInv' BY <1>1, <1>2 DEF IInv, CacheInv
<1>9. MetasInv' BY <1>1, <1>2 DEF IInv, MetasInv
<1>10. BlockInv'
  <2>1. LastBlock' = LastBlock /\ \A i : InThisBlock(i)' = InThisBlock(i)
    BY <1>1, <1>2 DEF LastBlock, InThisBlock
  <2>2. QED BY <1>1, <2>1 DEF IInv, BlockInv
<1>11. ReadInv' BY <1>1 DEF IInv, ReadInv
<1>12. GeExact' /\ LeExact' BY <1>1, <1>2 DEF IInv, GeExact, LeExact
<1>13. QED BY <1>4, <1>5, <1>6, <1>7, <1>8, <1>9, <1>10, <1>11, <1>12 DEF IInv

\* The invariant holds in every state.
THEOREM InvariantHolds == Spec => []IInv
<1>1. Init => IInv BY InitInv
<1>2. IInv /\ [Next]_vars => IInv'
  <2> SUFFICES ASSUME IInv, [Next]_vars PROVE IInv' OBVIOUS
  <2>1. CASE \E total \in Totals : SetupWrite(total) BY <2>1, SetupWriteInv
  <2>2. CASE \E value \in Refs : Write1(value) BY <2>2, Write1Inv
  <2>3. CASE CloseStream BY <2>3, CloseStreamInv
  <2>4. CASE SetupRead BY <2>4, SetupReadInv
  <2>5. CASE (\E i \in 0 .. nmsgs : Get(i)) \/ Next1 \/ Prev1 BY <2>5, CursorInv
  <2>6. CASE \E ref \in Targets : StartGe(ref) \/ StartLe(ref) BY <2>6, StartInv
  <2>7. CASE MetaStep BY <2>7, MetaStepInv
  <2>8. CASE GapScan BY <2>8, GapScanInv
  <2>9. CASE LinearScan BY <2>9, LinearScanInv
  <2>10. CASE BinStep BY <2>10, BinStepInv
  <2>11. CASE BinDone BY <2>11, BinDoneInv
  <2>12. CASE UNCHANGED vars BY <2>12, StutterInv
  <2>13. QED BY <2>1, <2>2, <2>3, <2>4, <2>5, <2>6, <2>7, <2>8, <2>9, <2>10, <2>11, <2>12 DEF Next
<1>3. QED BY <1>1, <1>2, PTL DEF Spec

\* The cursor stays between the sentinels at either end, and a search keeps its bounds
\* within the metas or the block it looks at.
THEOREM TypeCorrect == Spec => []TypeOK
BY InvariantHolds, PTL DEF IInv

\* A closed stream has the least and the greatest reference of every block beside it.
THEOREM MetasAreBounds == Spec => []MetasBound
<1>1. IInv => MetasBound BY DEF IInv, FileInv, MetasBound
<1>2. QED BY <1>1, InvariantHolds, PTL

\* ge_ref gives the least reference not below the one asked for, whatever was called
\* before, in streams of any length and blocks of any size.
THEOREM GeIsExact == Spec => []GeExact
BY InvariantHolds, PTL DEF IInv

\* And le_ref the greatest one not above it, also from a buffered block.
THEOREM LeIsExact == Spec => []LeExact
BY InvariantHolds, PTL DEF IInv

-----------------------------------------------------------------------------
(* The stream of references it implements                                  *)

Flow == [i \in 1 .. Written |-> refs[i - 1]]
Cursor == IF mode = "r" THEN current_i + 1 ELSE 0

LEMMA FlowIs ==
  ASSUME IInv
  PROVE  /\ Written \in Nat /\ Flow \in Seq(Nat) /\ Len(Flow) = Written
         /\ \A i \in 1 .. Written : i - 1 \in Slots /\ Flow[i] = refs[i - 1] /\ Flow[i] \in Refs
<1>1. nmsgs \in Nat /\ refs \in [Slots -> Nat] BY DEF IInv, TypeOK
<1>2. Written \in Nat /\ Written <= nmsgs
  <2>1. mode = "w" => current_i \in -1 .. nmsgs - 1 BY DEF IInv, WriteInv
  <2>2. QED BY <1>1, <2>1 DEF Written
<1>3. \A i \in 1 .. Written : i - 1 \in Slots /\ i - 1 \in 0 .. Written - 1
  BY <1>1, <1>2 DEF Slots
<1>4. \A i \in 1 .. Written : refs[i - 1] \in Nat /\ refs[i - 1] \in Refs
  BY <1>1, <1>3 DEF IInv, Taken
<1>5. Flow \in Seq(Nat) /\ Len(Flow) = Written BY <1>2, <1>4 DEF Flow
<1>6. \A i \in 1 .. Written : Flow[i] = refs[i - 1] BY DEF Flow
<1>7. QED BY <1>2, <1>3, <1>4, <1>5, <1>6

\* The least of the references not below t, and the greatest not above it.
LEMMA TheLeastGe ==
  ASSUME IInv, mode = "r", NEW t, NEW r, GeRight(t, r), r \in Nat \cup {-1}, t \in Nat
  PROVE  S!TheOne(S!LeastGe(t)) = r
<1> DEFINE F == S!Found({x \in Refs : x >= t})
<1>1. Written = nmsgs BY DEF Written
<1>2. /\ nmsgs \in Nat /\ Flow \in Seq(Nat) /\ Len(Flow) = nmsgs
      /\ \A i \in 1 .. nmsgs : i - 1 \in Slots /\ Flow[i] = refs[i - 1] /\ Flow[i] \in Refs
  BY <1>1, FlowIs
<1>3. F = {Flow[i] : i \in {k \in 1 .. nmsgs : Flow[k] >= t}}
  <2>1. F = {Flow[i] : i \in {k \in 1 .. Len(Flow) : Flow[k] \in {x \in Refs : x >= t}}}
    BY DEF S!Found, Flow
  <2>2. QED BY <1>2, <2>1
<1> HIDE DEF F
<1>4. \A i \in Slots : i + 1 \in 1 .. nmsgs /\ (i + 1) - 1 = i /\ Flow[i + 1] = refs[i]
  BY <1>2 DEF Slots
<1>5. \A x : x \in F <=> \E i \in Slots : refs[i] = x /\ refs[i] >= t
  <2>1. ASSUME NEW x \in F PROVE \E i \in Slots : refs[i] = x /\ refs[i] >= t
    <3>1. PICK k \in 1 .. nmsgs : x = Flow[k] /\ Flow[k] >= t BY <1>3
    <3>2. QED BY <1>2, <3>1
  <2>2. ASSUME NEW i \in Slots, refs[i] >= t PROVE refs[i] \in F BY <1>3, <1>4, <2>2
  <2>3. QED BY <2>1, <2>2
<1>6. S!LeastGe(t) = {x \in F : \A q \in F : x <= q} BY DEF S!LeastGe, F
<1>7. CASE r = -1
  <2>1. F = {}
    <3>1. ASSUME NEW i \in Slots, refs[i] >= t PROVE FALSE
      <4>1. refs[i] < t /\ refs[i] \in Nat BY <1>7 DEF GeRight, IInv, TypeOK
      <4>2. QED BY <3>1, <4>1
    <3>2. QED BY <1>5, <3>1
  <2>2. QED BY <1>6, <1>7, <2>1 DEF S!TheOne
<1>8. CASE r # -1
  <2>1. r \in F /\ \A q \in F : r <= q
    <3>1. /\ \E i \in Slots : refs[i] = r
          /\ r >= t
          /\ \A i \in Slots : refs[i] >= t => refs[i] >= r
      BY <1>8 DEF GeRight
    <3>2. \A i \in Slots : refs[i] \in Nat BY DEF IInv, TypeOK
    <3>3. QED BY <1>5, <1>8, <3>1, <3>2
  <2>2. \A x \in F : x \in Nat BY <1>5 DEF IInv, TypeOK
  <2>3. {x \in F : \A q \in F : x <= q} = {r}
    <3>1. ASSUME NEW x \in F, \A q \in F : x <= q PROVE x = r
      <4>1. x <= r /\ r <= x BY <2>1, <3>1
      <4>2. QED BY <2>1, <2>2, <4>1
    <3>2. QED BY <2>1, <3>1
  <2>4. QED BY <1>6, <2>3 DEF S!TheOne
<1>9. QED BY <1>7, <1>8

LEMMA TheGreatestLe ==
  ASSUME IInv, mode = "r", NEW t, NEW r, LeRight(t, r), r \in Nat \cup {-1}, t \in Nat
  PROVE  S!TheOne(S!GreatestLe(t)) = r
<1> DEFINE F == S!Found({x \in Refs : x <= t})
<1>1. Written = nmsgs BY DEF Written
<1>2. /\ nmsgs \in Nat /\ Flow \in Seq(Nat) /\ Len(Flow) = nmsgs
      /\ \A i \in 1 .. nmsgs : i - 1 \in Slots /\ Flow[i] = refs[i - 1] /\ Flow[i] \in Refs
  BY <1>1, FlowIs
<1>3. F = {Flow[i] : i \in {k \in 1 .. nmsgs : Flow[k] <= t}}
  <2>1. F = {Flow[i] : i \in {k \in 1 .. Len(Flow) : Flow[k] \in {x \in Refs : x <= t}}}
    BY DEF S!Found, Flow
  <2>2. QED BY <1>2, <2>1
<1> HIDE DEF F
<1>4. \A i \in Slots : i + 1 \in 1 .. nmsgs /\ (i + 1) - 1 = i /\ Flow[i + 1] = refs[i]
  BY <1>2 DEF Slots
<1>5. \A x : x \in F <=> \E i \in Slots : refs[i] = x /\ refs[i] <= t
  <2>1. ASSUME NEW x \in F PROVE \E i \in Slots : refs[i] = x /\ refs[i] <= t
    <3>1. PICK k \in 1 .. nmsgs : x = Flow[k] /\ Flow[k] <= t BY <1>3
    <3>2. QED BY <1>2, <3>1
  <2>2. ASSUME NEW i \in Slots, refs[i] <= t PROVE refs[i] \in F BY <1>3, <1>4, <2>2
  <2>3. QED BY <2>1, <2>2
<1>6. S!GreatestLe(t) = {x \in F : \A q \in F : x >= q} BY DEF S!GreatestLe, F
<1>7. CASE r = -1
  <2>1. F = {}
    <3>1. ASSUME NEW i \in Slots, refs[i] <= t PROVE FALSE
      <4>1. refs[i] > t /\ refs[i] \in Nat BY <1>7 DEF LeRight, IInv, TypeOK
      <4>2. QED BY <3>1, <4>1
    <3>2. QED BY <1>5, <3>1
  <2>2. QED BY <1>6, <1>7, <2>1 DEF S!TheOne
<1>8. CASE r # -1
  <2>1. r \in F /\ \A q \in F : r >= q
    <3>1. /\ \E i \in Slots : refs[i] = r
          /\ r <= t
          /\ \A i \in Slots : refs[i] <= t => refs[i] <= r
      BY <1>8 DEF LeRight
    <3>2. \A i \in Slots : refs[i] \in Nat BY DEF IInv, TypeOK
    <3>3. QED BY <1>5, <1>8, <3>1, <3>2
  <2>2. \A x \in F : x \in Nat BY <1>5 DEF IInv, TypeOK
  <2>3. {x \in F : \A q \in F : x >= q} = {r}
    <3>1. ASSUME NEW x \in F, \A q \in F : x >= q PROVE x = r
      <4>1. x >= r /\ r >= x BY <2>1, <3>1
      <4>2. QED BY <2>1, <2>2, <4>1
    <3>2. QED BY <2>1, <3>1
  <2>4. QED BY <1>6, <2>3 DEF S!TheOne
<1>9. QED BY <1>7, <1>8

\* A reader's step leaves the stream as it is.
LEMMA SameFlow ==
  ASSUME mode = "r", UNCHANGED <<mode, stored>>
  PROVE  Flow' = Flow /\ mode' = "r"
BY DEF Flow, Written, stored

LEMMA AnswerMaps ==
  ASSUME IInv, IInv', search # NoSearch, UNCHANGED <<mode, stored, current_i>>,
         NEW r, Answered(r)
  PROVE  S!Next
<1>1. mode = "r" BY DEF IInv, ReadInv
<1>2. Flow' = Flow /\ mode' = "r" /\ Cursor' = Cursor BY <1>1, SameFlow DEF Cursor
<1>3. PICK t \in Nat : t = search.ref /\ t \in Targets
  BY TargetsAssumption DEF IInv, TypeOK
<1>4. search.op \in Ops BY DEF IInv, TypeOK
<1>5. answer' = [op |-> search.op, arg |-> t, ref |-> r] BY <1>3 DEF Answered
<1>6. r \in Nat \cup {-1}
  <2>1. answer' \in {NoAnswer} \cup [op : {"get", "next", "prev"}, ref : Nat \cup {-1}]
                       \cup [op : Ops, arg : Targets, ref : Nat \cup {-1}]
    BY DEF IInv, TypeOK
  <2>2. answer'.op \in Ops /\ answer'.ref = r BY <1>4, <1>5
  <2>3. QED BY <2>1, <2>2 DEF NoAnswer, Ops
<1>7. Slots' = Slots /\ refs' = refs BY <1>1, StoredKept
<1>8. CASE search.op = "ge"
  <2>1. GeRight(t, r) BY <1>5, <1>7, <1>8 DEF IInv, GeExact, GeRight
  <2>2. S!TheOne(S!LeastGe(t)) = r BY <1>1, <1>6, <2>1, TheLeastGe
  <2>3. answer' = [op |-> "ge", arg |-> t, ref |-> S!TheOne(S!LeastGe(t))]
    BY <1>5, <1>8, <2>2
  <2>4. S!Ge BY <1>1, <1>2, <1>3, <2>3 DEF S!Ge, Flow, Cursor
  <2>5. QED BY <2>4 DEF S!Next
<1>9. CASE search.op = "le"
  <2>1. LeRight(t, r) BY <1>5, <1>7, <1>9 DEF IInv, LeExact, LeRight
  <2>2. S!TheOne(S!GreatestLe(t)) = r BY <1>1, <1>6, <2>1, TheGreatestLe
  <2>3. answer' = [op |-> "le", arg |-> t, ref |-> S!TheOne(S!GreatestLe(t))]
    BY <1>5, <1>9, <2>2
  <2>4. S!Le BY <1>1, <1>2, <1>3, <2>3 DEF S!Le, Flow, Cursor
  <2>5. QED BY <2>4 DEF S!Next
<1>10. QED BY <1>4, <1>8, <1>9 DEF Ops

LEMMA Write1Maps ==
  ASSUME IInv, IInv', NEW value \in Refs, Write1(value)
  PROVE  S!Store(value)
<1>1. /\ mode = "w" /\ mode' = "w" /\ nmsgs' = nmsgs /\ current_i + 1 < nmsgs
      /\ current_i >= 0 => value >= refs[current_i]
      /\ refs' = [refs EXCEPT ![current_i + 1] = value] /\ current_i' = current_i + 1
      /\ answer' = answer
  BY DEF Write1
<1>2. /\ current_i \in Int /\ current_i + 1 \in Slots /\ refs \in [Slots -> Nat]
  BY <1>1 DEF IInv, WriteInv, TypeOK, Slots
<1>3. PICK n \in Nat : n = current_i + 1 /\ Written = n /\ Written' = n + 1
  BY <1>1, <1>2 DEF Written, Slots
<1>4. /\ Flow \in Seq(Nat) /\ Len(Flow) = n
      /\ \A i \in 1 .. n : i - 1 \in Slots /\ Flow[i] = refs[i - 1]
  BY <1>3, FlowIs
<1>5. Flow' \in Seq(Nat) /\ Len(Flow') = n + 1 /\ \A i \in 1 .. n + 1 : Flow'[i] = refs'[i - 1]
  <2>1. (/\ Written \in Nat /\ Flow \in Seq(Nat) /\ Len(Flow) = Written
         /\ \A i \in 1 .. Written : i - 1 \in Slots /\ Flow[i] = refs[i - 1] /\ Flow[i] \in Refs)'
    BY FlowIs, PTL
  <2>2. QED BY <1>3, <2>1
<1>6. value \in Nat BY RefsAssumption
<1>7. Flow' = Append(Flow, value)
  <2>1. \A i \in 1 .. n : Flow'[i] = Flow[i]
    <3>1. \A i \in 1 .. n : i \in 1 .. n + 1 /\ i - 1 # current_i + 1 BY <1>3
    <3>2. QED BY <1>1, <1>2, <1>4, <1>5, <3>1
  <2>2. Flow'[n + 1] = value
    <3>1. n + 1 \in 1 .. n + 1 /\ (n + 1) - 1 = current_i + 1 BY <1>3
    <3>2. QED BY <1>1, <1>2, <1>5, <3>1
  <2>3. QED BY <1>4, <1>5, <1>6, <2>1, <2>2
<1>8. Len(Flow) > 0 => value >= Flow[Len(Flow)]
  <2>1. SUFFICES ASSUME n > 0 PROVE value >= Flow[n] BY <1>4
  <2>2. n \in 1 .. n /\ n - 1 = current_i /\ current_i >= 0 BY <1>2, <1>3, <2>1
  <2>3. QED BY <1>1, <1>4, <2>2
<1>9. Cursor = 0 /\ Cursor' = 0 BY <1>1 DEF Cursor
<1>10. QED BY <1>1, <1>7, <1>8, <1>9 DEF S!Store, Flow, Cursor

\* The cursor's steps: the position is one more than the index.
LEMMA CursorMaps ==
  ASSUME IInv, (\E i \in 0 .. nmsgs : Get(i)) \/ Next1 \/ Prev1
  PROVE  S!Next
<1>1. Idle /\ UNCHANGED <<mode, stored, block, search>> BY DEF Get, Next1, Prev1
<1>2. /\ mode = "r" /\ nmsgs \in Nat \ {0} /\ current_i \in -1 .. nmsgs
  BY <1>1 DEF IInv, TypeOK, WriteInv, Idle
<1>3. Flow' = Flow /\ mode' = "r" BY <1>1, <1>2, SameFlow
<1>4. Cursor = current_i + 1 /\ Cursor' = current_i' + 1 BY <1>2, <1>3 DEF Cursor
<1>5. /\ Len(Flow) = nmsgs
      /\ \A i \in Slots : i + 1 \in 1 .. nmsgs /\ Flow[i + 1] = refs[i]
  <2>1. Written = nmsgs BY <1>2 DEF Written
  <2>2. Len(Flow) = nmsgs /\ \A i \in 1 .. nmsgs : Flow[i] = refs[i - 1] BY <2>1, FlowIs
  <2>3. \A i \in Slots : i + 1 \in 1 .. nmsgs /\ (i + 1) - 1 = i BY <1>2 DEF Slots
  <2>4. QED BY <2>2, <2>3
<1>6. \A i : S!RefAt(i) = IF i \in 1 .. nmsgs THEN Flow[i] ELSE -1
  <2>1. ASSUME NEW i PROVE S!RefAt(i) = IF i \in 1 .. Len(Flow) THEN Flow[i] ELSE -1
    BY DEF S!RefAt, Flow
  <2>2. QED BY <1>5, <2>1
<1>7. ASSUME NEW i \in Slots, NEW op, Read(op, i) PROVE S!MoveTo(i + 1, op)
  <2>1. current_i' = i /\ answer' = [op |-> op, ref |-> refs[i]] BY <1>7 DEF Read
  <2>2. S!RefAt(i + 1) = refs[i] BY <1>5, <1>6
  <2>3. QED BY <1>2, <1>3, <1>4, <2>1, <2>2 DEF S!MoveTo, Flow, Cursor
<1>8. ASSUME NEW i \in 0 .. nmsgs, Get(i) PROVE S!Get \/ S!GetPast
  <2>1. CASE i < nmsgs
    <3>1. i \in Slots /\ Read("get", i) BY <1>2, <1>8, <2>1 DEF Get, Slots
    <3>2. S!MoveTo(i + 1, "get") /\ i + 1 \in 1 .. Len(Flow) BY <1>5, <1>7, <3>1
    <3>3. QED BY <1>2, <3>2 DEF S!Get, Flow
  <2>2. CASE ~(i < nmsgs)
    <3>1. current_i' = nmsgs /\ answer'.op = "get"
      <4>1. i = nmsgs BY <1>2, <2>2
      <4>2. QED BY <1>8, <2>2, <4>1 DEF Get
    <3>2. QED BY <1>2, <1>3, <1>4, <1>5, <3>1 DEF S!GetPast, Flow, Cursor
  <2>3. QED BY <2>1, <2>2
<1>9. ASSUME Next1 PROVE S!Next1
  <2>1. CASE current_i < nmsgs - 1
    <3>1. current_i + 1 \in Slots /\ Read("next", current_i + 1)
      BY <1>2, <1>9, <2>1 DEF Next1, Slots
    <3>2. S!MoveTo(current_i + 1 + 1, "next") BY <1>7, <3>1
    <3>3. ~(Cursor > Len(Flow)) BY <1>2, <1>4, <1>5, <2>1
    <3>4. QED BY <1>2, <1>4, <3>2, <3>3 DEF S!Next1, Flow, Cursor
  <2>2. CASE ~(current_i < nmsgs - 1)
    <3>1. current_i' = PastEnd /\ answer' = [op |-> "next", ref |-> -1]
      BY <1>9, <2>2 DEF Next1
    <3>2. Cursor' = (IF Cursor > Len(Flow) THEN Cursor ELSE Cursor + 1) /\ Cursor' > nmsgs
      BY <1>2, <1>4, <1>5, <2>2, <3>1 DEF PastEnd
    <3>3. S!RefAt(Cursor') = -1 BY <1>2, <1>6, <3>2
    <3>4. S!MoveTo(IF Cursor > Len(Flow) THEN Cursor ELSE Cursor + 1, "next")
      BY <1>2, <1>3, <3>1, <3>2, <3>3 DEF S!MoveTo, Flow, Cursor
    <3>5. QED BY <1>2, <3>4 DEF S!Next1, Flow, Cursor
  <2>3. QED BY <2>1, <2>2
<1>10. ASSUME Prev1 PROVE S!Prev1
  <2>1. CASE current_i > 0
    <3>1. current_i - 1 \in Slots /\ Read("prev", current_i - 1)
      BY <1>2, <1>10, <2>1 DEF Prev1, Slots
    <3>2. S!MoveTo(current_i - 1 + 1, "prev") BY <1>7, <3>1
    <3>3. ~(Cursor < 1) /\ current_i - 1 + 1 = Cursor - 1 BY <1>2, <1>4, <2>1
    <3>4. QED BY <1>2, <3>2, <3>3 DEF S!Prev1, Flow, Cursor
  <2>2. CASE ~(current_i > 0)
    <3>1. current_i' = (IF current_i = 0 THEN -1 ELSE current_i)
          /\ answer' = [op |-> "prev", ref |-> -1]
      BY <1>10, <2>2 DEF Prev1
    <3>2. Cursor' = (IF Cursor < 1 THEN Cursor ELSE Cursor - 1) /\ Cursor' < 1
      BY <1>2, <1>4, <2>2, <3>1
    <3>3. S!RefAt(Cursor') = -1 BY <1>2, <1>6, <3>2
    <3>4. S!MoveTo(IF Cursor < 1 THEN Cursor ELSE Cursor - 1, "prev")
      BY <1>2, <1>3, <3>1, <3>2, <3>3 DEF S!MoveTo, Flow, Cursor
    <3>5. QED BY <1>2, <3>4 DEF S!Prev1, Flow, Cursor
  <2>3. QED BY <2>1, <2>2
<1>11. QED BY <1>8, <1>9, <1>10 DEF S!Next

LEMMA NextMaps ==
  ASSUME IInv, IInv', [Next]_vars
  PROVE  [S!Next]_(S!vars)
<1>1. CASE UNCHANGED vars
  <2>1. UNCHANGED <<mode, nmsgs, refs, current_i, answer>> BY <1>1 DEF vars, stored
  <2>2. QED BY <2>1 DEF S!vars, Written
<1>2. ASSUME NEW total \in Totals, SetupWrite(total) PROVE UNCHANGED S!vars
  <2>1. /\ mode = "none" /\ mode' = "w" /\ current_i' = current_i /\ answer' = answer
        /\ current_i = -1 /\ nmsgs = 0
    BY <1>2 DEF SetupWrite, IInv, WriteInv
  <2>2. Written = 0 /\ Written' = 0 BY <2>1 DEF Written
  <2>3. Flow' = Flow BY <2>2 DEF Flow
  <2>4. Cursor' = Cursor BY <2>1 DEF Cursor
  <2>5. QED BY <2>1, <2>3, <2>4 DEF S!vars, Flow, Cursor
<1>3. ASSUME NEW value \in Refs, Write1(value) PROVE S!Next
  BY <1>3, Write1Maps DEF S!Next
<1>4. ASSUME CloseStream PROVE UNCHANGED S!vars
  <2>1. /\ mode = "w" /\ current_i = nmsgs - 1 /\ mode' = "closed" /\ nmsgs \in Nat
        /\ nmsgs' = nmsgs /\ refs' = refs /\ answer' = answer
    BY <1>4 DEF CloseStream, IInv, TypeOK
  <2>2. Written = nmsgs /\ Written' = nmsgs BY <2>1 DEF Written
  <2>3. Flow' = Flow /\ Cursor' = Cursor BY <2>1, <2>2 DEF Flow, Cursor
  <2>4. QED BY <2>1, <2>3 DEF S!vars, Flow, Cursor
<1>5. ASSUME SetupRead PROVE S!Next
  <2>1. /\ mode = "closed" /\ mode' = "r" /\ current_i' = -1
        /\ nmsgs' = nmsgs /\ refs' = refs /\ answer' = answer
    BY <1>5 DEF SetupRead, stored
  <2>2. Written = nmsgs /\ Written' = nmsgs BY <2>1 DEF Written
  <2>3. Flow' = Flow /\ Cursor' = 0 BY <2>1, <2>2 DEF Flow, Cursor
  <2>4. S!Ready BY <2>1, <2>3 DEF S!Ready, Flow, Cursor
  <2>5. QED BY <2>4 DEF S!Next
<1>6. CASE (\E i \in 0 .. nmsgs : Get(i)) \/ Next1 \/ Prev1 BY <1>6, CursorMaps
<1>7. ASSUME NEW ref \in Targets, StartGe(ref) \/ StartLe(ref) PROVE S!Next
  <2>1. mode = "r" /\ UNCHANGED <<mode, stored, current_i>> /\ answer' = NoAnswer
    BY <1>7 DEF StartGe, StartLe, Idle
  <2>2. Flow' = Flow /\ Cursor' = Cursor BY <2>1, SameFlow DEF Cursor
  <2>3. S!Forget BY <2>1, <2>2 DEF S!Forget, Flow, Cursor
  <2>4. QED BY <2>3 DEF S!Next
<1>8. ASSUME search # NoSearch, UNCHANGED <<mode, stored, current_i, answer>>
      PROVE  UNCHANGED S!vars
  <2>1. mode = "r" BY <1>8 DEF IInv, ReadInv
  <2>2. Flow' = Flow /\ Cursor' = Cursor BY <1>8, <2>1, SameFlow DEF Cursor
  <2>3. QED BY <1>8, <2>1, <2>2 DEF S!vars, Flow, Cursor
<1>9. CASE MetaStep BY <1>8, <1>9 DEF MetaStep
<1>10. CASE GapScan
  <2>1. search # NoSearch /\ UNCHANGED <<mode, stored, current_i>> /\ \E r : Answered(r)
    BY <1>10 DEF GapScan
  <2>2. QED BY <2>1, AnswerMaps
<1>11. CASE LinearScan
  <2>1. search # NoSearch /\ UNCHANGED <<mode, stored, current_i>> /\ \E r : Answered(r)
    BY <1>11 DEF LinearScan
  <2>2. QED BY <2>1, AnswerMaps
<1>12. CASE BinStep
  <2>1. search # NoSearch /\ UNCHANGED <<mode, stored, current_i>>
        /\ (UNCHANGED answer \/ \E r : Answered(r))
    BY <1>12 DEF BinStep
  <2>2. QED BY <1>8, <2>1, AnswerMaps
<1>13. CASE BinDone
  <2>1. search # NoSearch /\ UNCHANGED <<mode, stored, current_i>> /\ \E r : Answered(r)
    BY <1>13 DEF BinDone
  <2>2. QED BY <2>1, AnswerMaps
<1>14. QED
  BY <1>1, <1>2, <1>3, <1>4, <1>5, <1>6, <1>7, <1>9, <1>10, <1>11, <1>12, <1>13 DEF Next

LEMMA InitMaps == Init => S!Init
<1> SUFFICES ASSUME Init PROVE S!Init OBVIOUS
<1>1. mode = "none" /\ nmsgs = 0 /\ answer = NoAnswer BY DEF Init
<1>2. Written = 0 BY <1>1 DEF Written
<1>3. Flow = <<>> /\ Cursor = 0 BY <1>1, <1>2 DEF Flow, Cursor
<1>4. QED BY <1>1, <1>3 DEF S!Init, Flow, Cursor

\* The file, the metas and the two searches are a stored stream of references: what is
\* written is read in order, and a search tells the nearest and moves nothing.
THEOREM ImplementsStream == Spec => StreamSpec
<1>1. Spec => []IInv BY InvariantHolds
<1>2. IInv /\ IInv' /\ [Next]_vars => [S!Next]_(S!vars) BY NextMaps
<1>3. QED BY <1>1, <1>2, InitMaps, PTL DEF Spec, StreamSpec, S!Spec

=============================================================================
