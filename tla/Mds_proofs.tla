----------------------------- MODULE Mds_proofs -----------------------------
(***************************************************************************)
(* Proofs about Mds, for any size of a clump, any lengths of messages and  *)
(* any number of them that the index file stretched at set up has room     *)
(* for.                                                                    *)
(***************************************************************************)
EXTENDS Mds, DataLemmas

Message == [offset : Nat, size : Nat]

\* The messages that the blocks written have room for.
Room == Len(blocks) * Clump

\* The messages lie in the data file one behind the other.
MsgsInv ==
  /\ \A i \in DOMAIN msgs : msgs[i].size \in Sizes
  /\ msgs # <<>> => msgs[1].offset = 0
  /\ \A i \in 1 .. Len(msgs) - 1 : msgs[i + 1].offset = msgs[i].offset + msgs[i].size
  /\ dataOffset = IF msgs = <<>> THEN 0
                  ELSE msgs[Len(msgs)].offset + msgs[Len(msgs)].size

\* How many blocks there are: the writer's part clump is not among them; a process
\* that ended has lost it, or has written it and a block of zeros.
CountInv ==
  /\ Len(msgs) <= MaxMsgs
  /\ phase = "none" => msgs = <<>>
  /\ phase \in {"none", "w"} =>
       Len(msgs) = Room + num_in_clump /\ num_in_clump < Clump /\ msg_count = Len(msgs)
  /\ phase \notin {"none", "w"} =>
       \/ Room <= Len(msgs) /\ Len(msgs) < Room + Clump
       \/ Room - 2 * Clump < Len(msgs) /\ Len(msgs) < Room - Clump
  /\ phase \in {"flushed", "cut"} => Len(msgs) <= Room
  /\ phase \in {"w", "flushed", "cut"} => fileBlocks = Prealloc
  /\ phase # "none" => \/ fileBlocks = Prealloc
                       \/ fileBlocks = Len(blocks) /\ Len(msgs) <= Room
  /\ phase = "r" => fileBlocks > 0

\* What a block keeps: its messages packed, and zeros behind the last message.
Keeps(b) ==
  /\ blocks[b + 1].base =
       IF b * Clump < Len(msgs) THEN msgs[b * Clump + 1].offset % OffsetMod ELSE 0
  /\ \A s \in Slots :
       blocks[b + 1].sizes[s] =
         IF b * Clump + s < Len(msgs) THEN msgs[b * Clump + s + 1].size % SizeMod ELSE 0
BlocksInv == \A b \in 0 .. Len(blocks) - 1 : Keeps(b)

\* The clump in the making holds the messages behind those of the blocks.
ClumpInv ==
  phase = "w" => \A s \in 0 .. num_in_clump - 1 : index[s] = msgs[Room + s + 1]

\* A reader's clump is the block it says.
Entry(b, s) == [offset |-> OffsetIn(BlockAt(b))[s], size |-> BlockAt(b).sizes[s]]
CacheInv ==
  phase = "r" /\ num_in_clump # 0 =>
    /\ num_in_clump = NumDecoded(BlockAt(current_block_index))
    /\ \A s \in 0 .. num_in_clump - 1 : index[s] = Entry(current_block_index, s)

\* mds__get of a position, whatever came before.
Answer(i) ==
  IF i % Clump < NumDecoded(BlockAt(i \div Clump))
    THEN [index  |-> i,
          offset |-> OffsetIn(BlockAt(i \div Clump))[i % Clump],
          size   |-> BlockAt(i \div Clump).sizes[i % Clump]]
    ELSE [index |-> i, offset |-> 0, size |-> 0]
GotInv ==
  got # NoGet => phase \in {"r", "exited"} /\ got.index \in Nat /\ got = Answer(got.index)

\* mds__len of a reader, that has seen a block of zeros at the end.
LenInv ==
  /\ phase \in {"none", "flushed", "cut", "stored"} => len = NoLen
  /\ phase = "w" => len \in {NoLen, Len(msgs)}
  /\ phase = "r" /\ len # NoLen =>
       /\ BlockAt(fileBlocks - 1) = ZeroBlock
       /\ fileBlocks >= 2 =>
            len = (fileBlocks - 2) * Clump + NumDecoded(BlockAt(fileBlocks - 2))

IInv ==
  /\ TypeOK /\ MsgsInv /\ CountInv /\ BlocksInv
  /\ ClumpInv /\ CacheInv /\ GotInv /\ LenInv

-----------------------------------------------------------------------------

(***************************************************************************)
(* What decoding gives                                                     *)
(***************************************************************************)

LEMMA SlotsOf == Clump \in Nat \ {0} /\ 0 \in Slots /\ Slots \subseteq Nat
BY ClumpAssumption DEF Slots

\* Decoding ends at the first size that is 0, or with the clump.
LEMMA DecodedCount ==
  ASSUME NEW block \in Blocks
  PROVE  /\ NumDecoded(block) \in 0 .. Clump
         /\ \A s \in 0 .. NumDecoded(block) - 1 : block.sizes[s] # 0
         /\ NumDecoded(block) < Clump => block.sizes[NumDecoded(block)] = 0
<1> DEFINE P(n) == /\ \A s \in 0 .. n - 1 : block.sizes[s] # 0
                   /\ n < Clump => block.sizes[n] = 0
           zeros == {s \in 0 .. Clump - 1 : block.sizes[s] = 0}
<1>1. \E n \in 0 .. Clump : P(n)
  <2>1. CASE zeros = {}
    <3>1. P(Clump) BY <2>1, SlotsOf
    <3>2. QED BY <3>1, SlotsOf
  <2>2. CASE zeros # {}
    <3>1. zeros \in SUBSET Nat BY SlotsOf
    <3>2. PICK n \in zeros : \A s \in zeros : n <= s BY <2>2, <3>1, LeastNatural
    <3>3. P(n) BY <3>2, SlotsOf
    <3>4. QED BY <3>2, <3>3, SlotsOf
  <2>3. QED BY <2>1, <2>2
<1>2. NumDecoded(block) = CHOOSE n \in 0 .. Clump : P(n) BY DEF NumDecoded
<1> HIDE DEF P
<1>3. NumDecoded(block) \in 0 .. Clump /\ P(NumDecoded(block)) BY <1>1, <1>2
<1>4. QED BY <1>3 DEF P

\* The count is the only one of its kind.
LEMMA CountIs ==
  ASSUME NEW block \in Blocks, NEW n \in 0 .. Clump,
         \A s \in 0 .. n - 1 : block.sizes[s] # 0,
         n < Clump => block.sizes[n] = 0
  PROVE  NumDecoded(block) = n
<1> DEFINE m == NumDecoded(block)
<1>1. /\ m \in 0 .. Clump
      /\ \A s \in 0 .. m - 1 : block.sizes[s] # 0
      /\ m < Clump => block.sizes[m] = 0
  BY DecodedCount
<1> HIDE DEF m
<1>2. ~(m < n) BY <1>1, SlotsOf
<1>3. ~(n < m) BY <1>1, SlotsOf
<1>4. m = n BY <1>1, <1>2, <1>3, SlotsOf
<1>5. QED BY <1>4 DEF m

\* The offsets of a clump add up its sizes.
LEMMA OffsetsAddUp ==
  ASSUME NEW block \in Blocks
  PROVE  /\ OffsetIn(block) \in [Slots -> Nat]
         /\ OffsetIn(block)[0] = block.base
         /\ \A s \in 0 .. Clump - 2 :
              OffsetIn(block)[s + 1] = OffsetIn(block)[s] + block.sizes[s]
<1> DEFINE step == [p \in Nat \X Nat |->
                      p[1] + IF p[2] - 1 \in Slots THEN block.sizes[p[2] - 1] ELSE 0]
           Sums(g) == g = [s \in Slots |-> IF s = 0 THEN block.base
                                           ELSE g[s - 1] + block.sizes[s - 1]]
<1>1. block.base \in Nat /\ \A s \in Slots : block.sizes[s] \in Nat BY DEF Blocks
<1>2. step \in [Nat \X Nat -> Nat] BY <1>1, SlotsOf
<1>3. \A v \in Nat, s \in 0 .. Clump - 2 : step[<<v, s + 1>>] = v + block.sizes[s]
  BY <1>1, SlotsOf DEF Slots
<1> HIDE DEF step
<1> DEFINE a == block.base
<1>4. Recursion(Nat, a, step) BY <1>1, <1>2 DEF Recursion
<1> HIDE DEF a
<1>5. PICK f : Unfolds(f, Nat, a, step) BY <1>4, RecursionExists
<1>6. /\ f \in [Nat -> Nat] /\ f[0] = block.base
      /\ \A n \in Nat : f[n + 1] = step[<<f[n], n + 1>>]
  BY <1>5 DEF Unfolds, a
<1>7. \A s \in 0 .. Clump - 2 : f[s + 1] = f[s] + block.sizes[s]
  <2>1. TAKE s \in 0 .. Clump - 2
  <2>2. s \in Nat /\ f[s] \in Nat BY <1>6, SlotsOf
  <2>3. QED BY <1>3, <1>6, <2>2
<1>8. Sums([s \in Slots |-> f[s]])
  <2> DEFINE g == [s \in Slots |-> f[s]]
  <2>1. ASSUME NEW s \in Slots
        PROVE  g[s] = IF s = 0 THEN block.base ELSE g[s - 1] + block.sizes[s - 1]
    <3>1. CASE s = 0 BY <1>6, <3>1, SlotsOf
    <3>2. CASE s # 0
      <4>1. s - 1 \in 0 .. Clump - 2 /\ s - 1 \in Slots /\ (s - 1) + 1 = s
        BY <3>2, SlotsOf DEF Slots
      <4>2. f[s] = f[s - 1] + block.sizes[s - 1] BY <1>7, <4>1
      <4>3. QED BY <3>2, <4>1, <4>2
    <3>3. QED BY <3>1, <3>2
  <2>2. QED BY <2>1
<1>9. OffsetIn(block) = CHOOSE g : Sums(g) BY DEF OffsetIn
<1>10. Sums(OffsetIn(block))
  <2> HIDE DEF Sums
  <2>1. QED BY <1>8, <1>9
<1> DEFINE at == OffsetIn(block)
<1> HIDE DEF at
<1>11. at = [s \in Slots |-> IF s = 0 THEN block.base ELSE at[s - 1] + block.sizes[s - 1]]
  BY <1>10 DEF at
<1>12. at[0] = block.base BY <1>11, SlotsOf
<1>13. ASSUME NEW s \in 0 .. Clump - 2 PROVE at[s + 1] = at[s] + block.sizes[s]
  <2>1. s + 1 \in Slots /\ s + 1 # 0 /\ (s + 1) - 1 = s BY SlotsOf DEF Slots
  <2>2. QED BY <1>11, <2>1
<1>14. \A s \in Slots : at[s] \in Nat
  <2> DEFINE T == {s \in Slots : at[s] \in Nat}
  <2>1. 0 \in T BY <1>1, <1>12, SlotsOf
  <2>2. ASSUME NEW s \in 0 .. (Clump - 1) - 1, s \in T PROVE s + 1 \in T
    <3>1. s \in 0 .. Clump - 2 /\ s \in Slots /\ s + 1 \in Slots BY SlotsOf DEF Slots
    <3>2. at[s + 1] = at[s] + block.sizes[s] BY <1>13, <3>1
    <3>3. QED BY <1>1, <2>2, <3>1, <3>2
  <2> HIDE DEF T
  <2>3. Hereditary(T, 0, Clump - 1) BY <2>1, <2>2 DEF Hereditary
  <2>4. 0 .. (Clump - 1) \subseteq T BY <2>3, SlotsOf, IntervalInduction
  <2>5. QED BY <2>4 DEF T, Slots
<1>15. at \in [Slots -> Nat] BY <1>11, <1>14
<1>16. QED BY <1>12, <1>13, <1>15 DEF at

LEMMA BlockTypes ==
  /\ ZeroBlock \in Blocks
  /\ TypeOK => \A b \in Nat : BlockAt(b) \in Blocks
<1>1. ZeroBlock \in Blocks BY SlotsOf DEF ZeroBlock, Blocks
<1>2. ASSUME TypeOK, NEW b \in Nat PROVE BlockAt(b) \in Blocks
  <2>1. blocks \in Seq(Blocks) BY <1>2 DEF TypeOK
  <2>2. CASE b < Len(blocks)
    <3>1. b + 1 \in 1 .. Len(blocks) BY <2>1, <2>2
    <3>2. blocks[b + 1] \in Blocks BY <2>1, <3>1
    <3>3. QED BY <2>2, <3>2 DEF BlockAt
  <2>3. CASE ~(b < Len(blocks)) BY <1>1, <2>3 DEF BlockAt
  <2>4. QED BY <2>2, <2>3
<1>3. QED BY <1>1, <1>2

LEMMA ZeroBlockEmpty == NumDecoded(ZeroBlock) = 0 /\ \A s \in Slots : ZeroBlock.sizes[s] = 0
<1>1. \A s \in Slots : ZeroBlock.sizes[s] = 0 BY DEF ZeroBlock
<1>2. NumDecoded(ZeroBlock) = 0 BY <1>1, BlockTypes, CountIs, SlotsOf
<1>3. QED BY <1>1, <1>2

LEMMA RoomIsNat == TypeOK => Len(blocks) \in Nat /\ Room \in Nat /\ Len(msgs) \in Nat
<1>1. SUFFICES ASSUME TypeOK PROVE Len(blocks) \in Nat /\ Len(msgs) \in Nat /\ Room \in Nat
  OBVIOUS
<1>2. Len(blocks) \in Nat /\ Len(msgs) \in Nat BY <1>1 DEF TypeOK
<1>3. QED BY <1>2, BlocksOrdered, SlotsOf DEF Room

\* A block with the offset of its first message and the sizes of those before s
\* gives the offset of the message in slot s.
LEMMA OffsetExact ==
  ASSUME TypeOK, MsgsInv, NEW block \in Blocks, NEW b \in Nat, NEW s \in Slots,
         b * Clump + s < Len(msgs),
         block.base = msgs[b * Clump + 1].offset,
         \A j \in 0 .. s - 1 : block.sizes[j] = msgs[b * Clump + j + 1].size
  PROVE  OffsetIn(block)[s] = msgs[b * Clump + s + 1].offset
<1> DEFINE B == b * Clump
           at == OffsetIn(block)
           T == {j \in 0 .. s : at[j] = msgs[B + j + 1].offset}
<1>1. B \in Nat /\ s \in Nat /\ s < Clump BY BlocksOrdered, SlotsOf DEF Slots
<1>2. msgs \in Seq(Message) BY DEF TypeOK, Message
<1> HIDE DEF B, at
<1>3. 0 \in T
  <2>1. at[0] = block.base BY OffsetsAddUp DEF at
  <2>2. block.base = msgs[B + 0 + 1].offset BY <1>1 DEF B
  <2>3. QED BY <1>1, <2>1, <2>2
<1>4. ASSUME NEW j \in 0 .. s - 1, j \in T PROVE j + 1 \in T
  <2>1. j \in 0 .. Clump - 2 /\ j \in Nat BY <1>1, SlotsOf
  <2>2. at[j + 1] = at[j] + block.sizes[j] BY <2>1, OffsetsAddUp DEF at
  <2>3. B + j + 1 \in 1 .. Len(msgs) - 1 BY <1>1, <1>2, <2>1 DEF B
  <2>4. msgs[B + j + 1 + 1].offset = msgs[B + j + 1].offset + msgs[B + j + 1].size
    BY <2>3 DEF MsgsInv
  <2>5. B + j + 1 + 1 = B + (j + 1) + 1 BY <1>1, <2>1
  <2>6. block.sizes[j] = msgs[B + j + 1].size BY DEF B
  <2>7. at[j + 1] = msgs[B + (j + 1) + 1].offset BY <1>4, <2>2, <2>4, <2>5, <2>6
  <2>8. j + 1 \in 0 .. s BY <1>1
  <2>9. QED BY <2>7, <2>8
<1> HIDE DEF T
<1>5. Hereditary(T, 0, s) BY <1>3, <1>4 DEF Hereditary
<1>6. 0 .. s \subseteq T BY <1>1, <1>5, IntervalInduction
<1>7. s \in T BY <1>1, <1>6
<1>8. QED BY <1>7 DEF T, B, at

-----------------------------------------------------------------------------

(***************************************************************************)
(* The invariant                                                           *)
(***************************************************************************)

LEMMA InitIInv == Init => IInv
<1>1. SUFFICES ASSUME Init PROVE IInv OBVIOUS
<1>2. msgs = <<>> /\ blocks = <<>> /\ Len(msgs) = 0 /\ Len(blocks) = 0 /\ Room = 0
  BY <1>1, SlotsOf DEF Init, Room
<1>3. TypeOK
  <2>1. index \in [Slots -> [offset : Nat \cup {Garbage}, size : Nat \cup {Garbage}]]
    BY <1>1 DEF Init, NewClump
  <2>2. got \in [index : Nat \cup {-1}, offset : Nat, size : Nat] BY <1>1 DEF Init, NoGet
  <2>3. len \in Int BY <1>1, SlotsOf DEF Init, NoLen
  <2>4. num_in_clump \in 0 .. (IF phase = "w" THEN Clump - 1 ELSE Clump)
    BY <1>1, SlotsOf DEF Init
  <2>5. blocks \in Seq(Blocks) /\ msgs \in Seq([offset : Nat, size : Nat]) BY <1>2
  <2>6. QED BY <1>1, <2>1, <2>2, <2>3, <2>4, <2>5 DEF Init, TypeOK
<1>4. MsgsInv /\ BlocksInv BY <1>1, <1>2 DEF Init, MsgsInv, BlocksInv
<1>5. CountInv BY <1>1, <1>2, SlotsOf, MsgsAssumption DEF Init, CountInv
<1>6. ClumpInv /\ CacheInv /\ GotInv /\ LenInv
  BY <1>1 DEF Init, ClumpInv, CacheInv, GotInv, LenInv
<1>7. QED BY <1>3, <1>4, <1>5, <1>6 DEF IInv

\* What is read of the blocks stays while they do.
LEMMA SameBlocks ==
  ASSUME blocks' = blocks
  PROVE  /\ \A b : BlockAt(b)' = BlockAt(b)
         /\ \A b, s : Entry(b, s)' = Entry(b, s)
         /\ \A i : Answer(i)' = Answer(i)
         /\ Room' = Room
BY DEF BlockAt, Entry, Answer, NumDecoded, OffsetIn, Room

LEMMA SameFiles ==
  ASSUME MsgsInv, BlocksInv, UNCHANGED <<blocks, msgs, dataOffset>>
  PROVE  MsgsInv' /\ BlocksInv'
BY DEF MsgsInv, BlocksInv, Keeps

LEMMA SetupWriteStep == IInv /\ SetupWrite => IInv'
<1>1. SUFFICES ASSUME IInv, SetupWrite PROVE IInv' OBVIOUS
<1> USE <1>1 DEF IInv, SetupWrite, cache
<1>2. TypeOK' BY SlotsOf, BlocksAssumption DEF TypeOK, CountInv
<1>3. MsgsInv' /\ BlocksInv' BY SameFiles
<1>4. CountInv' BY SameBlocks DEF CountInv
<1>5. Room = 0 /\ num_in_clump = 0
  <2>1. msgs = <<>> /\ 0 = Room + num_in_clump BY DEF CountInv
  <2>2. num_in_clump \in Nat BY DEF TypeOK
  <2>3. QED BY <2>1, <2>2, RoomIsNat
<1>6. ClumpInv' BY <1>5 DEF ClumpInv
<1>7. CacheInv' /\ GotInv' BY DEF CacheInv, GotInv
<1>8. LenInv' BY DEF LenInv
<1>9. QED BY <1>2, <1>3, <1>4, <1>6, <1>7, <1>8 DEF IInv

LEMMA CutDataStep == IInv /\ CutData => IInv'
<1>1. SUFFICES ASSUME IInv, CutData PROVE IInv' OBVIOUS
<1> USE <1>1 DEF IInv, CutData, cache
<1>2. TypeOK' BY DEF TypeOK
<1>3. MsgsInv' /\ BlocksInv' BY SameFiles
<1>4. CountInv' BY SameBlocks DEF CountInv
<1>5. ClumpInv' /\ CacheInv' /\ GotInv' BY DEF ClumpInv, CacheInv, GotInv
<1>6. LenInv' BY DEF LenInv
<1>7. QED BY <1>2, <1>3, <1>4, <1>5, <1>6 DEF IInv

LEMMA CutIndexStep == IInv /\ CutIndex => IInv'
<1>1. SUFFICES ASSUME IInv, CutIndex PROVE IInv' OBVIOUS
<1> USE <1>1 DEF IInv, CutIndex, cache
<1>2. TypeOK' BY RoomIsNat DEF TypeOK
<1>3. MsgsInv' /\ BlocksInv' BY SameFiles
<1>4. CountInv' BY SameBlocks DEF CountInv
<1>5. ClumpInv' /\ CacheInv' /\ GotInv' BY DEF ClumpInv, CacheInv, GotInv
<1>6. LenInv' BY DEF LenInv
<1>7. QED BY <1>2, <1>3, <1>4, <1>5, <1>6 DEF IInv

LEMMA CrashStep == IInv /\ Crash => IInv'
<1>1. SUFFICES ASSUME IInv, Crash PROVE IInv' OBVIOUS
<1> USE <1>1 DEF IInv, Crash, cache, writer
<1>2. TypeOK'
  <2>1. len' \in Int BY SlotsOf DEF NoLen
  <2>2. num_in_clump' \in 0 .. Clump BY SlotsOf DEF TypeOK
  <2>3. QED BY <2>1, <2>2 DEF TypeOK
<1>3. MsgsInv' /\ BlocksInv' BY SameFiles
<1>4. CountInv'
  <2>1. Room' = Room BY SameBlocks
  <2>2. num_in_clump \in Nat BY DEF TypeOK
  <2>3. phase = "w" => Room <= Len(msgs) /\ Len(msgs) < Room + Clump
    BY <2>2, RoomIsNat, SlotsOf DEF CountInv
  <2>4. QED BY <2>1, <2>3 DEF CountInv
<1>5. ClumpInv' /\ CacheInv' /\ GotInv' BY DEF ClumpInv, CacheInv, GotInv
<1>6. LenInv' BY DEF LenInv
<1>7. QED BY <1>2, <1>3, <1>4, <1>5, <1>6 DEF IInv

-----------------------------------------------------------------------------

(***************************************************************************)
(* Appending and flushing                                                  *)
(***************************************************************************)

Entries == [offset : Nat \cup {Garbage}, size : Nat \cup {Garbage}]

LEMMA EncodeType ==
  ASSUME NEW clump \in [Slots -> Entries]
  PROVE  /\ Encode(clump) \in Blocks
         /\ Encode(clump).base = clump[0].offset % OffsetMod
         /\ \A s \in Slots : Encode(clump).sizes[s] = clump[s].size % SizeMod
<1>1. \A x \in Nat \cup {Garbage} : x % OffsetMod \in Nat /\ x % SizeMod \in Nat
  BY ModAssumption DEF Garbage
<1>2. clump[0].offset \in Nat \cup {Garbage} BY SlotsOf DEF Entries
<1>3. \A s \in Slots : clump[s].size \in Nat \cup {Garbage} BY DEF Entries
<1>4. QED BY <1>1, <1>2, <1>3 DEF Encode, Blocks

\* A block written before holds none but messages that are there.
LEMMA BlockWithin ==
  ASSUME TypeOK, Room <= Len(msgs), NEW b \in 0 .. Len(blocks) - 1
  PROVE  /\ b * Clump \in Nat /\ b * Clump < Len(msgs)
         /\ \A s \in Slots : b * Clump + s \in Nat /\ b * Clump + s < Len(msgs)
<1>1. Len(blocks) \in Nat /\ Room \in Nat /\ Len(msgs) \in Nat /\ b \in Nat BY RoomIsNat
<1>2. /\ b * Clump \in Nat /\ (b + 1) * Clump <= Room
      /\ (b + 1) * Clump = b * Clump + Clump
  BY <1>1, BlocksOrdered, SlotsOf DEF Room
<1>3. QED BY <1>1, <1>2, SlotsOf DEF Slots

LEMMA Append1Step == ASSUME NEW size \in Sizes PROVE IInv /\ Append1(size) => IInv'
<1>1. SUFFICES ASSUME IInv, Append1(size) PROVE IInv' OBVIOUS
<1> DEFINE n == Len(msgs)
           m == [offset |-> dataOffset, size |-> size]
           clump == [index EXCEPT ![num_in_clump] = m]
           full == num_in_clump + 1 >= Clump
<1>2. /\ TypeOK /\ MsgsInv /\ CountInv /\ BlocksInv /\ ClumpInv
      /\ phase = "w" /\ phase' = "w" /\ n < MaxMsgs
      /\ index' = clump /\ msgs' = Append(msgs, m)
      /\ dataOffset' = dataOffset + size /\ msg_count' = msg_count + 1
      /\ full => blocks' = Append(blocks, Encode(clump)) /\ num_in_clump' = 0
      /\ ~full => blocks' = blocks /\ num_in_clump' = num_in_clump + 1
      /\ len' = NoLen
      /\ UNCHANGED <<current_block_index, dataCut, fileBlocks, got>>
  BY <1>1 DEF IInv, Append1, ClumpFull, AfterFlush
<1>3. /\ n \in Nat /\ Room \in Nat /\ Len(blocks) \in Nat
      /\ num_in_clump \in Slots /\ num_in_clump \in Nat /\ n = Room + num_in_clump
      /\ size \in Nat /\ dataOffset \in Nat /\ m \in Message /\ msgs \in Seq(Message)
      /\ Room <= Len(msgs)
  BY <1>2, RoomIsNat, SlotsOf, SizesAssumption DEF TypeOK, CountInv, Message, Slots
<1> HIDE DEF m
<1>4. /\ msgs' \in Seq(Message) /\ Len(msgs') = n + 1 /\ msgs'[n + 1] = m
      /\ \A i \in 1 .. n : msgs'[i] = msgs[i]
  BY <1>2, <1>3
<1>5. clump \in [Slots -> Entries] /\ index \in [Slots -> Entries]
  BY <1>2, <1>3 DEF TypeOK, Entries, Message
<1>6. \A s \in 0 .. num_in_clump : clump[s] = msgs'[Room + s + 1]
  <2>1. TAKE s \in 0 .. num_in_clump
  <2>2. CASE s = num_in_clump
    <3>1. clump[s] = m BY <1>3, <1>5, <2>2 DEF TypeOK
    <3>2. Room + s + 1 = n + 1 BY <1>3, <2>2
    <3>3. QED BY <1>4, <3>1, <3>2
  <2>3. CASE s # num_in_clump
    <3>1. s \in 0 .. num_in_clump - 1 /\ s \in Slots BY <1>3, <2>3, SlotsOf DEF Slots
    <3>2. clump[s] = index[s] /\ index[s] = msgs[Room + s + 1]
      BY <1>2, <1>5, <2>3, <3>1 DEF ClumpInv
    <3>3. Room + s + 1 \in 1 .. n BY <1>3, <3>1
    <3>4. QED BY <1>4, <3>2, <3>3
  <2>4. QED BY <2>2, <2>3
<1> HIDE DEF clump
<1>7. full => num_in_clump = Clump - 1 BY <1>3, SlotsOf DEF Slots
<1>8. TypeOK'
  <2>1. blocks' \in Seq(Blocks)
    <3>1. Encode(clump) \in Blocks /\ blocks \in Seq(Blocks)
      BY <1>2, <1>5, EncodeType DEF TypeOK
    <3>2. Append(blocks, Encode(clump)) \in Seq(Blocks) BY <3>1, AppendIs
    <3> HIDE DEF full
    <3>3. blocks' = blocks \/ blocks' = Append(blocks, Encode(clump)) BY <1>2
    <3>4. QED BY <3>1, <3>2, <3>3
  <2>2. num_in_clump' \in 0 .. Clump - 1 BY <1>2, <1>3, SlotsOf
  <2>3. index' \in [Slots -> [offset : Nat \cup {Garbage}, size : Nat \cup {Garbage}]]
    BY <1>2, <1>5 DEF Entries
  <2>4. msg_count' \in Nat /\ dataOffset' \in Nat /\ len' \in Int
    BY <1>2, <1>3, SlotsOf DEF TypeOK, NoLen
  <2>5. msgs' \in Seq([offset : Nat, size : Nat]) BY <1>4 DEF Message
  <2>6. QED BY <1>2, <2>1, <2>2, <2>3, <2>4, <2>5 DEF TypeOK
<1>9. MsgsInv'
  <2>1. msgs # <<>> <=> n # 0 BY <1>3
  <2>2. ASSUME NEW i \in DOMAIN msgs' PROVE msgs'[i].size \in Sizes
    BY <1>2, <1>3, <1>4 DEF MsgsInv, m
  <2>3. msgs' # <<>> /\ msgs'[1].offset = 0
    <3>1. CASE n = 0
      <4>1. msgs = <<>> /\ msgs'[1] = m BY <1>3, <1>4, <2>1, <3>1
      <4>2. QED BY <1>2, <1>4, <4>1 DEF MsgsInv, m
    <3>2. CASE n # 0
      <4>1. 1 \in 1 .. n /\ msgs'[1] = msgs[1] BY <1>3, <1>4, <3>2
      <4>2. QED BY <1>2, <1>4, <2>1, <3>2, <4>1 DEF MsgsInv
    <3>3. QED BY <3>1, <3>2
  <2>4. ASSUME NEW i \in 1 .. Len(msgs') - 1
        PROVE  msgs'[i + 1].offset = msgs'[i].offset + msgs'[i].size
    <3>1. CASE i = n
      <4>1. n \in 1 .. n /\ n # 0 /\ msgs'[i] = msgs[n] BY <1>3, <1>4, <3>1
      <4>2. dataOffset = msgs[n].offset + msgs[n].size BY <1>2, <2>1, <4>1 DEF MsgsInv
      <4>3. msgs'[i + 1].offset = dataOffset BY <1>4, <3>1 DEF m
      <4>4. QED BY <4>1, <4>2, <4>3
    <3>2. CASE i # n
      <4>1. i \in 1 .. n - 1 /\ i \in 1 .. n /\ i + 1 \in 1 .. n BY <1>3, <1>4, <3>2
      <4>2. msgs[i + 1].offset = msgs[i].offset + msgs[i].size BY <1>2, <4>1 DEF MsgsInv
      <4>3. QED BY <1>4, <4>1, <4>2
    <3>3. QED BY <3>1, <3>2
  <2>5. dataOffset' = msgs'[Len(msgs')].offset + msgs'[Len(msgs')].size
    BY <1>2, <1>3, <1>4 DEF m
  <2>6. QED BY <2>2, <2>3, <2>4, <2>5 DEF MsgsInv
<1>10. Room' = (IF full THEN Room + Clump ELSE Room)
  <2>1. full => Len(blocks') = Len(blocks) + 1 BY <1>2, <1>3 DEF TypeOK
  <2>2. (Len(blocks) + 1) * Clump = Len(blocks) * Clump + Clump
    BY <1>3, BlocksOrdered, SlotsOf
  <2>3. QED BY <1>2, <2>1, <2>2 DEF Room
<1>11. CountInv'
  <2>1. /\ Len(msgs') = Room' + num_in_clump' /\ num_in_clump' < Clump
        /\ msg_count' = Len(msgs')
    <3>1. msg_count' = Len(msgs') BY <1>2, <1>3, <1>4 DEF CountInv
    <3>2. /\ Len(msgs') = Room + num_in_clump + 1
          /\ Room \in Nat /\ num_in_clump \in Nat /\ Clump \in Nat \ {0}
      BY <1>3, <1>4, SlotsOf
    <3>3. CASE full
      <4>1. num_in_clump' = 0 /\ Room' = Room + Clump /\ num_in_clump = Clump - 1
        BY <1>2, <1>7, <1>10, <3>3
      <4>2. QED BY <3>1, <3>2, <4>1
    <3>4. CASE ~full
      <4>1. /\ num_in_clump' = num_in_clump + 1 /\ Room' = Room
            /\ num_in_clump + 1 < Clump
        BY <1>2, <1>3, <1>10, <3>4, SlotsOf
      <4>2. QED BY <3>1, <3>2, <4>1
    <3>5. QED BY <3>1, <3>3, <3>4
  <2>2. Len(msgs') <= MaxMsgs BY <1>2, <1>3, <1>4, MsgsAssumption
  <2>3. fileBlocks' = Prealloc
    BY <1>2 DEF CountInv
  <2>4. QED BY <1>2, <2>1, <2>2, <2>3 DEF CountInv
<1>12. BlocksInv'
  <2>1. ASSUME NEW b \in 0 .. Len(blocks) - 1, blocks'[b + 1] = blocks[b + 1] PROVE Keeps(b)'
    <3>1. /\ b * Clump \in Nat /\ b * Clump < n
          /\ \A s \in Slots : b * Clump + s \in Nat /\ b * Clump + s < n
      BY <1>2, <1>3, BlockWithin
    <3>2. msgs'[b * Clump + 1] = msgs[b * Clump + 1] BY <1>3, <1>4, <3>1
    <3>3. \A s \in Slots : msgs'[b * Clump + s + 1] = msgs[b * Clump + s + 1]
      BY <1>3, <1>4, <3>1
    <3>4. Keeps(b) BY <1>2 DEF BlocksInv
    <3>5. b * Clump < Len(msgs') /\ \A s \in Slots : b * Clump + s < Len(msgs')
      BY <1>3, <1>4, <3>1
    <3>6. QED BY <2>1, <3>1, <3>2, <3>3, <3>4, <3>5 DEF Keeps
  <2>2. CASE ~full
    <3>1. blocks' = blocks BY <1>2, <2>2
    <3>2. QED BY <2>1, <3>1 DEF BlocksInv
  <2>3. CASE full
    <3>1. /\ Len(blocks') = Len(blocks) + 1 /\ blocks'[Len(blocks) + 1] = Encode(clump)
          /\ \A b \in 0 .. Len(blocks) - 1 : blocks'[b + 1] = blocks[b + 1]
      <4>1. Encode(clump) \in Blocks /\ blocks \in Seq(Blocks)
        BY <1>2, <1>5, EncodeType DEF TypeOK
      <4>2. blocks' = Append(blocks, Encode(clump)) BY <1>2, <2>3
      <4>3. \A b \in 0 .. Len(blocks) - 1 : b + 1 \in 1 .. Len(blocks) BY <1>3
      <4>4. QED BY <4>1, <4>2, <4>3, AppendIs
    <3>2. \A s \in Slots : clump[s] = msgs'[Room + s + 1] /\ Room + s < Len(msgs')
      BY <1>3, <1>4, <1>6, <1>7, <2>3 DEF Slots
    <3>3. clump[0] = msgs'[Room + 1] /\ Room < Len(msgs') BY <1>3, <3>2, SlotsOf
    <3>4. ASSUME NEW b, b = Len(blocks) PROVE Keeps(b)'
      <4>1. b * Clump = Room BY <3>4 DEF Room
      <4>2. QED BY <1>5, <3>1, <3>2, <3>3, <3>4, <4>1, EncodeType DEF Keeps
    <3>5. ASSUME NEW b \in 0 .. Len(blocks') - 1 PROVE Keeps(b)'
      <4>1. CASE b = Len(blocks) BY <3>4, <4>1
      <4>2. CASE b # Len(blocks)
        <5>1. b \in 0 .. Len(blocks) - 1 BY <1>3, <3>1, <4>2
        <5>2. QED BY <2>1, <3>1, <5>1
      <4>3. QED BY <4>1, <4>2
    <3>6. QED BY <3>5 DEF BlocksInv
  <2>4. QED BY <2>2, <2>3
<1>13. ClumpInv'
  <2>1. CASE full BY <1>2, <2>1 DEF ClumpInv
  <2>2. CASE ~full
    <3>1. Room' = Room /\ num_in_clump' - 1 = num_in_clump /\ index' = clump
      BY <1>2, <1>3, <1>10, <2>2
    <3>2. QED BY <1>6, <3>1 DEF ClumpInv
  <2>3. QED BY <2>1, <2>2
<1>14. CacheInv' /\ GotInv' /\ LenInv'
  <2>1. got = NoGet BY <1>1, <1>2 DEF IInv, GotInv
  <2>2. QED BY <1>2, <2>1 DEF CacheInv, GotInv, LenInv, NoGet
<1>15. QED BY <1>8, <1>9, <1>11, <1>12, <1>13, <1>14 DEF IInv

LEMMA FinalFlushStep == IInv /\ FinalFlush => IInv'
<1>1. SUFFICES ASSUME IInv, FinalFlush PROVE IInv' OBVIOUS
<1> DEFINE n == Len(msgs)
           clump == Padded(index)
<1>2. /\ TypeOK /\ MsgsInv /\ CountInv /\ BlocksInv /\ ClumpInv /\ GotInv
      /\ phase = "w" /\ phase' = "flushed" /\ num_in_clump' = 0 /\ len' = NoLen
      /\ num_in_clump # 0 => blocks' = blocks \o <<Encode(clump), ZeroBlock>> /\ index' = clump
      /\ num_in_clump = 0 => UNCHANGED <<blocks, index>>
      /\ UNCHANGED <<current_block_index, msg_count, dataOffset, dataCut, fileBlocks, got, msgs>>
  BY <1>1 DEF IInv, FinalFlush, LastBlocks
<1>3. /\ n \in Nat /\ Room \in Nat /\ Len(blocks) \in Nat /\ blocks \in Seq(Blocks)
      /\ num_in_clump \in Nat /\ num_in_clump < Clump /\ n = Room + num_in_clump
      /\ index \in [Slots -> Entries] /\ Room <= n
  BY <1>2, RoomIsNat, SlotsOf DEF TypeOK, CountInv, Entries
<1>4. /\ clump \in [Slots -> Entries]
      /\ \A s \in Slots : IF s < num_in_clump THEN clump[s] = index[s] ELSE clump[s].size = 0
  <2>1. ASSUME NEW s \in Slots
        PROVE  /\ clump[s] \in Entries
               /\ IF s < num_in_clump THEN clump[s] = index[s] ELSE clump[s].size = 0
    BY <1>3 DEF Padded, Entries
  <2>2. clump = [s \in Slots |-> clump[s]] BY DEF Padded
  <2>3. QED BY <2>1, <2>2
<1>5. Encode(clump) \in Blocks /\ ZeroBlock \in Blocks BY <1>4, EncodeType, BlockTypes
<1> HIDE DEF clump
<1>6. num_in_clump # 0 =>
        /\ blocks' \in Seq(Blocks) /\ Len(blocks') = Len(blocks) + 2
        /\ \A i \in 1 .. Len(blocks) : blocks'[i] = blocks[i]
        /\ blocks'[Len(blocks) + 1] = Encode(clump) /\ blocks'[Len(blocks) + 2] = ZeroBlock
  <2>1. SUFFICES ASSUME num_in_clump # 0
                 PROVE  /\ blocks' \in Seq(Blocks) /\ Len(blocks') = Len(blocks) + 2
                        /\ \A i \in 1 .. Len(blocks) : blocks'[i] = blocks[i]
                        /\ blocks'[Len(blocks) + 1] = Encode(clump) /\ blocks'[Len(blocks) + 2] = ZeroBlock
    OBVIOUS
  <2>2. blocks' = blocks \o <<Encode(clump), ZeroBlock>> BY <1>2, <2>1
  <2>3. blocks \in Seq(Blocks) BY <1>3
  <2>4. QED BY ONLY <1>5, <2>2, <2>3, AppendedTwo
<1>7. Room' = IF num_in_clump # 0 THEN Room + 2 * Clump ELSE Room
  <2>1. (Len(blocks) + 2) * Clump = Len(blocks) * Clump + 2 * Clump BY <1>3, SlotsOf
  <2>2. QED BY <1>2, <1>6, <2>1 DEF Room
<1>8. TypeOK'
  <2>1. blocks' \in Seq(Blocks) /\ index' \in [Slots -> Entries] BY <1>2, <1>3, <1>4, <1>6
  <2>2. len' \in Int BY <1>2, SlotsOf DEF NoLen
  <2>3. num_in_clump' \in 0 .. Clump BY <1>2, SlotsOf
  <2>4. QED BY <1>2, <2>1, <2>2, <2>3 DEF TypeOK, Entries
<1>9. MsgsInv' BY <1>2 DEF MsgsInv
<1>10. CountInv'
  <2>1. /\ n' = n /\ n <= Room'
        /\ \/ Room' <= n /\ n < Room' + Clump
           \/ Room' - 2 * Clump < n /\ n < Room' - Clump
    <3>1. CASE num_in_clump # 0
      <4>1. Room' = Room + 2 * Clump BY <1>7, <3>1
      <4>2. QED BY <1>2, <1>3, <3>1, <4>1, SlotsOf
    <3>2. CASE num_in_clump = 0 BY <1>2, <1>3, <1>7, <3>2, SlotsOf
    <3>3. QED BY <3>1, <3>2
  <2>2. QED BY <1>2, <2>1 DEF CountInv
<1>11. BlocksInv'
  <2>1. ASSUME NEW b \in 0 .. Len(blocks) - 1 PROVE Keeps(b)'
    <3>1. blocks'[b + 1] = blocks[b + 1]
      <4>1. b + 1 \in 1 .. Len(blocks) BY <1>3
      <4>2. QED BY <1>2, <1>6, <4>1
    <3>2. Keeps(b) BY <1>2 DEF BlocksInv
    <3>3. QED BY <1>2, <3>1, <3>2 DEF Keeps
  <2>2. CASE num_in_clump = 0 BY <1>2, <2>1, <2>2 DEF BlocksInv
  <2>3. CASE num_in_clump # 0
    <3>1. ASSUME NEW b, b = Len(blocks) PROVE Keeps(b)'
      <4>1. b * Clump = Room BY <3>1 DEF Room
      <4>2. blocks'[b + 1] = Encode(clump) BY <1>6, <2>3, <3>1
      <4>3. ASSUME NEW s \in Slots
            PROVE  blocks'[b + 1].sizes[s] =
                     IF Room + s < n THEN msgs[Room + s + 1].size % SizeMod ELSE 0
        <5>1. blocks'[b + 1].sizes[s] = clump[s].size % SizeMod
          BY <1>4, <4>2, EncodeType
        <5>2. s \in Nat /\ (Room + s < n <=> s < num_in_clump) BY <1>3, SlotsOf
        <5>3. CASE s < num_in_clump
          <6>1. s \in 0 .. num_in_clump - 1 BY <1>3, <5>2, <5>3
          <6>2. clump[s] = msgs[Room + s + 1] BY <1>2, <1>4, <5>3, <6>1 DEF ClumpInv
          <6>3. QED BY <5>1, <5>2, <5>3, <6>2
        <5>4. CASE ~(s < num_in_clump)
          <6>1. 0 % SizeMod = 0 BY ModAssumption
          <6>2. QED BY <1>4, <5>1, <5>2, <5>4, <6>1
        <5>5. QED BY <5>3, <5>4
      <4>4. blocks'[b + 1].base = msgs[Room + 1].offset % OffsetMod /\ Room < n
        <5>1. clump[0] = index[0] /\ 0 \in 0 .. num_in_clump - 1 /\ Room + 0 + 1 = Room + 1
          BY <1>3, <1>4, <2>3, SlotsOf
        <5>2. clump[0] = msgs[Room + 1] BY <1>2, <5>1 DEF ClumpInv
        <5>3. QED BY <1>3, <1>4, <2>3, <4>2, <5>2, EncodeType
      <4>5. QED BY <1>2, <4>1, <4>3, <4>4 DEF Keeps
    <3>2. ASSUME NEW b, b = Len(blocks) + 1 PROVE Keeps(b)'
      <4>1. b * Clump = Room + Clump BY <1>3, <3>2, BlocksOrdered, SlotsOf DEF Room
      <4>2. b + 1 = Len(blocks) + 2 BY <1>3, <3>2
      <4>3. blocks'[b + 1] = ZeroBlock BY <1>6, <2>3, <4>2
      <4>4. ~(b * Clump < n) /\ \A s \in Slots : ~(b * Clump + s < n)
        BY <1>3, <4>1, SlotsOf
      <4>5. QED BY <1>2, <4>3, <4>4 DEF Keeps, ZeroBlock
    <3>3. ASSUME NEW b \in 0 .. Len(blocks') - 1 PROVE Keeps(b)'
      <4>1. b \in 0 .. Len(blocks) - 1 \/ b = Len(blocks) \/ b = Len(blocks) + 1
        BY <1>3, <1>6, <2>3
      <4>2. QED BY <2>1, <3>1, <3>2, <4>1
    <3>4. QED BY <3>3 DEF BlocksInv
  <2>4. QED BY <2>2, <2>3
<1>12. ClumpInv' /\ CacheInv' /\ GotInv' /\ LenInv'
  <2>1. got = NoGet BY <1>2 DEF GotInv
  <2>2. QED BY <1>2, <2>1 DEF ClumpInv, CacheInv, GotInv, LenInv, NoGet
<1>13. QED BY <1>8, <1>9, <1>10, <1>11, <1>12 DEF IInv

-----------------------------------------------------------------------------

(***************************************************************************)
(* Reading                                                                 *)
(***************************************************************************)

LEMMA SetupReadStep == IInv /\ SetupRead => IInv'
<1>1. SUFFICES ASSUME IInv, SetupRead PROVE IInv' OBVIOUS
<1>2. /\ TypeOK /\ MsgsInv /\ CountInv /\ BlocksInv /\ GotInv /\ LenInv
      /\ phase = "stored" /\ phase' \in {"r", "exited"} /\ (phase' = "r" => fileBlocks # 0)
      /\ index' = NewClump /\ num_in_clump' = 0 /\ current_block_index' = 0 /\ msg_count' = 0
      /\ UNCHANGED <<dataOffset, dataCut, blocks, fileBlocks, got, len, msgs>>
  BY <1>1 DEF IInv, SetupRead
<1>3. TypeOK'
  <2>1. index' \in [Slots -> [offset : Nat \cup {Garbage}, size : Nat \cup {Garbage}]]
    BY <1>2 DEF NewClump
  <2>2. num_in_clump' \in 0 .. Clump BY <1>2, SlotsOf
  <2>3. QED BY <1>2, <2>1, <2>2 DEF TypeOK
<1>4. MsgsInv' /\ BlocksInv' BY <1>2, SameFiles
<1>5. CountInv'
  <2>1. Room' = Room BY <1>2, SameBlocks
  <2>2. phase' = "r" => fileBlocks > 0 BY <1>2 DEF TypeOK
  <2>3. QED BY <1>2, <2>1, <2>2 DEF CountInv
<1>6. ClumpInv' /\ CacheInv' /\ GotInv' /\ LenInv'
  <2>1. got = NoGet /\ len = NoLen BY <1>2 DEF GotInv, LenInv
  <2>2. QED BY <1>2, <2>1 DEF ClumpInv, CacheInv, GotInv, LenInv, NoGet, NoLen
<1>7. QED BY <1>3, <1>4, <1>5, <1>6 DEF IInv

LEMMA TeardownReadStep == IInv /\ TeardownRead => IInv'
<1>1. SUFFICES ASSUME IInv, TeardownRead PROVE IInv' OBVIOUS
<1>2. /\ TypeOK /\ MsgsInv /\ CountInv /\ BlocksInv
      /\ phase = "r" /\ phase' = "stored" /\ got' = NoGet /\ len' = NoLen
      /\ UNCHANGED <<index, num_in_clump, current_block_index, msg_count, dataOffset,
                     dataCut, blocks, fileBlocks, msgs>>
  BY <1>1 DEF IInv, TeardownRead, cache, writer
<1>3. TypeOK'
  <2>1. len' \in Int /\ got' \in [index : Nat \cup {-1}, offset : Nat, size : Nat]
    BY <1>2, SlotsOf DEF NoLen, NoGet
  <2>2. QED BY <1>2, <2>1 DEF TypeOK
<1>4. MsgsInv' /\ BlocksInv' BY <1>2, SameFiles
<1>5. CountInv' BY <1>2, SameBlocks DEF CountInv
<1>6. ClumpInv' /\ CacheInv' /\ GotInv' /\ LenInv'
  BY <1>2 DEF ClumpInv, CacheInv, GotInv, LenInv, NoGet, NoLen
<1>7. QED BY <1>3, <1>4, <1>5, <1>6 DEF IInv

\* What mds__get gives is a place in the data file.
LEMMA AnswerType ==
  ASSUME TypeOK, NEW i \in Nat
  PROVE  /\ i \div Clump \in Nat /\ i % Clump \in Slots
         /\ BlockAt(i \div Clump) \in Blocks
         /\ Answer(i) \in [index : {i}, offset : Nat, size : Nat]
<1>1. i \div Clump \in Nat /\ i % Clump \in Slots BY PlaceOf, SlotsOf DEF Slots
<1>2. BlockAt(i \div Clump) \in Blocks BY <1>1, BlockTypes
<1>3. OffsetIn(BlockAt(i \div Clump))[i % Clump] \in Nat BY <1>1, <1>2, OffsetsAddUp
<1>4. BlockAt(i \div Clump).sizes[i % Clump] \in Nat BY <1>1, <1>2 DEF Blocks
<1>5. QED BY <1>1, <1>2, <1>3, <1>4 DEF Answer

\* After a call of mds__get the reader's clump is the block asked for.
LEMMA CacheAfterGet ==
  ASSUME IInv, NEW i \in Nat, Get(i)
  PROVE  /\ num_in_clump' = NumDecoded(BlockAt(i \div Clump))
         /\ \A s \in 0 .. num_in_clump' - 1 : index'[s] = Entry(i \div Clump, s)
         /\ num_in_clump' # 0 => current_block_index' = i \div Clump
         /\ current_block_index' \in Nat
         /\ index' \in [Slots -> Entries]
<1> DEFINE b == i \div Clump
<1>1. /\ TypeOK /\ CacheInv /\ phase = "r"
      /\ b \in Nat /\ BlockAt(b) \in Blocks
      /\ NumDecoded(BlockAt(b)) \in 0 .. Clump
  BY AnswerType, DecodedCount DEF IInv, Get
<1>2. \A s \in 0 .. NumDecoded(BlockAt(b)) - 1 : s \in Slots BY <1>1, SlotsOf DEF Slots
<1> HIDE DEF b
<1>3. CASE Cached(b)
  <2>1. UNCHANGED <<index, num_in_clump, current_block_index>>
    BY <1>3 DEF Get, cache, b
  <2>2. num_in_clump # 0 /\ current_block_index = b BY <1>3 DEF Cached
  <2>3. QED BY <1>1, <2>1, <2>2 DEF CacheInv, TypeOK, Entries, b
<1>4. CASE ~Cached(b)
  <2>1. /\ index' = Decoded(BlockAt(b), index)
        /\ num_in_clump' = NumDecoded(BlockAt(b)) /\ current_block_index' = b
    BY <1>4 DEF Get, b
  <2>2. \A s \in Slots : index'[s] = IF s < NumDecoded(BlockAt(b)) THEN Entry(b, s) ELSE index[s]
    BY <2>1 DEF Decoded, Entry
  <2>3. \A s \in Slots : Entry(b, s) \in Entries
    BY <1>1, OffsetsAddUp DEF Entry, Entries, Blocks
  <2>4. index' = [s \in Slots |-> index'[s]] BY <2>1 DEF Decoded
  <2>5. \A s \in Slots : index[s] \in Entries BY <1>1 DEF TypeOK, Entries
  <2>6. index' \in [Slots -> Entries] BY <2>2, <2>3, <2>4, <2>5
  <2>7. \A s \in 0 .. NumDecoded(BlockAt(b)) - 1 : index'[s] = Entry(b, s)
    BY <1>1, <1>2, <2>2
  <2>8. QED BY <1>1, <2>1, <2>6, <2>7 DEF b
<1>5. QED BY <1>3, <1>4

LEMMA AnswerOfGet ==
  ASSUME IInv, NEW i \in Nat, Get(i)
  PROVE  got' = Answer(i)
<1> DEFINE b == i \div Clump
           s == i % Clump
<1>1. got' = IF s < num_in_clump'
               THEN [index |-> i, offset |-> index'[s].offset, size |-> index'[s].size]
               ELSE [NoGet EXCEPT !.index = i]
  BY DEF Get
<1>2. /\ num_in_clump' = NumDecoded(BlockAt(b)) /\ s \in Slots
      /\ \A t \in 0 .. num_in_clump' - 1 : index'[t] = Entry(b, t)
      /\ NumDecoded(BlockAt(b)) \in 0 .. Clump
  BY CacheAfterGet, AnswerType, DecodedCount DEF IInv
<1> HIDE DEF b, s
<1>3. CASE s < num_in_clump'
  <2>1. s \in 0 .. num_in_clump' - 1 BY <1>2, <1>3, SlotsOf
  <2>2. index'[s] = Entry(b, s) BY <1>2, <2>1
  <2>4. index'[s].offset = OffsetIn(BlockAt(b))[s] /\ index'[s].size = BlockAt(b).sizes[s]
    BY <2>2 DEF Entry
  <2>3. QED BY <1>1, <1>2, <1>3, <2>4 DEF Answer, b, s
<1>4. CASE ~(s < num_in_clump') BY <1>1, <1>2, <1>4 DEF Answer, b, s, NoGet
<1>5. QED BY <1>3, <1>4

LEMMA GetStep == ASSUME NEW i \in Positions PROVE IInv /\ Get(i) => IInv'
<1>1. SUFFICES ASSUME IInv, Get(i) PROVE IInv' OBVIOUS
<1>2. i \in Nat BY SlotsOf, MsgsAssumption DEF Positions
<1>3. /\ TypeOK /\ MsgsInv /\ CountInv /\ BlocksInv /\ LenInv
      /\ phase = "r" /\ phase' = "r"
      /\ UNCHANGED <<msg_count, dataOffset, dataCut, blocks, fileBlocks, msgs, len>>
  BY <1>1 DEF IInv, Get, writer
<1>4. /\ num_in_clump' = NumDecoded(BlockAt(i \div Clump))
      /\ \A s \in 0 .. num_in_clump' - 1 : index'[s] = Entry(i \div Clump, s)
      /\ num_in_clump' # 0 => current_block_index' = i \div Clump
      /\ current_block_index' \in Nat /\ index' \in [Slots -> Entries]
  BY <1>1, <1>2, CacheAfterGet
<1>5. got' = Answer(i) /\ Answer(i) \in [index : {i}, offset : Nat, size : Nat]
  BY <1>1, <1>2, <1>3, AnswerOfGet, AnswerType
<1>6. TypeOK'
  <2>1. num_in_clump' \in 0 .. Clump BY <1>2, <1>3, <1>4, AnswerType, DecodedCount
  <2>2. got' \in [index : Nat \cup {-1}, offset : Nat, size : Nat] BY <1>2, <1>5
  <2>3. QED BY <1>3, <1>4, <2>1, <2>2 DEF TypeOK, Entries
<1>7. MsgsInv' /\ BlocksInv' BY <1>3, SameFiles
<1>8. CountInv' BY <1>3, SameBlocks DEF CountInv
<1>9. ClumpInv' BY <1>3 DEF ClumpInv
<1>10. CacheInv' BY <1>3, <1>4, SameBlocks DEF CacheInv
<1>11. GotInv'
  <2>1. got'.index = i BY <1>5
  <2>2. got' = Answer(got'.index) BY <1>5, <2>1
  <2>3. QED BY <1>2, <1>3, <2>1, <2>2 DEF GotInv, Answer, BlockAt, NumDecoded, OffsetIn
<1>12. LenInv' BY <1>3 DEF LenInv, BlockAt, NumDecoded
<1>13. QED BY <1>6, <1>7, <1>8, <1>9, <1>10, <1>11, <1>12 DEF IInv

LEMMA LenReadStep == IInv /\ LenRead => IInv'
<1>1. SUFFICES ASSUME IInv, LenRead PROVE IInv' OBVIOUS
<1>2. /\ TypeOK /\ MsgsInv /\ CountInv /\ BlocksInv /\ CacheInv /\ GotInv /\ LenInv
      /\ phase = "r" /\ phase' \in {"r", "exited"}
      /\ UNCHANGED <<index, num_in_clump, current_block_index, msg_count, dataOffset,
                     dataCut, blocks, fileBlocks, msgs, got>>
  BY <1>1 DEF IInv, LenRead, cache, writer
<1>3. fileBlocks \in Nat /\ fileBlocks > 0 BY <1>2 DEF TypeOK, CountInv
<1>4. len' \in Int
  <2>1. ASSUME fileBlocks - 2 >= 0 PROVE NumDecoded(BlockAt(fileBlocks - 2)) \in 0 .. Clump
    BY <1>2, <1>3, <2>1, BlockTypes, DecodedCount
  <2>2. \A n \in 0 .. Clump : (fileBlocks - 2) * Clump + n \in Int BY <1>3, SlotsOf
  <2>3. len \in Int BY <1>2 DEF TypeOK
  <2>4. QED BY <1>1, <2>1, <2>2, <2>3 DEF LenRead, LastDataBlock
<1>5. phase' = "r" =>
        /\ BlockAt(fileBlocks - 1) = ZeroBlock
        /\ fileBlocks >= 2 =>
             len' = (fileBlocks - 2) * Clump + NumDecoded(BlockAt(fileBlocks - 2))
  BY <1>1, <1>2, <1>3 DEF LenRead, LastDataBlock
<1>6. TypeOK' BY <1>2, <1>4 DEF TypeOK
<1>7. MsgsInv' /\ BlocksInv' BY <1>2, SameFiles
<1>8. CountInv' BY <1>2, <1>3, SameBlocks DEF CountInv
<1>9. ClumpInv' /\ CacheInv'
  BY <1>2 DEF ClumpInv, CacheInv, Entry, BlockAt, NumDecoded, OffsetIn
<1>10. GotInv' BY <1>2 DEF GotInv, Answer, BlockAt, NumDecoded, OffsetIn, NoGet
<1>11. LenInv' BY <1>2, <1>5 DEF LenInv, BlockAt, NumDecoded
<1>12. QED BY <1>6, <1>7, <1>8, <1>9, <1>10, <1>11 DEF IInv

LEMMA LenWriteStep == IInv /\ LenWrite => IInv'
<1>1. SUFFICES ASSUME IInv, LenWrite PROVE IInv' OBVIOUS
<1>2. /\ TypeOK /\ MsgsInv /\ CountInv /\ BlocksInv /\ ClumpInv /\ CacheInv /\ GotInv /\ LenInv
      /\ phase = "w" /\ phase' = "w" /\ len' = msg_count /\ msg_count = Len(msgs)
      /\ UNCHANGED <<index, num_in_clump, current_block_index, msg_count, dataOffset,
                     dataCut, blocks, fileBlocks, msgs, got>>
  BY <1>1 DEF IInv, LenWrite, cache, writer, CountInv
<1>3. TypeOK' BY <1>2, RoomIsNat DEF TypeOK
<1>4. MsgsInv' /\ BlocksInv' BY <1>2, SameFiles
<1>5. CountInv' BY <1>2, SameBlocks DEF CountInv
<1>6. ClumpInv' BY <1>2, SameBlocks DEF ClumpInv
<1>7. CacheInv' /\ GotInv' /\ LenInv' BY <1>2 DEF CacheInv, GotInv, LenInv, NoGet
<1>8. QED BY <1>3, <1>4, <1>5, <1>6, <1>7 DEF IInv

LEMMA NextIInv == IInv /\ [Next]_vars => IInv'
<1>1. SUFFICES ASSUME IInv, [Next]_vars PROVE IInv' OBVIOUS
<1>2. CASE UNCHANGED vars
  <2>1. /\ TypeOK /\ MsgsInv /\ CountInv /\ BlocksInv /\ ClumpInv /\ CacheInv /\ GotInv /\ LenInv
        /\ UNCHANGED <<phase, index, num_in_clump, current_block_index, msg_count, dataOffset,
                       dataCut, blocks, fileBlocks, msgs, got, len>>
    BY <1>1, <1>2 DEF IInv, vars, cache, writer
  <2>2. TypeOK' BY <2>1 DEF TypeOK
  <2>3. MsgsInv' /\ BlocksInv' BY <2>1, SameFiles
  <2>4. CountInv' /\ ClumpInv' BY <2>1, SameBlocks DEF CountInv, ClumpInv
  <2>5. CacheInv' BY <2>1, SameBlocks DEF CacheInv
  <2>6. GotInv' BY <2>1 DEF GotInv, Answer, BlockAt, NumDecoded, OffsetIn, NoGet
  <2>7. LenInv' BY <2>1 DEF LenInv, BlockAt, NumDecoded, NoLen
  <2>8. QED BY <2>2, <2>3, <2>4, <2>5, <2>6, <2>7 DEF IInv
<1>3. CASE \/ SetupWrite \/ FinalFlush \/ CutData \/ CutIndex \/ Crash
           \/ SetupRead \/ TeardownRead \/ LenRead \/ LenWrite
  BY <1>1, <1>3, SetupWriteStep, FinalFlushStep, CutDataStep, CutIndexStep, CrashStep,
     SetupReadStep, TeardownReadStep, LenReadStep, LenWriteStep
<1>4. CASE \E size \in Sizes : Append1(size) BY <1>1, <1>4, Append1Step
<1>5. CASE \E i \in Positions : Get(i) BY <1>1, <1>5, GetStep
<1>6. QED BY <1>1, <1>2, <1>3, <1>4, <1>5 DEF Next

\* The invariant holds of every state.
THEOREM InvariantHolds == Spec => []IInv
BY InitIInv, NextIInv, PTL DEF Spec

\* Types; a clump in the making is never full between two appends.
THEOREM TypeCorrect == Spec => []TypeOK
<1>1. IInv => TypeOK BY DEF IInv
<1>2. QED BY InvariantHolds, <1>1, PTL

-----------------------------------------------------------------------------

(***************************************************************************)
(* What the invariant says of reads                                        *)
(***************************************************************************)

\* The message in slot s of block b, whose sizes up to it fit 20 bits and whose first
\* offset fits 40: its block has the sizes as they are, and the first offset.
LEMMA BlockOfMessage ==
  ASSUME IInv, NEW b \in 0 .. Len(blocks) - 1, NEW s \in Slots, b * Clump + s < Len(msgs),
         \A j \in 0 .. s : msgs[b * Clump + j + 1].size < SizeMod,
         msgs[b * Clump + 1].offset < OffsetMod
  PROVE  /\ BlockAt(b) = blocks[b + 1] /\ BlockAt(b) \in Blocks
         /\ \A j \in 0 .. s : BlockAt(b).sizes[j] = msgs[b * Clump + j + 1].size
         /\ BlockAt(b).base = msgs[b * Clump + 1].offset
         /\ OffsetIn(BlockAt(b))[s] = msgs[b * Clump + s + 1].offset
<1>1. /\ TypeOK /\ MsgsInv /\ Keeps(b) /\ Len(blocks) \in Nat /\ Len(msgs) \in Nat
      /\ b \in Nat /\ b * Clump \in Nat /\ s \in Nat /\ s < Clump
      /\ msgs \in Seq(Message)
  <2>1. TypeOK /\ MsgsInv /\ Keeps(b) BY DEF IInv, BlocksInv
  <2>2. Len(blocks) \in Nat /\ Len(msgs) \in Nat BY <2>1, RoomIsNat
  <2>3. s \in Nat /\ s < Clump /\ Clump \in Nat \ {0} BY SlotsOf DEF Slots
  <2>4. b \in Nat BY <2>2
  <2>5. b * Clump \in Nat BY <2>3, <2>4, BlocksOrdered
  <2>6. msgs \in Seq(Message) BY <2>1 DEF TypeOK, Message
  <2>7. QED BY <2>1, <2>2, <2>3, <2>4, <2>5, <2>6
<1>2. BlockAt(b) = blocks[b + 1] /\ BlockAt(b) \in Blocks BY <1>1, BlockTypes DEF BlockAt
<1>3. ASSUME NEW j \in 0 .. s PROVE BlockAt(b).sizes[j] = msgs[b * Clump + j + 1].size
  <2>1. j \in Slots /\ b * Clump + j < Len(msgs) /\ b * Clump + j + 1 \in 1 .. Len(msgs)
    BY <1>1, SlotsOf DEF Slots
  <2>2. msgs[b * Clump + j + 1] \in Message BY <1>1, <2>1
  <2>3. msgs[b * Clump + j + 1].size \in 0 .. SizeMod - 1
    BY <2>2, ModAssumption DEF Message
  <2>4. \A x \in 0 .. SizeMod - 1 : x % SizeMod = x BY ModAssumption
  <2>5. QED BY <1>1, <1>2, <2>1, <2>3, <2>4 DEF Keeps
<1>4. BlockAt(b).base = msgs[b * Clump + 1].offset
  <2>1. b * Clump + 1 \in 1 .. Len(msgs) /\ b * Clump < Len(msgs) BY <1>1
  <2>2. msgs[b * Clump + 1] \in Message BY <1>1, <2>1
  <2>3. msgs[b * Clump + 1].offset \in 0 .. OffsetMod - 1
    BY <2>2, ModAssumption DEF Message
  <2>4. \A x \in 0 .. OffsetMod - 1 : x % OffsetMod = x BY ModAssumption
  <2>5. QED BY <1>1, <1>2, <2>1, <2>3, <2>4 DEF Keeps
<1>5. OffsetIn(BlockAt(b))[s] = msgs[b * Clump + s + 1].offset
  <2> DEFINE block == BlockAt(b)
  <2>1. /\ block \in Blocks /\ block.base = msgs[b * Clump + 1].offset
        /\ \A j \in 0 .. s - 1 : block.sizes[j] = msgs[b * Clump + j + 1].size
    BY <1>1, <1>2, <1>3, <1>4
  <2> HIDE DEF block
  <2>2. OffsetIn(block)[s] = msgs[b * Clump + s + 1].offset
    BY <1>1, <2>1, OffsetExact
  <2>3. QED BY <2>2 DEF block
<1>6. QED BY <1>2, <1>3, <1>4, <1>5

\* A clump begins at its first message.
LEMMA ClumpBegins == ASSUME NEW i \in Nat PROVE ClumpStart(i) \in Nat /\ ClumpStart(i) <= i
<1>1. /\ i \div Clump \in Nat /\ i % Clump \in Nat
      /\ i = (i \div Clump) * Clump + (i % Clump)
  BY PlaceOf, SlotsOf
<1>2. (i \div Clump) * Clump \in Nat BY <1>1, BlocksOrdered, SlotsOf
<1>3. QED BY <1>1, <1>2 DEF ClumpStart

\* The place of a message of the index file.
LEMMA FlushedPlace ==
  ASSUME TypeOK, NEW i \in 0 .. Flushed - 1
  PROVE  /\ i \in Nat /\ i < Len(msgs)
         /\ i \div Clump \in 0 .. Len(blocks) - 1 /\ i % Clump \in Slots
         /\ i = (i \div Clump) * Clump + (i % Clump)
         /\ ClumpStart(i) = (i \div Clump) * Clump
<1>1. Room \in Nat /\ Len(msgs) \in Nat /\ Len(blocks) \in Nat BY RoomIsNat
<1>2. i \in Nat /\ i < Room /\ i < Len(msgs) BY <1>1 DEF Flushed, Room
<1>3. /\ i \div Clump \in Nat /\ i % Clump \in Slots
      /\ i = (i \div Clump) * Clump + (i % Clump)
  BY <1>2, PlaceOf, SlotsOf DEF Slots
<1>4. (i \div Clump) * Clump \in Nat /\ (i \div Clump) * Clump <= i
  BY <1>2, <1>3, BlocksOrdered, SlotsOf
<1>5. i \div Clump < Len(blocks)
  BY <1>1, <1>2, <1>3, <1>4, BlockBefore, SlotsOf DEF Room
<1>6. QED BY <1>1, <1>2, <1>3, <1>5 DEF ClumpStart

\* The sizes of a message and of those before it in its clump, by their slots.
SizesIn(S, a, i) == \A j \in a .. i : msgs[j + 1].size \in S

LEMMA SizesBySlot ==
  ASSUME NEW i \in Nat, NEW b \in Nat, NEW s \in Slots, i = b * Clump + s,
         NEW S, SizesIn(S, b * Clump, i)
  PROVE  \A j \in 0 .. s : msgs[b * Clump + j + 1].size \in S
<1>1. b * Clump \in Nat /\ s \in Nat BY BlocksOrdered, SlotsOf
<1>2. TAKE j \in 0 .. s
<1>3. b * Clump + j \in b * Clump .. i BY <1>1
<1>4. QED BY <1>3 DEF SizesIn

\* A packed message of the index file is decoded whole.
LEMMA FlushedExact ==
  ASSUME IInv, NEW i \in 0 .. Flushed - 1, Packable(i)
  PROVE  Answer(i) = [index |-> i, offset |-> msgs[i + 1].offset, size |-> msgs[i + 1].size]
<1> DEFINE b == i \div Clump
           s == i % Clump
<1>1. /\ i \in Nat /\ i < Len(msgs) /\ b \in 0 .. Len(blocks) - 1 /\ s \in Slots
      /\ i = b * Clump + s /\ ClumpStart(i) = b * Clump
  BY FlushedPlace DEF IInv
<1> HIDE DEF b, s
<1>2. b \in Nat /\ s \in Nat /\ b * Clump \in Nat BY <1>1, SlotsOf, BlocksOrdered
<1>3. \A j \in 0 .. s : msgs[b * Clump + j + 1].size \in 1 .. SizeMod - 1
  <2>1. \A j \in b * Clump .. i : msgs[j + 1].size \in 1 .. SizeMod - 1 BY <1>1 DEF Packable
  <2> DEFINE S == 1 .. SizeMod - 1
  <2> HIDE DEF S
  <2>2. SizesIn(S, b * Clump, i) BY <2>1 DEF S, SizesIn
  <2>3. \A j \in 0 .. s : msgs[b * Clump + j + 1].size \in S
    BY <1>1, <1>2, <2>2, SizesBySlot
  <2>4. QED BY <2>3 DEF S
<1>4. \A j \in 0 .. s : msgs[b * Clump + j + 1].size < SizeMod /\ msgs[b * Clump + j + 1].size # 0
  BY <1>3, ModAssumption
<1>5. msgs[b * Clump + 1].offset < OffsetMod BY <1>1 DEF Packable
<1>6. /\ BlockAt(b) \in Blocks
      /\ \A j \in 0 .. s : BlockAt(b).sizes[j] = msgs[b * Clump + j + 1].size
      /\ OffsetIn(BlockAt(b))[s] = msgs[b * Clump + s + 1].offset
  BY <1>1, <1>4, <1>5, BlockOfMessage
<1>7. s < NumDecoded(BlockAt(b))
  <2>1. SUFFICES ASSUME NumDecoded(BlockAt(b)) <= s PROVE FALSE
    BY <1>2, <1>6, DecodedCount, SlotsOf
  <2>2. NumDecoded(BlockAt(b)) \in 0 .. s /\ NumDecoded(BlockAt(b)) < Clump
    BY <1>1, <1>6, <2>1, DecodedCount, SlotsOf DEF Slots
  <2>3. BlockAt(b).sizes[NumDecoded(BlockAt(b))] = 0 BY <1>6, <2>2, DecodedCount
  <2>4. QED BY <1>4, <1>6, <2>2, <2>3
<1>8. b * Clump + s + 1 = i + 1 /\ s \in 0 .. s BY <1>1, <1>2
<1>9. QED BY <1>6, <1>7, <1>8 DEF Answer, b, s

\* A message in the index file whose clump packs is given whole, however the writing
\* process ended, and whatever was asked for before.
THEOREM GetsExact == Spec => []GetExact
<1>1. ASSUME IInv PROVE GetExact
  <2>1. SUFFICES ASSUME got.index \in 0 .. Flushed - 1, Packable(got.index)
                 PROVE  /\ got.offset = msgs[got.index + 1].offset
                        /\ got.size = msgs[got.index + 1].size
    BY DEF GetExact
  <2>2. got # NoGet BY <2>1 DEF NoGet
  <2>3. got = Answer(got.index) BY <1>1, <2>2 DEF IInv, GotInv
  <2>4. Answer(got.index) = [index |-> got.index, offset |-> msgs[got.index + 1].offset,
                             size |-> msgs[got.index + 1].size]
    BY <1>1, <2>1, FlushedExact
  <2>5. QED BY <2>3, <2>4
<1>2. QED BY InvariantHolds, <1>1, PTL

\* A position whose clump has only sizes that fit 20 bits gives its message or nothing,
\* never a part of another message.
THEOREM GetsExactOrNothing == Spec => []GetExactOrNothing
<1>1. ASSUME IInv PROVE GetExactOrNothing
  <2> DEFINE i == got.index
             b == i \div Clump
             s == i % Clump
  <2>1. SUFFICES ASSUME i \in 0 .. Len(msgs) - 1, got.size # 0,
                        \A j \in ClumpStart(i) .. i : msgs[j + 1].size < SizeMod,
                        msgs[ClumpStart(i) + 1].offset < OffsetMod
                 PROVE  got.offset = msgs[i + 1].offset /\ got.size = msgs[i + 1].size
    BY DEF GetExactOrNothing
  <2>2. got # NoGet /\ i \in Nat BY <2>1 DEF NoGet
  <2>3. got = Answer(i) BY <1>1, <2>2 DEF IInv, GotInv
  <2>4. /\ b \in Nat /\ s \in Slots /\ i = b * Clump + s /\ ClumpStart(i) = b * Clump
    BY <2>2, PlaceOf, SlotsOf DEF Slots, ClumpStart
  <2>5. s < NumDecoded(BlockAt(b)) BY <2>1, <2>3 DEF Answer
  <2>6. got.offset = OffsetIn(BlockAt(b))[s] /\ got.size = BlockAt(b).sizes[s]
    BY <2>3, <2>5 DEF Answer
  <2> HIDE DEF i, b, s
  <2>7. s \in Nat /\ b * Clump \in Nat BY <2>4, SlotsOf, BlocksOrdered
  <2>8. b \in 0 .. Len(blocks) - 1
    <3>1. CASE b < Len(blocks) BY <1>1, <2>4, <3>1, RoomIsNat DEF IInv
    <3>2. CASE ~(b < Len(blocks))
      <4>1. NumDecoded(BlockAt(b)) = 0 BY <3>2, ZeroBlockEmpty DEF BlockAt
      <4>2. QED BY <2>5, <2>7, <4>1
    <3>3. QED BY <3>1, <3>2
  <2>9. \A j \in 0 .. s : msgs[b * Clump + j + 1].size < SizeMod
    <3>1. \A j \in 0 .. s : b * Clump + j \in b * Clump .. i BY <2>4, <2>7
    <3>2. QED BY <2>1, <2>4, <3>1
  <2>10. b * Clump + s < Len(msgs) BY <2>1, <2>4
  <2>11. /\ \A j \in 0 .. s : BlockAt(b).sizes[j] = msgs[b * Clump + j + 1].size
         /\ OffsetIn(BlockAt(b))[s] = msgs[b * Clump + s + 1].offset
    BY <1>1, <2>1, <2>4, <2>8, <2>9, <2>10, BlockOfMessage
  <2>12. s \in 0 .. s BY <2>7
  <2>13. BlockAt(b).sizes[s] = msgs[b * Clump + s + 1].size BY <2>11, <2>12
  <2>14. QED BY <2>4, <2>6, <2>11, <2>13
<1>2. QED BY InvariantHolds, <1>1, PTL

-----------------------------------------------------------------------------

(***************************************************************************)
(* The length                                                              *)
(***************************************************************************)

\* The last message packs: the blocks behind it are one of zeros, and the block of the
\* last message, which has room for another, holds as many as there are.
LEMMA LastClump ==
  ASSUME IInv, NEW q \in Nat, q < Len(blocks), q * Clump < Len(msgs),
         Len(msgs) <= q * Clump + Clump, Packable(Len(msgs) - 1)
  PROVE  q * Clump + NumDecoded(BlockAt(q)) = Len(msgs)
<1> DEFINE n == Len(msgs) - q * Clump
           s == n - 1
<1>1. /\ TypeOK /\ Len(blocks) \in Nat /\ Len(msgs) \in Nat /\ q * Clump \in Nat
      /\ Keeps(q) /\ q \in 0 .. Len(blocks) - 1
  <2>1. TypeOK /\ BlocksInv BY DEF IInv
  <2>2. Len(blocks) \in Nat /\ Len(msgs) \in Nat BY <2>1, RoomIsNat
  <2>3. q \in 0 .. Len(blocks) - 1 BY <2>2
  <2>4. Keeps(q) BY <2>1, <2>3 DEF BlocksInv
  <2>5. q * Clump \in Nat
    <3>1. Clump \in Nat \ {0} BY SlotsOf
    <3>2. QED BY <3>1, BlocksOrdered
  <2>6. QED BY <2>1, <2>2, <2>3, <2>4, <2>5
<1>2. n \in 1 .. Clump /\ s \in Slots /\ Len(msgs) - 1 = q * Clump + s /\ s \in 0 .. Clump - 1
      /\ q * Clump + n = Len(msgs)
  BY <1>1, SlotsOf DEF Slots
<1> HIDE DEF s, n
<1>3. ClumpStart(Len(msgs) - 1) = q * Clump
  BY <1>2, PlaceIs, SlotsOf DEF ClumpStart
<1>4. \A j \in 0 .. s : msgs[q * Clump + j + 1].size \in 1 .. SizeMod - 1
  <2> DEFINE S == 1 .. SizeMod - 1
  <2>1. \A j \in q * Clump .. Len(msgs) - 1 : msgs[j + 1].size \in S BY <1>3 DEF Packable
  <2>2. PICK i : i = Len(msgs) - 1 OBVIOUS
  <2> HIDE DEF S
  <2>3. SizesIn(S, q * Clump, i) BY <2>1, <2>2 DEF SizesIn
  <2>4. i \in Nat /\ i = q * Clump + s BY <1>1, <1>2, <2>2, SlotsOf
  <2>5. \A j \in 0 .. s : msgs[q * Clump + j + 1].size \in S
    BY <1>2, <2>3, <2>4, SizesBySlot
  <2>6. QED BY <2>5 DEF S
<1>5. \A j \in 0 .. s : msgs[q * Clump + j + 1].size < SizeMod /\ msgs[q * Clump + j + 1].size # 0
  BY <1>4, ModAssumption
<1>6. msgs[q * Clump + 1].offset < OffsetMod BY <1>3 DEF Packable
<1>7. q * Clump + s < Len(msgs) BY <1>1, <1>2
<1>8. /\ BlockAt(q) = blocks[q + 1] /\ BlockAt(q) \in Blocks
      /\ \A j \in 0 .. s : BlockAt(q).sizes[j] = msgs[q * Clump + j + 1].size
  BY <1>1, <1>2, <1>5, <1>6, <1>7, BlockOfMessage
<1>9. \A j \in 0 .. n - 1 : BlockAt(q).sizes[j] # 0 BY <1>2, <1>5, <1>8 DEF s
<1>10. n < Clump => BlockAt(q).sizes[n] = 0
  <2>1. SUFFICES ASSUME n < Clump PROVE BlockAt(q).sizes[n] = 0 OBVIOUS
  <2>2. n \in Slots /\ ~(q * Clump + n < Len(msgs)) 
    <3>1. n \in Slots BY <1>2, <2>1, SlotsOf DEF Slots
    <3>2. QED BY <1>1, <1>2, <3>1
  <2>3. QED BY <1>1, <1>8, <2>2 DEF Keeps
<1>11. n \in 0 .. Clump BY <1>2
<1>12. NumDecoded(BlockAt(q)) = n BY <1>8, <1>9, <1>10, <1>11, CountIs
<1>13. QED BY <1>2, <1>12

\* The length of a database that was torn down is the number of messages, if the last
\* clump packs.
THEOREM LengthExact == Spec => []LenExact
<1>1. ASSUME IInv PROVE LenExact
  <2>1. SUFFICES ASSUME len # NoLen, phase # "w" => Truncated /\ Packable(Len(msgs) - 1)
                 PROVE  len = Len(msgs)
    BY DEF LenExact
  <2>2. CASE phase = "w" BY <1>1, <2>1, <2>2 DEF IInv, LenInv
  <2>3. CASE phase # "w"
    <3>1. phase = "r" /\ fileBlocks = Len(blocks) /\ Packable(Len(msgs) - 1)
      BY <1>1, <2>1, <2>3 DEF Truncated, IInv, LenInv
    <3> DEFINE k == Len(blocks)
               n == Len(msgs)
    <3>2. /\ k \in Nat \ {0} /\ n \in Nat /\ n <= MaxMsgs /\ BlockAt(k - 1) = ZeroBlock
          /\ k >= 2 => len = (k - 2) * Clump + NumDecoded(BlockAt(k - 2))
          /\ Room = k * Clump
          /\ \/ Room <= n /\ n < Room + Clump
             \/ Room - 2 * Clump < n /\ n < Room - Clump
          /\ k = Prealloc \/ n <= Room
      BY <1>1, <2>1, <3>1, RoomIsNat DEF IInv, LenInv, CountInv, Room
    <3> HIDE DEF k, n
    <3>3. CASE Room <= n /\ n < Room + Clump
      <4>1. k # Prealloc
        <5>1. SUFFICES ASSUME k = Prealloc PROVE FALSE OBVIOUS
        <5> DEFINE q == MaxMsgs \div Clump
        <5>2. q \in Nat /\ MaxMsgs < (q + 1) * Clump /\ q + 1 < k
          <6>1. q \in Nat /\ MaxMsgs % Clump < Clump /\ MaxMsgs = q * Clump + (MaxMsgs % Clump)
            BY MsgsAssumption, PlaceOf, SlotsOf
          <6>2. (q + 1) * Clump = q * Clump + Clump /\ q * Clump \in Nat
            BY <6>1, BlocksOrdered, SlotsOf
          <6>3. q + 1 < k BY <3>2, <5>1, <6>1, MsgsAssumption
          <6>4. QED BY <6>1, <6>2, <6>3, MsgsAssumption, PlaceOf, SlotsOf
        <5> HIDE DEF q
        <5>3. (q + 1) * Clump <= k * Clump /\ (q + 1) * Clump \in Nat /\ k * Clump \in Nat
          BY <3>2, <5>2, BlocksOrdered, SlotsOf
        <5>4. QED BY <3>2, <3>3, <5>2, <5>3, MsgsAssumption
      <4>2. n = Room BY <3>2, <3>3, <4>1, RoomIsNat, <1>1 DEF IInv
      <4>3. /\ k - 1 \in Nat /\ (k - 1) * Clump \in Nat
            /\ ((k - 1) + 1) * Clump = (k - 1) * Clump + Clump /\ (k - 1) + 1 = k
        BY <3>2, BlocksOrdered, SlotsOf
      <4>4. (k - 1) * Clump < n /\ n = (k - 1) * Clump + Clump
        BY <3>2, <4>2, <4>3, SlotsOf
      <4>5. k - 1 < k /\ n <= (k - 1) * Clump + Clump BY <3>2, <4>4
      <4>6. (k - 1) * Clump + NumDecoded(BlockAt(k - 1)) = n
        BY <1>1, <3>1, <4>3, <4>4, <4>5, LastClump DEF k, n
      <4>7. NumDecoded(BlockAt(k - 1)) = 0 BY <3>2, ZeroBlockEmpty
      <4>8. QED BY <4>3, <4>4, <4>6, <4>7
    <3>4. CASE Room - 2 * Clump < n /\ n < Room - Clump
      <4>1. k >= 2
        <5>1. SUFFICES ASSUME k = 1 PROVE FALSE BY <3>2
        <5>2. QED BY <3>2, <3>4, <5>1, SlotsOf
      <4>2. /\ k - 2 \in Nat /\ (k - 2) * Clump \in Nat
            /\ k * Clump = (k - 2) * Clump + 2 * Clump
        <5>1. k - 2 \in Nat /\ (k - 2) + 1 = k - 1 /\ k - 1 \in Nat /\ (k - 1) + 1 = k
          BY <3>2, <4>1
        <5>2. /\ (k - 2) * Clump \in Nat /\ (k - 1) * Clump = (k - 2) * Clump + Clump
              /\ k * Clump = (k - 1) * Clump + Clump
          BY <5>1, BlocksOrdered, SlotsOf
        <5>3. QED BY <5>1, <5>2, SlotsOf
      <4>3. k - 2 < k /\ (k - 2) * Clump < n /\ n <= (k - 2) * Clump + Clump
        BY <3>2, <3>4, <4>2, SlotsOf
      <4>4. (k - 2) * Clump + NumDecoded(BlockAt(k - 2)) = n
        BY <1>1, <3>1, <4>2, <4>3, LastClump DEF k, n
      <4>5. QED BY <3>2, <4>1, <4>4 DEF n
    <3>5. QED BY <3>2, <3>3, <3>4
  <2>4. QED BY <2>2, <2>3
<1>2. QED BY InvariantHolds, <1>1, PTL

-----------------------------------------------------------------------------

(***************************************************************************)
(* The log of messages                                                     *)
(***************************************************************************)

Logged == [offset : 0 .. OffsetMod + Clump * SizeMod, size : Sizes] \cup {Unkept}

\* A message that packs lies not far behind the offset of its clump.
LEMMA KeptType ==
  ASSUME TypeOK, MsgsInv, NEW i \in 0 .. Len(msgs) - 1
  PROVE  Kept(i) \in Logged
<1>1. CASE ~Packable(i) BY <1>1 DEF Kept, Logged
<1>2. CASE Packable(i)
  <2> DEFINE a == ClumpStart(i)
             s == i % Clump
             T == {j \in 0 .. s : msgs[a + j + 1].offset <= OffsetMod + j * SizeMod}
  <2>1. /\ a \in Nat /\ s \in 0 .. Clump - 1 /\ i = a + s
        /\ Len(msgs) \in Nat /\ i < Len(msgs) /\ msgs \in Seq(Message) /\ i \in Nat
    <3>1. Len(msgs) \in Nat /\ i \in Nat /\ i < Len(msgs) /\ msgs \in Seq(Message)
      BY RoomIsNat DEF TypeOK, Message
    <3>2. i \div Clump \in Nat /\ s \in 0 .. Clump - 1 /\ i = (i \div Clump) * Clump + s
      BY <3>1, PlaceOf, SlotsOf
    <3>3. a \in Nat BY <3>2, BlocksOrdered, SlotsOf DEF ClumpStart
    <3>4. QED BY <3>1, <3>2, <3>3 DEF ClumpStart
  <2>2. /\ \A j \in a .. i : msgs[j + 1].size \in 1 .. SizeMod - 1
        /\ msgs[a + 1].offset < OffsetMod
    BY <1>2 DEF Packable
  <2> HIDE DEF a, s
  <2>3. \A j \in 0 .. s : msgs[a + j + 1] \in Message BY <2>1
  <2>4. 0 \in T
    <3>1. a + 0 + 1 = a + 1 /\ 0 \in 0 .. s /\ 0 * SizeMod = 0 BY <2>1, ModAssumption
    <3>2. msgs[a + 1] \in Message BY <2>3, <3>1
    <3>3. msgs[a + 1].offset <= OffsetMod + 0 BY <2>2, <3>2, ModAssumption DEF Message
    <3>4. QED BY <3>1, <3>3
  <2>5. ASSUME NEW j \in 0 .. s - 1, j \in T PROVE j + 1 \in T
    <3>1. j \in Nat /\ a + j \in a .. i /\ j \in 0 .. s /\ a + j + 1 \in 1 .. Len(msgs) - 1
          /\ j + 1 \in 0 .. s
      BY <2>1
    <3>2. msgs[a + j + 1 + 1].offset = msgs[a + j + 1].offset + msgs[a + j + 1].size
      BY <3>1 DEF MsgsInv
    <3>3. msgs[a + j + 1].size \in 1 .. SizeMod - 1 BY <2>2, <3>1
    <3>4. (j + 1) * SizeMod = j * SizeMod + SizeMod /\ j * SizeMod \in Nat
      BY <3>1, ModAssumption, BlocksOrdered
    <3>5. msgs[a + j + 1].offset \in Nat BY <2>3, <3>1 DEF Message
    <3>6. msgs[a + j + 1 + 1].offset <= OffsetMod + (j + 1) * SizeMod
      BY <2>5, <3>2, <3>3, <3>4, <3>5, ModAssumption
    <3>7. a + j + 1 + 1 = a + (j + 1) + 1 BY <2>1, <3>1
    <3>8. QED BY <3>1, <3>6, <3>7
  <2> HIDE DEF T
  <2>6. Hereditary(T, 0, s) BY <2>4, <2>5 DEF Hereditary
  <2>7. 0 .. s \subseteq T BY <2>1, <2>6, IntervalInduction
  <2>8. s \in T BY <2>1, <2>7
  <2>9. msgs[i + 1].offset <= OffsetMod + s * SizeMod
    <3>1. a + s + 1 = i + 1 BY <2>1
    <3>2. QED BY <2>8, <3>1 DEF T
  <2>10. s * SizeMod <= Clump * SizeMod /\ s * SizeMod \in Nat /\ Clump * SizeMod \in Nat
    BY <2>1, ModAssumption, BlocksOrdered, SlotsOf
  <2>11. msgs[i + 1] \in Message /\ i + 1 \in DOMAIN msgs BY <2>1
  <2>12. msgs[i + 1].offset \in 0 .. OffsetMod + Clump * SizeMod
    BY <2>9, <2>10, <2>11, ModAssumption DEF Message
  <2>13. msgs[i + 1].size \in Sizes BY <2>11 DEF MsgsInv
  <2>14. msgs[i + 1] = [offset |-> msgs[i + 1].offset, size |-> msgs[i + 1].size]
    BY <2>11 DEF Message
  <2>15. QED BY <1>2, <2>12, <2>13, <2>14 DEF Kept, Logged
<1>3. QED BY <1>1, <1>2

Kepts == IF phase \in {"none", "w"} THEN Len(msgs) ELSE Flushed

LEMMA LogType ==
  ASSUME TypeOK, MsgsInv
  PROVE  /\ Kepts \in Nat /\ Flushed \in Nat /\ Flushed <= Len(msgs) /\ Kepts <= Len(msgs)
         /\ Log \in Seq(Logged) /\ Len(Log) = Kepts
         /\ \A i \in 1 .. Kepts : Log[i] = Kept(i - 1)
<1>1. /\ Kepts \in Nat /\ Flushed \in Nat /\ Flushed <= Len(msgs) /\ Kepts <= Len(msgs)
      /\ Len(msgs) \in Nat
  BY RoomIsNat DEF Kepts, Flushed, Room
<1>2. Log = [i \in 1 .. Kepts |-> Kept(i - 1)] BY DEF Log, Kepts
<1>3. \A i \in 1 .. Kepts : Kept(i - 1) \in Logged BY <1>1, KeptType
<1> HIDE DEF Kepts, Logged
<1>4. Log \in [1 .. Kepts -> Logged] BY <1>2, <1>3
<1>5. QED BY <1>1, <1>2, <1>4

\* Logs are equal that have the same messages.
LEMMA LogIs ==
  ASSUME TypeOK, MsgsInv, NEW seq, NEW S, seq \in Seq(S), Len(seq) = Kepts,
         \A i \in 1 .. Kepts : seq[i] = Kept(i - 1)
  PROVE  Log = seq
<1>1. Log = [i \in 1 .. Kepts |-> Kept(i - 1)] BY DEF Log, Kepts
<1>2. seq = [i \in 1 .. Len(seq) |-> seq[i]] OBVIOUS
<1>3. QED BY <1>1, <1>2

\* Nothing that is asked for changes when the files stay.
LEMMA SameLog ==
  ASSUME UNCHANGED <<msgs, blocks>>
  PROVE  /\ Flushed' = Flushed
         /\ \A i : Kept(i)' = Kept(i) /\ (Packable(i)' <=> Packable(i))
         /\ got' = got => Read' = Read
         /\ (phase \in {"none", "w"})' <=> phase \in {"none", "w"} => Log' = Log
BY DEF Flushed, Kept, Packable, ClumpStart, Log, Read

LEMMA NoAnswerYet == got = NoGet => Read = L!NoAnswer
BY DEF NoGet, Read, L!NoAnswer

\* Appending leaves what was kept.
LEMMA KeptStays ==
  ASSUME TypeOK, TypeOK', NEW i \in 0 .. Len(msgs) - 1, Len(msgs) <= Len(msgs'),
         \A j \in 1 .. Len(msgs) : msgs'[j] = msgs[j]
  PROVE  Kept(i)' = Kept(i)
<1> DEFINE a == ClumpStart(i)
<1>1. Len(msgs) \in Nat /\ i \in Nat /\ i < Len(msgs) /\ a \in Nat /\ a <= i
  BY RoomIsNat, ClumpBegins
<1>2. \A j \in a .. i : msgs'[j + 1] = msgs[j + 1] BY <1>1
<1>3. msgs'[i + 1] = msgs[i + 1] /\ msgs'[a + 1] = msgs[a + 1] BY <1>1
<1>4. ClumpStart(i)' = a BY DEF ClumpStart
<1> HIDE DEF a
<1>5. Packable(i)' <=> Packable(i) BY <1>2, <1>3, <1>4 DEF Packable, a
<1>6. QED BY <1>3, <1>5 DEF Kept

LEMMA InitLog == Init => L!Init
<1>1. SUFFICES ASSUME Init PROVE L!Init OBVIOUS
<1>2. msgs = <<>> /\ phase = "none" /\ got = NoGet BY <1>1 DEF Init
<1>3. Log = <<>> BY <1>2 DEF Log
<1>4. QED BY <1>2, <1>3, NoAnswerYet DEF L!Init

LEMMA AppendLog ==
  ASSUME NEW size \in Sizes, IInv, IInv', Append1(size)
  PROVE  \E m \in Logged : L!Add(m)
<1> DEFINE n == Len(msgs)
           e == [offset |-> dataOffset, size |-> size]
<1>1. /\ TypeOK /\ MsgsInv /\ TypeOK' /\ MsgsInv'
      /\ phase = "w" /\ phase' = "w" /\ msgs' = Append(msgs, e)
      /\ got = NoGet /\ got' = NoGet
  BY DEF IInv, Append1, GotInv
<1>2. n \in Nat /\ msgs \in Seq(Message) /\ e \in Message
  BY <1>1, SizesAssumption DEF TypeOK, Message
<1> HIDE DEF e
<1>3. Len(msgs') = n + 1 /\ \A j \in 1 .. n : msgs'[j] = msgs[j] BY <1>1, <1>2
<1>4. Kepts = n /\ Kepts' = n + 1 BY <1>1, <1>3 DEF Kepts
<1>5. \A i \in 0 .. n - 1 : Kept(i)' = Kept(i) BY <1>1, <1>2, <1>3, KeptStays
<1> HIDE DEF n
<1>6. Log \in Seq(Logged) /\ Len(Log) = n /\ \A i \in 1 .. n : Log[i] = Kept(i - 1)
  BY <1>1, <1>4, LogType
<1>7. Log' \in Seq(Logged) /\ Len(Log') = n + 1 /\ \A i \in 1 .. n + 1 : Log'[i] = Kept(i - 1)'
  <2>1. (/\ Log \in Seq(Logged) /\ Len(Log) = Kepts
         /\ \A i \in 1 .. Kepts : Log[i] = Kept(i - 1))'
    BY <1>1, LogType, PTL
  <2>2. QED BY <1>4, <2>1 DEF Logged, Unkept
<1>8. Log'[n + 1] \in Logged BY <1>2, <1>7 DEF n
<1>9. Log' = Append(Log, Log'[n + 1])
  <2> HIDE DEF Logged
  <2>1. \A i \in 1 .. n : Log'[i] = Log[i] BY <1>2, <1>5, <1>6, <1>7 DEF n
  <2>2. QED BY <1>2, <1>6, <1>7, <1>8, <2>1 DEF n
<1>10. Read' = Read
  <2>1. (got = NoGet => Read = L!NoAnswer)' BY NoAnswerYet, PTL
  <2>2. QED BY <1>1, <2>1, NoAnswerYet DEF L!NoAnswer, NoGet
<1>11. L!Add(Log'[n + 1]) BY <1>1, <1>9, <1>10 DEF L!Add
<1>12. QED BY <1>8, <1>11


\* mds__teardown flushes the messages of the part clump: none is lost.
LEMMA FlushLog ==
  ASSUME IInv, IInv', FinalFlush
  PROVE  L!Finish
<1>1. /\ TypeOK /\ MsgsInv /\ TypeOK' /\ MsgsInv'
      /\ phase = "w" /\ phase' = "flushed" /\ msgs' = msgs
      /\ got = NoGet /\ got' = NoGet
  BY DEF IInv, FinalFlush, GotInv
<1>2. Kepts = Len(msgs) BY <1>1 DEF Kepts
<1>3. Kepts' = Len(msgs)
  <2>1. (phase \in {"flushed", "cut"} => Len(msgs) <= Room)' BY DEF IInv, CountInv
  <2>2. (Room \in Nat /\ Len(msgs) \in Nat)'
    <3>1. (TypeOK => Len(blocks) \in Nat /\ Room \in Nat /\ Len(msgs) \in Nat)'
      BY RoomIsNat, PTL
    <3>2. QED BY <1>1, <3>1
  <2>3. QED BY <1>1, <2>1, <2>2 DEF Kepts, Flushed, Room
<1>4. \A i : Kept(i)' = Kept(i) BY <1>1 DEF Kept, Packable, ClumpStart
<1>5. Log' = Log
  <2>1. Log = [i \in 1 .. Kepts |-> Kept(i - 1)] BY DEF Log, Kepts
  <2>2. Log' = [i \in 1 .. Kepts' |-> Kept(i - 1)'] BY DEF Log, Kepts
  <2>3. QED BY <1>2, <1>3, <1>4, <2>1, <2>2
<1>6. Read' = Read
  <2>1. (got = NoGet => Read = L!NoAnswer)' BY NoAnswerYet, PTL
  <2>2. QED BY <1>1, <2>1, NoAnswerYet DEF L!NoAnswer, NoGet
<1>7. QED BY <1>1, <1>5, <1>6 DEF L!Finish

\* A process that ends loses the messages of its part clump, or none.
LEMMA CrashLog ==
  ASSUME IInv, IInv', Crash
  PROVE  L!Lose \/ UNCHANGED L!vars
<1>1. /\ TypeOK /\ MsgsInv /\ TypeOK' /\ MsgsInv'
      /\ phase \in {"w", "flushed", "cut"} /\ phase' = "stored"
      /\ msgs' = msgs /\ blocks' = blocks /\ got' = got
  BY DEF IInv, Crash, writer
<1>2. /\ Flushed' = Flushed /\ Read' = Read /\ \A i : Kept(i)' = Kept(i)
      /\ phase # "w" => Log' = Log
  BY <1>1, SameLog
<1>3. CASE phase # "w" BY <1>1, <1>2, <1>3 DEF L!vars
<1>4. CASE phase = "w"
  <2>1. /\ Kepts = Len(msgs) /\ Kepts' = Flushed
        /\ Flushed \in 0 .. Len(msgs) /\ Len(msgs) - Flushed < Clump
        /\ Len(msgs) \in Nat
    <3>1. /\ Len(msgs) = Room + num_in_clump /\ num_in_clump \in Nat /\ num_in_clump < Clump
          /\ Room \in Nat /\ Len(msgs) \in Nat
      BY <1>1, <1>4, RoomIsNat DEF IInv, CountInv, TypeOK
    <3>2. Kepts = Len(msgs) /\ Kepts' = Flushed' BY <1>1, <1>4 DEF Kepts
    <3>3. Room = Len(blocks) * Clump BY DEF Room
    <3> HIDE DEF Room
    <3>4. Flushed = Room \/ Flushed = Len(msgs) BY <3>3 DEF Flushed
    <3>5. Flushed \in 0 .. Len(msgs) BY <1>1, <3>1, LogType
    <3>6. QED BY <1>2, <3>1, <3>2, <3>4, <3>5, SlotsOf
  <2>2. Log \in Seq(Logged) /\ Len(Log) = Kepts /\ \A i \in 1 .. Kepts : Log[i] = Kept(i - 1)
    BY <1>1, LogType
  <2> HIDE DEF Logged
  <2>3. Log' = [i \in 1 .. Kepts' |-> Kept(i - 1)'] BY DEF Log, Kepts
  <2>4. Log' = SubSeq(Log, 1, Flushed)
    <3>1. SubSeq(Log, 1, Flushed) = [i \in 1 .. Flushed |-> Log[i]] BY <2>1, <2>2
    <3>2. QED BY <1>2, <2>1, <2>2, <2>3, <3>1
  <2>5. Flushed \in 0 .. Len(Log) /\ Len(Log) - Flushed < Clump BY <2>1, <2>2
  <2>6. QED BY <1>1, <1>2, <1>4, <2>4, <2>5 DEF L!Lose
<1>5. QED BY <1>3, <1>4

\* A position past the messages of the index file gives none.
LEMMA BeyondFlushed ==
  ASSUME IInv, NEW i \in Nat, i >= Flushed
  PROVE  Answer(i) = [index |-> i, offset |-> 0, size |-> 0]
<1> DEFINE b == i \div Clump
           s == i % Clump
<1>1. /\ b \in Nat /\ s \in Slots /\ s \in Nat /\ i = b * Clump + s
  BY PlaceOf, SlotsOf DEF Slots
<1>2. /\ TypeOK /\ Len(blocks) \in Nat /\ Room \in Nat /\ Len(msgs) \in Nat
  BY RoomIsNat DEF IInv
<1> HIDE DEF b, s
<1>3. ~(s < NumDecoded(BlockAt(b)))
  <2>1. CASE ~(b < Len(blocks))
    <3>1. NumDecoded(BlockAt(b)) = 0 BY <2>1, ZeroBlockEmpty DEF BlockAt
    <3>2. QED BY <1>1, <3>1
  <2>2. CASE b < Len(blocks)
    <3>1. i >= Len(msgs)
      <4>1. b * Clump \in Nat /\ (b + 1) * Clump <= Room /\ (b + 1) * Clump = b * Clump + Clump
        BY <1>1, <1>2, <2>2, BlocksOrdered, SlotsOf DEF Room
      <4>2. i < Room BY <1>1, <1>2, <4>1, SlotsOf DEF Slots
      <4>3. QED BY <1>2, <4>2 DEF Flushed, Room
    <3>2. Keeps(b) BY <1>1, <1>2, <2>2 DEF IInv, BlocksInv
    <3>3. ~(b * Clump + s < Len(msgs)) BY <1>1, <1>2, <3>1
    <3>4. BlockAt(b).sizes[s] = 0 BY <1>1, <2>2, <3>2, <3>3 DEF Keeps, BlockAt
    <3> DEFINE block == BlockAt(b)
    <3>5. block \in Blocks BY <1>1, <1>2, BlockTypes
    <3> HIDE DEF block
    <3>6. \A j \in 0 .. NumDecoded(block) - 1 : block.sizes[j] # 0
          /\ NumDecoded(block) \in 0 .. Clump
      BY <3>5, DecodedCount
    <3>7. QED BY <1>1, <3>4, <3>5, <3>6, DecodedCount DEF block
  <2>3. QED BY <2>1, <2>2
<1>4. QED BY <1>3 DEF Answer, b, s

LEMMA GetLog ==
  ASSUME NEW i \in Positions, IInv, IInv', Get(i)
  PROVE  L!Read(i)
<1>1. /\ TypeOK /\ MsgsInv /\ TypeOK' /\ phase = "r" /\ phase' = "r"
      /\ msgs' = msgs /\ blocks' = blocks /\ got'.index = i
  BY DEF IInv, Get, writer, NoGet
<1>2. i \in Nat BY MsgsAssumption, SlotsOf DEF Positions
<1>3. /\ Flushed' = Flushed /\ Log' = Log
      /\ Packable(i)' <=> Packable(i)
      /\ Packable(got.index)' <=> Packable(i)
  <2>1. Flushed' = Flushed /\ Log' = Log /\ (Packable(i)' <=> Packable(i)) BY <1>1, SameLog
  <2>2. Packable(got.index)' <=> Packable(i)' BY <1>1 DEF Packable, ClumpStart
  <2>3. QED BY <2>1, <2>2
<1>4. got' = Answer(i)
  <2>1. (got # NoGet => got = Answer(got.index))' BY DEF IInv, GotInv
  <2>2. got' # NoGet' BY <1>1, <1>2 DEF NoGet
  <2>3. \A x : Answer(x)' = Answer(x) BY <1>1, SameBlocks
  <2>4. Answer(got.index)' = Answer(i) BY <1>1, <2>3 DEF Answer, BlockAt, NumDecoded, OffsetIn
  <2>5. QED BY <2>1, <2>2, <2>4
<1>5. /\ Kepts = Flushed /\ Len(Log) = Kepts /\ Flushed \in Nat
      /\ \A j \in 1 .. Kepts : Log[j] = Kept(j - 1)
  BY <1>1, LogType DEF Kepts
<1>6. CASE i < Flushed /\ Packable(i)
  <2>1. i \in 0 .. Flushed - 1 /\ i + 1 \in 1 .. Kepts /\ i + 1 - 1 = i BY <1>2, <1>5, <1>6
  <2>2. Answer(i) = [index |-> i, offset |-> msgs[i + 1].offset, size |-> msgs[i + 1].size]
    BY <1>6, <2>1, FlushedExact
  <2>3. msgs[i + 1] \in Message /\ msgs[i + 1].size # 0
    <3>1. i < Len(msgs) /\ Len(msgs) \in Nat /\ msgs \in Seq(Message)
      BY <1>1, <2>1, FlushedPlace, RoomIsNat DEF TypeOK, Message
    <3>2. msgs[i + 1] \in Message BY <1>2, <3>1
    <3>3. i \in ClumpStart(i) .. i BY <1>2, ClumpBegins
    <3>4. QED BY <1>6, <3>2, <3>3 DEF Packable
  <2>4. msgs[i + 1] = [offset |-> msgs[i + 1].offset, size |-> msgs[i + 1].size]
    BY <2>3 DEF Message
  <2>5. Log[i + 1] = msgs[i + 1] BY <1>5, <1>6, <2>1 DEF Kept
  <2>6. Read' = [index |-> i, message |-> msgs[i + 1]]
    BY <1>1, <1>3, <1>4, <1>6, <2>1, <2>2, <2>3, <2>4 DEF Read
  <2>7. QED BY <1>1, <1>3, <1>5, <1>6, <2>5, <2>6 DEF L!Read
<1>7. CASE i < Flushed /\ ~Packable(i)
  <2>1. i \in 0 .. Flushed - 1 /\ i + 1 \in 1 .. Kepts /\ i + 1 - 1 = i BY <1>2, <1>5, <1>7
  <2>2. Log[i + 1] = Unkept BY <1>5, <1>7, <2>1 DEF Kept
  <2>3. Read' = [index |-> i, message |-> Unkept]
    BY <1>1, <1>3, <1>7, <2>1 DEF Read, Unkept
  <2>4. QED BY <1>1, <1>3, <1>5, <1>7, <2>2, <2>3 DEF L!Read
<1>8. CASE ~(i < Flushed)
  <2>1. got' = [index |-> i, offset |-> 0, size |-> 0] BY <1>2, <1>4, <1>5, <1>8, BeyondFlushed
  <2>2. Read' = [index |-> i, message |-> NoGet]
    BY <1>2, <1>3, <1>5, <1>8, <2>1 DEF Read, NoGet
  <2>3. QED BY <1>1, <1>3, <1>5, <1>8, <2>2 DEF L!Read
<1>9. QED BY <1>6, <1>7, <1>8

LEMMA NextLog == IInv /\ IInv' /\ [Next]_vars => [L!Next]_(L!vars)
<1>1. SUFFICES ASSUME IInv, IInv', [Next]_vars PROVE [L!Next]_(L!vars) OBVIOUS
<1>2. CASE UNCHANGED vars
  <2>1. UNCHANGED <<phase, msgs, blocks, got>> BY <1>2 DEF vars, writer
  <2>2. QED BY <2>1, SameLog DEF L!vars
<1>3. CASE SetupWrite
  <2>1. /\ phase = "none" /\ phase' = "w" /\ msgs = <<>>
        /\ UNCHANGED <<msgs, blocks, got>>
    BY <1>1, <1>3 DEF SetupWrite, IInv, CountInv
  <2>2. Log = <<>> BY <2>1 DEF Log
  <2>3. Log' = Log /\ Read' = Read BY <2>1, SameLog
  <2>4. L!Open BY <2>1, <2>2, <2>3 DEF L!Open
  <2>5. QED BY <2>4 DEF L!Next
<1>4. CASE FinalFlush BY <1>1, <1>4, FlushLog DEF L!Next
<1>5. CASE Crash BY <1>1, <1>5, CrashLog DEF L!Next
<1>6. CASE CutData \/ CutIndex \/ SetupRead \/ LenRead \/ LenWrite
  <2>1. /\ UNCHANGED <<msgs, blocks, got>>
        /\ (phase \in {"none", "w"})' <=> phase \in {"none", "w"}
        /\ (phase = "w")' <=> phase = "w"
    BY <1>6 DEF CutData, CutIndex, SetupRead, LenRead, LenWrite, writer
  <2>2. Log' = Log /\ Read' = Read BY <2>1, SameLog
  <2>3. QED BY <2>1, <2>2 DEF L!vars
<1>7. CASE TeardownRead
  <2>1. /\ phase = "r" /\ phase' = "stored" /\ UNCHANGED <<msgs, blocks>> /\ got' = NoGet
    BY <1>7 DEF TeardownRead, writer
  <2>2. Log' = Log BY <2>1, SameLog
  <2>3. (got = NoGet => Read = L!NoAnswer)' BY NoAnswerYet, PTL
  <2>4. Read' = L!NoAnswer BY <2>1, <2>3 DEF NoGet, L!NoAnswer
  <2>5. L!Forget BY <2>1, <2>2, <2>4 DEF L!Forget
  <2>6. QED BY <2>5 DEF L!Next
<1>8. CASE \E size \in Sizes : Append1(size) BY <1>1, <1>8, AppendLog DEF L!Next, Logged
<1>9. CASE \E i \in Positions : Get(i) BY <1>1, <1>9, GetLog DEF L!Next
<1>10. QED BY <1>1, <1>2, <1>3, <1>4, <1>5, <1>6, <1>7, <1>8, <1>9 DEF Next

\* The files of the data store and the two processes that use them are a log of messages
\* that loses fewer than a clump of them, all from its end.
THEOREM ImplementsLog == Spec => LogSpec
<1>1. Spec => []IInv BY InvariantHolds
<1>2. QED BY <1>1, InitLog, NextLog, PTL DEF Spec, LogSpec, L!Spec

=============================================================================
