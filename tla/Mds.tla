--------------------------------- MODULE Mds --------------------------------
(***************************************************************************)
(* The master data store (src/src/pulp_db/mds): messages one after another *)
(* in a data file, and an index of blocks that hold the offset of a clump  *)
(* of messages and the sizes of all of them, packed by bitpack.c.          *)
(*                                                                         *)
(* One writing process, that may end at any point without mds__teardown,   *)
(* then any number of reading sessions.  A message is its place in the     *)
(* data file.  An operator X_<fault> is a faulty variant of X.             *)
(***************************************************************************)
EXTENDS Integers, Sequences

CONSTANTS
  Clump,         (* MAX_MSG_IN_CLUMP                                        *)
  SizeMod,       (* 2^20: sizes are packed into 20 bits                     *)
  OffsetMod,     (* 2^40: encode keeps 5 bytes of the clump's offset        *)
  Prealloc,      (* blocks in the index file mmbuf stretches at set up      *)
  PageBlocks,    (* NUM_CLUMPS_IN_PAGE                                      *)
  Sizes,         (* the lengths of the messages appended                    *)
  MaxMsgs        (* bound: messages appended; the index never outgrows Prealloc *)

ASSUME ClumpAssumption == Clump \in Nat \ {0}
ASSUME ModAssumption   == SizeMod \in Nat \ {0} /\ OffsetMod \in Nat \ {0}
ASSUME BlocksAssumption == PageBlocks \in Nat \ {0} /\ Prealloc \in Nat
ASSUME SizesAssumption == Sizes \subseteq Nat
ASSUME MsgsAssumption  == MaxMsgs \in Nat /\ MaxMsgs \div Clump + 2 < Prealloc

VARIABLES
  phase,         (* "none"; "w"; "flushed", "cut": in mds__teardown; "stored"; *)
                 (* "r"; "exited": exit(EXIT_FAILURE) or a fault            *)
  index,         (* m->index, the bitpack__clump being filled or last decoded *)
  num_in_clump, current_block_index, msg_count,      (* of the mds_obj      *)
  dataOffset,    (* data_file->offset in the writing session                *)
  dataCut,       (* the data file has been truncated to dataOffset          *)
  blocks,        (* the blocks written to the index file                    *)
  fileBlocks,    (* the length of the index file, in blocks                 *)
  got,           (* what the last mds__get gave                             *)
  len,           (* what the last mds__len gave                             *)
  msgs           (* history: the messages appended                          *)

writer == <<msg_count, dataOffset, dataCut, blocks, fileBlocks, msgs>>
cache  == <<index, num_in_clump, current_block_index>>
vars   == <<phase, cache, writer, got, len>>

Slots == 0 .. Clump - 1
Garbage == -1                       \* what malloc left in the clump
NewClump == [s \in Slots |-> [offset |-> Garbage, size |-> Garbage]]
ZeroBlock == [base |-> 0, sizes |-> [s \in Slots |-> 0]]
NoGet == [index |-> -1, offset |-> 0, size |-> 0]
NoLen == -Clump - 1

Init ==
  /\ phase = "none"
  /\ index = NewClump /\ num_in_clump = 0 /\ current_block_index = 0
  /\ msg_count = 0 /\ dataOffset = 0 /\ dataCut = FALSE
  /\ blocks = <<>> /\ fileBlocks = 0
  /\ got = NoGet /\ len = NoLen /\ msgs = <<>>

(***************************************************************************)
(* bitpack: a clump is kept as its first offset and its sizes              *)
(***************************************************************************)

Encode(clump) == [base  |-> clump[0].offset % OffsetMod,
                  sizes |-> [s \in Slots |-> clump[s].size % SizeMod]]

\* Decoding ends at the first size that is 0. For the last size it reads 4 bytes of which
\* one is behind the block (bitpack.c:92), and masks that one off.
NumDecoded(block) ==
  CHOOSE n \in 0 .. Clump :
    /\ \A s \in 0 .. n - 1 : block.sizes[s] # 0
    /\ n < Clump => block.sizes[n] = 0

OffsetIn(block) ==
  LET at[s \in Slots] == IF s = 0 THEN block.base ELSE at[s - 1] + block.sizes[s - 1]
  IN at

\* The entries from NumDecoded on keep what an earlier block left there.
Decoded(block, old) ==
  LET at == OffsetIn(block) IN
  [s \in Slots |-> IF s < NumDecoded(block)
                     THEN [offset |-> at[s], size |-> block.sizes[s]]
                     ELSE old[s]]

(***************************************************************************)
(* Writing                                                                 *)
(***************************************************************************)

\* mds__setup(mode 'w'): both files are emptied and stretched.
SetupWrite ==
  /\ phase = "none"
  /\ phase' = "w" /\ fileBlocks' = Prealloc
  /\ UNCHANGED <<cache, msg_count, dataOffset, dataCut, blocks, got, len, msgs>>

ClumpFull_OneLate(n) == n > Clump
ClumpFull(n) == n >= Clump

\* num_in_clump once a full clump is flushed.
AfterFlush == 0

\* mds__append. The data is in the file before the clump is flushed, and a
\* process that ends between the two leaves what one ending before both does.
Append1(size) ==
  LET clump == [index EXCEPT ![num_in_clump] = [offset |-> dataOffset, size |-> size]]
  IN
  /\ phase = "w" /\ Len(msgs) < MaxMsgs
  /\ index' = clump
  /\ IF ClumpFull(num_in_clump + 1)
       THEN blocks' = Append(blocks, Encode(clump)) /\ num_in_clump' = AfterFlush
       ELSE num_in_clump' = num_in_clump + 1 /\ UNCHANGED blocks
  /\ dataOffset' = dataOffset + size
  /\ msg_count' = msg_count + 1
  /\ msgs' = Append(msgs, [offset |-> dataOffset, size |-> size])
  /\ len' = NoLen
  /\ UNCHANGED <<phase, current_block_index, dataCut, fileBlocks, got>>

\* partial_flush sets the sizes of the slots not used to 0, and then the one behind the
\* last: msg_sizes[48] is past the clump, in what malloc(576) gives over, and is not read.
Padded_Unset(clump) == clump
Padded(clump) == [s \in Slots |-> IF s < num_in_clump THEN clump[s]
                                  ELSE [clump[s] EXCEPT !.size = 0]]

\* The blocks final_flush adds: the part clump and a block of zeros.
LastBlocks == <<Encode(Padded(index)), ZeroBlock>>

\* mds__teardown up to the truncations. After a full clump nothing is left to
\* flush, and the block of zeros is not written either.
FinalFlush ==
  /\ phase = "w" /\ phase' = "flushed"
  /\ num_in_clump' = 0
  /\ IF num_in_clump # 0
       THEN blocks' = blocks \o LastBlocks /\ index' = Padded(index)
       ELSE UNCHANGED <<blocks, index>>
  /\ len' = NoLen
  /\ UNCHANGED <<current_block_index, msg_count, dataOffset, dataCut, fileBlocks,
                 got, msgs>>

\* mmbuf__teardown(m->data_file)
CutData ==
  /\ phase = "flushed" /\ phase' = "cut"
  /\ dataCut' = TRUE
  /\ UNCHANGED <<cache, msg_count, dataOffset, blocks, fileBlocks, got, len, msgs>>

\* mmbuf__teardown(m->index_file)
CutIndex ==
  /\ phase = "cut" /\ phase' = "stored"
  /\ fileBlocks' = Len(blocks)
  /\ UNCHANGED <<cache, msg_count, dataOffset, dataCut, blocks, got, len, msgs>>

\* The process ends: another module calls exit(), or it is killed. What was
\* stored through the shared mappings stays in the files.
Crash ==
  /\ phase \in {"w", "flushed", "cut"}
  /\ phase' = "stored" /\ len' = NoLen
  /\ UNCHANGED <<cache, writer, got>>

(***************************************************************************)
(* Reading                                                                 *)
(***************************************************************************)

\* A block of the file. Past the blocks written a mapped page reads as zeros.
BlockAt(b) == IF b < Len(blocks) THEN blocks[b + 1] ELSE ZeroBlock
MappedBlocks == ((fileBlocks + PageBlocks - 1) \div PageBlocks) * PageBlocks

\* mds__setup(mode 'r'): mmap refuses a file of length 0.
SetupRead ==
  /\ phase = "stored"
  /\ phase' = IF fileBlocks = 0 \/ (dataCut /\ dataOffset = 0) THEN "exited" ELSE "r"
  /\ index' = NewClump /\ num_in_clump' = 0 /\ current_block_index' = 0
  /\ msg_count' = 0
  /\ UNCHANGED <<dataOffset, dataCut, blocks, fileBlocks, got, len, msgs>>

\* mds__teardown(mode 'r')
TeardownRead ==
  /\ phase = "r" /\ phase' = "stored"
  /\ got' = NoGet /\ len' = NoLen
  /\ UNCHANGED <<cache, writer>>

\* The clump decoded last serves the next call if it is the one asked for.
Cached_AnyBlock(b) == num_in_clump # 0
Cached(b) == num_in_clump # 0 /\ current_block_index = b

\* mds__get. Callers ask for positions a reader was told of, which lie in the
\* mapped blocks.
Get(i) ==
  LET b == i \div Clump
      s == i % Clump
  IN
  /\ phase = "r" /\ b < MappedBlocks
  /\ IF Cached(b)
       THEN UNCHANGED cache
       ELSE /\ index' = Decoded(BlockAt(b), index)
            /\ num_in_clump' = NumDecoded(BlockAt(b))
            /\ current_block_index' = b
  /\ got' = IF s < num_in_clump'
              THEN [index |-> i, offset |-> index'[s].offset, size |-> index'[s].size]
              ELSE [NoGet EXCEPT !.index = i]
  /\ UNCHANGED <<phase, writer, len>>

\* The block mds__len takes for the last one with messages.
LastDataBlock_ZeroBlock == fileBlocks - 1
LastDataBlock == fileBlocks - 2

\* mds__len. The block before the first is memory below the mapping: anything
\* may be decoded from it, if it can be read at all.
LenRead ==
  /\ phase = "r"
  /\ IF BlockAt(fileBlocks - 1) # ZeroBlock
       THEN phase' = "exited" /\ UNCHANGED len
       ELSE IF LastDataBlock >= 0
         THEN /\ len' = LastDataBlock * Clump + NumDecoded(BlockAt(LastDataBlock))
              /\ UNCHANGED phase
         ELSE \/ phase' = "exited" /\ UNCHANGED len
              \/ \E n \in 0 .. Clump : len' = LastDataBlock * Clump + n /\ UNCHANGED phase
  /\ UNCHANGED <<cache, writer, got>>

LenWrite ==
  /\ phase = "w"
  /\ len' = msg_count
  /\ UNCHANGED <<phase, cache, writer, got>>

(***************************************************************************)
(* The specification                                                       *)
(***************************************************************************)

\* Appended messages fit the bound, and so do the positions asked for.
Positions == 0 .. MaxMsgs + Clump

Next ==
  \/ SetupWrite \/ FinalFlush \/ CutData \/ CutIndex \/ Crash
  \/ \E size \in Sizes : Append1(size)
  \/ SetupRead \/ TeardownRead \/ LenRead \/ LenWrite
  \/ \E i \in Positions : Get(i)

Spec == Init /\ [][Next]_vars

(***************************************************************************)
(* Properties                                                              *)
(***************************************************************************)

Blocks == [base : Nat, sizes : [Slots -> Nat]]

\* Types; a clump in the making is never full between two appends (mds.c:117-134).
TypeOK ==
  /\ phase \in {"none", "w", "flushed", "cut", "stored", "r", "exited"}
  /\ index \in [Slots -> [offset : Nat \cup {Garbage}, size : Nat \cup {Garbage}]]
  /\ num_in_clump \in 0 .. (IF phase = "w" THEN Clump - 1 ELSE Clump)
  /\ current_block_index \in Nat /\ msg_count \in Nat /\ dataOffset \in Nat
  /\ dataCut \in BOOLEAN
  /\ blocks \in Seq(Blocks) /\ fileBlocks \in Nat
  /\ got \in [index : Nat \cup {-1}, offset : Nat, size : Nat]
  /\ len \in Int
  /\ msgs \in Seq([offset : Nat, size : Nat])

\* The messages whose clump has reached the index file: all of them once
\* mds__teardown has flushed, whole clumps before.
Flushed == IF Len(blocks) * Clump >= Len(msgs) THEN Len(msgs) ELSE Len(blocks) * Clump

ClumpStart(i) == (i \div Clump) * Clump

\* The sizes of message i and of those before it in its clump fit 20 bits and
\* are not zero, and the offset of the clump fits 40.
Packable(i) ==
  /\ \A j \in ClumpStart(i) .. i : msgs[j + 1].size \in 1 .. SizeMod - 1
  /\ msgs[ClumpStart(i) + 1].offset < OffsetMod

\* A message in the index file whose clump packs is given whole, however the
\* writing process ended, and whatever was asked for before (mds.c:136-172).
GetExact ==
  got.index \in 0 .. Flushed - 1 /\ Packable(got.index) =>
    got.offset = msgs[got.index + 1].offset /\ got.size = msgs[got.index + 1].size

\* A position whose clump has only sizes that fit 20 bits gives its message or
\* nothing, never a part of another message.
GetExactOrNothing ==
  got.index \in 0 .. Len(msgs) - 1
    /\ (\A j \in ClumpStart(got.index) .. got.index : msgs[j + 1].size < SizeMod)
    /\ msgs[ClumpStart(got.index) + 1].offset < OffsetMod
    => \/ got.size = 0
       \/ got.offset = msgs[got.index + 1].offset /\ got.size = msgs[got.index + 1].size

\* The index file ended as mds__teardown leaves it.
Truncated == phase \in {"stored", "r"} /\ fileBlocks = Len(blocks)

\* The length of a database that was torn down is the number of messages, if the
\* last clump packs (mds.c:174-226).
LenExact ==
  len # NoLen /\ (phase # "w" => Truncated /\ Packable(Len(msgs) - 1)) => len = Len(msgs)

\* "Flush a possibly partial set and add a zeroed out set at the end" (mds.c:45);
\* "Last block in file should be all zero" (mds.c:178).
LastBlockZero ==
  Truncated /\ msgs # <<>> => fileBlocks > 0 /\ BlockAt(fileBlocks - 1) = ZeroBlock

(***************************************************************************)
(* The log of messages it implements                                       *)
(***************************************************************************)

\* Nothing is promised of a message whose clump does not pack.
Unkept == [offset |-> -1, size |-> -1]
Kept(i) == IF Packable(i) THEN msgs[i + 1] ELSE Unkept

\* What can be read back: everything so far while the writer runs.
Log == [i \in 1 .. IF phase \in {"none", "w"} THEN Len(msgs) ELSE Flushed |-> Kept(i - 1)]

Read == [index |-> got.index,
         message |-> IF got.index \in 0 .. Flushed - 1 /\ ~Packable(got.index) THEN Unkept
                     ELSE IF got.size = 0 THEN NoGet
                     ELSE [offset |-> got.offset, size |-> got.size]]

L == INSTANCE MessageLog WITH
       Messages <- [offset : 0 .. OffsetMod + Clump * SizeMod, size : Sizes] \cup {Unkept},
       Positions <- Positions, Nothing <- NoGet,
       log <- Log, writing <- phase = "w", answer <- Read

LogSpec == L!Spec

=============================================================================
