------------------------------- MODULE Mmbuf -------------------------------
(***************************************************************************)
(* The growable memory-mapped file under every store of PulpDB             *)
(* (src/src/common/mmbuf.c): one mmbuf__obj and the file it maps, over any *)
(* number of write and read sessions.                                      *)
(*                                                                         *)
(* A call that reserves space is three kinds of step: the call, the        *)
(* iterations of its `while (offset + length > filesize) grow_file(...)`   *)
(* loop, and the return.  Byte contents are left out: positions, lengths   *)
(* and mappings are what the callers depend on.                            *)
(* An operator named X_<fault> is a faulty variant of X.                   *)
(***************************************************************************)
EXTENDS Integers

CONSTANTS
  InitialSize,   (* BLOCKSIZE*BLOCKSIZE: what setup stretches a new file to *)
  Block,         (* BLOCKSIZE: the page size                                *)
  Lengths,       (* the lengths callers ask for                             *)
  MaxOffset      (* bound: a file never holds more bytes than this          *)

\* grow_file leaves filesize = floor(1.5 * filesize) - 1, which is larger than
\* filesize only from 4 on; setup starts at InitialSize - 1.
ASSUME InitialAssumption == InitialSize \in Nat /\ InitialSize >= 5
ASSUME BlockAssumption   == Block \in Nat \ {0}
ASSUME LengthAssumption  == Lengths \subseteq Nat
ASSUME BoundAssumption   == MaxOffset \in Nat

\* Bound: growing is followed up to this length of the file only. A call that
\* fits MaxOffset never comes near it, as CallReturns shows.
MaxDisk == 8 * (InitialSize + MaxOffset)

VARIABLES
  mode,          (* "none": not set up; "w", "r"; "exited": exit(EXIT_FAILURE) *)
  filesize,      (* m->filesize: the bytes the object believes are mapped      *)
  offset,        (* m->offset: where the next byte goes                        *)
  free_boundary, (* m->free_boundary                                           *)
  map,           (* m->map, as the number of the mapping                       *)
  liveMap,       (* the mapping the kernel has (moved by mremap); 0 for none   *)
  diskLen,       (* the length of the file in the file system                  *)
  req,           (* the space-reserving call in progress                       *)
  ptr,           (* the last pointer handed out, until the next operation      *)
  written,       (* history: bytes handed out or stored in the last 'w' session *)
  clean          (* history: that session ended with mmbuf__teardown           *)

object == <<mode, filesize, offset, free_boundary, map>>
fileVars == <<mode, filesize, offset, free_boundary, map, liveMap, diskLen,
              req, ptr, written, clean>>

NoReq == [op |-> "none", len |-> 0]
NoPtr == [map |-> 0, pos |-> 0, len |-> 0]
Ops   == {"append", "alloc", "pos_alloc"}

FileInit ==
  /\ mode = "none"
  /\ filesize = 0 /\ offset = 0 /\ free_boundary = 0
  /\ map = 0 /\ liveMap = 0
  /\ diskLen = 0
  /\ req = NoReq /\ ptr = NoPtr
  /\ written = 0 /\ clean = TRUE

(***************************************************************************)
(* Set up                                                                  *)
(***************************************************************************)

\* m->filesize*1.5, computed in double and truncated to off_t.
GrowAmount_OneMore(size) == size + 1
GrowAmount(size) == (3 * size) \div 2

\* grow_file counts one byte less than it makes the file longer by.
Counted_Overcounted(amount) == amount * 3
Counted(amount) == amount - 1

\* O_TRUNC, then grow_file(InitialSize) with nothing mapped yet, then mmap.
SetupWrite ==
  /\ mode = "none"
  /\ mode' = "w"
  /\ diskLen' = InitialSize
  /\ filesize' = Counted(InitialSize)
  /\ offset' = 0 /\ free_boundary' = 0
  /\ liveMap' = 1 /\ map' = liveMap'
  /\ written' = 0 /\ clean' = FALSE
  /\ UNCHANGED <<req, ptr>>

\* The whole file is mapped; mmap refuses length 0 and the process exits.
SetupRead ==
  /\ mode = "none"
  /\ filesize' = diskLen
  /\ offset' = 0 /\ free_boundary' = 0
  /\ IF diskLen = 0
       THEN mode' = "exited" /\ UNCHANGED <<map, liveMap>>
       ELSE mode' = "r" /\ liveMap' = 1 /\ map' = liveMap'
  /\ UNCHANGED <<diskLen, req, ptr, written, clean>>

(***************************************************************************)
(* Reserving space: mmbuf__append, mmbuf__alloc, mmbuf__pos_alloc          *)
(***************************************************************************)

\* The test of the three loops.
TooSmall == offset + req.len > filesize

Call(op, len) ==
  /\ mode = "w" /\ req = NoReq
  /\ offset + len <= MaxOffset
  /\ req' = [op |-> op, len |-> len]
  /\ ptr' = NoPtr
  /\ UNCHANGED <<object, liveMap, diskLen, written, clean>>

\* m->map = new_mapping: the old mapping is gone once mremap returns.
AfterRemap_Forgotten(old, new) == old
AfterRemap(old, new) == new

\* grow_file(filesize*1.5): seeks amount-1 on from the end of the file and
\* writes one byte, so the file grows by amount. mremap may move the mapping.
Grow ==
  /\ req # NoReq /\ TooSmall
  /\ diskLen <= MaxDisk
  /\ diskLen' = diskLen + GrowAmount(filesize)
  /\ filesize' = Counted(GrowAmount(filesize))
  /\ liveMap' \in {liveMap, liveMap + 1}
  /\ map' = AfterRemap(map, liveMap')
  /\ UNCHANGED <<mode, offset, free_boundary, req, ptr, written, clean>>

\* The loop has ended. Only alloc hands out a pointer; append has copied the
\* bytes, pos_alloc returns the old offset.
Return ==
  /\ req # NoReq /\ ~TooSmall
  /\ ptr' = IF req.op = "alloc"
              THEN [map |-> map, pos |-> offset, len |-> req.len]
              ELSE NoPtr
  /\ offset' = offset + req.len
  /\ written' = offset'
  /\ req' = NoReq
  /\ UNCHANGED <<mode, filesize, free_boundary, map, liveMap, diskLen, clean>>

\* A pointer to a position pos_alloc gave out before.
PosTmpPtr(position) ==
  /\ mode = "w" /\ req = NoReq
  /\ position < offset
  /\ ptr' = [map |-> map, pos |-> position, len |-> 1]
  /\ UNCHANGED <<object, liveMap, diskLen, req, written, clean>>

(***************************************************************************)
(* Reading                                                                 *)
(***************************************************************************)

\* The number of bytes mmbuf__get_data says are at position.
Available(position, len) ==
  IF position > filesize THEN 0
  ELSE IF position + len > filesize THEN filesize - position ELSE len

GetData(position, len) ==
  /\ mode = "r"
  /\ ptr' = IF Available(position, len) = 0 THEN NoPtr
            ELSE [map |-> map, pos |-> position, len |-> Available(position, len)]
  /\ UNCHANGED <<object, liveMap, diskLen, req, written, clean>>

\* data_not_in_use_limit & ~(BLOCKSIZE-1).
BlockBelow_Unaligned(low) == low - 1
BlockBelow(low) == ((low - 1) \div Block) * Block
\* Drops the pages wholly below low; called with low inside the mapping.
FreeData(low) ==
  /\ mode = "r"
  /\ low \in 1 .. filesize
  /\ BlockBelow(low) > free_boundary
  /\ free_boundary' = BlockBelow(low)
  /\ ptr' = NoPtr
  /\ UNCHANGED <<mode, filesize, offset, map, liveMap, diskLen, req, written, clean>>

(***************************************************************************)
(* The end of a session                                                    *)
(***************************************************************************)

\* ftruncate(m->fd, m->offset), of a writer only.
LengthLeft_Untruncated == diskLen
LengthLeft == IF mode = "w" THEN offset ELSE diskLen

\* A writer truncates the file to what was used; a reader only unmaps.
Teardown ==
  /\ mode \in {"w", "r"} /\ req = NoReq
  /\ mode' = "none"
  /\ diskLen' = LengthLeft
  /\ liveMap' = 0
  /\ ptr' = NoPtr
  /\ clean' = (clean \/ mode = "w")
  /\ UNCHANGED <<filesize, offset, free_boundary, map, req, written>>

\* The process dies. The mapping is shared, so the file keeps what was stored
\* in it, and its stretched length.
Crash ==
  /\ mode # "none"
  /\ mode' = "none"
  /\ liveMap' = 0
  /\ req' = NoReq /\ ptr' = NoPtr
  /\ UNCHANGED <<filesize, offset, free_boundary, map, diskLen, written, clean>>

(***************************************************************************)
(* The specification                                                       *)
(***************************************************************************)

FileNext ==
  \/ SetupWrite \/ SetupRead
  \/ \E op \in Ops, len \in Lengths : Call(op, len)
  \/ Grow \/ Return
  \/ \E position \in 0 .. MaxOffset : PosTmpPtr(position)
  \/ \E position \in 0 .. MaxOffset, len \in Lengths : GetData(position, len)
  \/ \E low \in 1 .. MaxOffset : FreeData(low)
  \/ Teardown \/ Crash

\* Nothing but the end of the process can stop the loop of a call once begun.
FileSpec == FileInit /\ [][FileNext]_fileVars /\ WF_fileVars(Grow) /\ WF_fileVars(Return)

(***************************************************************************)
(* Properties                                                              *)
(***************************************************************************)

\* The types of the object's fields, of the file's and of the history.
FileTypeOK ==
  /\ mode \in {"none", "w", "r", "exited"}
  /\ filesize \in Nat /\ offset \in Nat
  /\ free_boundary \in {b \in 0 .. filesize : b % Block = 0}
  /\ map \in Nat /\ liveMap \in Nat
  /\ diskLen \in Nat
  /\ req \in [op : Ops \cup {"none"}, len : Nat]
  /\ ptr \in [map : Nat, pos : Nat, len : Nat]
  /\ written \in Nat /\ clean \in BOOLEAN

\* Every byte a writer has handed out, or is about to hand out without growing,
\* is in the mapping, and every byte of the mapping is in the file: no store
\* through an mmbuf pointer faults (mmbuf.c:31-56, 189-233).
Backed ==
  mode = "w" => /\ offset <= filesize
                /\ filesize < diskLen
                /\ liveMap # 0

\* "(Pointer is tmp) ... Must be used before the next mmbuf operation": until
\* then a pointer, or the range get_data gave, lies inside the mapping the
\* kernel has now, wherever mremap moved it (mmbuf.h:35).
TmpPtrLive ==
  ptr # NoPtr => /\ ptr.map = liveMap
                 /\ ptr.pos + ptr.len <= filesize

\* A reader maps at least every byte of the last write session, whether the
\* writer tore down or died, and exactly those after a teardown.
ReaderSeesWritten ==
  mode = "r" => /\ written <= filesize
                /\ clean => filesize = written

\* The growth loop of every call ends (mmbuf.c:193, 206, 224).
CallReturns == req # NoReq ~> req = NoReq

=============================================================================
