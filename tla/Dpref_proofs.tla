---------------------------- MODULE Dpref_proofs ----------------------------
(***************************************************************************)
(* Proofs about Mmbuf and about Dpref, whose file is an Mmbuf: for every   *)
(* initial size from 5 bytes on, every block size and every set of request *)
(* lengths; for any number of streams, references per page and length of   *)
(* the streams.                                                            *)
(***************************************************************************)
EXTENDS Dpref, DataLemmas

-----------------------------------------------------------------------------

(***************************************************************************)
(* The file                                                                *)
(***************************************************************************)

\* What a writing session keeps true: the loop starts from a size that grows,
\* the object knows the kernel's mapping, and the history follows the offset.
Writing ==
  mode = "w" => /\ 4 <= filesize /\ filesize < diskLen
                /\ offset <= filesize
                /\ map = liveMap /\ liveMap # 0
                /\ written = offset /\ ~clean

\* What a reading session keeps true.
Reading ==
  mode = "r" => filesize = diskLen /\ map = liveMap /\ liveMap # 0

\* The file between write sessions: it holds at least what was written.
Between ==
  mode # "w" => /\ written <= diskLen
                /\ clean => written = diskLen

\* Calls and pointers exist only inside a session.
Sessions ==
  /\ mode # "w" => req = NoReq
  /\ req # NoReq => ptr = NoPtr
  /\ mode \notin {"w", "r"} => ptr = NoPtr

\* The inductive invariant.
FileIInv == FileTypeOK /\ Writing /\ Reading /\ Between /\ Sessions /\ TmpPtrLive

\* grow_file makes a mapping of 4 bytes or more longer (mmbuf.c:31-56).
LEMMA GrowAmountGrows ==
  ASSUME NEW size \in Nat, size >= 4
  PROVE  /\ GrowAmount(size) \in Nat
         /\ Counted(GrowAmount(size)) \in Nat
         /\ Counted(GrowAmount(size)) > size
  BY DEF GrowAmount, Counted

\* mmbuf__free_data's boundary is a block boundary at or below low.
LEMMA BlockBelowAligned ==
  ASSUME NEW low \in Nat, low >= 1
  PROVE  /\ BlockBelow(low) \in 0 .. low
         /\ BlockBelow(low) % Block = 0
  <1> USE BlockAssumption
  <1> DEFINE q == (low - 1) \div Block
  <1>1. q \in Nat /\ q * Block <= low - 1
    BY Z3
  <1>2. q * Block \in Nat
    BY <1>1
  <1>3. (q * Block) % Block = 0
    BY <1>1, Z3
  <1>4. QED
    BY <1>1, <1>2, <1>3 DEF BlockBelow

LEMMA InitFileIInv == FileInit => FileIInv
  BY BlockAssumption
     DEF FileInit, FileIInv, FileTypeOK, Writing, Reading, Between, Sessions, TmpPtrLive,
         NoReq, NoPtr, Ops

\* Every step keeps the invariant, an action at a time.
LEMMA NextFileIInv == FileIInv /\ [FileNext]_fileVars => FileIInv'
  <1> SUFFICES ASSUME FileIInv, [FileNext]_fileVars
               PROVE  FileIInv'
    OBVIOUS
  <1> USE InitialAssumption, BlockAssumption, LengthAssumption, BoundAssumption
  <1> USE DEF FileIInv, Writing, Reading, Between, Sessions, TmpPtrLive, object
  <1>1. CASE SetupWrite
    <2>1. /\ Counted(InitialSize) \in Nat /\ Counted(InitialSize) >= 4
          /\ Counted(InitialSize) < InitialSize
      BY DEF Counted
    <2>2. req = NoReq /\ ptr = NoPtr
      BY <1>1 DEF SetupWrite
    <2>3. 0 \in {b \in 0 .. Counted(InitialSize) : b % Block = 0}
      BY <2>1
    <2>4. FileTypeOK'
      BY <1>1, <2>1, <2>3 DEF SetupWrite, FileTypeOK
    <2>5. QED
      BY <1>1, <2>1, <2>2, <2>4 DEF SetupWrite
  <1>2. CASE SetupRead
    <2>1. 0 % Block = 0
      OBVIOUS
    <2>2. QED
      BY <1>2, <2>1 DEF SetupRead, FileTypeOK
  <1>3. ASSUME NEW op \in Ops, NEW len \in Lengths, Call(op, len)
        PROVE  FileIInv'
    BY <1>3 DEF Call, FileTypeOK, NoReq, NoPtr
  <1>4. CASE Grow
    <2>1. mode = "w"
      BY <1>4 DEF Grow
    <2>2. /\ GrowAmount(filesize) \in Nat
          /\ Counted(GrowAmount(filesize)) \in Nat
          /\ Counted(GrowAmount(filesize)) > filesize
      BY <2>1, GrowAmountGrows DEF FileTypeOK
    <2>3. Counted(GrowAmount(filesize)) < diskLen + GrowAmount(filesize)
      BY <2>1, <2>2 DEF FileTypeOK, Counted
    <2>4. ptr = NoPtr
      BY <1>4 DEF Grow
    <2>5. QED
      BY <1>4, <2>1, <2>2, <2>3, <2>4 DEF Grow, FileTypeOK, AfterRemap
  <1>5. CASE Return
    <2>1. mode = "w"
      BY <1>5 DEF Return
    <2>2. req.len \in Nat /\ offset + req.len <= filesize
      BY <1>5 DEF Return, TooSmall, FileTypeOK
    <2>3. NoReq \in [op : Ops \cup {"none"}, len : Nat]
      BY DEF NoReq
    <2>4. QED
      BY <1>5, <2>1, <2>2, <2>3 DEF Return, FileTypeOK, NoPtr
  <1>6. ASSUME NEW position \in 0 .. MaxOffset, PosTmpPtr(position)
        PROVE  FileIInv'
    BY <1>6 DEF PosTmpPtr, FileTypeOK, NoPtr
  <1>7. ASSUME NEW position \in 0 .. MaxOffset, NEW len \in Lengths,
               GetData(position, len)
        PROVE  FileIInv'
    <2>1. /\ Available(position, len) \in Nat
          /\ Available(position, len) # 0 =>
               position + Available(position, len) <= filesize
      BY DEF Available, FileTypeOK
    <2>2. QED
      BY <1>7, <2>1 DEF GetData, FileTypeOK, NoPtr
  <1>8. ASSUME NEW low \in 1 .. MaxOffset, FreeData(low)
        PROVE  FileIInv'
    <2>1. low <= filesize
      BY <1>8 DEF FreeData, FileTypeOK
    <2>2. BlockBelow(low) \in {b \in 0 .. filesize : b % Block = 0}
      BY <2>1, BlockBelowAligned DEF FileTypeOK
    <2>3. QED
      BY <1>8, <2>2 DEF FreeData, FileTypeOK, NoPtr
  <1>9. CASE Teardown
    BY <1>9 DEF Teardown, LengthLeft, FileTypeOK, NoPtr
  <1>10. CASE Crash
    BY <1>10 DEF Crash, FileTypeOK, NoPtr, NoReq
  <1>11. CASE UNCHANGED fileVars
    BY <1>11 DEF fileVars, FileTypeOK
  <1>12. QED
    BY <1>1, <1>2, <1>3, <1>4, <1>5, <1>6, <1>7, <1>8, <1>9, <1>10, <1>11 DEF FileNext

THEOREM FileInvariantHolds == FileSpec => []FileIInv
  BY InitFileIInv, NextFileIInv, PTL DEF FileSpec

\* The fields keep their types (mmbuf.h:15-23).
THEOREM FileTypesHold == FileSpec => []FileTypeOK
  BY FileInvariantHolds, PTL DEF FileIInv

\* No store through an mmbuf pointer leaves the file, however often it grew
\* and however far the process got (mmbuf.c:31-56, 189-233).
THEOREM AlwaysBacked == FileSpec => []Backed
  <1>1. FileIInv => Backed
    BY DEF FileIInv, Writing, Backed, FileTypeOK
  <1>2. QED
    BY <1>1, FileInvariantHolds, PTL

\* A pointer is usable until the next operation (mmbuf.h:35).
THEOREM PointersLive == FileSpec => []TmpPtrLive
  BY FileInvariantHolds, PTL DEF FileIInv

\* A reader maps all that the last write session stored (mmbuf.c:85-95, 123-139).
THEOREM ReadersSeeWritten == FileSpec => []ReaderSeesWritten
  <1>1. FileIInv => ReaderSeesWritten
    BY DEF FileIInv, Reading, Between, ReaderSeesWritten
  <1>2. QED
    BY <1>1, FileInvariantHolds, PTL

\* The safety half of CallReturns: every iteration of a growth loop brings the
\* mapping strictly closer to the size the call needs (mmbuf.c:193, 206, 224).
THEOREM GrowthProgresses == FileSpec => [][Grow => filesize' > filesize]_fileVars
  <1>1. FileIInv /\ [FileNext]_fileVars => [Grow => filesize' > filesize]_fileVars
    <2>1. FileIInv /\ Grow => filesize' > filesize
      <3> SUFFICES ASSUME FileIInv, Grow PROVE filesize' > filesize
        OBVIOUS
      <3>1. filesize \in Nat /\ filesize >= 4
        BY DEF FileIInv, FileTypeOK, Writing, Sessions, Grow
      <3>2. QED
        BY <3>1, GrowAmountGrows DEF Grow
    <2>2. QED
      BY <2>1
  <1>2. QED
    BY <1>1, FileInvariantHolds, PTL DEF FileSpec

-----------------------------------------------------------------------------

(***************************************************************************)
(* The reference store                                                     *)
(***************************************************************************)

Allocating == call # NoCall /\ call.op \in {"setup", "link"}

\* The file: which call runs when, and the mapping the writer goes through.
FileInv ==
  /\ mode \in {"none", "w", "r", "exited"}
  /\ mode = "w" => map = liveMap /\ filesize >= 4
  /\ Allocating => mode = "w" /\ req # NoReq /\ req.len = PageSize
  /\ ~Allocating => req = NoReq
  /\ rd.state = "open" => mode = "r"
  /\ (call # NoCall /\ call.op = "geti") => rd.state = "open"

\* The pages handed out lie below the offset the next one is given.
PagesInv ==
  /\ mode = "w" => \A p \in DOMAIN pages : p < offset
  /\ mode = "w" /\ DOMAIN pages = {} => offset = 0
  /\ mode # "w" /\ DOMAIN pages # {} => diskLen > 0
  /\ DOMAIN pages # {} => 0 \in DOMAIN pages
  /\ \A p \in DOMAIN pages : pages[p].next \in DOMAIN pages \cup {-1, 0}

\* A writer's buffer stands in the last page of its stream, refs_index slots in.
BufInv(b) ==
  /\ \A k \in 1 .. Len(chain[b]) : chain[b][k] \in DOMAIN pages
  /\ buf[b].state = "none" => chain[b] = <<>> /\ appended[b] = <<>>
  /\ buf[b].state # "none" =>
       /\ Len(chain[b]) >= 1
       /\ buf[b].first = chain[b][1]
       /\ buf[b].current = chain[b][Len(chain[b])]
  /\ buf[b].state = "open" =>
       /\ mode = "w"
       /\ buf[b].refs_index \in 0 .. PerPage
       /\ Len(appended[b]) = (Len(chain[b]) - 1) * PerPage + buf[b].refs_index
       /\ buf[b].refs_index = PerPage <=>
            Allocating /\ call.op = "link" /\ call.buf = b
  /\ buf[b].state = "closed" => Len(appended[b]) < Len(chain[b]) * PerPage
  /\ Allocating /\ call.buf = b =>
       /\ call.op = "setup" => buf[b].state = "none"
       /\ call.op = "link" => buf[b].state = "open"

\* The reader has followed k links. Beyond the stream's pages it may be anywhere.
ReaderInv ==
  rd.state = "open" =>
    /\ buf[rd.stream].state = "closed"
    /\ rd.current \in DOMAIN pages
    /\ \E k \in Nat : /\ rd.global_index = k * PerPage
                      /\ k < Len(chain[rd.stream]) => rd.current = chain[rd.stream][k + 1]

\* Answers are of the stream the reader stands in.
AnswerInv == answer # NoAnswer => rd.state = "open"

IInv == /\ TypeOK /\ FileInv /\ PagesInv /\ (\A b \in Bufs : BufInv(b))
        /\ ChainsLinked /\ RefsInPlace /\ ReaderInv /\ AnswerInv /\ GetiExact

-----------------------------------------------------------------------------

(***************************************************************************)
(* Where a reference lies: page k holds positions k*PerPage on.            *)
(***************************************************************************)

LEMMA PerPagePositive == PerPage \in Nat /\ PerPage >= 1
  BY PerPageAssumption

\* Later pages hold later positions.
LEMMA PagesOrdered ==
  ASSUME NEW a \in Nat, NEW b \in Nat, a <= b
  PROVE  /\ a * PerPage \in Nat /\ b * PerPage \in Nat
         /\ a * PerPage <= b * PerPage
         /\ (a + 1) * PerPage = a * PerPage + PerPage
  <1>1. PICK d \in Nat : b = a + d
    <2>1. b - a \in Nat /\ b = a + (b - a)
      OBVIOUS
    <2>2. QED
      BY <2>1
  <1>2. d * PerPage \in Nat /\ a * PerPage \in Nat /\ b * PerPage \in Nat
    BY <1>1, PerPagePositive
  <1>3. b * PerPage = a * PerPage + d * PerPage
    BY <1>1, PerPagePositive
  <1>4. (a + 1) * PerPage = a * PerPage + PerPage
    BY PerPagePositive
  <1>5. QED
    BY <1>2, <1>3, <1>4

\* A position that is in or past page a, and before page c, shows a < c.
LEMMA PageBefore ==
  ASSUME NEW a \in Nat, NEW c \in Nat, NEW i \in Nat,
         a * PerPage <= i, i < c * PerPage
  PROVE  a < c
  <1> SUFFICES ASSUME c <= a PROVE FALSE
    OBVIOUS
  <1>1. c * PerPage <= a * PerPage /\ c * PerPage \in Nat /\ a * PerPage \in Nat
    BY PagesOrdered
  <1>2. QED
    BY <1>1

\* A position lies in one slot of one page.
LEMMA PlaceUnique ==
  ASSUME NEW a \in Nat, NEW b \in Nat, NEW s \in Slots, NEW t \in Slots,
         a * PerPage + s = b * PerPage + t
  PROVE  a = b /\ s = t
  <1>1. /\ s \in Nat /\ t \in Nat /\ s < PerPage /\ t < PerPage
        /\ a * PerPage \in Nat /\ b * PerPage \in Nat
    BY PerPagePositive, PagesOrdered DEF Slots
  <1>2. ~ a < b
    <2> SUFFICES ASSUME a < b PROVE FALSE
      OBVIOUS
    <2>1. (a + 1) * PerPage = a * PerPage + PerPage
      BY PagesOrdered
    <2>2. (a + 1) * PerPage <= b * PerPage
      BY PagesOrdered
    <2>3. QED
      BY <1>1, <2>1, <2>2, PerPagePositive
  <1>3. ~ b < a
    <2> SUFFICES ASSUME b < a PROVE FALSE
      OBVIOUS
    <2>1. (b + 1) * PerPage = b * PerPage + PerPage
      BY PagesOrdered
    <2>2. (b + 1) * PerPage <= a * PerPage
      BY PagesOrdered
    <2>3. QED
      BY <1>1, <2>1, <2>2, PerPagePositive
  <1>4. a = b
    BY <1>2, <1>3
  <1>5. QED
    BY <1>1, <1>4

-----------------------------------------------------------------------------

LEMMA InitIInv == Init => IInv
  <1> SUFFICES ASSUME Init PROVE IInv
    OBVIOUS
  <1> USE DEF Init, FileInit, NoReq, NoBuf, NoCall, NoAnswer
  <1>1. TypeOK
    BY PerPagePositive DEF TypeOK, FileTypes, StreamTypes
  <1>2. FileInv /\ PagesInv
    BY DEF FileInv, PagesInv, Allocating
  <1>3. ASSUME NEW b \in Bufs PROVE BufInv(b)
    BY DEF BufInv, Allocating
  <1>4. ChainsLinked /\ RefsInPlace /\ ReaderInv /\ AnswerInv
    BY DEF ChainsLinked, RefsInPlace, ReaderInv, AnswerInv
  <1>5. GetiExact
    BY DEF GetiExact
  <1>6. QED
    BY <1>1, <1>2, <1>3, <1>4, <1>5 DEF IInv

\* Steps that leave the streams and the buffers alone, and change the file only
\* in ways FileInv and PagesInv see, keep the rest.
LEMMA SameStreams ==
  ASSUME IInv, UNCHANGED <<pages, buf, chain, appended, rd, call, answer>>,
         FileTypes', FileInv', PagesInv',
         \A b \in Bufs : buf[b].state = "open" => mode' = "w"
  PROVE  IInv'
  <1>0. StreamTypes'
    BY DEF IInv, TypeOK, StreamTypes
  <1>1. ASSUME NEW b \in Bufs PROVE BufInv(b)'
    BY DEF IInv, BufInv, Allocating
  <1>2. (ChainsLinked /\ RefsInPlace /\ ReaderInv /\ AnswerInv /\ GetiExact)'
    BY DEF IInv, ChainsLinked, RefsInPlace, ReaderInv, AnswerInv, GetiExact, NoAnswer
  <1>3. QED
    BY <1>0, <1>1, <1>2 DEF IInv, TypeOK

LEMMA OpenWriteStep == IInv /\ OpenWrite => IInv'
  <1> SUFFICES ASSUME IInv, OpenWrite PROVE IInv'
    OBVIOUS
  <1> USE DEF OpenWrite, SetupWrite
  <1>1. FileTypes'
    BY InitialAssumption DEF FileTypes, TypeOK, IInv, Counted
  <1>2. PagesInv /\ mode # "w" /\ diskLen = 0
    BY DEF IInv
  <1>3. DOMAIN pages = {}
    <2>1. ~ (0 > 0)
      OBVIOUS
    <2>2. QED
      BY <1>2, <2>1 DEF PagesInv
  <1>4. FileInv' /\ PagesInv'
    <2>1. FileInv'
      BY InitialAssumption DEF Counted, FileInv, Allocating, IInv
    <2>2. PagesInv'
      BY <1>2, <1>3 DEF PagesInv
    <2>3. QED
      BY <2>1, <2>2
  <1>5. QED
    BY <1>1, <1>4, SameStreams

LEMMA OpenReadStep == IInv /\ OpenRead => IInv'
  <1> SUFFICES ASSUME IInv, OpenRead PROVE IInv'
    OBVIOUS
  <1> USE DEF OpenRead, SetupRead
  <1>1. FileTypes'
    BY DEF FileTypes, TypeOK, IInv
  <1>2. FileInv'
    BY DEF FileInv, Allocating, IInv
  <1>3. PagesInv'
    BY DEF PagesInv, IInv, TypeOK, FileTypes
  <1>4. \A b \in Bufs : buf[b].state # "open"
    BY DEF IInv, BufInv
  <1>5. QED
    BY <1>1, <1>2, <1>3, <1>4, SameStreams

LEMMA CloseStep == IInv /\ Close => IInv'
  <1> SUFFICES ASSUME IInv, Close PROVE IInv'
    OBVIOUS
  <1> USE DEF Close, Teardown, LengthLeft
  <1>1. FileTypes'
    BY DEF FileTypes, TypeOK, IInv
  <1>2. FileInv'
    BY DEF FileInv, Allocating, IInv
  <1>3. PagesInv'
    <2>1. CASE mode = "w"
      <3>1. DOMAIN pages # {} => offset > 0
        BY <2>1 DEF PagesInv, IInv, TypeOK, FileTypes
      <3>2. QED
        BY <2>1, <3>1 DEF PagesInv, IInv
    <2>2. CASE mode # "w"
      BY <2>2 DEF PagesInv, IInv
    <2>3. QED
      BY <2>1, <2>2
  <1>4. QED
    BY <1>1, <1>2, <1>3, SameStreams

LEMMA GrowFileStep == IInv /\ GrowFile => IInv'
  <1> SUFFICES ASSUME IInv, GrowFile PROVE IInv'
    OBVIOUS
  <1> USE DEF GrowFile, Grow
  <1>1. mode = "w" /\ mode' = "w"
    BY DEF IInv, FileInv
  <1>2. /\ GrowAmount(filesize) \in Nat
        /\ Counted(GrowAmount(filesize)) \in Nat
        /\ Counted(GrowAmount(filesize)) >= 4
    <2>1. filesize \in Nat /\ filesize >= 4
      BY <1>1 DEF IInv, TypeOK, FileTypes, FileInv
    <2>2. QED
      BY <2>1 DEF GrowAmount, Counted
  <1>3. FileTypes' /\ FileInv'
    <2>1. FileTypes'
      BY <1>2 DEF FileTypes, TypeOK, IInv, AfterRemap
    <2>2. FileInv'
      BY <1>1, <1>2 DEF FileInv, Allocating, IInv, AfterRemap
    <2>3. QED
      BY <2>1, <2>2
  <1>4. PagesInv'
    BY <1>1 DEF PagesInv, IInv
  <1>5. QED
    BY <1>1, <1>3, <1>4, SameStreams

-----------------------------------------------------------------------------

(***************************************************************************)
(* Writing                                                                 *)
(***************************************************************************)

\* A call that asks for a page names a buffer.
LEMMA AllocatingCall ==
  ASSUME StreamTypes, call.op \in {"setup", "link"}
  PROVE  Allocating /\ call \in [op : {"setup", "link"}, buf : Bufs, map : Nat]
  <1>1. call # NoCall
    BY DEF NoCall
  <1>2. call \notin [op : {"geti"}, index : Nat]
    OBVIOUS
  <1>3. QED
    BY <1>1, <1>2 DEF StreamTypes, Allocating

LEMMA SetupBufferStep ==
  ASSUME NEW b \in Bufs, IInv, SetupBuffer(b)
  PROVE  IInv'
  <1> USE DEF SetupBuffer, NewPage, Call, object
  <1>1. /\ mode = "w" /\ mode' = "w" /\ ~Allocating /\ Allocating'
        /\ call' = [op |-> "setup", buf |-> b, map |-> map] /\ call' # NoCall
    BY DEF Allocating, NoCall
  <1>2. FileTypes' /\ FileInv'
    <2>1. FileTypes'
      BY DEF IInv, TypeOK, FileTypes
    <2>2. FileInv'
      BY <1>1 DEF IInv, FileInv, NoReq
    <2>3. QED
      BY <2>1, <2>2
  <1>3. StreamTypes'
    <2>1. call' \in [op : {"setup", "link"}, buf : Bufs, map : Nat]
      BY <1>1 DEF IInv, TypeOK, FileTypes
    <2>2. QED
      BY <2>1 DEF IInv, TypeOK, StreamTypes
  <1>4. PagesInv'
    BY <1>1 DEF IInv, PagesInv
  <1>5. ASSUME NEW c \in Bufs PROVE BufInv(c)'
    BY <1>1 DEF IInv, BufInv
  <1>6. (ChainsLinked /\ RefsInPlace /\ ReaderInv /\ AnswerInv /\ GetiExact)'
    BY DEF IInv, ChainsLinked, RefsInPlace, ReaderInv, AnswerInv, GetiExact, NoAnswer
  <1>7. QED
    BY <1>2, <1>3, <1>4, <1>5, <1>6 DEF IInv, TypeOK

\* What new_page's return leaves: the page is new, the mapping is the kernel's.
LEMMA PageIsNew ==
  ASSUME IInv, PageReturned, Allocating, UNCHANGED rd
  PROVE  /\ mode = "w" /\ mode' = "w" /\ ~Allocating' /\ map = liveMap
         /\ FileTypes' /\ FileInv'
         /\ offset \in Nat /\ offset' = offset + PageSize /\ offset' > offset
         /\ offset \notin DOMAIN pages
         /\ \A p \in DOMAIN pages : p < offset
         /\ ~ rd.state = "open"
  <1> USE DEF PageReturned, Return
  <1>1. mode = "w" /\ mode' = "w" /\ map = liveMap /\ req.len = PageSize
    BY DEF IInv, FileInv
  <1>2. ~Allocating' /\ call' = NoCall /\ req' = NoReq
    BY DEF Allocating
  <1>3. offset \in Nat /\ offset' = offset + PageSize /\ offset' > offset
    BY <1>1, PageSizeAssumption, LengthAssumption DEF IInv, TypeOK, FileTypes
  <1>4. \A p \in DOMAIN pages : p < offset
    BY <1>1 DEF IInv, PagesInv
  <1>5. offset \notin DOMAIN pages
    BY <1>3, <1>4
  <1>6. FileTypes'
    BY <1>3 DEF IInv, TypeOK, FileTypes
  <1>7. ~ rd.state = "open"
    BY <1>1 DEF IInv, FileInv
  <1>8. FileInv'
    <2>1. FileInv
      BY DEF IInv
    <2>2. call'.op # "geti"
      BY <1>2 DEF NoCall
    <2>3. mode' = mode /\ map' = map /\ liveMap' = liveMap /\ filesize' = filesize
      BY DEF Return
    <2>4. QED
      BY <1>1, <1>2, <2>1, <2>2, <2>3 DEF FileInv
  <1>9. QED
    BY <1>1, <1>2, <1>3, <1>4, <1>5, <1>6, <1>7, <1>8

LEMMA BufferReadyStep == IInv /\ BufferReady => IInv'
  <1> SUFFICES ASSUME IInv, BufferReady PROVE IInv'
    OBVIOUS
  <1> USE DEF BufferReady, WithNewPage
  <1> DEFINE b == call.buf
  <1>1. Allocating /\ b \in Bufs /\ call.op = "setup" /\ PageReturned
    BY AllocatingCall DEF IInv, TypeOK
  <1>2. /\ mode = "w" /\ mode' = "w" /\ ~Allocating' /\ map = liveMap
        /\ FileTypes' /\ FileInv'
        /\ offset \in Nat /\ offset' = offset + PageSize /\ offset' > offset
        /\ offset \notin DOMAIN pages
        /\ \A p \in DOMAIN pages : p < offset
        /\ ~ rd.state = "open"
    BY <1>1, PageIsNew
  <1>3. /\ buf[b].state = "none" /\ chain[b] = <<>> /\ appended[b] = <<>>
    BY <1>1 DEF IInv, BufInv
  <1>4. /\ DOMAIN pages' = DOMAIN pages \cup {offset}
        /\ pages'[offset] = ZeroPage
        /\ \A p \in DOMAIN pages : pages'[p] = pages[p]
    BY <1>2
  <1>5. /\ chain' \in [Bufs -> Seq(Nat)] /\ chain'[b] = <<offset>>
        /\ \A c \in Bufs : c # b => chain'[c] = chain[c] /\ buf'[c] = buf[c]
        /\ buf'[b] = [state |-> "open", refs_index |-> 0, global_index |-> 0,
                      first |-> offset, current |-> offset]
        /\ appended' = appended
    <2>1. chain \in [Bufs -> Seq(Nat)] /\ <<offset>> \in Seq(Nat)
      BY <1>2 DEF IInv, TypeOK, StreamTypes
    <2>2. buf = [c \in Bufs |-> buf[c]]
      BY DEF IInv, TypeOK, StreamTypes
    <2>3. QED
      BY <1>1, <2>1, <2>2
  <1>6. StreamTypes'
    <2>1. ZeroPage \in Pages
      BY DEF ZeroPage, Pages
    <2>2. \A p \in DOMAIN pages' : pages'[p] \in Pages
      BY <1>4, <2>1 DEF IInv, TypeOK, StreamTypes
    <2>3. DOMAIN pages' \subseteq Nat
      BY <1>2, <1>4 DEF IInv, TypeOK, StreamTypes
    <2>4. buf' \in [Bufs -> [state : {"none", "open", "closed"}, refs_index : -1 .. PerPage,
                             global_index : Nat, first : Nat, current : Nat]]
      BY <1>1, <1>2, PerPagePositive DEF IInv, TypeOK, StreamTypes
    <2>5. call' = NoCall
      BY <1>1 DEF PageReturned
    <2>6. QED
      BY <2>2, <2>3, <2>4, <2>5, <1>5 DEF IInv, TypeOK, StreamTypes
  <1>7. PagesInv'
    <2>1. DOMAIN pages = {} => offset = 0
      BY <1>2 DEF IInv, PagesInv
    <2>2. 0 \in DOMAIN pages'
      BY <2>1, <1>4 DEF IInv, PagesInv
    <2>3. \A p \in DOMAIN pages' : p < offset'
      BY <1>2, <1>4 DEF IInv, TypeOK, StreamTypes
    <2>4. \A p \in DOMAIN pages' : pages'[p].next \in DOMAIN pages' \cup {-1, 0}
      BY <1>4 DEF IInv, PagesInv, ZeroPage
    <2>5. QED
      BY <1>2, <2>2, <2>3, <2>4 DEF PagesInv
  <1>8. ASSUME NEW c \in Bufs PROVE BufInv(c)'
    <2>1. CASE c = b
      <3>1. Len(chain'[b]) = 1 /\ chain'[b][1] = offset /\ Len(appended'[b]) = 0
        BY <1>3, <1>5
      <3>2. 0 = (1 - 1) * PerPage + 0
        BY PerPagePositive
      <3>3. 0 \in 0 .. PerPage /\ 0 # PerPage
        BY PerPagePositive
      <3>4. \A k \in 1 .. Len(chain'[b]) : chain'[b][k] \in DOMAIN pages'
        BY <1>4, <3>1
      <3>5. QED
        BY <1>2, <1>5, <2>1, <3>1, <3>2, <3>3, <3>4 DEF BufInv
    <2>2. CASE c # b
      BY <1>1, <1>2, <1>4, <1>5, <2>2 DEF IInv, BufInv
    <2>3. QED
      BY <2>1, <2>2
  <1>9. ChainsLinked'
    <2>1. \A c \in Bufs : \A k \in 1 .. Len(chain[c]) :
            chain[c][k] \in DOMAIN pages /\ chain[c][k] # offset
      BY <1>2 DEF IInv, BufInv
    <2>2. Len(chain'[b]) = 1 /\ chain'[b][1] = offset
      BY <1>5
    <2>3. ASSUME NEW c \in Bufs, NEW k \in 1 .. Len(chain'[c]) - 1
          PROVE  pages'[chain'[c][k]].next = chain'[c][k + 1]
      <3>1. c # b
        <4> SUFFICES ASSUME c = b PROVE FALSE
          OBVIOUS
        <4>1. Len(chain'[c]) - 1 = 0
          BY <2>2
        <4>2. k \in 1 .. 0
          BY <4>1, <2>3
        <4>3. QED
          BY <4>2
      <3>2. k \in 1 .. Len(chain[c]) /\ chain'[c] = chain[c] /\ chain[c] \in Seq(Nat)
        BY <3>1, <1>5, <2>3 DEF IInv, TypeOK, StreamTypes
      <3>3. QED
        BY <3>1, <3>2, <2>1, <1>4, <2>3 DEF IInv, ChainsLinked
    <2>4. ASSUME NEW c \in Bufs, NEW d \in Bufs,
                 NEW j \in 1 .. Len(chain'[c]), NEW k \in 1 .. Len(chain'[d]),
                 chain'[c][j] = chain'[d][k]
          PROVE  c = d /\ j = k
      BY <1>5, <2>1, <2>2, <2>4 DEF IInv, ChainsLinked
    <2>5. QED
      BY <2>3, <2>4 DEF ChainsLinked
  <1>10. RefsInPlace'
    <2> SUFFICES ASSUME NEW c \in Bufs, NEW k \in 1 .. Len(chain'[c]), NEW s \in Slots,
                        (k - 1) * PerPage + s < Len(appended'[c])
                 PROVE  pages'[chain'[c][k]].refs[s]
                          = appended'[c][(k - 1) * PerPage + s + 1]
      BY DEF RefsInPlace
    <2>1. CASE c = b
      <3>1. Len(appended'[c]) = 0
        BY <1>3, <1>5, <2>1
      <3>2. k - 1 \in Nat /\ s \in Nat /\ (k - 1) * PerPage \in Nat
        BY <1>5, <2>1, PagesOrdered, PerPagePositive DEF Slots
      <3>3. QED
        BY <3>1, <3>2
    <2>2. CASE c # b
      <3>1. chain[c][k] \in DOMAIN pages /\ chain'[c] = chain[c]
        BY <1>5, <2>2 DEF IInv, BufInv
      <3>2. QED
        BY <1>4, <1>5, <3>1, <2>2 DEF IInv, RefsInPlace
    <2>3. QED
      BY <2>1, <2>2
  <1>11. (ReaderInv /\ AnswerInv /\ GetiExact)'
    BY <1>2 DEF IInv, ReaderInv, AnswerInv, GetiExact, NoAnswer
  <1>12. QED
    BY <1>2, <1>6, <1>7, <1>8, <1>9, <1>10, <1>11 DEF IInv, TypeOK

\* A page of a stream is a page handed out, and so are its first and current.
LEMMA CurrentPage ==
  ASSUME NEW b \in Bufs, IInv, buf[b].state = "open"
  PROVE  /\ chain[b] \in Seq(Nat) /\ Len(chain[b]) \in Nat /\ Len(chain[b]) >= 1
         /\ buf[b].current = chain[b][Len(chain[b])]
         /\ buf[b].current \in DOMAIN pages
         /\ pages[buf[b].current] \in Pages
         /\ appended[b] \in Seq(Refs)
         /\ buf[b].refs_index \in 0 .. PerPage
         /\ Len(appended[b]) = (Len(chain[b]) - 1) * PerPage + buf[b].refs_index
         /\ mode = "w" /\ map = liveMap
  <1>1. chain[b] \in Seq(Nat) /\ Len(chain[b]) \in Nat /\ appended[b] \in Seq(Refs)
    BY DEF IInv, TypeOK, StreamTypes
  <1>2. BufInv(b)
    BY DEF IInv
  <1>3. Len(chain[b]) >= 1 /\ buf[b].current = chain[b][Len(chain[b])]
    BY <1>2 DEF BufInv
  <1>4. buf[b].current \in DOMAIN pages
    BY <1>1, <1>2, <1>3 DEF BufInv
  <1>5. pages[buf[b].current] \in Pages
    BY <1>4 DEF IInv, TypeOK, StreamTypes
  <1>6. mode = "w" /\ map = liveMap
    BY <1>2 DEF BufInv, IInv, FileInv
  <1>7. QED
    BY <1>1, <1>2, <1>3, <1>4, <1>5, <1>6 DEF BufInv

\* A step that rewrites slots of one page only, and not its link.
LEMMA LinksKept ==
  ASSUME IInv, NEW page \in DOMAIN pages, NEW new \in Pages,
         new.next \in {pages[page].next, -1},
         pages' = [pages EXCEPT ![page] = new], UNCHANGED chain,
         \A b \in Bufs : \A k \in 1 .. Len(chain[b]) - 1 :
           chain[b][k] = page => new.next = pages[page].next,
         UNCHANGED offset, mode' = mode, diskLen' = diskLen
  PROVE  /\ DOMAIN pages' = DOMAIN pages
         /\ \A p \in DOMAIN pages : pages'[p] = IF p = page THEN new ELSE pages[p]
         /\ \A p \in DOMAIN pages' : pages'[p] \in Pages
         /\ ChainsLinked' /\ PagesInv'
  <1>1. /\ DOMAIN pages' = DOMAIN pages
        /\ \A p \in DOMAIN pages : pages'[p] = IF p = page THEN new ELSE pages[p]
    OBVIOUS
  <1>2. \A p \in DOMAIN pages' : pages'[p] \in Pages
    BY <1>1 DEF IInv, TypeOK, StreamTypes
  <1>3. ChainsLinked'
    <2>1. ASSUME NEW b \in Bufs, NEW k \in 1 .. Len(chain[b]) - 1
          PROVE  pages'[chain[b][k]].next = chain[b][k + 1]
      <3>1. chain[b][k] \in DOMAIN pages
        <4>1. k \in 1 .. Len(chain[b])
          BY <2>1 DEF IInv, TypeOK, StreamTypes
        <4>2. QED
          BY <4>1 DEF IInv, BufInv
      <3>2. pages[chain[b][k]].next = chain[b][k + 1]
        BY DEF IInv, ChainsLinked
      <3>3. QED
        BY <1>1, <3>1, <3>2
    <2>2. QED
      BY <2>1 DEF IInv, ChainsLinked
  <1>4. PagesInv'
    BY <1>1 DEF IInv, PagesInv
  <1>5. QED
    BY <1>1, <1>2, <1>3, <1>4

\* The reference goes to the slot its position has, and to no other.
LEMMA SlotWritten ==
  ASSUME IInv, NEW b \in Bufs, NEW ref \in Refs, Append1(b, ref)
  PROVE  /\ buf[b].refs_index \in Slots /\ buf[b].state = "open"
         /\ LET at   == buf[b].refs_index
                page == buf[b].current
                new  == [pages[page] EXCEPT !.refs[at] = ref]
            IN /\ new \in Pages /\ new.next = pages[page].next
               /\ new.refs[at] = ref
               /\ \A s \in Slots : s # at => new.refs[s] = pages[page].refs[s]
               /\ pages' = [pages EXCEPT ![page] = new]
  <1> DEFINE at == buf[b].refs_index
             page == buf[b].current
             new == [pages[page] EXCEPT !.refs[at] = ref]
  <1>1. buf[b].state = "open" /\ call = NoCall
    BY DEF Append1
  <1>2. page \in DOMAIN pages /\ pages[page] \in Pages /\ at \in 0 .. PerPage /\ map = liveMap
    BY <1>1, CurrentPage
  <1>3. at # PerPage
    BY <1>1 DEF IInv, BufInv, Allocating
  <1>4. at \in Slots
    BY <1>2, <1>3, PerPagePositive DEF Slots
  <1>5. pages[page].refs \in [Slots -> Int] /\ ref \in Int
    BY <1>2, RefsAssumption DEF Pages
  <1>6. new = [refs |-> [pages[page].refs EXCEPT ![at] = ref], next |-> pages[page].next]
    BY <1>2 DEF Pages
  <1>7. new \in Pages
    BY <1>2, <1>4, <1>5, <1>6 DEF Pages
  <1>8. pages' = [pages EXCEPT ![page] = new]
    BY <1>2 DEF Append1, Stored
  <1>9. QED
    BY <1>1, <1>4, <1>5, <1>6, <1>7, <1>8

LEMMA Append1Refs ==
  ASSUME IInv, NEW b \in Bufs, NEW ref \in Refs, Append1(b, ref)
  PROVE  RefsInPlace'
  <1> DEFINE at == buf[b].refs_index
             page == buf[b].current
             last == Len(chain[b])
             new == [pages[page] EXCEPT !.refs[at] = ref]
  <1>1. /\ at \in Slots /\ buf[b].state = "open"
        /\ new.refs[at] = ref
        /\ \A s \in Slots : s # at => new.refs[s] = pages[page].refs[s]
        /\ pages' = [pages EXCEPT ![page] = new]
    BY SlotWritten
  <1>2. /\ chain[b] \in Seq(Nat) /\ last \in Nat /\ last >= 1
        /\ page = chain[b][last] /\ page \in DOMAIN pages
        /\ appended[b] \in Seq(Refs)
        /\ Len(appended[b]) = (last - 1) * PerPage + at
    BY <1>1, CurrentPage
  <1>3. /\ chain' = chain
        /\ appended'[b] = Append(appended[b], ref)
        /\ \A c \in Bufs : c # b => appended'[c] = appended[c]
    BY DEF Append1, IInv, TypeOK, StreamTypes
  <1> HIDE DEF new, at, page, last
  <1>4. ASSUME NEW c \in Bufs, NEW k \in 1 .. Len(chain[c]), NEW s \in Slots,
               (k - 1) * PerPage + s < Len(appended'[c])
        PROVE  pages'[chain[c][k]].refs[s] = appended'[c][(k - 1) * PerPage + s + 1]
    <2>0. /\ chain[c] \in Seq(Nat) /\ chain[c][k] \in DOMAIN pages
          /\ k - 1 \in Nat /\ last - 1 \in Nat /\ last \in 1 .. Len(chain[b])
          /\ s \in Nat /\ (k - 1) * PerPage \in Nat
      <3>1. k - 1 \in Nat /\ last - 1 \in Nat
        BY <1>2 DEF IInv, TypeOK, StreamTypes
      <3>2. (k - 1) * PerPage \in Nat
        BY <3>1, PerPagePositive
      <3>3. s \in Nat
        BY PerPagePositive DEF Slots
      <3>4. chain[c] \in Seq(Nat) /\ chain[c][k] \in DOMAIN pages
        BY DEF IInv, TypeOK, StreamTypes, BufInv
      <3>5. last \in 1 .. Len(chain[b])
        BY <1>2 DEF last
      <3>6. QED
        BY <3>1, <3>2, <3>3, <3>4, <3>5
    <2>1. CASE c # b
      <3>1. chain[c][k] # page
        BY <1>2, <2>0, <2>1 DEF IInv, ChainsLinked
      <3>2. pages'[chain[c][k]] = pages[chain[c][k]]
        BY <1>1, <2>0, <3>1
      <3>3. QED
        BY <1>3, <1>4, <2>1, <3>2 DEF IInv, RefsInPlace
    <2>2. CASE c = b /\ (k - 1) * PerPage + s < Len(appended[b])
      <3>1. ~ (chain[c][k] = page /\ s = at)
        <4> SUFFICES ASSUME chain[c][k] = page, s = at PROVE FALSE
          OBVIOUS
        <4>1. k = last
          BY <1>2, <2>0, <2>2 DEF IInv, ChainsLinked
        <4>2. QED
          BY <4>1, <2>2, <1>2, <2>0
      <3>2. pages'[chain[c][k]].refs[s] = pages[chain[c][k]].refs[s]
        BY <1>1, <2>0, <3>1
      <3>3. pages[chain[b][k]].refs[s] = appended[b][(k - 1) * PerPage + s + 1]
        BY <2>2 DEF IInv, RefsInPlace
      <3>4. appended'[b][(k - 1) * PerPage + s + 1] = appended[b][(k - 1) * PerPage + s + 1]
        <4> DEFINE before == (k - 1) * PerPage
        <4>1. before \in Nat /\ before + s < Len(appended[b])
          BY <2>0, <2>2
        <4> HIDE DEF before
        <4>2. before + s + 1 \in 1 .. Len(appended[b])
          BY <4>1, <2>0, <1>2
        <4>3. appended'[b][before + s + 1] = appended[b][before + s + 1]
          BY <4>2, <1>2, <1>3
        <4>4. QED
          BY <4>3 DEF before
      <3>5. QED
        BY <2>2, <3>2, <3>3, <3>4
    <2>3. CASE c = b /\ ~ (k - 1) * PerPage + s < Len(appended[b])
      <3>1. Len(appended'[b]) = Len(appended[b]) + 1
        BY <1>2, <1>3
      <3>2. (k - 1) * PerPage + s = Len(appended[b])
        <4> DEFINE before == (k - 1) * PerPage
        <4>1. before \in Nat /\ before + s < Len(appended'[b]) /\ ~ before + s < Len(appended[b])
          BY <1>4, <2>0, <2>3
        <4>2. Len(appended[b]) \in Nat /\ s \in Nat
          BY <1>2, <2>0
        <4> HIDE DEF before
        <4>3. before + s = Len(appended[b])
          BY <4>1, <4>2, <3>1
        <4>4. QED
          BY <4>3 DEF before
      <3>3. k - 1 = last - 1 /\ s = at
        BY <1>1, <1>2, <2>0, <3>2, PlaceUnique
      <3>4. k = last
        BY <3>3, <1>2
      <3>5. pages'[chain[c][k]].refs[s] = ref
        BY <1>1, <1>2, <2>3, <3>3, <3>4
      <3>6. appended'[b][Len(appended[b]) + 1] = ref
        BY <1>2, <1>3
      <3>7. QED
        BY <2>3, <3>2, <3>5, <3>6
    <2>4. QED
      BY <2>1, <2>2, <2>3
  <1>5. QED
    BY <1>3, <1>4 DEF RefsInPlace

\* While a store is written nothing has been read from it.
LEMMA NothingRead ==
  ASSUME IInv, mode = "w", UNCHANGED <<rd, answer>>
  PROVE  rd.state # "open" /\ (ReaderInv /\ AnswerInv /\ GetiExact)'
  <1>1. rd.state # "open"
    BY DEF IInv, FileInv
  <1>2. answer = NoAnswer
    BY <1>1 DEF IInv, AnswerInv
  <1>3. GetiExact'
    <2>1. answer'.index = -1
      BY <1>2 DEF NoAnswer
    <2>2. ~ -1 \in 0 .. Len(appended'[rd.stream]) - 1
      OBVIOUS
    <2>3. QED
      BY <2>1, <2>2 DEF GetiExact
  <1>4. QED
    BY <1>1, <1>2, <1>3 DEF ReaderInv, AnswerInv

LEMMA Append1Step ==
  ASSUME NEW b \in Bufs, NEW ref \in Refs, IInv, Append1(b, ref)
  PROVE  IInv'
  <1> DEFINE at == buf[b].refs_index
             page == buf[b].current
             new == [pages[page] EXCEPT !.refs[at] = ref]
  <1>1. /\ at \in Slots /\ buf[b].state = "open" /\ call = NoCall
        /\ new \in Pages /\ new.next = pages[page].next
        /\ pages' = [pages EXCEPT ![page] = new]
    BY SlotWritten DEF Append1
  <1>2. /\ page \in DOMAIN pages /\ mode = "w" /\ map = liveMap
        /\ chain[b] \in Seq(Nat) /\ Len(chain[b]) \in Nat /\ Len(chain[b]) >= 1
        /\ appended[b] \in Seq(Refs)
        /\ Len(appended[b]) = (Len(chain[b]) - 1) * PerPage + at
    BY <1>1, CurrentPage
  <1>3. /\ UNCHANGED <<rd, answer, chain, offset, mode, diskLen, map, liveMap, filesize>>
        /\ call' \in {call, [op |-> "link", buf |-> b, map |-> map]}
        /\ req' = IF PageFull(at + 1) THEN [op |-> "pos_alloc", len |-> PageSize] ELSE req
        /\ call' = IF PageFull(at + 1) THEN [op |-> "link", buf |-> b, map |-> map] ELSE call
    BY DEF Append1, NewPage, Call, object, fileVars
  <1>4. /\ buf' = [buf EXCEPT ![b].refs_index = @ + 1, ![b].global_index = @ + 1]
        /\ appended' = [appended EXCEPT ![b] = Append(@, ref)]
    BY DEF Append1
  <1> HIDE DEF new, page
  <1>5. /\ at \in Nat /\ at < PerPage /\ at + 1 \in 0 .. PerPage
        /\ PageFull(at + 1) <=> at + 1 = PerPage
    BY <1>1, PerPagePositive DEF Slots, PageFull
  <1>6. /\ Allocating' <=> PageFull(at + 1)
        /\ Allocating' => call'.op = "link" /\ call'.buf = b
        /\ ~ (call' # NoCall /\ call'.op = "geti")
        /\ ~ Allocating
    BY <1>1, <1>3 DEF Allocating, NoCall
  <1>7. FileTypes' /\ FileInv'
    <2>1. FileTypes'
      BY <1>3 DEF IInv, TypeOK, FileTypes
    <2>2. FileInv'
      BY <1>2, <1>3, <1>6 DEF IInv, FileInv, NoReq
    <2>3. QED
      BY <2>1, <2>2
  <1>8. (\A p \in DOMAIN pages' : pages'[p] \in Pages) /\ ChainsLinked' /\ PagesInv'
        /\ DOMAIN pages' = DOMAIN pages
    BY <1>1, <1>2, <1>3, LinksKept
  <1>9. /\ buf'[b] = [buf[b] EXCEPT !.refs_index = at + 1,
                                    !.global_index = buf[b].global_index + 1]
        /\ \A c \in Bufs : c # b => buf'[c] = buf[c] /\ appended'[c] = appended[c]
        /\ appended'[b] = Append(appended[b], ref)
    BY <1>4 DEF IInv, TypeOK, StreamTypes
  <1>10. StreamTypes'
    <2>1. buf' \in [Bufs -> [state : {"none", "open", "closed"}, refs_index : -1 .. PerPage,
                             global_index : Nat, first : Nat, current : Nat]]
      <3> DEFINE Buffers == [state : {"none", "open", "closed"}, refs_index : -1 .. PerPage,
                             global_index : Nat, first : Nat, current : Nat]
      <3>1. at + 1 \in -1 .. PerPage
        BY <1>5, PerPagePositive
      <3>2. buf \in [Bufs -> Buffers]
        BY DEF IInv, TypeOK, StreamTypes
      <3>3. buf'[b] \in Buffers
        <4>1. PICK old \in Buffers : old = buf[b]
          BY <3>2
        <4>2. buf'[b] = [old EXCEPT !.refs_index = at + 1,
                                    !.global_index = old.global_index + 1]
          BY <1>9, <4>1
        <4>3. old.global_index + 1 \in Nat
          OBVIOUS
        <4>4. QED
          BY <4>2, <4>3, <3>1
      <3> HIDE DEF Buffers
      <3>4. \A c \in Bufs : buf'[c] \in Buffers
        BY <1>9, <3>2, <3>3
      <3>5. buf' = [c \in Bufs |-> buf'[c]]
        BY <1>4, <3>2
      <3>6. buf' \in [Bufs -> Buffers]
        BY <3>4, <3>5
      <3>7. QED
        BY <3>6 DEF Buffers
    <2>2. appended' \in [Bufs -> Seq(Refs)]
      BY <1>4 DEF IInv, TypeOK, StreamTypes
    <2>3. call' \in {NoCall} \cup [op : {"setup", "link"}, buf : Bufs, map : Nat]
                       \cup [op : {"geti"}, index : Nat]
      <3>1. map \in Nat
        BY DEF IInv, TypeOK, FileTypes
      <3>2. [op |-> "link", buf |-> b, map |-> map]
              \in [op : {"setup", "link"}, buf : Bufs, map : Nat]
        BY <3>1
      <3>3. QED
        BY <3>2, <1>1, <1>3
    <2>4. QED
      BY <1>3, <1>8, <2>1, <2>2, <2>3 DEF IInv, TypeOK, StreamTypes
  <1>11. ASSUME NEW c \in Bufs PROVE BufInv(c)'
    <2>1. CASE c = b
      <3>1. /\ buf'[b].state = "open" /\ buf'[b].refs_index = at + 1
            /\ buf'[b].first = buf[b].first /\ buf'[b].current = buf[b].current
        BY <1>1, <1>9 DEF IInv, TypeOK, StreamTypes
      <3>2. Len(appended'[b]) = (Len(chain[b]) - 1) * PerPage + (at + 1)
        <4> DEFINE before == (Len(chain[b]) - 1) * PerPage
        <4>0. Len(chain[b]) - 1 \in Nat
          BY <1>2
        <4>1. before \in Nat /\ Len(appended[b]) = before + at
          BY <4>0, <1>2, PerPagePositive
        <4>2. Len(appended'[b]) = Len(appended[b]) + 1
          BY <1>2, <1>9
        <4> HIDE DEF before
        <4>3. Len(appended'[b]) = before + (at + 1)
          BY <4>1, <4>2, <1>5
        <4>4. QED
          BY <4>3 DEF before
      <3>3. at + 1 = PerPage <=> Allocating' /\ call'.op = "link" /\ call'.buf = b
        BY <1>5, <1>6
      <3>4. BufInv(b)
        BY DEF IInv
      <3>5. QED
        BY <2>1, <3>1, <3>2, <3>3, <3>4, <1>1, <1>2, <1>3, <1>5, <1>6, <1>8 DEF BufInv
    <2>2. CASE c # b
      BY <1>2, <1>3, <1>6, <1>8, <1>9, <2>2 DEF IInv, BufInv
    <2>3. QED
      BY <2>1, <2>2
  <1>12. RefsInPlace' /\ (ReaderInv /\ AnswerInv /\ GetiExact)'
    BY <1>2, <1>3, Append1Refs, NothingRead
  <1>13. QED
    BY <1>7, <1>8, <1>10, <1>11, <1>12 DEF IInv, TypeOK

\* What LinkPage does to the pages and to the chain of its stream.
LEMMA LinkedPages ==
  ASSUME IInv, LinkPage
  PROVE  LET b == call.buf IN
         /\ Allocating /\ b \in Bufs /\ call.op = "link" /\ PageReturned
         /\ buf[b].state = "open" /\ buf[b].refs_index = PerPage
         /\ LET full == buf[b].current IN
              /\ full \in DOMAIN pages /\ offset \notin DOMAIN pages
              /\ DOMAIN pages' = DOMAIN pages \cup {offset}
              /\ pages'[offset] = ZeroPage
              /\ pages'[full] = [pages[full] EXCEPT !.next = offset]
              /\ \A p \in DOMAIN pages : p # full => pages'[p] = pages[p]
         /\ \A p \in DOMAIN pages : pages'[p].refs = pages[p].refs
         /\ chain' = [chain EXCEPT ![b] = Append(chain[b], offset)]
         /\ buf' = [buf EXCEPT ![b] = [buf[b] EXCEPT !.current = offset, !.refs_index = 0]]
  <1> DEFINE b == call.buf
             full == buf[b].current
             linked == [pages[full] EXCEPT !.next = offset]
  <1>1. Allocating /\ b \in Bufs /\ call.op = "link" /\ PageReturned
    BY AllocatingCall DEF LinkPage, IInv, TypeOK
  <1>2. buf[b].state = "open" /\ buf[b].refs_index = PerPage
    BY <1>1 DEF IInv, BufInv
  <1>3. full \in DOMAIN pages /\ pages[full] \in Pages
    BY <1>1, <1>2, CurrentPage
  <1>4. map = liveMap /\ offset \notin DOMAIN pages
    BY <1>1, PageIsNew DEF LinkPage
  <1>5. pages' = WithNewPage([pages EXCEPT ![full] = linked])
    BY <1>3, <1>4 DEF LinkPage, Stored, LinkPointer
  <1>6. /\ linked.refs = pages[full].refs
        /\ linked = [pages[full] EXCEPT !.next = offset]
    BY <1>3 DEF Pages
  <1> HIDE DEF linked, full
  <1>7. /\ DOMAIN pages' = DOMAIN pages \cup {offset}
        /\ pages'[offset] = ZeroPage
        /\ pages'[full] = linked
        /\ \A p \in DOMAIN pages : p # full => pages'[p] = pages[p]
    BY <1>3, <1>4, <1>5 DEF WithNewPage
  <1>8. \A p \in DOMAIN pages : pages'[p].refs = pages[p].refs
    BY <1>6, <1>7
  <1>9. /\ chain' = [chain EXCEPT ![b] = Append(chain[b], offset)]
        /\ buf' = [buf EXCEPT ![b] = [buf[b] EXCEPT !.current = offset, !.refs_index = 0]]
    <2>1. chain' = [chain EXCEPT ![b] = Append(chain[b], offset)]
      BY DEF LinkPage
    <2>2. buf \in [Bufs -> [state : {"none", "open", "closed"}, refs_index : -1 .. PerPage,
                             global_index : Nat, first : Nat, current : Nat]]
      BY DEF IInv, TypeOK, StreamTypes
    <2>3. buf' = [buf EXCEPT ![b].current = offset, ![b].refs_index = 0]
      BY DEF LinkPage, FirstSlot
    <2>4. QED
      BY <1>1, <2>1, <2>2, <2>3
  <1>10. QED
    BY <1>1, <1>2, <1>3, <1>4, <1>6, <1>7, <1>8, <1>9 DEF full

LEMMA LinkPageStep == IInv /\ LinkPage => IInv'
  <1> SUFFICES ASSUME IInv, LinkPage PROVE IInv'
    OBVIOUS
  <1> DEFINE b == call.buf
             full == buf[b].current
             last == Len(chain[b])
  <1>1. /\ Allocating /\ b \in Bufs /\ call.op = "link" /\ PageReturned
        /\ buf[b].state = "open" /\ buf[b].refs_index = PerPage
        /\ UNCHANGED <<rd, answer, appended>>
    BY LinkedPages DEF LinkPage
  <1>2. /\ full \in DOMAIN pages /\ offset \notin DOMAIN pages
        /\ DOMAIN pages' = DOMAIN pages \cup {offset}
        /\ pages'[offset] = ZeroPage
        /\ pages'[full] = [pages[full] EXCEPT !.next = offset]
        /\ \A p \in DOMAIN pages : p # full => pages'[p] = pages[p]
        /\ \A p \in DOMAIN pages : pages'[p].refs = pages[p].refs
        /\ chain' = [chain EXCEPT ![b] = Append(chain[b], offset)]
        /\ buf' = [buf EXCEPT ![b] = [buf[b] EXCEPT !.current = offset, !.refs_index = 0]]
    BY LinkedPages
  <1>3. /\ mode = "w" /\ mode' = "w" /\ ~Allocating'
        /\ FileTypes' /\ FileInv'
        /\ offset \in Nat /\ offset' > offset
        /\ \A p \in DOMAIN pages : p < offset
    BY <1>1, PageIsNew
  <1>4. /\ chain[b] \in Seq(Nat) /\ last \in Nat /\ last >= 1
        /\ full = chain[b][last] /\ pages[full] \in Pages
        /\ appended[b] \in Seq(Refs)
        /\ Len(appended[b]) = (last - 1) * PerPage + PerPage
    BY <1>1, CurrentPage
  <1>5. /\ chain \in [Bufs -> Seq(Nat)] /\ chain' \in [Bufs -> Seq(Nat)]
        /\ chain'[b] = Append(chain[b], offset)
        /\ \A c \in Bufs : c # b => chain'[c] = chain[c] /\ buf'[c] = buf[c]
        /\ buf'[b] = [buf[b] EXCEPT !.current = offset, !.refs_index = 0]
    <2>1. chain \in [Bufs -> Seq(Nat)]
      BY DEF IInv, TypeOK, StreamTypes
    <2>2. Append(chain[b], offset) \in Seq(Nat)
      BY <1>3, <1>4
    <2>3. buf = [c \in Bufs |-> buf[c]]
      BY DEF IInv, TypeOK, StreamTypes
    <2>4. QED
      BY <1>1, <1>2, <2>1, <2>2, <2>3
  <1>6. /\ \A c \in Bufs : \A k \in 1 .. Len(chain[c]) : chain[c][k] \in DOMAIN pages
        /\ \A c \in Bufs : \A k \in 1 .. Len(chain[c]) :
             chain[c][k] = full => c = b /\ k = last
    <2>1. last \in 1 .. Len(chain[b])
      BY <1>4
    <2>2. QED
      BY <1>1, <1>4, <2>1 DEF IInv, BufInv, ChainsLinked
  <1>5a. /\ Len(chain'[b]) = last + 1 /\ chain'[b][last + 1] = offset
         /\ \A k \in 1 .. last : chain'[b][k] = chain[b][k]
    BY <1>3, <1>4, <1>5
  <1> HIDE DEF full, last, b
  <1>7. StreamTypes'
    <2>1. ZeroPage \in Pages
      BY DEF ZeroPage, Pages
    <2>2. pages'[full] \in Pages
      BY <1>2, <1>3, <1>4 DEF Pages
    <2>3. \A p \in DOMAIN pages' : pages'[p] \in Pages
      BY <1>2, <2>1, <2>2 DEF IInv, TypeOK, StreamTypes
    <2>4. DOMAIN pages' \subseteq Nat
      BY <1>2, <1>3 DEF IInv, TypeOK, StreamTypes
    <2>5. buf' \in [Bufs -> [state : {"none", "open", "closed"}, refs_index : -1 .. PerPage,
                             global_index : Nat, first : Nat, current : Nat]]
      <3> DEFINE Buffers == [state : {"none", "open", "closed"}, refs_index : -1 .. PerPage,
                             global_index : Nat, first : Nat, current : Nat]
      <3>1. buf \in [Bufs -> Buffers]
        BY DEF IInv, TypeOK, StreamTypes
      <3>2. buf'[b] \in Buffers
        <4>1. PICK old \in Buffers : old = buf[b]
          BY <1>1, <3>1 DEF b
        <4>2. 0 \in -1 .. PerPage
          BY PerPagePositive
        <4>3. buf'[b] = [old EXCEPT !.current = offset, !.refs_index = 0]
          BY <1>5, <4>1
        <4>4. QED
          BY <4>2, <4>3, <1>3
      <3> HIDE DEF Buffers
      <3>3. buf' = [buf EXCEPT ![b] = buf'[b]]
        BY <1>2, <1>5, <3>1 DEF b
      <3>4. buf' \in [Bufs -> Buffers]
        BY <3>1, <3>2, <3>3
      <3>5. QED
        BY <3>4 DEF Buffers
    <2>6. call' = NoCall
      BY <1>1 DEF PageReturned
    <2>7. QED
      BY <2>3, <2>4, <2>5, <2>6, <1>1, <1>5 DEF IInv, TypeOK, StreamTypes
  <1>8. PagesInv'
    <2>1. \A p \in DOMAIN pages' : p < offset'
      <3>1. DOMAIN pages \subseteq Nat /\ offset' \in Nat
        BY <1>3 DEF IInv, TypeOK, StreamTypes, FileTypes
      <3>2. ASSUME NEW p \in DOMAIN pages PROVE p < offset'
        <4>1. p \in Nat /\ p < offset
          BY <3>1, <1>3
        <4>2. QED
          BY <4>1, <3>1, <1>3
      <3>3. QED
        BY <3>2, <1>2, <1>3
    <2>2. 0 \in DOMAIN pages'
      BY <1>2 DEF IInv, PagesInv
    <2>3. pages'[full].next = offset
      BY <1>2, <1>4 DEF Pages
    <2>4. ASSUME NEW p \in DOMAIN pages'
          PROVE  pages'[p].next \in DOMAIN pages' \cup {-1, 0}
      <3>1. CASE p = offset
        BY <3>1, <1>2 DEF ZeroPage
      <3>2. CASE p = full
        BY <3>2, <2>3, <1>2
      <3>3. CASE p # offset /\ p # full
        <4>1. p \in DOMAIN pages /\ pages'[p] = pages[p]
          BY <3>3, <1>2
        <4>2. pages[p].next \in DOMAIN pages \cup {-1, 0}
          BY <4>1 DEF IInv, PagesInv
        <4>3. QED
          BY <4>1, <4>2, <1>2
      <3>4. QED
        BY <3>1, <3>2, <3>3
    <2>5. QED
      BY <1>3, <2>1, <2>2, <2>4 DEF PagesInv
  <1>9. ASSUME NEW c \in Bufs PROVE BufInv(c)'
    <2>1. CASE c = b
      <3>1. /\ buf'[b].state = "open" /\ buf'[b].refs_index = 0
            /\ buf'[b].first = buf[b].first /\ buf'[b].current = offset
        BY <1>1, <1>5, <2>1 DEF IInv, TypeOK, StreamTypes, b
      <3>2. /\ Len(chain'[b]) = last + 1 /\ chain'[b][last + 1] = offset
            /\ \A k \in 1 .. last : chain'[b][k] = chain[b][k]
        BY <1>5a
      <3>3. Len(appended'[b]) = last * PerPage + 0
        <4>1. last - 1 \in Nat
          BY <1>4
        <4>2. last * PerPage = (last - 1) * PerPage + PerPage /\ last * PerPage \in Nat
          <5>1. (last - 1 + 1) * PerPage = (last - 1) * PerPage + PerPage
            BY <4>1, PagesOrdered
          <5>2. last - 1 + 1 = last
            BY <1>4
          <5>3. last * PerPage \in Nat
            BY <1>4, PerPagePositive
          <5>4. QED
            BY <5>1, <5>2, <5>3
        <4>3. QED
          BY <4>2, <1>1, <1>4
      <3>4. 0 \in 0 .. PerPage /\ 0 # PerPage
        BY PerPagePositive
      <3>5. buf[b].first = chain[b][1] /\ 1 \in 1 .. last
        BY <1>1, <1>4 DEF IInv, BufInv, last, b
      <3>6. \A k \in 1 .. Len(chain'[b]) : chain'[b][k] \in DOMAIN pages'
        <4>1. \A k \in 1 .. Len(chain'[b]) : k = last + 1 \/ k \in 1 .. last
          BY <1>4, <3>2
        <4>2. QED
          BY <4>1, <3>2, <1>1, <1>2, <1>6, <1>5 DEF last, b
      <3>7. last + 1 >= 1 /\ chain'[b][1] = buf[b].first
        BY <1>4, <3>2, <3>5
      <3>8. /\ Len(chain'[b]) >= 1 /\ chain'[b][Len(chain'[b])] = offset
            /\ Len(appended'[b]) = (Len(chain'[b]) - 1) * PerPage + buf'[b].refs_index
            /\ buf'[b].refs_index \in 0 .. PerPage /\ buf'[b].refs_index # PerPage
        <4>1. /\ Len(chain'[b]) >= 1 /\ chain'[b][Len(chain'[b])] = offset
              /\ buf'[b].refs_index \in 0 .. PerPage /\ buf'[b].refs_index # PerPage
          BY <3>1, <3>2, <3>4, <3>7
        <4>2. Len(chain'[b]) - 1 = last
          BY <3>2, <1>4
        <4>3. Len(appended'[b]) = (Len(chain'[b]) - 1) * PerPage + buf'[b].refs_index
          BY <3>1, <3>3, <4>2
        <4>4. QED
          BY <4>1, <4>3
      <3>9. QED
        BY <1>3, <2>1, <3>1, <3>6, <3>7, <3>8 DEF BufInv
    <2>2. CASE c # b
      <3>1. /\ buf'[c] = buf[c] /\ chain'[c] = chain[c] /\ appended'[c] = appended[c]
            /\ DOMAIN pages \subseteq DOMAIN pages' /\ call.buf # c
        BY <1>1, <1>2, <1>5, <2>2 DEF b
      <3>2. BufInv(c)
        BY DEF IInv
      <3>3. /\ buf[c].state # "open" \/ buf[c].refs_index # PerPage
            /\ \A k \in 1 .. Len(chain[c]) : chain[c][k] \in DOMAIN pages'
        BY <3>1, <3>2 DEF BufInv
      <3>4. CASE buf[c].state = "open"
        <4>1. Len(appended'[c]) = (Len(chain'[c]) - 1) * PerPage + buf'[c].refs_index
          BY <3>1, <3>2, <3>4 DEF BufInv
        <4>2. buf'[c].refs_index = PerPage <=> Allocating' /\ call'.op = "link" /\ call'.buf = c
          BY <3>1, <3>3, <3>4, <1>3
        <4>3. QED
          BY <3>1, <3>2, <3>3, <3>4, <4>1, <4>2, <1>3 DEF BufInv
      <3>5. CASE buf[c].state # "open"
        BY <3>1, <3>2, <3>3, <3>5, <1>3 DEF BufInv
      <3>6. QED
        BY <3>4, <3>5
    <2>3. QED
      BY <2>1, <2>2
  <1>10. ChainsLinked'
    <2>1. ASSUME NEW c \in Bufs, NEW k \in 1 .. Len(chain'[c]) - 1
          PROVE  pages'[chain'[c][k]].next = chain'[c][k + 1]
      <3>1. CASE c # b
        <4>1. k \in 1 .. Len(chain[c]) /\ chain'[c] = chain[c]
          BY <3>1, <1>5, <2>1
        <4>2. chain[c][k] \in DOMAIN pages /\ chain[c][k] # full
          BY <3>1, <4>1, <1>6
        <4>3. QED
          BY <4>1, <4>2, <3>1, <1>2, <1>5, <2>1 DEF IInv, ChainsLinked
      <3>2. CASE c = b /\ k < last
        <4>1. k \in 1 .. Len(chain[b]) - 1 /\ k \in 1 .. Len(chain[b]) /\ k # last
          BY <3>2, <1>4 DEF last
        <4>2. chain[b][k] \in DOMAIN pages /\ chain[b][k] # full
          BY <4>1, <1>1, <1>6 DEF b
        <4>3. chain'[b][k] = chain[b][k] /\ chain'[b][k + 1] = chain[b][k + 1]
          <5>1. k \in 1 .. Len(chain[b]) /\ k + 1 \in 1 .. Len(chain[b])
            BY <3>2, <1>4, <4>1 DEF last
          <5>2. QED
            BY <5>1, <1>3, <1>4, <1>5
        <4>4. pages[chain[b][k]].next = chain[b][k + 1]
          BY <4>1, <1>1 DEF IInv, ChainsLinked, b
        <4>5. QED
          BY <4>2, <4>3, <4>4, <3>2, <1>2
      <3>3. CASE c = b /\ ~ k < last
        <4>1. k = last
          BY <3>3, <1>3, <1>4, <1>5, <2>1 DEF last
        <4>2. chain'[b][last] = full /\ chain'[b][last + 1] = offset
          BY <1>3, <1>4, <1>5 DEF last
        <4>3. pages'[full].next = offset
          BY <1>2, <1>4 DEF Pages
        <4>4. QED
          BY <3>3, <4>1, <4>2, <4>3
      <3>4. QED
        BY <3>1, <3>2, <3>3
    <2>2. ASSUME NEW c \in Bufs, NEW d \in Bufs,
                 NEW j \in 1 .. Len(chain'[c]), NEW k \in 1 .. Len(chain'[d]),
                 chain'[c][j] = chain'[d][k]
          PROVE  c = d /\ j = k
      <3>1. ASSUME NEW e \in Bufs, NEW i \in 1 .. Len(chain'[e])
            PROVE  \/ e = b /\ i = last + 1 /\ chain'[e][i] = offset
                   \/ i \in 1 .. Len(chain[e]) /\ chain'[e][i] = chain[e][i]
        <4>1. CASE e # b
          BY <4>1, <1>5
        <4>2. CASE e = b
          <5>1. i = last + 1 \/ i \in 1 .. last
            BY <4>2, <1>5a, <1>4
          <5>2. QED
            BY <4>2, <1>5a, <5>1 DEF last
        <4>3. QED
          BY <4>1, <4>2
      <3>2. ASSUME NEW e \in Bufs, NEW i \in 1 .. Len(chain[e]) PROVE chain[e][i] # offset
        BY <1>2, <1>6
      <3>3. CASE c = b /\ j = last + 1 /\ chain'[c][j] = offset
        <4>1. chain'[d][k] = offset
          BY <2>2, <3>3
        <4>2. ~ (k \in 1 .. Len(chain[d]) /\ chain'[d][k] = chain[d][k])
          BY <4>1, <3>2
        <4>3. QED
          BY <4>2, <3>1, <3>3
      <3>4. CASE j \in 1 .. Len(chain[c]) /\ chain'[c][j] = chain[c][j]
        <4>1. chain'[d][k] # offset
          BY <2>2, <3>2, <3>4
        <4>2. k \in 1 .. Len(chain[d]) /\ chain'[d][k] = chain[d][k]
          BY <4>1, <3>1
        <4>3. chain[c][j] = chain[d][k]
          BY <2>2, <3>4, <4>2
        <4>4. QED
          BY <3>4, <4>2, <4>3 DEF IInv, ChainsLinked
      <3>5. QED
        BY <3>1, <3>3, <3>4
    <2>3. QED
      BY <2>1, <2>2 DEF ChainsLinked
  <1>11. RefsInPlace'
    <2> SUFFICES ASSUME NEW c \in Bufs, NEW k \in 1 .. Len(chain'[c]), NEW s \in Slots,
                        (k - 1) * PerPage + s < Len(appended[c])
                 PROVE  pages'[chain'[c][k]].refs[s]
                          = appended[c][(k - 1) * PerPage + s + 1]
      BY <1>1 DEF RefsInPlace
    <2>1. CASE k \in 1 .. Len(chain[c]) /\ chain'[c][k] = chain[c][k]
      <3>1. pages'[chain[c][k]].refs = pages[chain[c][k]].refs
        BY <2>1, <1>2, <1>6
      <3>2. QED
        BY <2>1, <3>1 DEF IInv, RefsInPlace
    <2>2. CASE c = b /\ k = last + 1
      <3>1. last - 1 \in Nat /\ k - 1 = last /\ s \in Nat
        BY <2>2, <1>4, PerPagePositive DEF Slots
      <3>2. (last - 1 + 1) * PerPage = (last - 1) * PerPage + PerPage
        BY <3>1, PagesOrdered
      <3>3. last - 1 + 1 = last
        BY <1>4
      <3>4. last * PerPage \in Nat
        BY <1>4, PerPagePositive
      <3>5. last * PerPage = Len(appended[b])
        BY <3>2, <3>3, <1>4
      <3>6. last * PerPage + s < last * PerPage
        BY <2>2, <3>1, <3>5
      <3>7. QED
        BY <3>1, <3>4, <3>6
    <2>3. QED
      <3>1. CASE c # b
        BY <3>1, <2>1, <1>5
      <3>2. CASE c = b
        <4>1. k = last + 1 \/ k \in 1 .. last
          BY <3>2, <1>5a, <1>4
        <4>2. QED
          BY <2>1, <2>2, <3>2, <1>5a, <4>1 DEF last
      <3>3. QED
        BY <3>1, <3>2
  <1>12. (ReaderInv /\ AnswerInv /\ GetiExact)'
    BY <1>1, <1>3, NothingRead
  <1>13. QED
    BY <1>3, <1>7, <1>8, <1>9, <1>10, <1>11, <1>12 DEF IInv, TypeOK

\* Closing a buffer keeps the references appended to it, and its links but the
\* last page's.
LEMMA TeardownPages ==
  ASSUME NEW b \in Bufs, IInv, TeardownBuffer(b)
  PROVE  /\ DOMAIN pages' = DOMAIN pages
         /\ \A p \in DOMAIN pages' : pages'[p] \in Pages
         /\ ChainsLinked' /\ PagesInv' /\ RefsInPlace'
  <1> DEFINE page == buf[b].current
             from == buf[b].refs_index
             last == Len(chain[b])
             new == Finished(pages[page], from)
  <1>1. /\ buf[b].state = "open"
        /\ UNCHANGED <<chain, appended, offset, mode, diskLen>>
    BY DEF TeardownBuffer, fileVars
  <1>2. CASE from > 0
    <2>1. /\ page \in DOMAIN pages /\ pages[page] \in Pages /\ map = liveMap
          /\ chain[b] \in Seq(Nat) /\ last \in Nat /\ last >= 1 /\ page = chain[b][last]
          /\ Len(appended[b]) = (last - 1) * PerPage + from /\ from \in 0 .. PerPage
      BY <1>1, CurrentPage
    <2>2. pages' = [pages EXCEPT ![page] = new]
      BY <1>2, <2>1 DEF TeardownBuffer, Stored
    <2>3. /\ new \in Pages /\ new.next = -1
          /\ \A s \in Slots : s < from => new.refs[s] = pages[page].refs[s]
      BY <2>1 DEF Finished, Pages
    <2> HIDE DEF new, page
    <2>4. \A c \in Bufs : \A k \in 1 .. Len(chain[c]) :
            chain[c][k] = page => c = b /\ k = last
      <3>1. last \in 1 .. Len(chain[b])
        BY <2>1
      <3>2. QED
        BY <2>1, <3>1 DEF IInv, ChainsLinked
    <2>5. ASSUME NEW c \in Bufs, NEW k \in 1 .. Len(chain[c]) - 1 PROVE chain[c][k] # page
      <3>1. k \in 1 .. Len(chain[c]) /\ Len(chain[c]) \in Nat /\ k # Len(chain[c])
        <4>1. chain[c] \in Seq(Nat)
          BY DEF IInv, TypeOK, StreamTypes
        <4>2. PICK n \in Nat : n = Len(chain[c])
          BY <4>1
        <4>3. k \in 1 .. n - 1
          BY <4>2, <2>5
        <4>4. QED
          BY <4>2, <4>3
      <3>2. QED
        BY <3>1, <2>4
    <2>6. /\ DOMAIN pages' = DOMAIN pages
          /\ \A p \in DOMAIN pages : pages'[p] = IF p = page THEN new ELSE pages[p]
          /\ \A p \in DOMAIN pages' : pages'[p] \in Pages
          /\ ChainsLinked' /\ PagesInv'
      <3>1. \A c \in Bufs : \A k \in 1 .. Len(chain[c]) - 1 :
              chain[c][k] = page => new.next = pages[page].next
        BY <2>5
      <3>2. new.next \in {pages[page].next, -1}
        BY <2>3
      <3>3. page \in DOMAIN pages /\ new \in Pages
        BY <2>1, <2>3
      <3>4. QED
        BY <1>1, <2>2, <3>1, <3>2, <3>3, LinksKept
    <2>7. ASSUME NEW c \in Bufs, NEW k \in 1 .. Len(chain[c]), NEW s \in Slots,
                 (k - 1) * PerPage + s < Len(appended[c])
          PROVE  pages'[chain[c][k]].refs[s] = appended[c][(k - 1) * PerPage + s + 1]
      <3>1. chain[c][k] \in DOMAIN pages
        BY DEF IInv, BufInv
      <3>2. chain[c][k] = page => s < from
        <4> SUFFICES ASSUME chain[c][k] = page PROVE s < from
          OBVIOUS
        <4>1. c = b /\ k = last
          BY <2>4
        <4>2. last - 1 \in Nat /\ s \in Nat /\ from \in Nat
          BY <2>1, PerPagePositive DEF Slots
        <4>3. PICK before \in Nat : before = (last - 1) * PerPage
          BY <4>2, PerPagePositive
        <4>4. before + s < before + from
          BY <4>1, <4>3, <2>1, <2>7
        <4>5. QED
          BY <4>2, <4>4
      <3>3. pages'[chain[c][k]].refs[s] = pages[chain[c][k]].refs[s]
        BY <2>3, <2>6, <3>1, <3>2
      <3>4. QED
        BY <2>7, <3>3 DEF IInv, RefsInPlace
    <2>8. QED
      BY <1>1, <2>6, <2>7 DEF RefsInPlace
  <1>3. CASE ~ from > 0
    <2>1. pages' = pages
      BY <1>3 DEF TeardownBuffer
    <2>2. ChainsLinked' /\ PagesInv' /\ RefsInPlace'
      BY <1>1, <2>1 DEF IInv, ChainsLinked, PagesInv, RefsInPlace
    <2>3. QED
      BY <2>1, <2>2 DEF IInv, TypeOK, StreamTypes
  <1>4. QED
    BY <1>2, <1>3

LEMMA TeardownBufferStep ==
  ASSUME NEW b \in Bufs, IInv, TeardownBuffer(b)
  PROVE  IInv'
  <1>1. /\ buf[b].state = "open" /\ mode = "w" /\ call = NoCall /\ ~Allocating
        /\ UNCHANGED <<fileVars, rd, call, answer, chain, appended>>
    BY DEF TeardownBuffer, Allocating
  <1>2. /\ DOMAIN pages' = DOMAIN pages
        /\ \A p \in DOMAIN pages' : pages'[p] \in Pages
        /\ ChainsLinked' /\ PagesInv' /\ RefsInPlace'
    BY TeardownPages
  <1>3. FileTypes' /\ FileInv'
    BY <1>1 DEF IInv, TypeOK, FileTypes, FileInv, Allocating, fileVars
  <1>4. /\ \A c \in Bufs : c # b => buf'[c] = buf[c]
        /\ buf'[b] \in { [buf[b] EXCEPT !.state = "closed", !.refs_index = -1],
                         [buf[b] EXCEPT !.state = "closed"] }
        /\ buf' = [buf EXCEPT ![b] = buf'[b]]
    BY DEF TeardownBuffer, IInv, TypeOK, StreamTypes
  <1>5. StreamTypes'
    <2> DEFINE Buffers == [state : {"none", "open", "closed"}, refs_index : -1 .. PerPage,
                           global_index : Nat, first : Nat, current : Nat]
    <2>1. buf \in [Bufs -> Buffers]
      BY DEF IInv, TypeOK, StreamTypes
    <2>2. buf'[b] \in Buffers
      <3>1. PICK old \in Buffers : old = buf[b]
        BY <2>1
      <3>2. -1 \in -1 .. PerPage
        BY PerPagePositive
      <3>3. QED
        BY <3>1, <3>2, <1>4
    <2> HIDE DEF Buffers
    <2>3. buf' \in [Bufs -> Buffers]
      BY <2>1, <2>2, <1>4
    <2>4. QED
      BY <2>3, <1>1, <1>2 DEF IInv, TypeOK, StreamTypes, Buffers
  <1>6. ASSUME NEW c \in Bufs PROVE BufInv(c)'
    <2>1. CASE c = b
      <3>1. /\ buf'[b].state = "closed"
            /\ buf'[b].first = buf[b].first /\ buf'[b].current = buf[b].current
        <4>1. buf[b] \in [state : {"none", "open", "closed"}, refs_index : -1 .. PerPage,
                           global_index : Nat, first : Nat, current : Nat]
          BY DEF IInv, TypeOK, StreamTypes
        <4>2. CASE buf'[b] = [buf[b] EXCEPT !.state = "closed", !.refs_index = -1]
          BY <4>1, <4>2
        <4>3. CASE buf'[b] = [buf[b] EXCEPT !.state = "closed"]
          BY <4>1, <4>3
        <4>4. QED
          BY <1>4, <4>2, <4>3
      <3>2. BufInv(b)
        BY DEF IInv
      <3>3. Len(appended[b]) < Len(chain[b]) * PerPage
        <4>1. /\ Len(chain[b]) \in Nat /\ Len(chain[b]) - 1 \in Nat
              /\ Len(appended[b]) = (Len(chain[b]) - 1) * PerPage + buf[b].refs_index
              /\ buf[b].refs_index \in 0 .. PerPage
          BY <1>1, CurrentPage
        <4>2. buf[b].refs_index # PerPage
          BY <1>1, <3>2 DEF BufInv
        <4>3. (Len(chain[b]) - 1 + 1) * PerPage = (Len(chain[b]) - 1) * PerPage + PerPage
          <5>1. PICK n \in Nat : n = Len(chain[b]) - 1
            BY <4>1
          <5>2. n <= n
            BY <5>1
          <5>3. (n + 1) * PerPage = n * PerPage + PerPage
            BY <5>2, PagesOrdered
          <5>4. QED
            BY <5>1, <5>3
        <4>4. Len(chain[b]) - 1 + 1 = Len(chain[b])
          BY <4>1
        <4>5. PICK before \in Nat : before = (Len(chain[b]) - 1) * PerPage
          BY <4>1, PerPagePositive
        <4>6. before + buf[b].refs_index < before + PerPage
          BY <4>1, <4>2, PerPagePositive
        <4>7. QED
          BY <4>1, <4>3, <4>4, <4>5, <4>6
      <3>4. /\ Len(chain[b]) >= 1 /\ buf[b].first = chain[b][1]
            /\ buf[b].current = chain[b][Len(chain[b])]
            /\ \A k \in 1 .. Len(chain[b]) : chain[b][k] \in DOMAIN pages
        BY <1>1, <3>2 DEF BufInv
      <3>5. QED
        BY <1>1, <1>2, <2>1, <3>1, <3>3, <3>4 DEF BufInv, Allocating
    <2>2. CASE c # b
      BY <1>1, <1>2, <1>4, <2>2 DEF IInv, BufInv, Allocating, fileVars
    <2>3. QED
      BY <2>1, <2>2
  <1>7. (ReaderInv /\ AnswerInv /\ GetiExact)'
    BY <1>1, NothingRead
  <1>8. QED
    BY <1>2, <1>3, <1>5, <1>6, <1>7 DEF IInv, TypeOK

-----------------------------------------------------------------------------

(***************************************************************************)
(* Reading                                                                 *)
(***************************************************************************)

\* A reader's step changes neither the file nor what was written to it.
LEMMA ReadersStep ==
  ASSUME IInv, UNCHANGED <<fileVars, pages, buf, chain, appended>>,
         mode = "r", ~Allocating, ~Allocating',
         rd' \in [stream : Bufs, state : {"none", "open"}, first : Nat,
                  current : Nat, global_index : Nat],
         call' \in {NoCall} \cup [op : {"geti"}, index : Nat],
         answer' \in [index : Int, ref : Int],
         (call' # NoCall /\ call'.op = "geti") => rd'.state = "open",
         ReaderInv', AnswerInv', GetiExact'
  PROVE  IInv'
  <1> USE DEF fileVars
  <1>1. TypeOK'
    BY DEF IInv, TypeOK, FileTypes, StreamTypes
  <1>2. FileInv'
    BY DEF IInv, FileInv
  <1>3. PagesInv'
    BY DEF IInv, PagesInv
  <1>4. ASSUME NEW b \in Bufs PROVE BufInv(b)'
    <2>1. BufInv(b)
      BY DEF IInv
    <2>2. QED
      BY <2>1 DEF BufInv
  <1>5. ChainsLinked' /\ RefsInPlace'
    BY DEF IInv, ChainsLinked, RefsInPlace
  <1>6. QED
    BY <1>1, <1>2, <1>3, <1>4, <1>5 DEF IInv

LEMMA SetupReaderStep ==
  ASSUME NEW b \in Bufs, IInv, SetupReader(b)
  PROVE  IInv'
  <1> USE DEF SetupReader
  <1>1. call' = NoCall /\ ~Allocating /\ ~Allocating' /\ mode = "r"
    BY DEF Allocating
  <1>2. /\ buf[b].state = "closed" /\ buf[b].first \in Nat
        /\ 1 \in 1 .. Len(chain[b]) /\ buf[b].first = chain[b][1]
        /\ buf[b].first \in DOMAIN pages
    <2>1. Len(chain[b]) \in Nat
      <3>1. chain \in [Bufs -> Seq(Nat)]
        BY DEF IInv, TypeOK, StreamTypes
      <3>2. QED
        BY <3>1
    <2>2. buf[b].first \in Nat
      <3>1. buf[b] \in [state : {"none", "open", "closed"}, refs_index : -1 .. PerPage,
                        global_index : Nat, first : Nat, current : Nat]
        BY DEF IInv, TypeOK, StreamTypes
      <3>2. QED
        BY <3>1
    <2>3. BufInv(b) /\ buf[b].state = "closed"
      BY DEF IInv
    <2>4. QED
      BY <2>1, <2>2, <2>3 DEF BufInv
  <1>3. ReaderInv'
    <2>1. 0 \in Nat /\ 0 = 0 * PerPage /\ 0 + 1 = 1
      BY PerPagePositive
    <2>2. QED
      BY <1>2, <2>1 DEF ReaderInv
  <1>4. AnswerInv' /\ GetiExact'
    <2>1. answer'.index = -1
      BY DEF NoAnswer
    <2>2. ~ -1 \in 0 .. Len(appended'[rd'.stream]) - 1
      OBVIOUS
    <2>3. QED
      BY <2>1, <2>2 DEF AnswerInv, GetiExact
  <1>5. /\ rd' \in [stream : Bufs, state : {"none", "open"}, first : Nat,
                    current : Nat, global_index : Nat]
        /\ answer' \in [index : Int, ref : Int]
    <2>1. rd' = [stream |-> b, state |-> "open", first |-> buf[b].first,
                 current |-> buf[b].first, global_index |-> 0]
      OBVIOUS
    <2>2. rd' \in [stream : Bufs, state : {"none", "open"}, first : Nat,
                   current : Nat, global_index : Nat]
      BY <1>2, <2>1
    <2>3. answer' \in [index : Int, ref : Int]
      BY DEF NoAnswer
    <2>4. QED
      BY <2>2, <2>3
  <1>6. QED
    BY <1>1, <1>3, <1>4, <1>5, ReadersStep

LEMMA TeardownReaderStep == IInv /\ TeardownReader => IInv'
  <1> SUFFICES ASSUME IInv, TeardownReader PROVE IInv'
    OBVIOUS
  <1> USE DEF TeardownReader
  <1>1. call' = NoCall /\ ~Allocating /\ ~Allocating' /\ mode = "r"
    BY DEF Allocating
  <1>2. /\ rd' \in [stream : Bufs, state : {"none", "open"}, first : Nat,
                    current : Nat, global_index : Nat]
        /\ rd'.state = "none"
        /\ answer' \in [index : Int, ref : Int]
    <2>1. PICK old \in [stream : Bufs, state : {"none", "open"}, first : Nat,
                         current : Nat, global_index : Nat] : old = rd
      BY DEF IInv, TypeOK, StreamTypes
    <2>2. rd' = [old EXCEPT !.state = "none"]
      BY <2>1
    <2>3. answer' \in [index : Int, ref : Int]
      BY DEF NoAnswer
    <2>4. QED
      BY <2>2, <2>3
  <1>3. ReaderInv' /\ AnswerInv' /\ GetiExact'
    <2>1. answer'.index = -1
      BY DEF NoAnswer
    <2>2. ~ -1 \in 0 .. Len(appended'[rd'.stream]) - 1
      OBVIOUS
    <2>3. QED
      BY <1>2, <2>1, <2>2 DEF ReaderInv, AnswerInv, GetiExact
  <1>4. QED
    BY <1>1, <1>2, <1>3, ReadersStep

LEMMA GetiStep ==
  ASSUME NEW index \in 0 .. MaxIndex, IInv, Geti(index)
  PROVE  IInv'
  <1> USE DEF Geti
  <1>1. index \in Nat
    BY DprefBoundAssumption
  <1>2. /\ call' \in [op : {"geti"}, index : Nat] /\ call'.op = "geti"
        /\ ~Allocating /\ ~Allocating' /\ mode = "r" /\ rd' = rd /\ answer' = answer
    BY <1>1 DEF Allocating
  <1>3. /\ rd' \in [stream : Bufs, state : {"none", "open"}, first : Nat,
                    current : Nat, global_index : Nat]
        /\ answer' \in [index : Int, ref : Int]
    BY <1>2 DEF IInv, TypeOK, StreamTypes
  <1>4. ReaderInv' /\ AnswerInv' /\ GetiExact'
    BY <1>2 DEF IInv, ReaderInv, AnswerInv, GetiExact, NoAnswer
  <1>5. QED
    BY <1>2, <1>3, <1>4, ReadersStep

\* The call in progress is a geti of a position, on a page of an open reader.
LEMMA GetiCall ==
  ASSUME IInv, call.op = "geti"
  PROVE  /\ call \in [op : {"geti"}, index : Nat] /\ call.index \in Nat
         /\ ~Allocating /\ rd.state = "open" /\ mode = "r"
         /\ rd.stream \in Bufs /\ rd.current \in DOMAIN pages
         /\ pages[rd.current] \in Pages
         /\ appended[rd.stream] \in Seq(Refs) /\ Len(appended[rd.stream]) \in Nat
         /\ chain[rd.stream] \in Seq(Nat) /\ Len(chain[rd.stream]) \in Nat
         /\ Len(appended[rd.stream]) < Len(chain[rd.stream]) * PerPage
         /\ \E k \in Nat :
              /\ rd.global_index = k * PerPage
              /\ k < Len(chain[rd.stream]) => rd.current = chain[rd.stream][k + 1]
  <1>1. call # NoCall /\ call \notin [op : {"setup", "link"}, buf : Bufs, map : Nat]
    BY DEF NoCall
  <1>2. call \in [op : {"geti"}, index : Nat] /\ call.index \in Nat
    BY <1>1 DEF IInv, TypeOK, StreamTypes
  <1>3. ~Allocating /\ rd.state = "open" /\ mode = "r"
    BY <1>1 DEF Allocating, IInv, FileInv
  <1>4. rd.stream \in Bufs
    BY DEF IInv, TypeOK, StreamTypes
  <1>5. /\ buf[rd.stream].state = "closed" /\ rd.current \in DOMAIN pages
        /\ \E k \in Nat :
              /\ rd.global_index = k * PerPage
              /\ k < Len(chain[rd.stream]) => rd.current = chain[rd.stream][k + 1]
    BY <1>3 DEF IInv, ReaderInv
  <1>6. pages[rd.current] \in Pages /\ appended[rd.stream] \in Seq(Refs)
        /\ chain[rd.stream] \in Seq(Nat)
    BY <1>4, <1>5 DEF IInv, TypeOK, StreamTypes
  <1>7. Len(appended[rd.stream]) < Len(chain[rd.stream]) * PerPage
    <2>1. BufInv(rd.stream)
      BY <1>4 DEF IInv
    <2>2. QED
      BY <1>5, <2>1 DEF BufInv
  <1>8. QED
    BY <1>2, <1>3, <1>4, <1>5, <1>6, <1>7

LEMMA GetiHitStep == IInv /\ GetiHit => IInv'
  <1> SUFFICES ASSUME IInv, GetiHit PROVE IInv'
    OBVIOUS
  <1> DEFINE b == rd.stream
             i == call.index
             s == i - rd.global_index
             page == pages[rd.current]
  <1>1. /\ i \in Nat /\ ~Allocating /\ rd.state = "open" /\ mode = "r"
        /\ b \in Bufs /\ rd.current \in DOMAIN pages /\ page \in Pages
        /\ Len(appended[b]) \in Nat /\ Len(chain[b]) \in Nat
        /\ Len(appended[b]) < Len(chain[b]) * PerPage
    BY GetiCall DEF GetiHit
  <1>2. PICK k \in Nat : /\ rd.global_index = k * PerPage
                         /\ k < Len(chain[b]) => rd.current = chain[b][k + 1]
    BY GetiCall DEF GetiHit
  <1>3. /\ rd.global_index <= i /\ i < rd.global_index + PerPage
        /\ call' = NoCall /\ rd' = rd
        /\ answer' = [index |-> i, ref |-> page.refs[s]]
    BY DEF GetiHit, OnPage, Answered
  <1>4. rd.global_index \in Nat /\ s \in Slots
    <2>1. rd.global_index \in Nat
      BY DEF IInv, TypeOK, StreamTypes
    <2>2. QED
      BY <1>1, <1>3, <2>1, PerPagePositive DEF Slots
  <1>5. answer' \in [index : Int, ref : Int]
    BY <1>1, <1>3, <1>4 DEF Pages
  <1> HIDE DEF page, s
  <1>6. GetiExact'
    <2> SUFFICES ASSUME i \in 0 .. Len(appended[b]) - 1
                 PROVE  page.refs[s] = appended[b][i + 1]
      BY <1>3 DEF GetiExact, GetiHit
    <2>1. i < Len(appended[b])
      BY <1>1
    <2>2. k * PerPage <= i /\ i < Len(chain[b]) * PerPage
      <3>1. Len(chain[b]) * PerPage \in Nat
        BY <1>1, PerPagePositive
      <3>2. QED
        BY <1>1, <1>2, <1>3, <2>1, <3>1
    <2>3. k < Len(chain[b])
      BY <1>1, <2>2, PageBefore
    <2>4. rd.current = chain[b][k + 1] /\ k + 1 \in 1 .. Len(chain[b])
      BY <1>1, <1>2, <2>3
    <2>5. k + 1 - 1 = k /\ k * PerPage + s = i
      BY <1>1, <1>2, <1>4 DEF s
    <2>6. (k + 1 - 1) * PerPage + s = i
      BY <2>5
    <2>7. page.refs[s] = appended[b][(k + 1 - 1) * PerPage + s + 1]
      <3>1. PICK n \in 1 .. Len(chain[b]) : n = k + 1
        BY <2>4
      <3>2. (n - 1) * PerPage + s = i
        BY <2>6, <3>1
      <3>3. (n - 1) * PerPage + s < Len(appended[b])
        BY <2>1, <3>2
      <3>4. pages[chain[b][n]].refs[s] = appended[b][(n - 1) * PerPage + s + 1]
        BY <1>1, <1>4, <3>3 DEF IInv, RefsInPlace
      <3>5. QED
        BY <2>4, <3>1, <3>4 DEF page
    <2>8. QED
      BY <2>6, <2>7
  <1>7. /\ UNCHANGED <<fileVars, pages, buf, chain, appended>> /\ ~Allocating'
        /\ ~ (call' # NoCall /\ call'.op = "geti")
    BY <1>3 DEF GetiHit, Allocating
  <1>8. ReaderInv' /\ AnswerInv'
    BY <1>1, <1>3, <1>7 DEF IInv, ReaderInv, AnswerInv
  <1>9. rd' \in [stream : Bufs, state : {"none", "open"}, first : Nat,
                 current : Nat, global_index : Nat]
    BY <1>3 DEF IInv, TypeOK, StreamTypes
  <1>10. QED
    BY <1>1, <1>3, <1>5, <1>6, <1>7, <1>8, <1>9, ReadersStep

LEMMA GetiNextPageStep == IInv /\ GetiNextPage => IInv'
  <1> SUFFICES ASSUME IInv, GetiNextPage PROVE IInv'
    OBVIOUS
  <1> DEFINE b == rd.stream
             i == call.index
             next == pages[rd.current].next
  <1>1. /\ i \in Nat /\ ~Allocating /\ rd.state = "open" /\ mode = "r"
        /\ call \in [op : {"geti"}, index : Nat]
        /\ b \in Bufs /\ rd.current \in DOMAIN pages
        /\ Len(appended[b]) \in Nat /\ Len(chain[b]) \in Nat
        /\ Len(appended[b]) < Len(chain[b]) * PerPage
    BY GetiCall DEF GetiNextPage
  <1>2. PICK k \in Nat : /\ rd.global_index = k * PerPage
                         /\ k < Len(chain[b]) => rd.current = chain[b][k + 1]
    BY GetiCall DEF GetiNextPage
  <1>3. /\ k * PerPage + PerPage <= i
        /\ UNCHANGED <<fileVars, pages, buf, chain, appended>>
    BY <1>2 DEF GetiNextPage, PastPage
  <1>4. /\ (k + 1) * PerPage = k * PerPage + PerPage
        /\ k * PerPage \in Nat /\ (k + 1) * PerPage \in Nat
    <2>1. k <= k /\ k + 1 \in Nat
      OBVIOUS
    <2>2. QED
      BY <2>1, PagesOrdered, PerPagePositive
  \* If the stream goes on, this page's link leads to the page that has it on.
  <1>5. ASSUME k + 1 < Len(chain[b]) PROVE next = chain[b][k + 2] /\ next \in DOMAIN pages
    <2>1. /\ k + 1 \in 1 .. Len(chain[b]) - 1 /\ k + 2 \in 1 .. Len(chain[b])
          /\ k + 1 + 1 = k + 2 /\ k < Len(chain[b])
      BY <1>1, <1>5
    <2>2. pages[chain[b][k + 1]].next = chain[b][k + 2]
      BY <1>1, <2>1 DEF IInv, ChainsLinked
    <2>3. chain[b][k + 2] \in DOMAIN pages
      BY <1>1, <2>1 DEF IInv, BufInv
    <2>4. QED
      BY <1>2, <2>1, <2>2, <2>3
  <1>6. DOMAIN pages \subseteq Nat /\ next \in DOMAIN pages \cup {-1}
    <2>1. next \in DOMAIN pages \cup {-1, 0} /\ 0 \in DOMAIN pages
      BY <1>1 DEF IInv, PagesInv
    <2>2. QED
      BY <2>1 DEF IInv, TypeOK, StreamTypes
  <1>7. CASE next = -1
    <2>1. /\ answer' = [index |-> i, ref |-> -1] /\ call' = NoCall /\ rd' = rd
      BY <1>7 DEF GetiNextPage, Answered
    <2>2. ~ i < Len(appended[b])
      <3> SUFFICES ASSUME i < Len(appended[b]) PROVE FALSE
        OBVIOUS
      <3>1. (k + 1) * PerPage <= i
        BY <1>3, <1>4
      <3>2. Len(chain[b]) * PerPage \in Nat
        BY <1>1, PerPagePositive
      <3>3. i < Len(chain[b]) * PerPage
        BY <1>1, <3>2
      <3>4. k + 1 < Len(chain[b])
        BY <1>1, <3>1, <3>3, PageBefore
      <3>5. QED
        BY <1>5, <1>6, <1>7, <3>4
    <2>3. GetiExact'
      BY <1>1, <1>3, <2>1, <2>2 DEF GetiExact
    <2>4. ReaderInv' /\ AnswerInv'
      BY <1>1, <1>3, <2>1 DEF IInv, ReaderInv, AnswerInv
    <2>5. ~Allocating' /\ answer' \in [index : Int, ref : Int]
      BY <1>1, <2>1 DEF Allocating
    <2>6. rd' \in [stream : Bufs, state : {"none", "open"}, first : Nat,
                   current : Nat, global_index : Nat]
      BY <2>1 DEF IInv, TypeOK, StreamTypes
    <2>7. QED
      BY <1>1, <1>3, <2>1, <2>3, <2>4, <2>5, <2>6, ReadersStep
  <1>8. CASE next # -1
    <2>1. /\ rd' = [rd EXCEPT !.current = next, !.global_index = rd.global_index + PerPage]
          /\ call' = call /\ answer' = answer
      BY <1>8 DEF GetiNextPage, IndexOfNext
    <2>2. next \in DOMAIN pages /\ next \in Nat
      BY <1>6, <1>8
    <2>3. rd \in [stream : Bufs, state : {"none", "open"}, first : Nat,
                  current : Nat, global_index : Nat]
      BY DEF IInv, TypeOK, StreamTypes
    <2>4. /\ rd' \in [stream : Bufs, state : {"none", "open"}, first : Nat,
                      current : Nat, global_index : Nat]
          /\ rd'.stream = b /\ rd'.state = "open" /\ rd'.current = next
          /\ rd'.global_index = (k + 1) * PerPage
      BY <1>1, <1>2, <1>4, <2>1, <2>2, <2>3
    <2>5. ReaderInv'
      <3>1. k + 1 < Len(chain[b]) => next = chain[b][k + 1 + 1]
        BY <1>5
      <3>2. k + 1 \in Nat
        OBVIOUS
      <3>3. buf[b].state = "closed"
        BY <1>1 DEF IInv, ReaderInv
      <3>4. QED
        BY <1>3, <2>2, <2>4, <3>1, <3>2, <3>3 DEF ReaderInv
    <2>6. AnswerInv' /\ GetiExact'
      BY <1>3, <2>1, <2>4 DEF IInv, AnswerInv, GetiExact
    <2>7. ~Allocating' /\ answer' \in [index : Int, ref : Int]
      BY <1>1, <2>1 DEF Allocating, IInv, TypeOK, StreamTypes
    <2>8. QED
      BY <1>1, <1>3, <2>1, <2>4, <2>5, <2>6, <2>7, ReadersStep
  <1>9. QED
    BY <1>7, <1>8

LEMMA StutterStep == IInv /\ UNCHANGED vars => IInv'
  <1> SUFFICES ASSUME IInv, UNCHANGED vars PROVE IInv'
    OBVIOUS
  <1> USE DEF vars, fileVars
  <1>1. TypeOK' /\ FileInv' /\ PagesInv'
    BY DEF IInv, TypeOK, FileTypes, StreamTypes, FileInv, PagesInv, Allocating
  <1>2. \A b \in Bufs : buf[b].state = "open" => mode' = "w"
    BY DEF IInv, BufInv
  <1>3. QED
    BY <1>1, <1>2, SameStreams DEF TypeOK

-----------------------------------------------------------------------------

LEMMA NextIInv == IInv /\ [Next]_vars => IInv'
  <1> SUFFICES ASSUME IInv, [Next]_vars PROVE IInv'
    OBVIOUS
  <1>1. CASE OpenWrite \/ OpenRead \/ Close
    BY <1>1, OpenWriteStep, OpenReadStep, CloseStep
  <1>2. CASE GrowFile \/ BufferReady \/ LinkPage
    BY <1>2, GrowFileStep, BufferReadyStep, LinkPageStep
  <1>3. ASSUME NEW b \in Bufs,
               SetupBuffer(b) \/ TeardownBuffer(b) \/ SetupReader(b)
        PROVE  IInv'
    BY <1>3, SetupBufferStep, TeardownBufferStep, SetupReaderStep
  <1>4. ASSUME NEW b \in Bufs, NEW ref \in Refs, Append1(b, ref) PROVE IInv'
    BY <1>4, Append1Step
  <1>5. CASE TeardownReader
    BY <1>5, TeardownReaderStep
  <1>6. ASSUME NEW index \in 0 .. MaxIndex, Geti(index) PROVE IInv'
    BY <1>6, GetiStep
  <1>7. CASE GetiHit \/ GetiNextPage
    BY <1>7, GetiHitStep, GetiNextPageStep
  <1>8. CASE GetiSpin \/ UNCHANGED vars
    BY <1>8, StutterStep DEF GetiSpin
  <1>9. QED
    BY <1>1, <1>2, <1>3, <1>4, <1>5, <1>6, <1>7, <1>8 DEF Next

\* The inductive invariant holds throughout.
THEOREM InvariantHolds == Spec => []IInv
  BY InitIInv, NextIInv, PTL DEF Spec

\* The store's variables keep their types.
THEOREM TypeCorrect == Spec => []TypeOK
  <1>1. IInv => TypeOK
    BY DEF IInv
  <1>2. QED
    BY <1>1, InvariantHolds, PTL

\* Growing the file never breaks a stream's list of pages (flush_buffer), and no
\* page is given to two streams.
THEOREM ListsIntact == Spec => []ChainsLinked
  <1>1. IInv => ChainsLinked
    BY DEF IInv
  <1>2. QED
    BY <1>1, InvariantHolds, PTL

\* What dpref__append was given is in the file at its place, whatever the other
\* streams did and wherever mremap moved the mapping.
THEOREM RefsKept == Spec => []RefsInPlace
  <1>1. IInv => RefsInPlace
    BY DEF IInv
  <1>2. QED
    BY <1>1, InvariantHolds, PTL

\* dpref__geti gives, for every position below the stream's length, the reference
\* appended there: a full last page does not disturb the positions before it.
THEOREM ReadsExact == Spec => []GetiExact
  <1>1. IInv => GetiExact
    BY DEF IInv
  <1>2. QED
    BY <1>1, InvariantHolds, PTL

-----------------------------------------------------------------------------

(***************************************************************************)
(* Where a stream ends                                                     *)
(***************************************************************************)

LastPage(b) == chain[b][Len(chain[b])]
\* The positions before those of the stream's last page.
Before(b) == (Len(chain[b]) - 1) * PerPage

\* A closed stream whose last page has references ends there: no link leads on, and
\* the slots not used are negative.
EndInv(b) ==
  buf[b].state = "closed" =>
    /\ Before(b) <= Len(appended[b])
    /\ Before(b) < Len(appended[b]) =>
         /\ pages[LastPage(b)].next = -1
         /\ \A s \in Slots :
              Before(b) + s >= Len(appended[b]) => pages[LastPage(b)].refs[s] = -1

\* A reader of such a stream has not come past its last page.
ReaderEnds ==
  rd.state = "open" /\ Before(rd.stream) < Len(appended[rd.stream]) =>
    /\ rd.global_index <= Before(rd.stream)
    /\ EndIsNegative

EndsInv == (\A b \in Bufs : EndInv(b)) /\ ReaderEnds

\* A stream that was set up has a last page.
LEMMA LastPageOf ==
  ASSUME IInv, NEW b \in Bufs, buf[b].state # "none"
  PROVE  /\ Len(chain[b]) \in Nat \ {0} /\ Before(b) \in Nat /\ Len(appended[b]) \in Nat
         /\ LastPage(b) \in DOMAIN pages /\ pages[LastPage(b)] \in Pages
         /\ buf[b].current = LastPage(b)
         /\ (Len(chain[b]) - 1) + 1 = Len(chain[b])
         /\ Len(chain[b]) * PerPage = Before(b) + PerPage
  <1>1. chain[b] \in Seq(Nat) /\ appended[b] \in Seq(Refs) /\ BufInv(b)
    BY DEF IInv, TypeOK, StreamTypes
  <1>2. Len(chain[b]) \in Nat \ {0} /\ Len(appended[b]) \in Nat
    BY <1>1 DEF BufInv
  <1>3. LastPage(b) \in DOMAIN pages
    BY <1>1, <1>2 DEF BufInv, LastPage
  <1>4. Len(chain[b]) - 1 \in Nat /\ (Len(chain[b]) - 1) + 1 = Len(chain[b])
    BY <1>2
  <1>5. Before(b) \in Nat /\ ((Len(chain[b]) - 1) + 1) * PerPage = Before(b) + PerPage
    <2>1. PICK n \in Nat : n = Len(chain[b]) - 1
      BY <1>4
    <2>2. n * PerPage \in Nat /\ (n + 1) * PerPage = n * PerPage + PerPage
      BY PagesOrdered
    <2>3. QED
      BY <2>1, <2>2 DEF Before
  <1>6. QED
    BY <1>1, <1>2, <1>3, <1>4, <1>5 DEF BufInv, LastPage, IInv, TypeOK, StreamTypes

\* No page but its own is another stream's last.
LEMMA LastPagesDiffer ==
  ASSUME IInv, NEW b \in Bufs, NEW c \in Bufs, b # c,
         buf[b].state # "none", buf[c].state # "none"
  PROVE  LastPage(b) # LastPage(c)
  <1>1. Len(chain[b]) \in 1 .. Len(chain[b]) /\ Len(chain[c]) \in 1 .. Len(chain[c])
    BY LastPageOf
  <1>2. QED
    BY <1>1 DEF IInv, ChainsLinked, LastPage

\* A step of the writer changes one stream.
LEMMA WriterEnds ==
  ASSUME IInv, EndsInv, mode = "w", rd' = rd, NEW b \in Bufs,
         \A c \in Bufs \ {b} :
           /\ buf'[c] = buf[c] /\ chain'[c] = chain[c] /\ appended'[c] = appended[c]
           /\ buf[c].state = "closed" => pages'[LastPage(c)] = pages[LastPage(c)],
         EndInv(b)'
  PROVE  EndsInv'
  <1>1. ASSUME NEW c \in Bufs \ {b} PROVE EndInv(c)'
    <2>1. Before(c)' = Before(c) /\ LastPage(c)' = LastPage(c)
      BY DEF Before, LastPage
    <2>2. EndInv(c)
      BY DEF EndsInv
    <2>3. QED
      BY <2>1, <2>2 DEF EndInv
  <1>2. ReaderEnds'
    BY DEF IInv, FileInv, ReaderEnds
  <1>3. QED
    BY <1>1, <1>2 DEF EndsInv

LEMMA SameEnds ==
  ASSUME IInv, EndsInv, UNCHANGED <<pages, buf, chain, appended, rd, answer>>
  PROVE  EndsInv'
  BY DEF EndsInv, EndInv, Before, LastPage, ReaderEnds, EndIsNegative

LEMMA BufferReadyEnds == IInv /\ EndsInv /\ BufferReady => EndsInv'
  <1> SUFFICES ASSUME IInv, EndsInv, BufferReady PROVE EndsInv'
    OBVIOUS
  <1>0. PICK b \in Bufs : b = call.buf
    BY AllocatingCall DEF IInv, TypeOK, BufferReady
  <1>1. Allocating /\ PageReturned /\ rd' = rd
    BY AllocatingCall DEF IInv, TypeOK, BufferReady
  <1>2. mode = "w" /\ offset \notin DOMAIN pages
    BY <1>1, PageIsNew
  <1>3. /\ buf' = [buf EXCEPT ![b] = [state |-> "open", refs_index |-> 0, global_index |-> 0,
                                      first |-> offset, current |-> offset]]
        /\ chain' = [chain EXCEPT ![b] = <<offset>>]
        /\ appended' = appended /\ pages' = WithNewPage(pages)
    BY <1>0 DEF BufferReady
  <1>4. \A p \in DOMAIN pages : pages'[p] = pages[p]
    BY <1>2, <1>3 DEF WithNewPage
  <1>5. \A c \in Bufs : buf[c].state = "closed" => LastPage(c) \in DOMAIN pages
    BY LastPageOf
  <1>6. buf'[b].state = "open" /\ \A c \in Bufs \ {b} : buf'[c] = buf[c] /\ chain'[c] = chain[c]
    BY <1>1, <1>3 DEF IInv, TypeOK, StreamTypes
  <1>7. EndInv(b)'
    BY <1>6 DEF EndInv
  <1>8. QED
    BY <1>1, <1>2, <1>3, <1>4, <1>5, <1>6, <1>7, WriterEnds

LEMMA LinkPageEnds == IInv /\ EndsInv /\ LinkPage => EndsInv'
  <1> SUFFICES ASSUME IInv, EndsInv, LinkPage PROVE EndsInv'
    OBVIOUS
  <1>0. PICK b \in Bufs : b = call.buf
    BY LinkedPages
  <1>1. /\ Allocating /\ PageReturned
        /\ buf[b].state = "open"
        /\ \A p \in DOMAIN pages : p # buf[b].current => pages'[p] = pages[p]
        /\ chain' = [chain EXCEPT ![b] = Append(chain[b], offset)]
        /\ buf' = [buf EXCEPT ![b] = [buf[b] EXCEPT !.current = offset, !.refs_index = 0]]
        /\ rd' = rd /\ appended' = appended
    BY <1>0, LinkedPages DEF LinkPage
  <1>2. mode = "w"
    BY <1>1, PageIsNew
  <1>3. /\ buf'[b].state = "open"
        /\ \A c \in Bufs \ {b} : buf'[c] = buf[c] /\ chain'[c] = chain[c]
    BY <1>1 DEF IInv, TypeOK, StreamTypes
  <1>4. EndInv(b)'
    BY <1>3 DEF EndInv
  <1>5. ASSUME NEW c \in Bufs \ {b}, buf[c].state = "closed"
        PROVE  pages'[LastPage(c)] = pages[LastPage(c)]
    <2>1. LastPage(c) \in DOMAIN pages /\ buf[b].current = LastPage(b)
      BY <1>1, <1>5, LastPageOf
    <2>2. LastPage(c) # LastPage(b)
      BY <1>1, <1>5, LastPagesDiffer
    <2>3. QED
      BY <1>1, <2>1, <2>2
  <1>6. QED
    BY <1>1, <1>2, <1>3, <1>4, <1>5, WriterEnds

LEMMA Append1Ends ==
  ASSUME NEW b \in Bufs, NEW ref \in Refs, IInv, EndsInv, Append1(b, ref)
  PROVE  EndsInv'
  <1> DEFINE page == buf[b].current
             new == [pages[page] EXCEPT !.refs[buf[b].refs_index] = ref]
  <1>1. buf[b].state = "open" /\ pages' = [pages EXCEPT ![page] = new] /\ mode = "w"
    BY SlotWritten DEF Append1
  <1> HIDE DEF new
  <1>2. /\ buf' = [buf EXCEPT ![b].refs_index = @ + 1, ![b].global_index = @ + 1]
        /\ appended' = [appended EXCEPT ![b] = Append(@, ref)]
        /\ chain' = chain /\ rd' = rd
    BY DEF Append1
  <1>3. /\ buf'[b].state = "open"
        /\ \A c \in Bufs \ {b} : buf'[c] = buf[c] /\ appended'[c] = appended[c]
    BY <1>1, <1>2 DEF IInv, TypeOK, StreamTypes
  <1>4. EndInv(b)'
    BY <1>3 DEF EndInv
  <1>5. ASSUME NEW c \in Bufs \ {b}, buf[c].state = "closed"
        PROVE  pages'[LastPage(c)] = pages[LastPage(c)]
    <2>1. LastPage(c) \in DOMAIN pages /\ page = LastPage(b)
      BY <1>1, <1>5, LastPageOf
    <2>2. LastPage(c) # LastPage(b)
      BY <1>1, <1>5, LastPagesDiffer
    <2>3. QED
      BY <1>1, <2>1, <2>2
  <1>6. QED
    BY <1>1, <1>2, <1>3, <1>4, <1>5, WriterEnds

\* dpref__teardown_buffer leaves its stream's end as EndInv has it.
LEMMA TeardownBufferEnds ==
  ASSUME NEW b \in Bufs, IInv, EndsInv, TeardownBuffer(b)
  PROVE  EndsInv'
  <1> DEFINE page == buf[b].current
             from == buf[b].refs_index
             new == Finished(pages[page], from)
  <1>1. buf[b].state = "open" /\ UNCHANGED <<chain, appended, rd>> /\ mode = "w"
    BY DEF TeardownBuffer
  <1>2. /\ map = liveMap /\ from \in 0 .. PerPage
        /\ Len(appended[b]) = Before(b) + from
        /\ page = LastPage(b) /\ page \in DOMAIN pages /\ Before(b) \in Nat
    BY <1>1, CurrentPage, LastPageOf DEF Before
  <1>3. /\ from > 0 => pages' = [pages EXCEPT ![page] = new]
        /\ ~ from > 0 => pages' = pages
    BY <1>2 DEF TeardownBuffer, Stored
  <1>4. /\ new.next = -1
        /\ \A s \in Slots : ~ s < from => new.refs[s] = -1
    BY DEF Finished
  <1>5. \A c \in Bufs \ {b} : buf'[c] = buf[c]
    BY DEF TeardownBuffer, IInv, TypeOK, StreamTypes
  <1> HIDE DEF new, page, from
  <1>6. EndInv(b)'
    <2>1. Before(b)' = Before(b) /\ LastPage(b)' = LastPage(b)
      BY <1>1 DEF Before, LastPage
    <2>2. Before(b) <= Len(appended[b])
      BY <1>2
    <2>3. ASSUME Before(b) < Len(appended[b])
          PROVE  /\ pages'[LastPage(b)].next = -1
                 /\ \A s \in Slots : Before(b) + s >= Len(appended[b])
                                     => pages'[LastPage(b)].refs[s] = -1
      <3>1. from > 0
        BY <1>2, <2>3
      <3>2. pages'[LastPage(b)] = new
        BY <1>2, <1>3, <3>1
      <3>3. \A s \in Slots : Before(b) + s >= Len(appended[b]) => ~ s < from
        BY <1>2, PerPagePositive DEF Slots
      <3>4. QED
        BY <1>4, <3>2, <3>3
    <2>4. QED
      BY <1>1, <2>1, <2>2, <2>3 DEF EndInv
  <1>7. ASSUME NEW c \in Bufs \ {b}, buf[c].state = "closed"
        PROVE  pages'[LastPage(c)] = pages[LastPage(c)]
    <2>1. LastPage(c) \in DOMAIN pages
      BY <1>7, LastPageOf
    <2>2. LastPage(c) # LastPage(b)
      BY <1>1, <1>7, LastPagesDiffer
    <2>3. QED
      BY <1>2, <1>3, <2>1, <2>2
  <1>8. QED
    BY <1>1, <1>5, <1>6, <1>7, WriterEnds

\* A reader that stands in front of the end of such a stream is on its last page, or
\* has another page to go to.
LEMMA GetiEnds ==
  ASSUME IInv, EndsInv, call.op = "geti",
         Before(rd.stream) < Len(appended[rd.stream])
  PROVE  /\ rd.global_index \in Nat /\ Before(rd.stream) \in Nat
         /\ rd.global_index <= Before(rd.stream)
         /\ rd.global_index = Before(rd.stream) =>
              /\ pages[rd.current].next = -1
              /\ \A s \in Slots : rd.global_index + s >= Len(appended[rd.stream])
                                  => pages[rd.current].refs[s] = -1
         /\ rd.global_index # Before(rd.stream) =>
              rd.global_index + PerPage <= Before(rd.stream)
  <1> DEFINE b == rd.stream
             n == Len(chain[b])
  <1>1. /\ rd.state = "open" /\ b \in Bufs
        /\ \E k \in Nat : /\ rd.global_index = k * PerPage
                          /\ k < n => rd.current = chain[b][k + 1]
    BY GetiCall
  <1>2. PICK k \in Nat : /\ rd.global_index = k * PerPage
                         /\ k < n => rd.current = chain[b][k + 1]
    BY <1>1
  <1>3. buf[b].state = "closed"
    BY <1>1 DEF IInv, ReaderInv
  <1>4. n \in Nat \ {0} /\ Before(b) \in Nat /\ Before(b) = (n - 1) * PerPage
    BY <1>1, <1>3, LastPageOf DEF Before
  <1>5. rd.global_index \in Nat /\ rd.global_index <= Before(b)
    BY <1>1 DEF IInv, TypeOK, StreamTypes, EndsInv, ReaderEnds
  <1> HIDE DEF b, n
  <1>6. CASE k < n - 1
    <2>1. (k + 1) * PerPage <= (n - 1) * PerPage /\ (k + 1) * PerPage = k * PerPage + PerPage
      <3>1. n - 1 \in Nat /\ k + 1 \in Nat /\ k + 1 <= n - 1 /\ k <= k
        BY <1>4, <1>6
      <3>2. QED
        BY <3>1, PagesOrdered
    <2>2. rd.global_index + PerPage <= Before(b)
      BY <1>2, <1>4, <2>1
    <2>3. QED
      BY <1>4, <1>5, <2>2, PerPagePositive DEF b
  <1>7. CASE k = n - 1
    <2>1. rd.global_index = Before(b) /\ k < n /\ k + 1 = n
      BY <1>2, <1>4, <1>7
    <2>2. rd.current = LastPage(b)
      BY <1>2, <2>1 DEF LastPage, n
    <2>3. EndInv(b)
      BY <1>1 DEF EndsInv, b
    <2>4. QED
      BY <1>3, <1>4, <1>5, <2>1, <2>2, <2>3 DEF EndInv, b
  <1>8. CASE k > n - 1
    <2>1. n * PerPage <= k * PerPage /\ ((n - 1) + 1) * PerPage = (n - 1) * PerPage + PerPage
          /\ (n - 1) + 1 = n
      BY <1>4, <1>8, PagesOrdered
    <2>2. QED
      BY <1>2, <1>4, <1>5, <2>1, PerPagePositive
  <1>9. QED
    BY <1>4, <1>6, <1>7, <1>8

LEMMA GetiHitEnds == IInv /\ EndsInv /\ GetiHit => EndsInv'
  <1> SUFFICES ASSUME IInv, EndsInv, GetiHit PROVE EndsInv'
    OBVIOUS
  <1> DEFINE b == rd.stream
             s == call.index - rd.global_index
  <1>1. /\ call.op = "geti" /\ UNCHANGED <<pages, buf, chain, appended, rd>>
        /\ answer' = [index |-> call.index, ref |-> pages[rd.current].refs[s]]
        /\ rd.global_index <= call.index /\ call.index < rd.global_index + PerPage
    BY DEF GetiHit, OnPage, Answered
  <1>2. call.index \in Nat /\ Len(appended[b]) \in Nat
    BY <1>1, GetiCall
  <1>3. \A c \in Bufs : EndInv(c)'
    BY <1>1 DEF EndsInv, EndInv, Before, LastPage
  <1>4. ASSUME Before(b) < Len(appended[b]), call.index >= Len(appended[b])
        PROVE  pages[rd.current].refs[s] = -1
    <2>1. /\ rd.global_index \in Nat /\ Before(b) \in Nat /\ rd.global_index <= Before(b)
          /\ rd.global_index = Before(b) =>
               \A x \in Slots : rd.global_index + x >= Len(appended[b])
                                => pages[rd.current].refs[x] = -1
          /\ rd.global_index # Before(b) => rd.global_index + PerPage <= Before(b)
      BY <1>1, <1>4, GetiEnds
    <2>2. rd.global_index = Before(b)
      BY <1>1, <1>2, <1>4, <2>1, PerPagePositive
    <2>3. s \in Slots /\ rd.global_index + s >= Len(appended[b])
      BY <1>1, <1>2, <1>4, <2>1, PerPagePositive DEF Slots
    <2>4. QED
      BY <2>1, <2>2, <2>3
  <1> HIDE DEF s
  <1>5. ReaderEnds'
    <2>1. Before(b)' = Before(b)
      BY <1>1 DEF Before
    <2>2. SUFFICES ASSUME rd.state = "open", Before(b) < Len(appended[b])
                   PROVE  /\ rd.global_index <= Before(b)
                          /\ answer'.index >= Len(appended[b]) => answer'.ref < 0
      BY <1>1, <2>1 DEF ReaderEnds, EndIsNegative
    <2>3. rd.global_index <= Before(b)
      BY <2>2 DEF EndsInv, ReaderEnds
    <2>4. answer'.index = call.index /\ answer'.ref = pages[rd.current].refs[s]
      BY <1>1
    <2>5. QED
      BY <1>4, <2>2, <2>3, <2>4
  <1>6. QED
    BY <1>3, <1>5 DEF EndsInv

LEMMA GetiNextPageEnds == IInv /\ EndsInv /\ GetiNextPage => EndsInv'
  <1> SUFFICES ASSUME IInv, EndsInv, GetiNextPage PROVE EndsInv'
    OBVIOUS
  <1> DEFINE next == pages[rd.current].next
  <1>0. PICK b \in Bufs : b = rd.stream
    BY DEF IInv, TypeOK, StreamTypes
  <1>1. /\ call.op = "geti" /\ UNCHANGED <<pages, buf, chain, appended>>
        /\ next = -1 => rd' = rd /\ answer' = [index |-> call.index, ref |-> -1]
        /\ next # -1 => /\ rd' = [rd EXCEPT !.current = next,
                                            !.global_index = rd.global_index + PerPage]
                        /\ answer' = answer
    BY DEF GetiNextPage, Answered, IndexOfNext
  <1>2. \A c \in Bufs : EndInv(c)'
    BY <1>1 DEF EndsInv, EndInv, Before, LastPage
  <1>3. /\ rd'.stream = b /\ rd'.state = rd.state
        /\ next = -1 => rd'.global_index = rd.global_index
        /\ next # -1 => rd'.global_index = rd.global_index + PerPage
    <2>1. rd \in [stream : Bufs, state : {"none", "open"}, first : Nat,
                  current : Nat, global_index : Nat]
      BY DEF IInv, TypeOK, StreamTypes
    <2>2. QED
      BY <1>0, <1>1, <2>1
  <1>4. ReaderEnds'
    <2>1. Before(b)' = Before(b)
      BY <1>1 DEF Before
    <2>2. SUFFICES ASSUME rd.state = "open", Before(b) < Len(appended[b])
                   PROVE  /\ rd'.global_index <= Before(b)
                          /\ answer'.index >= Len(appended[b]) => answer'.ref < 0
      <3>1. Before(rd.stream)' = Before(b)
        BY <1>1, <1>3 DEF Before
      <3>2. QED
        BY <1>1, <1>3, <3>1 DEF ReaderEnds, EndIsNegative
    <2>3. /\ rd.global_index <= Before(b)
          /\ answer.index >= Len(appended[b]) => answer.ref < 0
      <3>1. appended[b] # <<>>
        <4>1. Before(rd.stream) \in Nat
          BY <1>0, <1>1, <2>2, GetiEnds
        <4>2. QED
          BY <1>0, <2>2, <4>1
      <3>2. QED
        BY <1>0, <2>2, <3>1 DEF EndsInv, ReaderEnds, EndIsNegative
    <2>4. CASE next = -1
      BY <1>1, <1>3, <2>3, <2>4
    <2>5. CASE next # -1
      BY <1>0, <1>1, <1>3, <2>2, <2>3, <2>5, GetiEnds
    <2>6. QED
      BY <2>4, <2>5
  <1>5. QED
    BY <1>2, <1>4 DEF EndsInv

LEMMA ReadersEnds ==
  ASSUME IInv, EndsInv, \/ \E b \in Bufs : SetupReader(b)
                        \/ TeardownReader
                        \/ \E index \in 0 .. MaxIndex : Geti(index)
  PROVE  EndsInv'
  <1>1. UNCHANGED <<pages, buf, chain, appended>>
    BY DEF SetupReader, TeardownReader, Geti
  <1>2. \A c \in Bufs : EndInv(c)'
    BY <1>1 DEF EndsInv, EndInv, Before, LastPage
  <1>3. ReaderEnds'
    <2>1. ASSUME NEW b \in Bufs, SetupReader(b) PROVE ReaderEnds'
      <3>1. rd'.stream = b /\ rd'.global_index = 0 /\ answer'.index = -1
        BY <2>1 DEF SetupReader, NoAnswer
      <3>2. Before(rd.stream)' \in Nat /\ Len(appended[rd.stream])' \in Nat
        <4>1. Before(b) \in Nat /\ Len(appended[b]) \in Nat
          BY <2>1, LastPageOf DEF SetupReader
        <4>2. QED
          BY <1>1, <3>1, <4>1 DEF Before
      <3>3. QED
        BY <3>1, <3>2 DEF ReaderEnds, EndIsNegative
    <2>2. CASE TeardownReader
      <3>1. rd'.state = "none"
        <4>1. rd \in [stream : Bufs, state : {"none", "open"}, first : Nat,
                      current : Nat, global_index : Nat]
          BY DEF IInv, TypeOK, StreamTypes
        <4>2. QED
          BY <2>2, <4>1 DEF TeardownReader
      <3>2. QED
        BY <3>1 DEF ReaderEnds
    <2>3. ASSUME NEW index \in 0 .. MaxIndex, Geti(index) PROVE ReaderEnds'
      <3>1. rd' = rd /\ answer' = answer
        BY <2>3 DEF Geti
      <3>2. QED
        BY <1>1, <3>1 DEF EndsInv, ReaderEnds, EndIsNegative, Before
    <2>4. QED
      BY <2>1, <2>2, <2>3
  <1>4. QED
    BY <1>2, <1>3 DEF EndsInv

LEMMA NextEnds == IInv /\ EndsInv /\ [Next]_vars => EndsInv'
  <1> SUFFICES ASSUME IInv, EndsInv, [Next]_vars PROVE EndsInv'
    OBVIOUS
  <1>1. CASE UNCHANGED vars \/ GetiSpin
    BY <1>1, SameEnds DEF vars, GetiSpin
  <1>2. CASE OpenWrite \/ OpenRead \/ Close \/ GrowFile \/ \E b \in Bufs : SetupBuffer(b)
    BY <1>2, SameEnds DEF OpenWrite, OpenRead, Close, GrowFile, SetupBuffer
  <1>3. CASE BufferReady \/ LinkPage
    BY <1>3, BufferReadyEnds, LinkPageEnds
  <1>4. ASSUME NEW b \in Bufs, TeardownBuffer(b) PROVE EndsInv'
    BY <1>4, TeardownBufferEnds
  <1>5. ASSUME NEW b \in Bufs, NEW ref \in Refs, Append1(b, ref) PROVE EndsInv'
    BY <1>5, Append1Ends
  <1>6. CASE \/ \E b \in Bufs : SetupReader(b)
             \/ TeardownReader
             \/ \E index \in 0 .. MaxIndex : Geti(index)
    BY <1>6, ReadersEnds
  <1>7. CASE GetiHit \/ GetiNextPage
    BY <1>7, GetiHitEnds, GetiNextPageEnds
  <1>8. QED
    BY <1>1, <1>2, <1>3, <1>4, <1>5, <1>6, <1>7 DEF Next

LEMMA InitEnds == Init => EndsInv
  BY DEF Init, NoBuf, EndsInv, EndInv, ReaderEnds

\* A stream that ends inside a page does end: dpref__geti gives a negative number for
\* every position past it.
THEOREM PartialPagesEnd == Spec => []PartialPageEnds
  <1>1. IInv /\ EndsInv => PartialPageEnds
    <2> SUFFICES ASSUME IInv, EndsInv, Len(appended[rd.stream]) % PerPage # 0
                 PROVE  EndIsNegative
      BY DEF PartialPageEnds
    <2> DEFINE b == rd.stream
    <2>1. b \in Bufs
      BY DEF IInv, TypeOK, StreamTypes
    <2>2. CASE rd.state # "open"
      <3>1. answer = NoAnswer /\ Len(appended[b]) \in Nat
        BY <2>1, <2>2 DEF IInv, AnswerInv, TypeOK, StreamTypes
      <3>2. ~ answer.index >= Len(appended[b])
        BY <3>1 DEF NoAnswer
      <3>3. QED
        BY <3>2 DEF EndIsNegative
    <2>3. CASE rd.state = "open"
      <3>1. buf[b].state = "closed"
        BY <2>3 DEF IInv, ReaderInv
      <3>2. Before(b) \in Nat /\ Len(appended[b]) \in Nat /\ Len(chain[b]) - 1 \in Nat
        BY <2>1, <3>1, LastPageOf
      <3>3. Before(b) <= Len(appended[b])
        BY <2>1, <3>1 DEF EndsInv, EndInv
      <3>4. Before(b) # Len(appended[b])
        <4> SUFFICES ASSUME Before(b) = Len(appended[b]) PROVE FALSE
          OBVIOUS
        <4> DEFINE k == Len(chain[b]) - 1
        <4>1. 0 \in 0 .. PerPage - 1
          BY PerPagePositive
        <4> HIDE DEF k
        <4>2. k \in Nat /\ Before(b) = k * PerPage
          BY <3>2 DEF Before, k
        <4>3. (k * PerPage + 0) % PerPage = 0 /\ k * PerPage + 0 \in Nat
          BY <4>1, <4>2, PerPageAssumption, PlaceIs
        <4>4. k * PerPage + 0 = Len(appended[b])
          BY <3>2, <4>2
        <4>5. QED
          BY <4>3, <4>4
      <3>5. QED
        BY <2>3, <3>2, <3>3, <3>4 DEF EndsInv, ReaderEnds
    <2>4. QED
      BY <2>2, <2>3
  <1>2. Spec => []EndsInv
    BY InvariantHolds, InitEnds, NextEnds, PTL DEF Spec
  <1>3. QED
    BY <1>1, <1>2, InvariantHolds, PTL

-----------------------------------------------------------------------------

(***************************************************************************)
(* The store's file is used as Mmbuf allows                                *)
(***************************************************************************)

LEMMA StoreStepUsesFile == Next => [FileNext]_fileVars
  <1> SUFFICES ASSUME Next PROVE [FileNext]_fileVars
    OBVIOUS
  <1>1. CASE OpenWrite
    BY <1>1 DEF OpenWrite, FileNext
  <1>2. CASE OpenRead
    BY <1>2 DEF OpenRead, FileNext
  <1>3. CASE Close
    BY <1>3 DEF Close, FileNext
  <1>4. CASE GrowFile
    BY <1>4 DEF GrowFile, FileNext
  <1>5. CASE BufferReady \/ LinkPage
    BY <1>5 DEF BufferReady, LinkPage, PageReturned, FileNext
  <1>6. ASSUME NEW op \in {"setup", "link"}, NEW b \in Bufs, NewPage(op, b)
        PROVE  FileNext
    <2>1. "pos_alloc" \in Ops /\ PageSize \in Lengths
      BY PageSizeAssumption DEF Ops
    <2>2. QED
      BY <1>6, <2>1 DEF NewPage, FileNext
  <1>7. ASSUME NEW b \in Bufs, SetupBuffer(b)
        PROVE  FileNext
    BY <1>6, <1>7 DEF SetupBuffer
  <1>8. ASSUME NEW b \in Bufs, NEW ref \in Refs, Append1(b, ref)
        PROVE  FileNext \/ UNCHANGED fileVars
    BY <1>6, <1>8 DEF Append1
  <1>9. ASSUME NEW b \in Bufs, TeardownBuffer(b) \/ SetupReader(b)
        PROVE  UNCHANGED fileVars
    BY <1>9 DEF TeardownBuffer, SetupReader
  <1>10. CASE TeardownReader \/ GetiHit \/ GetiNextPage \/ GetiSpin
    BY <1>10 DEF TeardownReader, GetiHit, GetiNextPage, GetiSpin, vars
  <1>11. ASSUME NEW index \in 0 .. MaxIndex, Geti(index)
         PROVE  UNCHANGED fileVars
    BY <1>11 DEF Geti
  <1>12. QED
    BY <1>1, <1>2, <1>3, <1>4, <1>5, <1>7, <1>8, <1>9, <1>10, <1>11 DEF Next

\* Each call of dpref makes the calls of mmbuf the way mmbuf allows them, one
\* at a time and in a session of their kind (dpref.c:9-13, 110-143).
THEOREM StoreUsesFile == Spec => FileInit /\ [][FileNext]_fileVars
  <1>1. Init => FileInit
    BY DEF Init
  <1>2. [Next]_vars => [FileNext]_fileVars
    BY StoreStepUsesFile DEF vars
  <1>3. QED
    BY <1>1, <1>2, PTL DEF Spec

\* So no store into a page leaves the file, whatever the streams grow to
\* (dpref.c:192-193).
THEOREM PagesBacked == Spec => []Backed
  <1>1. FileIInv => Backed
    BY DEF FileIInv, Writing, Backed, FileTypeOK
  <1>2. QED
    BY <1>1, InitFileIInv, NextFileIInv, StoreUsesFile, PTL

=============================================================================
