-------------------------------- MODULE Dpref -------------------------------
(***************************************************************************)
(* The intermediate reference store (src/src/pulp_db/kds/dpref.c): several *)
(* streams of message numbers, grown side by side in one file as linked    *)
(* lists of pages, then read back a stream at a time.  The file is that of *)
(* Mmbuf, whose allocations may move the mapping under a page pointer.     *)
(* An operator X_<fault> is a faulty variant of X.                         *)
(***************************************************************************)
EXTENDS Mmbuf, Sequences

CONSTANTS
  Bufs,          (* the dpref__buffers: one per stream                      *)
  Refs,          (* the message numbers                                     *)
  PerPage,       (* DPREF_NUM_REF_PER_PAGE                                  *)
  PageSize,      (* DPREF_PAGE_SIZE                                         *)
  MaxRefs,       (* bound: references appended to a stream                  *)
  MaxIndex       (* bound: positions asked for                              *)

ASSUME RefsAssumption    == Refs \subseteq Nat
ASSUME PerPageAssumption == PerPage \in Nat \ {0}
ASSUME PageSizeAssumption == PageSize \in Lengths \ {0}
ASSUME DprefBoundAssumption == MaxRefs \in Nat /\ MaxIndex \in Nat

VARIABLES                (* p->ref_file, an mmbuf__obj: those of Mmbuf      *)
  pages,         (* the pages handed out, by their position in the file     *)
  buf,           (* the writer's buffers                                    *)
  rd,            (* the reader's buffer: stream, page and index it stands at *)
  call,          (* the dpref call in progress                              *)
  answer,        (* what the last dpref__geti returned                      *)
  chain,         (* history: the pages given to a stream, in order          *)
  appended       (* history: the references given to a stream, in order     *)

vars == <<fileVars, pages, buf, rd, call, answer, chain, appended>>

\* A page: the references and DPREF_NEXT_PAGE_INDEX. New file space is zero.
Slots == 0 .. PerPage - 1
ZeroPage == [refs |-> [s \in Slots |-> 0], next |-> 0]
Pages == [refs : [Slots -> Int], next : Nat \cup {-1}]

NoBuf    == [state |-> "none", refs_index |-> 0, global_index |-> 0,
             first |-> 0, current |-> 0]
NoCall   == [op |-> "none"]
NoAnswer == [index |-> -1, ref |-> -1]

\* A store through a pointer into mapping m reaches the file only if m is the
\* mapping the kernel has.
Stored(m, page, new) ==
  [pages EXCEPT ![page] = IF m = liveMap THEN new ELSE @]

Init ==
  /\ FileInit
  /\ pages = [p \in {} |-> ZeroPage]
  /\ buf = [b \in Bufs |-> NoBuf]
  /\ rd \in [stream : Bufs, state : {"none"}, first : {0}, current : {0},
             global_index : {0}]
  /\ call = NoCall /\ answer = NoAnswer
  /\ chain = [b \in Bufs |-> <<>>]
  /\ appended = [b \in Bufs |-> <<>>]

(***************************************************************************)
(* dpref__open, dpref__close                                               *)
(***************************************************************************)

\* A store is written once, from its dpref__open to its dpref__close.
OpenWrite ==
  /\ mode = "none" /\ diskLen = 0
  /\ SetupWrite
  /\ UNCHANGED <<pages, buf, rd, call, answer, chain, appended>>

\* kds reopens a store only once it has written a stream to it (kds.c:357-362).
OpenRead ==
  /\ clean /\ diskLen > 0
  /\ SetupRead
  /\ UNCHANGED <<pages, buf, rd, call, answer, chain, appended>>

\* kds tears every buffer down before it closes the store (kds.c:55-71).
Close ==
  /\ call = NoCall
  /\ \A b \in Bufs : buf[b].state # "open"
  /\ rd.state # "open"
  /\ Teardown
  /\ UNCHANGED <<pages, buf, rd, call, answer, chain, appended>>

(***************************************************************************)
(* Writing                                                                 *)
(***************************************************************************)

\* new_page, up to mmbuf's loop. The caller goes on when it returns.
NewPage(op, b) ==
  /\ Call("pos_alloc", PageSize)
  /\ call' = [op |-> op, buf |-> b, map |-> map]

GrowFile == Grow /\ UNCHANGED <<pages, buf, rd, call, answer, chain, appended>>

\* new_page returns: a page at the old offset, zero as new file space is.
PageReturned ==
  /\ Return
  /\ call' = NoCall

WithNewPage(ps) == [p \in DOMAIN ps \cup {offset} |->
                      IF p = offset THEN ZeroPage ELSE ps[p]]

SetupBuffer(b) ==
  /\ mode = "w" /\ call = NoCall /\ buf[b].state = "none"
  /\ NewPage("setup", b)
  /\ UNCHANGED <<pages, buf, rd, answer, chain, appended>>

BufferReady ==
  /\ call.op = "setup"
  /\ PageReturned
  /\ pages' = WithNewPage(pages)
  /\ buf' = [buf EXCEPT ![call.buf] =
               [state |-> "open", refs_index |-> 0, global_index |-> 0,
                first |-> offset, current |-> offset]]
  /\ chain' = [chain EXCEPT ![call.buf] = <<offset>>]
  /\ UNCHANGED <<rd, answer, appended>>

\* The page is full once refs_index reaches the number of slots.
PageFull_OneLate(i) == i > PerPage
PageFull(i) == i >= PerPage

\* dpref__append; a full page goes on to flush_buffer(final = false), which
\* asks for the next page. p->num_msgs, the sum of all global_index, is left out.
Append1(b, ref) ==
  LET at == buf[b].refs_index IN
  /\ mode = "w" /\ call = NoCall /\ buf[b].state = "open"
  /\ Len(appended[b]) < MaxRefs
  /\ pages' = Stored(map, buf[b].current,
                [pages[buf[b].current] EXCEPT !.refs[at] = ref])
  /\ buf' = [buf EXCEPT ![b].refs_index = @ + 1, ![b].global_index = @ + 1]
  /\ appended' = [appended EXCEPT ![b] = Append(@, ref)]
  /\ IF PageFull(at + 1)
       THEN NewPage("link", b)
       ELSE UNCHANGED <<fileVars, call>>
  /\ UNCHANGED <<rd, answer, chain>>

\* buf->refs_index after new_page.
FirstSlot_Skipped == 1
FirstSlot == 0

\* flush_buffer asks mmbuf for the page pointer again once it has the new page.
LinkPointer_Stale == call.map
LinkPointer == map

LinkPage ==
  LET full == buf[call.buf].current IN
  /\ call.op = "link"
  /\ PageReturned
  /\ pages' = WithNewPage(Stored(LinkPointer, full,
                            [pages[full] EXCEPT !.next = offset]))
  /\ buf' = [buf EXCEPT ![call.buf].current = offset, ![call.buf].refs_index = FirstSlot]
  /\ chain' = [chain EXCEPT ![call.buf] = Append(@, offset)]
  /\ UNCHANGED <<rd, answer, appended>>

\* flush_buffer(final = true) fills the page from refs_index on with -1.
Finished_LinkKept(page, from) ==
  [page EXCEPT !.refs = [s \in Slots |-> IF s < from THEN page.refs[s] ELSE -1]]
Finished(page, from) ==
  [refs |-> [s \in Slots |-> IF s < from THEN page.refs[s] ELSE -1], next |-> -1]

\* dpref__teardown_buffer. A last page without references is left as it is.
TeardownBuffer(b) ==
  /\ mode = "w" /\ call = NoCall /\ buf[b].state = "open"
  /\ IF buf[b].refs_index > 0
       THEN /\ pages' = Stored(map, buf[b].current,
                          Finished(pages[buf[b].current], buf[b].refs_index))
            /\ buf' = [buf EXCEPT ![b].state = "closed", ![b].refs_index = -1]
       ELSE /\ buf' = [buf EXCEPT ![b].state = "closed"]
            /\ UNCHANGED pages
  /\ UNCHANGED <<fileVars, rd, call, answer, chain, appended>>

(***************************************************************************)
(* Reading                                                                 *)
(***************************************************************************)

\* dpref__setup_rbuffer at the first page the writer's buffer remembered.
SetupReader(b) ==
  /\ mode = "r" /\ call = NoCall /\ rd.state # "open"
  /\ buf[b].state = "closed"
  /\ rd' = [stream |-> b, state |-> "open", first |-> buf[b].first,
            current |-> buf[b].first, global_index |-> 0]
  /\ answer' = NoAnswer
  /\ UNCHANGED <<fileVars, pages, buf, call, chain, appended>>

TeardownReader ==
  /\ mode = "r" /\ call = NoCall /\ rd.state = "open"
  /\ rd' = [rd EXCEPT !.state = "none"]
  /\ answer' = NoAnswer
  /\ UNCHANGED <<fileVars, pages, buf, call, chain, appended>>

Geti(index) ==
  /\ mode = "r" /\ call = NoCall /\ rd.state = "open"
  /\ call' = [op |-> "geti", index |-> index]
  /\ UNCHANGED <<fileVars, pages, buf, rd, answer, chain, appended>>

\* The tests of dpref__geti's loop. Below global_index neither holds, and the
\* loop spins (the test that would go back to the first page is commented out).
OnPage(index)   == rd.global_index <= index /\ index < rd.global_index + PerPage
PastPage(index) == index >= rd.global_index + PerPage

Answered(ref) ==
  /\ answer' = [index |-> call.index, ref |-> ref]
  /\ call' = NoCall

GetiHit ==
  /\ call.op = "geti" /\ OnPage(call.index)
  /\ Answered(pages[rd.current].refs[call.index - rd.global_index])
  /\ UNCHANGED <<fileVars, pages, buf, rd, chain, appended>>

\* load_next_page.
IndexOfNext_NotMoved == 0
IndexOfNext == rd.global_index + PerPage

GetiNextPage ==
  LET next == pages[rd.current].next IN
  /\ call.op = "geti" /\ PastPage(call.index)
  /\ IF next = -1
       THEN Answered(-1) /\ UNCHANGED rd
       ELSE /\ rd' = [rd EXCEPT !.current = next, !.global_index = IndexOfNext]
            /\ UNCHANGED <<call, answer>>
  /\ UNCHANGED <<fileVars, pages, buf, chain, appended>>

GetiSpin ==
  /\ call.op = "geti" /\ ~OnPage(call.index) /\ ~PastPage(call.index)
  /\ UNCHANGED vars

(***************************************************************************)
(* The specification                                                       *)
(***************************************************************************)

Next ==
  \/ OpenWrite \/ OpenRead \/ Close
  \/ GrowFile \/ BufferReady \/ LinkPage
  \/ \E b \in Bufs : SetupBuffer(b) \/ TeardownBuffer(b) \/ SetupReader(b)
  \/ \E b \in Bufs, ref \in Refs : Append1(b, ref)
  \/ TeardownReader
  \/ \E index \in 0 .. MaxIndex : Geti(index)
  \/ GetiHit \/ GetiNextPage \/ GetiSpin

\* A call once begun runs on: the store is used by one thread.
Spec ==
  /\ Init /\ [][Next]_vars
  /\ WF_vars(GrowFile) /\ WF_vars(BufferReady) /\ WF_vars(LinkPage)
  /\ WF_vars(GetiHit) /\ WF_vars(GetiNextPage)

(***************************************************************************)
(* Properties                                                              *)
(***************************************************************************)

\* The types of what dpref depends on in its mmbuf.
FileTypes ==
  /\ filesize \in Nat /\ offset \in Nat /\ diskLen \in Nat
  /\ map \in Nat /\ liveMap \in Nat

\* The types of the pages, of the buffers and of the call in progress.
StreamTypes ==
  /\ DOMAIN pages \subseteq Nat
  /\ \A p \in DOMAIN pages : pages[p] \in Pages
  /\ buf \in [Bufs -> [state : {"none", "open", "closed"}, refs_index : -1 .. PerPage,
                       global_index : Nat, first : Nat, current : Nat]]
  /\ rd \in [stream : Bufs, state : {"none", "open"}, first : Nat,
             current : Nat, global_index : Nat]
  /\ call \in {NoCall} \cup [op : {"setup", "link"}, buf : Bufs, map : Nat]
                       \cup [op : {"geti"}, index : Nat]
  /\ answer \in [index : Int, ref : Int]
  /\ chain \in [Bufs -> Seq(Nat)]
  /\ appended \in [Bufs -> Seq(Refs)]

\* The types of the store's state.
TypeOK == FileTypes /\ StreamTypes

\* The pages of a stream are linked in the order they were given to it, and no
\* page is given to two streams: growing the file never breaks a list
\* (dpref.c:36-43).
ChainsLinked ==
  /\ \A b \in Bufs : \A k \in 1 .. Len(chain[b]) - 1 :
       pages[chain[b][k]].next = chain[b][k + 1]
  /\ \A b, c \in Bufs : \A j \in 1 .. Len(chain[b]), k \in 1 .. Len(chain[c]) :
       chain[b][j] = chain[c][k] => b = c /\ j = k

\* Every reference appended is in the file at its place in the stream's pages,
\* whatever the other streams did and wherever the mapping moved.
RefsInPlace ==
  \A b \in Bufs : \A k \in 1 .. Len(chain[b]), s \in Slots :
    LET i == (k - 1) * PerPage + s IN
    i < Len(appended[b]) => pages[chain[b][k]].refs[s] = appended[b][i + 1]

\* A position below the length of the stream gives the reference appended there
\* (dpref.c:210-236), as the conversion to cpref relies on (kds.c:84-92).
GetiExact ==
  answer.index \in 0 .. Len(appended[rd.stream]) - 1 =>
    answer.ref = appended[rd.stream][answer.index + 1]

\* "Negative if end of stream" (dpref.h:93), of a stream that has references.
EndIsNegative ==
  appended[rd.stream] # <<>> /\ answer.index >= Len(appended[rd.stream]) => answer.ref < 0

\* A stream that ends inside a page does end: every position past it is negative.
PartialPageEnds ==
  Len(appended[rd.stream]) % PerPage # 0 => EndIsNegative

\* Every call returns: a page for an append or a new stream, and the reference
\* for a position the reader has not passed.
CallsReturn ==
  (call # NoCall /\ (call.op = "geti" => call.index >= rd.global_index))
    ~> call = NoCall

=============================================================================
