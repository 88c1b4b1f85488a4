-------------------------------- MODULE Cpref -------------------------------
(***************************************************************************)
(* The final store of references (src/src/pulp_db/kds/cpref.c): one stream *)
(* as an array, with the least and greatest reference of every block of it *)
(* (the metas), written once and then read by position, by a cursor and by *)
(* searches.  The loops of the searches are steps of their own.            *)
(* An operator X_<fault> is a faulty variant of X.                         *)
(***************************************************************************)
EXTENDS Integers, Sequences

CONSTANTS
  Size,          (* CPREF_SIZE_OF_ARRAY: references per block               *)
  Refs,          (* the message numbers                                     *)
  Targets,       (* the references searched for                             *)
  Totals,        (* the lengths of streams                                  *)
  SearchFrom     (* bound: cursor positions searches are made from          *)

\* meta_block_i of a block with one slot would never see its low reference.
ASSUME SizeAssumption    == Size \in Nat /\ Size >= 2
ASSUME RefsAssumption    == Refs \subseteq Nat
ASSUME TargetsAssumption == Targets \subseteq Nat
\* kds makes a stream for a key once a message was appended to it.
ASSUME TotalsAssumption  == Totals \subseteq Nat \ {0}

VARIABLES
  mode,          (* "none", "w", "closed", "r"                              *)
  nmsgs,         (* stream->nmsgs                                           *)
  refs, metas,   (* the stream's arrays in the file                         *)
  current_i, meta_block_i, low_ref, high_ref,
  current_block_ref_low, current_block_ref_high,      (* of the cpref__stream *)
  search,        (* the ge_ref or le_ref in progress                        *)
  answer         (* what the last call gave                                 *)

stored == <<nmsgs, refs, metas, low_ref, high_ref>>
block  == <<meta_block_i, current_block_ref_low, current_block_ref_high>>
vars   == <<mode, stored, block, current_i, search, answer>>

NumBlocks == nmsgs \div Size + (IF nmsgs % Size > 0 THEN 1 ELSE 0)
Slots     == 0 .. nmsgs - 1

NoSearch == [op |-> "none"]
NoAnswer == [op |-> "none"]

Init ==
  /\ mode = "none" /\ nmsgs = 0
  /\ refs = <<>> /\ metas = <<>>
  /\ current_i = -1 /\ meta_block_i = 0 /\ low_ref = -1 /\ high_ref = -1
  /\ current_block_ref_low = -1 /\ current_block_ref_high = -1
  /\ search = NoSearch /\ answer = NoAnswer

(***************************************************************************)
(* Writing                                                                 *)
(***************************************************************************)

\* cpref__setup_write_stream: new file space is zero.
SetupWrite(total) ==
  /\ mode = "none" /\ mode' = "w"
  /\ nmsgs' = total
  /\ refs' = [i \in 0 .. total - 1 |-> 0]
  /\ metas' = [b \in 0 .. NumBlocks' - 1 |-> [min |-> 0, max |-> 0]]
  /\ UNCHANGED <<low_ref, high_ref, block, current_i, search, answer>>

\* meta_block_append
MetaOf(high) == [min |-> current_block_ref_low, max |-> high]

AppendMeta(high) ==
  /\ metas' = [metas EXCEPT ![meta_block_i] = MetaOf(high)]
  /\ meta_block_i' = meta_block_i + 1
  /\ current_block_ref_high' = high

\* One turn of the loop of cpref__write_stream. References come in the order the
\* messages were appended in; one message may carry a token twice.
Write1(value) ==
  LET i == current_i + 1 IN
  /\ mode = "w" /\ i < nmsgs
  /\ current_i >= 0 => value >= refs[current_i]
  /\ refs' = [refs EXCEPT ![i] = value]
  /\ current_i' = i
  /\ CASE (i + 1) % Size = 0 -> AppendMeta(value) /\ UNCHANGED current_block_ref_low
       [] (i + 1) % Size = 1 -> /\ current_block_ref_low' = value
                                /\ UNCHANGED <<metas, meta_block_i, current_block_ref_high>>
       [] OTHER -> UNCHANGED <<metas, block>>
  /\ UNCHANGED <<mode, nmsgs, low_ref, high_ref, search, answer>>

\* The test for a last block that is not full.
PartBlock_Never == FALSE
PartBlock == (current_i + 1) % Size # 0

\* cpref__close_stream, once the nmsgs references are written. It reads the last
\* reference through cpref__get, which leaves current_i there.
CloseStream ==
  /\ mode = "w" /\ current_i = nmsgs - 1
  /\ mode' = "closed"
  /\ IF PartBlock THEN AppendMeta(refs[current_i]) ELSE UNCHANGED <<metas, meta_block_i, current_block_ref_high>>
  /\ low_ref' = refs[0] /\ high_ref' = refs[nmsgs - 1]
  /\ UNCHANGED <<nmsgs, refs, current_i, current_block_ref_low, search, answer>>

(***************************************************************************)
(* Reading: the cursor                                                     *)
(***************************************************************************)

\* cpref__setup_read_stream
SetupRead ==
  /\ mode = "closed" /\ mode' = "r"
  /\ meta_block_i' = 0 /\ current_i' = -1
  /\ current_block_ref_low' = -1 /\ current_block_ref_high' = -1
  /\ UNCHANGED <<stored, search, answer>>

Idle == mode = "r" /\ search = NoSearch

Read(op, i) == /\ current_i' = i
               /\ answer' = [op |-> op, ref |-> refs[i]]

\* cpref__get. Its assertion lets i = nmsgs pass, which reads what lies behind.
Get(i) ==
  /\ Idle /\ i <= nmsgs
  /\ IF i < nmsgs
       THEN Read("get", i)
       ELSE current_i' = i /\ \E r \in Refs : answer' = [op |-> "get", ref |-> r]
  /\ UNCHANGED <<mode, stored, block, search>>

\* cpref__next passes the last reference once, and stays behind it.
PastEnd_Stuck == current_i
PastEnd_Moves == current_i + 1
PastEnd == IF current_i = nmsgs - 1 THEN current_i + 1 ELSE current_i

Next1 ==
  /\ Idle
  /\ IF current_i < nmsgs - 1
       THEN Read("next", current_i + 1)
       ELSE /\ current_i' = PastEnd
            /\ answer' = [op |-> "next", ref |-> -1]
  /\ UNCHANGED <<mode, stored, block, search>>

\* cpref__prev
Prev1 ==
  /\ Idle
  /\ IF current_i > 0
       THEN Read("prev", current_i - 1)
       ELSE /\ current_i' = IF current_i = 0 THEN -1 ELSE current_i
            /\ answer' = [op |-> "prev", ref |-> -1]
  /\ UNCHANGED <<mode, stored, block, search>>

(***************************************************************************)
(* Reading: cpref__ge_ref and cpref__le_ref                                *)
(***************************************************************************)

InMetas(op, ref) == [op |-> op, ref |-> ref, stage |-> "metas",
                     low |-> 0, high |-> NumBlocks - 1, p_ref |-> -1]
InBlock(op, ref) == [op |-> op, ref |-> ref, stage |-> "block",
                     low |-> 0, high |-> Size, p_ref |-> -1]

StartGe(ref) ==
  /\ Idle /\ current_i \in SearchFrom
  /\ search' = InMetas("ge", ref) /\ answer' = NoAnswer
  /\ UNCHANGED <<mode, stored, block, current_i>>

\* check_buffered_block_for_ref: le_ref first tries the block last looked at.
Buffered_AnyBelow(ref) == current_block_ref_low # -1 /\ ref <= current_block_ref_high
Buffered(ref) ==
  /\ current_block_ref_low # -1 /\ current_block_ref_high # -1
  /\ current_block_ref_low <= ref /\ ref <= current_block_ref_high

StartLe(ref) ==
  /\ Idle /\ current_i \in SearchFrom
  /\ search' = IF Buffered(ref) THEN InBlock("le", ref) ELSE InMetas("le", ref)
  /\ answer' = NoAnswer
  /\ UNCHANGED <<mode, stored, block, current_i>>

Answered(ref) == /\ answer' = [op |-> search.op, arg |-> search.ref, ref |-> ref]
                 /\ search' = NoSearch

\* get_meta_block
LookAt(b) == /\ meta_block_i' = b
             /\ current_block_ref_low' = metas[b].min
             /\ current_block_ref_high' = metas[b].max

\* search_metas_for_ref's low after a block that lies below the reference.
AfterPivot_Same(p) == p
AfterPivot(p) == p + 1

\* One turn of the loop of search_metas_for_ref.
MetaStep ==
  LET pivot == (search.high + search.low) \div 2 IN
  /\ search # NoSearch /\ search.stage = "metas" /\ search.low <= search.high
  /\ LookAt(pivot)
  /\ search' = IF search.ref < metas[pivot].min THEN [search EXCEPT !.high = pivot - 1]
               ELSE IF search.ref > metas[pivot].max
                      THEN [search EXCEPT !.low = AfterPivot(pivot)]
                      ELSE InBlock(search.op, search.ref)
  /\ UNCHANGED <<mode, stored, current_i, answer>>

\* No block spans the reference: it lies in a gap next to the block looked at last.
NearBlocks_LastOnly == {meta_block_i}
NearBlocks ==
  {b \in 0 .. NumBlocks - 1 : meta_block_i - 1 <= b /\ b <= meta_block_i + 1}

Beyond(b) == IF search.op = "ge" THEN metas[b].min > search.ref ELSE metas[b].max < search.ref
\* ge goes through the near blocks upwards, le downwards.
Nearer(b, c) == IF search.op = "ge" THEN b <= c ELSE b >= c

GapScan ==
  /\ search # NoSearch /\ search.stage = "metas" /\ search.low > search.high
  /\ \/ \E b \in NearBlocks :
          /\ Beyond(b) /\ \A c \in NearBlocks : Beyond(c) => Nearer(b, c)
          /\ LookAt(b)
          /\ Answered(IF search.op = "ge" THEN metas[b].min ELSE metas[b].max)
     \/ /\ \A b \in NearBlocks : ~Beyond(b)
        /\ \E b \in NearBlocks : (\A c \in NearBlocks : Nearer(c, b)) /\ LookAt(b)
        /\ Answered(-1)
  /\ UNCHANGED <<mode, stored, current_i>>

\* refs[p] of the block looked at.
InThisBlock(p) == refs[meta_block_i * Size + p]
LastBlock == meta_block_i = NumBlocks - 1

\* linearsearch_refblock_ge and _le go through the last block, which may be part
\* full, up to the stream's greatest reference.
FirstInLast(stops) == CHOOSE p \in stops : \A q \in stops : p <= q
LastSlots == {p \in 0 .. Size - 1 : meta_block_i * Size + p < nmsgs}

LinearGe(ref) ==
  LET found == InThisBlock(FirstInLast(
                 {p \in LastSlots : InThisBlock(p) = high_ref \/ InThisBlock(p) >= ref}))
  IN IF found >= ref THEN found ELSE -1

LinearLe(ref) ==
  LET p == FirstInLast({q \in LastSlots : InThisBlock(q) >= ref \/ InThisBlock(q) = high_ref})
  IN IF InThisBlock(p) <= ref THEN InThisBlock(p)
     ELSE IF p = 0 THEN -1 ELSE InThisBlock(p - 1)

LinearScan ==
  /\ search # NoSearch /\ search.stage = "block" /\ LastBlock
  /\ Answered(IF search.op = "ge" THEN LinearGe(search.ref) ELSE LinearLe(search.ref))
  /\ UNCHANGED <<mode, stored, block, current_i>>

\* One turn of binsearch_refblock_ge or _le: p_ref follows the end of the range
\* the answer is at.
Narrowed(p) ==
  IF search.ref < InThisBlock(p)
    THEN [search EXCEPT !.high = p,
            !.p_ref = IF search.op = "ge" THEN InThisBlock(p) ELSE InThisBlock(p - 1)]
    ELSE [search EXCEPT !.low = p + 1,
            !.p_ref = IF search.op = "ge" THEN InThisBlock(p + 1) ELSE InThisBlock(p)]

BinStep ==
  LET p == (search.high + search.low) \div 2 IN
  /\ search # NoSearch /\ search.stage = "block" /\ ~LastBlock
  /\ search.low < search.high
  /\ IF InThisBlock(p) = search.ref
       THEN Answered(search.ref)
       ELSE search' = Narrowed(p) /\ UNCHANGED answer
  /\ UNCHANGED <<mode, stored, block, current_i>>

BinDone ==
  LET wrongSide == IF search.op = "ge" THEN search.ref > search.p_ref
                                       ELSE search.ref < search.p_ref IN
  /\ search # NoSearch /\ search.stage = "block" /\ ~LastBlock
  /\ search.low >= search.high
  /\ Answered(IF wrongSide THEN -1 ELSE search.p_ref)
  /\ UNCHANGED <<mode, stored, block, current_i>>

(***************************************************************************)
(* The specification                                                       *)
(***************************************************************************)

SearchStep == MetaStep \/ GapScan \/ LinearScan \/ BinStep \/ BinDone

Next ==
  \/ \E total \in Totals : SetupWrite(total)
  \/ \E value \in Refs : Write1(value)
  \/ CloseStream \/ SetupRead
  \/ \E i \in 0 .. nmsgs : Get(i)
  \/ Next1 \/ Prev1
  \/ \E ref \in Targets : StartGe(ref) \/ StartLe(ref)
  \/ MetaStep \/ GapScan \/ LinearScan \/ BinStep \/ BinDone

\* A call once begun runs to its end.
Spec == Init /\ [][Next]_vars /\ WF_vars(SearchStep)

(***************************************************************************)
(* Properties                                                              *)
(***************************************************************************)

Blocks == 0 .. NumBlocks - 1
Ops == {"ge", "le"}

\* Types; the cursor stays between the sentinels at either end, and a search keeps
\* its bounds within the metas or the block it looks at (cpref.h:60-79).
TypeOK ==
  /\ mode \in {"none", "w", "closed", "r"}
  /\ nmsgs \in Nat
  /\ refs \in [Slots -> Nat]
  /\ metas \in [Blocks -> [min : Int, max : Nat]]
  /\ current_i \in -1 .. nmsgs
  /\ meta_block_i \in 0 .. NumBlocks
  /\ {low_ref, high_ref, current_block_ref_low, current_block_ref_high} \subseteq Nat \cup {-1}
  /\ search \in {NoSearch} \cup
       [op : Ops, ref : Targets, stage : {"metas", "block"},
        low : 0 .. NumBlocks + Size, high : -1 .. NumBlocks + Size, p_ref : Nat \cup {-1}]
  /\ answer \in {NoAnswer} \cup [op : {"get", "next", "prev"}, ref : Nat \cup {-1}]
                           \cup [op : Ops, arg : Targets, ref : Nat \cup {-1}]

\* Every block of a closed stream has its least and greatest reference beside it.
MetasBound ==
  mode \in {"closed", "r"} =>
    \A b \in Blocks :
      /\ metas[b].min = refs[b * Size]
      /\ metas[b].max = IF b = NumBlocks - 1 THEN refs[nmsgs - 1] ELSE refs[b * Size + Size - 1]

\* ge_ref gives the least reference not below the one asked for, if there is one,
\* wherever earlier calls left the stream (cpref.c:584-612).
GeExact ==
  answer.op = "ge" =>
    IF answer.ref = -1
      THEN \A i \in Slots : refs[i] < answer.arg
      ELSE /\ \E i \in Slots : refs[i] = answer.ref
           /\ answer.ref >= answer.arg
           /\ \A i \in Slots : refs[i] >= answer.arg => refs[i] >= answer.ref

\* le_ref gives the greatest reference not above the one asked for, if there is
\* one, also from the block buffered by an earlier call (cpref.c:614-644).
LeExact ==
  answer.op = "le" =>
    IF answer.ref = -1
      THEN \A i \in Slots : refs[i] > answer.arg
      ELSE /\ \E i \in Slots : refs[i] = answer.ref
           /\ answer.ref <= answer.arg
           /\ \A i \in Slots : refs[i] <= answer.arg => refs[i] <= answer.ref

\* Every search gives its answer.
SearchesEnd == search # NoSearch ~> search = NoSearch

(***************************************************************************)
(* The stream of references it implements                                  *)
(***************************************************************************)

Written == IF mode = "w" THEN current_i + 1 ELSE nmsgs

S == INSTANCE RefStream WITH
       refs <- [i \in 1 .. Written |-> refs[i - 1]], stored <- mode = "r",
       cursor <- IF mode = "r" THEN current_i + 1 ELSE 0,
       answer <- answer, None <- NoAnswer

StreamSpec == S!Spec

=============================================================================
