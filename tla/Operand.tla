------------------------------- MODULE Operand ------------------------------
(***************************************************************************)
(* What a merge may join (src/src/pulp_db/query.py): a KeyQuery, the       *)
(* references of a key; a Slicer of the database, db[start:stop:step]; a   *)
(* Filter of it, db.stream(function); another merge, taken for what Query  *)
(* shows of one: messages in ascending order.  [0], next() and ge() of     *)
(* each, as what they give and the cursor they leave.  A merge takes [0]   *)
(* first, so no next() or ge() here is that of a query nobody has begun.   *)
(* An operator X_<fault> is a faulty variant of X.                         *)
(***************************************************************************)
EXTENDS Integers, Sequences, FiniteSetsExt

CONSTANTS
  NumMsgs,       (* len(master_table)                                       *)
  NoStop         (* the stop of a slice without one, behind every position  *)

ASSUME NumMsgsAssumption == NumMsgs \in Nat \ {0}
ASSUME NoStopAssumption == NoStop \in Nat /\ NoStop > NumMsgs

Messages == 0 .. NumMsgs - 1

\* STATE_NEW, STATE_NEXT_EXHAUSTED; a message that is not there (IndexError and
\* StopIteration, STATE_PREV_EXHAUSTED of a merge); a current_msg that is None.
New       == -1
Exhausted == -2
End       == -1
NoMsg     == -2

\* current_i, the position in what is underneath, and current_msg.
Cursor == [i : Int, p : Int, msg : Int]
Reset(c) == c.i \in {New, Exhausted}
NotBegun == [i |-> New, p |-> 0, msg |-> NoMsg]
Got(c, ref) == [cursor |-> c, ref |-> ref]

(***************************************************************************)
(* KeyQuery                                                                *)
(***************************************************************************)

KeyFirst(q, c) ==
  IF q.refs = <<>> THEN Got(c, End) ELSE Got([c EXCEPT !.i = 0], q.refs[1])

\* cpref__next stops behind the last reference.
KeyNext_Twice(q, c) ==
  Got([c EXCEPT !.i = @ + 2], IF c.i + 2 < Len(q.refs) THEN q.refs[c.i + 3] ELSE End)
KeyNext(q, c) ==
  LET i == IF c.i < Len(q.refs) THEN c.i + 1 ELSE c.i
  IN Got([c EXCEPT !.i = i], IF i < Len(q.refs) THEN q.refs[i + 1] ELSE End)

\* ge leaves the cursor where it was.
KeyGe(q, c, id) ==
  LET later == {q.refs[i] : i \in {j \in DOMAIN q.refs : q.refs[j] >= id}}
  IN Got(c, IF later = {} THEN End ELSE Min(later))

(***************************************************************************)
(* Slicer, of a StreamQuery                                                *)
(***************************************************************************)

\* StreamQuery.__getitem__: a negative position counts from the end.
InStream(p) == -NumMsgs <= p /\ p < NumMsgs
MsgAt(p) == p % NumMsgs

\* Slicer.__get_first goes on from a start before the first message; a start behind
\* the last is an IndexError.
SliceGetFirst(q, c) ==
  LET from[p \in Int] == IF InStream(p)       THEN Got([i |-> 0, p |-> p, msg |-> MsgAt(p)], MsgAt(p))
                         ELSE IF p * q.step > 0 THEN Got(c, End)
                         ELSE from[p + q.step]
  IN from[q.start]

\* Slicer.__getitem__ of a position relative to the one it stands at.
SliceItem(q, c, i) ==
  LET first == IF Reset(c) THEN SliceGetFirst(q, c) ELSE Got(c, c.msg)
      at    == first.cursor
      p     == at.p + q.step * (i - at.i)
  IN IF first.ref = End \/ p >= q.stop \/ p < q.start \/ ~InStream(p)
       THEN Got(at, End)
       ELSE Got([i |-> i, p |-> p, msg |-> MsgAt(p)], MsgAt(p))

\* Slicer.__next__: position -1 is the last one, whatever the step.
AtLast_Never(c) == FALSE
AtLast(c) == c.p = -1
SliceNext(q, c) ==
  LET item == SliceItem(q, c, c.i + 1) IN
  IF c.i = Exhausted THEN Got(c, End)
  ELSE IF AtLast(c) THEN Got([c EXCEPT !.i = Exhausted], End)
  ELSE IF item.ref = End THEN Got([c EXCEPT !.i = Exhausted, !.msg = NoMsg], End)
  ELSE item

(***************************************************************************)
(* Filter, of a StreamQuery                                                *)
(***************************************************************************)

FilterGetFirst(q, c) ==
  IF q.passes = {} THEN Got([c EXCEPT !.i = New, !.p = NumMsgs - 1], End)
  ELSE Got([i |-> 0, p |-> Min(q.passes), msg |-> Min(q.passes)], Min(q.passes))

\* Filter.__prev__
FilterPrev(q, c) ==
  LET below == {m \in q.passes : m < c.p} IN
  IF below = {} THEN Got([c EXCEPT !.p = -1, !.msg = NoMsg], End)
  ELSE Got([i |-> c.i - 1, p |-> Max(below), msg |-> Max(below)], Max(below))

\* Filter.__getitem__(0): back by prev() as many times as current_i says, and then
\* current_msg as it is.
FilterFirst(q, c) ==
  LET back[d \in Cursor] ==
        LET prev == FilterPrev(q, d) IN
        IF d.i = 0 THEN Got(d, d.msg) ELSE IF prev.ref = End THEN prev ELSE back[prev.cursor]
  IN IF Reset(c) THEN FilterGetFirst(q, c) ELSE back[c]

\* Filter.__next__: behind the last message it compares current_i with the state of
\* an exhausted query, and leaves it.
FilterNext_Skips(q, c) ==
  LET above == {m \in q.passes : m > c.p + 1} IN
  IF above = {} THEN Got([c EXCEPT !.p = NumMsgs, !.msg = NoMsg], End)
  ELSE Got([i |-> c.i + 1, p |-> Min(above), msg |-> Min(above)], Min(above))
FilterNext(q, c) ==
  LET above == {m \in q.passes : m > c.p} IN
  IF c.i = Exhausted THEN Got(c, End)
  ELSE IF above = {} THEN Got([c EXCEPT !.p = NumMsgs, !.msg = NoMsg], End)
  ELSE Got([i |-> c.i + 1, p |-> Min(above), msg |-> Min(above)], Min(above))

(***************************************************************************)
(* VirtualQuery, inside another                                            *)
(***************************************************************************)

\* VirtualQuery.__getitem__(0), of one that stands at its first message or is to
\* begin: from further on it goes back by prev(), which is not modelled.
InTheMiddle(q, c) == q.kind = "merge" /\ c.i > 0
MergeFirst(q, c) ==
  IF q.refs = <<>> THEN Got([c EXCEPT !.i = Exhausted], End)
                   ELSE Got([i |-> 0, p |-> 0, msg |-> q.refs[1]], q.refs[1])

MergeNext(q, c) ==
  LET i == c.i + 1 IN
  IF c.i = Exhausted \/ i >= Len(q.refs)
    THEN Got([c EXCEPT !.i = Exhausted], End)
    ELSE Got([c EXCEPT !.i = i, !.msg = q.refs[i + 1]], q.refs[i + 1])

(***************************************************************************)
(* Any of them                                                             *)
(***************************************************************************)

FirstOf(q, c) == CASE q.kind = "key"    -> KeyFirst(q, c)
                   [] q.kind = "slice"  -> SliceItem(q, c, 0)
                   [] q.kind = "filter" -> FilterFirst(q, c)
                   [] q.kind = "merge"  -> MergeFirst(q, c)

NextOf(q, c) == CASE q.kind = "key"    -> KeyNext(q, c)
                  [] q.kind = "slice"  -> SliceNext(q, c)
                  [] q.kind = "filter" -> FilterNext(q, c)
                  [] q.kind = "merge"  -> MergeNext(q, c)

\* ge of a Slicer and of a Filter: next() from the cursor, or from the first message
\* if the cursor is past the target.
ScanGe(q, c, id) ==
  LET start == IF ~Reset(c) /\ c.msg <= id THEN Got(c, c.msg)
               ELSE IF q.kind = "slice" THEN SliceGetFirst(q, c) ELSE FilterGetFirst(q, c)
      on[d \in Cursor] ==
        LET next == NextOf(q, d) IN
        IF d.msg >= id THEN Got(d, d.msg)
        ELSE IF next.ref = End THEN Got([next.cursor EXCEPT !.i = Exhausted], End)
        ELSE on[next.cursor]
  IN IF start.ref = End THEN start ELSE on[start.cursor]

\* The bisection of a stream of references finds the first one at or behind id; the
\* ge of a merge names a variable that is not there, and raises.
GeOf_Above(q, c, id) ==
  CASE q.kind = "key" -> KeyGe(q, c, id + 1)
    [] q.kind \in {"slice", "filter"} -> ScanGe(q, c, id)
    [] q.kind = "merge" -> Got(c, NoMsg)
GeOf(q, c, id) ==
  CASE q.kind = "key" -> KeyGe(q, c, id)
    [] q.kind \in {"slice", "filter"} -> ScanGe(q, c, id)
    [] q.kind = "merge" -> Got(c, NoMsg)

=============================================================================
