-------------------------------- MODULE Query -------------------------------
(***************************************************************************)
(* Two queries joined by one of &, |, - and ^ (the VirtualQuery of         *)
(* src/src/pulp_db/query.py), iterated forwards: `for x in A & B`.  The    *)
(* operands are what Operand describes: keys, slices, filters and other    *)
(* merges, each with a cursor that its [0], next() and ge() move in a way  *)
(* of its own.                                                             *)
(* An operator X_<fault> is a faulty variant of X.                         *)
(***************************************************************************)
EXTENDS Operand

CONSTANTS
  Streams,       (* the references of a key, in ascending order             *)
  Slices,        (* start, stop and step of slices of the database          *)
  Passing,       (* the sets of messages that a filter lets through         *)
  Merged         (* what the merges give that are operands of another       *)

ASSUME StreamsAssumption ==
  \A s \in Streams \cup Merged :
                     /\ s \in Seq(Messages)
                     /\ \A i, j \in 1 .. Len(s) : i <= j => s[i] <= s[j]
ASSUME SlicesAssumption == Slices \subseteq [start : Int, stop : Int, step : Nat \ {0}]
ASSUME PassingAssumption == Passing \subseteq SUBSET Messages

VARIABLES
  operator,      (* "and", "or", "sub", "xor"                               *)
  query,         (* the operands A and B                                    *)
  at,            (* their cursors                                           *)
  next,          (* next_A and next_B                                       *)
  current_i,     (* "new", "call" (in the operator's loop), "at" (on a      *)
                 (* message), "exhausted" (STATE_NEXT_EXHAUSTED), "raised"  *)
  again,         (* this is not the first iteration                         *)
  out            (* what the iteration has given                            *)

vars == <<operator, query, at, next, current_i, again, out>>

Operands == {"A", "B"}
Other(x) == IF x = "A" THEN "B" ELSE "A"

Queries ==
  {[kind |-> "key", refs |-> s] : s \in Streams}
  \cup {[kind |-> "slice", start |-> s.start, stop |-> s.stop, step |-> s.step] : s \in Slices}
  \cup {[kind |-> "filter", passes |-> s] : s \in Passing}
  \cup {[kind |-> "merge", refs |-> s] : s \in Merged}

Init ==
  /\ operator \in {"and", "or", "sub", "xor"}
  /\ query \in [Operands -> Queries]
  /\ at = [x \in Operands |-> NotBegun] /\ next = [x \in Operands |-> End]
  /\ current_i = "new" /\ again = FALSE /\ out = <<>>

\* get_next, of some of the operands.
MoveOn(xs) ==
  LET moved == [x \in xs |-> NextOf(query[x], at[x])] IN
  /\ at' = [x \in Operands |-> IF x \in xs THEN moved[x].cursor ELSE at[x]]
  /\ next' = [x \in Operands |-> IF x \in xs THEN moved[x].ref ELSE next[x]]

\* VirtualQuery.__iter__ and __get_first: A[0], then B[0]. A missing one ends the
\* iteration; one that is None raises in the loop that asks for its id.
GetFirst ==
  LET first   == [x \in Operands |-> FirstOf(query[x], at[x])]
      taken   == IF first["A"].ref = End THEN {"A"} ELSE Operands
      reached == {x \in taken : first[x].ref # End}
  IN /\ current_i # "call"
     /\ \A x \in Operands : ~InTheMiddle(query[x], at[x])
     /\ at' = [x \in Operands |-> IF x \in taken THEN first[x].cursor ELSE at[x]]
     /\ next' = [x \in Operands |-> IF x \in reached THEN first[x].ref ELSE next[x]]
     /\ current_i' = IF reached # Operands THEN "exhausted"
                     ELSE IF \E x \in Operands : first[x].ref = NoMsg THEN "raised" ELSE "call"
     /\ again' = (current_i # "new")
     /\ out' = <<>>
     /\ UNCHANGED <<operator, query>>

\* VirtualQuery.__next__ on a message.
NextCall ==
  current_i = "at" /\ current_i' = "call" /\ UNCHANGED <<operator, query, at, next, again, out>>

(***************************************************************************)
(* The turns of the loops of and_func, or_func, sub_func and xor_func      *)
(***************************************************************************)

Turn(ops) == current_i = "call" /\ operator \in ops /\ UNCHANGED <<operator, query, again>>

Stopped(x) == next[x] = End
Both == ~Stopped("A") /\ next["A"] = next["B"]
\* x has the lesser reference next, or the only one.
Lesser(x) == ~Stopped(x) /\ (Stopped(Other(x)) \/ next[x] < next[Other(x)])

Yield(x) == out' = Append(out, next[x]) /\ current_i' = "at"
Skip == UNCHANGED <<out, current_i>>

\* The operands that a reference of both is taken from.
Matched == Operands

YieldLesser(x) ==
  /\ Turn(IF x = "A" THEN {"or", "xor", "sub"} ELSE {"or", "xor"})
  /\ Lesser(x) /\ Yield(x) /\ MoveOn({x})

\* sub_func passes over what only B has, while A has more.
SkipLesser == Turn({"sub"}) /\ Lesser("B") /\ ~Stopped("A") /\ Skip /\ MoveOn({"B"})

YieldBoth == Turn({"and", "or"}) /\ Both /\ Yield("A") /\ MoveOn(Matched)
SkipBoth  == Turn({"sub", "xor"}) /\ Both /\ Skip /\ MoveOn(Matched)

\* and_func's jump target: where the other operand is.
Target_Own(x) == next[x]
Target(x) == next[Other(x)]

\* ge_jump: the one behind jumps to the other's reference. There may be no reference
\* so far on, which ends the iteration, and the jump of a merge raises.
Jump(x) ==
  LET found == GeOf(query[x], at[x], Target(x)) IN
  /\ Turn({"and"}) /\ Lesser(x) /\ ~Stopped(Other(x))
  /\ at' = [at EXCEPT ![x] = found.cursor]
  /\ IF found.ref \in Messages
       THEN next' = [next EXCEPT ![x] = found.ref] /\ Skip
       ELSE /\ current_i' = IF found.ref = End THEN "exhausted" ELSE "raised"
            /\ UNCHANGED <<next, out>>

\* The IndexError at the end of each merge.
Exhaust ==
  /\ \/ Turn({"and"}) /\ \E x \in Operands : Stopped(x)
     \/ Turn({"or", "xor"}) /\ \A x \in Operands : Stopped(x)
     \/ Turn({"sub"}) /\ Stopped("A")
  /\ current_i' = "exhausted" /\ UNCHANGED <<at, next, out>>

LoopTurn ==
  \/ \E x \in Operands : YieldLesser(x) \/ Jump(x)
  \/ SkipLesser \/ YieldBoth \/ SkipBoth \/ Exhaust

Next == GetFirst \/ NextCall \/ LoopTurn

\* A call of next() once begun runs to its end.
Spec == Init /\ [][Next]_vars /\ WF_vars(LoopTurn)

(***************************************************************************)
(* Properties                                                              *)
(***************************************************************************)

\* Types; a cursor stays within what is underneath, a Slicer's where its count says,
\* a Filter's on a message it lets through, and a merge is in its loop only with both
\* operands under way.
CursorOf(x) ==
  LET q == query[x] c == at[x] IN
  CASE q.kind = "key"    -> c.i \in {New} \cup 0 .. Len(q.refs)
    [] q.kind = "slice"  -> c.i >= 0 => /\ InStream(c.p) /\ c.msg = MsgAt(c.p)
                                        /\ c.p = SliceGetFirst(q, c).cursor.p + c.i * q.step
    [] q.kind = "filter" -> c.i >= 0 => \/ c.p \in q.passes /\ c.msg = c.p
                                        \/ c.p = NumMsgs /\ c.msg = NoMsg
    [] q.kind = "merge"  -> c.i >= 0 => c.i < Len(q.refs) /\ c.msg = q.refs[c.i + 1]
TypeOK ==
  /\ operator \in {"and", "or", "sub", "xor"}
  /\ query \in [Operands -> Queries]
  /\ \A x \in Operands : at[x] \in Cursor /\ CursorOf(x)
  /\ next \in [Operands -> Messages \cup IF current_i = "raised" THEN {End, NoMsg} ELSE {End}]
  /\ current_i \in {"new", "call", "at", "exhausted", "raised"}
  /\ again \in BOOLEAN
  /\ out \in Seq(Messages)
  /\ current_i = "call" => \A x \in Operands : at[x].i # New

\* What a slice has in Python: a negative start or stop counts from the end.
FromEnd(i) == IF i < 0 THEN Max({0, NumMsgs + i}) ELSE i
Sliced(q, m) ==
  /\ FromEnd(q.start) <= m /\ (q.stop < NoStop => m < FromEnd(q.stop))
  /\ (m - FromEnd(q.start)) % q.step = 0

\* How often an operand has a message.
Times(s, m) == Cardinality({i \in DOMAIN s : s[i] = m})
Has(x, m) ==
  LET q == query[x] IN
  CASE q.kind \in {"key", "merge"} -> Times(q.refs, m)
    [] q.kind = "slice"  -> IF Sliced(q, m) THEN 1 ELSE 0
    [] q.kind = "filter" -> IF m \in q.passes THEN 1 ELSE 0

\* Slicer has no step over the end of the database, and does not compare a negative
\* position with a positive one: the slices it can do start and stop on one side.
Plain(q) ==
  q.kind = "slice" =>
    IF q.start >= 0 THEN q.stop >= 0 ELSE q.step = 1 /\ (q.stop < 0 \/ q.stop = NoStop)
\* A Filter that has come to its end has lost count of where it is.
Counted == \A x \in Operands : Plain(query[x]) /\ (query[x].kind = "filter" => ~again)

Least(m, n) == IF m < n THEN m ELSE n
Most(m, n) == IF m < n THEN n ELSE m

\* How often a message belongs into the outcome of each merge.
Wanted(m) ==
  LET a == Has("A", m) b == Has("B", m) IN
  CASE operator = "and" -> Least(a, b)
    [] operator = "or"  -> Most(a, b)
    [] operator = "sub" -> Most(a - b, 0)
    [] operator = "xor" -> Most(a - b, b - a)

BothThere == \A x \in Operands : \E m \in Messages : Has(x, m) > 0
Whole(ops) == current_i = "exhausted" /\ operator \in ops
ExactlyWanted == \A m \in Messages : Times(out, m) = Wanted(m)

\* An iteration gives messages in the order they were appended in, whatever jumps
\* and skips it makes (or_func, and_func, sub_func, xor_func).
InOrder ==
  (\A x \in Operands : Plain(query[x])) => \A i, j \in 1 .. Len(out) : i <= j => out[i] <= out[j]

\* |, - and ^ of two operands that have something give every message as often as it
\* belongs into the outcome, also when a merge without a filter is iterated again.
MergeExact == Whole({"or", "sub", "xor"}) /\ BothThere /\ Counted => ExactlyWanted

\* & gives nothing but messages that both operands have, and in the end all of them.
AndMembers ==
  operator = "and" /\ Counted =>
    LET given  == {out[i] : i \in 1 .. Len(out)}
        common == {m \in Messages : Has("A", m) > 0 /\ Has("B", m) > 0}
    IN given \subseteq common /\ (Whole({"and"}) => given = common)

\* Each call of next() comes back, whatever the jumps of and_func.
CallsReturn == current_i = "call" ~> current_i # "call"

\* What README:28-30 says of &, an inner join on the message id: one row for a
\* message that is once in both. and_func goes on from the cursor its jump left
\* behind in a key query, and gives a message again.
AndOnce ==
  Whole({"and"}) /\ (\A x \in Operands, m \in Messages : Has(x, m) <= 1) =>
    \A m \in Messages : Times(out, m) <= 1

\* What README:32-34 says of |, a full outer join: of two keys it keeps what only one
\* has. The A[0] or B[0] of a key that is not there ends the iteration.
OrKeepsAll ==
  Whole({"or"}) /\ (\A x \in Operands : query[x].kind = "key") => ExactlyWanted

=============================================================================
