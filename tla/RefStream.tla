------------------------------ MODULE RefStream -----------------------------
(***************************************************************************)
(* What a stored stream of references promises its readers: the references *)
(* in order, a cursor over them, and searches that leave the cursor alone. *)
(***************************************************************************)
EXTENDS Integers, Sequences

CONSTANTS Refs, Targets, None

VARIABLES
  refs,      (* the stored references, in ascending order                   *)
  stored,    (* the stream can be read                                      *)
  cursor,    (* the position of the last one read: 0 before the first, Len+1 after the last *)
  answer     (* what was last asked, and the reference found; -1 for none   *)

vars == <<refs, stored, cursor, answer>>

RefAt(i) == IF i \in 1 .. Len(refs) THEN refs[i] ELSE -1

Found(S) == {refs[i] : i \in {k \in 1 .. Len(refs) : refs[k] \in S}}
LeastGe(t)    == {r \in Found({x \in Refs : x >= t}) : \A q \in Found({x \in Refs : x >= t}) : r <= q}
GreatestLe(t) == {r \in Found({x \in Refs : x <= t}) : \A q \in Found({x \in Refs : x <= t}) : r >= q}
TheOne(S) == IF S = {} THEN -1 ELSE CHOOSE r \in S : TRUE

Init == refs = <<>> /\ stored = FALSE /\ cursor = 0 /\ answer = None

Store(r) ==
  /\ ~stored /\ refs' = Append(refs, r)
  /\ Len(refs) > 0 => r >= refs[Len(refs)]
  /\ UNCHANGED <<stored, cursor, answer>>

Ready == ~stored /\ stored' = TRUE /\ cursor' = 0 /\ UNCHANGED <<refs, answer>>

MoveTo(i, op) ==
  /\ cursor' = i /\ answer' = [op |-> op, ref |-> RefAt(i)]
  /\ UNCHANGED <<refs, stored>>

Next1 == stored /\ MoveTo(IF cursor > Len(refs) THEN cursor ELSE cursor + 1, "next")
Prev1 == stored /\ MoveTo(IF cursor < 1 THEN cursor ELSE cursor - 1, "prev")
Get   == stored /\ \E i \in 1 .. Len(refs) : MoveTo(i, "get")

\* One past the last position is asked for too; what it gives is not said.
GetPast ==
  /\ stored /\ cursor' = Len(refs) + 1
  /\ answer'.op = "get"
  /\ UNCHANGED <<refs, stored>>

Ge == /\ stored /\ \E t \in Targets : answer' = [op |-> "ge", arg |-> t, ref |-> TheOne(LeastGe(t))]
      /\ UNCHANGED <<refs, stored, cursor>>
Le == /\ stored /\ \E t \in Targets : answer' = [op |-> "le", arg |-> t, ref |-> TheOne(GreatestLe(t))]
      /\ UNCHANGED <<refs, stored, cursor>>

Forget == answer' = None /\ UNCHANGED <<refs, stored, cursor>>

Next ==
  \/ \E r \in Refs : Store(r)
  \/ Ready \/ Next1 \/ Prev1 \/ Get \/ GetPast \/ Ge \/ Le \/ Forget

Spec == Init /\ [][Next]_vars

=============================================================================
