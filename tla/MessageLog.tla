----------------------------- MODULE MessageLog -----------------------------
(***************************************************************************)
(* What the master data store promises: a log of messages that is written  *)
(* once and read by position.  A process that ends before it closes the    *)
(* log loses fewer than Clump messages, all of them from the end.          *)
(***************************************************************************)
EXTENDS Integers, Sequences

CONSTANTS Messages, Positions, Clump, Nothing

VARIABLES
  log,       (* the messages that can be read back, in order                *)
  writing,   (* the log is open for appending                               *)
  answer     (* what was last read: a position and what was found there     *)

vars == <<log, writing, answer>>

NoAnswer == [index |-> -1, message |-> Nothing]

Init == log = <<>> /\ writing = FALSE /\ answer = NoAnswer

Open == log = <<>> /\ writing' = TRUE /\ UNCHANGED <<log, answer>>

Add(m) == writing /\ log' = Append(log, m) /\ UNCHANGED <<writing, answer>>

Finish == writing /\ writing' = FALSE /\ UNCHANGED <<log, answer>>

Lose ==
  /\ writing /\ writing' = FALSE
  /\ \E n \in 0 .. Len(log) : Len(log) - n < Clump /\ log' = SubSeq(log, 1, n)
  /\ UNCHANGED answer

Read(i) ==
  /\ ~writing
  /\ answer' = [index |-> i, message |-> IF i < Len(log) THEN log[i + 1] ELSE Nothing]
  /\ UNCHANGED <<log, writing>>

Forget == answer' = NoAnswer /\ UNCHANGED <<log, writing>>

Next ==
  \/ Open \/ Finish \/ Lose \/ Forget
  \/ \E m \in Messages : Add(m)
  \/ \E i \in Positions : Read(i)

Spec == Init /\ [][Next]_vars

=============================================================================
