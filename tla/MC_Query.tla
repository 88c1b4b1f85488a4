------------------------------ MODULE MC_Query ------------------------------
(* Instance of Query: keys of at most three of four messages, a missing key *)
(* among them, every filter, slices from either end, with and without a    *)
(* stop, empty, past the ends, and over the end, and merges that give      *)
(* nothing, a message twice, or up to three of them.                       *)
EXTENDS Query

MCStreams ==
  {s \in UNION {[1 .. n -> Messages] : n \in 0 .. 3} :
     \A i \in 1 .. Len(s) - 1 : s[i] <= s[i + 1]}

Slice(start, stop, step) == [start |-> start, stop |-> stop, step |-> step]
MCSlices ==
  {Slice(0, 3, 1), Slice(1, NoStop, 2), Slice(1, 3, 1), Slice(2, 2, 1), Slice(7, NoStop, 1),
   Slice(-9, NoStop, 1), Slice(-3, -1, 1), Slice(-3, NoStop, 2), Slice(0, -1, 1)}

MCMerged == {s \in MCStreams : Len(s) < 3 \/ \A i, j \in DOMAIN s : i < j => s[i] < s[j]}

MCPassing == SUBSET Messages

=============================================================================
