------------------------------- MODULE MC_Mds -------------------------------
(* Instances of Mds: clumps of two messages, over more than two clumps. *)
EXTENDS Mds

=============================================================================
