------------------------------ MODULE MC_Mmbuf ------------------------------
(* Instance of Mmbuf: files that start at 6 bytes and hold at most MaxOffset. *)
EXTENDS Mmbuf

MCLengths == {1, 3, 9}

=============================================================================
