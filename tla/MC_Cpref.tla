------------------------------ MODULE MC_Cpref ------------------------------
(* Instance of Cpref: blocks of four references; streams of part of a block, two *)
(* full blocks, and three blocks of which the last holds one reference.          *)
EXTENDS Cpref

MCTargets    == 0 .. 7
MCSearchFrom == {-1, 2}

=============================================================================
