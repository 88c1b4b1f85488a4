------------------------------ MODULE MC_Dpref ------------------------------
(* Instance of Dpref: pages of two references, streams that span pages, a file *)
(* that must grow while both are written.                                      *)
EXTENDS Dpref

=============================================================================
