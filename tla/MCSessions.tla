----------------------------- MODULE MCSessions -----------------------------
(***************************************************************************)
(* Sessions with two connection threads.                                   *)
(***************************************************************************)
EXTENDS Sessions

CONSTANTS t1, t2

=============================================================================
