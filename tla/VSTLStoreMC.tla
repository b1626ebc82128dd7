---------------------------- MODULE VSTLStoreMC ----------------------------
(***************************************************************************)
(* Threads that may all look for the same vector.                           *)
(***************************************************************************)
EXTENDS VSTLStore

CONSTANTS t1, t2, v1, v2
=============================================================================
