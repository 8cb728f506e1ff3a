---------------------------- MODULE MCLineageStore ----------------------------
(* Instances of LineageStore for TLC. *)
EXTENDS LineageStore

CONSTANTS t1, t2, k1, k2
=============================================================================
