------------------------------ MODULE MCGpuLease ------------------------------
(* An instance of GpuLease for TLC. *)
EXTENDS GpuLease, TLC

CONSTANTS c1, c2, p1

(* Two threads of one process. *)
MCThreads == (c1 :> p1) @@ (c2 :> p1)
=============================================================================
