---------------------------- MODULE MCRemoteBackend ----------------------------
(* Instances of RemoteBackend for TLC. *)
EXTENDS RemoteBackend

CONSTANTS c1, c2, u1
=============================================================================
