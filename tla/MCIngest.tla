------------------------------- MODULE MCIngest -------------------------------
(* Instances of Ingest for TLC. *)
EXTENDS Ingest, TLC

CONSTANTS s1, s2, h1, h2

(* Two stages that take the same two images in opposite order, and say     *)
(* different things of them.                                               *)
MCOrder == (s1 :> <<h1, h2>>) @@ (s2 :> <<h2, h1>>)
MCCall == (s1 :> [h \in {h1, h2} |-> [uri |-> "u1", immich |-> "m1", meta |-> "k1" :> "v1"]])
       @@ (s2 :> [h \in {h1, h2} |-> [uri |-> "u2", immich |-> Null,
                                      meta |-> ("k1" :> "v2") @@ ("k2" :> "v2")]])
=============================================================================
