----------------------------- MODULE MCLineageDag -----------------------------
(* Instances of LineageDag for TLC. *)
EXTENDS LineageDag, TLC

(* Three stages that know the same bytes, and one asset without a hash. *)
MCAssetCalls == {
    [sha |-> "h1", uri |-> "u1", immich |-> "m1", meta |-> "k1" :> "v1"],
    [sha |-> "h1", uri |-> "u2", immich |-> Null, meta |-> "k1" :> "v2"],
    [sha |-> "h1", uri |-> "u1", immich |-> "m2", meta |-> "k2" :> "v1"],
    [sha |-> Null, uri |-> "u1", immich |-> Null, meta |-> <<>>]}
=============================================================================
