---------------------------- MODULE MCServiceStores ----------------------------
(* An instance of ServiceStores for TLC. *)
EXTENDS ServiceStores, TLC

CONSTANTS t1, t2, d1

(* Two spellings of one UUID, and a key that is no UUID. *)
MCIds == {[form |-> "uuid", key |-> "k1", spelling |-> "dashed"],
          [form |-> "uuid", key |-> "k1", spelling |-> "hex"],
          [form |-> "text", key |-> "k2", spelling |-> "as it is"]}

Symmetry == Permutations(Threads)
=============================================================================
