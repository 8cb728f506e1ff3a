----------------------------- MODULE MCStageServer -----------------------------
(* Instances of StageServer for TLC. *)
EXTENDS StageServer

CONSTANTS s1, s2

(* A word, a word among spaces or in capitals, and texts of numbers.       *)
Word(w) == [word |-> w, bare |-> TRUE, kind |-> "none", number |-> 0]
Padded(w) == [Word(w) EXCEPT !.bare = FALSE]
Number(k, n) == [word |-> "number", bare |-> TRUE, kind |-> k, number |-> n]
Unset == Word("")

Plain ==
    [read_only |-> Unset, pg_url |-> Unset, pg_pool_min_size |-> Unset, pg_pool_max_size |-> Unset,
     qdrant_url |-> Unset, s3_endpoint |-> Unset, s3_bucket |-> Unset,
     coordinator |-> Unset, timeout_s |-> Unset, device |-> Unset]

Texts == {Unset, Padded(""), Word("on"), Padded("true"), Word("off"), Word("enabled")}
Sizes == {Unset, Word("ten"), Number("integer", -1), Number("integer", 0), Number("integer", 10)}
Names == {Padded(""), Padded("none"), Padded("lease"), Word("leases")}
Numbers == {Unset, Padded(""), Word("soon"), Number("integer", -3), Number("integer", 0),
            Number("decimal", 30), Number("infinite", Infinite)}

MCEnvs ==
    [s \in {s1, s2} |->
        IF s = s2 THEN {Plain}
        ELSE {[Plain EXCEPT !.read_only = t] : t \in Texts}
          \cup {[Plain EXCEPT !.pg_url = Word("url"), !.pg_pool_min_size = m, !.pg_pool_max_size = n] :
                  m \in Sizes, n \in Sizes}
          \cup {[Plain EXCEPT !.coordinator = c] : c \in Names}
          \cup {[Plain EXCEPT !.coordinator = Word("lease"), !.timeout_s = t, !.device = t] : t \in Numbers}]

(* A build that reads its own major, and a later one that reads both.      *)
MCBuilds == {[version |-> <<1, 4>>, reads |-> {1}], [version |-> <<10, 0>>, reads |-> {1, 10}]}

Site(scheme, site) == [scheme |-> scheme, site |-> site]
MCOrigins == {Site("https", "stage:8000"), Site("https", "studio"), Site("http", "studio"), Site("", "")}
MCTrusted == {Site("https", "studio")}
=============================================================================
