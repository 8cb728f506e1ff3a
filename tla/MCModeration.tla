----------------------------- MODULE MCModeration -----------------------------
(* An instance of Moderation for TLC. *)
EXTENDS Moderation

MCTopics == Hard \cup Doubtful
            \cup {"adult", "crime", "gore", "politics", "animals", "instructions"}
MCShows == {s \in SUBSET MCTopics : Cardinality(s) <= 2}

(* What an image shows and how large it is are independent: small images   *)
(* show everything, and images of every size show nothing.                 *)
Shown(s) == [shows |-> s, edge |-> 3, readable |-> "all", small |-> TRUE, fits |-> {}]
Sized == [shows : {{}}, edge : {3, 5, 8, 12}, readable : {"all", "header", "nothing"},
          small : BOOLEAN, fits : SUBSET {3, 4, 5, 6, 8}]
Said(s, role) == [says |-> s, role |-> role, blank |-> FALSE]

MCInputs ==
    [image : {Shown(s) : s \in MCShows} \cup Sized, text : {NoText}]
    \cup {[image |-> Shown({a}), text |-> Said({b}, "user")] : a \in MCTopics, b \in MCTopics}
    \cup [image : {NoImage},
          text : {Said({a}, r) : a \in MCTopics, r \in {"user", "assistant", "system"}} \cup {NoText}]

MCDetections ==
    [label : {"BUTTOCKS_EXPOSED", "FEMALE_BREAST_EXPOSED", "BELLY_EXPOSED"},
     score : {1, 2, 3, NaN}, box : {"four numbers"}]
    \cup [label : {"FEET_ON_SOFA"}, score : {3}, box : {"four numbers"}]
    \cup [label : {"BUTTOCKS_EXPOSED"}, score : {3}, box : {"malformed", "huge numbers"}]
    \cup [label : {"BELLY_EXPOSED", "FEET_ON_SOFA"}, score : {Huge}, box : {"four numbers"}]
=============================================================================
