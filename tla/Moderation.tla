------------------------------ MODULE Moderation ------------------------------
(***************************************************************************)
(* The moderation clients (src/argus_cortex/moderation/): one image, with  *)
(* a text or without, or a text alone is checked by SingGuard against a    *)
(* named policy, or an image by NudeNet.  SingGuardClient.check shrinks    *)
(* the image until it fits, check_text refuses what is no text, either     *)
(* posts it and reads a verdict out of whatever comes back; a stage then   *)
(* asks policies.is_illegal about the rules that fired.                    *)
(* NudeNetClient.check posts the image and keeps what it can read of the   *)
(* detections.                                                             *)
(*                                                                         *)
(* The clients hold no state between checks, so one check is a behaviour.  *)
(* A policy text is its headings: a letter, and the topics its bullets     *)
(* name.  An image is what it shows, its longer edge in coarse units, how  *)
(* much of it Pillow can read, whether its bytes are within _MAX_BYTES as  *)
(* they are, and at which edges they are when encoded again; a text is     *)
(* what it says, whose it is and whether it is blank.  A rule as the       *)
(* server reports it is the letter of a heading and the form it is written *)
(* in.  Scores are taken at the precision they are recorded with.          *)
(***************************************************************************)
EXTENDS Naturals, Sequences, FiniteSets

CONSTANTS
    Inputs,        \* [image, text]: what may be checked
    Detections,    \* [label, score, box]: entries of a NudeNet answer
    MaxDetections, \* entries of one answer
    MaxEdge, MinEdge,
    MinScore,      \* MIN_REPORTED_SCORE
    NaN,           \* a score that is no finite number
    Huge           \* a score that is an integer beyond every float

ASSUME EdgeAssumption == {MaxEdge, MinEdge} \subseteq Nat \ {0} /\ MinEdge <= MaxEdge

(* No image, in a check of a text alone; and no text with an image.        *)
NoImage == [shows |-> {}, edge |-> 0, readable |-> "nothing", small |-> TRUE, fits |-> {}]
NoText == [says |-> {}, role |-> "user", blank |-> TRUE]

ASSUME DetectionAssumption ==
    /\ {NaN, Huge} \cap Nat = {} /\ MinScore \in Nat /\ MaxDetections \in Nat
    /\ \A d \in Detections : d.score \in Nat \cup {NaN, Huge}

ASSUME InputAssumption ==
    \A i \in Inputs :
        /\ i.image # NoImage => i.image.edge \in Nat \ {0} /\ i.image.fits \subseteq Nat
        /\ i.image.readable \in {"all", "header", "nothing"} /\ i.image.small \in BOOLEAN
        /\ i.text.blank => i.text.says = {}

VARIABLES
    phase,     \* of the check: "start", "encode", "post", "answered", "done"
    checker,   \* "singguard" or "nudenet"
    downscale, \* the client's option of that name
    policy,    \* the name of the policy sent
    image,     \* the image to check
    text,      \* the text to check, or to check it with
    edge,      \* its longer edge as last shrunk
    sent,      \* [edge, fits] of what is posted
    answer,    \* the server's answer
    result     \* the check's

given == <<checker, downscale, policy, image, text>>
vars == <<phase, given, edge, sent, answer, result>>

-----------------------------------------------------------------------------
(* The policies of policies.py: headings in the order of the text. *)
Rule(letter, topics) == [letter |-> letter, topics |-> topics]
Hard == {"minors", "nonconsent", "extreme"}
Doubtful == {"unclear_age", "unclear_consent"}

CrimeB == <<Rule("B", {"crime"})>>
OtherAfterB ==
    <<Rule("C", {"hate", "gore"}), Rule("D", {"hacking"}), Rule("E", {"prompts"}),
      Rule("F", {"politics"}), Rule("G", {"animals"})>>
CrimeCinematic == <<Rule("G", {"instructions"})>>
OtherRules == CrimeB \o OtherAfterB

Alphabet == <<"A", "B", "C", "D", "E", "F", "G", "H", "I">>
Nth(letter) == CHOOSE i \in DOMAIN Alphabet : Alphabet[i] = letter
OneLetterUp(rules) ==
    [i \in DOMAIN rules |-> [rules[i] EXCEPT !.letter = Alphabet[Nth(@) - 1]]]

Policies == {"default", "adult", "adult-granular", "adult-cautious", "adult-cinematic"}

(* SingGuard's own rules, when no text is sent. *)
DefaultRules == <<Rule("A", {"adult"} \cup Hard \cup Doubtful)>> \o OtherRules

PolicyText(name) ==
    CASE name = "default" -> DefaultRules
      [] name = "adult" -> <<Rule("A", Hard)>> \o OtherRules
      [] name = "adult-granular" ->
           <<Rule("A", {"minors"})>> \o OtherRules
             \o <<Rule("H", {"nonconsent"}), Rule("I", {"extreme"})>>
      [] name = "adult-cautious" -> <<Rule("A", Hard \cup Doubtful)>> \o OtherRules
      [] name = "adult-cinematic" ->
           <<Rule("A", Hard)>> \o OneLetterUp(OtherAfterB) \o CrimeCinematic

(* A slip: one table for every adult policy. *)
IllegalRulesShared(name) == IF name = "default" THEN {} ELSE {"A"}

IllegalRules(name) ==
    CASE name = "default" -> {}
      [] name = "adult-granular" -> {"A", "H", "I"}
      [] OTHER -> {"A"}

(* How a server may write a rule: "H. Non-Consensual ...", "h. ...", "H.", *)
(* "H", or the heading's words without its letter.                         *)
Forms == {"full", "lower", "dotted", "letter", "title"}
Lettered == Forms \ {"title"}

(* is_illegal with rule_letter: any form that has the letter. *)
IsIllegal(name, rule) == rule.form \in Lettered /\ rule.letter \in IllegalRules(name)

-----------------------------------------------------------------------------
None == [kind |-> "none"]
Failed == [kind |-> "failed"]
ValueError == [kind |-> "ValueError"]
OverflowError == [kind |-> "OverflowError"]

(* Slips in reading SingGuard's answer and in shrinking.                   *)
VerdictOrPass(a) == IF a.safe = "missing" THEN "true" ELSE a.safe
TooSmallStrict(e) == e < MinEdge
SmallerUnfloored(e) == (e * 3) \div 4
FitsOrGiveUp(e) == e \in image.fits \/ e <= MinEdge

(* singguard.to_result *)
Verdict(a) == a.safe
Readable(rules) == {r \in rules : r.form \in Forms}
Fired(a) ==
    IF Readable(a.categories) # {} THEN Readable(a.categories) ELSE Readable(a.rule)
GuardResult(a) ==
    IF Verdict(a) \notin {"true", "false"} THEN Failed
    ELSE [kind |-> "verdict", safe |-> Verdict(a) = "true",
          rules |-> IF Verdict(a) = "true" THEN {} ELSE Fired(a)]

(* nudenet.to_result *)
ExposedLabels == {"BUTTOCKS_EXPOSED", "FEMALE_BREAST_EXPOSED"}
KnownLabels == ExposedLabels \cup {"BELLY_EXPOSED"}
IsNumber(score) == score \notin {NaN, Huge}
(* math.isfinite raises on a Huge, in the score or in the box of an entry. *)
Overflows(d) ==
    /\ d.label \in KnownLabels
    /\ d.score = Huge \/ (IsNumber(d.score) /\ d.score >= MinScore /\ d.box = "huge numbers")
WellFormed(d) ==
    /\ d.label \in KnownLabels
    /\ IsNumber(d.score)
    /\ d.score >= MinScore
    /\ d.box = "four numbers"
Kept(raw) == {i \in DOMAIN raw : WellFormed(raw[i])}
Arrangements(raw) ==
    LET kept == Kept(raw)
        orders == {p \in [1..Cardinality(kept) -> kept] : \A k \in kept : \E i \in DOMAIN p : p[i] = k}
    IN  {[i \in DOMAIN p |-> raw[p[i]]] : p \in orders}

(* A slip: list.sort without the minus. *)
SortedUpwards(dets) == \A i, j \in DOMAIN dets : i <= j => dets[i].score <= dets[j].score
Sorted(dets) == \A i, j \in DOMAIN dets : i <= j => dets[i].score >= dets[j].score
ByScore(raw) == CHOOSE dets \in Arrangements(raw) : Sorted(dets)
FirstOf(dets, label) ==
    dets[CHOOSE i \in DOMAIN dets :
           dets[i].label = label /\ \A j \in 1..(i-1) : dets[j].label # label]
Labels(dets) ==
    [l \in {dets[i].label : i \in DOMAIN dets} |-> FirstOf(dets, l).score]
ExposedScore(labels) ==
    LET shown == {labels[l] : l \in ExposedLabels \cap DOMAIN labels}
    IN  IF shown = {} THEN 0 ELSE CHOOSE s \in shown : \A other \in shown : s >= other
NsfwResult(raw) ==
    LET dets == ByScore(raw)
    IN  [kind |-> "nsfw", exposed |-> ExposedScore(Labels(dets))]

(* NudeNetClient.check: one list for the one image, and success. *)
NudityResult(a) ==
    IF ~(a.success /\ Len(a.prediction) = 1) THEN Failed
    ELSE IF \E i \in DOMAIN a.prediction[1] : Overflows(a.prediction[1][i]) THEN OverflowError
    ELSE NsfwResult(a.prediction[1])

-----------------------------------------------------------------------------
Finish(r) == phase' = "done" /\ result' = r

(* Every answer a NudeNet server, or something else at its URL, may give.  *)
Lists == UNION {[1..n -> Detections] : n \in 0..MaxDetections}
NudeNetAnswers ==
    [success : {TRUE}, prediction : {<<l>> : l \in Lists}]
    \cup [success : {FALSE}, prediction : {<< << >> >>}]
    \cup [success : {TRUE}, prediction : {<< >>, << << >>, << >> >>}]

(* A SingGuard server reads the text it was sent: the headings that fired  *)
(* are those naming what the image shows or the text says.  It lists them  *)
(* as categories, or names one as the rule, or both, with entries nobody   *)
(* can read between.                                                       *)
Judged == image.shows \cup text.says
Matching == {r \in {PolicyText(policy)[i] : i \in DOMAIN PolicyText(policy)} :
                r.topics \cap Judged # {}}
Written(rules, form) == {[letter |-> r.letter, form |-> form] : r \in rules}
Junk == [letter |-> "?", form |-> "no string"]
SingGuardAnswers ==
    LET verdict == IF Matching = {} THEN "true" ELSE "false"
        named == {Written(Matching, f) : f \in Forms}
    IN  [safe : {verdict}, categories : named \cup {c \cup {Junk} : c \in named}, rule : {{}}]
        \cup [safe : {verdict}, categories : {{}, {Junk}},
              rule : {Written({r}, f) : r \in Matching, f \in Forms} \cup {{}}]
        \cup [safe : {"missing"}, categories : {{}}, rule : {{}}]

-----------------------------------------------------------------------------
Init ==
    /\ phase = "start"
    /\ checker \in {"singguard", "nudenet"}
    /\ downscale \in BOOLEAN
    /\ policy \in Policies
    /\ \E i \in Inputs : image = i.image /\ text = i.text
    /\ checker = "nudenet" => ~downscale /\ policy = "default" /\ Judged = {} /\ image # NoImage
    /\ image = NoImage => ~downscale
    /\ edge = image.edge
    /\ sent = [edge |-> 0, fits |-> FALSE]
    /\ answer = None
    /\ result = None

Send(e, fits) == phase' = "post" /\ sent' = [edge |-> e, fits |-> fits]

(* NudeNet, and a client without downscaling, send the image as it is. *)
SendAsItIs ==
    /\ phase = "start" /\ ~downscale /\ image # NoImage
    /\ Send(image.edge, image.small)
    /\ UNCHANGED <<given, edge, answer, result>>

(* check_text: what somebody says, and no image. *)
InputRoles == {"user", "assistant"}

SendText ==
    /\ phase = "start" /\ image = NoImage
    /\ text.role \in InputRoles /\ ~text.blank
    /\ Send(0, TRUE)
    /\ UNCHANGED <<given, edge, answer, result>>

RefuseText ==
    /\ phase = "start" /\ image = NoImage
    /\ text.role \notin InputRoles \/ text.blank
    /\ Finish(ValueError)
    /\ UNCHANGED <<given, edge, sent, answer>>

(* downscale: an image small enough is only opened; another one is decoded *)
(* and shrunk to MAX_EDGE first.                                           *)
SendSmall ==
    /\ phase = "start" /\ downscale
    /\ image.readable # "nothing" /\ image.edge <= MaxEdge /\ image.small
    /\ Send(image.edge, TRUE)
    /\ UNCHANGED <<given, edge, answer, result>>

Thumbnail ==
    /\ phase = "start" /\ downscale
    /\ image.readable = "all" /\ ~(image.edge <= MaxEdge /\ image.small)
    /\ phase' = "encode"
    /\ edge' = IF image.edge > MaxEdge THEN MaxEdge ELSE image.edge
    /\ UNCHANGED <<given, sent, answer, result>>

Unreadable ==
    /\ phase = "start" /\ downscale
    /\ \/ image.readable = "nothing"
       \/ image.readable = "header" /\ ~(image.edge <= MaxEdge /\ image.small)
    /\ Finish(Failed)
    /\ UNCHANGED <<given, edge, sent, answer>>

Fits(e) == e \in image.fits
TooSmall(e) == e <= MinEdge
Smaller(e) == IF (e * 3) \div 4 > MinEdge THEN (e * 3) \div 4 ELSE MinEdge

Encode ==
    /\ phase = "encode"
    /\ \/ Fits(edge) /\ Send(edge, edge \in image.fits) /\ UNCHANGED <<edge, result>>
       \/ ~Fits(edge) /\ TooSmall(edge) /\ Finish(Failed) /\ UNCHANGED <<edge, sent>>
       \/ ~Fits(edge) /\ ~TooSmall(edge) /\ edge' = Smaller(edge) /\ UNCHANGED <<phase, sent, result>>
    /\ UNCHANGED <<given, answer>>

(* Pillow fails to scale it or to write it. *)
EncodeFails ==
    /\ phase = "encode"
    /\ Finish(Failed)
    /\ UNCHANGED <<given, edge, sent, answer>>

(* post_json: no answer, an HTTP error, or no JSON. *)
PostFails ==
    /\ phase = "post"
    /\ Finish(Failed)
    /\ UNCHANGED <<given, edge, sent, answer>>

Serve ==
    /\ phase = "post"
    /\ phase' = "answered"
    /\ answer' \in IF checker = "nudenet" THEN NudeNetAnswers ELSE SingGuardAnswers
    /\ UNCHANGED <<given, edge, sent, result>>

Read ==
    /\ phase = "answered"
    /\ Finish(IF checker = "nudenet" THEN NudityResult(answer) ELSE GuardResult(answer))
    /\ UNCHANGED <<given, edge, sent, answer>>

Run ==
    \/ SendAsItIs \/ SendText \/ RefuseText
    \/ SendSmall \/ Thumbnail \/ Unreadable \/ Encode
    \/ PostFails \/ Serve \/ Read

Next == Run \/ EncodeFails

Spec == Init /\ [][Next]_vars

(* A check runs on, and its HTTP request has a timeout.  Nothing makes      *)
(* Pillow fail.                                                            *)
FairSpec == Spec /\ WF_vars(Run)

-----------------------------------------------------------------------------
(* The phases are known, and the loop of downscale never shrinks an image  *)
(* below _MIN_EDGE, nor one that was smaller (singguard.py downscale).     *)
TypeOK ==
    /\ phase \in {"start", "encode", "post", "answered", "done"}
    /\ checker \in {"singguard", "nudenet"} /\ downscale \in BOOLEAN
    /\ policy \in Policies
    /\ edge \in Nat /\ edge <= image.edge
    /\ edge < image.edge => MinEdge <= edge /\ edge <= MaxEdge
    /\ sent.edge \in Nat /\ sent.fits \in BOOLEAN
    /\ result.kind \in {"none", "failed", "ValueError", "OverflowError", "verdict", "nsfw"}
    /\ result.kind # "none" <=> phase = "done"

(* What a downscaling client posts fits the server, or nothing is posted   *)
(* (singguard.py downscale).                                               *)
SentFits ==
    (downscale /\ phase \in {"post", "answered"}) =>
        sent.edge <= MaxEdge /\ sent.fits

(* A missing verdict is a failure, not a pass: an image or a text is only  *)
(* safe when the server judged it and said so, and one that is not safe    *)
(* says why whenever the server did (singguard.py to_result, _http.py      *)
(* post_json).                                                             *)
NoVerdictNoPass ==
    (phase = "done" /\ checker = "singguard" /\ result.kind = "verdict") =>
        /\ answer # None /\ answer.safe \in {"true", "false"}
        /\ result.safe <=> answer.safe = "true"
        /\ (~result.safe /\ Readable(answer.categories \cup answer.rule) # {}) => result.rules # {}

(* What a stage deletes for: some rule that fired is illegal.              *)
Deleted ==
    phase = "done" /\ result.kind = "verdict" /\ \E r \in result.rules : IsIllegal(policy, r)

(* The table of illegal letters and the lettering of the texts agree: a    *)
(* stage deletes only what shows illegal content, never depicted crime,    *)
(* gore or legal adult content, and deletes every illegal input whose      *)
(* rules the server gave with their letters (policies.py).                 *)
IllegalUnder(name) ==
    CASE name = "default" -> {}
      [] name = "adult-cautious" -> Hard \cup Doubtful
      [] OTHER -> Hard
DeletedIffIllegal ==
    /\ Deleted => Judged \cap IllegalUnder(policy) # {}
    /\ (/\ phase = "done" /\ result.kind = "verdict" /\ Judged \cap IllegalUnder(policy) # {}
        /\ Written(Matching, "title") # {}
        /\ \E f \in Lettered : Written(Matching, f) \subseteq answer.categories)
       => Deleted

(* The exposed score is the highest among the readable detections of the   *)
(* exposed classes, whatever the order and whatever else is in the answer  *)
(* (nudenet.py to_result, exposed_score).                                  *)
ExposureIsHighest ==
    (phase = "done" /\ result.kind = "nsfw") =>
        LET raw == answer.prediction[1]
            exposing == {d \in {raw[i] : i \in DOMAIN raw} : WellFormed(d) /\ d.label \in ExposedLabels}
        IN  /\ \A d \in exposing : d.score <= result.exposed
            /\ result.exposed \in {0} \cup {d.score : d \in exposing}

(* Every check ends: the shrinking runs out (singguard.py downscale). *)
EveryCheckEnds == <>(phase = "done")

=============================================================================
