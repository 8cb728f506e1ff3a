--------------------------- MODULE ModerationProofs ---------------------------
(***************************************************************************)
(* Theorems about Moderation for every set of inputs and detections, every *)
(* length of an answer and all limits.  Two of them are about tables and   *)
(* lists and not about steps: that the illegal letters agree with the      *)
(* policy texts (Lettering), and that detections can be sorted, with the   *)
(* first of a class the highest of it (LabelIsHighest).                    *)
(***************************************************************************)
EXTENDS Moderation, FiniteSetTheorems, TLAPS

-----------------------------------------------------------------------------
(* The inductive invariant.                                                *)

(* Between start and end the checks differ: only downscaling encodes, what *)
(* it encodes is no longer than MaxEdge; an answer is one of the server's; *)
(* and a result is one of a reading, or of a failure.                      *)
Encoding ==
    phase = "encode" => downscale /\ edge <= MaxEdge
Answers == IF checker = "nudenet" THEN NudeNetAnswers ELSE SingGuardAnswers
Answering ==
    /\ phase \in {"start", "encode", "post"} => answer = None
    /\ phase = "answered" => answer \in Answers
Results ==
    phase = "done" =>
        \/ result \in {Failed, ValueError}
        \/ answer \in Answers /\
             result = IF checker = "nudenet" THEN NudityResult(answer) ELSE GuardResult(answer)
Unfinished == phase # "done" => result = None
Sizes == /\ image.edge \in Nat /\ image.small \in BOOLEAN
         /\ image # NoImage => image.edge > 0

IInv == TypeOK /\ Encoding /\ SentFits /\ Answering /\ Results /\ Unfinished /\ Sizes

-----------------------------------------------------------------------------
(* The headings of texts put together.                                     *)

Members(rules) == {rules[i] : i \in DOMAIN rules}
IsText(rules) == rules \in Seq(Members(rules))

LEMMA Together ==
    ASSUME NEW a, NEW b, IsText(a), IsText(b)
    PROVE  IsText(a \o b) /\ Members(a \o b) = Members(a) \cup Members(b)
<1> DEFINE S == Members(a) \cup Members(b)
           c == a \o b
<1>0. a \in Seq(S) /\ b \in Seq(S)
  BY DEF IsText
<1> HIDE DEF S
<1>1. /\ c \in Seq(S) /\ Len(c) = Len(a) + Len(b) /\ DOMAIN c = 1..Len(a) + Len(b)
      /\ DOMAIN a = 1..Len(a) /\ DOMAIN b = 1..Len(b) /\ Len(a) \in Nat /\ Len(b) \in Nat
      /\ \A i \in 1..Len(a) : c[i] = a[i]
      /\ \A i \in 1..Len(b) : c[Len(a) + i] = b[i]
  BY <1>0
<1> HIDE DEF c
<1>2. ASSUME NEW i \in DOMAIN c
      PROVE  c[i] \in Members(a) \cup Members(b)
  <2>1. CASE i \in 1..Len(a)
    BY <1>1, <2>1 DEF Members
  <2>2. CASE i \notin 1..Len(a)
    <3>1. i - Len(a) \in 1..Len(b) /\ i = Len(a) + (i - Len(a))
      BY <1>1, <1>2, <2>2
    <3>2. c[i] = b[i - Len(a)]
      BY <1>1, <3>1
    <3> QED BY <1>1, <3>1, <3>2 DEF Members
  <2> QED BY <2>1, <2>2
<1>3. \A i \in DOMAIN a : a[i] \in Members(c)
  BY <1>1 DEF Members
<1>4. \A i \in DOMAIN b : b[i] \in Members(c)
  BY <1>1 DEF Members
<1>5. Members(c) = Members(a) \cup Members(b)
  BY <1>2, <1>3, <1>4 DEF Members
<1>6. IsText(c)
  BY <1>1, <1>5 DEF S, IsText
<1> QED BY <1>5, <1>6 DEF c

LEMMA OneHeading ==
    ASSUME NEW r
    PROVE  IsText(<<r>>) /\ Members(<<r>>) = {r}
<1>1. Members(<<r>>) = {r}
  BY DEF Members
<1> QED BY <1>1 DEF IsText

LEMMA TwoHeadings ==
    ASSUME NEW r, NEW s
    PROVE  IsText(<<r, s>>) /\ Members(<<r, s>>) = {r, s}
<1>1. Members(<<r, s>>) = {r, s}
  BY DEF Members
<1> QED BY <1>1 DEF IsText

(* No other heading has the letters of the illegal ones, also when they    *)
(* are lettered anew.                                                      *)
LEMMA Parts ==
    /\ IsText(OtherRules) /\ \A r \in Members(OtherRules) : r.letter \notin {"A", "H", "I"}
    /\ IsText(OneLetterUp(OtherAfterB))
    /\ \A r \in Members(OneLetterUp(OtherAfterB)) : r.letter # "A"
<1>1. IsText(OtherAfterB) /\ IsText(CrimeB)
  <2>1. IsText(CrimeB)
    BY OneHeading DEF CrimeB
  <2>2. ASSUME NEW a, NEW b, NEW c, NEW d, NEW e
        PROVE  IsText(<<a, b, c, d, e>>)
    BY DEF IsText, Members
  <2> QED BY <2>1, <2>2 DEF OtherAfterB
<1>2. \A r \in Members(CrimeB) \cup Members(OtherAfterB) : r.letter \notin {"A", "H", "I"}
  BY DEF CrimeB, OtherAfterB, Rule, Members
<1>3. IsText(OtherRules) /\ Members(OtherRules) = Members(CrimeB) \cup Members(OtherAfterB)
  BY <1>1, Together DEF OtherRules
<1>4. IsText(OneLetterUp(OtherAfterB))
  <2>1. DOMAIN OtherAfterB = 1..5
    BY DEF OtherAfterB
  <2>2. DOMAIN OneLetterUp(OtherAfterB) = 1..5
    BY <2>1 DEF OneLetterUp
  <2>3. OneLetterUp(OtherAfterB) \in [1..5 -> Members(OneLetterUp(OtherAfterB))]
    BY <2>1, <2>2 DEF OneLetterUp, Members
  <2>4. ASSUME NEW S, NEW n \in Nat, NEW f \in [1..n -> S]
        PROVE  f \in Seq(S)
    OBVIOUS
  <2>5. 5 \in Nat
    OBVIOUS
  <2> QED BY <2>3, <2>4, <2>5 DEF IsText
<1>5. \A r \in Members(OneLetterUp(OtherAfterB)) : r.letter # "A"
  BY DEF OneLetterUp, OtherAfterB, Rule, Nth, Alphabet, Members
<1> QED BY <1>2, <1>3, <1>4, <1>5

(* The rules whose letter is illegal under a policy name only what is, and *)
(* name all of it.                                                         *)
LEMMA Lettering ==
    ASSUME NEW name \in Policies
    PROVE  /\ \A r \in Members(PolicyText(name)) :
                r.letter \in IllegalRules(name) => r.topics \subseteq IllegalUnder(name)
           /\ \A topic \in IllegalUnder(name) : \E r \in Members(PolicyText(name)) :
                topic \in r.topics /\ r.letter \in IllegalRules(name)
<1>1. \A letter, topics :
        Rule(letter, topics).letter = letter /\ Rule(letter, topics).topics = topics
  BY DEF Rule
<1>2. CASE name = "default"
  BY <1>2 DEF IllegalRules, IllegalUnder
<1>3. ASSUME NEW topics
      PROVE  Members(<<Rule("A", topics)>> \o OtherRules) = {Rule("A", topics)} \cup Members(OtherRules)
             /\ IsText(<<Rule("A", topics)>> \o OtherRules)
  BY OneHeading, Parts, Together
<1>4. CASE name = "adult"
  <2>1. PolicyText(name) = <<Rule("A", Hard)>> \o OtherRules
    BY <1>4 DEF PolicyText
  <2>2. IllegalRules(name) = {"A"} /\ IllegalUnder(name) = Hard
    BY <1>4 DEF IllegalRules, IllegalUnder
  <2>3. Members(PolicyText(name)) = {Rule("A", Hard)} \cup Members(OtherRules)
    BY <1>3, <2>1
  <2> QED BY <1>1, <2>2, <2>3, Parts
<1>5. CASE name = "adult-cautious"
  <2>1. PolicyText(name) = <<Rule("A", Hard \cup Doubtful)>> \o OtherRules
    BY <1>5 DEF PolicyText
  <2>2. IllegalRules(name) = {"A"} /\ IllegalUnder(name) = Hard \cup Doubtful
    BY <1>5 DEF IllegalRules, IllegalUnder
  <2>3. Members(PolicyText(name)) = {Rule("A", Hard \cup Doubtful)} \cup Members(OtherRules)
    BY <1>3, <2>1
  <2> QED BY <1>1, <2>2, <2>3, Parts
<1>6. CASE name = "adult-granular"
  <2>1. PolicyText(name) = <<Rule("A", {"minors"})>> \o OtherRules
                             \o <<Rule("H", {"nonconsent"}), Rule("I", {"extreme"})>>
    BY <1>6 DEF PolicyText
  <2>2. IllegalRules(name) = {"A", "H", "I"} /\ IllegalUnder(name) = Hard
    BY <1>6 DEF IllegalRules, IllegalUnder
  <2>3. Members(PolicyText(name)) = {Rule("A", {"minors"})} \cup Members(OtherRules)
                                    \cup {Rule("H", {"nonconsent"}), Rule("I", {"extreme"})}
    BY <1>3, <2>1, TwoHeadings, Together
  <2> QED BY <1>1, <2>2, <2>3, Parts DEF Hard
<1>7. CASE name = "adult-cinematic"
  <2>1. PolicyText(name) = <<Rule("A", Hard)>> \o OneLetterUp(OtherAfterB)
                             \o <<Rule("G", {"instructions"})>>
    BY <1>7 DEF PolicyText, CrimeCinematic
  <2>2. IllegalRules(name) = {"A"} /\ IllegalUnder(name) = Hard
    BY <1>7 DEF IllegalRules, IllegalUnder
  <2>3. Members(PolicyText(name)) = {Rule("A", Hard)} \cup Members(OneLetterUp(OtherAfterB))
                                    \cup {Rule("G", {"instructions"})}
    BY <2>1, OneHeading, Parts, Together
  <2> QED BY <1>1, <2>2, <2>3, Parts
<1> QED BY <1>2, <1>4, <1>5, <1>6, <1>7 DEF Policies

-----------------------------------------------------------------------------
(* The steps.                                                              *)

(* No reading is mistaken for another. *)
LEMMA ReadingKinds ==
    /\ \A a : GuardResult(a).kind \in {"failed", "verdict"}
    /\ \A a : NudityResult(a).kind \in {"failed", "OverflowError", "nsfw"}
    /\ Failed.kind = "failed" /\ ValueError.kind = "ValueError" /\ None.kind = "none"
    /\ OverflowError.kind = "OverflowError"
BY DEF GuardResult, NudityResult, NsfwResult, Failed, ValueError, OverflowError, None

LEMMA InitIInv == Init => IInv
<1> SUFFICES ASSUME Init PROVE IInv
  OBVIOUS
<1>1. PICK i \in Inputs : image = i.image /\ text = i.text
  BY DEF Init
<1>2. Sizes
  BY <1>1, InputAssumption DEF Sizes, NoImage
<1>3. TypeOK
  BY <1>2 DEF Init, TypeOK, None, Sizes
<1>4. Encoding /\ SentFits /\ Answering /\ Results /\ Unfinished
  BY DEF Init, Encoding, SentFits, Answering, Results, Unfinished
<1> QED BY <1>2, <1>3, <1>4 DEF IInv

(* Shrinking makes progress, down to the floor. *)
LEMMA SmallerStill ==
    ASSUME NEW e \in Nat, ~TooSmall(e)
    PROVE  Smaller(e) \in Nat /\ Smaller(e) < e /\ Smaller(e) >= MinEdge
BY EdgeAssumption DEF TooSmall, Smaller

LEMMA Inductive == IInv /\ [Next]_vars => IInv'
<1> SUFFICES ASSUME IInv, [Next]_vars PROVE IInv'
  OBVIOUS
<1> USE DEF IInv
<1>1. UNCHANGED given
  BY DEF Next, Run, SendAsItIs, SendText, RefuseText, SendSmall, Thumbnail, Unreadable, Encode,
         EncodeFails, PostFails, Serve, Read, vars
<1>2. Sizes'
  BY <1>1 DEF given, Sizes, NoImage
<1>3. TypeOK'
  <2> USE <1>1, ReadingKinds, EdgeAssumption DEF TypeOK, Sizes, given, Send, Finish, Unfinished
  <2>1. CASE SendAsItIs \/ SendText \/ SendSmall
    <3>1. \E e \in Nat, fits \in BOOLEAN : sent' = [edge |-> e, fits |-> fits]
      BY <2>1 DEF SendAsItIs, SendText, SendSmall
    <3>2. sent'.edge \in Nat
      BY <3>1
    <3>3. sent'.fits \in BOOLEAN
      <4>1. PICK e \in Nat, fits \in BOOLEAN : sent' = [edge |-> e, fits |-> fits]
        BY <3>1
      <4>2. sent'.fits = fits
        BY <4>1, Zenon
      <4> QED BY <4>2, Zenon
    <3> QED BY <2>1, <3>2, <3>3 DEF SendAsItIs, SendText, SendSmall
  <2>2. CASE RefuseText \/ Unreadable \/ EncodeFails \/ PostFails
    BY <2>2 DEF RefuseText, Unreadable, EncodeFails, PostFails
  <2>3. CASE Thumbnail
    BY <2>3 DEF Thumbnail
  <2>4. CASE Encode
    <3>1. phase = "encode" /\ result = None
      BY <2>4 DEF Encode
    <3>2. CASE Fits(edge) /\ Send(edge, edge \in image.fits) /\ UNCHANGED <<edge, result>>
      <4>1. sent'.edge = edge /\ sent'.fits = (edge \in image.fits)
        BY <3>2
      <4>2. sent'.fits \in BOOLEAN
        BY <4>1
      <4> QED BY <3>1, <3>2, <4>1, <4>2
    <3>3. CASE ~Fits(edge) /\ TooSmall(edge) /\ Finish(Failed) /\ UNCHANGED <<edge, sent>>
      BY <3>1, <3>3
    <3>4. CASE /\ ~Fits(edge) /\ ~TooSmall(edge) /\ edge' = Smaller(edge)
               /\ UNCHANGED <<phase, sent, result>>
      BY <3>1, <3>4, SmallerStill DEF Encoding
    <3> QED BY <2>4, <3>2, <3>3, <3>4 DEF Encode
  <2>5. CASE Serve
    BY <2>5 DEF Serve
  <2>6. CASE Read
    BY <2>6 DEF Read
  <2>7. CASE UNCHANGED vars
    BY <2>7 DEF vars
  <2> QED BY <2>1, <2>2, <2>3, <2>4, <2>5, <2>6, <2>7 DEF Next, Run
<1>4. Encoding'
  BY <1>1, EdgeAssumption, SmallerStill
     DEF Encoding, TypeOK, Sizes, given, Send, Finish, Next, Run, SendAsItIs, SendText, RefuseText,
         SendSmall, Thumbnail, Unreadable, Encode, EncodeFails, PostFails, Serve, Read, vars
<1>5. SentFits'
  <2>1. ASSUME downscale, phase' = "post"
        PROVE  sent'.edge <= MaxEdge /\ sent'.fits
    <3>1. SendText \/ SendSmall \/ Encode \/ (phase = "post" /\ UNCHANGED sent)
      BY <1>1, <2>1 DEF given, Finish, Next, Run, SendAsItIs, RefuseText, Thumbnail, Unreadable,
                        EncodeFails, PostFails, Serve, Read, vars
    <3>2. CASE SendText
      BY <3>2, EdgeAssumption DEF SendText, Send
    <3>3. CASE SendSmall
      BY <3>3 DEF SendSmall, Send
    <3>4. CASE Encode
      <4>1. /\ phase = "encode" /\ Fits(edge)
            /\ sent' = [edge |-> edge, fits |-> edge \in image.fits]
        BY <2>1, <3>4 DEF Encode, Send, Finish
      <4>2. sent'.fits = (edge \in image.fits) /\ sent'.edge = edge
        BY <4>1
      <4>3. edge \in image.fits
        BY <4>1 DEF Fits
      <4> QED BY <4>1, <4>2, <4>3 DEF Encoding
    <3>5. CASE phase = "post" /\ UNCHANGED sent
      BY <1>1, <2>1, <3>5 DEF SentFits, given
    <3> QED BY <3>1, <3>2, <3>3, <3>4, <3>5
  <2>2. ASSUME phase' = "answered"
        PROVE  phase \in {"post", "answered"} /\ UNCHANGED sent
    BY <2>2 DEF Send, Finish, Next, Run, SendAsItIs, SendText, RefuseText, SendSmall, Thumbnail,
                Unreadable, Encode, EncodeFails, PostFails, Serve, Read, vars
  <2> QED BY <1>1, <2>1, <2>2 DEF SentFits, given
<1>6. Answers' = Answers
  BY <1>1 DEF given, Answers, SingGuardAnswers, Matching, Judged, Written
<1>7. Answering'
  BY <1>1, <1>6
     DEF Answering, Answers, TypeOK, given, Send, Finish, Next, Run, SendAsItIs, SendText, RefuseText,
         SendSmall, Thumbnail, Unreadable, Encode, EncodeFails, PostFails, Serve, Read, vars
<1>8. Results'
  BY <1>1, <1>6
     DEF Results, Answering, TypeOK, given, Send, Finish, Next, Run, SendAsItIs, SendText, RefuseText,
         SendSmall, Thumbnail, Unreadable, Encode, EncodeFails, PostFails, Serve, Read, vars
<1>9. Unfinished'
  BY <1>1
     DEF Unfinished, TypeOK, given, Send, Finish, Next, Run, SendAsItIs, SendText, RefuseText,
         SendSmall, Thumbnail, Unreadable, Encode, EncodeFails, PostFails, Serve, Read, vars
<1> QED BY <1>2, <1>3, <1>4, <1>5, <1>7, <1>8, <1>9

LEMMA Invariance == Spec => []IInv
BY InitIInv, Inductive, PTL DEF Spec

-----------------------------------------------------------------------------
(* The order of detections.                                                *)

(* Every set of numbers has a least one. *)
LEMMA Least ==
    ASSUME NEW S \in SUBSET Nat, S # {}
    PROVE  \E x \in S : \A y \in S : x <= y
<1> DEFINE less == {ss \in Nat \X Nat : ss[1] < ss[2]}
<1>1. IsWellFoundedOn(less, Nat)
  BY NatLessThanWellFounded DEF OpToRel
<1>2. ASSUME NEW x \in Nat, NEW y \in Nat, x < y
      PROVE  <<x, y>> \in less
  BY <1>2
<1> HIDE DEF less
<1>3. PICK x \in S : \A y \in S : ~ (<<y, x>> \in less)
  BY <1>1, WFMin
<1>4. ASSUME NEW y \in S
      PROVE  x <= y
  <2>1. x \in Nat /\ y \in Nat
    OBVIOUS
  <2>2. ~ (y < x)
    BY <1>2, <1>3, <2>1
  <2> QED BY <2>1, <2>2
<1> QED BY <1>4

(* p takes all of K, the best first. *)
Ranks(p, K, score) ==
    /\ p \in [1..Cardinality(K) -> K]
    /\ \A k \in K : \E i \in DOMAIN p : p[i] = k
    /\ \A i, j \in DOMAIN p : i <= j => score[p[i]] >= score[p[j]]

(* A ranking of all but a least one is one of all, with that one last. *)
LEMMA RankLast ==
    ASSUME NEW K, IsFiniteSet(K), NEW score \in [K -> Nat],
           NEW m \in K, \A k \in K : score[m] <= score[k],
           NEW q, Ranks(q, K \ {m}, score)
    PROVE  \E p : Ranks(p, K, score)
<1> DEFINE n == Cardinality(K)
           p == [i \in 1..n |-> IF i = n THEN m ELSE q[i]]
<1>1. n \in Nat /\ n > 0 /\ Cardinality(K \ {m}) = n - 1
  BY FS_RemoveElement, FS_CardinalityType, FS_EmptySet
<1>2. q \in [1..(n-1) -> K \ {m}]
  BY <1>1 DEF Ranks
<1> HIDE DEF n
<1>3. /\ \A i \in 1..(n-1) : i \in 1..n /\ p[i] = q[i] /\ q[i] \in K
      /\ n \in 1..n /\ p[n] = m
      /\ \A i \in 1..n : i = n \/ i \in 1..(n-1)
  BY <1>1, <1>2
<1>4. p \in [1..n -> K]
  BY <1>1, <1>2
<1>5. \A k \in K : \E i \in 1..n : p[i] = k
  <2> TAKE k \in K
  <2>1. CASE k = m
    BY <1>3, <2>1
  <2>2. CASE k # m
    <3>1. PICK i \in DOMAIN q : q[i] = k
      BY <2>2 DEF Ranks
    <3> QED BY <1>2, <1>3, <3>1
  <2> QED BY <2>1, <2>2
<1>6. ASSUME NEW i \in 1..n, NEW j \in 1..n, i <= j
      PROVE  score[p[i]] >= score[p[j]]
  <2>1. p[i] \in K
    BY <1>4
  <2>2. CASE j = n
    BY <1>3, <2>1, <2>2
  <2>3. CASE j # n
    <3>1. i \in 1..(n-1) /\ j \in 1..(n-1)
      BY <1>1, <1>6, <2>3
    <3>2. score[q[i]] >= score[q[j]]
      BY <1>2, <1>6, <3>1 DEF Ranks
    <3> QED BY <1>3, <3>1, <3>2
  <2> QED BY <2>2, <2>3
<1>7. DOMAIN p = 1..n
  OBVIOUS
<1> HIDE DEF p
<1>8. Ranks(p, K, score)
  BY <1>4, <1>5, <1>6, <1>7 DEF Ranks, n
<1> QED BY <1>8

(* Whatever has scores can be ranked: of the sets that could not, take one *)
(* with the fewest members, and put aside a least of them.                 *)
LEMMA Rankable ==
    ASSUME NEW All, IsFiniteSet(All), NEW score \in [All -> Nat], NEW K \in SUBSET All
    PROVE  \E p : Ranks(p, K, score)
<1> DEFINE Unranked == {L \in SUBSET All : ~ \E p : Ranks(p, L, score)}
           sizes == {Cardinality(L) : L \in Unranked}
<1>1. \A L \in SUBSET All : IsFiniteSet(L) /\ Cardinality(L) \in Nat
  BY FS_Subset, FS_CardinalityType
<1>2. sizes \subseteq Nat
  BY <1>1
<1>3. ASSUME NEW L \in Unranked, \A M \in Unranked : Cardinality(L) <= Cardinality(M)
      PROVE  FALSE
  <2>1. CASE L = {}
    <3>1. Ranks(<< >>, L, score)
      BY <2>1, FS_EmptySet DEF Ranks
    <3> QED BY <3>1
  <2>2. CASE L # {}
    <3> DEFINE scores == {score[k] : k \in L}
    <3>1. scores \subseteq Nat /\ scores # {}
      BY <2>2
    <3>2. PICK m \in L : \A k \in L : score[m] <= score[k]
      <4>1. PICK x \in scores : \A y \in scores : x <= y
        BY <3>1, Least
      <4> QED BY <4>1
    <3>3. Cardinality(L \ {m}) < Cardinality(L)
      BY <1>1, FS_RemoveElement
    <3>4. L \ {m} \notin Unranked
      BY <1>1, <1>3, <3>3
    <3>5. PICK q : Ranks(q, L \ {m}, score)
      BY <3>4
    <3> DEFINE own == [k \in L |-> score[k]]
    <3>6. own \in [L -> Nat] /\ \A k \in L : own[k] = score[k]
      OBVIOUS
    <3>7. Ranks(q, L \ {m}, own)
      BY <3>5, <3>6 DEF Ranks
    <3> HIDE DEF own
    <3>8. PICK p : Ranks(p, L, own)
      BY <1>1, <3>2, <3>6, <3>7, RankLast
    <3>9. Ranks(p, L, score)
      BY <3>6, <3>8 DEF Ranks
    <3> QED BY <3>9
  <2> QED BY <2>1, <2>2
<1>4. Unranked = {}
  <2> SUFFICES ASSUME Unranked # {} PROVE FALSE
    OBVIOUS
  <2>1. sizes # {}
    OBVIOUS
  <2>2. PICK x \in sizes : \A y \in sizes : x <= y
    <3> HIDE DEF sizes
    <3> QED BY <1>2, <2>1, Least
  <2> QED BY <1>3, <2>2
<1> QED BY <1>4

(* One image's detections, of whatever a server says.                      *)

LEMMA KeptAreScored ==
    ASSUME NEW raw \in Lists
    PROVE  /\ IsFiniteSet(DOMAIN raw) /\ DOMAIN raw \subseteq Nat
           /\ \A i \in DOMAIN raw : raw[i] \in Detections
           /\ \A i \in Kept(raw) : raw[i].score \in Nat
<1>1. PICK n \in 0..MaxDetections : raw \in [1..n -> Detections]
  BY DEF Lists
<1>2. n \in Nat /\ IsFiniteSet(1..n)
  BY DetectionAssumption, FS_Interval
<1>3. DOMAIN raw = 1..n /\ \A i \in 1..n : raw[i] \in Detections
  BY <1>1
<1>4. ASSUME NEW i \in Kept(raw)
      PROVE  raw[i].score \in Nat
  <2>1. raw[i] \in Detections /\ raw[i].score \notin {NaN, Huge}
    BY <1>3 DEF Kept, WellFormed, IsNumber
  <2> QED BY <2>1, DetectionAssumption
<1>5. 1..n \subseteq Nat
  BY <1>2
<1> QED BY <1>2, <1>3, <1>4, <1>5

(* Sorting them is possible. *)
LEMMA SortedExists ==
    ASSUME NEW raw \in Lists
    PROVE  \E dets \in Arrangements(raw) : Sorted(dets)
<1> DEFINE score == [i \in Kept(raw) |-> raw[i].score]
<1>1. score \in [Kept(raw) -> Nat] /\ \A i \in Kept(raw) : score[i] = raw[i].score
  BY KeptAreScored
<1>2. IsFiniteSet(Kept(raw))
  BY KeptAreScored, FS_Subset DEF Kept
<1> HIDE DEF score
<1>3. PICK p : Ranks(p, Kept(raw), score)
  BY <1>1, <1>2, Rankable
<1> DEFINE dets == [i \in DOMAIN p |-> raw[p[i]]]
<1>4. dets \in Arrangements(raw)
  BY <1>3 DEF Ranks, Arrangements
<1>5. ASSUME NEW i \in DOMAIN p, NEW j \in DOMAIN p, i <= j
      PROVE  dets[i].score >= dets[j].score
  <2>1. p[i] \in Kept(raw) /\ p[j] \in Kept(raw) /\ score[p[i]] >= score[p[j]]
    BY <1>3, <1>5 DEF Ranks
  <2> QED BY <1>1, <2>1
<1>6. Sorted(dets)
  BY <1>5 DEF Sorted
<1> QED BY <1>4, <1>6

(* They are then those that could be read, the highest scores first.       *)
LEMMA ByScoreSorts ==
    ASSUME NEW raw \in Lists
    PROVE  /\ Sorted(ByScore(raw))
           /\ \E n \in Nat : DOMAIN ByScore(raw) = 1..n
           /\ \A i \in DOMAIN ByScore(raw) : \E k \in Kept(raw) : ByScore(raw)[i] = raw[k]
           /\ \A k \in Kept(raw) : \E i \in DOMAIN ByScore(raw) : ByScore(raw)[i] = raw[k]
<1> DEFINE dets == ByScore(raw)
<1>1. dets \in Arrangements(raw) /\ Sorted(dets)
  BY SortedExists DEF ByScore
<1> HIDE DEF dets
<1>2. PICK p \in [1..Cardinality(Kept(raw)) -> Kept(raw)] :
        /\ \A k \in Kept(raw) : \E i \in DOMAIN p : p[i] = k
        /\ dets = [i \in DOMAIN p |-> raw[p[i]]]
  BY <1>1 DEF Arrangements
<1>3. Cardinality(Kept(raw)) \in Nat
  BY KeptAreScored, FS_Subset, FS_CardinalityType DEF Kept
<1>4. DOMAIN dets = DOMAIN p /\ DOMAIN dets = 1..Cardinality(Kept(raw))
  BY <1>2
<1>5. \A i \in DOMAIN dets : p[i] \in Kept(raw) /\ dets[i] = raw[p[i]]
  BY <1>2
<1>6. \A k \in Kept(raw) : \E i \in DOMAIN dets : dets[i] = raw[k]
  BY <1>2, <1>4, <1>5
<1> QED BY <1>1, <1>3, <1>4, <1>5, <1>6 DEF dets

(* A class has the highest of its scores.                                  *)
LEMMA LabelIsHighest ==
    ASSUME NEW raw \in Lists, NEW l \in DOMAIN Labels(ByScore(raw))
    PROVE  /\ \E k \in Kept(raw) : raw[k].label = l /\ Labels(ByScore(raw))[l] = raw[k].score
           /\ \A k \in Kept(raw) : raw[k].label = l => raw[k].score <= Labels(ByScore(raw))[l]
<1> DEFINE dets == ByScore(raw)
           having == {i \in DOMAIN dets : dets[i].label = l}
           isFirst(i) == dets[i].label = l /\ \A j \in 1..(i-1) : dets[j].label # l
<1>1. PICK n \in Nat : DOMAIN dets = 1..n
  BY ByScoreSorts
<1>2. having # {} /\ having \subseteq Nat
  BY <1>1 DEF Labels
<1>3. PICK f \in having : \A i \in having : f <= i
  <2> HIDE DEF having
  <2> QED BY <1>2, Least
<1> HIDE DEF dets
<1>4. f \in 1..n /\ dets[f].label = l
  BY <1>1, <1>3
<1>5. isFirst(f)
  <2>1. ASSUME NEW j \in 1..(f-1)
        PROVE  dets[j].label # l
    <3>1. j \in 1..n /\ ~ (f <= j)
      BY <1>4
    <3> QED BY <1>1, <1>3, <3>1
  <2> QED BY <1>4, <2>1
<1>6. \A i \in 1..n : isFirst(i) => i = f
  BY <1>1, <1>3, <1>4
<1>7. FirstOf(dets, l) = dets[f]
  <2>1. (CHOOSE i \in DOMAIN dets : isFirst(i)) = f
    <3> HIDE DEF isFirst
    <3> QED BY <1>1, <1>4, <1>5, <1>6
  <2> QED BY <2>1 DEF FirstOf
<1>8. Labels(dets)[l] = dets[f].score
  <2>1. l \in {dets[i].label : i \in DOMAIN dets}
    BY <1>1, <1>4
  <2> QED BY <1>7, <2>1 DEF Labels
<1>9. \E k \in Kept(raw) : dets[f] = raw[k]
  BY <1>1, <1>4, ByScoreSorts DEF dets
<1>10. ASSUME NEW k \in Kept(raw), raw[k].label = l
       PROVE  raw[k].score <= dets[f].score
  <2>1. PICK i \in 1..n : dets[i] = raw[k]
    BY <1>1, ByScoreSorts DEF dets
  <2>2. f <= i
    BY <1>1, <1>3, <1>10, <2>1
  <2>3. dets[f].score >= dets[i].score
    BY <1>1, <1>4, <2>2, ByScoreSorts DEF Sorted, dets
  <2>4. dets[f].score \in Nat /\ dets[i].score \in Nat
    BY <1>9, <2>1, KeptAreScored
  <2> QED BY <2>1, <2>3, <2>4
<1> QED BY <1>4, <1>8, <1>9, <1>10 DEF dets

(* The higher of the classes' scores is one of them. *)
LEMMA ExposedIsMax ==
    ASSUME NEW labels, \A l \in ExposedLabels \cap DOMAIN labels : labels[l] \in Nat
    PROVE  LET shown == {labels[l] : l \in ExposedLabels \cap DOMAIN labels}
           IN  IF shown = {} THEN ExposedScore(labels) = 0
               ELSE ExposedScore(labels) \in shown /\ \A s \in shown : s <= ExposedScore(labels)
<1> DEFINE shown == {labels[l] : l \in ExposedLabels \cap DOMAIN labels}
<1>1. CASE shown = {}
  BY <1>1 DEF ExposedScore
<1>2. CASE shown # {}
  <2>1. shown \subseteq Nat /\ shown \subseteq {labels["BUTTOCKS_EXPOSED"], labels["FEMALE_BREAST_EXPOSED"]}
    BY DEF ExposedLabels
  <2>2. \E s \in shown : \A other \in shown : s >= other
    <3> HIDE DEF shown
    <3>1. PICK s \in shown : TRUE
      BY <1>2
    <3>2. CASE \A other \in shown : s >= other
      BY <3>2
    <3>3. CASE \E other \in shown : ~ (s >= other)
      BY <2>1, <3>1, <3>3
    <3> QED BY <3>2, <3>3
  <2>3. ExposedScore(labels) = CHOOSE s \in shown : \A other \in shown : s >= other
    BY <1>2 DEF ExposedScore
  <2> HIDE DEF shown
  <2>4. ExposedScore(labels) \in shown /\ \A other \in shown : ExposedScore(labels) >= other
    BY <2>2, <2>3
  <2>5. \A s \in shown : s <= ExposedScore(labels)
    BY <2>1, <2>4
  <2>6. ExposedScore(labels) \in shown
    BY <2>4
  <2> QED BY <1>2, <2>5, <2>6 DEF shown
<1> QED BY <1>1, <1>2

-----------------------------------------------------------------------------
(* A SingGuard verdict, and the rules it was given with.                   *)

(* What became a verdict was SingGuard's answer, with one. *)
LEMMA Judgement ==
    ASSUME IInv, phase = "done", result.kind = "verdict"
    PROVE  /\ checker = "singguard" /\ answer \in SingGuardAnswers
           /\ answer.safe \in {"true", "false"}
           /\ result.safe = (answer.safe = "true")
           /\ result.rules = IF answer.safe = "true" THEN {} ELSE Fired(answer)
<1>1. answer \in Answers
      /\ result = IF checker = "nudenet" THEN NudityResult(answer) ELSE GuardResult(answer)
  BY ReadingKinds DEF IInv, Results
<1>2. checker = "singguard"
  BY <1>1, ReadingKinds DEF IInv, TypeOK
<1>3. answer \in SingGuardAnswers /\ result = GuardResult(answer)
  BY <1>1, <1>2 DEF Answers
<1>4. answer.safe \in {"true", "false"}
  BY <1>3, ReadingKinds DEF GuardResult, Verdict
<1>5. result = [kind |-> "verdict", safe |-> answer.safe = "true",
                rules |-> IF answer.safe = "true" THEN {} ELSE Fired(answer)]
  BY <1>3, <1>4 DEF GuardResult, Verdict
<1>6. result.safe = (answer.safe = "true")
  BY <1>5, Zenon
<1>7. result.rules = IF answer.safe = "true" THEN {} ELSE Fired(answer)
  BY <1>5, Zenon
<1> QED BY <1>2, <1>3, <1>4, <1>6, <1>7

(* Whatever can be read in an answer is a heading that applies, written in *)
(* one of the forms.                                                       *)
LEMMA ReadableIsMatching ==
    ASSUME NEW a \in SingGuardAnswers,
           NEW r \in Readable(a.categories) \cup Readable(a.rule)
    PROVE  \E m \in Matching, f \in Forms : r = [letter |-> m.letter, form |-> f]
<1>1. r.form \in Forms /\ (r \in a.categories \/ r \in a.rule)
  BY DEF Readable
<1>2. Junk.form \notin Forms
  BY DEF Junk, Forms
<1>3. \/ \E f \in Forms : r \in Written(Matching, f)
      \/ \E m \in Matching, f \in Forms : r \in Written({m}, f)
  BY <1>1, <1>2 DEF SingGuardAnswers
<1> QED BY <1>3 DEF Written

(* An answer calls safe what no heading applies to. *)
LEMMA SafeIsUnmatched ==
    ASSUME NEW a \in SingGuardAnswers, a.safe = "true"
    PROVE  Matching = {}
BY DEF SingGuardAnswers

LEMMA MatchingIs == Matching = {r \in Members(PolicyText(policy)) : r.topics \cap Judged # {}}
BY DEF Matching, Members

-----------------------------------------------------------------------------

(* The phases are known, and the loop of downscale never shrinks an image  *)
(* below _MIN_EDGE, nor one that was smaller (singguard.py downscale).     *)
THEOREM Typing == Spec => []TypeOK
<1>1. IInv => TypeOK
  BY DEF IInv
<1> QED BY <1>1, Invariance, PTL

(* What a downscaling client posts fits the server, at whatever edges the  *)
(* image would (singguard.py downscale).                                   *)
THEOREM Fitting == Spec => []SentFits
<1>1. IInv => SentFits
  BY DEF IInv
<1> QED BY <1>1, Invariance, PTL

(* Only an answer with a verdict is a verdict, and it keeps the rules that *)
(* can be read (singguard.py to_result).                                   *)
THEOREM NoFreePass == Spec => []NoVerdictNoPass
<1>1. ASSUME IInv, phase = "done", checker = "singguard", result.kind = "verdict"
      PROVE  /\ answer # None /\ answer.safe \in {"true", "false"}
             /\ result.safe <=> answer.safe = "true"
             /\ (~result.safe /\ Readable(answer.categories \cup answer.rule) # {})
                  => result.rules # {}
  <2>1. answer # None
    BY <1>1, Judgement DEF SingGuardAnswers, None
  <2>2. answer.safe \in {"true", "false"} /\ (result.safe <=> answer.safe = "true")
    BY <1>1, Judgement
  <2>3. ASSUME ~result.safe, Readable(answer.categories \cup answer.rule) # {}
        PROVE  result.rules # {}
    <3>1. result.rules = Fired(answer)
      BY <1>1, <2>2, <2>3, Judgement
    <3>2. Fired(answer) # {}
      BY <2>3 DEF Fired, Readable
    <3> QED BY <3>1, <3>2
  <2> QED BY <2>1, <2>2, <2>3
<1>2. IInv => NoVerdictNoPass
  BY <1>1 DEF NoVerdictNoPass
<1> QED BY <1>2, Invariance, PTL

(* Under every policy, a stage deletes only what shows illegal content,    *)
(* and all of it whose rules came with their letters (policies.py).        *)
THEOREM DeletingIllegal == Spec => []DeletedIffIllegal
<1>1. ASSUME IInv, Deleted
      PROVE  Judged \cap IllegalUnder(policy) # {}
  <2>1. PICK r \in result.rules : IsIllegal(policy, r)
    BY <1>1 DEF Deleted
  <2>2. answer \in SingGuardAnswers /\ r \in Fired(answer)
    BY <1>1, <2>1, Judgement DEF Deleted
  <2>3. r \in Readable(answer.categories) \cup Readable(answer.rule)
    BY <2>2 DEF Fired
  <2>4. PICK m \in Matching, f \in Forms : r = [letter |-> m.letter, form |-> f]
    BY <2>2, <2>3, ReadableIsMatching
  <2>5. m.letter \in IllegalRules(policy)
    BY <2>1, <2>4 DEF IsIllegal
  <2>6. m \in Members(PolicyText(policy)) /\ m.topics \cap Judged # {}
    BY <2>4, MatchingIs
  <2>7. m.topics \subseteq IllegalUnder(policy)
    BY <1>1, <2>5, <2>6, Lettering DEF IInv, TypeOK
  <2> QED BY <2>6, <2>7
<1>2. ASSUME IInv, phase = "done", result.kind = "verdict",
             Judged \cap IllegalUnder(policy) # {},
             NEW f \in Lettered, Written(Matching, f) \subseteq answer.categories
      PROVE  Deleted
  <2>1. PICK topic \in Judged : topic \in IllegalUnder(policy)
    BY <1>2
  <2>2. PICK r \in Members(PolicyText(policy)) :
          topic \in r.topics /\ r.letter \in IllegalRules(policy)
    BY <1>2, <2>1, Lettering DEF IInv, TypeOK
  <2>3. r \in Matching
    BY <2>1, <2>2, MatchingIs
  <2> DEFINE named == [letter |-> r.letter, form |-> f]
  <2>4. named \in answer.categories
    BY <1>2, <2>3 DEF Written
  <2>5. named \in Fired(answer)
    BY <2>4 DEF Fired, Readable, Lettered
  <2>6. answer.safe # "true"
    BY <1>2, <2>3, Judgement, SafeIsUnmatched
  <2>7. named \in result.rules
    BY <1>2, <2>5, <2>6, Judgement
  <2>8. IsIllegal(policy, named)
    BY <2>2 DEF IsIllegal
  <2> QED BY <1>2, <2>7, <2>8 DEF Deleted
<1>3. IInv => DeletedIffIllegal
  BY <1>1, <1>2 DEF DeletedIffIllegal
<1> QED BY <1>3, Invariance, PTL

(* The exposed score is the highest that can be read of an exposed class,  *)
(* for every order of the detections, every number of them and whatever    *)
(* else a server answers (nudenet.py to_result, exposed_score).            *)
THEOREM Exposing == Spec => []ExposureIsHighest
<1>1. ASSUME IInv, phase = "done", result.kind = "nsfw"
      PROVE  LET raw == answer.prediction[1]
                 exposing == {d \in {raw[i] : i \in DOMAIN raw} :
                                WellFormed(d) /\ d.label \in ExposedLabels}
             IN  /\ \A d \in exposing : d.score <= result.exposed
                 /\ result.exposed \in {0} \cup {d.score : d \in exposing}
  <2> DEFINE raw == answer.prediction[1]
             labels == Labels(ByScore(raw))
             exposing == {d \in {raw[i] : i \in DOMAIN raw} :
                            WellFormed(d) /\ d.label \in ExposedLabels}
             shown == {labels[l] : l \in ExposedLabels \cap DOMAIN labels}
  <2>1. answer \in NudeNetAnswers /\ result = NudityResult(answer)
    BY <1>1, ReadingKinds DEF IInv, Results, Answers
  <2>2. answer.success /\ Len(answer.prediction) = 1 /\ result = NsfwResult(raw)
    <3>1. result # Failed /\ result # OverflowError
      BY <1>1, ReadingKinds
    <3>2. answer.success /\ Len(answer.prediction) = 1
      BY <2>1, <3>1 DEF NudityResult
    <3> QED BY <2>1, <3>1, <3>2 DEF NudityResult
  <2>3. raw \in Lists
    <3>1. answer.prediction \in {<<l>> : l \in Lists}
      <4>1. answer.success = FALSE \/ answer.prediction \in {<<l>> : l \in Lists}
            \/ answer.prediction \in {<< >>, << << >>, << >> >>}
        BY <2>1 DEF NudeNetAnswers
      <4>2. Len(<< >>) = 0 /\ Len(<< << >>, << >> >>) = 2
        OBVIOUS
      <4> QED BY <2>2, <4>1, <4>2
    <3>2. \A l : <<l>>[1] = l
      OBVIOUS
    <3> QED BY <3>1, <3>2
  <2>4. result.exposed = ExposedScore(labels)
    BY <2>2 DEF NsfwResult
  <2> HIDE DEF raw
  <2>5. DOMAIN labels = {ByScore(raw)[i].label : i \in DOMAIN ByScore(raw)}
    BY DEF Labels
  <2>6. ASSUME NEW d \in exposing
        PROVE  d.label \in DOMAIN labels /\ d.score <= labels[d.label]
    <3>1. PICK k \in Kept(raw) : d = raw[k]
      BY DEF Kept
    <3>2. PICK i \in DOMAIN ByScore(raw) : ByScore(raw)[i] = d
      BY <2>3, <3>1, ByScoreSorts
    <3>3. d.label \in DOMAIN labels
      BY <2>5, <3>2
    <3> QED BY <2>3, <3>1, <3>3, LabelIsHighest
  <2>7. ASSUME NEW l \in ExposedLabels \cap DOMAIN labels
        PROVE  \E d \in exposing : labels[l] = d.score /\ d.score \in Nat
    <3>1. PICK k \in Kept(raw) : raw[k].label = l /\ labels[l] = raw[k].score
      BY <2>3, LabelIsHighest
    <3> QED BY <2>3, <3>1, KeptAreScored DEF Kept
  <2> HIDE DEF labels, exposing
  <2>8. IF shown = {} THEN ExposedScore(labels) = 0
        ELSE ExposedScore(labels) \in shown /\ \A s \in shown : s <= ExposedScore(labels)
    BY <2>7, ExposedIsMax
  <2>9. ASSUME NEW d \in exposing
        PROVE  d.score <= result.exposed
    <3>1. d.label \in ExposedLabels \cap DOMAIN labels
      BY <2>6 DEF exposing
    <3>2. labels[d.label] \in shown
      BY <3>1
    <3>3. labels[d.label] <= result.exposed /\ result.exposed \in shown
      BY <2>4, <2>8, <3>2
    <3>4. labels[d.label] \in Nat /\ result.exposed \in Nat /\ d.score \in Nat
      <4>1. d.score \in Nat
        BY <2>3, KeptAreScored DEF exposing, Kept
      <4> QED BY <2>7, <3>1, <3>3, <4>1
    <3> QED BY <2>6, <3>3, <3>4
  <2>10. result.exposed \in {0} \cup {d.score : d \in exposing}
    BY <2>4, <2>7, <2>8
  <2> QED BY <2>9, <2>10 DEF exposing, raw
<1>2. IInv => ExposureIsHighest
  BY <1>1 DEF ExposureIsHighest
<1> QED BY <1>2, Invariance, PTL
=============================================================================
