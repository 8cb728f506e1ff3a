--------------------------- MODULE XmpSidecarProofs ---------------------------
(***************************************************************************)
(* What a writer of a sidecar leaves under its name, for any number of     *)
(* writers, any documents and any data.                                    *)
(*                                                                         *)
(* A writer works on what it saw, and the history stale says whether that  *)
(* still is so; the invariant says what each step's findings have to do    *)
(* with the file as long as it is, and what the temporary file holds.      *)
(***************************************************************************)
EXTENDS XmpSidecar, WellFoundedInduction, TLAPS

Contents == {Absent, BadDoc, EmptyDoc} \cup Seq([Props -> Entry])

(* The steps after the sidecar was stat'ed, rendered and read.             *)
Statted == {"mkstemp", "tmp", "chmod", "rename"}
Rendered == Statted \cup {"stat"}
HasRead == Rendered \cup {"render"}
Looked == HasRead \cup {"read"}

(* The temporary file is there, and whole, where the steps say.            *)
TmpInv(w) ==
    /\ pc[w] \in {"start", "read", "render", "stat", "mkstemp", "done", "raised"} =>
         tmp[w] = Absent
    /\ pc[w] \in {"chmod", "rename"} => tmp[w] = "whole"

(* What is rendered is the merge of what was read, which was well-formed.  *)
DocInv(w) ==
    /\ pc[w] \in {"start", "read"} => read[w] = Absent
    /\ pc[w] \in Rendered =>
         read[w] # BadDoc /\ doc[w] = Merge(Old(read[w]), data[w]) /\ Whole(doc[w])

(* What was seen of the sidecar still is so, unless it changed since.      *)
Fresh(w) ==
    /\ pc[w] \in Looked => (exists[w] <=> file.doc # Absent)
    /\ pc[w] \in HasRead => read[w] = IF exists[w] /\ ~replace[w] THEN file.doc ELSE Absent
    /\ pc[w] \in Statted => mode[w] = IF file.doc = Absent THEN "0644" ELSE file.mode

WriterInv(w) == TmpInv(w) /\ DocInv(w) /\ (stale[w] \/ Fresh(w))

Domains ==
    /\ DOMAIN doc = Writers /\ DOMAIN read = Writers
    /\ \A w \in Writers : read[w] \in Contents
    /\ file.doc \in Contents /\ file.mode \in Modes \cup {"0644", Absent}

IInv == TypeOK /\ Domains /\ \A w \in Writers : WriterInv(w)

-----------------------------------------------------------------------------
(* Merging.                                                                *)

(* Every set of descriptions has a first one. *)
LEMMA Least ==
    ASSUME NEW S \in SUBSET Nat, S # {}
    PROVE  \E x \in S : \A y \in S : x <= y
<1> DEFINE less == {ss \in Nat \X Nat : ss[1] < ss[2]}
<1>1. IsWellFoundedOn(less, Nat)
  BY NatLessThanWellFounded DEF OpToRel
<1>2. ASSUME NEW x \in Nat, NEW y \in Nat, x < y
      PROVE  <<x, y>> \in less
  BY <1>2
<1> HIDE DEF less
<1>3. PICK x \in S : \A y \in S : ~ (<<y, x>> \in less)
  BY <1>1, WFMin
<1>4. ASSUME NEW y \in S
      PROVE  x <= y
  <2>1. x \in Nat /\ y \in Nat
    OBVIOUS
  <2>2. ~ (y < x)
    BY <1>2, <1>3, <2>1
  <2> QED BY <2>1, <2>2
<1> QED BY <1>4

LEMMA DocsAreContents ==
    ASSUME NEW d \in ToolDocs
    PROVE  d \in Contents
BY DocAssumption DEF Contents

LEMMA DataAreValues ==
    ASSUME NEW new \in Data, NEW p \in Fields, new[p] # Leave
    PROVE  new[p] \in Values
<1> DEFINE written == {{n[q] : q \in Fields} \ {Leave} : n \in Data}
<1>1. {new[q] : q \in Fields} \ {Leave} \in written
  OBVIOUS
<1>2. new[p] \in {new[q] : q \in Fields} \ {Leave}
  OBVIOUS
<1>3. new[p] \in UNION written
  BY <1>1, <1>2
<1> QED BY <1>3 DEF Values

LEMMA BlankIsWhole == Blank \in Seq([Props -> Entry]) /\ Len(Blank) = 1 /\ Blank # <<>>
<1>1. NoDescription \in [Props -> Entry]
  BY DEF NoDescription, Entry, Values
<1> QED BY <1>1 DEF Blank

(* A well-formed document, or none, is merged into one that has a          *)
(* description.                                                            *)
LEMMA OldIsWhole ==
    ASSUME NEW d \in Contents, d # BadDoc
    PROVE  Old(d) \in Seq([Props -> Entry]) /\ Len(Old(d)) > 0
BY BlankIsWhole DEF Old, Descriptions, Contents

LEMMA MergeIsWhole ==
    ASSUME NEW d \in Seq([Props -> Entry]), Len(d) > 0, NEW new \in Data
    PROVE  Whole(Merge(d, new)) /\ Merge(d, new) \in Seq([Props -> Entry])
<1> DEFINE merged(i) == [p \in Props |->
              IF p \notin Fields THEN d[i][p]
              ELSE IF new[p] = Leave THEN d[i][p]
              ELSE IF i = 1 THEN [Strip(d[i][p]) EXCEPT !.elem = new[p]]
              ELSE Strip(d[i][p])]
<1>1. ASSUME NEW i \in 1..Len(d)
      PROVE  merged(i) \in [Props -> Entry]
  <2>1. \A p \in Props : d[i][p] \in Entry
    BY <1>1
  <2>2. \A entry : Strip(entry) \in Entry
    BY DEF Strip, Entry, Values
  <2>3. ASSUME NEW p \in Fields, new[p] # Leave, NEW entry
        PROVE  [Strip(entry) EXCEPT !.elem = new[p]] \in Entry
    <3>1. new[p] \in Values /\ Absent \in Values
      BY <2>3, DataAreValues DEF Values
    <3>2. [Strip(entry) EXCEPT !.elem = new[p]] = [attr |-> Absent, elem |-> new[p]]
      BY DEF Strip
    <3> QED BY <3>1, <3>2 DEF Entry
  <2> QED BY <2>1, <2>2, <2>3
<1>2. Merge(d, new) = [i \in 1..Len(d) |-> merged(i)]
  BY DEF Merge
<1> HIDE DEF merged
<1>3. Merge(d, new) \in [1..Len(d) -> [Props -> Entry]] /\ Len(d) \in Nat
  BY <1>1, <1>2
<1>4. Merge(d, new) \in Seq([Props -> Entry]) /\ Len(Merge(d, new)) = Len(d)
  BY <1>3
<1> QED BY <1>3, <1>4 DEF Whole

(* The merge is what the data make of the document.                        *)
LEMMA MergeIsMerged ==
    ASSUME NEW d \in Seq([Props -> Entry]), Len(d) > 0, NEW new \in Data
    PROVE  Merged(d, new, Merge(d, new))
<1> DEFINE m == Merge(d, new)
<1>1. DOMAIN d = 1..Len(d) /\ Len(d) \in Nat /\ 1 \in DOMAIN d /\ DOMAIN m = DOMAIN d
  BY DEF Merge
<1>2. ASSUME NEW i \in DOMAIN d, NEW p \in Foreign
      PROVE  m[i][p] = d[i][p]
  BY <1>1, NameAssumption DEF Merge, Props
<1>3. ASSUME NEW p \in Fields, new[p] = Leave
      PROVE  Value(m, p) = Value(d, p)
  <2>1. \A i \in DOMAIN d : m[i][p] = d[i][p]
    BY <1>1, <1>3 DEF Merge, Props
  <2> HIDE DEF m
  <2>2. Having(m, p) = Having(d, p)
    BY <1>1, <2>1 DEF Having
  <2>3. Having(d, p) # {} => First(Having(d, p)) \in DOMAIN d
    <3>1. Having(d, p) \in SUBSET Nat /\ Having(d, p) \in SUBSET DOMAIN d
      BY <1>1 DEF Having
    <3>2. Having(d, p) # {} => \E k \in Having(d, p) : \A j \in Having(d, p) : k <= j
      BY <3>1, Least
    <3> QED BY <3>1, <3>2 DEF First
  <2> QED BY <2>1, <2>2, <2>3 DEF Value
<1>4. ASSUME NEW p \in Fields, new[p] # Leave
      PROVE  Value(m, p) = new[p]
  <2>1. /\ m[1][p] = [attr |-> Absent, elem |-> new[p]]
        /\ \A i \in DOMAIN d : i # 1 => m[i][p] = [attr |-> Absent, elem |-> Absent]
    BY <1>1, <1>4 DEF Merge, Props, Strip
  <2> HIDE DEF m
  <2>2. CASE new[p] = Absent
    <3>1. Having(m, p) = {}
      BY <1>1, <2>1, <2>2 DEF Having
    <3> QED BY <2>2, <3>1 DEF Value
  <2>3. CASE new[p] # Absent
    <3>1. Having(m, p) = {1}
      BY <1>1, <2>1, <2>3 DEF Having
    <3>2. First(Having(m, p)) = 1
      BY <3>1 DEF First
    <3> QED BY <2>1, <2>3, <3>1, <3>2 DEF Value
  <2> QED BY <2>2, <2>3
<1> QED BY <1>2, <1>3, <1>4 DEF Merged


-----------------------------------------------------------------------------
(* The steps.                                                              *)

LEMMA InitIInv == Init => IInv
<1> SUFFICES ASSUME Init PROVE IInv
  OBVIOUS
<1>1. PICK d \in ToolDocs, m \in Modes : file \in {NoFile, [doc |-> d, mode |-> m]}
  BY DEF Init
<1>2. /\ DOMAIN file = {"doc", "mode"} /\ file.doc \in Contents
      /\ file.mode \in Modes \cup {"0644", Absent}
  BY <1>1, DocsAreContents DEF NoFile, Contents
<1>3. TypeOK
  BY <1>2 DEF Init, TypeOK
<1>4. Domains
  BY <1>2 DEF Init, Domains, Contents
<1>5. \A w \in Writers : WriterInv(w)
  BY DEF Init, WriterInv, TmpInv, DocInv, Fresh, Statted, Rendered, HasRead, Looked
<1> QED BY <1>3, <1>4, <1>5 DEF IInv

(* A step of a writer, or a tool's, changes nothing for another writer;    *)
(* unless what that one saw is no longer so, of which the next lemma.      *)
LEMMA OthersKeep ==
    ASSUME NEW x, WriterInv(x),
           pc'[x] = pc[x], data'[x] = data[x], replace'[x] = replace[x],
           exists'[x] = exists[x], read'[x] = read[x], doc'[x] = doc[x],
           mode'[x] = mode[x], tmp'[x] = tmp[x],
           file' = file, stale'[x] = stale[x]
    PROVE  WriterInv(x)'
BY DEF WriterInv, TmpInv, DocInv, Fresh

LEMMA NoMoreFresh ==
    ASSUME NEW x, WriterInv(x),
           pc'[x] = pc[x], data'[x] = data[x], replace'[x] = replace[x],
           exists'[x] = exists[x], read'[x] = read[x], doc'[x] = doc[x],
           mode'[x] = mode[x], tmp'[x] = tmp[x], stale'[x]
    PROVE  WriterInv(x)'
BY DEF WriterInv, TmpInv, DocInv, Fresh

(* The steps of writer w other than the renaming.                          *)
Working(w) ==
    \/ LookForSidecar(w) \/ Gone(w) \/ ReadSidecar(w) \/ RenderBad(w) \/ Render(w) \/ Stat(w)
    \/ MakeTmp(w) \/ WriteTmp(w) \/ ChmodTmp(w) \/ Fail(w) \/ Crash(w)

LEMMA WorkingTypes ==
    ASSUME IInv, NEW w \in Writers, Working(w)
    PROVE  TypeOK' /\ Domains'
<1> USE DEF IInv
<1>1. UNCHANGED <<file, data, replace>>
  BY DEF Working, LookForSidecar, Gone, ReadSidecar, RenderBad, Render, Stat, MakeTmp, WriteTmp,
         ChmodTmp, Fail, Crash
<1>2. pc' \in [Writers -> {"start", "read", "render", "stat", "mkstemp", "tmp", "chmod",
                           "rename", "done", "raised", "crashed"}]
  BY DEF TypeOK, Working, Step, LookForSidecar, Gone, ReadSidecar, RenderBad, Render, Stat,
         MakeTmp, WriteTmp, ChmodTmp, Fail, Crash
<1>3. exists' \in [Writers -> BOOLEAN] /\ stale' \in [Writers -> BOOLEAN]
  BY DEF TypeOK, Working, LookForSidecar, Gone, ReadSidecar, RenderBad, Render, Stat,
         MakeTmp, WriteTmp, ChmodTmp, Fail, Crash
<1>4. mode' \in [Writers -> Modes \cup {"0644", Absent}]
  BY DEF TypeOK, Domains, ModeOf, Working, LookForSidecar, Gone, ReadSidecar, RenderBad, Render,
         Stat, MakeTmp, WriteTmp, ChmodTmp, Fail, Crash
<1>5. tmp' \in [Writers -> {Absent, "partial", "whole"}]
  BY DEF TypeOK, Working, LookForSidecar, Gone, ReadSidecar, RenderBad, Render, Stat,
         MakeTmp, WriteTmp, ChmodTmp, Fail, Crash
<1>6. DOMAIN read' = Writers /\ \A x \in Writers : read'[x] \in Contents
  BY DEF Domains, Working, LookForSidecar, Gone, ReadSidecar, RenderBad, Render, Stat,
         MakeTmp, WriteTmp, ChmodTmp, Fail, Crash
<1>7. DOMAIN doc' = Writers /\ \A x \in Writers : doc'[x] = Absent \/ Whole(doc'[x])
  <2>1. CASE Render(w)
    <3>1. Whole(Merge(Old(read[w]), data[w]))
      BY <2>1, OldIsWhole, MergeIsWhole DEF Render, Domains, TypeOK
    <3>2. doc' = [doc EXCEPT ![w] = Merge(Old(read[w]), data[w])]
      BY <2>1 DEF Render
    <3> HIDE DEF IInv
    <3>3. DOMAIN doc = Writers /\ \A x \in Writers : doc[x] = Absent \/ Whole(doc[x])
      BY DEF IInv, Domains, TypeOK
    <3> QED BY <3>1, <3>2, <3>3
  <2>2. CASE ~Render(w)
    <3>1. UNCHANGED doc
      BY <2>2 DEF Working, LookForSidecar, Gone, ReadSidecar, RenderBad, Stat,
         MakeTmp, WriteTmp, ChmodTmp, Fail, Crash
    <3> QED BY <3>1 DEF Domains, TypeOK, Whole
  <2> QED BY <2>1, <2>2
<1>8. TypeOK'
  BY <1>1, <1>2, <1>3, <1>4, <1>5, <1>7 DEF TypeOK
<1>9. Domains'
  BY <1>1, <1>6, <1>7 DEF Domains
<1> QED BY <1>8, <1>9

LEMMA WorkingStep ==
    ASSUME IInv, NEW w \in Writers, Working(w)
    PROVE  \A x \in Writers : WriterInv(x)'
<1>1. ASSUME NEW x \in Writers \ {w}
      PROVE  WriterInv(x)'
  <2>1. /\ pc'[x] = pc[x] /\ data'[x] = data[x] /\ replace'[x] = replace[x]
        /\ exists'[x] = exists[x] /\ read'[x] = read[x] /\ doc'[x] = doc[x]
        /\ mode'[x] = mode[x] /\ tmp'[x] = tmp[x] /\ file' = file /\ stale'[x] = stale[x]
    BY DEF IInv, TypeOK, Domains, Step, Working, LookForSidecar, Gone, ReadSidecar, RenderBad,
           Render, Stat, MakeTmp, WriteTmp, ChmodTmp, Fail, Crash
  <2> QED BY <2>1, OthersKeep DEF IInv
<1>2. WriterInv(w)'
  <2> USE DEF IInv, TypeOK, Domains, Step, TmpInv, DocInv, Fresh, WriterInv,
              Statted, Rendered, HasRead, Looked
  <2>1. CASE LookForSidecar(w)
    BY <2>1 DEF LookForSidecar
  <2>2. CASE Gone(w)
    BY <2>2 DEF Gone
  <2>3. CASE ReadSidecar(w)
    BY <2>3 DEF ReadSidecar
  <2>4. CASE RenderBad(w)
    BY <2>4 DEF RenderBad
  <2>5. CASE Render(w)
    <3>1. Whole(Merge(Old(read[w]), data[w]))
      BY <2>5, OldIsWhole, MergeIsWhole DEF Render
    <3> QED BY <2>5, <3>1 DEF Render
  <2>6. CASE Stat(w)
    BY <2>6 DEF Stat, ModeOf
  <2>7. CASE MakeTmp(w)
    BY <2>7 DEF MakeTmp
  <2>8. CASE WriteTmp(w)
    BY <2>8 DEF WriteTmp
  <2>9. CASE ChmodTmp(w)
    BY <2>9 DEF ChmodTmp
  <2>10. CASE Fail(w)
    BY <2>10 DEF Fail
  <2>11. CASE Crash(w)
    BY <2>11 DEF Crash
  <2> QED BY <2>1, <2>2, <2>3, <2>4, <2>5, <2>6, <2>7, <2>8, <2>9, <2>10, <2>11 DEF Working
<1> QED BY <1>1, <1>2


LEMMA RenameStep ==
    ASSUME IInv, NEW w \in Writers, Rename(w)
    PROVE  IInv' /\ file' = [doc |-> doc[w], mode |-> mode[w]]
<1> USE DEF IInv
<1>1. /\ pc[w] = "rename" /\ pc' = [pc EXCEPT ![w] = "done"]
      /\ tmp' = [tmp EXCEPT ![w] = Absent] /\ stale' = [x \in Writers |-> x # w \/ stale[x]]
      /\ UNCHANGED <<data, replace, exists, read, doc, mode>>
  BY DEF Rename, Step
<1>2. tmp[w] = "whole" /\ Whole(doc[w]) /\ doc[w] \in Seq([Props -> Entry])
  <2>1. WriterInv(w)
    OBVIOUS
  <2>2. /\ tmp[w] = "whole" /\ Whole(doc[w]) /\ read[w] # BadDoc
        /\ doc[w] = Merge(Old(read[w]), data[w])
    BY <1>1, <2>1 DEF WriterInv, TmpInv, DocInv, Rendered, Statted
  <2>3. read[w] \in Contents /\ data[w] \in Data
    BY DEF Domains, TypeOK
  <2>4. Old(read[w]) \in Seq([Props -> Entry]) /\ Len(Old(read[w])) > 0
    BY <2>2, <2>3, OldIsWhole
  <2> QED BY <2>2, <2>3, <2>4, MergeIsWhole
<1>3. file' = [doc |-> doc[w], mode |-> mode[w]]
  BY <1>2 DEF Rename
<1>4. DOMAIN file' = {"doc", "mode"} /\ file'.doc \in Contents
      /\ file'.mode \in Modes \cup {"0644", Absent}
  BY <1>2, <1>3 DEF TypeOK, Contents
<1>5. TypeOK'
  BY <1>1, <1>4 DEF TypeOK, Whole
<1>6. Domains'
  BY <1>1, <1>4 DEF Domains
<1>7. ASSUME NEW x \in Writers
      PROVE  WriterInv(x)'
  <2>1. CASE x = w
    BY <1>1, <2>1 DEF TypeOK, WriterInv, TmpInv, DocInv, Fresh, Looked, HasRead, Rendered, Statted
  <2>2. CASE x # w
    <3>1. /\ pc'[x] = pc[x] /\ data'[x] = data[x] /\ replace'[x] = replace[x]
          /\ exists'[x] = exists[x] /\ read'[x] = read[x] /\ doc'[x] = doc[x]
          /\ mode'[x] = mode[x] /\ tmp'[x] = tmp[x] /\ stale'[x]
      BY <1>1, <2>2 DEF TypeOK
    <3>2. WriterInv(x)
      OBVIOUS
    <3> QED BY <3>1, <3>2, NoMoreFresh
  <2> QED BY <2>1, <2>2
<1> QED BY <1>3, <1>5, <1>6, <1>7

LEMMA ToolStep ==
    ASSUME IInv, Tool
    PROVE  IInv'
<1> USE DEF IInv
<1>1. /\ stale' = [w \in Writers |-> TRUE]
      /\ UNCHANGED <<pc, data, replace, exists, read, doc, mode, tmp>>
  BY DEF Tool
<1>2. PICK d \in ToolDocs, m \in Modes : file' \in {NoFile, [doc |-> d, mode |-> m]}
  BY DEF Tool
<1>3. /\ DOMAIN file' = {"doc", "mode"} /\ file'.doc \in Contents
      /\ file'.mode \in Modes \cup {"0644", Absent}
  BY <1>2, DocsAreContents DEF NoFile, Contents
<1>4. TypeOK'
  BY <1>1, <1>3 DEF TypeOK, Whole
<1>5. Domains'
  BY <1>1, <1>3 DEF Domains
<1>6. ASSUME NEW w \in Writers
      PROVE  WriterInv(w)'
  <2>1. /\ pc'[w] = pc[w] /\ data'[w] = data[w] /\ replace'[w] = replace[w]
        /\ exists'[w] = exists[w] /\ read'[w] = read[w] /\ doc'[w] = doc[w]
        /\ mode'[w] = mode[w] /\ tmp'[w] = tmp[w] /\ stale'[w]
    BY <1>1
  <2>2. WriterInv(w)
    OBVIOUS
  <2> QED BY <2>1, <2>2, NoMoreFresh
<1> QED BY <1>4, <1>5, <1>6

(* The steps by who takes them. *)
LEMMA Steps ==
    Next => Tool \/ \E w \in Writers : Working(w) \/ Rename(w)
BY DEF Next, Write, Working

LEMMA Inductive == IInv /\ [Next]_vars => IInv'
<1> SUFFICES ASSUME IInv, [Next]_vars PROVE IInv'
  OBVIOUS
<1>1. CASE Tool
  BY <1>1, ToolStep
<1>2. ASSUME NEW w \in Writers, Working(w)
      PROVE  IInv'
  BY <1>2, WorkingTypes, WorkingStep DEF IInv
<1>3. ASSUME NEW w \in Writers, Rename(w)
      PROVE  IInv'
  BY <1>3, RenameStep
<1>4. CASE UNCHANGED vars
  BY <1>4 DEF vars, IInv, TypeOK, Whole, Domains, WriterInv, TmpInv, DocInv, Fresh
<1> QED BY <1>1, <1>2, <1>3, <1>4, Steps

LEMMA Invariance == Spec => []IInv
BY InitIInv, Inductive, PTL DEF Spec

-----------------------------------------------------------------------------
(* The theorems.                                                           *)

(* What is rendered is a document with a description, and every variable   *)
(* stays within its type.                                                  *)
THEOREM Typing == Spec => []TypeOK
<1>1. IInv => TypeOK
  BY DEF IInv
<1> QED BY <1>1, Invariance, PTL

(* No writer's step, however many there are and wherever they die, puts    *)
(* anything but the whole document it rendered under the sidecar's name,   *)
(* and a call that ends leaves no temporary file.                          *)
THEOREM Wholeness == Spec => WholeOrNothing
<1>1. ASSUME IInv, IInv', [Next]_vars
      PROVE  [/\ (\E w \in Writers : pc'[w] # pc[w]) /\ file' # file
                   => \E w \in Writers : file'.doc = doc[w]
              /\ \A w \in Writers : pc'[w] \in {"done", "raised"} => tmp'[w] = Absent]_vars
  <2>1. \A w \in Writers : pc'[w] \in {"done", "raised"} => tmp'[w] = Absent
    BY <1>1 DEF IInv, WriterInv, TmpInv
  <2>2. ASSUME (\E w \in Writers : pc'[w] # pc[w]) /\ file' # file
        PROVE  \E w \in Writers : file'.doc = doc[w]
    <3>1. CASE Tool
      BY <2>2, <3>1 DEF Tool
    <3>2. ASSUME NEW w \in Writers, Working(w)
          PROVE  FALSE
      BY <2>2, <3>2 DEF Working, LookForSidecar, Gone, ReadSidecar, RenderBad, Render, Stat,
                        MakeTmp, WriteTmp, ChmodTmp, Fail, Crash
    <3>3. ASSUME NEW w \in Writers, Rename(w)
          PROVE  file'.doc = doc[w]
      BY <1>1, <3>3, RenameStep
    <3>4. Next
      BY <1>1, <2>2 DEF vars
    <3> QED BY <3>1, <3>2, <3>3, <3>4, Steps
  <2> QED BY <2>1, <2>2
<1> QED BY <1>1, Invariance, PTL DEF Spec, WholeOrNothing

(* A write nobody came between, whatever the old document and the data,    *)
(* leaves their merge.                                                     *)
THEOREM Merging == Spec => MergesIntoCurrent
<1>1. ASSUME IInv, NEW w \in Writers, Rename(w), ~stale[w]
      PROVE  Merged(IF replace[w] \/ file.doc \in {Absent, EmptyDoc} THEN Blank ELSE file.doc,
                    data[w], file'.doc)
  <2>1. pc[w] = "rename" /\ data[w] \in Data /\ WriterInv(w) /\ read[w] \in Contents
    BY <1>1 DEF Rename, Step, IInv, TypeOK, Domains
  <2>2. /\ read[w] # BadDoc /\ file'.doc = Merge(Old(read[w]), data[w])
        /\ read[w] = IF file.doc # Absent /\ ~replace[w] THEN file.doc ELSE Absent
    BY <1>1, <2>1, RenameStep
       DEF WriterInv, DocInv, Fresh, Looked, HasRead, Rendered, Statted
  <2>3. Merged(Old(read[w]), data[w], file'.doc)
    BY <2>1, <2>2, OldIsWhole, MergeIsMerged
  <2>4. CASE replace[w] \/ file.doc \in {Absent, EmptyDoc}
    BY <2>2, <2>3, <2>4 DEF Old
  <2>5. CASE ~(replace[w] \/ file.doc \in {Absent, EmptyDoc}) /\ file.doc # <<>>
    BY <2>2, <2>3, <2>5 DEF Old, Descriptions
  <2>6. CASE ~(replace[w] \/ file.doc \in {Absent, EmptyDoc}) /\ file.doc = <<>>
    <3>1. Merged(Blank, data[w], file'.doc)
      BY <2>2, <2>3, <2>6 DEF Old, Descriptions
    <3>2. \A p : Value(<<>>, p) = Absent
      BY DEF Value, Having
    <3>3. ASSUME NEW p \in Fields
          PROVE  Value(Blank, p) = Absent
      <4>1. Having(Blank, p) = {}
        BY DEF Having, Blank, NoDescription, Props
      <4> QED BY <4>1 DEF Value
    <3>4. Merged(<<>>, data[w], file'.doc)
      BY <3>1, <3>2, <3>3 DEF Merged
    <3> QED BY <2>6, <3>4
  <2> QED BY <2>4, <2>5, <2>6
<1>2. IInv /\ [Next]_vars =>
        [\A w \in Writers : Rename(w) /\ ~stale[w] =>
           Merged(IF replace[w] \/ file.doc \in {Absent, EmptyDoc} THEN Blank ELSE file.doc,
                  data[w], file'.doc)]_vars
  BY <1>1
<1> QED BY <1>2, Invariance, PTL DEF Spec, MergesIntoCurrent

(* A malformed sidecar is only written over on request, or unseen. *)
THEOREM Keeping == Spec => MalformedIsKept
<1>1. ASSUME IInv, NEW w \in Writers, Rename(w), file.doc = BadDoc
      PROVE  replace[w] \/ stale[w]
  <2>1. pc[w] = "rename" /\ WriterInv(w)
    BY <1>1 DEF Rename, Step, IInv
  <2> QED BY <1>1, <2>1, NameAssumption
          DEF WriterInv, DocInv, Fresh, Looked, HasRead, Rendered, Statted
<1>2. IInv /\ [Next]_vars =>
        [\A w \in Writers : Rename(w) /\ file.doc = BadDoc => replace[w] \/ stale[w]]_vars
  BY <1>1
<1> QED BY <1>2, Invariance, PTL DEF Spec, MalformedIsKept

(* The mode of an undisturbed sidecar, or the default, is that of the new  *)
(* one.                                                                    *)
THEOREM Permitting == Spec => ModeIsKept
<1>1. ASSUME IInv, NEW w \in Writers, Rename(w), ~stale[w]
      PROVE  file'.mode = IF file.doc = Absent THEN "0644" ELSE file.mode
  <2>1. pc[w] = "rename" /\ WriterInv(w)
    BY <1>1 DEF Rename, Step, IInv
  <2>2. file'.mode = mode[w]
    BY <1>1, RenameStep
  <2> QED BY <1>1, <2>1, <2>2 DEF WriterInv, Fresh, Statted
<1>2. IInv /\ [Next]_vars =>
        [\A w \in Writers : Rename(w) /\ ~stale[w] =>
           file'.mode = IF file.doc = Absent THEN "0644" ELSE file.mode]_vars
  BY <1>1
<1> QED BY <1>2, Invariance, PTL DEF Spec, ModeIsKept
=============================================================================
