------------------------------ MODULE XmpSidecar ------------------------------
(***************************************************************************)
(* write_xmp and merge_xmp (src/argus_cortex/xmp.py): stages that merge    *)
(* their fields into one image's sidecar, each reading it, merging in      *)
(* memory and renaming a temporary file over it, with no lock; processes   *)
(* that die between any two of these steps; and a photo tool or a user     *)
(* that rewrites or removes the sidecar meanwhile.                         *)
(*                                                                         *)
(* A document is a sequence of rdf:Descriptions; a description gives each  *)
(* property in attribute form, in element form, in both or in neither.     *)
(* XML itself, and the text of a value, are not modelled.                  *)
(***************************************************************************)
EXTENDS Naturals, Sequences, FiniteSets

CONSTANTS
    Writers,
    Fields,       \* the properties of XmpData
    Foreign,      \* properties only other tools write
    Data,         \* what writers write: functions from Fields, see Merge
    ToolDocs,     \* documents, or BadDoc, found at first or written by a tool
    Modes,        \* file modes
    Absent,       \* no value, no file
    Leave,        \* None in XmpData: the property is left alone
    BadDoc,       \* a sidecar that does not parse
    EmptyDoc      \* a file of no bytes: merge_xmp starts afresh on it

Props == Fields \cup Foreign
Values == {Absent} \cup (UNION {{new[p] : p \in Fields} \ {Leave} : new \in Data})
                  \cup (UNION {{d[i][p].attr : i \in DOMAIN d, p \in Props} \cup
                               {d[i][p].elem : i \in DOMAIN d, p \in Props} :
                               d \in ToolDocs \ {BadDoc, EmptyDoc}})
Entry == [attr : Values, elem : Values]
ASSUME DocAssumption == ToolDocs \ {BadDoc, EmptyDoc} \subseteq Seq([Props -> Entry])
ASSUME NameAssumption == Fields \cap Foreign = {} /\ Absent \notin {BadDoc, EmptyDoc}

VARIABLES
    file,      \* [doc, mode] of the sidecar, doc = Absent without one
    pc,        \* where each writer is
    data,      \* what it writes
    replace,   \* its replace argument
    exists,    \* sidecar.exists() as it saw it
    read,      \* the bytes it read, Absent if it did not
    doc,       \* the document it rendered
    mode,      \* the mode it will set
    tmp,       \* its temporary file: Absent, "partial" or "whole"
    stale      \* history: the sidecar has changed since it looked

vars == <<file, pc, data, replace, exists, read, doc, mode, tmp, stale>>

NoFile == [doc |-> Absent, mode |-> Absent]
NoDescription == [p \in Props |-> [attr |-> Absent, elem |-> Absent]]
Blank == <<NoDescription>>      \* _fresh()

(* What parse_xmp finds of property p: the first description that has it   *)
(* tells, by its attribute if it has both forms.                           *)
Having(d, p) == {i \in DOMAIN d : d[i][p] # [attr |-> Absent, elem |-> Absent]}
First(having) == CHOOSE i \in having : \A j \in having : i <= j
Value(d, p) ==
    IF Having(d, p) = {} THEN Absent
    ELSE LET entry == d[First(Having(d, p))][p]
         IN  IF entry.attr # Absent THEN entry.attr ELSE entry.elem

-----------------------------------------------------------------------------
(* Slips one could make in this code.  The specification does not use      *)
(* them; the properties must tell each from what the code does.            *)

\* A document without a description is merged into as it is.
DescriptionsNone(d) == d

\* Only the element form is taken out of the old document.
StripElements(entry) == [entry EXCEPT !.elem = Absent]

\* The sidecar is opened and written in place.
WriteInPlace(w) ==
    /\ pc[w] = "tmp"
    /\ file' = [file EXCEPT !.doc = BadDoc]
    /\ tmp' = [tmp EXCEPT ![w] = "whole"]
    /\ pc' = [pc EXCEPT ![w] = "chmod"]
    /\ stale' = [x \in Writers |-> x # w]
    /\ UNCHANGED <<data, replace, exists, read, doc, mode>>

\* No clean-up on the way out of an exception.
FailKeepsTmp(w) ==
    /\ pc[w] \in {"mkstemp", "tmp", "chmod", "rename"}
    /\ pc' = [pc EXCEPT ![w] = "raised"]
    /\ UNCHANGED <<file, data, replace, exists, read, doc, mode, tmp, stale>>

\* An unreadable sidecar counts as none.
RenderBadAsFresh(w) ==
    /\ pc[w] = "render"
    /\ doc' = [doc EXCEPT ![w] = Blank]
    /\ pc' = [pc EXCEPT ![w] = "stat"]
    /\ UNCHANGED <<file, data, replace, exists, read, mode, tmp, stale>>

\* mkstemp's 0600 is left as it is.
ModeOf0600(w) == Absent

-----------------------------------------------------------------------------

(* merge_xmp: a property that data sets goes from wherever it stands, in   *)
(* either form; unless it is being removed it is appended, as an element,  *)
(* to the first description.                                               *)
Strip(entry) == [attr |-> Absent, elem |-> Absent]
Merge(d, new) ==
    [i \in DOMAIN d |-> [p \in Props |->
        IF p \notin Fields THEN d[i][p]
        ELSE IF new[p] = Leave THEN d[i][p]
        ELSE IF i = 1 THEN [Strip(d[i][p]) EXCEPT !.elem = new[p]]
        ELSE Strip(d[i][p])]]

(* _descriptions: a document without any is given one. *)
Descriptions(d) == IF d = <<>> THEN Blank ELSE d

Step(w, from, to) == pc[w] = from /\ pc' = [pc EXCEPT ![w] = to]

Init ==
    /\ \E d \in ToolDocs, m \in Modes : file \in {NoFile, [doc |-> d, mode |-> m]}
    /\ pc = [w \in Writers |-> "start"]
    /\ data \in [Writers -> Data]
    /\ replace \in [Writers -> BOOLEAN]
    /\ exists = [w \in Writers |-> FALSE]
    /\ read = [w \in Writers |-> Absent] /\ doc = [w \in Writers |-> Absent]
    /\ mode = [w \in Writers |-> Absent] /\ tmp = [w \in Writers |-> Absent]
    /\ stale = [w \in Writers |-> FALSE]

(* sidecar.exists() *)
LookForSidecar(w) ==
    /\ Step(w, "start", "read")
    /\ exists' = [exists EXCEPT ![w] = file.doc # Absent]
    /\ stale' = [stale EXCEPT ![w] = FALSE]
    /\ UNCHANGED <<file, data, replace, read, doc, mode, tmp>>

(* The sidecar it saw is gone: FileNotFoundError. *)
Gone(w) ==
    /\ exists[w] /\ file.doc = Absent
    /\ pc[w] \in {"read", "stat"} /\ (pc[w] = "read" => ~replace[w])
    /\ pc' = [pc EXCEPT ![w] = "raised"]
    /\ UNCHANGED <<file, data, replace, exists, read, doc, mode, tmp, stale>>

ReadSidecar(w) ==
    /\ Step(w, "read", "render")
    /\ IF exists[w] /\ ~replace[w]
         THEN file.doc # Absent /\ read' = [read EXCEPT ![w] = file.doc]
         ELSE UNCHANGED read
    /\ UNCHANGED <<file, data, replace, exists, doc, mode, tmp, stale>>

(* Parse and merge; a document that does not parse is an XmpError. *)
RenderBad(w) ==
    /\ read[w] = BadDoc
    /\ Step(w, "render", "raised")
    /\ UNCHANGED <<file, data, replace, exists, read, doc, mode, tmp, stale>>

Old(d) == IF d \in {Absent, EmptyDoc} THEN Blank ELSE Descriptions(d)
Render(w) ==
    /\ read[w] # BadDoc
    /\ Step(w, "render", "stat")
    /\ doc' = [doc EXCEPT ![w] = Merge(Old(read[w]), data[w])]
    /\ UNCHANGED <<file, data, replace, exists, read, mode, tmp, stale>>

(* The old sidecar's mode, or the default. *)
ModeOf(w) == IF exists[w] THEN file.mode ELSE "0644"

Stat(w) ==
    /\ exists[w] => file.doc # Absent
    /\ Step(w, "stat", "mkstemp")
    /\ mode' = [mode EXCEPT ![w] = ModeOf(w)]
    /\ UNCHANGED <<file, data, replace, exists, read, doc, tmp, stale>>

MakeTmp(w) ==
    /\ Step(w, "mkstemp", "tmp")
    /\ tmp' = [tmp EXCEPT ![w] = "partial"]
    /\ UNCHANGED <<file, data, replace, exists, read, doc, mode, stale>>

WriteTmp(w) ==
    /\ Step(w, "tmp", "chmod")
    /\ tmp' = [tmp EXCEPT ![w] = "whole"]
    /\ UNCHANGED <<file, data, replace, exists, read, doc, mode, stale>>

ChmodTmp(w) ==
    /\ Step(w, "chmod", "rename")
    /\ UNCHANGED <<file, data, replace, exists, read, doc, mode, tmp, stale>>

(* os.replace *)
Rename(w) ==
    /\ Step(w, "rename", "done")
    /\ file' = [doc |-> IF tmp[w] = "whole" THEN doc[w] ELSE BadDoc, mode |-> mode[w]]
    /\ tmp' = [tmp EXCEPT ![w] = Absent]
    /\ stale' = [x \in Writers |-> x # w \/ stale[w]]
    /\ UNCHANGED <<data, replace, exists, read, doc, mode>>

(* Making the temporary file raises, or a step on it does: it is unlinked. *)
Fail(w) ==
    /\ pc[w] \in {"mkstemp", "tmp", "chmod", "rename"}
    /\ pc' = [pc EXCEPT ![w] = "raised"]
    /\ tmp' = [tmp EXCEPT ![w] = Absent]
    /\ UNCHANGED <<file, data, replace, exists, read, doc, mode, stale>>

(* The writer's process dies. *)
Crash(w) ==
    /\ pc[w] \notin {"done", "raised", "crashed"}
    /\ pc' = [pc EXCEPT ![w] = "crashed"]
    /\ UNCHANGED <<file, data, replace, exists, read, doc, mode, tmp, stale>>

(* A photo tool or a user rewrites the sidecar, or removes it. *)
Tool ==
    /\ \E d \in ToolDocs, m \in Modes : file' \in {NoFile, [doc |-> d, mode |-> m]} \ {file}
    /\ stale' = [w \in Writers |-> TRUE]
    /\ UNCHANGED <<pc, data, replace, exists, read, doc, mode, tmp>>

Write(w) ==
    \/ LookForSidecar(w) \/ Gone(w) \/ ReadSidecar(w) \/ RenderBad(w) \/ Render(w) \/ Stat(w)
    \/ MakeTmp(w) \/ WriteTmp(w) \/ ChmodTmp(w) \/ Rename(w)

Next == Tool \/ \E w \in Writers : Write(w) \/ Fail(w) \/ Crash(w)

Spec == Init /\ [][Next]_vars

-----------------------------------------------------------------------------

Whole(d) == Len(d) > 0 /\ \A i \in DOMAIN d : d[i] \in [Props -> Entry]

(* Every variable stays within its type; what is rendered is a document    *)
(* that has a description.                                                 *)
TypeOK ==
    /\ DOMAIN file = {"doc", "mode"}
    /\ pc \in [Writers -> {"start", "read", "render", "stat", "mkstemp", "tmp", "chmod",
                           "rename", "done", "raised", "crashed"}]
    /\ data \in [Writers -> Data] /\ replace \in [Writers -> BOOLEAN]
    /\ exists \in [Writers -> BOOLEAN] /\ stale \in [Writers -> BOOLEAN]
    /\ \A w \in Writers : doc[w] = Absent \/ Whole(doc[w])
    /\ mode \in [Writers -> Modes \cup {"0644", Absent}]
    /\ tmp \in [Writers -> {Absent, "partial", "whole"}]

(* "The write is atomic (temp file + rename), so a crash never leaves a    *)
(* half-written sidecar" (write_xmp): whatever a writer's step puts under  *)
(* the sidecar's name is the whole document it rendered; and a call that   *)
(* ends, well or not, leaves no temporary file beside the image: only a    *)
(* dying process does.                                                     *)
WholeOrNothing ==
    [][/\ (\E w \in Writers : pc'[w] # pc[w]) /\ file' # file
            => \E w \in Writers : file'.doc = doc[w]
       /\ \A w \in Writers : pc'[w] \in {"done", "raised"} => tmp'[w] = Absent]_vars

(* What data makes of what was there: "each property being written         *)
(* replaces that property wholesale ... and every other property is        *)
(* preserved untouched" (xmp.py:9), whatever forms and descriptions it was *)
(* scattered over, and nothing of another tool's moves.                    *)
Merged(old, new, d) ==
    /\ \A p \in Fields :
         Value(d, p) = IF new[p] = Leave THEN Value(old, p) ELSE new[p]
    /\ \A i \in DOMAIN old, p \in Foreign : d[i][p] = old[i][p]

(* A write that nobody came between leaves the merge of its data with the  *)
(* sidecar it replaces, or its data alone under replace.                   *)
MergesIntoCurrent ==
    [][\A w \in Writers : Rename(w) /\ ~stale[w] =>
         Merged(IF replace[w] \/ file.doc \in {Absent, EmptyDoc} THEN Blank ELSE file.doc,
                data[w], file'.doc)]_vars

(* A sidecar that does not parse "is left untouched rather than clobbered" *)
(* (write_xmp), unless the caller asked for that or it appeared meanwhile. *)
MalformedIsKept ==
    [][\A w \in Writers : Rename(w) /\ file.doc = BadDoc => replace[w] \/ stale[w]]_vars

(* "keep the old sidecar's mode (or a world-readable default) so other     *)
(* tools can still read it" (xmp.py:399), under replace too.               *)
ModeIsKept ==
    [][\A w \in Writers : Rename(w) /\ ~stale[w] =>
         file'.mode = IF file.doc = Absent THEN "0644" ELSE file.mode]_vars

(* "every other property - ratings, GPS, develop settings, another stage's *)
(* fields - is preserved untouched" (xmp.py:11).                           *)
OthersPreserved ==
    [][\A w \in Writers : Rename(w) /\ ~replace[w] /\ file.doc \notin {Absent, BadDoc, EmptyDoc} =>
         \A p \in Props : p \in Foreign \/ data[w][p] = Leave
            => Value(file'.doc, p) = Value(file.doc, p)]_vars
=============================================================================
