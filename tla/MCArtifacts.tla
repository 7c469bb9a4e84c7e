----------------------------- MODULE MCArtifacts -----------------------------
(***************************************************************************)
(* Small inputs of ChunkedScans, RawRegions and HumanArtifacts.            *)
(***************************************************************************)
EXTENDS ChunkedScans, RawRegions, HumanArtifacts, MCSubject

CONSTANTS
    FileLength      \* the most symbols of a scanned file

Words(symbols, length) == UNION {[1 .. n -> symbols] : n \in 0 .. length}

StringFiles == Words({"x", "-"}, FileLength + 2)
LineFiles == Words({"x", "LF", "CR", "v"}, FileLength)
RowFiles == Words({"1", "x", "LF"}, FileLength + 1) \cup Words({"1", "CR", "LF"}, FileLength)
NameFiles == Words({"B", "G", "S", "x", " "}, FileLength)
ReferenceFiles == {a \o <<"[">> \o b \o <<"]">> \o c \o d :
                      a \in Words({"B", "x", " "}, 1), b \in Words({"B", "G", "x"}, 2),
                      c \in Words({"x"}, 1), d \in Words({" "}, 1)}
Limits == [repeats : {1, None}, perKind : {1, 2}, total : {None}, allowed : {None}]
------------------------------------------------------------------------------
Size == 5
Ranges == {<<a, n>> : a \in -1 .. Size, n \in 0 .. 3}
Blocks2 == UNION {[1 .. n -> {r \in Ranges : r[2] > 0}] : n \in 0 .. 2}

CarvedFiles ==
    [size : {Size}, images : {<<>>, <<<<1, 2>>>>},
     objects : UNION {[1 .. n -> [offset : {0, 3}, length : {0, 1}, confirmed : BOOLEAN,
                                  root : {None}, path : {"p"}]] : n \in 0 .. 1},
     run : {[b \in 0 .. Size - 1 |-> IF b \in from .. upto THEN 1 ELSE 0] :
               from \in 0 .. 2, upto \in 0 .. Size - 1},
     numeric : {{}, {3}}]
CarveOptions ==
    [raw : BOOLEAN, text : BOOLEAN, rawMin : 1 .. 2, textMin : 1 .. 2, textLength : 1 .. 3,
     numeric : BOOLEAN, existing : {{}, {<<0, 3>>}}]

MapItems ==
    LET one == [start : {-1, 1, 2}, end : {0, 3, Size + 1}, hollow : {FALSE}, signature : {FALSE},
                discovery : {None, "carved"}, heuristic : {None, "yes", "no"}, label : {"m", "n"}]
    IN  {<<>>} \cup {<<a>> : a \in one} \cup {<<a, b>> : a, b \in {i \in one : i.start > 0}}
MapWalks ==
    LET one == [start : {0, 2}, end : {2, Size}, tagged : BOOLEAN, partly : {TRUE}, label : {"m"}]
    IN  {{}} \cup {{a} : a \in one}
------------------------------------------------------------------------------
Paths == {"d/a", "d/b", "c"}
DirOf == [p \in Paths |-> IF p = "c" THEN "." ELSE "d"]
Disks == {[p \in Paths |-> IF p = "c" THEN [data |-> "D"]
                           ELSE IF data[p] = Absent THEN Absent ELSE [data |-> data[p]]] :
             data \in [{"d/a", "d/b"} -> {Absent, EmptyData, "D", "E"}]}

HumanItem(kind, path, status, content, overlap) ==
    [kind |-> kind, path |-> path, status |-> status, content |-> content, overlap |-> overlap,
     generic |-> kind = "matrix", exact |-> TRUE, formula |-> FALSE,
     method |-> "opju_descriptor_table", error |-> None]
HumanKindItems ==
    {HumanItem(k, p, "extracted", None, {}) : k \in {"worksheet", "graph", "note"},
                                             p \in {"d/a", "d/b"}}
    \cup {HumanItem("worksheet", "d/a", "extracted", "empty", {}),
          HumanItem("worksheet", "d/a", "extracted", None, {"o", "p"}),
          HumanItem("image", "d/b", "partial", None, {}),
          HumanItem("note", "d", "skipped", None, {}),
          HumanItem("raw_dump", "d/a", "extracted", None, {})}
Named(items) == [n \in DOMAIN items |-> [alias |-> <<"i", "j", "k">>[n]] @@ items[n]]
Retentions == UNION {[1 .. n -> HumanKindItems] : n \in 1 .. 3}
------------------------------------------------------------------------------
ScanAFile ==
    /\ Turn(3)
    /\ \/ \E f \in StringFiles : subject' = [of |-> "strings", file |-> f]
       \/ \E f \in LineFiles : subject' = [of |-> "lines", file |-> f]
       \/ \E f \in RowFiles : subject' = [of |-> "rows", file |-> f]
       \/ \E f \in NameFiles : subject' = [of |-> "names", file |-> f]
       \/ \E f \in ReferenceFiles, l \in Limits, mapped \in BOOLEAN :
             subject' = [of |-> "references", file |-> f, limits |-> l, mapped |-> mapped]

CarveAFile ==
    /\ Turn(3)
    /\ \/ \E b \in Blocks2, least \in 1 .. 2 :
             subject' = [of |-> "gaps", size |-> Size, blocks |-> b, least |-> least]
       \/ \E f \in CarvedFiles, o \in CarveOptions : subject' = [of |-> "carving", file |-> f, opts |-> o]
       \/ \E i \in MapItems, w \in MapWalks :
             subject' = [of |-> "map", size |-> Size, items |-> i, walk |-> w]

RetainARun ==
    /\ Turn(3)
    /\ \E t \in {"opj", "opju"}, i \in Retentions, d \in Disks :
          subject' = [of |-> "retention", type |-> t, items |-> Named(i), disk |-> d]

------------------------------------------------------------------------------
\* The scans by blocks find the strings, the lines and the rows one look at the file finds.
BlocksScanAsWhole ==
    /\ subject.of = "strings" => StringsAgree(subject.file)
    /\ subject.of = "lines" => TextAgrees(subject.file)
    /\ subject.of = "rows" => RowsAgree(subject.file)

\* No name is lost where a block cuts the bytes: what is cut is carried to the next block.
CutNamesAreFound == subject.of = "names" => NamesAgree(subject.file)

\* That is not so (CutNamesAreFound), but nothing else is lost, and nothing is found that is
\* not there; the limits of the heuristic discovery hold over its two scans.
NamesAreFound ==
    /\ subject.of = "names" => LostNamesEndABlock(subject.file)
    /\ subject.of = "references" =>
          KindsAreCapped(subject.limits, subject.file, subject.mapped)

\* The gaps are the bytes nothing explains, and every gap has an artifact when the lengths
\* are left at their defaults.
NoByteIsLost ==
    /\ subject.of = "gaps" => GapsAreTheUncoveredRuns(subject.size, subject.blocks, subject.least)
    /\ subject.of = "carving" => GapIsPreservedByDefault(subject.file, subject.opts)

\* The byte map classifies every byte once, by its strongest evidence.
MapIsAPartition == subject.of = "map" => MapsEveryByte(subject.size, subject.items, subject.walk)

\* The human profile leaves nothing out in silence, and its manifest and directory agree.
RetentionIsTrue ==
    subject.of = "retention" =>
        /\ Accounted(subject.type, subject.items, subject.disk, DirOf)
        /\ FilesAgree(subject.type, subject.items, subject.disk, DirOf)
==============================================================================
