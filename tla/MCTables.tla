------------------------------- MODULE MCTables -------------------------------
(***************************************************************************)
(* Small inputs of Tables.                                                 *)
(***************************************************************************)
EXTENDS Tables, MCSubject

SheetName(book) == [Bare(book) EXCEPT !.sheet = "Sheet1"]
WindowName(name, n) == [name EXCEPT !.window = n]

Number(n) == Cell("number", n)
Word(text) == Cell("word", text)
PairRows == <<<<Number(1), Number(2)>>, <<Number(3), Word("note")>>>>
WordRows == <<<<Word("note")>>, <<Cell("blank", "")>>>>
TextRows == <<<<Word("note")>>, <<Word("other")>>, <<Cell("noise", "-")>>>>

Object(name, kind, offset, path, confirmed) ==
    [name |-> name, kind |-> kind, offset |-> offset, length |-> 2, path |-> path,
     confirmed |-> confirmed, descriptor |-> FALSE, root |-> IF path.head = None THEN None ELSE path.head,
     office |-> None]
Below(head, leaf) == [head |-> head, leaf |-> leaf]

Book1At1 == WindowName(Bare("Book1"), 1)
Book1A == [Bare("Book1") EXCEPT !.part = <<"A">>]
BookAX == [Bare("BookA") EXCEPT !.part = <<"X">>]
SheetObjs ==
    {Object(Book1At1, "worksheet", 0, Below(Bare("object"), Book1At1), FALSE),
     Object(WindowName(Bare("Book1"), 2), "worksheet", 4, Below(Bare("Book"), Bare("Book1")), TRUE),
     Object(Book1A, "worksheet", 2, Below(Bare("Book"), Book1A), TRUE),
     Object(Bare("PdM1"), "worksheet", 2, Below(Bare("object"), Bare("PdM1")), FALSE),
     Object(WindowName(BookAX, 1), "worksheet", 3, Below(Bare("Book"), BookAX), TRUE),
     Object(SheetName("Book1"), "worksheet", 5, Below(None, SheetName("Book1")), TRUE)}
UpToTwoOf(S) == {<<>>} \cup {<<a>> : a \in S} \cup {<<a, b>> : a, b \in S}
InOrder(objects) ==
    {s \in objects : Len(s) = 2 => s[1] # s[2] /\ s[1].offset <= s[2].offset}

TableOf(book, rows, metadata, start) ==
    [name |-> SheetName(book), rows |-> rows, start |-> start, end |-> start + 2,
     metadata |-> metadata]
TableLists ==
    {<<>>} \cup {<<TableOf("Book1", r, "about", 5)>> : r \in {WordRows, TextRows, <<>>}}
    \cup {<<TableOf("Book1", PairRows, "empty", 5), TableOf("Book2", PairRows, "about", 2)>>}

RecoveredRows(name, rows, dims, metadata, backed) ==
    [rows |-> name :> rows, dims |-> dims, metadata |-> metadata, backed |-> backed]
Recoveries ==
    {NothingRecovered,
     RecoveredRows(Bare("origin_storage_family_1"), PairRows, <<>>, <<>>, {}),
     RecoveredRows(Bare("Book1"), PairRows, Bare("Book1") :> <<3, 2>>, <<>>, {Bare("Book1")}),
     RecoveredRows(Bare("Book1"), WordRows, <<>>, Bare("Book1") :> "about", {}),
     RecoveredRows(SheetName("Book1"), <<PairRows[1]>>, <<>>, <<>>, {SheetName("Book1")})}

FileWith(tier, numbers) ==
    [size |-> 8, tier |-> tier, numbers |-> numbers, archives |-> {0}, links |-> {4}]
Numbers == <<1 :> "pair", 1 :> "whole">>

OpjObjs ==
    {Object(Book1At1, "worksheet", 0, Below(Bare("Book"), Book1At1), TRUE),
     Object(Bare("Book1"), "worksheet", 3, Below(Bare("Book"), Bare("Book1")), FALSE),
     Object(Bare("MBook1"), "worksheet", 1, Below(Bare("MBook"), Bare("MBook1")), FALSE)}
MatrixObjs ==
    {Object(Bare("MBook1"), "matrix", 2, Below(Bare("MBook"), Bare("MBook1")), c) : c \in BOOLEAN}
    \cup {Object(Bare("PdM1"), "matrix", 0, Below(Bare("Matrix"), Bare("PdM1")), TRUE)}
ExcelObjs ==
    {[Object(Bare("Excel1"), "excel", p, Below(Bare("Excel"), Bare("Excel1")), c) EXCEPT !.office = o] :
        p \in {0, 4, 8}, c \in BOOLEAN, o \in {None, "workbook", "sheet_workbook", "picture"}}
Project(type, objects, recovered, numbers) ==
    [type |-> type, objects |-> objects, discovered |-> <<>>, tables |-> <<>>,
     recovered |-> recovered, windows |-> {}, sheets |-> <<>>, file |-> FileWith(1, numbers)]
MatrixRows == [NothingRecovered EXCEPT !.rows = Bare("MBook1") :> PairRows, !.backed = {Bare("MBook1")}]
ExcelSheet == Object(Bare("Sheet1"), "excel", 0, Below(Bare("Excel1"), Bare("Sheet1")), TRUE)

TableOptions(emits) ==
    [recovery : BOOLEAN, scan : BOOLEAN, force : BOOLEAN, format : {"csv"}, emit : emits,
     minColumns : {2}, descriptors : {TRUE}, selected : {None}]

\* Where an earlier run has left files: nowhere, or at one of the paths this one writes.
Before(job) ==
    LET written(items) == {items[n].path : n \in {job.place} \cap DOMAIN items} \ {None}
    IN  IF job.place = 0 THEN {} ELSE written(Run(job.project, job.kind, job.opts, {}).items)

RunJob(kind, project, emits) ==
    \E o \in TableOptions(emits), n \in 0 .. 3 :
        subject' = [of |-> "tables", kind |-> kind, project |-> project, opts |-> o, place |-> n]

ExtractSheets ==
    \/ \E turn \in 1 .. 2 :
          /\ Turn(turn)
          /\ \E o \in InOrder(UpToTwoOf(SheetObjs)), t \in TableLists, r \in Recoveries :
                RunJob("worksheet", [Project("opju", o, r, Numbers[turn])
                                        EXCEPT !.tables = t, !.discovered = o], {TRUE})
    \/ /\ Turn(3)
       /\ \E o \in InOrder(UpToTwoOf(SheetObjs)), t \in TableLists, k \in 2 .. 3 :
             RunJob("worksheet", [Project("opju", <<>>, NothingRecovered, Numbers[1])
                                     EXCEPT !.tables = t, !.discovered = o, !.file.tier = k], {TRUE})
    \/ /\ Turn(4)
       /\ \E o \in InOrder(UpToTwoOf(OpjObjs)), r \in Recoveries, w \in {{}, {Book1At1}}, n \in 1 .. 2 :
             RunJob("worksheet", [Project("opj", o, r, Numbers[n]) EXCEPT !.windows = w], {TRUE})

ExtractOthers ==
    /\ Turn(4)
    /\ \E t \in {"opj", "opju"}, n \in ToSet(Numbers) :
          \/ \E o \in InOrder(UpToTwoOf(MatrixObjs)), r \in {NothingRecovered, MatrixRows} :
                RunJob("matrix", Project(t, o, r, n), BOOLEAN)
          \/ \E o \in {<<>>} \cup {<<e>> : e \in ExcelObjs}, s \in {<<>>, <<ExcelSheet>>} :
                RunJob("excel", [Project(t, o, NothingRecovered, n) EXCEPT !.sheets = s], BOOLEAN)
------------------------------------------------------------------------------

\* A table that is listed as extracted, and exact, has been written with its rows.
ExactTableIsWritten ==
    subject.of = "tables" /\ subject.kind = "worksheet" =>
        ExactTablesHaveTheirRows(subject.project, subject.opts, Before(subject))
==============================================================================
