------------------------------ MODULE MCRecords ------------------------------
(***************************************************************************)
(* Small inputs of OpjRecords.                                             *)
(***************************************************************************)
EXTENDS OpjRecords, MCSubject

MCEmptyValue == <<7, 7, 7, 7, 7, 7, 7, 7>>

ColumnHeader(name, type, size, rows) ==
    [name |-> name, type |-> type, matrix |-> name.root = "M1", unsigned |-> FALSE, valueSize |-> size, totalRows |-> rows]

OfSize(size) ==
    LET fill(b) == [n \in 1 .. size |-> b]
    IN  {fill(7), fill(0)} \cup (IF size < 3 THEN {} ELSE {<<1>> \o SubSeq(fill(7), 2, size), <<0, 1>> \o SubSeq(fill(7), 3, size),
                                                        <<1, 0, 65>> \o SubSeq(fill(0), 4, size)})

ReadAColumn ==
    /\ Turn(3)
    /\ \E type \in SUBSET {Integer, Mixed}, size \in {0, 1, 2, 4, 5, 8, 9, 10, 11}, rows \in 0 .. 3 :
       \E first \in OfSize(size), second \in OfSize(size) \cup {<<>>}, rest \in {<<>>, <<1>>} :
          subject' = [of |-> "column", header |-> ColumnHeader(Bare("Data"), type, size, rows),
                      payload |-> first \o second \o rest]

ColumnOf(book, part, window) == [Bare(book) EXCEPT !.part = <<part>>, !.window = window]

DatasetAt(n, header, payload, length) ==
    [kind |-> "dataset", start |-> 10 * n, end |-> 10 * n + length, dataEnd |-> 10 * n + length,
     header |-> header, payload |-> payload]
WindowAt(n, name, label) ==
    [kind |-> "window", start |-> 10 * n, end |-> 10 * n + 10, name |-> name, label |-> label, showsLabel |-> label # None]
LeafAt(n, name, parent) == [kind |-> "project_leaf", start |-> 10 * n, end |-> 10 * n + 10, name |-> name, parent |-> parent]
NoteAt(n, name, label, text) ==
    [kind |-> "note", start |-> 10 * n, end |-> 10 * n + 10, dataEnd |-> 10 * n + 10, name |-> name, label |-> label, text |-> text]
AttachmentAt(n) == [kind |-> "attachment", start |-> 10 * n, end |-> 10 * n + 9, name |-> Bare("file")]

ElementsAt(n) ==
    {DatasetAt(n, ColumnHeader(name, {}, 1, 2), <<n, 8>>, 10) :
        name \in {ColumnOf("Book1", "A", None), ColumnOf("Book1", "A", 2), ColumnOf("Book2", "fit", None),
                  Bare("M1"), Bare("MBook1")}}
    \cup {DatasetAt(n, ColumnHeader(ColumnOf("Book1", "B", None), {}, 1, 1), <<n>>, 0),
          DatasetAt(n, ColumnHeader(Bare("Function1"), {FunctionType}, 1, 0), <<>>, 10),
          DatasetAt(n, None, <<>>, 10),
          WindowAt(n, Bare("Book1"), None), WindowAt(n, Bare("Book2"), Bare("Book1")),
          WindowAt(n, Bare("MBook1"), None), WindowAt(n, Bare("Graph1"), None),
          LeafAt(n, Bare("Book1"), <<Bare("Folder")>>), LeafAt(n, Bare("Book1"), <<>>),
          NoteAt(n, Bare("Note1"), None, "text"), NoteAt(n, Bare("Note1"), Bare("mine"), "text"),
          NoteAt(n, Bare("Notes"), None, None), AttachmentAt(n)}

WalksOf(count) ==
    CASE count = 0 -> {<<>>}
      [] count = 1 -> {<<x>> : x \in ElementsAt(1)}
      [] count = 2 -> {<<x, y>> : x \in ElementsAt(1), y \in ElementsAt(2)}
      [] count = 3 -> {<<x, y, z>> : x \in ElementsAt(1), y \in ElementsAt(2), z \in ElementsAt(3)}

ReferenceAt(at, parent, child) == [start |-> at, end |-> at + 2, parent |-> parent, child |-> child]
ReferenceLists ==
    {<<>>, <<ReferenceAt(50, Bare("Book1"), Bare("MBook1"))>>,
     <<ReferenceAt(50, Bare("Graph1"), Bare("MBook1")), ReferenceAt(54, Bare("Book2"), Bare("MBook1")),
       ReferenceAt(58, Bare("Page1"), Bare("Graph1"))>>}
TreeLinks == {<<>>, <<[parent |-> Bare("Root"), child |-> Bare("Book2")]>>}
Marks == {<<>>, <<[name |-> Bare("Results"), text |-> "text", start |-> 60, end |-> 66]>>}

BuildAProject ==
    /\ Turn(2)
    /\ \E count \in 0 .. 3, references \in ReferenceLists, tree \in TreeLinks, marked \in Marks, size \in {70, 15} :
          /\ count = 3 => size = 70 /\ tree = <<>> /\ marked = <<>> /\ Len(references) # 1
          /\ \E walk \in WalksOf(count), raises \in BOOLEAN :
                /\ count = 3 => ~raises
                /\ subject' = [of |-> "records",
                               project |-> [strict |-> IF raises THEN None ELSE walk, tolerant |-> walk, size |-> size,
                                            references |-> references, tree |-> tree, marked |-> marked]]
------------------------------------------------------------------------------
\* The values of a column are those its dataset stores, and what the walk found is a boundary of its
\* kind and at its place, with all of its columns in the rows.
RecordsAreSound ==
    /\ subject.of = "column" => ValuesAreRead(subject.header, subject.payload)
    /\ subject.of = "records" =>
          /\ BoundariesAreSound(subject.project)
          /\ RowsAreKept(subject.project, {<<1, 2>>, <<2, 1>>, <<2, 2>>})
==============================================================================
