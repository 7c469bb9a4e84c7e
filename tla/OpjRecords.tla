------------------------------ MODULE OpjRecords ------------------------------
(***************************************************************************)
(* What is made of the walks over a CPYA project: its data sections and    *)
(* notes (opj/records.py), the boundaries of its objects, their kinds and  *)
(* their paths (opj/boundaries.py, opj/tree.py), and the rows of its       *)
(* worksheets, workbooks and matrices (opj/columns.py, opj/recovery).      *)
(*                                                                         *)
(* A walk is the sequence of the elements it finds, None when it raises:   *)
(* project.strict and project.tolerant, over project.size bytes.  A name   *)
(* is a record of TableNames; the number behind an @ is its window.  What  *)
(* a dataset stores is a sequence of bytes.                                *)
(***************************************************************************)
EXTENDS TableNames, TLC

CONSTANTS
    EmptyValue,     \* the bytes of -1.23456789e-300, the missing value
    Integer,        \* the type bit of an integer
    Mixed,          \* the type bit of a column of texts and numbers
    FunctionType,   \* the type of a function
    NotesLimit      \* OPJ_NOTES_MAX_BLOCKS
------------------------------------------------------------------------------
(* Values.                                                                 *)

Padded(bytes, size) == [n \in 1 .. size |-> IF n \in DOMAIN bytes THEN bytes[n] ELSE 0]

UpToNul(bytes) == SubSeq(bytes, 1, Min({Len(bytes)} \cup {n - 1 : n \in {m \in DOMAIN bytes : bytes[m] = 0}}))

Double(bytes) == IF bytes = EmptyValue THEN None ELSE <<"float64", bytes>>

\* _decode_opj_value of as many bytes as a value has.  A float of four bytes is never the missing one.
DecodeValue(header, bytes) ==
    LET sign == IF header.unsigned THEN "unsigned" ELSE "signed"
    IN  CASE header.valueSize \in {1, 2} -> <<sign, bytes>>
          [] header.valueSize = 4 -> IF Integer \in header.type THEN <<sign, bytes>> ELSE <<"float32", bytes>>
          [] header.valueSize = 8 -> Double(bytes)
          [] header.valueSize \notin {1, 2, 4, 8} /\ Mixed \in header.type /\ bytes[1] # 1 ->
                Double(Padded(SubSeq(bytes, 3, AtMost(10, Len(bytes))), 8))
          [] header.valueSize \notin {1, 2, 4, 8} /\ Mixed \in header.type /\ bytes[1] = 1 ->
                <<"text", UpToNul(SubSeq(bytes, 3, Len(bytes)))>>
          [] OTHER -> <<"text", UpToNul(bytes)>>

DecodeValues(header, payload) ==
    LET size == header.valueSize
    IN  IF size = 0 THEN <<>>
        ELSE [n \in 1 .. AtMost(header.totalRows, Len(payload) \div size) |->
                  DecodeValue(header, SubSeq(payload, (n - 1) * size + 1, n * size))]

\* _parse_opj_data_header fails when the header is short or its name is not plausible.
HeaderIsRead(element) == element.header # None /\ element.header.name # None

InTheFile(element, project) == element.dataEnd <= project.size

SectionOf(element) ==
    [name |-> element.header.name, start |-> element.start, end |-> element.end,
     function |-> FunctionType \in element.header.type, matrix |-> element.header.matrix,
     values |-> DecodeValues(element.header, element.payload)]

\* _collect_sections, of a walk and the limit the caller may give.
CollectSections(walk, project, limit) ==
    LET taken(whole) == IF limit = None THEN whole ELSE SubSeq(whole, 1, AtMost(limit, Len(whole)))
    IN  Each(taken(SelectSeq(walk, LAMBDA e : e.kind = "dataset" /\ InTheFile(e, project) /\ HeaderIsRead(e))),
             SectionOf)

Walked(walk) == IF walk = None THEN <<>> ELSE walk

\* The strict walk first; the tolerant one when it raises or has no section.
DataSections(project, limit) ==
    LET orTolerant(strict) == IF strict # <<>> THEN strict
                              ELSE CollectSections(Walked(project.tolerant), project, limit)
    IN  orTolerant(CollectSections(Walked(project.strict), project, limit))

\* _walk_semantic_elements: the tolerant walk only when the strict one raises.
SemanticElements(project) == IF project.strict # None THEN project.strict ELSE Walked(project.tolerant)

ElementsOf(project, kind) == SelectSeq(SemanticElements(project), LAMBDA e : e.kind = kind)
------------------------------------------------------------------------------
(* Notes.                                                                  *)

NoteLike(name) == name.root \in {"Results", "ResultsLog", "Notes", "Note", "Note1"}

NoteName(element) == IF element.label # None THEN element.label ELSE element.name

\* Of the tolerant walk; the marks in the bytes are looked for when it has none.
NoteSections(project) ==
    LET orMarked(walked) ==
            IF walked # <<>> THEN Each(walked, LAMBDA e : [e EXCEPT !.name = NoteName(e)])
            ELSE SelectSeq(project.marked, LAMBDA e : NoteLike(e.name) /\ e.text # None)
        first(notes) == SubSeq(notes, 1, AtMost(NotesLimit, Len(notes)))
    IN  first(orMarked(SelectSeq(Walked(project.tolerant),
                                 LAMBDA e : /\ e.kind = "note" /\ NoteLike(NoteName(e))
                                            /\ InTheFile(e, project) /\ e.text # None)))
------------------------------------------------------------------------------
(* Kinds.                                                                  *)

\* split_opj_dataset_name: the last part is the column, the number behind the @ its sheet.
HasColumn(name) == name.part # <<>>
WorkbookOf(name) ==
    IF HasColumn(name) THEN [Bare(name.root) EXCEPT !.part = Front(name.part)] ELSE name
SheetOf(name) == IF HasColumn(name) /\ name.window # None /\ name.window > 0 THEN name.window ELSE 1

\* _iter_opj_name_candidates, the most specific first.
Candidates(name) ==
    LET whole == BeforeAt(name)
    IN  FirstOfEach(<<whole>>
                    \o If(HasUnderscore(name), <<Bare(name.root)>>)
                    \o If(name.root = "PdM1", <<[whole EXCEPT !.root = "M1"]>>),
                    LAMBDA n : n)

\* _extract_matrix_aliases.
MatrixAliases(name) ==
    CASE name = Bare("PdM1") -> {Bare("1"), Bare("M1"), Bare("MBook1")}
      [] name \in {Bare("MSheet1"), Bare("M1")} -> {Bare("MBook1")}
      [] name = Bare("MBook1") -> {Bare("MSheet1")}
      [] OTHER -> {}

\* _classify_opj_object_kind, which has only the name.
KindOfName(name) ==
    CASE name.part # <<>> /\ Last(name.part) = "fit" -> "function"
      [] name.part # <<>> /\ Last(name.part) = "Xt" -> "matrix"
      [] OTHER -> CASE name.root = "Graph1" -> "graph"
                    [] name.root = "Function1" -> "function"
                    [] name.root \in {"PdM1", "MBook1", "MSheet1"} -> "matrix"
                    [] NoteLike(name) /\ name.root \in {"Notes", "Note", "Note1"} -> "note"
                    [] OTHER -> IF HasUnderscore(name) \/ name.root \in {"Book1", "Book2"} THEN "worksheet" ELSE "meta"

\* _classify_opj_data_section_kind: what the record says goes before what the name looks like.
KindOfSection(section) ==
    IF HasUnderscore(section.name) THEN "worksheet"
    ELSE IF section.function THEN "function"
    ELSE IF section.matrix THEN "matrix"
    ELSE IF KindOfName(section.name) \in {"function", "matrix"} THEN KindOfName(section.name)
    ELSE "meta"

CandidatesOf(sections, kind) ==
    UNION {ToSet(Candidates(s.name)) : s \in {t \in ToSet(sections) : KindOfSection(t) = kind}}

\* The matrices the data sections are evidence of, by every name they go by.
MatrixNames(sections) ==
    LET names == CandidatesOf(sections, "matrix") IN names \cup UNION {MatrixAliases(n) : n \in names}

\* Mutant: a first sheet is enough.
RootsWithSheets(sections) ==
    {BeforeAt(WorkbookOf(s.name)) : s \in {t \in ToSet(sections) : HasColumn(t.name) /\ SheetOf(t.name) >= 1}}

\* The workbooks with more than one sheet.
ExcelRoots(sections) ==
    {BeforeAt(WorkbookOf(s.name)) : s \in {t \in ToSet(sections) : HasColumn(t.name) /\ SheetOf(t.name) > 1}}

\* _collect_window_kind_hints: the kinds with the names that hint at them, the strongest first.
KindHints(project, sections, notes) ==
    LET columns == CandidatesOf(sections, "worksheet")
    IN  <<<<"matrix", MatrixNames(sections)>>,
          <<"excel", columns \cap ExcelRoots(sections)>>,
          <<"worksheet", columns \ ExcelRoots(sections)>>,
          <<"function", CandidatesOf(sections, "function")>>,
          <<"graph", {n \in UNION {ToSet(Candidates(r.child)) : r \in ToSet(project.references)} :
                          n.root = "Graph1"}>>,
          <<"note", UNION {ToSet(Candidates(n.name)) : n \in ToSet(notes)}>>>>

KindOfWindow(name, hints) ==
    LET fitting == SelectSeq(hints, LAMBDA h : ToSet(Candidates(name)) \cap h[2] # {})
    IN  IF fitting = <<>> THEN KindOfName(name) ELSE Head(fitting)[1]
------------------------------------------------------------------------------
(* Paths.                                                                  *)

\* parse_opj_project_nodes without the folders: an object is at the end of its path.
PathsInProject(project, name) ==
    Each(SelectSeq(ElementsOf(project, "project_leaf"), LAMBDA e : BeforeAt(e.name) = name),
         LAMBDA e : Append(e.parent, e.name))

ParentsIn(references, child) ==
    FirstOfEach(Each(SelectSeq(references, LAMBDA r : r.child = child), LAMBDA r : r.parent), LAMBDA q : q)

\* parse_opj_tree_ownership_links: without a tree the references are the links, and next to a
\* tree those of matrices; one of a matrix only if it has one parent.
OwnershipLinks(project) ==
    LET sole(r) == Len(ParentsIn(project.references, r.child)) = 1
        isLink(r) == IF MatrixLike(r.child) THEN sole(r) ELSE project.tree = <<>>
    IN  project.tree \o SelectSeq(project.references, isLink)

Owners(project, name) == ParentsIn(OwnershipLinks(project), Safe(name))

\* _infer_parser_source_path_with_tree: the first candidate that one object of the project has.
InferPath(project, name) ==
    LET below(candidate, path) == IF candidate = BeforeAt(name) THEN path ELSE Append(path, name)
        by(candidates, owners) ==
            IF candidates # <<>>
            THEN below(Head(candidates), PathsInProject(project, Head(candidates))[1])
            ELSE <<Head(owners \o <<Bare("derived")>>), name>>
    IN  by(SelectSeq(Candidates(name), LAMBDA n : Len(PathsInProject(project, n)) = 1),
           Owners(project, name) \o ParentsIn(project.references, Safe(name)))
------------------------------------------------------------------------------
(* Boundaries.                                                             *)

BoundaryOf(kind, name, path, range, rule) ==
    [kind |-> kind, name |-> name, path |-> path, start |-> range.start, end |-> range.end, rule |-> rule]

SectionBoundaries(project, sections) ==
    Each(sections, LAMBDA s : BoundaryOf(KindOfSection(s), s.name, InferPath(project, s.name), s,
                                         "opj_data_section"))

NoteBoundaries(project, notes) ==
    Each(notes, LAMBDA n : BoundaryOf("note", n.name, InferPath(project, n.name), n, "opj_note_section"))

\* A window that shows its label is looked up by it; its kind is always that of its name.
WindowBoundaries(project, hints) ==
    LET shown(w) == IF w.showsLabel /\ w.label # None THEN w.label ELSE w.name
    IN  Each(ElementsOf(project, "window"),
             LAMBDA w : BoundaryOf(KindOfWindow(w.name, hints), w.name, InferPath(project, shown(w)), w,
                                   "opj_window"))

\* References to a matrix count if a data section is evidence of it and it has one owner.
ReferenceBoundaries(project, sections) ==
    LET backed(r) == /\ KindOfName(r.child) = "matrix"
                     /\ ToSet(Candidates(r.child)) \cap MatrixNames(sections) # {}
                     /\ Len(Owners(project, r.child)) = 1
    IN  Each(FirstOfEach(SelectSeq(project.references, backed), LAMBDA r : Safe(r.child)),
             LAMBDA r : BoundaryOf("matrix", r.child, InferPath(project, r.child), r, "opj_tree_reference"))

AttachmentBoundaries(project) ==
    Each(ElementsOf(project, "attachment"),
         LAMBDA a : BoundaryOf("attachment", a.name, <<Bare("attachments"), a.name>>, a, "opj_attachment"))

BoundaryKey(boundary) == <<boundary.start, boundary.end, boundary.kind, boundary.name>>

BoundariesBy(project, sections, notes) ==
    SectionBoundaries(project, sections) \o NoteBoundaries(project, notes)
    \o WindowBoundaries(project, KindHints(project, sections, notes))
    \o ReferenceBoundaries(project, sections) \o AttachmentBoundaries(project)

\* parse_opj_boundaries.  The order of kinds that have one range is not told apart.
ProjectBoundaries(project, limit) ==
    LET ordered(boundaries) == SortedBy(SortedBy(boundaries, LAMBDA b : b.end), LAMBDA b : b.start)
    IN  FirstOfEach(SelectSeq(ordered(BoundariesBy(project, DataSections(project, limit), NoteSections(project))),
                              LAMBDA b : b.end > b.start),
                    BoundaryKey)
------------------------------------------------------------------------------
(* Rows.                                                                   *)

Longest(columns) == Max({0} \cup {Len(c) : c \in ToSet(columns)})

\* The columns side by side, short ones filled up, and how many rows and columns there are.
Transposed(columns, rows) ==
    [rows |-> [r \in 1 .. rows |->
                  [c \in DOMAIN columns |-> IF r \in DOMAIN columns[c] THEN columns[c][r] ELSE None]],
     dims |-> <<rows, Len(columns)>>]
TransposedWhole(columns) == Transposed(columns, Longest(columns))

ValuesOf(sections) == Each(sections, LAMBDA s : s.values)

\* _expand_worksheet_names.
ExpandedNames(names) ==
    names \cup {BeforeAt(n) : n \in names}
          \cup {Bare(n.root) : n \in {m \in names : HasUnderscore(BeforeAt(m))}}

\* _resolve_opj_worksheet_name and _resolve_opj_matrix_name: the root, the whole name, or what it begins with.
ResolveTabular(name, names) ==
    LET head == BeforeAt(name)
        root == Bare(name.root)
        shortest(begins) == IF begins = {} THEN None
                            ELSE CHOOSE n \in begins : \A m \in begins : Len(n.part) <= Len(m.part)
    IN  IF HasUnderscore(head) /\ root \in names THEN root
        ELSE IF head # name /\ head \in names THEN head
        ELSE IF name \in names THEN name
        ELSE shortest({n \in names : n.window = None /\ IsPrefix(n.part, name.part) /\ n.root = name.root /\ n # name})

\* recover_worksheet_metadata_from_opj_sections: the columns of a workbook, of all of its sheets,
\* by the name that was asked for.  A later workbook of one name replaces an earlier one.
WorksheetRows(project, asked) ==
    LET names == ExpandedNames(asked)
        orItself(book, resolved) == IF resolved # None THEN resolved ELSE book
        target(book) == orItself(book, ResolveTabular(book, names))
        books(mine) == FirstOfEach(Each(mine, LAMBDA s : WorkbookOf(s.name)), LAMBDA b : b)
        rows(mine, own, last) ==
            Transposed(ValuesOf(SelectSeq(mine, LAMBDA s : WorkbookOf(s.name) = last)), Longest(ValuesOf(own)))
        rowsOf(mine) ==
            [t \in {target(WorkbookOf(s.name)) : s \in ToSet(mine)} |->
                rows(mine, SelectSeq(mine, LAMBDA s : target(WorkbookOf(s.name)) = t),
                     Last(SelectSeq(books(mine), LAMBDA b : target(b) = t)))]
    IN  rowsOf(SelectSeq(DataSections(project, None), LAMBDA s : ResolveTabular(s.name, names) # None))

\* recover_excel_sheets_from_opj_sections: the sheets of the workbooks that have more than one.
ExcelSheets(project, asked) ==
    LET sheetOf(s) == <<WorkbookOf(s.name), SheetOf(s.name)>>
        sheet(own) == [table |-> TransposedWhole(ValuesOf(own)),
                       start |-> Min({s.start : s \in ToSet(own)}),
                       end |-> Max({s.end : s \in ToSet(own)})]
        several(columns) == {WorkbookOf(s.name) : s \in {t \in ToSet(columns) : SheetOf(t.name) > 1}} \cap asked
        sheets(columns) ==
            [k \in {sheetOf(s) : s \in {t \in ToSet(columns) : WorkbookOf(t.name) \in several(columns)}} |->
                sheet(SelectSeq(columns, LAMBDA s : sheetOf(s) = k))]
    IN  sheets(SelectSeq(DataSections(project, None), LAMBDA s : HasColumn(s.name)))

\* _matrix_alias_names.
AliasesAsked(name) ==
    CASE name = Bare("PdM1") -> {Bare("1"), Bare("M1")}
      [] name \in {Bare("MSheet1"), Bare("M1")} -> {Bare("MBook1")}
      [] OTHER -> {}

\* recover_matrix_metadata_from_opj_sections, with the shape its window says, if it does.
MatrixTables(project, asked, shapes) ==
    LET names == ExpandedNames(asked) \cup UNION {AliasesAsked(n) : n \in asked}
        hasShape(m, own) == /\ m \in DOMAIN shapes /\ Len(own) = 1
                            /\ shapes[m][1] > 0 /\ shapes[m][2] > 0
                            /\ shapes[m][1] * shapes[m][2] <= Len(own[1].values)
        byShape(values, shape) ==
            [rows |-> [r \in 1 .. shape[1] |-> [c \in 1 .. shape[2] |-> values[(r - 1) * shape[2] + c]]],
             dims |-> shape]
        table(m, own) == IF hasShape(m, own) THEN byShape(own[1].values, shapes[m]) ELSE TransposedWhole(ValuesOf(own))
        tables(sections) ==
            [m \in {ResolveTabular(s.name, names) : s \in ToSet(sections)} \ {None} |->
                table(m, SortedBy(SelectSeq(sections, LAMBDA s : ResolveTabular(s.name, names) = m),
                                  LAMBDA s : s.start))]
    IN  tables(DataSections(project, None))
------------------------------------------------------------------------------
(* Properties.                                                             *)

\* Of a payload no whole value that the header announces is lost, the missing value is the only
\* empty cell, and a text has no NUL in it.
ValuesAreRead(header, payload) ==
    LET isWritten(n, k) == Padded(SubSeq(payload, (n - 1) * header.valueSize + 1 + k,
                                         AtMost(Len(payload), n * header.valueSize)), 8) = EmptyValue
        areRead(values) ==
            /\ \A n \in 1 .. header.totalRows :
                  n \in DOMAIN values <=> header.valueSize > 0 /\ n * header.valueSize <= Len(payload)
            /\ \A n \in DOMAIN values :
                  /\ values[n] = None => \E k \in 0 .. 2 : isWritten(n, k)
                  /\ values[n] # None /\ values[n][1] = "text" => 0 \notin ToSet(values[n][2])
    IN  areRead(DecodeValues(header, payload))

\* What the walk found is a boundary, once, and with the kind and the path of the whole it is a part of.
BoundariesAreSound(project) ==
    LET windows == ToSet(ElementsOf(project, "window"))
        below(window, sections) == {s \in ToSet(sections) : HasColumn(s.name) /\ WorkbookOf(s.name) = window.name}
        isSound(all, sections) ==
            LET kept(name, range) == \E b \in ToSet(all) : b.name = name /\ b.start = range.start /\ b.end = range.end
                of(window) == {b \in ToSet(all) : b.rule = "opj_window" /\ b.start = window.start /\ b.name = window.name}
            IN  /\ \A s \in ToSet(sections) \cup ToSet(NoteSections(project)) : s.end > s.start => kept(s.name, s)
                /\ \A w \in windows \cup ToSet(ElementsOf(project, "attachment")) : w.end > w.start => kept(w.name, w)
                /\ \A n \in 2 .. Len(all) :
                      /\ all[n - 1].start <= all[n].start
                      /\ \A m \in 1 .. n - 1 : BoundaryKey(all[m]) # BoundaryKey(all[n])
                /\ \* a limit takes the first sections
                   IsPrefix(DataSections(project, 1), sections)
                /\ \* a window with columns is a table, with several sheets exactly if a column is on a later one
                   \A w \in windows : \A b \in of(w) :
                      below(w, sections) # {} /\ w.name \notin MatrixNames(sections) =>
                         b.kind = IF \E s \in below(w, sections) : SheetOf(s.name) > 1 THEN "excel" ELSE "worksheet"
                /\ \* the columns of a window that is in the project tree once are below it
                   \A w \in windows : \A b \in of(w) : \A s \in below(w, sections) :
                      /\ ~w.showsLabel /\ Len(PathsInProject(project, w.name)) = 1
                      /\ PathsInProject(project, BeforeAt(s.name)) = <<>>
                      => InferPath(project, s.name) = Append(b.path, s.name)
    IN  isSound(ProjectBoundaries(project, None), DataSections(project, None))

\* Each column is in the rows of its workbook, and in those of exactly one of its sheets;
\* the rows of a matrix are its values in their order.
RowsAreKept(project, shapes) ==
    LET columnsOf(book, sections) ==
            SelectSeq(sections, LAMBDA s : HasColumn(s.name) /\ WorkbookOf(s.name) = book)
        isIn(values, table) ==
            \E c \in 1 .. table.dims[2] : \A r \in DOMAIN table.rows :
               table.rows[r][c] = IF r \in DOMAIN values THEN values[r] ELSE None
        rowsHold(columns, rows) ==
            /\ Len(rows.rows) = Longest(ValuesOf(columns)) /\ rows.dims[1] = Len(rows.rows)
            /\ \A s \in ToSet(columns) : isIn(s.values, rows)
        isInSheet(s, sheet) == sheet.start <= s.start /\ s.end <= sheet.end /\ isIn(s.values, sheet.table)
        sheetsHold(b, columns, sheets) ==
            sheets # <<>> =>
               /\ FoldSet(LAMBDA k, n : n + sheets[k].table.dims[2], 0, DOMAIN sheets) = Len(columns)
               /\ \A s \in ToSet(columns) : isInSheet(s, sheets[<<b, SheetOf(s.name)>>])
        bookIsKept(b, sections, columns, rows) ==
            /\ rowsHold(columns, rows)
            /\ b \notin {s.name : s \in ToSet(sections)} => rows.dims[2] = Len(columns)
            /\ sheetsHold(b, columns, ExcelSheets(project, {b}))
        matrixIsKept(s, sections, tables) ==
            \A m \in DOMAIN tables :
               /\ Len(tables[m].rows) = tables[m].dims[1]
               /\ \A r \in DOMAIN tables[m].rows : Len(tables[m].rows[r]) = tables[m].dims[2]
               /\ m = s.name /\ Cardinality({t \in ToSet(sections) : t.name = m}) = 1
                     => IsPrefix(FlattenSeq(tables[m].rows), s.values)
        areKept(sections) ==
            /\ \A b \in {WorkbookOf(s.name) : s \in {t \in ToSet(sections) : HasColumn(t.name)}} :
                  bookIsKept(b, sections, columnsOf(b, sections), WorksheetRows(project, {b})[b])
            /\ \A s \in ToSet(sections), shape \in shapes :
                  KindOfSection(s) = "matrix" =>
                     matrixIsKept(s, sections, MatrixTables(project, {s.name}, s.name :> shape))
    IN  areKept(DataSections(project, None))
==============================================================================
