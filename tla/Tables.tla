-------------------------------- MODULE Tables --------------------------------
(***************************************************************************)
(* extract_books, extract_matrices and extract_excel                       *)
(* (extract/object_tables_extract_tables/_public.py): what each of them    *)
(* asks the parsers for, and the job it hands to ExtractTabular.           *)
(*                                                                         *)
(* A project has a type, the objects that discovery found (objects, and    *)
(* discovered when it is asked for worksheets alone), the tables of its    *)
(* column descriptors (name, rows, start, end, metadata), what its parser  *)
(* recovers (recovered: functions of names rows, dims and metadata, the    *)
(* set backed), its windows, the excel sheets of its sections (sheets) and *)
(* its file.  The options are recovery, scan, force, format, emit,         *)
(* minColumns, descriptors, and selected, a set of objects or None.        *)
(***************************************************************************)
EXTENDS TableObjects

Names(objects) == {o.name : o \in objects}
Selected(name, options) == options.selected = None \/ name \in Names(options.selected)

Job(project, kind, options, evidence) ==
    [kind |-> kind, type |-> project.type, recovery |-> options.recovery, scan |-> options.scan,
     nonFamily |-> FALSE, scanHints |-> {}, minColumns |-> options.minColumns,
     force |-> options.force, format |-> options.format, emit |-> options.emit,
     selected |-> options.selected, discovered |-> project.discovered, evidence |-> evidence,
     file |-> project.file]

NoEvidence ==
    [rows |-> <<>>, dims |-> <<>>, metadata |-> <<>>, windows |-> {}, hints |-> {}, verified |-> {}]

\* _parser_window_lookup: the windows of an OPJ, and the names they begin with.
WindowNames(project, options) ==
    IF options.recovery /\ project.file.tier = 1
    THEN LET w == project.windows
         IN  w \cup {BeforeAt(n) : n \in w} \cup {BeforeUnderscore(n) : n \in w}
    ELSE {}
------------------------------------------------------------------------------
(* Worksheets.                                                             *)

\* The tables of the descriptors, and the objects that stand for them.
DescriptorTables(project, options) ==
    If(project.type = "opju" /\ options.descriptors,
       SelectSeq(project.tables, LAMBDA t : Selected(t.name, options)))
TableObject(table) ==
    [name |-> table.name, kind |-> "worksheet", offset |-> table.start,
     length |-> table.end - table.start, path |-> [head |-> None, leaf |-> table.name],
     confirmed |-> TRUE, descriptor |-> TRUE, root |-> None, office |-> None]

OfTables(tables, value(_)) ==
    [n \in {t.name : t \in ToSet(tables)} |->
        value(CHOOSE t \in ToSet(tables) : t.name = n)]
TableRows(tables) == OfTables(tables, LAMBDA t : t.rows)


\* What the descriptors say of a name replaces what the parser has recovered.
Overlaid(base, overlay) == overlay @@ base

OnlyTables(tables, options) == tables # <<>> /\ ~options.scan

\* The objects that are extracted from: of an OPJU also those a discovery of its own finds.
SheetObjects(project, options, tables) ==
    LET known == {o.name : o \in {p \in ToSet(project.objects) : p.descriptor}}
        missing == SelectSeq(tables, LAMBDA t : t.name \notin known)
        more(all) == SelectSeq(project.discovered, LAMBDA o : o \notin ToSet(all)
                                                              /\ Selected(o.name, options))
        chosen(all) == IF OnlyTables(tables, options) THEN SelectSeq(all, LAMBDA o : o.descriptor)
                       ELSE IF project.type = "opju" THEN all \o more(all) ELSE all
    IN  chosen(project.objects \o Each(missing, TableObject))

\* parser_backed_worksheet_names: what the parser backs, unless that is too much to trust.
Hints(rows, dims, backed, names) ==
    LET sheets(s) == {n \in s : LooksLikeWorksheet(n)}
        first == IF Cardinality(backed) <= HintLimit THEN backed
                 ELSE sheets(DOMAIN rows \cup DOMAIN dims)
        second == IF first = {} THEN sheets(backed \cap names) ELSE first
    IN  IF second = {} THEN sheets(names) ELSE second

\* Rows of the storage of a whole family are kept only beside a name that anchors them.
Anchored(function, hints) ==
    [n \in {m \in DOMAIN function : hints # {} \/ ~IsFamily(m)} |-> function[n]]

NothingRecovered == [rows |-> <<>>, dims |-> <<>>, metadata |-> <<>>, backed |-> {}]
HasReal(rows) == \E n \in DOMAIN rows : ~IsFamily(n) /\ rows[n] # <<>>
AreWanted(objects, options) ==
    {o \in objects : o.kind = "worksheet" /\ Selected(o.name, options)}

\* The job of an OPJU: what the descriptors say, and what the parser recovers of the rest.
OpjuBooks(project, options, tables, objects, parsed) ==
    LET sheets == AreWanted(ToSet(objects), options)
        names == IF sheets = {} THEN Names(ToSet(project.discovered)) ELSE Names(sheets)
        looking == IF OnlyTables(tables, options) THEN sheets
                   ELSE AreWanted(sheets \cup ToSet(project.discovered), options)
        hinting == {o \in looking : LooksLikeWorksheet(o.name) \/ o.confirmed}
        known(kept) == IF options.recovery
                       THEN [n \in DOMAIN parsed.metadata \cap DOMAIN kept |-> parsed.metadata[n]]
                       ELSE <<>>
        evidence(kept, dims, hints) ==
            [rows |-> kept, dims |-> dims,
             metadata |-> Overlaid(known(kept), OfTables(tables, LAMBDA t : t.metadata)),
             windows |-> {}, hints |-> hints, verified |-> Names(ToSet(tables))]
        of(rows, dims, hints) ==
            [Job(project, "worksheet", [options EXCEPT !.emit = TRUE],
                 evidence(Anchored(Filtered(rows), hints),
                          Anchored(FilteredDims(rows, dims), hints), hints))
                EXCEPT !.nonFamily = HasReal(rows),
                       !.scanHints = hints \cup Names(hinting)]
        job(rows, dims) ==
            of(rows, dims, Hints(rows, dims, parsed.backed \cup Names(ToSet(tables)), names))
    IN  job(Overlaid(parsed.rows, TableRows(tables)),
            Overlaid(parsed.dims, OfTables(tables, LAMBDA t : Dimensions(t.rows))))

\* The job of an OPJ: what the parser recovers when it is asked for, and its windows.
OpjBooks(project, options, objects) ==
    LET collapsed == Collapsed(Names(AreWanted(ToSet(objects), options)))
        job(recovered) ==
            [Job(project, "worksheet", [options EXCEPT !.emit = TRUE],
                 [NoEvidence EXCEPT !.rows = recovered.rows, !.dims = recovered.dims,
                                    !.metadata = recovered.metadata,
                                    !.windows = WindowNames(project, options)])
                EXCEPT !.nonFamily = HasReal(recovered.rows),
                       !.scanHints = {n \in collapsed : LooksLikeWorksheet(n)}]
    IN  job(IF options.recovery /\ collapsed # {} THEN project.recovered ELSE NothingRecovered)

BooksOf(project, options, tables, objects) ==
    [job |-> IF project.type = "opj" THEN OpjBooks(project, options, objects)
             ELSE OpjuBooks(project, options, tables, objects,
                            IF OnlyTables(tables, options) THEN NothingRecovered
                            ELSE project.recovered),
     objects |-> objects]

Books(project, options) ==
    LET books(tables) == BooksOf(project, options, tables, SheetObjects(project, options, tables))
    IN  books(DescriptorTables(project, options))
------------------------------------------------------------------------------
(* Matrices and workbooks.                                                 *)

\* The recovery of an OPJU without a matrix, when no other recovery runs, makes the objects.
SyntheticMatrix(name) ==
    [name |-> name, kind |-> "matrix", offset |-> 0, length |-> 0,
     path |-> [head |-> Bare("Matrix"), leaf |-> name], confirmed |-> TRUE,
     descriptor |-> FALSE, root |-> None, office |-> None]

Matrices(project, options) ==
    LET ours == {o \in ToSet(project.objects) : o.kind = "matrix"}
        opju == project.type = "opju"
        supported == IF opju /\ ours = {} /\ ~options.recovery
                     THEN DOMAIN project.recovered.rows \cap project.recovered.backed ELSE {}
        parsed == ~opju /\ ours # {} /\ options.recovery
        only(f) == IF parsed THEN f ELSE [n \in DOMAIN f \cap supported |-> f[n]]
        quiet == /\ ~opju /\ ~options.recovery /\ ours # {}
                 /\ \A o \in ours : MatrixLike(o.name)
        evidence == [NoEvidence EXCEPT
                        !.rows = only(project.recovered.rows),
                        !.dims = only(project.recovered.dims),
                        !.metadata = IF parsed THEN project.recovered.metadata ELSE <<>>]
    IN  [job |-> Job(project, "matrix", [options EXCEPT !.emit = @ /\ ~quiet], evidence),
         objects |-> project.objects \o SetToSeq({SyntheticMatrix(n) : n \in supported})]

Excel(project, options) ==
    LET parsed == project.type = "opj" /\ options.recovery
        evidence == IF ~parsed THEN NoEvidence
                    ELSE [NoEvidence EXCEPT !.rows = project.recovered.rows,
                                            !.dims = project.recovered.dims,
                                            !.metadata = project.recovered.metadata]
        others == SelectSeq(project.objects, LAMBDA o : o.kind # "excel")
    IN  [job |-> Job(project, "excel", options, evidence),
         objects |-> IF parsed /\ project.sheets # <<>> THEN others \o project.sheets
                     ELSE project.objects]

JobOf(project, kind, options) ==
    CASE kind = "worksheet" -> Books(project, options)
      [] kind = "matrix" -> Matrices(project, options)
      [] kind = "excel" -> Excel(project, options)

\* One job in a directory that has the files of an earlier run.
RunOf(of, existing) ==
    ExtractTabular(of.job, of.objects,
                   [items |-> <<>>, files |-> [t \in existing |-> <<"old">>], scanned |-> <<>>])
Run(project, kind, options, existing) == RunOf(JobOf(project, kind, options), existing)
------------------------------------------------------------------------------
\* What is new or other than before is the file of an item that says so, and without force
\* nothing changes that was there.
WrittenIsListed(done, options, existing) ==
    LET changed == {t \in DOMAIN done.files : t \notin existing \/ done.files[t] # <<"old">>}
        listed == {i.path : i \in {j \in ToSet(done.items) : j.status \in {"extracted", "partial"}}}
    IN  /\ changed \subseteq listed
        /\ ~options.force => /\ existing \subseteq DOMAIN done.files
                             /\ changed \cap existing = {}

\* A table that is said to be extracted with rows has its file, with as many rows, unless
\* another object has the same target and the run overwrites.
ExtractedHasRows(done, kind, options) ==
    LET tables == {n \in DOMAIN done.items : /\ done.items[n].status = "extracted"
                                             /\ done.items[n].kind = kind}
        alone(n) == \A m \in tables \ {n} : done.items[m].path # done.items[n].path
    IN  \A n \in tables :
            LET item == done.items[n] IN
            item.rows > 0 =>
                /\ item.path \in DOMAIN done.files
                /\ alone(n) \/ ~options.force => Len(done.files[item.path]) = item.rows

\* Every table of the descriptors that has meaningful rows is extracted with all of them, as
\* exact, or is not because its file was there.
DescriptorTablesAreExtracted(done, tables) ==
    \A t \in ToSet(tables) :
        Meaningful(t.rows) =>
            \E i \in ToSet(done.items) :
                /\ i.kind = "worksheet" /\ i.name = t.name
                /\ \/ i.status = "extracted" /\ i.exact /\ i.rows = Len(t.rows)
                   \/ i.status = "skipped" /\ i.error = "target_exists"

TablesAreSound(project, kind, options, existing) ==
    LET sound(done) ==
            /\ WrittenIsListed(done, options, existing)
            /\ ExtractedHasRows(done, kind, options)
            /\ kind = "worksheet" =>
                  DescriptorTablesAreExtracted(done, DescriptorTables(project, options))
    IN  sound(Run(project, kind, options, existing))

\* A table of the descriptors that has rows is not said to be extracted, and exact, without
\* them.
ExactTablesHaveTheirRows(project, options, existing) ==
    LET sound(done) ==
            \A t \in ToSet(DescriptorTables(project, options)), i \in ToSet(done.items) :
                (i.kind = "worksheet" /\ i.name = t.name /\ i.status = "extracted" /\ i.exact)
                    => i.rows = Len(t.rows)
    IN  sound(Run(project, "worksheet", options, existing))
==============================================================================
