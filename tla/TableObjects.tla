----------------------------- MODULE TableObjects -----------------------------
(***************************************************************************)
(* The worksheets, matrices and workbooks of a project, written as tables  *)
(* (extract/object_tables_extract_tables): which objects are extracted,    *)
(* where the rows of each come from, the file and the item it leaves, and  *)
(* the items that are dropped for better ones.                             *)
(*                                                                         *)
(* A job is one call of _extract_tabular_objects: what the parser knows    *)
(* (evidence: rows, dims, metadata, windows, hints, verified), the file    *)
(* (size, tier, numbers: where a row of numbers begins and of which kind, *)
(* archives: where a payload has the signature of a workbook, links: where *)
(* it refers to one) and the options. The state of the job is the items,   *)
(* the files and the rows the scans have found so far.                     *)
(***************************************************************************)
EXTENDS TableNames

CONSTANT WindowLimit    \* _OPJ_PARSER_BOUNDARY_MAX_BYTES

ASSUME WindowLimitAssumption == WindowLimit \in Nat

TableTarget(collection, path, name, type) ==
    [collection |-> collection, path |-> path, name |-> name, type |-> type]

TableItem(job, object, name, path, status, error) ==
    [kind |-> job.kind, name |-> name, of |-> object, source |-> path, status |-> status,
     error |-> error, path |-> None, rows |-> 0, discovery |-> "hint", exact |-> FALSE]

Collection == Bare("collection")
CollectionItem(job, error) ==
    [TableItem(job, None, Collection, None, "unsupported", error)
        EXCEPT !.path = TableTarget(job.kind, None, None, "directory")]
------------------------------------------------------------------------------
(* The evidence for one object.                                            *)

IsSheet(job) == job.kind = "worksheet"
OpjuSheet(job) == job.type = "opju" /\ IsSheet(job)

Known(job) ==
    DOMAIN job.evidence.rows \cup DOMAIN job.evidence.metadata \cup job.evidence.windows

Among(object, names, job) == names # None /\ Resolve(object.name, names, IsSheet(job)) # None

ObjectName(job, object) ==
    LET name(known) == IF IsSheet(job) /\ known # None THEN known ELSE object.name
    IN  name(Resolve(object.name, Known(job), ~OpjuSheet(job)))

\* parser_rows_lookup_name: a worksheet of an OPJU falls back on its workbook.
RowsName(job, object) ==
    LET name(exact, root) == IF exact # None THEN exact
                             ELSE IF OpjuSheet(job) /\ root # None THEN root ELSE object.name
    IN  name(Resolve(object.name, Known(job), ~OpjuSheet(job)),
             Resolve(object.name, Known(job), TRUE))

\* What the evidence says of an object.
About(job, object) ==
    LET e == job.evidence
        about(name, rowsName) ==
            [object |-> object, name |-> name,
             rows |-> Lookup(rowsName, e.rows, ~OpjuSheet(job)),
             dims |-> Lookup(name, e.dims, ~OpjuSheet(job)),
             metadata |-> Lookup(object.name, e.metadata, TRUE),
             isWindow |-> Resolve(object.name, e.windows, TRUE) # None,
             hinted |-> Among(object, e.hints, job),
             scanHinted |-> Among(object, job.scanHints, job),
             verified |-> rowsName \in e.verified]
    IN  about(ObjectName(job, object), RowsName(job, object))

Recovered(about) == about.rows # None \/ about.metadata # None \/ about.isWindow
Backed(about) == Recovered(about) \/ about.object.confirmed \/ about.hinted

\* Small enough for a scan on the word of a name: the tiers of a file are the size a discovery
\* still loads, twice that, and more.
FewHints(job) == Cardinality(job.scanHints) <= 2 /\ job.file.tier <= 2

CanScan(job, matching) ==
    /\ job.scan
    /\ \/ job.file.tier = 1
       \/ /\ OpjuSheet(job)
          /\ \/ job.nonFamily
             \/ \E o \in matching : o.confirmed
             \/ job.scanHints # {} /\ FewHints(job)

\* The rows of a window are looked for when the parser has none that can be used.
LooksForRows(job, about, window, canScan) ==
    LET wanted == IF OpjuSheet(job)
                  THEN /\ Backed(about) \/ (about.scanHinted /\ FewHints(job))
                       /\ about.rows = None \/ ~Meaningful(about.rows)
                  ELSE about.rows = None /\ ~Backed(about)
    IN  /\ wanted /\ canScan /\ about.metadata = None
        /\ job.type = "opju" => window.end - window.start <= WindowLimit
        /\ about.hinted => OpjuSheet(job)

\* scan_numeric_tables_from_bytes, by the rows that begin in the window.
RowsIn(file, start, end, columns) ==
    LET at == {o \in DOMAIN file.numbers : /\ start <= o /\ o < end
                                           /\ columns = 2 => file.numbers[o] = "pair"}
        row(o) == [offset |-> o,
                   cells |-> IF file.numbers[o] = "pair" THEN <<Cell("number", o), Cell("number", o)>>
                             ELSE <<Cell("number", o)>>]
    IN  Each(Ascending(at), row)

\* scan_rows: a window is not scanned again when another scan has left rows in it.
Scanned(job, about, window, before) ==
    LET columns == IF OpjuSheet(job) /\ (Backed(about) \/ about.scanHinted)
                   THEN 1 ELSE job.minColumns
    IN  IF \E row \in ToSet(before) : window.start <= row.offset /\ row.offset < window.end
        THEN before
        ELSE before \o RowsIn(job.file, window.start, window.end, columns)

RowsFound(job, about, window, scanned) ==
    LET noise(rows) == /\ about.rows = <<>> /\ Len(rows) = 1
                       /\ Len(rows[1].cells) = 1 /\ job.file.numbers[rows[1].offset] = "whole"
        found(rows) == IF noise(rows) THEN <<>> ELSE Each(rows, LAMBDA row : row.cells)
    IN  found(SelectSeq(scanned, LAMBDA row : window.start <= row.offset
                                              /\ row.offset < window.end))
------------------------------------------------------------------------------
(* One object.                                                             *)

\* An object that leaves no trace.
LeftOut(job, about, rows, canScan, solo) ==
    /\ rows = <<>>
    /\ \/ IsSheet(job) /\ ~Backed(about) /\ MatrixLike(about.object.name)
       \/ /\ job.kind = "matrix" /\ ~job.recovery /\ ~Backed(about)
          /\ BareMatrix(about.object.name)
       \/ /\ IsSheet(job) /\ job.type = "opj" /\ canScan /\ ~Backed(about)
          /\ about.rows \in {None, <<>>}
       \/ OpjuSheet(job) /\ solo /\ ~Recovered(about) /\ ~about.hinted

\* An Excel object without a table is an attachment, unless it is a workbook by its name.
IsAttachment(job, object, rows) ==
    /\ job.kind = "excel" /\ rows = <<>>
    /\ object.confirmed => object.office # "workbook"

SourcePath(job, about) ==
    LET object == about.object
        renamed(path) == IF about.name # object.name THEN [path EXCEPT !.leaf = about.name]
                         ELSE path
    IN  IF ~IsSheet(job) THEN object.path
        ELSE IF job.type = "opju" THEN OpjuPath(object.path, object.name)
        ELSE renamed(OpjPath(object.path))

\* Every target of an object is in the directory of its path.
TargetOf(job, about, rows) ==
    LET named == IF Backed(about) THEN Safe(about.name) ELSE None
        target(at) ==
            IF ~IsAttachment(job, about.object, rows) THEN TableTarget(job.kind, at, named, "rows")
            ELSE IF about.object.office # None
            THEN TableTarget("attachments", at, about.object.office, "payload")
            ELSE TableTarget("attachments", at, named, "rows")
    IN  target(SourcePath(job, about))

ItemOf(job, about, rows) ==
    [TableItem(job, about.object, about.name, SourcePath(job, about), "partial", None) EXCEPT
        !.kind = IF IsAttachment(job, about.object, rows) THEN "attachment" ELSE job.kind,
        !.discovery = IF ~Backed(about) THEN IF job.type = "opju" THEN "hint" ELSE "scan"
                      ELSE IF about.verified THEN "descriptor" ELSE "parser_window",
        !.exact = about.verified]

\* A state with an item more, and with a file more where one was written.
With(state, item) == [state EXCEPT !.items = Append(@, item)]
Wrote(state, target, content) ==
    [state EXCEPT !.files = [t \in {target} |-> content] @@ @]
Unlinked(state, target) ==
    [state EXCEPT !.files = [t \in DOMAIN @ \ {target} |-> @[t]]]
Exists(state, target) == target \in DOMAIN state.files

\* The bytes of a window that is no table: a payload, or what is kept of a workbook that is
\* not one, with the reference to the workbook that it holds.
Attach(job, object, window, target, item, state) ==
    LET bytes == window.start .. AtMost(window.end, job.file.size) - 1
        payload == <<"bytes", window.start>>
        raw == TableTarget("attachments", target.path, object.office, "storage")
        link == TableTarget("attachments", target.path, "reference", "link")
        mismatch == /\ job.type = "opju" /\ object.confirmed
                    /\ object.office = "sheet_workbook" /\ window.start \notin job.file.archives
        linked(at) ==
            IF bytes \cap job.file.links = {} THEN state
            ELSE IF Exists(state, link) /\ ~job.force
                 THEN With(state, [at EXCEPT !.status = "skipped", !.error = "target_exists"])
                 ELSE With(Wrote(state, link, payload), [at EXCEPT !.status = "extracted"])
        stored(kept, after) ==
            IF Exists(state, raw) /\ ~job.force
            THEN With(after, [kept EXCEPT !.status = "skipped", !.error = "target_exists"])
            ELSE With(Wrote(after, raw, payload),
                      [kept EXCEPT !.status = "partial", !.error = "spreadsheet_mismatch"])
    IN  IF bytes = {}
        THEN With(state, [item EXCEPT !.path = target, !.status = "unsupported",
                                      !.error = "no_attachment_payload"])
        ELSE IF ~mismatch
        THEN With(Wrote(state, target, payload),
                  [item EXCEPT !.path = target, !.status = "extracted"])
        ELSE stored([item EXCEPT !.kind = "origin_storage_region", !.path = raw],
                    linked([item EXCEPT !.kind = "external_workbook_link", !.path = link]))

\* _write_tabular_metadata_sidecar and its item.
Sidecar(job, metadata, target, item, state) ==
    LET sidecar == [target EXCEPT !.type = "metadata"]
        about == [item EXCEPT !.kind = "metadata", !.rows = 0, !.error = None]
    IN  IF metadata = None THEN state
        ELSE IF metadata = "empty" \/ (Exists(state, sidecar) /\ ~job.force)
        THEN With(state, [about EXCEPT !.status = "skipped", !.error = "target_exists",
                                       !.path = IF metadata = "empty" THEN None ELSE sidecar])
        ELSE With(Wrote(state, sidecar, <<"metadata">>),
                  [about EXCEPT !.status = "extracted", !.path = sidecar])

\* The rows in their file; without rows a file that is in the way is removed.
WriteRows(job, rows, target, state) ==
    IF rows # <<>> THEN Wrote(state, target, rows)
    ELSE IF job.force THEN Unlinked(state, target) ELSE state

WriteTable(job, about, rows, canScan, target, item, state) ==
    LET verifiedEmpty == about.verified /\ rows = <<>> /\ about.dims = <<0, 0>>
        placeholder == item.kind = "attachment" /\ ~canScan /\ ~Backed(about)
        hollow == job.kind = "matrix" /\ ~job.recovery /\ ~canScan /\ rows = <<>> /\ ~verifiedEmpty
        blank == (placeholder \/ hollow) /\ job.format # "xlsx"
        extracted == rows # <<>> \/ verifiedEmpty \/ placeholder
        left(done) == IF blank THEN Wrote(done, target, <<>>) ELSE done
        written(table) ==
            Sidecar(job, about.metadata, target, table,
                    With(left(WriteRows(job, rows, target, state)), table))
    IN  written([item EXCEPT
                    !.status = IF extracted THEN "extracted" ELSE "partial",
                    !.error = IF extracted THEN None ELSE "no_extracted_table_rows",
                    !.rows = Len(rows),
                    !.path = IF rows # <<>> \/ blank THEN target ELSE None])

WriteObject(job, about, rows, window, canScan, solo, state) ==
    LET write(target, item) ==
            IF Exists(state, target) /\ ~job.force
            THEN With(state, [item EXCEPT !.status = "skipped", !.error = "target_exists",
                                          !.path = target, !.exact = FALSE])
            ELSE IF item.kind = "attachment" /\ about.object.office # None
            THEN Attach(job, about.object, window, target, [item EXCEPT !.exact = FALSE], state)
            ELSE WriteTable(job, about, rows, canScan, target, item, state)
    IN  IF LeftOut(job, about, rows, canScan, solo) THEN state
        ELSE write(TargetOf(job, about, rows), ItemOf(job, about, rows))

\* _extract_single_tabular_object: the rows of the scan when there are any, or the parser's.
ExtractOne(job, canScan, solo, window, state) ==
    LET rows(about, found) == IF found # <<>> \/ about.rows = None THEN found ELSE about.rows
        write(about, found, scanned) ==
            WriteObject(job, about, rows(about, found), window, canScan, solo,
                        [state EXCEPT !.scanned = scanned])
        found(about, scanned) == write(about, RowsFound(job, about, window, scanned), scanned)
        extract(about) == IF LooksForRows(job, about, window, canScan)
                          THEN found(about, Scanned(job, about, window, state.scanned))
                          ELSE write(about, <<>>, state.scanned)
    IN  extract(About(job, window.object))
------------------------------------------------------------------------------
(* The objects that are extracted.                                         *)

\* _discover_worksheet_candidates_for_opju_parser_fallback.
Fallback(job) ==
    LET e == job.evidence
        real == \E n \in DOMAIN e.rows : ~IsFamily(n)
        orAll(backed, sheets) == IF Trusted(e.hints) \/ backed = <<>> THEN sheets ELSE backed
        backedOf(sheets) == orAll(SelectSeq(sheets, LAMBDA o : HasEvidence(o, e, None)), sheets)
        found == IF Trusted(e.hints)
                 THEN SubSeq(job.discovered, 1, AtMost(HintLimit, Len(job.discovered)))
                 ELSE job.discovered
    IN  IF ~OpjuSheet(job) \/ (~real /\ DOMAIN e.metadata = {}) THEN <<>>
        ELSE backedOf(SelectSeq(found, LAMBDA o : LooksLikeWorksheet(o.name)))

\* _resolve_tabular_matching_objects_for_extract.  A worksheet of an OPJU stays although the
\* parser knows nothing of it, when it knows something of another one; the objects of the
\* other kinds have to be known.
Matching(job, matching) ==
    LET e == job.evidence
        isKnown(o) == HasEvidence(o, e, IF IsSheet(job) THEN e.hints ELSE None)
        isHinted(o) == Trusted(e.hints) /\ Resolve(o.name, e.hints, TRUE) # None
        orAll(evident, all) == IF evident = <<>> THEN all ELSE evident
        ofOpj(all) ==
            IF IsSheet(job) /\ job.recovery /\ DOMAIN e.rows \cup DOMAIN e.metadata # {}
            THEN orAll(SelectSeq(all, LAMBDA o : HasEvidence(o, e, None)), all) ELSE all
        ofOpju(all) ==
            IF ~IsSheet(job) THEN SelectSeq(all, isKnown)
            ELSE IF \E o \in ToSet(all) : isKnown(o) \/ isHinted(o) THEN all
            ELSE SelectSeq(all, LAMBDA o : LooksLikeWorksheet(o.name))
        chosen(all) == IF job.type = "opj" THEN ofOpj(all) ELSE ofOpju(all)
        all == IF matching = <<>> THEN Fallback(job) ELSE matching
    IN  IF IsSheet(job) /\ (job.recovery \/ job.type = "opju")
        THEN Coalesced(chosen(all), e, job.type = "opju") ELSE chosen(all)
------------------------------------------------------------------------------
(* The items that are dropped for better ones, and the files with them.    *)

WithoutRows(item) == item.status = "partial" /\ item.error = "no_extracted_table_rows"

\* The source of an item without the suffix that makes it unique.
SourceKey(item) ==
    IF item.source = None THEN None ELSE [item.source EXCEPT !.leaf.dup = None]
NameKey(item) == <<item.name, SourceKey(item)>>

StatusRank == [extracted |-> 4, unsupported |-> 3, partial |-> 2, skipped |-> 1]

\* One item of the kind, in a state of the items kept.
Deduped(names, paths, kept, item) ==
    LET same == {n \in DOMAIN kept : /\ kept[n].kind = item.kind /\ kept[n].name # Collection
                                     /\ NameKey(kept[n]) = NameKey(item)}
        twin == {n \in same : WithoutRows(kept[n]) /\ kept[n].discovery = item.discovery}
        better == {n \in same : n = Min(same)
                                 /\ StatusRank[item.status] > StatusRank[kept[n].status]}
    IN  IF WithoutRows(item)
        THEN IF item.name \in names \/ twin # {} THEN kept ELSE Append(kept, item)
        ELSE IF item.status = "skipped" /\ item.path \in paths THEN kept
        ELSE IF same = {} THEN Append(kept, item)
        ELSE [n \in DOMAIN kept |-> IF n \in better THEN item ELSE kept[n]]

\* _retained: the files that only dropped items have.
Orphaned(dropped, kept) == {i.path : i \in dropped} \ {i.path : i \in kept}

\* _dedupe_partial_tabular_items_with_extracted_names, for the worksheets, whose items have
\* no path when they have no rows.
Dedupe(state) ==
    LET ours(i) == i.kind = "worksheet" /\ i.name # Collection
        all == ToSet(state.items)
        written == {i \in all : ours(i) /\ i.status = "extracted" /\ i.path # None}
        idle == ~\E i \in all : ours(i) /\ (i.path # None \/ WithoutRows(i))
        bare == \E i \in all : ours(i) /\ WithoutRows(i) /\ i.path = None
        one(kept, i) ==
            IF i.kind # "worksheet" THEN Append(kept, i)
            ELSE IF i.name = Collection THEN kept \o If(~bare, <<i>>)
            ELSE Deduped({w.name : w \in written}, {w.path : w \in written}, kept, i)
        dropped(kept) == {j \in all \ ToSet(kept) : j.status \in {"extracted", "partial"}}
        settled(kept) ==
            [state EXCEPT !.items = kept,
                          !.files = [t \in DOMAIN @ \ Orphaned(dropped(kept), ToSet(kept)) |-> @[t]]]
    IN  IF idle THEN state ELSE settled(FoldLeft(one, <<>>, state.items))
------------------------------------------------------------------------------
(* _extract_tabular_objects.                                               *)

\* An object is extracted from the window it has among all the objects of its kind.
WindowOf(job, objects, object) ==
    LET last(own, windows) ==
            IF own = {} THEN [object |-> object, start |-> object.offset, end |-> job.file.size]
            ELSE [windows[Max(own)] EXCEPT !.object = object]
        own(windows) == last({n \in DOMAIN windows : /\ windows[n].object.offset = object.offset
                                                      /\ windows[n].object.path = object.path},
                             windows)
    IN  own(Windows(objects, job.file.size, OpjuSheet(job)))

\* What _extract_single_tabular_object counts as extracted.
Counts(item) ==
    \/ item.kind = "origin_storage_region" /\ item.status = "partial"
    \/ /\ item.status = "extracted"
       /\ \/ item.rows > 0
          \/ item.exact /\ item.kind # "metadata"
          \/ item.kind = "external_workbook_link"
          \/ item.kind = "attachment" /\ item.of.office # None

\* A kind nothing was extracted of leaves an item that says so, unless another item does.
ClosingItem(job, emit, items) ==
    LET ours == {i \in ToSet(items) : i.kind = job.kind} IN
    If(/\ emit
       /\ \A i \in ours : i.name # Collection /\ i.status \notin {"extracted", "skipped"}
       /\ OpjuSheet(job) => ~\E i \in ours : WithoutRows(i) /\ i.discovery # "scan",
       <<CollectionItem(job, "no_extracted_table_rows")>>)

\* The objects one after another, and what is left to say of the kind.
ExtractAll(job, emit, canScan, ofKind, chosen, state) ==
    LET solo == Len(chosen) = 1 /\ job.evidence.hints = {}
        around == IF ofKind = <<>> THEN chosen ELSE ofKind
        counted(done) == \E n \in Len(state.items) + 1 .. Len(done.items) : Counts(done.items[n])
        closed(ended, silent) ==
            [ended EXCEPT !.items = @ \o ClosingItem(job, emit /\ ~silent, ended.items)]
        settled(done) == closed(IF IsSheet(job) THEN Dedupe(done) ELSE done, counted(done))
    IN  settled(FoldLeft(LAMBDA s, o : ExtractOne(job, canScan, solo, WindowOf(job, around, o), s),
                         [state EXCEPT !.scanned = <<>>], chosen))

ExtractTabular(job, objects, state) ==
    LET ofKind == SelectSeq(objects, LAMBDA o : o.kind = job.kind)
        matching == SelectSeq(ofKind, LAMBDA o : job.selected = None \/ o \in job.selected)
        emit == job.emit /\ (job.type = "opju" => IsSheet(job))
    IN  IF matching = <<>> /\ Fallback(job) = <<>> /\ emit
        THEN With(state, CollectionItem(job, "no_objects"))
        ELSE ExtractAll(job, emit, CanScan(job, ToSet(matching)), ofKind,
                        ByOffset(Matching(job, matching)), state)
==============================================================================
