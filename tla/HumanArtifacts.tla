---------------------------- MODULE HumanArtifacts ----------------------------
(***************************************************************************)
(* The human profile of extract: what is kept of the artifacts a run wrote *)
(* (commands/simple_extract/human_artifacts.py).                           *)
(*                                                                         *)
(* items is the manifest of the run, disk what each path of the output     *)
(* directory holds: Absent, or the writer and the data of a file.  A path  *)
(* that resolves outside the directory is not in the domain of disk.  An   *)
(* item's overlap is its overlapping_objects, alias the name it is         *)
(* recorded by when another item has its content.                          *)
(***************************************************************************)
EXTENDS Commons

CONSTANTS
    EmptyData,      \* the data of a file of no bytes
    MarkupData,     \* the data of the files that begin with <OriginStorage
    Absent          \* the path has no file

Tabular == {"excel", "matrix", "report_table", "worksheet"}
Media == {"graph", "graph_preview", "image", "parser_backed_graph_preview"}
HumanKinds == Tabular \cup Media \cup
    {"analysis_summary", "analysis_report", "attachment", "external_workbook_link",
     "function", "note", "semantic_provenance"}
Materialized == {"extracted", "partial"}

\* The item's own claim about its content, for the kinds that make one.
Untrusted(type, i, file) ==
    \/ /\ i.kind \in Tabular
       /\ \/ i.content \in {"corrupt_text", "empty", "internal_references"}
          \/ i.kind = "matrix" /\ i.generic
          \/ /\ type = "opju"
             /\ ~ /\ i.exact
                  /\ i.method = IF i.kind = "report_table"
                                THEN "opju_report_table_reference_resolution"
                                ELSE "opju_descriptor_table"
    \/ /\ i.kind = "function" /\ ~i.formula
       /\ ~(i.exact /\ i.method = "origin_storage_byte_run_decode")
    \/ i.kind = "note" /\ file.data \in MarkupData

Omitted(type, i, disk) ==
    \/ i.status = "partial"
    \/ i.path \notin DOMAIN disk
    \/ disk[i.path] = Absent
    \/ disk[i.path].data = EmptyData
    \/ Untrusted(type, i, disk[i.path])

ContentGroup(i) ==
    IF i.kind \in {"analysis_report", "report_table"} THEN <<i.kind, i.alias>>
    ELSE IF i.kind \in Tabular THEN <<"table">>
    ELSE IF i.kind \in Media THEN <<"media">>
    ELSE IF i.kind \in {"function", "note"} THEN <<"text">>
    ELSE <<i.kind>>

Priority(i) ==
    LET media == IF i.kind \in {"graph_preview", "parser_backed_graph_preview"} THEN 0
                 ELSE IF i.kind = "graph" THEN 1 ELSE 2
    IN  2 * media + (IF i.generic THEN 1 ELSE 0)

\* The candidates by priority, the manifest's order where it is equal.
Ranked(items, candidates) ==
    Sorted(candidates, LAMBDA a, b : \/ Priority(items[a]) < Priority(items[b])
                                     \/ Priority(items[a]) = Priority(items[b]) /\ a < b)

Duplicates(items, disk, kept, c) ==
    {k \in kept : \/ items[k].path = items[c].path
                  \/ /\ ContentGroup(items[k]) = ContentGroup(items[c])
                     /\ disk[items[k].path].data = disk[items[c].path].data}

\* _record_duplicate.
Record(items, primary, c) ==
    [items EXCEPT ![primary].overlap = @ \cup {items[c].alias}]

\* One candidate: it duplicates what is kept at its path, else what is kept of its data.
Consider(disk, state, c) ==
    LET same == Duplicates(state.items, disk, state.kept, c)
        samePath == {k \in same : state.items[k].path = state.items[c].path}
        primary == CHOOSE k \in (IF samePath # {} THEN samePath ELSE same) : TRUE
    IN  IF same = {} THEN [state EXCEPT !.kept = @ \cup {c}]
        ELSE [state EXCEPT !.items = Record(@, primary, c)]

Ambiguous(type, i) ==
    /\ type = "opju" /\ i.kind \in Tabular \ {"report_table"}
    /\ Cardinality(i.overlap) >= 3

Omit(i) == [i EXCEPT !.status = "skipped", !.path = None, !.error = "omitted"]

\* Mutant: the files of the other items are removed though a kept item has the path.
RemoveAllUnkept(items, disk, kept) ==
    LET written == {n \in DOMAIN items : items[n].status \in Materialized}
    IN  [p \in DOMAIN disk |->
            IF \E n \in written \ kept : items[n].path = p THEN Absent ELSE disk[p]]

\* _remove_unretained_files: of the files this run wrote, those no kept item has.
RemoveUnkept(items, disk, kept) ==
    LET written == {n \in DOMAIN items : items[n].status \in Materialized}
    IN  [p \in DOMAIN disk |->
            IF /\ \E n \in written : items[n].path = p
               /\ ~\E k \in kept : items[k].path = p
            THEN Absent ELSE disk[p]]

\* retain_human_artifacts.  dirs holds the directories the run leaves behind: a marker of a
\* collection has its directory for a path, and an empty one is removed.
Retain(type, items, disk, dirOf) ==
    LET human == {n \in DOMAIN items : items[n].kind \in HumanKinds}
        preserved == {n \in human : items[n].status \notin Materialized}
        early == {n \in human \ preserved : Omitted(type, items[n], disk)}
        isThere(left, p) == IF p \in DOMAIN left THEN left[p] # Absent
                            ELSE \E q \in DOMAIN left : left[q] # Absent /\ dirOf[q] = p
        final(n, i, omitted, left) ==
            IF n \in omitted THEN Omit(i)
            ELSE IF n \in preserved /\ ~isThere(left, i.path) THEN [i EXCEPT !.path = None]
            ELSE i
        retained(merged, kept, omitted, left) ==
            [items |-> Each(Ascending(kept \cup preserved \cup omitted),
                            LAMBDA n : final(n, merged[n], omitted, left)),
             disk |-> left,
             warned |-> omitted # {}]
        without(merged, kept, late) ==
            retained(merged, kept \ late, early \cup late, RemoveUnkept(merged, disk, kept \ late))
        after(end) ==
            without(end.items, end.kept, {k \in end.kept : Ambiguous(type, end.items[k])})
    IN  after(FoldLeft(LAMBDA s, c : Consider(disk, s, c), [items |-> items, kept |-> {}],
                       Ranked(items, human \ (preserved \cup early))))
------------------------------------------------------------------------------
(* Properties of one retention, for the items, the disk before it and the  *)
(* directories of the paths.                                               *)

\* Nothing is hidden: an item of a human kind is in the manifest that is written, with its
\* file or with the reason it was left out, or an item of the manifest names it.
Accounted(type, items, disk, dirOf) ==
    LET accounts(listed) ==
            \A n \in DOMAIN items : items[n].kind \in HumanKinds =>
               \E i \in listed : \/ i.alias = items[n].alias /\ i.kind = items[n].kind
                                 \/ items[n].alias \in i.overlap
    IN  accounts(ToSet(Retain(type, items, disk, dirOf).items))

\* The manifest and the directory agree: what is listed as extracted is a file with the
\* data it had, and a file of the run that is left is listed; a file the run did not write
\* is as it was.
FilesAgree(type, items, disk, dirOf) ==
    LET pathsOf(all, statuses) == {i.path : i \in {j \in ToSet(all) : j.status \in statuses}}
        written == pathsOf(items, Materialized)
        agree(left, listed) ==
            /\ \A p \in listed : p \in DOMAIN disk /\ disk[p] # Absent /\ left[p] = disk[p]
            /\ \A p \in DOMAIN disk \cap written : left[p] # Absent => p \in listed
            /\ \A p \in DOMAIN disk \ written : left[p] = disk[p]
        agrees(result) == agree(result.disk, pathsOf(result.items, {"extracted"}))
    IN  agrees(Retain(type, items, disk, dirOf))
==============================================================================
