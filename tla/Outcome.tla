------------------------------- MODULE Outcome -------------------------------
(***************************************************************************)
(* What a command of deopjufy claims about an input: the support class,    *)
(* the coverage scope, the status and the exit code (commands/support.py,  *)
(* list.py, inspect.py, metadata.py, dispatch.py).                         *)
(*                                                                         *)
(* An item is a manifest item, an item of the list or a discovered object. *)
(* None stands for an attribute the item does not have; collection says    *)
(* that the item is the one a failed collection leaves (excel_collection,  *)
(* book_collection).                                                       *)
(***************************************************************************)
EXTENDS Commons

\* None is none of the words the decisions below look for.
ASSUME NoneIsNoWord ==
    None \notin {"extracted", "partial", "unsupported", "skipped", "yes", "no", "input-truncated"}

SupportedTypes == {"opj", "opju"}

Success == 0
General == 1
Usage == 2
Unsupported == 3
Partial == 4
Missing == 5
Corrupted == 6
------------------------------------------------------------------------------
(* The items.                                                              *)

ItemStatus(i) ==
    IF i.status # None THEN i.status
    ELSE IF i.heuristic # None THEN (IF i.heuristic = "yes" THEN "partial" ELSE "extracted")
    ELSE IF i.shape = "object" /\ i.confirmed # None
         THEN (IF i.confirmed = "yes" THEN "extracted" ELSE "partial")
    ELSE None

ParserBacked(i) ==
    IF i.heuristic # None THEN i.heuristic = "no"
    ELSE IF i.confirmed # None THEN i.confirmed = "yes"
    ELSE IF i.shape = "dict"
         THEN i.status \in {"extracted", "partial", "skipped"} /\ i.discovery # "carved"
         ELSE i.status \in {"extracted", "partial"}

NotFinished == {"partial", "unsupported", "skipped"}

\* The statuses and errors by which a family says that it found nothing.
NothingFound ==
    {<<"graph", s, e>> : s \in {"partial", "unsupported"},
                         e \in {"no_graph_previews", "no_embedded_image_block"}}
    \cup {<<"graph_preview", s, "no_embedded_image_block">> : s \in {"partial", "unsupported"}}
    \cup {<<"worksheet", s, "no_worksheet_objects">> : s \in {"partial", "unsupported"}}
    \cup {<<"origin_storage_report", s, "no_origin_storage_reports">> :
             s \in {"partial", "unsupported"}}
    \cup {<<"table_scan", "skipped", e>> :
             e \in {"table_scan_disabled_by_option", "table_scan_disabled_by_scan_profile"}}
    \cup {<<"matrix", "unsupported", "no_matrix_objects">>,
          <<"function", "unsupported", "no_function_objects">>,
          <<"excel", "unsupported", "no_excel_objects">>,
          <<"note", "unsupported", "no_note_objects">>}

IsReconnaissance(i) ==
    LET status == ItemStatus(i) IN
    \/ /\ status \in NotFinished
       /\ \/ i.kind = None /\ i.discovery = None
          \/ i.discovery = "object_discovery"
          \/ i.kind = "origin_object"
    \/ i.kind = "table_scan" /\ status = "partial"
    \/ <<i.kind, status, i.error>> \in NothingFound
    \/ /\ i.error = "no_extracted_table_rows" /\ i.collection
       /\ \/ i.kind = "excel" /\ status \in {"partial", "unsupported"}
          \/ i.kind = "worksheet" /\ status = "unsupported"
    \/ status = "skipped" /\ i.error \in {"target_exists", "excluded_by_text_extraction"}

LeavesPartial(i) == ItemStatus(i) \in NotFinished /\ ~IsReconnaissance(i)
------------------------------------------------------------------------------
(* The claims.                                                             *)

\* The warnings that say no more than that a family is absent.  The message of the
\* notes that extract adds is not the one _OPJ_WARNING_CODE_MAP holds.
AllowedCodes == {"no-worksheet-data", "no-matrix-data", "no-excel-data", "no-note-data",
                 "no-function-data", "no-graph-previews", "no-listable-items",
                 "no-raw-region-text", "no-raw-region-unknown-low-entropy",
                 "no-raw-byte-ranges", "no-raw-blocks", "no-text-regions"}
UnmappedMessages == {"no-note-data"}

FullSupport(parser, status, codes, items) ==
    /\ parser \in {"ok", "empty"} /\ status \in {"ok", "empty"}
    /\ \A i \in ToSet(items) : ParserBacked(i) /\ ~LeavesPartial(i)
    /\ ToSet(codes) \subseteq AllowedCodes \ UnmappedMessages

SupportClass(type, parser, status, codes, items) ==
    LET backed == \E i \in ToSet(items) : ParserBacked(i)
        allBacked == \A i \in ToSet(items) : ParserBacked(i)
        unfinished == \E i \in ToSet(items) : LeavesPartial(i)
    IN  IF parser = "error" THEN "failed"
        ELSE IF type \notin SupportedTypes \/ parser = "unsupported" THEN "heuristic"
        ELSE IF type = "opj" /\ parser = "empty" THEN "parser"
        ELSE IF ~backed THEN "heuristic"
        ELSE IF IF type = "opj" THEN FullSupport(parser, status, codes, items)
                                ELSE allBacked /\ ~unfinished
             THEN "parser"
        ELSE "partial"

\* Mutant: a warning does not withdraw the claim.
VerifiedWithWarnings(type, parser, status, codes, items) ==
    /\ type = "opj" /\ parser \in {"ok", "empty"} /\ status \in {"ok", "empty"}
    /\ \A i \in ToSet(items) : ParserBacked(i)
    /\ codes = codes

VerifiedCoverage(type, parser, status, codes, items) ==
    /\ type = "opj" /\ parser \in {"ok", "empty"} /\ status \in {"ok", "empty"}
    /\ \A i \in ToSet(items) : ParserBacked(i)
    /\ codes = <<>>

SupportScope(type, parser, status, codes, items) ==
    LET blocking(i) == IF type = "opju" THEN ItemStatus(i) \in NotFinished
                                        ELSE LeavesPartial(i)
    IN  IF parser = "error" THEN "failed"
        ELSE IF type \notin SupportedTypes THEN "recognized"
        ELSE IF status = "partial" \/ \E i \in ToSet(items) : blocking(i) THEN "partial"
        ELSE IF parser = "unsupported" \/ status = "unsupported" THEN "recognized"
        ELSE IF VerifiedCoverage(type, parser, status, codes, items)
                /\ \E i \in ToSet(items) : ParserBacked(i)
             THEN "verified"
        ELSE IF items # <<>> THEN "recovered" ELSE "recognized"

CommandState(supported, parser, hasItems) ==
    IF ~supported \/ parser = "error" THEN "unsupported"
    ELSE IF ~hasItems THEN parser
    ELSE "ok"
------------------------------------------------------------------------------
(* list and inspect.  An input has the type detection gives it, a header   *)
(* that contradicts the type or not, what the native parser does with it,  *)
(* the objects and the items discovery finds, and the evidence that it is  *)
(* cut short.                                                              *)

Definitive(evidence) == evidence = "input-truncated"

\* _record_heuristic_cap.
Capped(items, limit) ==
    /\ limit # None
    /\ \E k \in {i.kind : i \in ToSet(items)} :
          Cardinality({n \in DOMAIN items : /\ items[n].kind = k
                                            /\ items[n].heuristic = "yes"
                                            /\ items[n].discovery # "carved"}) >= limit

KindLimit(in) ==
    IF in.type = "opju" \/ (in.type = "opj" /\ in.large) THEN CapLimit ELSE None

\* The reports _safe_detect_file and _list_failure_payload make of a command that failed
\* before or outside the parser.
FailureExit(raised) ==
    CASE raised = "corrupted" -> Corrupted
      [] raised = "unsupported" -> Unsupported
      [] raised = "value" -> Usage
      [] OTHER -> General

FailureReport(type, raised) ==
    LET parser == IF raised = "corrupted" THEN "error" ELSE "unsupported"
        codes == <<"command-exec-error">>
    IN  [class |-> SupportClass(type, parser, "unsupported", codes, <<>>),
         scope |-> SupportScope(type, parser, "unsupported", codes, <<>>),
         status |-> CommandState(type \in SupportedTypes, parser, FALSE),
         parser |-> parser, codes |-> codes, warnings |-> codes, items |-> <<>>,
         exit |-> FailureExit(raised)]

ListExit(in, parser, items) ==
    IF parser = "error" THEN (IF in.parse = "corrupted" THEN Corrupted ELSE General)
    ELSE IF items = <<>> THEN Unsupported
    ELSE IF Definitive(in.evidence) THEN Corrupted
    ELSE Success

\* An input that cannot be read has no type.
Failed(in) == FailureReport(IF in.raised = "filenotfound" THEN "unknown" ELSE in.type, in.raised)

NotCarved(type, items) ==
    IF type = "opju" THEN SelectSeq(items, LAMBDA i : i.discovery # "carved") ELSE items

ListReport(in) ==
    LET supported == in.type \in SupportedTypes
        failed == supported /\ in.parse # "ok"
        items == IF supported /\ ~failed THEN in.items ELSE <<>>
        parser == IF ~supported THEN "unsupported"
                  ELSE IF failed THEN "error"
                  ELSE IF items = <<>> THEN "empty" ELSE "ok"
        codes ==
            IF supported
            THEN If(failed, <<"native-parser-error">>)
                 \o If(parser = "empty", <<"no-listable-items">>)
                 \o If(in.mismatch /\ ~failed, <<"header-signature-mismatch">>)
                 \o If(Capped(items, IF in.exhaustive THEN None ELSE KindLimit(in)),
                           <<"heuristic-items-capped">>)
                 \o If(in.evidence # None /\ ~failed, <<in.evidence>>)
            ELSE If(in.mismatch, <<"header-signature-mismatch">>)
                 \o <<"unsupported-input-type">>
        status == IF supported THEN CommandState(TRUE, parser, items # <<>>)
                               ELSE "unsupported"
        claimed == NotCarved(in.type, items)
    IN  IF in.raised # None THEN Failed(in) ELSE
        [class |-> SupportClass(in.type, parser, status, codes, claimed),
         scope |-> SupportScope(in.type, parser, status, codes, claimed),
         status |-> status, parser |-> parser, codes |-> codes,
         \* warnings are the messages of codes, except when the parser succeeded
         warnings |-> IF parser = "ok" THEN <<>> ELSE codes,
         items |-> claimed,
         exit |-> IF supported THEN ListExit(in, parser, items) ELSE Unsupported]

\* What inspect prints is claimed of the objects of an OPJ, not of its list items.
InspectReport(in) ==
    LET supported == in.type \in SupportedTypes
        failed == supported /\ in.parse # "ok"
        objects == IF supported /\ ~failed THEN in.objects ELSE <<>>
        items == IF supported /\ ~failed THEN in.items ELSE <<>>
        images == Cardinality({n \in DOMAIN items : items[n].discovery = "carved"})
        parser == IF ~supported THEN "unsupported"
                  ELSE IF failed THEN "error"
                  ELSE IF in.type = "opj" /\ items = <<>> THEN "empty" ELSE "ok"
        codes ==
            If(~supported, <<"unsupported-input-type">>)
            \o If(failed, <<"native-parser-error">>)
            \o If(parser = "empty", <<"no-listable-items">>)
            \o If(in.mismatch /\ ~failed, <<"header-signature-mismatch">>)
            \o If(Capped(items, KindLimit(in)), <<"heuristic-items-capped">>)
            \o If(in.evidence # None /\ supported /\ ~failed, <<in.evidence>>)
        hasItems == IF items # <<>> THEN TRUE ELSE Len(objects) + images > 0
        status == CommandState(supported, parser, hasItems)
        claimed == IF in.type = "opju" THEN NotCarved("opju", items) ELSE objects
    IN  IF in.raised # None THEN Failed(in) ELSE
        [class |-> SupportClass(in.type, parser, status, codes, claimed),
         scope |-> SupportScope(in.type, parser, status, codes, claimed),
         status |-> status, parser |-> parser, codes |-> codes, warnings |-> codes,
         items |-> claimed,
         exit |-> IF parser = "error" THEN (IF in.parse = "corrupted" THEN Corrupted ELSE General)
                  ELSE IF ~supported THEN Unsupported
                  ELSE IF Definitive(in.evidence) THEN Corrupted
                  ELSE Success]
------------------------------------------------------------------------------
(* extract, when every step has run: enabled says that one was asked for,  *)
(* unfinished that one of them came to less than it should.                *)

ParserStatus(enabled, items) ==
    LET some(status) == \E i \in ToSet(items) : i.status = status
    IN  IF ~enabled THEN "unsupported"
        ELSE IF items = <<>> THEN "empty"
        ELSE IF some("extracted") THEN "ok"
        ELSE IF some("partial") \/ some("unsupported") THEN "unsupported"
        ELSE "empty"

PartialOutputs(items) ==
    \E i \in ToSet(items) : i.status \in {"partial", "unsupported"} /\ ~IsReconnaissance(i)

\* cmd_extract's flag partial.
PartialExtraction(in) == in.unfinished \/ ~in.enabled \/ in.evidence # None

ExtractReport(in) ==
    LET parser == ParserStatus(in.enabled, in.items)
        codes == If(in.evidence # None, <<in.evidence>>) \o in.codes
                 \o If(~in.enabled, <<"no-extraction-steps">>)
        status == IF ~in.enabled THEN "unsupported"
                  ELSE IF PartialExtraction(in) THEN "partial" ELSE "ok"
    IN  [class |-> SupportClass(in.type, parser, status, codes, in.items),
         scope |-> SupportScope(in.type, parser, status, codes, in.items),
         status |-> status, parser |-> parser, codes |-> codes, warnings |-> codes,
         items |-> in.items,
         exit |-> IF Definitive(in.evidence) THEN Corrupted
                  ELSE IF in.failOnPartial /\ (PartialExtraction(in) \/ PartialOutputs(in.items))
                       THEN Partial
                  ELSE Success]
------------------------------------------------------------------------------
(* The commands main dispatches: what an exception that leaves a handler   *)
(* makes of the exit code.                                                 *)

\* A command's own handler, and a subclass before its base, goes first.
MainExit(raised) ==
    CASE raised = "filenotfound" -> General
      [] raised = "modulenotfound" -> Missing
      [] raised \in {"runtime", "fileexists", "notimplemented"} -> General
      [] raised = "corrupted" -> Corrupted
      [] raised = "unsupported" -> Unsupported
      [] raised = "value" -> Usage
      [] raised = "brokenpipe" -> Success
      [] raised \in {"os", "deopjufy"} -> General
------------------------------------------------------------------------------
(* Properties of one input.                                                *)

Reports(in) ==
    {ListReport(in), InspectReport(in)}
    \cup IF in.type \in SupportedTypes /\ in.parse = "ok" /\ in.raised = None
         THEN {ExtractReport(in)} ELSE {}

\* What is claimed to be verified is an OPJ the parser read in full: it is of the class
\* parser, nothing warns, no item of the claim is unfinished, and the command succeeds.
VerifiedIsFullSupport(in) ==
    \A r \in Reports(in) :
        /\ r.scope = "verified" => /\ in.type = "opj" /\ r.class = "parser"
                                  /\ r.exit = Success /\ r.codes = <<>>
                                  /\ \A i \in ToSet(r.items) : ~LeavesPartial(i)
        /\ r.scope = "failed" <=> r.class = "failed"

\* Damage is not passed over: a parser that gave up and an input that is cut short show in
\* the exit code and in the warnings of each command, and no command calls it verified.
DamageIsReported(in) ==
    in.raised = None /\ in.type \in SupportedTypes
    /\ (in.parse # "ok" \/ Definitive(in.evidence)) =>
        /\ \A r \in Reports(in) : r.exit # Success /\ r.codes # <<>> /\ r.scope # "verified"
        /\ ListReport(in).exit = Corrupted => InspectReport(in).exit = Corrupted
==============================================================================
