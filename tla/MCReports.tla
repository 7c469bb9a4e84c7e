------------------------------ MODULE MCReports ------------------------------
(***************************************************************************)
(* Small inputs of Outcome and Compare.                                    *)
(***************************************************************************)
EXTENDS Compare, MCSubject

Guess == [status |-> None, heuristic |-> "yes", shape |-> "dict", confirmed |-> None,
          discovery |-> "object_discovery", kind |-> "origin_object", error |-> None,
          collection |-> FALSE]
ReportItems ==
    {Guess, [Guess EXCEPT !.discovery = "carved", !.kind = "png"],
     [Guess EXCEPT !.heuristic = "no", !.discovery = "opj_boundary"],
     [Guess EXCEPT !.heuristic = None, !.status = "extracted", !.kind = "worksheet"],
     [Guess EXCEPT !.heuristic = None, !.status = "partial", !.kind = "worksheet"],
     [Guess EXCEPT !.heuristic = None, !.status = "unsupported", !.kind = "note",
                   !.error = "no_note_objects"],
     [Guess EXCEPT !.heuristic = "no", !.status = "skipped", !.error = "target_exists"]}
ReportObjects ==
    {[Guess EXCEPT !.shape = "object", !.heuristic = None, !.confirmed = c, !.discovery = None,
                   !.kind = None] : c \in {"yes", "no"}}
Evidence == [opj |-> {None, "input-truncated"}, opju |-> {None, "opju-trailer-missing"},
             other |-> {None}]

Inputs ==
    UNION {[type : {t}, parse : {"ok", "corrupted", "other"}, raised : {None}, mismatch : BOOLEAN,
            large : BOOLEAN, exhaustive : BOOLEAN, evidence : Evidence[t],
            objects : {<<>>} \cup {<<o>> : o \in ReportObjects},
            items : {<<>>} \cup {<<i>> : i \in ReportItems} \cup {<<i, j>> : i, j \in ReportItems},
            enabled : BOOLEAN, unfinished : {FALSE}, codes : {<<>>, <<"no-note-data">>},
            failOnPartial : {TRUE}] : t \in {"opj", "opju", "other"}}
    \cup [type : {"opj", "other"}, parse : {"ok"}, raised : {"filenotfound", "corrupted", "value"},
          mismatch : {FALSE}, large : {FALSE}, exhaustive : {FALSE}, evidence : {None},
          objects : {<<>>}, items : {<<>>}, enabled : {TRUE}, unfinished : {FALSE},
          codes : {<<>>}, failOnPartial : {FALSE}]
------------------------------------------------------------------------------
Signature1 == [path |-> "s.csv"]
Signature2 == [path |-> "n.txt"]
Cells == {[text |-> "1.0", number |-> 10], [text |-> "1.1", number |-> 11],
          [text |-> "2", number |-> 20], [text |-> "nan", number |-> NotANumber],
          [text |-> "x", number |-> None]}
TableFile(rows) == [size |-> Cardinality(DOMAIN rows), data |-> rows, rows |-> rows]
Contents1 == {Nothing, Directory} \cup {TableFile(<<<<c>>>>) : c \in Cells}
             \cup {TableFile(<<<<c, d>>>>) : c, d \in {e \in Cells : e.number \in {10, NotANumber}}}
Contents2 == {Nothing} \cup {[size |-> 1, data |-> d, rows |-> <<>>] : d \in {"a", "b"}}

Targets ==
    [found : {"manifest"},
     items : UNION {[1 .. n -> {Signature1, Signature2}] : n \in 0 .. 2},
     files : {("s.csv" :> c) @@ ("n.txt" :> d) : c \in Contents1, d \in Contents2}]
    \cup [found : {"nothing", "other_suffix", "no_manifest_inside"}, items : {<<>>},
          files : {<<>>}]
------------------------------------------------------------------------------
ReportAFile ==
    /\ Turn(4)
    /\ \E i \in Inputs : subject' = [of |-> "report", in |-> i]

CompareTwo ==
    /\ Turn(4)
    /\ \E l, r \in Targets : subject' = [of |-> "compare", left |-> l, right |-> r]
------------------------------------------------------------------------------
\* What list, inspect and extract claim of an input is what they saw of it: verified is full
\* support, and damage shows in the exit code.
ClaimsAreSound ==
    subject.of = "report" => VerifiedIsFullSupport(subject.in) /\ DamageIsReported(subject.in)

\* A match of compare is an equality of the manifests and of the files.
MatchIsEquality == subject.of = "compare" => MatchIsSound(subject.left, subject.right)
==============================================================================
