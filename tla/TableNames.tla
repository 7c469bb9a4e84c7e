------------------------------ MODULE TableNames ------------------------------
(***************************************************************************)
(* The names of worksheets and matrices, and what stands for what: how a   *)
(* name that discovery found is looked up among the names the parser has   *)
(* (object_tables_helpers/_names.py), which rows count as a table          *)
(* (object_tables_extract_filters), and which of the objects that stand    *)
(* for one sheet is extracted (object_tables_helpers/_coalesce.py).        *)
(*                                                                         *)
(* A name is root[_part...][/sheet][@window][__dup], a record of its       *)
(* pieces: part is the sequence of what stands between underscores, window *)
(* is a number. A source path is [head, leaf], two names. A cell is        *)
(* [class, text].                                                          *)
(***************************************************************************)
EXTENDS RawRegions

CONSTANTS
    HintLimit,      \* _OPJU_PARSER_NAME_HINT_LIMIT
    NumberedRoots   \* the roots that end with a digit

ASSUME HintLimitAssumption == HintLimit \in Nat

Bare(root) == [root |-> root, part |-> <<>>, sheet |-> None, window |-> None, dup |-> None]

HasUnderscore(name) == name.part # <<>> \/ name.dup # None
BeforeAt(name) ==
    IF name.window = None THEN name ELSE [name EXCEPT !.window = None, !.dup = None]
BeforeUnderscore(name) == IF name.part # <<>> THEN Bare(name.root) ELSE [name EXCEPT !.dup = None]
WithoutSuffixes(name) == [name EXCEPT !.window = None, !.dup = None]

\* _SAFE_NAME_RX: what is not a letter, a digit, a dot or a dash is an underscore.
Safe(name) ==
    [name EXCEPT !.part = @ \o If(name.sheet # None, <<name.sheet>>)
                            \o If(name.window # None, <<ToString(name.window)>>),
                 !.sheet = None, !.window = None]

MatrixLike(name) == name.root \in {"MSheet1", "MBook1", "PdM1", "Matrix1"}
BareMatrix(name) == name.root \in {"MSheet1", "MBook1"}
IsFamily(name) == name.root = "origin_storage_family_1"
LooksLikeWorksheet(name) == ~IsFamily(name) /\ name.root # "theme_hint"

\* The names of other kinds of window that a matrix of the number 1 goes by.
Aliases(name) ==
    CASE name = Bare("PdM1") -> <<Bare("1"), Bare("M1"), Bare("MBook1")>>
      [] name \in {Bare("MSheet1"), Bare("M1")} -> <<Bare("MBook1")>>
      [] OTHER -> <<>>

\* _resolve_parser_record_name: the names it tries, in order.
Tried(name, preferRoot) ==
    LET head == BeforeAt(name) IN
    IF ~preferRoot THEN <<name>>
    ELSE If(~HasUnderscore(head), <<name>>)
         \o If(head.part # <<>> /\ head.dup = None, <<BeforeUnderscore(head)>>)
         \o <<head>>
         \o If(HasUnderscore(name), <<BeforeUnderscore(name)>>)
         \o <<name>>
         \o If(name.dup # None, <<[name EXCEPT !.dup = None]>>)
         \o Aliases(name)

Resolve(name, records, preferRoot) ==
    LET first(known) == IF known = <<>> THEN None ELSE Head(known)
    IN  first(SelectSeq(Tried(name, preferRoot), LAMBDA n : n \in records))

\* The value of a name in a function of names, or None.
Lookup(name, function, preferRoot) ==
    LET value(known) == IF known = None THEN None ELSE function[known]
    IN  value(Resolve(name, DOMAIN function, preferRoot))

\* _normalize_opj_worksheet_source_path and _normalize_opju_worksheet_source_path.
OpjPath(path) ==
    IF \/ path.head = Bare("Book") /\ path.leaf.root \in {"Book1", "Book2"}
       \/ path.head = Bare("MBook") /\ path.leaf.root \in {"MBook1", "MSheet1", "M1"}
    THEN [path EXCEPT !.head = BeforeUnderscore(path.leaf)]
    ELSE path
OpjuPath(path, name) ==
    IF path.head # Bare("object") THEN path
    ELSE [head |-> Bare("Book"),
          leaf |-> [Safe(name) EXCEPT !.dup = IF path.leaf.dup # None THEN path.leaf.dup ELSE @]]
------------------------------------------------------------------------------
(* Rows that are a table.                                                  *)

Cell(class, text) == [class |-> class, text |-> text]

\* _is_parser_recovered_row_meaningful. A number is also a list of numbers and a reference to
\* a cell; a word passes _is_single_column_token_meaningful, noise does not, and a label is
\* one of "plot", "slope", "intercept".
Meaningful(rows) ==
    LET filled == {SelectSeq(rows[n], LAMBDA c : c.class # "blank") : n \in DOMAIN rows} \ {<<>>}
        singles == {row[1] : row \in filled}
        useful == {c \in singles : c.class \in {"number", "word"}}
    IN  \/ \E row \in filled : Len(row) > 1
        \/ Cardinality(singles) = 1 /\ \A c \in singles : c.class = "number"
        \/ /\ Cardinality(singles) > 1 /\ useful # {}
           /\ \A c \in singles : c.class # "label"
           /\ 4 * Cardinality(useful) >= Cardinality(singles)

Dimensions(rows) == <<Len(rows), Max({0} \cup {Len(rows[n]) : n \in DOMAIN rows})>>

\* _filter_meaningful_recovered_rows: the others keep their names, without rows.
Filtered(rows) == [n \in DOMAIN rows |-> IF Meaningful(rows[n]) THEN rows[n] ELSE <<>>]
FilteredDims(rows, dims) ==
    [n \in DOMAIN rows |-> IF ~Meaningful(rows[n]) THEN <<0, 0>>
                           ELSE IF n \in DOMAIN dims THEN dims[n] ELSE Dimensions(rows[n])]
------------------------------------------------------------------------------
(* Which object stands for a sheet.  evidence has what the parser knows:   *)
(* the functions rows and metadata, the sets windows and hints (or None).  *)

Trusted(hints) == Cardinality(hints) <= HintLimit

\* _parser_tabular_evidence, with the hints the caller passes.
HasEvidence(object, evidence, hints) ==
    /\ object.kind = "worksheet" => LooksLikeWorksheet(object.name)
    /\ \/ Resolve(object.name, DOMAIN evidence.rows \cup DOMAIN evidence.metadata
                                  \cup evidence.windows, TRUE) # None
       \/ /\ hints # None
          /\ IF hints # {} /\ Trusted(hints) THEN Resolve(object.name, hints, TRUE) # None
             ELSE object.confirmed
       \/ object.kind = "excel" /\ object.confirmed

\* _parser_backed_name_lookup and what the coalescing adds to it.
ParserNames(objects, evidence) ==
    LET found == {o.name : o \in objects} \cup evidence.windows
    IN  found \cup {BeforeAt(n) : n \in found} \cup {[n EXCEPT !.dup = None] : n \in found}
              \cup DOMAIN evidence.rows \cup DOMAIN evidence.metadata
              \cup (IF Trusted(evidence.hints) THEN evidence.hints ELSE {})

\* _collect_opju_worksheet_family_roots.
FamilyRoots(names) ==
    LET bases(root) == {WithoutSuffixes(n) : n \in {m \in names : m.root = root /\ m.part # <<>>}}
    IN  {Bare(r) : r \in {s \in {n.root : n \in names} \ NumberedRoots :
                             Cardinality(bases(s)) = 1}}

FamilyRoot(name, roots) ==
    LET base == WithoutSuffixes(name)
    IN  IF base \in roots THEN base
        ELSE IF base.part # <<>> /\ Bare(base.root) \in roots THEN Bare(base.root) ELSE None

\* _rank, the weight of the lookup of a name that is in it left out.
Rank(object, evidence) ==
    LET exact == IF object.name \in DOMAIN evidence.rows THEN evidence.rows[object.name]
                 ELSE Lookup(object.name, evidence.rows, TRUE)
        isKnown(names) == Resolve(object.name, names, TRUE) # None
        rank(rows, weight, metadata) ==
            <<AtLeast(AtLeast(weight, metadata), 1), weight, metadata,
              IF Trusted(evidence.hints) /\ isKnown(evidence.hints) THEN 1 ELSE 0,
              IF object.confirmed THEN 1 ELSE 0, IF rows = None THEN 0 ELSE Len(rows),
              -object.name.window>>
    IN  rank(exact, IF exact = None THEN 0 ELSE IF exact = <<>> THEN 2 ELSE 3,
             IF isKnown(DOMAIN evidence.metadata) THEN 2 ELSE 0)

Outranks(a, b) ==
    \E k \in DOMAIN a : a[k] > b[k] /\ \A j \in 1 .. k - 1 : a[j] = b[j]

\* _select_window_representative, of objects in the order of their offsets.
Representative(objects, evidence) ==
    LET better(best, o) == IF Outranks(Rank(o, evidence), Rank(best, evidence)) THEN o ELSE best
    IN  FoldLeft(better, Head(objects), Tail(objects)).name

\* The representative of each sheet of several windows, and of each family of them.
OfWindows(windowed, evidence) ==
    [base \in {BeforeAt(o.name) : o \in {p \in ToSet(windowed) : LooksLikeWorksheet(p.name)}} |->
        Representative(SelectSeq(windowed, LAMBDA o : BeforeAt(o.name) = base
                                                      /\ LooksLikeWorksheet(o.name)), evidence)]
OfFamilies(windowed, roots, evidence) ==
    [root \in {FamilyRoot(o.name, roots) : o \in ToSet(windowed)} \ {None} |->
        Representative(SelectSeq(windowed, LAMBDA o : FamilyRoot(o.name, roots) = root), evidence)]

\* _canonical_worksheet_name.
Canonical(name, opju, roots, lookup, ofWindows, ofFamilies) ==
    LET orItself(known) == IF known = None THEN name ELSE known
        root == FamilyRoot(name, roots)
        base == BeforeAt(name)
    IN  IF ~opju THEN orItself(Resolve(name, lookup, TRUE))
        ELSE IF root \in DOMAIN ofFamilies THEN ofFamilies[root]
        ELSE IF name.window # None /\ base \in DOMAIN ofWindows THEN ofWindows[base]
        ELSE name

\* _name_evidence_weight.
Weight(name, evidence, lookup) ==
    LET of(rows) == IF rows # None THEN IF rows = <<>> THEN 2 ELSE 3
                    ELSE IF Resolve(name, DOMAIN evidence.metadata, TRUE) # None THEN 2
                    ELSE IF name \in lookup THEN 1 ELSE 0
    IN  of(Lookup(name, evidence.rows, TRUE))

\* Of the candidates of one key the one of the most weight, the confirmed one of two.
Winners(candidates, key(_), weight(_)) ==
    LET beats(o, ofO, best, ofBest) == \/ ofO > ofBest
                                       \/ ofO = ofBest /\ ~best.confirmed /\ o.confirmed
        better(best, o) == IF beats(o, weight(o), best, weight(best)) THEN o ELSE best
        winner(rivals) == FoldLeft(better, Head(rivals), Tail(rivals))
    IN  Each(FirstOfEach(candidates, key),
             LAMBDA first : winner(SelectSeq(candidates, LAMBDA o : key(o) = key(first))))

\* _coalesce_parser_backed_worksheet_objects. The lookup has the names of all the objects, so
\* that none is left out as a path the parser does not know.
Coalesced(objects, evidence, opju) ==
    LET lookup == ParserNames(ToSet(objects), evidence)
        roots == IF opju THEN FamilyRoots(lookup) ELSE {}
        windowed == SelectSeq(ByOffset(objects), LAMBDA o : o.name.window # None)
        isShown(o, ofWindows) ==
            /\ LooksLikeWorksheet(o.name)
            /\ opju /\ o.name.window # None /\ BeforeAt(o.name) \in DOMAIN ofWindows
                  => o.name = ofWindows[BeforeAt(o.name)]
        coalesced(ofWindows, ofFamilies) ==
            Winners(SelectSeq(ByOffset(objects), LAMBDA o : isShown(o, ofWindows)),
                    LAMBDA o : <<Canonical(o.name, opju, roots, lookup, ofWindows, ofFamilies),
                                 IF opju /\ Trusted(evidence.hints) THEN o.path ELSE None>>,
                    LAMBDA o : Weight(o.name, evidence, lookup))
    IN  coalesced(OfWindows(windowed, evidence), OfFamilies(windowed, roots, evidence))

\* _collapse_worksheet_recovery_names: the parser of an OPJ is asked for workbooks.
Collapsed(names) == {BeforeUnderscore(BeforeAt(n)) : n \in names}
==============================================================================
