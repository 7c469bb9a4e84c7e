------------------------------ MODULE OpjuSheets ------------------------------
(***************************************************************************)
(* From the bytes of a CPYUA project to its worksheets: the descriptors of *)
(* columns (opju/tagged/__init__.py), the metadata that belongs to them,   *)
(* and the worksheets they make (opju/tagged/tables.py).                   *)
(*                                                                         *)
(* The data is what the patterns of the code find in the bytes, at its     *)
(* offsets: payloads (length and bytes) by the offset of the prefix that   *)
(* stands before them, names (start, end, identity, framed by their        *)
(* length, legacy), preludes (of the system, by their offset), records of  *)
(* column metadata (start, ordinal, display, displayEnd, label) and        *)
(* envelopes (end, fields, formula) by the offset they begin at.           *)
(***************************************************************************)
EXTENDS OpjuColumns

CONSTANTS
    NameReach,      \* a name begins at most so far before the prefix (80)
    NameGap,        \* and ends at most so far before it (16)
    HeadLength,     \* the prefix, the length and the prelude of a payload (25)
    LongestPayload, \* 10,000,000
    ShortGap,       \* a descriptor goes on from the one before over so many bytes (64)
    PreludeGap,     \* or over so many that begin with a prelude of the system (512)
    RecordReach     \* the longest record of metadata (256)

ASSUME SheetsAssumption ==
    {NameReach, NameGap, HeadLength, LongestPayload, ShortGap, PreludeGap, RecordReach} \subseteq Nat

\* The name that ends last before a prefix.
ColumnName(data, prefix) ==
    LET near == {m \in data.names : /\ m.start >= prefix - NameReach
                                    /\ m.end \in prefix - NameGap .. prefix
                                    /\ m.framed \/ m.legacy}
    IN  IF near = {} THEN None
        ELSE CHOOSE m \in near : \A o \in near : o.end < m.end \/ (o.end = m.end /\ o.start <= m.start)

Descriptor(data, prefix, previous) ==
    LET payload == data.payloads[prefix]
        end == prefix + HeadLength + payload.length
        goesOn(gap) == \/ gap \in 0 .. ShortGap
                       \/ (gap \in 1 .. PreludeGap /\ previous \in data.preludes)
        named(m) == [identity |-> m.identity,
                     start |-> IF previous # None /\ goesOn(m.start - previous) THEN previous
                               ELSE IF m.framed THEN m.start - 1 ELSE m.start,
                     end |-> end]
    IN  IF payload.length \notin 1 .. LongestPayload \/ end > data.size THEN None
        ELSE Then(ColumnName(data, prefix),
                  LAMBDA m : named(m) @@ [payload |-> DecodePayload(payload.bytes)])

Descriptors(data) ==
    LET with(found, d) == IF d = None THEN found ELSE Append(found, d)
    IN  FoldLeft(LAMBDA found, prefix :
                     with(found, Descriptor(data, prefix, IF found = <<>> THEN None ELSE Last(found).end)),
                 <<>>, Ascending(DOMAIN data.payloads))
------------------------------------------------------------------------------
(* Metadata, by the ordinal of its descriptor.                             *)

\* The label of a record that ends before the next one begins.
Label(record, end) ==
    IF record.label # None /\ record.label.at < end /\ record.label.end <= end
    THEN record.label.text ELSE None

\* Mutant: of two records of one ordinal the later one counts.
LastOfOrdinal(records, n) == \A m \in DOMAIN records : m > n => records[m].ordinal # records[n].ordinal

\* No record counts if another has its ordinal.
OnlyOfOrdinal(records, n) == \A m \in DOMAIN records \ {n} : records[m].ordinal # records[n].ordinal

\* A record gives the names it has; the envelope behind a descriptor gives what else there is.
ColumnMetadata(data, descriptors) ==
    LET end(records, n) == AtMost(IF n < Len(records) THEN records[n + 1].start ELSE data.size,
                                  records[n].start + RecordReach)
        recorded(record, label) == (IF label = None THEN <<>> ELSE "long_name" :> label)
                                   @@ ("display_name" :> record.display)
        ofRecord(records, ours) ==
            IF ours = {} THEN <<>>
            ELSE LET n == CHOOSE n \in ours : TRUE
                 IN  recorded(records[n], Label(records[n], end(records, n)))
        envelope(o) == IF descriptors[o].end \in DOMAIN data.envelopes
                       THEN data.envelopes[descriptors[o].end] ELSE [fields |-> <<>>, formula |-> None]
        formula(o) == IF envelope(o).formula = None THEN <<>> ELSE "formula" :> envelope(o).formula
        metadata(records) ==
            [o \in DOMAIN descriptors |->
                formula(o)
                @@ ofRecord(records, {n \in DOMAIN records : /\ records[n].ordinal = o
                                                             /\ OnlyOfOrdinal(records, n)})
                @@ envelope(o).fields]
    IN  metadata(SortedBy(SetToSeq({r \in data.records : r.ordinal \in DOMAIN descriptors}),
                          LAMBDA r : r.start))
------------------------------------------------------------------------------
(* Worksheets.                                                             *)

\* A worksheet all of whose columns are decoded, and are A, B, C ... once each.
AllDecoded(columns) == \A c \in columns : c.payload # None

IsContiguous(columns) == {c.identity.column : c \in columns} = 1 .. Cardinality(columns)

\* The columns of a worksheet, with the ordinals of their descriptors.
Columns(descriptors, key) ==
    {[ordinal |-> o, identity |-> descriptors[o].identity, payload |-> descriptors[o].payload] :
        o \in {d \in DOMAIN descriptors :
                  /\ descriptors[d].identity # None
                  /\ <<descriptors[d].identity.workbook, descriptors[d].identity.sheet>> = key}}

RowsOf(columns) ==
    LET count == Max({Len(columns[c].payload.cells) : c \in DOMAIN columns})
        cell(cells, r) == IF r \in DOMAIN cells THEN cells[r] ELSE None
    IN  [r \in 1 .. count |-> Each(columns, LAMBDA c : cell(c.payload.cells, r))]

SheetsOf(descriptors, metadata) ==
    LET keys == {<<d.identity.workbook, d.identity.sheet>> :
                    d \in {e \in ToSet(descriptors) : e.identity # None}}
        isWhole(columns) == AllDecoded(columns) /\ IsContiguous(columns)
        sheet(columns) == [rows |-> RowsOf(columns),
                           ordinals |-> Each(columns, LAMBDA c : c.ordinal),
                           metadata |-> Each(columns, LAMBDA c : metadata[c.ordinal])]
    IN  [k \in {key \in keys : isWhole(Columns(descriptors, key))} |->
            sheet(Sorted(Columns(descriptors, k),
                         LAMBDA a, b : a.identity.column < b.identity.column))]

Sheets(data) ==
    LET of(descriptors) == SheetsOf(descriptors, ColumnMetadata(data, descriptors))
    IN  of(Descriptors(data))
------------------------------------------------------------------------------
\* The decoders that accept a payload agree on its cells, so that their order does not matter,
\* except for the sentinel, which only the segments know to be a missing value.
ReadingsAgree(p) ==
    LET blanked(cells) == Each(cells, LAMBDA c : IF c = Sentinel THEN None ELSE c)
        agree(readings) == \A a, b \in ToSet(readings) : blanked(a.cells) = blanked(b.cells)
    IN  agree(Readings(p))

\* A payload has the cells its head declares, and no part of it alone is a payload.
PayloadIsExact(p) ==
    LET isExact(payload) ==
            payload # None =>
               /\ Len(payload.cells) = Varuint(p, 3, <<>>).value
               /\ \A n \in 0 .. Len(p) - 1 : DecodePayload(SubSeq(p, 1, n)) = None
    IN  isExact(DecodePayload(p))

\* A worksheet has every column the data has of it, each decoded, and no column twice; the
\* cells of a column are all there, in its order; and what a record says is said of the
\* column it names, unless another record says it too.
SheetsAreWhole(data) ==
    LET named(ordinal) == {r \in data.records : r.ordinal = ordinal}
        isSaid(said, records) == IF Cardinality(records) = 1 THEN said = {r.display : r \in records}
                                 ELSE said \cap {r.display : r \in records} = {}
        holds(sheet, c, d) ==
            /\ d.identity.column = c /\ d.payload # None
            /\ SubSeq(Each(sheet.rows, LAMBDA row : row[c]), 1, Len(d.payload.cells)) = d.payload.cells
            /\ isSaid({sheet.metadata[c][f] : f \in DOMAIN sheet.metadata[c] \cap {"display_name"}},
                      named(sheet.ordinals[c]))
        isWhole(sheet, descriptors, ours) ==
            /\ ToSet(sheet.ordinals) = ours /\ Len(sheet.ordinals) = Cardinality(ours)
            /\ \A c \in DOMAIN sheet.ordinals : holds(sheet, c, descriptors[sheet.ordinals[c]])
        areWhole(sheets, descriptors) ==
            \A k \in DOMAIN sheets :
               isWhole(sheets[k], descriptors,
                       {o \in DOMAIN descriptors : /\ descriptors[o].identity # None
                                                   /\ descriptors[o].identity.workbook = k[1]
                                                   /\ descriptors[o].identity.sheet = k[2]})
    IN  areWhole(Sheets(data), Descriptors(data))
==============================================================================
