---------------------------- MODULE ChunkedScans ----------------------------
(***************************************************************************)
(* The scanners that read a file block by block and should find what one   *)
(* look at the whole file finds: printable strings and lines of text       *)
(* (strings.py), the names and the bracketed references the object         *)
(* discovery starts from (discovery_scan, discovery_windows) and the rows  *)
(* of numeric tables (extract/tables.py).                                  *)
(*                                                                         *)
(* A file is a sequence of symbols, each a class of bytes: "B", "G", "M"   *)
(* and "N" are the known prefixes of the name of a worksheet, a graph, a   *)
(* matrix and a note, "S" a known suffix, "x" another letter, "1" a column *)
(* of a numeric row, "[" and "]", " " a printable byte of no name, "v" a   *)
(* line boundary that is neither CR nor LF, "-" a byte that is not         *)
(* printable.                                                              *)
(***************************************************************************)
EXTENDS Commons

CONSTANTS
    ChunkSize,      \* the bytes of one block
    CarrySize,      \* _OPJ_TOKEN_CARRY_BYTES, also the longest plausible name
    BracketCarry,   \* _OPJ_BRACKET_CARRY_BYTES
    MinName,        \* the shortest plausible name
    MinLength,      \* the shortest string
    MinRows,        \* the fewest rows of a numeric table
    MinColumns      \* the fewest columns of its rows

ASSUME SizesAssumption ==
    /\ {ChunkSize, CarrySize, BracketCarry, MinName, MinLength, MinRows, MinColumns}
          \subseteq Nat \ {0}
    /\ MinName <= CarrySize

KnownPrefixes == [B |-> "worksheet", G |-> "graph", M |-> "matrix", N |-> "note"]
Letters == DOMAIN KnownPrefixes \cup {"S", "x"}
NameSymbols == Letters \cup {"1"}
Printable == NameSymbols \cup {"[", "]", " "}

\* iter_file_chunks.
Blocks(file) ==
    [n \in 1 .. (Len(file) + ChunkSize - 1) \div ChunkSize |->
        SubSeq(file, (n - 1) * ChunkSize + 1, AtMost(n * ChunkSize, Len(file)))]

\* The longest runs of symbols of a class, as <<first, last>>, in order.
Runs(s, class) ==
    LET first == {k \in DOMAIN s : s[k] \in class /\ (k = 1 \/ s[k - 1] \notin class)}
        last(k) == Min({m \in k .. Len(s) : m = Len(s) \/ s[m + 1] \notin class})
    IN  Each(Ascending(first), LAMBDA k : <<k, last(k)>>)

LastPart(s, length) == SubSeq(s, AtLeast(1, Len(s) - length + 1), Len(s))
------------------------------------------------------------------------------
(* Printable strings: <<offset, text>>.                                    *)

StringsIn(s, base) ==
    Each(Those(Runs(s, Printable), LAMBDA r : r[2] - r[1] + 1 >= MinLength),
         LAMBDA r : <<base + r[1] - 1, SubSeq(s, r[1], r[2])>>)

\* The printable run a block ends with is carried to the next one, whatever its length.
TrailingPart(s) ==
    LET before == {0} \cup {k \in DOMAIN s : s[k] \notin Printable}
    IN  SubSeq(s, Max(before) + 1, Len(s))

\* Mutant: only a run that is long enough already is carried.
CarryLongRuns(s) ==
    LET before == {0} \cup {k \in DOMAIN s : s[k] \notin Printable}
        part == SubSeq(s, Max(before) + 1, Len(s))
    IN  IF Len(part) >= MinLength THEN part ELSE <<>>

CarriedRun(s) == TrailingPart(s)

StringsOfBlock(state, block) ==
    LET current == state.carry \o block
        carry == CarriedRun(current)
    IN  [position |-> state.position + Len(block),
         out |-> state.out \o StringsIn(SubSeq(current, 1, Len(current) - Len(carry)),
                                        state.position - Len(state.carry)),
         carry |-> carry]

StreamStrings(file) ==
    LET Finished(end) == end.out \o If(Len(end.carry) >= MinLength,
                                       <<<<end.position - Len(end.carry), end.carry>>>>)
    IN  Finished(FoldLeft(StringsOfBlock, [position |-> 0, out |-> <<>>, carry |-> <<>>],
                          Blocks(file)))
------------------------------------------------------------------------------
(* Lines: <<first, last>> with the line end, CR LF being one.              *)

Lines(s, ends) ==
    LET last == {k \in DOMAIN s : \/ s[k] \in ends \ {"CR"}
                                  \/ s[k] = "CR" /\ ~(k < Len(s) /\ s[k + 1] = "LF")
                                  \/ k = Len(s)}
    IN  Each(Ascending(last), LAMBDA k : <<Max({0} \cup {m \in last : m < k}) + 1, k>>)

LineText(s, line, ends) ==
    Those(SubSeq(s, line[1], line[2]), LAMBDA symbol : symbol \notin ends)

BytesEnds == {"CR", "LF"}
TextEnds == {"CR", "LF", "v"}

EndsLine(s) == s # <<>> /\ s[Len(s)] \in {"CR", "LF"}

TextLines(s) == Each(Lines(s, TextEnds), LAMBDA line : LineText(s, line, TextEnds))

\* iter_strings of UTF-8: str.splitlines knows more line ends than the test of the carry.
TextOfBlock(state, block) ==
    LET merged == state.carry \o block
        Read(whole, rest) == [out |-> state.out \o Those(whole, LAMBDA line : Len(line) >= MinLength),
                              carry |-> rest]
        Split(lines) == IF EndsLine(merged) THEN Read(lines, <<>>) ELSE Read(Front(lines), Last(lines))
    IN  Split(TextLines(merged))

StreamText(file) ==
    LET Finished(end) == end.out \o If(Len(end.carry) >= MinLength, <<end.carry>>)
    IN  Finished(FoldLeft(TextOfBlock, [out |-> <<>>, carry |-> <<>>], Blocks(file)))

WholeText(file) == Those(TextLines(file), LAMBDA line : Len(line) >= MinLength)
------------------------------------------------------------------------------
(* Numeric tables: a row is <<table, row, offset, columns>>.               *)

IsNumericRow(text) == Len(text) >= MinColumns /\ ToSet(text) \subseteq {"1"}

WithoutTable(rows, table) == Those(rows, LAMBDA row : row[1] # table)

\* A table of too few rows is dropped when a line that is no row ends it.
DropShort(state) ==
    IF 0 < state.row /\ state.row < MinRows
    THEN [state EXCEPT !.rows = WithoutTable(@, state.table)]
    ELSE state

TableLine(state, text, offset) ==
    IF IsNumericRow(text)
    THEN LET table == IF state.row = 0 THEN state.table + 1 ELSE state.table
         IN  [state EXCEPT !.table = table, !.row = @ + 1,
                           !.rows = Append(@, <<table, state.row + 1, offset, Len(text)>>)]
    ELSE [DropShort(state) EXCEPT !.row = 0]

NoRows == [rows |-> <<>>, table |-> 0, row |-> 0]

\* The lines of s, which begins at an offset of the file, one after the other.
ScanLines(scan, s, lines, offset) ==
    FoldLeft(LAMBDA state, line :
                TableLine(state, LineText(s, line, BytesEnds), offset + line[1] - 1),
             scan, lines)

\* scan_numeric_tables_from_bytes, as far as UTF-8.
WholeRows(file) == DropShort(ScanLines(NoRows, file, Lines(file, BytesEnds), 0)).rows

\* A last line without a line end is carried to the next block.
TablesOfBlock(state, block) ==
    LET chunk == state.carry \o block
        Read(lines, rest) == [scan |-> ScanLines(state.scan, chunk, lines, state.offset),
                              offset |-> state.offset + Len(chunk) - Len(rest), carry |-> rest]
        Split(lines) == IF EndsLine(chunk) THEN Read(lines, <<>>)
                        ELSE Read(Front(lines), SubSeq(chunk, Last(lines)[1], Len(chunk)))
    IN  Split(Lines(chunk, BytesEnds))

\* scan_numeric_tables_from_file: a table the file ends with is not looked at again, except
\* when a last line without a line end ends it.
StreamRows(file) ==
    LET Finished(end) == IF end.carry = <<>> THEN end.scan.rows
                         ELSE TableLine(end.scan, end.carry, end.offset).rows
    IN  Finished(FoldLeft(TablesOfBlock, [scan |-> NoRows, offset |-> 0, carry |-> <<>>],
                          Blocks(file)))
------------------------------------------------------------------------------
(* Names.  limits has the most names of one text, of one kind and in all   *)
(* and the kinds that are wanted, or None.                                 *)

Plausible(name) ==
    /\ MinName <= Len(name) /\ Len(name) <= CarrySize
    /\ name[1] # "1"
    /\ name[1] \in DOMAIN KnownPrefixes \/ name[Len(name)] = "S"

KindOf(name) ==
    IF name[1] \in DOMAIN KnownPrefixes THEN KnownPrefixes[name[1]] ELSE "unclassified"

\* _extract_embedded_origin_name_offsets: the run itself and what follows a prefix in it.
NamesIn(s, run) ==
    LET starts == {run[1]} \cup {k \in run[1] .. run[2] : s[k] \in DOMAIN KnownPrefixes}
    IN  Each(Ascending({k \in starts : Plausible(SubSeq(s, k, run[2]))}),
             LAMBDA k : <<k, SubSeq(s, k, run[2])>>)

Count(hits, key) == IF key \in DOMAIN hits THEN hits[key] ELSE 0
CountUp(hits, key) == [k \in DOMAIN hits \cup {key} |-> Count(hits, k) + IF k = key THEN 1 ELSE 0]

\* Mutant: the limit of a kind is off by one.
KindIsOverFull(limits, found, kind) ==
    limits.perKind # None /\ Count(found.kinds, kind) > limits.perKind

KindIsFull(limits, found, kind) ==
    limits.perKind # None /\ Count(found.kinds, kind) >= limits.perKind

\* _append_heuristic_discovery_record: a name the limit of its kind keeps out has been
\* counted among the names of its text.
Discover(limits, found, name, kind, offset, signal) ==
    LET repeated == limits.repeats # None /\ Count(found.names, name) >= limits.repeats
        named == [found EXCEPT !.names = CountUp(@, name)]
    IN  IF (limits.allowed # None /\ kind \notin limits.allowed) \/ repeated THEN found
        ELSE IF KindIsFull(limits, found, kind) THEN named
        ELSE [named EXCEPT !.kinds = CountUp(@, kind),
                           !.out = Append(@, [offset |-> offset, name |-> name, kind |-> kind,
                                              signal |-> signal])]

\* _discovery_limit_reached: the scan goes on until two kinds were found and all are full.
LimitReached(limits, found) ==
    LET tracked == DOMAIN found.kinds \ {"unclassified"}
    IN  \/ limits.total # None /\ Len(found.out) >= limits.total
        \/ /\ limits.perKind # None /\ Cardinality(tracked) >= 2
           /\ \A kind \in tracked : found.kinds[kind] >= limits.perKind

FoundToken(limits, found, s, run, base) ==
    FoldLeft(LAMBDA f, e : Discover(limits, f, e[2], KindOf(e[2]), base + e[1] - 1, "token_scan"),
             found, NamesIn(s, run))

\* A reference is "[", a container of two symbols or more, "]" and an item.
References(s) ==
    LET names == {r \in ToSet(Runs(s, NameSymbols)) : s[r[1]] \in Letters}
        IsReference(container, item) ==
            /\ container[1] > 1 /\ s[container[1] - 1] = "[" /\ container[1] < container[2]
            /\ item[1] = container[2] + 2 /\ s[container[2] + 1] = "]"
    IN  Sorted({<<p[1][1] - 1, p[2][2]>> : p \in {q \in names \X names : IsReference(q[1], q[2])}},
               LAMBDA a, b : a[1] < b[1])

FoundReference(limits, found, s, match, base) ==
    LET text == SubSeq(s, match[1] + 1, match[2])
        container == SubSeq(text, 1, Min({k \in DOMAIN text : text[k] = "]"}) - 1)
    IN  IF Plausible(container)
        THEN Discover(limits, found, text, KindOf(container), base + match[1] - 1,
                      "bracket_scan")
        ELSE found

Matches(signal, s) == IF signal = "token_scan" THEN Runs(s, NameSymbols) ELSE References(s)

Found(signal, limits, found, s, match, base) ==
    IF signal = "token_scan" THEN FoundToken(limits, found, s, match, base)
                             ELSE FoundReference(limits, found, s, match, base)

Checked(limits, found) == [found EXCEPT !.full = LimitReached(limits, found)]

\* One look at what is mapped: the scan ends at the first match that reaches a limit.
ScanMatch(signal, limits, found, s, match, base) ==
    IF found.full THEN found ELSE Checked(limits, Found(signal, limits, found, s, match, base))

ScanAll(signal, limits, found, s, base) ==
    FoldLeft(LAMBDA f, match : ScanMatch(signal, limits, f, s, match, base),
             found, Matches(signal, s))

NothingFoundYet(kinds) == [out |-> <<>>, names |-> <<>>, kinds |-> kinds, full |-> FALSE]

CutByBlock(chunk, match) == match[2] = Len(chunk)

CarryLimit(signal) == IF signal = "token_scan" THEN CarrySize ELSE BracketCarry

SeenInCarry(match, carry) == match[1] <= Len(carry) /\ match[2] <= Len(carry)

\* A match the block cuts is carried, the one the carry has shown before is passed over.
MatchInBlock(signal, limits, carry, chunk, base, s, match) ==
    IF s.found.full \/ s.tail THEN s
    ELSE IF CutByBlock(chunk, match)
         THEN [s EXCEPT !.tail = TRUE,
                        !.carry = LastPart(SubSeq(chunk, match[1], Len(chunk)), CarryLimit(signal))]
    ELSE IF SeenInCarry(match, carry) THEN s
    ELSE LET After(next) == IF signal = "bracket_scan" /\ next.out = s.found.out THEN next
                            ELSE Checked(limits, next)
         IN  [s EXCEPT !.found = After(Found(signal, limits, s.found, chunk, match, base))]

\* _scan_token_matches_in_chunk, _scan_bracket_matches_in_chunk.
ScanBlock(signal, limits, state, block) ==
    LET chunk == state.carry \o block
        base == AtLeast(0, state.position - Len(state.carry))
        rest == IF signal = "token_scan" THEN <<>> ELSE LastPart(chunk, CarryLimit(signal))
    IN  IF state.found.full THEN state
        ELSE FoldLeft(LAMBDA s, match : MatchInBlock(signal, limits, state.carry, chunk, base, s, match),
                      [found |-> state.found, tail |-> FALSE, carry |-> rest,
                       position |-> state.position + Len(block)],
                      Matches(signal, chunk))

ScanBlocks(signal, limits, kinds, file) ==
    FoldLeft(LAMBDA s, block : ScanBlock(signal, limits, s, block),
             [found |-> NothingFoundYet(kinds), tail |-> FALSE, carry |-> <<>>, position |-> 0],
             Blocks(file))

\* _scan_discovery_stream, where a file could not be mapped.
ScanStream(signal, limits, kinds, file) ==
    LET Finished(end) == IF end.found.full \/ ~end.tail THEN end.found
                         ELSE ScanAll(signal, limits, end.found, end.carry,
                                      AtLeast(0, end.position - Len(end.carry)))
    IN  Finished(ScanBlocks(signal, limits, kinds, file))

ScanFile(signal, limits, kinds, file, mapped) ==
    IF mapped THEN ScanAll(signal, limits, NothingFoundYet(kinds), file, 0)
              ELSE ScanStream(signal, limits, kinds, file)

\* The heuristics of a discovery: the tokens, then the references, with one count of kinds.
Heuristics(limits, file, mapped) ==
    LET tokens == ScanFile("token_scan", limits, <<>>, file, mapped)
        references == ScanFile("bracket_scan", limits, tokens.kinds, file, mapped)
    IN  tokens.out \o references.out
------------------------------------------------------------------------------
(* Properties of one file.                                                 *)

NoLimits == [repeats |-> None, perKind |-> None, total |-> None, allowed |-> None]

\* The strings do not depend on where the blocks end.
StringsAgree(file) == StreamStrings(file) = StringsIn(file, 0)

\* Nor do the lines of text, unless a block ends with a line boundary that is neither CR nor
\* LF: the line after it is then joined to it.
TextAgrees(file) == "v" \notin ToSet(file) => StreamText(file) = WholeText(file)

\* Nor do the rows of the numeric tables of a file without CR, but for a table of too few
\* rows that the file ends with, which the scan by blocks keeps.
RowsAgree(file) ==
    LET OfTable(rows, table) == Those(rows, LAMBDA row : row[1] = table)
        WithoutShort(rows) ==
            IF rows # <<>> /\ Len(OfTable(rows, Last(rows)[1])) < MinRows
            THEN WithoutTable(rows, Last(rows)[1]) ELSE rows
    IN  "CR" \notin ToSet(file) => WholeRows(file) = WithoutShort(StreamRows(file))

\* The names of a file whose runs fit the carry, by blocks and at once.
NamesFound(file, mapped) == ToSet(ScanFile("token_scan", NoLimits, <<>>, file, mapped).out)
RunsFitTheCarry(file) == \A r \in ToSet(Runs(file, NameSymbols)) : r[2] - r[1] < CarrySize

\* What the carry is for: they do not depend on where the blocks end.
NamesAgree(file) == RunsFitTheCarry(file) => NamesFound(file, FALSE) = NamesFound(file, TRUE)

\* What the carry achieves: a run that ends where a block ends is carried and then passed
\* over.  The scan by blocks loses the names of such runs only, and finds no other.
LostNamesEndABlock(file) ==
    LET EndsABlock(name) ==
            \E r \in ToSet(Runs(file, NameSymbols)) :
               /\ name.offset + 1 \in r[1] .. r[2]
               /\ r[2] % ChunkSize = 0 /\ r[2] < Len(file)
    IN  RunsFitTheCarry(file) =>
            /\ NamesFound(file, FALSE) \subseteq NamesFound(file, TRUE)
            /\ \A name \in NamesFound(file, TRUE) \ NamesFound(file, FALSE) : EndsABlock(name)

\* The limit of a kind holds for the tokens and the references together, and only when two
\* kinds are full is another kind left out.
KindsAreCapped(limits, file, mapped) ==
    LET of(s, kind) == Cardinality({n \in DOMAIN s : s[n].kind = kind})
        Capped(out, free) ==
            /\ \A n \in DOMAIN out : of(out, out[n].kind) <= limits.perKind
            /\ \A n \in DOMAIN free :
                  free[n].kind # "unclassified" =>
                     \/ \E m \in DOMAIN out : out[m].kind = free[n].kind
                     \/ Cardinality({kind \in {free[m].kind : m \in DOMAIN free} :
                                        of(out, kind) = limits.perKind}) >= 2
    IN  limits.perKind # None /\ limits.total = None =>
            Capped(Heuristics(limits, file, mapped),
                   Heuristics([limits EXCEPT !.perKind = None], file, mapped))
==============================================================================
