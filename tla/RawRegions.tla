------------------------------ MODULE RawRegions ------------------------------
(***************************************************************************)
(* What extract does with the bytes nothing else explains: the windows of  *)
(* the discovered objects, the gaps between them, the class of a gap, the  *)
(* raw and the text artifacts, and the byte map (extract/raw_regions.py,   *)
(* discovery_helpers.py, discovery_windows.py, objects_list_raw, byte_map).*)
(*                                                                         *)
(* A range is <<offset, length>>, a window or a segment starts at start    *)
(* and ends before end.  The bytes of a file are abstracted to what the    *)
(* code asks of them: run[b] is the printable run byte b is in, 0 for      *)
(* none, and numeric holds the bytes where a numeric table begins.         *)
(***************************************************************************)
EXTENDS Commons

CONSTANTS
    ScanMin,    \* _TEXT_CLASS_SCAN_MIN_BYTES, the least length that is classified
    ClassText   \* the text_min_length the raw regions are classified with

ASSUME LimitsAssumption == ScanMin \in Nat \ {0} /\ ClassText \in Nat \ {0}

Bytes(range) == range[1] .. range[1] + range[2] - 1
------------------------------------------------------------------------------
(* Windows and gaps.                                                       *)

ByOffset(objects) == SortedBy(objects, LAMBDA o : o.offset)

\* iter_object_windows: a parser-confirmed object ends where it says, another one where
\* the next object begins, in the same branch of the project when scoped asks for it.
\* The last one without an end reaches to the end of the file.
Windows(objects, size, scoped) ==
    LET start(o) == AtLeast(o.offset, 0)
        inBranch(ordered, n) ==
            {m \in n + 1 .. Len(ordered) : /\ scoped /\ ordered[n].root # None
                                           /\ ordered[m].root = ordered[n].root
                                           /\ ordered[m].offset > start(ordered[n])}
        next(ordered, n, branch) == ordered[IF branch # {} THEN Min(branch) ELSE n + 1].offset
        own(ordered, n, o) ==
            IF o.confirmed /\ o.length > 0 THEN AtMost(o.offset + o.length, size)
            ELSE IF n < Len(ordered) THEN next(ordered, n, inBranch(ordered, n))
            ELSE start(o)
        window(o, isLast, end) ==
            [object |-> o, start |-> start(o),
             end |-> IF isLast /\ end = start(o) THEN size ELSE end]
        windows(ordered) ==
            [n \in DOMAIN ordered |->
                window(ordered[n], n = Len(ordered),
                       AtLeast(own(ordered, n, ordered[n]), start(ordered[n])))]
    IN  windows(ByOffset(objects))

GapStep(size, least, state, block) ==
    LET from == AtLeast(block[1], 0)
        upto == AtLeast(AtMost(block[1] + block[2], size), from)
        start == AtLeast(state.cursor, AtMost(from, size))
    IN  [cursor |-> AtLeast(state.cursor, upto),
         gaps |-> IF start - state.cursor >= least
                  THEN Append(state.gaps, <<state.cursor, start - state.cursor>>)
                  ELSE state.gaps]

GapRanges(size, blocks, least) ==
    LET closed(walked) == IF size - walked.cursor >= least
                          THEN Append(walked.gaps, <<walked.cursor, size - walked.cursor>>)
                          ELSE walked.gaps
    IN  IF size <= 0 \/ least <= 0 THEN <<>>
        ELSE closed(FoldLeft(LAMBDA s, block : GapStep(size, least, s, block),
                             [cursor |-> 0, gaps |-> <<>>],
                             SortedBy(blocks, LAMBDA block : block[1])))

\* What classify_unknown_gaps takes for explained.
Covered(images, objects, size) ==
    images \o Those(Each(Windows(objects, size, FALSE), LAMBDA w : <<w.start, w.end - w.start>>),
                    LAMBDA r : r[2] > 0)

\* The image of a graph: the first valid block that begins in the range or runs into it,
\* and with allowInvalid the first one that is not valid.
GraphBlockFor(blocks, start, end, allowInvalid) ==
    LET touches(b) == \/ start <= b.offset /\ b.offset < end
                      \/ b.offset < start /\ start < b.offset + b.length
        first(s) == CHOOSE n \in s : \A m \in s :
                        \/ blocks[n].offset < blocks[m].offset
                        \/ blocks[n].offset = blocks[m].offset /\ n <= m
        valid == {n \in DOMAIN blocks : blocks[n].valid /\ touches(blocks[n])}
        any == {n \in DOMAIN blocks : touches(blocks[n])}
    IN  IF start < 0 \/ end < start THEN None
        ELSE IF valid # {} THEN first(valid)
        ELSE IF allowInvalid /\ any # {} THEN first(any)
        ELSE None
------------------------------------------------------------------------------
(* The class of a gap.                                                     *)

\* The longest printable run of a range: a run that the range cuts counts with the part
\* that is inside.
LongestIn(run, range) ==
    Max({0} \cup {Cardinality({c \in Bytes(range) : run[c] = run[b] /\ run[b] # 0})
                    : b \in Bytes(range)})

Class(file, range, textMin, numeric) ==
    LET length == range[2] IN
    IF \E n \in DOMAIN file.images : Bytes(file.images[n]) \cap Bytes(range) # {}
    THEN "embedded_image"
    ELSE IF numeric /\ length >= ScanMin /\ file.numeric \cap Bytes(range) # {}
    THEN "numeric_table_candidate"
    ELSE IF length >= ScanMin /\ LongestIn(file.run, range) >= textMin
    THEN "text_region"
    ELSE "unknown"
------------------------------------------------------------------------------
(* The raw and the text artifacts.  An item has the range it is about, the *)
(* status it has and whether the bytes of the range are in a file.         *)

RegionItem(kind, range, status, error) ==
    [kind |-> kind, range |-> range, status |-> status, error |-> error]

Emptied(kind) == <<RegionItem(kind, <<0, 0>>, "partial", "empty_file")>>

\* extract_raw_blocks.  Two gaps never begin at one offset, so the class of a gap is found
\* by its offset.  existing holds the ranges whose target is there and stays.
ExportRaw(file, ranges, classes, excluded, existing) ==
    IF file.size <= 0 THEN Emptied("raw_dump")
    ELSE LET out == Those(ranges, LAMBDA r : classes[r] \in excluded)
             in == Those(ranges, LAMBDA r : classes[r] \notin excluded)
         IN  [n \in DOMAIN out |->
                 RegionItem("raw_dump", out[n], "skipped", "excluded_by_text_extraction")]
             \o [n \in DOMAIN in |->
                 IF in[n] \in existing
                 THEN RegionItem("raw_dump", in[n], "skipped", "target_exists")
                 ELSE RegionItem("raw_dump", in[n], "extracted", None)]

\* extract_text_regions: a gap without a string of the length asked for leaves no item.
ExportText(file, ranges, textMin, existing) ==
    IF file.size <= 0 THEN Emptied("text_region")
    ELSE LET held == Those(ranges, LAMBDA r : LongestIn(file.run, r) >= textMin)
         IN  [n \in DOMAIN held |->
                 IF held[n] \in existing
                 THEN RegionItem("text_region", held[n], "skipped", "target_exists")
                 ELSE RegionItem("text_region", held[n], "extracted", None)]


\* Mutant: the raw blocks leave out the text regions whatever the sizes are.
ExcludedAlways(opts) == {"text_region"}

Excluded(opts) ==
    IF opts.text /\ opts.rawMin = opts.textMin THEN {"text_region"} ELSE {}

\* The part of cmd_extract that carves: when the two sizes are equal the gaps are found
\* once, and the raw blocks leave the text regions to the text artifacts.
Carve(file, opts) ==
    LET gaps(least) == GapRanges(file.size, Covered(file.images, file.objects, file.size), least)
        classes(ranges) == [r \in ToSet(ranges) |-> Class(file, r, ClassText, opts.numeric)]
        raw(ranges) == ExportRaw(file, ranges, classes(ranges), Excluded(opts), opts.existing)
    IN  If(opts.raw, raw(gaps(opts.rawMin)))
        \o If(opts.text, ExportText(file, gaps(opts.textMin), opts.textLength, opts.existing))
------------------------------------------------------------------------------
(* The byte map: the file cut at every end of an evidence range, with the  *)
(* strongest class of what overlaps, neighbours of one class and one set   *)
(* of labels joined.                                                       *)

EvidenceClass(i) ==
    IF i.discovery \in {"carved", "signature_scan"} \/ i.signature THEN "carved"
    ELSE IF i.heuristic = "no" THEN "parser_bounded"
    ELSE IF i.heuristic = "yes" THEN "heuristic"
    ELSE "bounded_unverified"

\* _evidence_ranges and _opju_walk_ranges: the ranges of the manifest are cut to the file,
\* those of the walk that are not inside it are left out.
EvidenceOf(items, size) ==
    LET cut(n) == LET start == AtLeast(0, AtMost(items[n].start, size))
                      end == AtLeast(start, AtMost(items[n].end, size))
                  IN  [start |-> start, end |-> end, class |-> EvidenceClass(items[n]),
                       label |-> items[n].label]
    IN  {cut(n) : n \in {m \in DOMAIN items : ~items[m].hollow /\ cut(m).end > cut(m).start}}

WalkEvidence(elements, size) ==
    {[start |-> e.start, end |-> e.end, label |-> e.label,
      class |-> IF e.tagged /\ e.partly THEN "heuristic" ELSE "parser_bounded"]
        : e \in {d \in elements : 0 <= d.start /\ d.start < d.end /\ d.end <= size}}

SegmentClass(overlaps) ==
    LET classes == {e.class : e \in overlaps} IN
    IF classes = {} THEN "unknown"
    ELSE IF "parser_bounded" \in classes THEN "parser_bounded"
    ELSE IF "carved" \in classes THEN "carved"
    ELSE IF "bounded_unverified" \in classes THEN "bounded_unverified"
    ELSE "heuristic"

Segment(evidence, start, end) ==
    LET overlaps == {e \in evidence : e.start < end /\ e.end > start}
    IN  [start |-> start, end |-> end, class |-> SegmentClass(overlaps),
         labels |-> {e.label : e \in overlaps}]

\* Mutant: neighbours are joined when their classes are equal, whatever their labels are.
JoinByClass(segments, s) ==
    LET last == segments[Len(segments)] IN
    IF segments # <<>> /\ last.end = s.start /\ last.class = s.class
    THEN [segments EXCEPT ![Len(segments)].end = s.end]
    ELSE Append(segments, s)

JoinSegment(segments, s) ==
    LET last == segments[Len(segments)] IN
    IF segments # <<>> /\ last.end = s.start /\ last.class = s.class /\ last.labels = s.labels
    THEN [segments EXCEPT ![Len(segments)].end = s.end]
    ELSE Append(segments, s)

Partition(size, evidence) ==
    LET cuts == Ascending({0, size} \cup UNION {{e.start, e.end} : e \in evidence})
    IN  FoldLeft(LAMBDA segments, n : JoinSegment(segments, Segment(evidence, cuts[n], cuts[n + 1])),
                 <<>>, [n \in 1 .. Len(cuts) - 1 |-> n])

\* extract_byte_map: an index that is there stays.
ByteMap(size, items, walk, indexExists) ==
    IF indexExists THEN [status |-> "skipped", segments |-> <<>>]
    ELSE [status |-> "extracted",
          segments |-> Partition(size, EvidenceOf(items, size) \cup WalkEvidence(walk, size))]
------------------------------------------------------------------------------
(* The other listings of the module.                                       *)

\* _find_overlap_objects: each path once, in the order of the windows.
OverlapPaths(windows, range) ==
    LET met == Those(windows, LAMBDA w : /\ range[2] > 0
                                         /\ w.start < range[1] + range[2]
                                         /\ w.end > range[1])
    IN  FirstOfEach([n \in DOMAIN met |-> met[n].object.path], LAMBDA path : path)

\* _ensure_unique_paths: the second object of a path gets the suffix __2, and so on.  The
\* suffixed path is not looked up: an object may have it already.
UniquePaths(paths) ==
    [n \in DOMAIN paths |->
        <<paths[n], Cardinality({m \in 1 .. n : paths[m] = paths[n]})>>]

\* extract_project_tree: the first node of a path is written, unless its file is there.
TreeItems(nodes, existing) ==
    LET first == FirstOfEach(nodes, LAMBDA node : node)
    IN  [n \in DOMAIN first |->
            [path |-> first[n],
             status |-> IF first[n] \in existing THEN "skipped" ELSE "extracted"]]
------------------------------------------------------------------------------
(* Properties, of a file and the options of a run.                         *)

\* The bytes no block covers, in maximal runs of at least the size asked for, are exactly
\* the gaps, in order.  A block of no bytes would split a run; Covered has none.
GapsAreTheUncoveredRuns(size, blocks, least) ==
    LET explained == UNION {Bytes(blocks[n]) : n \in DOMAIN blocks}
        open == (0 .. size - 1) \ explained
        runs == {<<ab[1], ab[2] - ab[1] + 1>> : ab \in
                    {cd \in open \X open : /\ cd[1] <= cd[2] /\ cd[1] .. cd[2] \subseteq open
                                           /\ cd[1] - 1 \notin open /\ cd[2] + 1 \notin open}}
        areTheRuns(gaps) ==
            /\ ToSet(gaps) = {r \in runs : r[2] >= least}
            /\ \A n \in 1 .. Len(gaps) - 1 : gaps[n][1] + gaps[n][2] < gaps[n + 1][1]
    IN  areTheRuns(GapRanges(size, blocks, least))

\* The byte map is a partition of the file from which it can be put together, every byte
\* has the class of the strongest evidence for it, and no segment could be longer.
MapsEveryByte(size, items, walk) ==
    LET strength == <<"unknown", "heuristic", "bounded_unverified", "carved", "parser_bounded">>
        rank(c) == CHOOSE n \in DOMAIN strength : strength[n] = c
        isSound(map, evidence) ==
            /\ \A b \in 0 .. size - 1 :
                  LET at == {e \in evidence : b \in e.start .. e.end - 1} IN
                  \E n \in DOMAIN map :
                     /\ b \in map[n].start .. map[n].end - 1
                     /\ \A m \in DOMAIN map \ {n} : b \notin map[m].start .. map[m].end - 1
                     /\ rank(map[n].class) = Max({1} \cup {rank(e.class) : e \in at})
                     /\ map[n].labels = {e.label : e \in at}
            /\ \A n \in 1 .. Len(map) - 1 :
                  /\ map[n].end = map[n + 1].start
                  /\ <<map[n].class, map[n].labels>> # <<map[n + 1].class, map[n + 1].labels>>
    IN  isSound(ByteMap(size, items, walk, FALSE).segments,
                EvidenceOf(items, size) \cup WalkEvidence(walk, size))

\* A gap of the size asked for has an artifact: its bytes, or the text in them.
GapIsPreserved(file, opts) ==
    LET kept(items, gaps) ==
            \A r \in ToSet(gaps) :
               \E i \in ToSet(items) : i.range = r /\ (i.status = "extracted"
                                                      \/ i.error = "target_exists")
    IN  opts.raw => kept(Carve(file, opts),
                         GapRanges(file.size, Covered(file.images, file.objects, file.size),
                                   opts.rawMin))

\* The same when the text artifacts ask for no longer a string than the classes do.
GapIsPreservedByDefault(file, opts) ==
    opts.textLength <= ClassText => GapIsPreserved(file, opts)
==============================================================================
