----------------------------- MODULE ImageBlocks -----------------------------
(***************************************************************************)
(* Images and documents embedded in a project: the search for their        *)
(* signatures by windows, the length of each by its own format             *)
(* (blocks_parse), the choice between blocks that overlap                  *)
(* (blocks_signatures) and the artifacts made of them (extract/media).     *)
(*                                                                         *)
(* A file is a sequence of cells, each a field of one of the formats: a    *)
(* number below 10 is a count or a length in cells, the names below are    *)
(* the signatures, markers and tags. Read as a count, they are more than   *)
(* any file has.                                                           *)
(***************************************************************************)
EXTENDS ChunkedScans

CONSTANTS
    ImageScan       \* _JPEG_MAX_SCAN_BYTES, _GIF_MAX_SCAN_BYTES and the others

ASSUME ImageScanAssumption == ImageScan \in Nat \ {0}

\* PNG: the signature, the types of the first and of the last chunk, a checksum that fits.
Png == 10
Ihdr == 11
Iend == 12
Crc == 13
\* JPEG: markers with their FF; Dims is the payload of a start of frame that can be read.
Soi == 20
Eoi == 21
Sos == 22
Sof == 23
App == 24
Odd == 25
Rst == 26
Dims == 27
\* GIF: the signature, an extension, an image and the trailer.
Gif == 30
Extension == 31
Image == 32
Trailer == 33
Bmp == 40
Info == 41
Pdf == 50
EofMark == 51
Space == 52
\* SVG: "<", "/", "svg", ">" and a letter.
Less == 60
Slash == 61
Svg == 62
Greater == 63
Letter == 64

Measured(length) == [length |-> length, error |-> None]
Mismatch(length) == [length |-> length, error |-> "png_chunk_crc_mismatch"]
Nowhere(error) == [length |-> None, error |-> error]
------------------------------------------------------------------------------
(* PNG, in memory and through a handle.                                    *)

RECURSIVE PngChunks(_, _)
PngChunks(data, position) ==
    LET check == position + 2 + data[position]
    IN  IF position + 1 > Len(data) THEN Nowhere(None)
        ELSE IF check > Len(data) THEN Nowhere("png_truncated_chunk")
        ELSE IF data[check] # Crc THEN Mismatch(check)
        ELSE IF data[position + 1] = Iend THEN Measured(check)
        ELSE PngChunks(data, check + 1)

\* data begins with the signature; the results are lengths from there.
PngBlock(data) ==
    IF Len(data) < 3 THEN Nowhere("png_truncated") ELSE PngChunks(data, 2)

\* consumed counts what was read, which is also where the handle stands.
RECURSIVE PngRead(_, _, _)
PngRead(data, consumed, limit) ==
    LET check == consumed + 3 + data[consumed + 1]
    IN  IF consumed >= limit \/ consumed + 1 > Len(data) THEN Nowhere("png_truncated_chunk")
        ELSE IF consumed + 2 > Len(data) THEN Nowhere("png_invalid_chunk_type")
        ELSE IF check > AtMost(limit, Len(data)) THEN Nowhere("png_truncated_chunk")
        ELSE IF data[check] # Crc THEN Mismatch(check)
        ELSE IF data[consumed + 2] = Iend THEN Measured(check)
        ELSE PngRead(data, check, limit)

PngBlockInFile(data, limit) ==
    IF limit <= 0 \/ data[1] # Png THEN Nowhere("png_truncated") ELSE PngRead(data, 1, limit)

\* _parse_png_dimensions: the first chunk is an IHDR of the one length, with a size.
HasDimensions(data) ==
    Len(data) >= 5 /\ data[1] = Png /\ data[2] = 1 /\ data[3] = Ihdr /\ data[4] # 0
------------------------------------------------------------------------------
(* JPEG.                                                                   *)

Markers == {Soi, Eoi, Sos, Sof, App, Odd, Rst}

\* The end of the segment whose length stands at position, exclusive, or why there is none.
SegmentEnd(data, position) ==
    IF position > Len(data) THEN Nowhere("jpeg_truncated")
    ELSE IF data[position] < 1 THEN Nowhere("jpeg_invalid_segment")
    ELSE IF position + data[position] > Len(data) + 1 THEN Nowhere("jpeg_truncated")
    ELSE Measured(position + data[position])

PositionsOf(data, symbols, from) == {k \in DOMAIN data : k >= from /\ data[k] \in symbols}

\* state: position, found_sof and unsupported_seen; lenient: the fallback that takes markers
\* it does not know and a signature that is repeated.
RECURSIVE JpegScan(_, _, _)
JpegScan(data, state, lenient) ==
    LET ahead == PositionsOf(data, Markers, state.position)
        marker == data[Min(ahead)]
        next == Min(ahead) + 1
        segment == SegmentEnd(data, next)
        payload == SubSeq(data, next + 1, segment.length - 1)
        on(position, sof, odd) ==
            JpegScan(data, [position |-> position, sof |-> sof, odd |-> odd], lenient)
    IN  IF state.position > Len(data) THEN Nowhere("jpeg_truncated")
        ELSE IF ahead = {} THEN Nowhere("jpeg_no_marker")
        ELSE CASE marker = Rst -> on(next, state.sof, state.odd)
               [] marker = Soi ->
                     IF lenient /\ ~state.sof THEN on(next, state.sof, state.odd)
                     ELSE Nowhere("jpeg_nested_soi")
               [] marker = Eoi ->
                     IF state.sof THEN Measured(next - 1) ELSE Nowhere("jpeg_missing_sof")
               [] marker = Sos ->
                     LET ends == PositionsOf(data, {Eoi}, segment.length)
                     IN  CASE ~state.sof -> Nowhere("jpeg_missing_sof")
                           [] state.sof /\ segment.length = None -> segment
                           [] state.sof /\ segment.length # None /\ ends = {} ->
                                 Nowhere("jpeg_missing_eoi")
                           [] OTHER -> IF state.odd THEN Nowhere("jpeg_unsupported_marker")
                                       ELSE Measured(Min(ends))
               [] marker \in {Sof, App, Odd} ->
                     CASE segment.length = None -> segment
                       [] segment.length # None /\ marker = Sof ->
                             IF payload = <<Dims>> THEN on(segment.length, TRUE, state.odd)
                             ELSE Nowhere("jpeg_invalid_sof")
                       [] segment.length # None /\ marker = App ->
                             on(segment.length, state.sof, state.odd)
                       [] segment.length # None /\ marker = Odd ->
                             IF lenient THEN on(segment.length, state.sof, TRUE)
                             ELSE Nowhere("jpeg_unsupported_marker")

JpegBlock(data, lenient) ==
    IF data = <<>> \/ data[1] # Soi \/ Len(data) = 1 THEN Nowhere("jpeg_truncated")
    ELSE JpegScan(data, [position |-> 2, sof |-> FALSE, odd |-> FALSE], lenient)
------------------------------------------------------------------------------
(* GIF, BMP, PDF: the length, or None.                                     *)

\* The position behind sub-blocks that end with an empty one.
RECURSIVE SubBlocks(_, _)
SubBlocks(data, position) ==
    LET next == position + 1 + data[position]
    IN  IF position > Len(data) \/ next > Len(data) + 1 THEN None
        ELSE IF data[position] = 0 THEN next ELSE SubBlocks(data, next)

\* The position behind the color table whose size stands at position.
ColorTable(data, position) ==
    LET next == position + 1 + data[position] IN IF next > Len(data) + 1 THEN None ELSE next

RECURSIVE GifBlocks(_, _, _)
GifBlocks(data, position, seen) ==
    LET behind(next) == IF next = None THEN None ELSE GifBlocks(data, next, TRUE)
        table == ColorTable(data, position + 1)
    IN  IF position > Len(data) THEN None
        ELSE CASE data[position] = Trailer -> IF seen THEN position ELSE None
               [] data[position] = Extension ->
                     IF position + 1 > Len(data) THEN None
                     ELSE behind(SubBlocks(data, position + 2))
               [] data[position] = Image ->
                     IF position + 1 > Len(data) \/ table = None \/ table > Len(data) THEN None
                     ELSE behind(SubBlocks(data, table + 1))
               [] OTHER -> None

\* The signature, the dimensions and the size of the color table.
GifLength(data) ==
    IF Len(data) < 3 \/ data[1] # Gif \/ data[2] \notin 1 .. 9 \/ ColorTable(data, 3) = None
    THEN None
    ELSE GifBlocks(data, ColorTable(data, 3), FALSE)

\* The signature, the declared size, the offset of the pixels and a header.
BmpLength(data) ==
    IF Len(data) < 4 \/ data[1] # Bmp \/ data[2] \notin 1 .. Len(data)
          \/ data[3] \notin 1 .. data[2] \/ data[4] # Info
    THEN None
    ELSE data[2]

\* The first end mark, with the white space behind it.
PdfLength(data) ==
    LET marks == PositionsOf(data, {EofMark}, 2)
        behind == {k \in Min(marks) + 1 .. Len(data) + 1 : k > Len(data) \/ data[k] # Space}
    IN  IF data = <<>> \/ data[1] # Pdf \/ marks = {} THEN None ELSE Min(behind) - 1
------------------------------------------------------------------------------
(* SVG: the blocks of the whole file, and window by window.                *)

\* "<svg" at a word boundary, which the end of what is searched is too.
SvgStarts(s) ==
    {k \in 1 .. Len(s) - 1 : /\ s[k] = Less /\ s[k + 1] = Svg
                             /\ k + 2 > Len(s) \/ s[k + 2] # Letter}

\* "</svg" and everything to the next ">": <<first, last>>.
SvgEnds(s) ==
    {<<k, Min(PositionsOf(s, {Greater}, k))>> :
        k \in {j \in 1 .. Len(s) - 3 : /\ SubSeq(s, j, j + 2) = <<Less, Slash, Svg>>
                                       /\ s[j + 3] # Letter
                                       /\ PositionsOf(s, {Greater}, j) # {}}}

\* The last cell of the first end at or after a position, or None.
SvgEnd(s, from) ==
    LET ends == {e \in SvgEnds(s) : e[1] >= from}
    IN  IF ends = {} THEN None ELSE (CHOOSE e \in ends : \A d \in ends : e[1] <= d[1])[2]

SvgBlock(first, last) ==
    [offset |-> first, length |-> last - first + 1, kind |-> "svg", valid |-> TRUE]

\* _find_svg_blocks.
RECURSIVE WholeSvgs(_, _)
WholeSvgs(s, from) ==
    LET starts == {k \in SvgStarts(s) : k >= from}
        end == SvgEnd(s, Min(starts))
    IN  IF starts = {} \/ end = None THEN {}
        ELSE {SvgBlock(Min(starts), end)} \cup WholeSvgs(s, end + 1)

\* The blocks that begin in a window from a position of it on, and the start without an end.
RECURSIVE WindowSvgs(_, _, _)
WindowSvgs(s, base, from) ==
    LET starts == {k \in SvgStarts(s) : k >= from}
        end == SvgEnd(s, Min(starts) + 2)
        rest == WindowSvgs(s, base, end + 1)
    IN  IF starts = {} THEN [hits |-> {}, pending |-> None]
        ELSE IF end = None THEN [hits |-> {}, pending |-> base + Min(starts)]
        ELSE [rest EXCEPT !.hits = @ \cup {SvgBlock(base + Min(starts), base + end)}]

\* Mutant: what a window ends with is not looked at again.
OverlapNothing(window, length) == <<>>

\* What a window ends with is looked at again with the next one.
Overlap(window, length) == LastPart(window, length)

SvgsOfWindow(state, block) ==
    LET window == state.carry \o block
        base == state.scanned - Len(state.carry)
        end == SvgEnd(window, 1)
        closes == state.pending # None /\ end # None
        fresh == WindowSvgs(window, base, 1)
        waits == state.pending # None /\ end = None
    IN  [scanned |-> state.scanned + Len(block),
         carry |-> Overlap(window, 2),
         hits |-> state.hits \cup (IF closes THEN {SvgBlock(state.pending, base + end)} ELSE {})
                     \cup (IF waits THEN {} ELSE fresh.hits),
         pending |-> IF waits THEN state.pending ELSE fresh.pending]

WindowedSvgs(file) ==
    FoldLeft(SvgsOfWindow, [scanned |-> 0, carry |-> <<>>, hits |-> {}, pending |-> None],
             Blocks(file)).hits
------------------------------------------------------------------------------
(* The signatures, window by window: <<position, kind>>.                   *)

HitsIn(window, base, signatures) ==
    {<<base + k, g.kind>> : k \in DOMAIN window, g \in signatures} \cap
    UNION {{<<base + k, g.kind>> : k \in {j \in DOMAIN window :
                SubSeq(window, j, AtMost(j + Len(g.cells) - 1, Len(window))) = g.cells}} :
              g \in signatures}

SignatureOffsets(file, signatures) ==
    LET longest == Max({Len(g.cells) : g \in signatures})
        one(state, block) ==
            LET window == state.carry \o block
            IN  [scanned |-> state.scanned + Len(block),
                 carry |-> Overlap(window, longest - 1),
                 hits |-> state.hits
                     \cup HitsIn(window, state.scanned - Len(state.carry), signatures)]
    IN  FoldLeft(one, [scanned |-> 0, carry |-> <<>>, hits |-> {}], Blocks(file)).hits

ImageSignatures ==
    {[cells |-> <<Png>>, kind |-> "png"], [cells |-> <<Soi>>, kind |-> "jpeg"],
     [cells |-> <<Gif>>, kind |-> "gif"], [cells |-> <<Bmp>>, kind |-> "bmp"],
     [cells |-> <<Pdf>>, kind |-> "pdf"]}
------------------------------------------------------------------------------
(* The blocks of a file.                                                   *)

Block(start, kind, result) ==
    [offset |-> start, length |-> result.length, kind |-> kind, valid |-> result.error = None]

\* The block at a signature, or none.
BlocksAt(file, start, kind, allowInvalid) ==
    LET rest == SubSeq(file, start, Len(file))
        data == SubSeq(rest, 1, AtMost(ImageScan, Len(rest)))
        jpeg == JpegBlock(data, allowInvalid)
        result == CASE kind = "png" -> PngBlockInFile(rest, Len(rest))
                    [] kind = "jpeg" ->
                          IF jpeg.length = None /\ allowInvalid THEN [jpeg EXCEPT !.length = Len(data)]
                          ELSE jpeg
                    [] kind = "gif" ->
                          IF GifLength(data) # None THEN Measured(GifLength(data))
                          ELSE [length |-> AtMost(3, Len(rest)), error |-> "gif_invalid"]
                    [] kind = "bmp" -> Measured(IF Len(data) < 5 THEN None ELSE BmpLength(data))
                    [] kind = "pdf" -> Measured(PdfLength(data))
    IN  IF result.length = None THEN {} ELSE {Block(start, kind, result)}

\* The earlier of two blocks that overlap stays.
Keeps(previous, block) == block.offset >= previous.offset + AtLeast(previous.length, 1)

DedupeBlocks(blocks) ==
    LET before(a, b) == a.offset < b.offset
        keep(kept, block) ==
            IF kept = <<>> \/ Keeps(Last(kept), block) THEN Append(kept, block) ELSE kept
    IN  FoldLeft(keep, <<>>, Sorted(blocks, before))

FindImageBlocks(file, allowInvalid) ==
    DedupeBlocks(WindowedSvgs(file)
        \cup UNION {BlocksAt(file, hit[1], hit[2], allowInvalid) :
                       hit \in SignatureOffsets(file, ImageSignatures)})
------------------------------------------------------------------------------
(* The artifacts: extract_images.                                          *)

\* is_displayable_image_block: the bytes by themselves are one whole image.
Displayable(data, kind) ==
    CASE kind = "png" -> HasDimensions(data) /\ PngBlock(data) = Measured(Len(data))
      [] kind = "jpeg" -> JpegBlock(data, FALSE) = Measured(Len(data))
      [] kind = "gif" -> GifLength(data) = Len(data)
      [] kind = "bmp" -> BmpLength(data) = Len(data)
      [] kind = "pdf" -> PdfLength(data) = Len(data)
      [] kind = "svg" -> 1 \in SvgStarts(data) /\ IsSuffix(<<Less, Slash, Svg, Greater>>, data)

Carved(file, block) == SubSeq(file, block.offset, block.offset + block.length - 1)

\* The status of the item of a block, where a file of its name may exist.
ImageStatus(file, block, exists, force) ==
    IF ~block.valid THEN "partial"
    ELSE IF exists /\ ~force THEN "skipped"
    ELSE IF Displayable(Carved(file, block), block.kind) THEN "extracted" ELSE "partial"
------------------------------------------------------------------------------
\* A signature is found wherever the windows fall.
SignaturesAgree(file, signatures) ==
    SignatureOffsets(file, signatures) = HitsIn(file, 0, signatures)

\* A PNG is measured alike in memory and through a handle.
PngsAgree(data) ==
    LET read == PngBlockInFile(data, Len(data))
    IN  /\ read.length = PngBlock(data).length
        /\ read.length # None => read = PngBlock(data)

\* The blocks of a file are in it and apart, and an image that is called valid is whole by
\* itself: what follows it, and where the search was cut, plays no part in its length. The
\* formats whose length is taken from a header on trust are left to is_displayable_image_block.
ImagesAreWhole(file, allowInvalid) ==
    LET isWhole(block, data) ==
            \/ ImageStatus(file, block, FALSE, FALSE) = "extracted"
            \/ allowInvalid /\ JpegBlock(data, TRUE) = Measured(Len(data))
        areWhole(blocks) ==
            /\ \A n \in DOMAIN blocks : blocks[n].offset + blocks[n].length - 1 \in DOMAIN file
            /\ \A n \in 2 .. Len(blocks) :
                  blocks[n].offset >= blocks[n - 1].offset + blocks[n - 1].length
            /\ \A block \in ToSet(blocks) :
                  block.valid /\ block.kind \in {"jpeg", "gif", "pdf"} =>
                     isWhole(block, Carved(file, block))
    IN  areWhole(FindImageBlocks(file, allowInvalid))

\* An SVG is found wherever the windows fall, unless one ends so late in the end tag that the
\* overlap does not reach back to its beginning, or inside a longer word than "svg".
SvgsAgree(file) ==
    LET windowEnds == {n * ChunkSize : n \in 1 .. Len(file) \div ChunkSize}
        late == UNION {e[1] + 2 .. e[2] - 1 : e \in SvgEnds(file)}
        inside == {k + 1 : k \in DOMAIN file \ SvgStarts(file)}
                     \cap PositionsOf(file, {Svg}, 1)
    IN  windowEnds \cap (late \cup inside) = {} =>
           ToSet(DedupeBlocks(WindowedSvgs(file))) = WholeSvgs(file, 1)
==============================================================================
