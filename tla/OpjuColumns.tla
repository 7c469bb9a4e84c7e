----------------------------- MODULE OpjuColumns -----------------------------
(***************************************************************************)
(* The columns of a CPYUA project: the payload of a column                 *)
(* (opju/tagged/column_payloads.py), the descriptors that hold them        *)
(* (opju/tagged/__init__.py) and the worksheets they make                  *)
(* (opju/tagged/tables.py).                                                *)
(*                                                                         *)
(* A payload is a sequence of bytes.  A cell is None, Origin's missing     *)
(* value, or a pair of its kind and what is stored for it: of a float the  *)
(* bytes of its scalar, or the code and the residual its predictors were   *)
(* given (the predictors begin anew with every stream, so that equal       *)
(* streams are equal values).                                              *)
(***************************************************************************)
EXTENDS Commons, TLC

CONSTANTS
    VaruintBytes,   \* the longest base-128 integer (10)
    Sentinel,       \* the float cell that is Origin's missing value, -1.23456789e-300
    NotFinite       \* the float cells that are infinite or not a number

ASSUME ColumnsAssumption == VaruintBytes \in Nat \ {0}

Then(result, next(_)) == IF result = None THEN None ELSE next(result)

Missed == <<255, 255>>
Terminator == <<206>>
Predictors == <<12>>
One == <<26, 240, 63>>

Rest(p, at) == SubSeq(p, at, Len(p))
Has(p, at, bytes) == SubSeq(p, at, AtMost(Len(p), at + Len(bytes) - 1)) = bytes

\* The base-128 integer that follows some bytes.
Varuint(p, at, bytes) ==
    LET from == at + Len(bytes)
        upto(last) == [value |-> FoldLeft(LAMBDA v, d : v * 128 + (d % 128), 0,
                                          Reverse(SubSeq(p, from, last))),
                       next |-> last + 1]
        first(ends) == IF ends = {} THEN None ELSE upto(Min(ends))
    IN  IF ~Has(p, at, bytes) THEN None
        ELSE first({e \in from .. AtMost(Len(p), from + VaruintBytes - 1) : p[e] < 128})

EncodedVaruint(n) == IF n < 128 THEN <<n>> ELSE <<128 + (n % 128), n \div 128>>

Blanks(n) == [m \in 1 .. n |-> None]
Decoded(encoding, cells) == [encoding |-> encoding, cells |-> cells]

RowAndStoredCount(p) ==
    Then(Varuint(p, 3, <<>>), LAMBDA rows :
    Then(Varuint(p, rows.next, Missed), LAMBDA stored :
    IF stored.value > rows.value THEN None
    ELSE [rows |-> rows.value, stored |-> stored.value, next |-> stored.next]))
------------------------------------------------------------------------------
(* Floats.                                                                 *)

StoredByteCount(code) == (code % 8) + (code % 8) \div 4

\* Two codes share a control byte, the low half first.
FpcStream(p, at, count) ==
    LET read[n \in 0 .. count] ==
            IF n = 0 THEN [cells |-> <<>>, next |-> at, control |-> 0]
            ELSE Then(read[n - 1], LAMBDA s :
                 LET first == n % 2 = 1
                     control == IF first THEN p[s.next] ELSE s.control
                     code == IF first THEN control % 16 ELSE control \div 16
                     from == IF first THEN s.next + 1 ELSE s.next
                     next == from + StoredByteCount(code)
                 IN  IF first /\ s.next > Len(p) THEN None
                     ELSE IF next > Len(p) + 1 THEN None
                     ELSE [cells |-> Append(s.cells, <<"float64", <<code>> \o SubSeq(p, from, next - 1)>>),
                           next |-> next, control |-> control])
    IN  read[count]

\* What follows the values is a run of the missing ones, if there are any, and the terminator.
TrailingMissing(p, at, expected) ==
    Rest(p, at) = IF expected = 0 THEN Terminator
                  ELSE Missed \o EncodedVaruint(expected) \o <<1>>
                           \o EncodedVaruint(2 * expected) \o <<0>> \o Terminator

CompactScalarBytes == 26 :> 2 @@ 35 :> 3 @@ 62 :> 6 @@ 71 :> 7 @@ 80 :> 8

CompactScalar(p, at) ==
    IF at > Len(p) THEN None
    ELSE LET code == p[at]
             next == at + 1 + CompactScalarBytes[code]
         IN  IF code = 101 THEN [cell |-> None, next |-> at + 1]
             ELSE IF code = 100 THEN [cell |-> <<"float64", <<100>>>>, next |-> at + 1]
             ELSE IF code \notin DOMAIN CompactScalarBytes \/ next > Len(p) + 1 THEN None
             ELSE [cell |-> <<"float64", SubSeq(p, at, next - 1)>>, next |-> next]

\* A run of missing values: how many, the kind 1, twice as many, and a zero.
MissingRun(p, at, count) ==
    Then(Varuint(p, at, Missed), LAMBDA run :
    Then(Varuint(p, run.next, <<>>), LAMBDA kind :
    Then(Varuint(p, kind.next, <<>>), LAMBDA doubled :
    IF /\ run.value = count /\ kind.value = 1 /\ doubled.value = 2 * count
       /\ Has(p, doubled.next, <<0>>)
    THEN [next |-> doubled.next + 1] ELSE None)))

DecodeEmpty(p) ==
    IF p = <<10, 5, 1, 1, 0, 0>> \o Terminator THEN Decoded("empty", Blanks(1))
    ELSE Then(RowAndStoredCount(p), LAMBDA head :
         Then(Varuint(p, head.next, <<>>), LAMBDA marker :
         Then(Varuint(p, marker.next, <<>>), LAMBDA doubled :
         IF /\ head.stored = head.rows /\ marker.value = 1 /\ doubled.value = 2 * head.rows
            /\ Rest(p, doubled.next) = <<0>> \o Terminator
         THEN Decoded("empty", Blanks(head.rows)) ELSE None)))

\* The literals of a direct payload, and of one that begins with a run of ones.
Literals(p, head, at, count, ones, encoding) ==
    Then(IF Has(p, at, Predictors) THEN FpcStream(p, at + 1, count) ELSE None, LAMBDA stream :
    IF ~TrailingMissing(p, stream.next, head.rows - head.stored) THEN None
    ELSE Decoded(encoding, [n \in 1 .. ones |-> <<"float64", One>>] \o stream.cells
                           \o Blanks(head.rows - head.stored)))

DecodeDirectFpc(p) ==
    Then(RowAndStoredCount(p), LAMBDA head :
    Then(Varuint(p, head.next, <<0>>), LAMBDA marker :
    IF head.stored = 0 \/ marker.value # 2 * head.stored - 1 THEN None
    ELSE Literals(p, head, marker.next, head.stored, 0, "fpc-fcm-dfcm")))

DecodeConstantPrefixFpc(p) ==
    Then(RowAndStoredCount(p), LAMBDA head :
    Then(Varuint(p, head.next, <<0>>), LAMBDA repeated :
    Then(Varuint(p, repeated.next, One), LAMBDA marker :
    LET ones == repeated.value \div 2
        literals == (marker.value + 1) \div 2
    IN  IF \/ repeated.value = 0 \/ repeated.value % 2 = 1
           \/ marker.value % 2 = 0 \/ ones + literals # head.stored
        THEN None
        ELSE Literals(p, head, marker.next, literals, ones, "constant-one-prefix-fpc-fcm-dfcm"))))

\* Runs of literals (an odd marker) and of one repeated scalar (an even one).
NumericSegment(p, at, marker) ==
    IF marker = 0 THEN None
    ELSE IF marker % 2 = 1
    THEN Then(IF Has(p, at, Predictors) THEN FpcStream(p, at + 1, (marker + 1) \div 2) ELSE None, LAMBDA l :
         [l EXCEPT !.cells = Each(@, LAMBDA c : IF c = Sentinel THEN None ELSE c)])
    ELSE Then(CompactScalar(p, at), LAMBDA c :
         [cells |-> [m \in 1 .. marker \div 2 |-> c.cell], next |-> c.next])

NumericSegments(p, at, count) ==
    LET with(s, g) == IF Len(s.cells \o g.cells) > count THEN None
                      ELSE [cells |-> s.cells \o g.cells, next |-> g.next]
        read[n \in 0 .. count] ==
            IF n = 0 THEN [cells |-> <<>>, next |-> at]
            ELSE Then(read[n - 1], LAMBDA s :
                 IF Len(s.cells) >= count THEN s
                 ELSE Then(Varuint(p, s.next, <<>>), LAMBDA marker :
                      Then(NumericSegment(p, marker.next, marker.value), LAMBDA g : with(s, g))))
    IN  read[count]

SegmentedRun(p, at, most) ==
    Then(Varuint(p, at, Missed), LAMBDA count :
    Then(Varuint(p, count.next, <<>>), LAMBDA kind :
    IF count.value = 0 \/ count.value > most THEN None
    ELSE IF kind.value = 0 THEN NumericSegments(p, kind.next, count.value)
    ELSE Then(MissingRun(p, at, count.value), LAMBDA m :
         [cells |-> Blanks(count.value), next |-> m.next])))

DecodeSegmentedFpc(p) ==
    Then(Varuint(p, 3, <<>>), LAMBDA rows :
    LET read[n \in 0 .. rows.value] ==
            IF n = 0 THEN [cells |-> <<>>, next |-> rows.next]
            ELSE Then(read[n - 1], LAMBDA s :
                 IF Len(s.cells) >= rows.value THEN s
                 ELSE IF Has(p, s.next, <<1, 0, 0>>)
                 THEN [cells |-> Append(s.cells, None), next |-> s.next + 3]
                 ELSE Then(SegmentedRun(p, s.next, rows.value - Len(s.cells)), LAMBDA r :
                      [cells |-> s.cells \o r.cells, next |-> r.next]))
    IN  Then(read[rows.value], LAMBDA s :
        IF Rest(p, s.next) = Terminator THEN Decoded("segmented-fpc-fcm-dfcm", s.cells) ELSE None))

\* Scalars with an optional separator, until the missing ones.
DecodePlainScalars(p) ==
    Then(Varuint(p, 3, <<>>), LAMBDA rows :
    LET read[n \in 0 .. rows.value] ==
            IF n = 0 THEN [cells |-> <<>>, next |-> rows.next + 2]
            ELSE Then(read[n - 1], LAMBDA s :
                 LET left == rows.value - Len(s.cells) IN
                 IF left = 0 THEN s
                 ELSE IF Has(p, s.next, Missed)
                 THEN Then(MissingRun(p, s.next, left), LAMBDA m :
                      [cells |-> s.cells \o Blanks(left), next |-> m.next])
                 ELSE Then(CompactScalar(p, s.next), LAMBDA c :
                      [cells |-> Append(s.cells, c.cell),
                       next |-> IF left > 1 /\ Has(p, c.next, <<0, 0>>) THEN c.next + 2 ELSE c.next]))
    IN  Then(IF Has(p, rows.next, <<0, 0>>) THEN read[rows.value] ELSE None, LAMBDA s :
        IF Rest(p, s.next) = Terminator THEN Decoded("compact-double-sequence", s.cells) ELSE None))
------------------------------------------------------------------------------
(* Texts and integers.                                                     *)

\* A value of length-prefixed UTF-8 (of these bytes none above 127 is part of a character).
Utf8Value(p, at) ==
    Then(Varuint(p, at, <<>>), LAMBDA length :
    LET next == length.next + length.value
        bytes == SubSeq(p, length.next, next - 1)
    IN  IF next > Len(p) + 1 \/ \E b \in DOMAIN bytes : bytes[b] > 127 THEN None
        ELSE [cell |-> <<"utf8", bytes>>, next |-> next])

VaruintValue(p, at) ==
    Then(Varuint(p, at, <<>>), LAMBDA v :
    [cell |-> <<"unsigned_integer", <<v.value>>>>, next |-> v.next])

\* The rows, a run of them all of kind 1, the literals, and twice the number of the missing
\* ones, which texts have even when it is none.
DecodeSequence(p, value(_, _), encoding, always) ==
    Then(Varuint(p, 3, <<>>), LAMBDA rows :
    Then(Varuint(p, rows.next, Missed), LAMBDA run :
    Then(Varuint(p, run.next, <<>>), LAMBDA kind :
    Then(Varuint(p, kind.next, <<>>), LAMBDA marker :
    LET count == (marker.value + 1) \div 2
        left == rows.value - count
        read[n \in 0 .. count] ==
            IF n = 0 THEN [cells |-> <<>>, next |-> marker.next]
            ELSE Then(read[n - 1], LAMBDA s :
                 Then(value(p, s.next), LAMBDA v :
                 [cells |-> Append(s.cells, v.cell), next |-> v.next]))
        closed(s) ==
            IF left > 0 \/ always
            THEN Then(Varuint(p, s.next, <<>>), LAMBDA doubled :
                 IF doubled.value = 2 * left /\ Rest(p, doubled.next) = <<0>> \o Terminator
                 THEN s ELSE None)
            ELSE IF Rest(p, s.next) = Terminator THEN s ELSE None
    IN  IF run.value # rows.value \/ kind.value # 1 \/ marker.value % 2 = 0 \/ left < 0 THEN None
        ELSE Then(Then(read[count], closed), LAMBDA s :
             Decoded(encoding, s.cells \o Blanks(left)))))))

DecodeUtf8(p) == DecodeSequence(p, Utf8Value, "utf8-string-sequence", TRUE)
DecodeVaruints(p) == DecodeSequence(p, VaruintValue, "unsigned-varint-sequence", FALSE)

\* What the decoders of a numeric or text payload say of it, in the order they are tried.
Readings(p) ==
    SelectSeq(<<DecodeEmpty(p), DecodeDirectFpc(p), DecodeConstantPrefixFpc(p),
                DecodeSegmentedFpc(p), DecodePlainScalars(p), DecodeUtf8(p)>>,
              LAMBDA r : r # None)

DecodePayload(p) ==
    LET first(readings) == IF readings = <<>> THEN None ELSE readings[1]
        finite(r) == IF \E c \in DOMAIN r.cells : r.cells[c] \in NotFinite THEN None ELSE r
    IN  IF Len(p) < 3 THEN None
        ELSE Then(IF Has(p, 1, <<10, 4>>) THEN DecodeVaruints(p)
                  ELSE IF Has(p, 1, <<10, 5>>) THEN first(Readings(p))
                  ELSE None,
                  finite)
==============================================================================
