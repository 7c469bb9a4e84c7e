------------------------------ MODULE MCColumns ------------------------------
(***************************************************************************)
(* Small inputs of OpjuColumns and OpjuSheets.                             *)
(***************************************************************************)
EXTENDS OpjuSheets, MCSubject

SentinelCell == <<"float64", <<1, 7>>>>
InfiniteCells == {<<"float64", <<26, 240, 127>>>>}

\* Segments: literals that are one value (the sentinel among them) or two, and repeated ones.
Segments ==
    {<<1, 12, 1, 7>>, <<1, 12, 0>>, <<1, 12, 1, 206>>, <<3, 12, 17, 8, 9>>, <<1>>, <<0>>,
     <<2, 26, 240, 63>>, <<4, 26, 240, 63>>, <<2, 26, 240, 127>>, <<2, 101>>, <<4, 100>>}
Scalars == {<<26, 240, 63>>, <<26, 240, 127>>, <<100>>, <<101>>, <<100, 0, 0>>, <<35, 1, 2>>}
Strings == {<<0>>, <<1, 65>>, <<2, 66, 206>>, <<3, 67>>}

Joined(parts) == {a \o b : a \in parts, b \in {<<>>} \cup parts}
Missings == {<<>>} \cup {<<255, 255, n, k, d, 0>> : n \in 1 .. 2, k \in {1, 2}, d \in {2, 4}}

FloatBodies ==
    {<<255, 255, n, 0>> \o s \o m : n \in 0 .. 3, s \in Joined(Segments), m \in Missings}
    \cup {<<1, 0, 0>> \o m : m \in Missings \cup {<<255, 255, 1, 0, 1, 12, 0>>}}
    \cup {<<0, 0>> \o s \o m : s \in {<<>>} \cup Joined(Scalars), m \in Missings}
    \cup Missings
SequenceBodies(literals) ==
    {<<255, 255, n, 1, k>> \o s \o t :
        n \in 1 .. 3, k \in 1 .. 4, s \in {<<>>} \cup Joined(literals), t \in {<<>>, <<0, 0>>, <<2, 0>>}}

ReadAPayload ==
    /\ Turn(3)
    /\ \/ \E rows \in 0 .. 3 : \E b \in FloatBodies \cup SequenceBodies(Strings) :
             subject' = [of |-> "payload", payload |-> <<10, 5, rows>> \o b \o <<206>>]
       \/ \E rows \in 1 .. 3 : \E b \in SequenceBodies({<<0>>, <<9>>, <<130, 1>>}) :
             subject' = [of |-> "payload", payload |-> <<10, 4, rows>> \o b \o <<206>>]

\* Files of up to three columns, sixteen bytes each, with a name before each prefix.
Twice == <<10, 5, 2, 0, 0, 26, 240, 63, 101, 206>>
Once == <<10, 5, 1, 255, 255, 1, 1, 1, 1, 65, 0, 0, 206>>
Unread == <<10, 5, 1, 206>>
Identities == {[workbook |-> "Book1", sheet |-> 1, column |-> c] : c \in 1 .. 3}
              \cup {[workbook |-> "Book2", sheet |-> 1, column |-> 1], None}
Payloads == {[length |-> n, bytes |-> b] : n \in {0, 4}, b \in {Twice}}
            \cup {[length |-> 4, bytes |-> b] : b \in {Once, Unread}}

Name(n, identity, gap) ==
    [start |-> 16 * n - 2 - gap, end |-> 16 * n - gap, identity |-> identity,
     framed |-> n = 2, legacy |-> n # 2]
RecordAt(start, ordinal, display, label) ==
    [start |-> start, ordinal |-> ordinal, display |-> display, displayEnd |-> start + 1,
     label |-> label]
LabelAt(at) == [at |-> at, end |-> at + 2, text |-> "label"]
RecordSets ==
    {{}, {RecordAt(60, 1, "X", LabelAt(61)), RecordAt(62, 2, "Y", None)},
     {RecordAt(60, 2, "X", LabelAt(61)), RecordAt(70, 2, "Y", None)},
     {RecordAt(60, 2, "X", LabelAt(64)), RecordAt(70, 3, "Y", LabelAt(71)), RecordAt(80, 4, "Z", None)}}
Envelopes == [end |-> 25, fields |-> ("display_name" :> "named" @@ "units" :> "m"), formula |-> "=1"]

FileOf(payloads, names, records, envelopes) ==
    [size |-> 90, payloads |-> [p \in {16 * n : n \in DOMAIN payloads} |-> payloads[p \div 16]],
     names |-> names, preludes |-> {23}, records |-> records, envelopes |-> envelopes]

ReadAFile ==
    /\ Turn(4)
    /\ \E count \in 1 .. 3, records \in RecordSets, gap \in {0, 3}, e \in {<<>>, 23 :> Envelopes} :
       \E identities \in [1 .. count -> Identities], payloads \in [1 .. count -> Payloads] :
          /\ count = 3 => gap = 0 /\ e = <<>> /\ \A n \in 1 .. 3 : payloads[n].length > 0
          /\ subject' = [of |-> "columns",
                         data |-> FileOf(payloads,
                                         {Name(n, identities[n], IF n = 2 THEN gap ELSE 0) : n \in 1 .. count},
                                         records, e)]
------------------------------------------------------------------------------
\* The cells of a payload do not depend on the order of the decoders and are those it has,
\* and a worksheet has all of its columns and what is said of them.
ColumnsAreWhole ==
    /\ subject.of = "payload" =>
          /\ ReadingsAgree(subject.payload)
          /\ PayloadIsExact(subject.payload)
    /\ subject.of = "columns" => SheetsAreWhole(subject.data)
==============================================================================
