------------------------------- MODULE MCImages -------------------------------
(***************************************************************************)
(* Small files of ImageBlocks.                                             *)
(***************************************************************************)
EXTENDS ImageBlocks, MCArtifacts

SignatureFiles == Words({1, 2, 3}, FileLength + 1)
OverlappingSignatures == {[cells |-> c, kind |-> c] : c \in {<<1, 2, 1>>, <<1>>, <<2, 1>>}}
SvgFiles == Words({Less, Slash, Svg, Greater, Letter}, FileLength + 1)
PngFiles == {<<Png>> \o w : w \in Words({0, 1, Ihdr, Iend, Crc}, FileLength)}
ImageFiles ==
    PngFiles
    \cup {<<Soi>> \o w : w \in Words({1, 2, Soi, Eoi, Sos, Sof, App, Odd, Dims}, FileLength - 2)}
    \cup {<<Soi, Sof, 2, Dims>> \o w : w \in Words({1, 2, Eoi, Sos, App, Odd, Rst}, FileLength - 3)}
    \cup {<<Gif, 1>> \o w : w \in Words({0, 1, Extension, Image, Trailer}, FileLength - 1)}
    \cup Words({1, 4, Bmp, Info, Pdf, EofMark, Space, Png}, FileLength - 2)
    \cup Words({1, Soi, Eoi, Pdf, EofMark, Gif, Space}, FileLength - 2)
------------------------------------------------------------------------------
FindImages ==
    /\ Turn(3)
    /\ \/ \E f \in SignatureFiles : subject' = [of |-> "signatures", file |-> f]
       \/ \E f \in SvgFiles : subject' = [of |-> "svgs", file |-> f]
       \/ \E f \in PngFiles : subject' = [of |-> "pngs", file |-> f]
       \/ \E f \in ImageFiles, invalid \in BOOLEAN :
             subject' = [of |-> "images", file |-> f, invalid |-> invalid]

\* Images are found where the windows fall on them too, a PNG is measured alike in memory and
\* through a handle, and what is called a valid image is whole by itself.
ImagesAreFound ==
    /\ subject.of = "signatures" => SignaturesAgree(subject.file, OverlappingSignatures)
    /\ subject.of = "svgs" => SvgsAgree(subject.file)
    /\ subject.of = "pngs" => PngsAgree(subject.file)
    /\ subject.of = "images" => ImagesAreWhole(subject.file, subject.invalid)
==============================================================================
