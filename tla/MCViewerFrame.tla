--------------------------- MODULE MCViewerFrame ---------------------------
(* ViewerFrame for TLC: a project with a workbook of two sheets and a note. *)
EXTENDS ViewerFrame, TLC

CONSTANTS p1, p2, folder, sheet1, sheet2, note, other

MCPathOf == [t \in Targets |-> IF t = other THEN p2 ELSE p1]

MCBookOf == [t \in Targets |-> IF t \in {sheet1, sheet2} THEN folder ELSE None]

\* Tables are preferred to text, and the sheets are ordered by name.
MCRank == [t \in Targets |-> CASE t = sheet1 -> 1 [] t = sheet2 -> 2 [] OTHER -> 3]
=============================================================================
