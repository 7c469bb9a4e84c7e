------------------------------ MODULE MCCaches ------------------------------
(***************************************************************************)
(* A process that reads two projects of one length, one of which is        *)
(* replaced at some time.                                                  *)
(***************************************************************************)
EXTENDS ParseCaches

CONSTANTS p, q, a, b, m1, m2

MCFirstContent == [f \in Files |-> IF f = p THEN a ELSE b]
=============================================================================
