--------------------------- MODULE MCViewerBackend ---------------------------
(***************************************************************************)
(* Instances of ViewerBackend for TLC: one or two projects whose files     *)
(* alternate between two contents that have one item position in common,   *)
(* and handles for at most three calls, which are interchangeable.         *)
(***************************************************************************)
EXTENDS ViewerBackend, TLC

CONSTANTS a, b, f1, f2, f3, p1, p2

MCEntriesOf == (a :> {1}) @@ (b :> {1, 2})

CallSymmetry == Permutations(Futures)

\* No input changes while a command runs on it.
StableInit == Init /\ stable

StableSpec == StableInit /\ [][Next]_vars /\ Fairness
=============================================================================
