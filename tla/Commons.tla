------------------------------- MODULE Commons -------------------------------
(***************************************************************************)
(* What the modules about the commands share: the value of an attribute    *)
(* that is absent, and the helpers none of the libraries has.              *)
(***************************************************************************)
EXTENDS Integers, Sequences, SequencesExt, FiniteSets, FiniteSetsExt

CONSTANTS
    None,       \* an attribute the item does not have, Python's None
    CapLimit    \* heuristic_kind_limit: items of one kind before the list is capped

ASSUME CapLimitAssumption == CapLimit \in Nat \ {0}

AtLeast(a, b) == IF a >= b THEN a ELSE b
AtMost(a, b) == IF a <= b THEN a ELSE b

If(condition, sequence) == IF condition THEN sequence ELSE <<>>

Each(s, value(_)) == [n \in DOMAIN s |-> value(s[n])]

\* The members of S, the n-th being the one with n - 1 before it.
Sorted(S, before(_, _)) ==
    [n \in 1 .. Cardinality(S) |-> CHOOSE x \in S : Cardinality({y \in S : before(y, x)}) = n - 1]

Ascending(S) == Sorted(S, <)

\* The members of s at some of its positions, and those that pass a test.
Picked(s, positions) == Each(Ascending(positions), LAMBDA n : s[n])
Those(s, test(_)) == Picked(s, {n \in DOMAIN s : test(s[n])})

\* s in the order of key, equal keys in the order of s: Python's sorted.
SortedBy(s, key(_)) ==
    LET upTo(sorted, x) == Cardinality({n \in DOMAIN sorted : key(sorted[n]) <= key(x)})
    IN  FoldLeft(LAMBDA sorted, x : InsertAt(sorted, upTo(sorted, x) + 1, x), <<>>, s)

\* The members of s without the later ones of a key that was seen.
FirstOfEach(s, key(_)) ==
    Picked(s, {n \in DOMAIN s : \A m \in 1 .. n - 1 : key(s[m]) # key(s[n])})
==============================================================================
