---------------------------- MODULE InventoryProofs ----------------------------
(***************************************************************************)
(* What discovery keeps and what the list is made of, for every file; what *)
(* the reports of list, inspect and extract claim, for every input; and    *)
(* what a match of compare means, for all manifests.                       *)
(***************************************************************************)
EXTENDS MCInventory, MCReports, ArtifactsProofs

------------------------------------------------------------------------------
(* Counting.                                                               *)

\* What is different for each member of a finite set is as many.
LEMMA ImagesAreAsMany ==
    ASSUME NEW S, IsFiniteSet(S), NEW f, f = [x \in S |-> f[x]],
           \A x, y \in S : f[x] = f[y] => x = y
    PROVE  /\ IsFiniteSet({f[x] : x \in S}) /\ Cardinality({f[x] : x \in S}) = Cardinality(S)
<1> DEFINE T == {f[x] : x \in S}
<1>1. f \in [S -> T]
  OBVIOUS
<1>2. f \in Bijection(S, T)
  <2>1. \A t \in T : \E x \in S : f[x] = t
    OBVIOUS
  <2> HIDE DEF T
  <2> QED BY <1>1, <2>1 DEF Bijection, Injection, Surjection, IsInjective
<1>3. ExistsBijection(S, T)
  <2> HIDE DEF T
  <2> QED BY <1>2 DEF ExistsBijection
<1> HIDE DEF T
<1>4. IsFiniteSet(T) /\ Cardinality(T) = Cardinality(S)
  BY <1>3, FS_Bijection
<1> QED BY <1>4 DEF T

\* The first k of a set of numbers, by how many are before them, are k if it has so many.
LEMMA FirstOnesAre ==
    ASSUME NEW N \in Nat, NEW A \in SUBSET (1 .. N), NEW k \in Nat, NEW F,
           F = {n \in A : Cardinality({m \in A : m < n}) < k}
    PROVE  /\ Cardinality(A) \in Nat
           /\ Cardinality(F) = AtMost(Cardinality(A), k)
<1> DEFINE c == Cardinality(A)
           at == Ascending(A)
<1>1. A \in SUBSET Int /\ IsFiniteSet(A)
  <2>1. IsFiniteSet(1 .. N)
    <3>1. 1 \in Int /\ N \in Int
      OBVIOUS
    <3> QED BY <3>1, FS_Interval
  <2>2. IsFiniteSet(A)
    BY <2>1, FS_Subset
  <2> QED BY <2>2
<1>2. /\ c \in Nat
      /\ at \in [1 .. c -> A]
      /\ \A x \in A : \E n \in 1 .. c : at[n] = x
      /\ \A n, m \in 1 .. c : n < m => at[n] < at[m]
  BY <1>1, SortedNumbers
<1> HIDE DEF c, at
<1>3. \A n, m \in 1 .. c : at[n] = at[m] => n = m
  <2> SUFFICES ASSUME NEW n \in 1 .. c, NEW m \in 1 .. c, at[n] = at[m] PROVE n = m
    OBVIOUS
  <2>1. at[n] \in Int /\ at[m] \in Int
    BY <1>1, <1>2
  <2> QED BY <1>2, <2>1
<1>4. \A n, m \in 1 .. c : at[n] < at[m] => n < m
  <2> SUFFICES ASSUME NEW n \in 1 .. c, NEW m \in 1 .. c, at[n] < at[m] PROVE n < m
    OBVIOUS
  <2>1. at[n] \in Int /\ at[m] \in Int
    BY <1>1, <1>2
  <2> QED BY <1>2, <2>1
<1>5. ASSUME NEW S \in SUBSET (1 .. c)
      PROVE  Cardinality({at[i] : i \in S}) = Cardinality(S)
  <2> DEFINE f == [i \in S |-> at[i]]
  <2>1. IsFiniteSet(S)
    <3>1. IsFiniteSet(1 .. c)
      <4>1. 1 \in Int /\ c \in Int
        BY <1>2
      <4> QED BY <4>1, FS_Interval
    <3> QED BY <3>1, FS_Subset
  <2>2. f = [i \in S |-> f[i]] /\ \A x, y \in S : f[x] = f[y] => x = y
    BY <1>3
  <2>3. {f[i] : i \in S} = {at[i] : i \in S}
    OBVIOUS
  <2> HIDE DEF f
  <2>4. Cardinality({f[i] : i \in S}) = Cardinality(S)
    BY <2>1, <2>2, ImagesAreAsMany
  <2> QED BY <2>3, <2>4
<1>6. \A n \in 0 .. c : Cardinality(1 .. n) = n /\ 1 .. n \in SUBSET (1 .. c)
  <2> SUFFICES ASSUME NEW n \in 0 .. c
               PROVE  Cardinality(1 .. n) = n /\ 1 .. n \in SUBSET (1 .. c)
    OBVIOUS
  <2>1. 1 \in Int /\ n \in Int /\ n \in Nat
    BY <1>2
  <2>2. Cardinality(1 .. n) = IF 1 > n THEN 0 ELSE n - 1 + 1
    BY <2>1, FS_Interval
  <2> QED BY <1>2, <2>1, <2>2
<1>7. ASSUME NEW i \in 1 .. c PROVE Cardinality({m \in A : m < at[i]}) = i - 1
  <2>1. {m \in A : m < at[i]} = {at[j] : j \in 1 .. i - 1}
    <3>1. ASSUME NEW m \in A, m < at[i] PROVE \E j \in 1 .. i - 1 : m = at[j]
      <4>1. PICK j \in 1 .. c : at[j] = m
        BY <1>2
      <4>2. j < i
        BY <1>4, <3>1, <4>1
      <4> QED BY <4>1, <4>2
    <3>2. \A j \in 1 .. i - 1 : at[j] \in A /\ at[j] < at[i]
      <4> SUFFICES ASSUME NEW j \in 1 .. i - 1 PROVE at[j] \in A /\ at[j] < at[i]
        OBVIOUS
      <4>1. j \in 1 .. c /\ j < i
        BY <1>2
      <4> QED BY <1>2, <4>1
    <3> QED BY <3>1, <3>2
  <2>2. i - 1 \in 0 .. c
    BY <1>2
  <2>3. Cardinality(1 .. i - 1) = i - 1 /\ 1 .. i - 1 \in SUBSET (1 .. c)
    BY <1>6, <2>2
  <2>4. Cardinality({at[j] : j \in 1 .. i - 1}) = Cardinality(1 .. i - 1)
    BY <1>5, <2>3
  <2> QED BY <2>1, <2>3, <2>4
<1> DEFINE l == AtMost(c, k)
<1>8. l \in 0 .. c /\ \A i \in 1 .. c : i - 1 < k <=> i \in 1 .. l
  BY <1>2 DEF AtMost
<1> HIDE DEF l
<1>9. F = {at[i] : i \in 1 .. l}
  <2>1. ASSUME NEW n \in F PROVE \E i \in 1 .. l : n = at[i]
    <3>1. n \in A /\ Cardinality({m \in A : m < n}) < k
      OBVIOUS
    <3>2. PICK i \in 1 .. c : at[i] = n
      BY <1>2, <3>1
    <3>3. i - 1 < k
      BY <1>7, <3>1, <3>2
    <3> QED BY <1>8, <3>2, <3>3
  <2>2. ASSUME NEW i \in 1 .. l PROVE at[i] \in F
    <3>1. i \in 1 .. c
      BY <1>2, <1>8
    <3>2. i - 1 < k /\ at[i] \in A
      BY <1>2, <1>8, <3>1
    <3> QED BY <1>7, <3>1, <3>2
  <2> QED BY <2>1, <2>2
<1>10. Cardinality(F) = l
  <2>1. 1 .. l \in SUBSET (1 .. c) /\ Cardinality(1 .. l) = l
    BY <1>6, <1>8
  <2>2. Cardinality({at[i] : i \in 1 .. l}) = Cardinality(1 .. l)
    BY <1>5, <2>1
  <2> QED BY <1>9, <2>1, <2>2
<1> QED BY <1>2, <1>10 DEF c, l
------------------------------------------------------------------------------
(* What the scans find.  Value is what symbols, kinds and signals are of.  *)

Kinds == {"worksheet", "graph", "matrix", "note", "unclassified"}
Signals == {"token_scan", "bracket_scan"}
Vocabulary == {"object", "project", "origin_project", "worksheet", "graph", "matrix", "note",
               "token_scan", "bracket_scan", None}

Counts(K) == UNION {[D -> Int] : D \in SUBSET K}
Hits(Value) == [offset : Int, name : Seq(Value), kind : Kinds, signal : Signals]
FoundStates(Value) ==
    [out : Seq(Hits(Value)), names : Counts(Seq(Value)), kinds : Counts(Kinds), full : BOOLEAN]

\* One more of a key is a count.
LEMMA CountedUp ==
    ASSUME NEW K, NEW hits \in Counts(K), NEW key \in K
    PROVE  CountUp(hits, key) \in Counts(K)
<1>1. PICK D \in SUBSET K : hits \in [D -> Int]
  BY DEF Counts
<1> DEFINE next == [k \in DOMAIN hits \cup {key} |-> Count(hits, k) + IF k = key THEN 1 ELSE 0]
<1>2. \A k \in K : Count(hits, k) \in Int
  BY <1>1 DEF Count
<1>3. DOMAIN hits \cup {key} \in SUBSET K
  BY <1>1
<1>4. next \in [DOMAIN hits \cup {key} -> Int]
  BY <1>2, <1>3
<1> HIDE DEF next
<1>5. next \in Counts(K)
  BY <1>3, <1>4 DEF Counts
<1> QED BY <1>5 DEF CountUp, next

\* Discovering a name adds a hit, counts it or does neither.
LEMMA DiscoverKeeps ==
    ASSUME NEW Value, NEW limits, NEW found \in FoundStates(Value), NEW name \in Seq(Value),
           NEW kind \in Kinds, NEW offset \in Int, NEW signal \in Signals
    PROVE  Discover(limits, found, name, kind, offset, signal) \in FoundStates(Value)
<1> DEFINE hit == [offset |-> offset, name |-> name, kind |-> kind, signal |-> signal]
           named == [found EXCEPT !.names = CountUp(found.names, name)]
           both == [named EXCEPT !.kinds = CountUp(named.kinds, kind),
                                 !.out = Append(named.out, hit)]
<1>1. /\ found.out \in Seq(Hits(Value)) /\ found.names \in Counts(Seq(Value))
      /\ found.kinds \in Counts(Kinds)
  BY DEF FoundStates
<1>2. CountUp(found.names, name) \in Counts(Seq(Value)) /\ CountUp(found.kinds, kind) \in Counts(Kinds)
  BY <1>1, CountedUp
<1>3. named \in FoundStates(Value) /\ named.kinds = found.kinds /\ named.out = found.out
  BY <1>2 DEF FoundStates
<1>4. hit \in Hits(Value)
  BY DEF Hits
<1> HIDE DEF hit
<1>5. Append(found.out, hit) \in Seq(Hits(Value))
  BY <1>1, <1>4
<1>6. both \in FoundStates(Value)
  <2> HIDE DEF named
  <2> QED BY <1>2, <1>3, <1>5 DEF FoundStates
<1>7. Discover(limits, found, name, kind, offset, signal) \in {found, named, both}
  <2> HIDE DEF both
  <2>1. Discover(limits, found, name, kind, offset, signal) = found
        \/ Discover(limits, found, name, kind, offset, signal) = named
        \/ Discover(limits, found, name, kind, offset, signal) = both
    BY DEF Discover, hit, both
  <2> QED BY <2>1
<1> QED BY <1>3, <1>6, <1>7

\* The least of some numbers is one of them.
LEMMA LeastIsIn ==
    ASSUME NEW S \in SUBSET Nat, S # {} PROVE Min(S) \in S
<1>1. PICK n \in S : \A m \in S : n <= m
  BY LeastNumber
<1> QED BY <1>1 DEF Min

Spans(s) == {r \in Nat \X Nat : 1 <= r[1] /\ r[1] <= r[2] /\ r[2] <= Len(s)}

\* The runs of a sequence lie in it, and no two begin at one place.
LEMMA RunsAre ==
    ASSUME NEW Value, NEW s \in Seq(Value), NEW class
    PROVE  /\ Runs(s, class) \in Seq(Spans(s))
           /\ \A a, b \in ToSet(Runs(s, class)) : a[1] = b[1] => a = b
<1> DEFINE L == Len(s)
           first == {k \in DOMAIN s : s[k] \in class /\ (k = 1 \/ s[k - 1] \notin class)}
           ends(k) == {m \in k .. Len(s) : m = Len(s) \/ s[m + 1] \notin class}
           at == Ascending(first)
           c == Cardinality(first)
           runs == [n \in DOMAIN at |-> <<at[n], Min(ends(at[n]))>>]
<1>1. L \in Nat /\ DOMAIN s = 1 .. L
  OBVIOUS
<1>2. first \in SUBSET (1 .. L) /\ first \in SUBSET Int /\ IsFiniteSet(first)
  <2>1. first \in SUBSET (1 .. L) /\ first \in SUBSET Int
    BY <1>1
  <2>2. IsFiniteSet(1 .. L)
    <3>1. 1 \in Int /\ L \in Int
      BY <1>1
    <3> QED BY <3>1, FS_Interval
  <2> HIDE DEF first
  <2>3. IsFiniteSet(first)
    BY <2>1, <2>2, FS_Subset
  <2> QED BY <2>1, <2>3
<1>3. Runs(s, class) = runs
  BY DEF Runs, Each
<1> HIDE DEF first
<1>4. c \in Nat /\ at \in [1 .. c -> first]
  BY <1>2, SortedNumbers
<1> HIDE DEF at, c
<1>5. ASSUME NEW k \in 1 .. L PROVE Min(ends(k)) \in k .. L
  <2>1. ends(k) \in SUBSET Nat /\ L \in ends(k)
    BY <1>1
  <2> HIDE DEF ends
  <2>2. Min(ends(k)) \in ends(k)
    BY <2>1, LeastIsIn
  <2> QED BY <2>2 DEF ends
<1> HIDE DEF ends, L
<1>6. ASSUME NEW n \in 1 .. c PROVE runs[n] = <<at[n], Min(ends(at[n]))>> /\ runs[n] \in Spans(s)
  <2>1. at[n] \in 1 .. L
    BY <1>2, <1>4
  <2>2. Min(ends(at[n])) \in at[n] .. L
    BY <1>5, <2>1
  <2>3. runs[n] = <<at[n], Min(ends(at[n]))>>
    BY <1>4
  <2> HIDE DEF runs
  <2> QED BY <1>1, <2>1, <2>2, <2>3 DEF Spans, L
<1>7. runs \in [1 .. c -> Spans(s)]
  BY <1>4, <1>6
<1>8. DOMAIN runs = 1 .. c
  BY <1>4
<1> HIDE DEF runs
<1>9. runs \in Seq(Spans(s))
  BY <1>4, <1>7, TupleIsSeq
<1>10. ASSUME NEW a \in ToSet(runs), NEW b \in ToSet(runs), a[1] = b[1] PROVE a = b
  <2>1. PICK n \in 1 .. c : a = runs[n]
    BY <1>8 DEF ToSet
  <2>2. PICK m \in 1 .. c : b = runs[m]
    BY <1>8 DEF ToSet
  <2>3. at[n] = at[m]
    BY <1>6, <1>10, <2>1, <2>2
  <2> QED BY <1>6, <2>1, <2>2, <2>3
<1> QED BY <1>3, <1>9, <1>10

\* Whatever a name begins with, it has a kind.
LEMMA KindIs == ASSUME NEW name PROVE KindOf(name) \in Kinds
BY DEF KindOf, KnownPrefixes, Kinds

\* The names of a run are parts of it.
LEMMA NamesAre ==
    ASSUME NEW Value, NEW s \in Seq(Value), NEW run \in Spans(s)
    PROVE  NamesIn(s, run) \in Seq(Nat \X Seq(Value))
<1> DEFINE starts == {run[1]} \cup {k \in run[1] .. run[2] : s[k] \in DOMAIN KnownPrefixes}
           S == {k \in starts : Plausible(SubSeq(s, k, run[2]))}
           at == Ascending(S)
           c == Cardinality(S)
           names == [n \in DOMAIN at |-> <<at[n], SubSeq(s, at[n], run[2])>>]
<1>1. run[1] \in Nat /\ run[2] \in Nat /\ 1 <= run[1] /\ run[1] <= run[2] /\ run[2] <= Len(s)
  BY DEF Spans
<1>2. S \in SUBSET (run[1] .. run[2])
  <2>1. starts \in SUBSET (run[1] .. run[2])
    BY <1>1
  <2> HIDE DEF starts
  <2> QED BY <2>1
<1>3. NamesIn(s, run) = names
  BY DEF NamesIn, Each
<1> HIDE DEF S
<1>4. S \in SUBSET Int /\ IsFiniteSet(S)
  <2>0. run[1] \in Int /\ run[2] \in Int
    BY <1>1
  <2>1. IsFiniteSet(run[1] .. run[2])
    BY <2>0, FS_Interval
  <2>2. IsFiniteSet(S)
    BY <1>2, <2>1, FS_Subset
  <2> QED BY <1>1, <1>2, <2>2
<1>5. c \in Nat /\ at \in [1 .. c -> S]
  BY <1>4, SortedNumbers
<1> HIDE DEF at, c
<1>6. ASSUME NEW n \in 1 .. c PROVE <<at[n], SubSeq(s, at[n], run[2])>> \in Nat \X Seq(Value)
  <2>1. at[n] \in run[1] .. run[2]
    BY <1>2, <1>5
  <2>2. at[n] \in Nat /\ at[n] \in Int /\ run[2] \in Int /\ 1 <= at[n]
    BY <1>1, <2>1
  <2>3. SubSeq(s, at[n], run[2]) \in Seq(Value)
    BY <1>1, <2>2, PartIs
  <2> QED BY <2>2, <2>3
<1>7. names \in [1 .. c -> Nat \X Seq(Value)]
  BY <1>5, <1>6
<1> HIDE DEF names
<1>8. names \in Seq(Nat \X Seq(Value))
  BY <1>5, <1>7, TupleIsSeq
<1> QED BY <1>3, <1>8

\* The references lie in the sequence too.
LEMMA ReferencesAre ==
    ASSUME NEW Value, NEW s \in Seq(Value)
    PROVE  References(s) \in Seq(Spans(s))
<1> DEFINE names == {r \in ToSet(Runs(s, NameSymbols)) : s[r[1]] \in Letters}
           Refers(container, item) ==
               /\ container[1] > 1 /\ s[container[1] - 1] = "[" /\ container[1] < container[2]
               /\ item[1] = container[2] + 2 /\ s[container[2] + 1] = "]"
           pairs == {p \in names \X names : Refers(p[1], p[2])}
           S == {<<p[1][1] - 1, p[2][2]>> : p \in pairs}
           R == {p \in S \X S : p[1][1] < p[2][1]}
           q == References(s)
<1>1. /\ names \in SUBSET Spans(s)
      /\ \A a, b \in names : a[1] = b[1] => a = b
  <2>1. /\ Runs(s, NameSymbols) \in Seq(Spans(s))
        /\ \A a, b \in ToSet(Runs(s, NameSymbols)) : a[1] = b[1] => a = b
    BY RunsAre
  <2>2. ToSet(Runs(s, NameSymbols)) \in SUBSET Spans(s)
    BY <2>1 DEF ToSet
  <2> QED BY <2>1, <2>2
<1> HIDE DEF names
<1>2. S \in SUBSET Spans(s)
  <2> SUFFICES ASSUME NEW p \in pairs PROVE <<p[1][1] - 1, p[2][2]>> \in Spans(s)
    OBVIOUS
  <2>1. p[1] \in Spans(s) /\ p[2] \in Spans(s) /\ Refers(p[1], p[2])
    BY <1>1
  <2> QED BY <2>1 DEF Spans
<1>3. \A a, b \in S : a[1] = b[1] => a = b
  <2> SUFFICES ASSUME NEW p \in pairs, NEW r \in pairs, p[1][1] - 1 = r[1][1] - 1
               PROVE  p[2][2] = r[2][2]
    OBVIOUS
  <2>1. /\ p[1] \in names /\ p[2] \in names /\ Refers(p[1], p[2])
        /\ r[1] \in names /\ r[2] \in names /\ Refers(r[1], r[2])
    OBVIOUS
  <2>2. p[1] \in Spans(s) /\ p[2] \in Spans(s) /\ r[1] \in Spans(s) /\ r[2] \in Spans(s)
    BY <1>1, <2>1
  <2>3. p[1][1] = r[1][1]
    BY <2>2 DEF Spans
  <2>4. p[1] = r[1]
    BY <1>1, <2>1, <2>3
  <2>5. p[2][1] = r[2][1]
    BY <2>1, <2>4
  <2> QED BY <1>1, <2>1, <2>5
<1>4. IsFiniteSet(S)
  <2> DEFINE Square == (1 .. Len(s)) \X (1 .. Len(s))
             all == (0 .. Len(s)) \X (0 .. Len(s))
  <2>1. Len(s) \in Nat /\ 0 \in Int /\ Len(s) \in Int
    OBVIOUS
  <2>2. IsFiniteSet(0 .. Len(s))
    BY <2>1, FS_Interval
  <2>3. IsFiniteSet(all)
    BY <2>2, FS_Product
  <2>4. S \in SUBSET all
    <3>1. Spans(s) \in SUBSET all
      BY <2>1 DEF Spans
    <3> HIDE DEF S, all
    <3> QED BY <1>2, <3>1
  <2> HIDE DEF S, all
  <2> QED BY <2>3, <2>4, FS_Subset
<1>5. q = [n \in 1 .. Cardinality(S) |-> CHOOSE x \in S : Cardinality({y \in S : y[1] < x[1]}) = n - 1]
  BY DEF References, Sorted, names
<1> HIDE DEF S, pairs
<1>6. IsOrder(R, S)
  <2>1. \A x \in S : x[1] \in Int
    BY <1>2 DEF Spans
  <2> QED BY <1>3, <2>1 DEF IsOrder
<1>7. \A x \in S : Below(R, S, x) = {y \in S : y[1] < x[1]}
  BY DEF Below
<1>8. DOMAIN q = 1 .. Cardinality(S) /\ q = [n \in DOMAIN q |-> q[n]]
  BY <1>5
<1>9. ASSUME NEW n \in DOMAIN q, \E x \in S : Cardinality(Below(R, S, x)) = n - 1
      PROVE  q[n] \in S /\ Cardinality(Below(R, S, q[n])) = n - 1
  <2>1. q[n] = CHOOSE x \in S : Cardinality({y \in S : y[1] < x[1]}) = n - 1
    BY <1>5, <1>8
  <2>2. \E x \in S : Cardinality({y \in S : y[1] < x[1]}) = n - 1
    BY <1>7, <1>9
  <2> HIDE DEF q, R
  <2>3. q[n] \in S /\ Cardinality({y \in S : y[1] < q[n][1]}) = n - 1
    BY <2>1, <2>2
  <2> QED BY <1>7, <2>3
<1> HIDE DEF q, R
<1>10. HasPlaces(q, R, S)
  BY <1>8, <1>9 DEF HasPlaces
<1>11. q \in [1 .. Cardinality(S) -> S] /\ Cardinality(S) \in Nat
  <2>1. IsInOrder(q, R, S)
    BY <1>4, <1>6, <1>10, SortedIsInOrder
  <2> QED BY <2>1 DEF IsInOrder
<1>12. q \in [1 .. Cardinality(S) -> Spans(s)]
  BY <1>2, <1>11
<1>13. q \in Seq(Spans(s))
  BY <1>11, <1>12, TupleIsSeq
<1> QED BY <1>13 DEF q

\* So do the matches of either scan.
LEMMA MatchesAre ==
    ASSUME NEW Value, NEW s \in Seq(Value), NEW signal
    PROVE  Matches(signal, s) \in Seq(Spans(s))
<1>1. Runs(s, NameSymbols) \in Seq(Spans(s))
  BY RunsAre
<1>2. References(s) \in Seq(Spans(s))
  BY ReferencesAre
<1> QED BY <1>1, <1>2 DEF Matches

\* Discovering the names of a run one after the other adds to what was found before.
LEMMA NamesKeep ==
    ASSUME NEW Value, NEW limits, NEW found \in FoundStates(Value), NEW s \in Seq(Value),
           NEW run \in Spans(s), NEW base \in Int
    PROVE  FoundToken(limits, found, s, run, base) \in FoundStates(Value)
<1> DEFINE seq == NamesIn(s, run)
           N == Len(seq)
           X == FoundStates(Value)
           E == (Nat \X Seq(Value))
           step == [p \in X \X (1 .. N) |-> Discover(limits, p[1], seq[p[2]][2], KindOf(seq[p[2]][2]), base + seq[p[2]][1] - 1, "token_scan")]
           next(f, left) == IF left = {} THEN found
                         ELSE Discover(limits, f[left \ {Max(left)}], seq[Max(left)][2], KindOf(seq[Max(left)][2]), base + seq[Max(left)][1] - 1, "token_scan")
           isFold(f) == f = [left \in SUBSET DOMAIN seq |-> next(f, left)]
           iter == CHOOSE f : isFold(f)
<1>1. seq \in Seq(E) /\ found \in X
  BY NamesAre
<1>2. \A x \in X, e \in E : Discover(limits, x, e[2], KindOf(e[2]), base + e[1] - 1, "token_scan") \in X
  <2> SUFFICES ASSUME NEW x \in X, NEW e \in E
               PROVE  Discover(limits, x, e[2], KindOf(e[2]), base + e[1] - 1, "token_scan") \in X
    OBVIOUS
  <2>1. e[2] \in Seq(Value) /\ base + e[1] - 1 \in Int /\ KindOf(e[2]) \in Kinds
        /\ "token_scan" \in Signals
    BY KindIs DEF Signals
  <2> QED BY <2>1, DiscoverKeeps
<1>3. FoundToken(limits, found, s, run, base) = iter[DOMAIN seq]
  BY DEF FoundToken, FoldLeft, MapThenFoldSet
<1> HIDE DEF iter, X, E, seq
<1>4. N \in Nat /\ DOMAIN seq = 1 .. N /\ \A n \in 1 .. N : seq[n] \in E
  BY <1>1
<1> HIDE DEF N
<1>5. step \in [X \X (1 .. N) -> X]
  <2>1. \A x \in X, n \in 1 .. N : Discover(limits, x, seq[n][2], KindOf(seq[n][2]), base + seq[n][1] - 1, "token_scan") \in X
    BY <1>2, <1>4
  <2> QED BY <2>1
<1>6. PICK f : Folds(f, N, X, found, step)
  <2> HIDE DEF step
  <2> QED BY <1>1, <1>4, <1>5, FoldExists
<1>7. ASSUME NEW left \in SUBSET (1 .. N), left # {}
      PROVE  /\ Max(left) \in 1 .. N /\ left \ {Max(left)} \in SUBSET (1 .. N)
             /\ \A x \in X : step[<<x, Max(left)>>] = Discover(limits, x, seq[Max(left)][2], KindOf(seq[Max(left)][2]), base + seq[Max(left)][1] - 1, "token_scan")
  <2>1. left \in SUBSET (0 .. N)
    OBVIOUS
  <2>2. Max(left) \in left
    BY <1>4, <1>7, <2>1, GreatestNumber
  <2> QED BY <2>2
<1> HIDE DEF step
<1>8. isFold(f)
  <2>1. f \in [SUBSET (1 .. N) -> X]
    BY <1>6 DEF Folds
  <2>2. ASSUME NEW left \in SUBSET (1 .. N) PROVE f[left] = next(f, left)
    BY <1>6, <1>7 DEF Folds
  <2> HIDE DEF next
  <2> QED BY <1>4, <2>1, <2>2
<1>9. isFold(iter)
  <2> HIDE DEF isFold
  <2> QED BY <1>8 DEF iter
<1>10. \A left \in SUBSET (1 .. N) : iter[left] = next(iter, left)
  <2> HIDE DEF next
  <2> QED BY <1>4, <1>9
<1>11. Recurs(iter, N, X, found, step)
  <2> SUFFICES ASSUME NEW left \in SUBSET (1 .. N)
               PROVE  IF left = {} THEN iter[left] = found
                      ELSE iter[left \ {Max(left)}] \in X =>
                              iter[left] = step[<<iter[left \ {Max(left)}], Max(left)>>]
    BY DEF Recurs
  <2>1. iter[left] = next(iter, left)
    BY <1>10
  <2> QED BY <1>7, <2>1
<1>12. PICK h : Steps(h, N, X, found, step, iter[1 .. N])
  BY <1>1, <1>4, <1>5, <1>11, FoldSteps
<1>13. iter[1 .. N] \in X
  BY <1>4, <1>12 DEF Steps
<1> QED BY <1>3, <1>4, <1>13 DEF X

\* What is found of a match is added to what was found before.
LEMMA FoundKeeps ==
    ASSUME NEW Value, NEW limits, NEW found \in FoundStates(Value), NEW s \in Seq(Value),
           NEW match \in Spans(s), NEW base \in Int, NEW signal \in Signals
    PROVE  Found(signal, limits, found, s, match, base) \in FoundStates(Value)
<1> DEFINE X == FoundStates(Value)
<1>1. FoundToken(limits, found, s, match, base) \in X
  BY NamesKeep
<1>2. FoundReference(limits, found, s, match, base) \in X
  <2> DEFINE text == SubSeq(s, match[1] + 1, match[2])
             container == SubSeq(text, 1, Min({k \in DOMAIN text : text[k] = "]"}) - 1)
  <2>1. text \in Seq(Value) /\ base + match[1] - 1 \in Int /\ "bracket_scan" \in Signals
    <3>1. match[1] + 1 \in Int /\ match[2] \in Int /\ 1 <= match[1] + 1 /\ match[2] <= Len(s)
          /\ match[1] \in Int
      BY DEF Spans
    <3>2. text \in Seq(Value)
      BY <3>1, PartIs
    <3> QED BY <3>1, <3>2 DEF Signals
  <2> HIDE DEF text
  <2>2. Discover(limits, found, text, KindOf(container), base + match[1] - 1, "bracket_scan") \in X
    BY <2>1, KindIs, DiscoverKeeps
  <2>3. FoundReference(limits, found, s, match, base)
           = IF Plausible(container)
             THEN Discover(limits, found, text, KindOf(container), base + match[1] - 1, "bracket_scan")
             ELSE found
    BY DEF FoundReference, text
  <2> QED BY <2>2, <2>3
<1> QED BY <1>1, <1>2 DEF Found

\* So it is when the limits are looked at after it.
LEMMA CheckedKeeps ==
    ASSUME NEW Value, NEW limits, NEW found \in FoundStates(Value)
    PROVE  Checked(limits, found) \in FoundStates(Value)
<1>1. LimitReached(limits, found) \in BOOLEAN
  BY DEF LimitReached
<1> QED BY <1>1 DEF Checked, FoundStates

\* A scan of what is mapped adds to what was found before.
LEMMA ScanAllKeeps ==
    ASSUME NEW Value, NEW limits, NEW found \in FoundStates(Value), NEW s \in Seq(Value),
           NEW base \in Int, NEW signal \in Signals
    PROVE  ScanAll(signal, limits, found, s, base) \in FoundStates(Value)
<1> DEFINE seq == Matches(signal, s)
           N == Len(seq)
           X == FoundStates(Value)
           E == Spans(s)
           step == [p \in X \X (1 .. N) |-> ScanMatch(signal, limits, p[1], s, seq[p[2]], base)]
           next(f, left) == IF left = {} THEN found
                         ELSE ScanMatch(signal, limits, f[left \ {Max(left)}], s, seq[Max(left)], base)
           isFold(f) == f = [left \in SUBSET DOMAIN seq |-> next(f, left)]
           iter == CHOOSE f : isFold(f)
<1>1. seq \in Seq(E) /\ found \in X
  BY MatchesAre
<1>2. \A x \in X, e \in E : ScanMatch(signal, limits, x, s, e, base) \in X
  BY FoundKeeps, CheckedKeeps DEF ScanMatch
<1>3. ScanAll(signal, limits, found, s, base) = iter[DOMAIN seq]
  BY DEF ScanAll, FoldLeft, MapThenFoldSet
<1> HIDE DEF iter, X, E, seq
<1>4. N \in Nat /\ DOMAIN seq = 1 .. N /\ \A n \in 1 .. N : seq[n] \in E
  BY <1>1
<1> HIDE DEF N
<1>5. step \in [X \X (1 .. N) -> X]
  <2>1. \A x \in X, n \in 1 .. N : ScanMatch(signal, limits, x, s, seq[n], base) \in X
    BY <1>2, <1>4
  <2> QED BY <2>1
<1>6. PICK f : Folds(f, N, X, found, step)
  <2> HIDE DEF step
  <2> QED BY <1>1, <1>4, <1>5, FoldExists
<1>7. ASSUME NEW left \in SUBSET (1 .. N), left # {}
      PROVE  /\ Max(left) \in 1 .. N /\ left \ {Max(left)} \in SUBSET (1 .. N)
             /\ \A x \in X : step[<<x, Max(left)>>] = ScanMatch(signal, limits, x, s, seq[Max(left)], base)
  <2>1. left \in SUBSET (0 .. N)
    OBVIOUS
  <2>2. Max(left) \in left
    BY <1>4, <1>7, <2>1, GreatestNumber
  <2> QED BY <2>2
<1> HIDE DEF step
<1>8. isFold(f)
  <2>1. f \in [SUBSET (1 .. N) -> X]
    BY <1>6 DEF Folds
  <2>2. ASSUME NEW left \in SUBSET (1 .. N) PROVE f[left] = next(f, left)
    BY <1>6, <1>7 DEF Folds
  <2> HIDE DEF next
  <2> QED BY <1>4, <2>1, <2>2
<1>9. isFold(iter)
  <2> HIDE DEF isFold
  <2> QED BY <1>8 DEF iter
<1>10. \A left \in SUBSET (1 .. N) : iter[left] = next(iter, left)
  <2> HIDE DEF next
  <2> QED BY <1>4, <1>9
<1>11. Recurs(iter, N, X, found, step)
  <2> SUFFICES ASSUME NEW left \in SUBSET (1 .. N)
               PROVE  IF left = {} THEN iter[left] = found
                      ELSE iter[left \ {Max(left)}] \in X =>
                              iter[left] = step[<<iter[left \ {Max(left)}], Max(left)>>]
    BY DEF Recurs
  <2>1. iter[left] = next(iter, left)
    BY <1>10
  <2> QED BY <1>7, <2>1
<1>12. PICK h : Steps(h, N, X, found, step, iter[1 .. N])
  BY <1>1, <1>4, <1>5, <1>11, FoldSteps
<1>13. iter[1 .. N] \in X
  BY <1>4, <1>12 DEF Steps
<1> QED BY <1>3, <1>4, <1>13 DEF X

BlockStates(Value) ==
    [found : FoundStates(Value), tail : BOOLEAN, carry : Seq(Value), position : Nat]

\* The end of a sequence is a sequence of the same values.
LEMMA LastPartIs ==
    ASSUME NEW Value, NEW s \in Seq(Value), NEW length \in Nat PROVE LastPart(s, length) \in Seq(Value)
<1>1. /\ AtLeast(1, Len(s) - length + 1) \in Int /\ 1 <= AtLeast(1, Len(s) - length + 1)
      /\ Len(s) \in Int /\ Len(s) <= Len(s)
  BY DEF AtLeast
<1> QED BY <1>1, PartIs DEF LastPart

\* A match adds to what was found, is carried, or is passed over.
LEMMA MatchKeeps ==
    ASSUME NEW Value, NEW limits, NEW chunk \in Seq(Value), NEW base \in Int, NEW signal \in Signals,
           NEW carry, NEW s \in BlockStates(Value), NEW match \in Spans(chunk)
    PROVE  MatchInBlock(signal, limits, carry, chunk, base, s, match) \in BlockStates(Value)
<1> DEFINE cut == LastPart(SubSeq(chunk, match[1], Len(chunk)), CarryLimit(signal))
           next == Found(signal, limits, s.found, chunk, match, base)
           found == IF signal = "bracket_scan" /\ next.out = s.found.out THEN next
                    ELSE Checked(limits, next)
           tailed == [s EXCEPT !.tail = TRUE, !.carry = cut]
           more == [s EXCEPT !.found = found]
<1>1. cut \in Seq(Value)
  <2>1. match[1] \in Int /\ 1 <= match[1] /\ Len(chunk) \in Int /\ Len(chunk) <= Len(chunk)
    BY DEF Spans
  <2>2. SubSeq(chunk, match[1], Len(chunk)) \in Seq(Value)
    BY <2>1, PartIs
  <2>3. CarryLimit(signal) \in Nat
    BY SizesAssumption DEF CarryLimit
  <2> QED BY <2>2, <2>3, LastPartIs
<1>2. found \in FoundStates(Value)
  <2>1. s.found \in FoundStates(Value)
    BY DEF BlockStates
  <2>2. next \in FoundStates(Value)
    BY <2>1, FoundKeeps
  <2> HIDE DEF next
  <2> QED BY <2>2, CheckedKeeps
<1> HIDE DEF cut, found
<1>3. tailed \in BlockStates(Value) /\ more \in BlockStates(Value)
  BY <1>1, <1>2 DEF BlockStates
<1>4. \/ MatchInBlock(signal, limits, carry, chunk, base, s, match) = s
      \/ MatchInBlock(signal, limits, carry, chunk, base, s, match) = tailed
      \/ MatchInBlock(signal, limits, carry, chunk, base, s, match) = more
  BY DEF MatchInBlock, cut, found
<1> HIDE DEF tailed, more
<1> QED BY <1>3, <1>4

\* Looking at a block adds to what was found before.
LEMMA BlockKeeps ==
    ASSUME NEW Value, NEW limits, NEW state \in BlockStates(Value), NEW block \in Seq(Value),
           NEW signal \in Signals, ~state.found.full
    PROVE  ScanBlock(signal, limits, state, block) \in BlockStates(Value)
<1> DEFINE chunk == state.carry \o block
           base == AtLeast(0, state.position - Len(state.carry))
           rest == IF signal = "token_scan" THEN <<>> ELSE LastPart(chunk, CarryLimit(signal))
           start == [found |-> state.found, tail |-> FALSE, carry |-> rest,
                     position |-> state.position + Len(block)]
           seq == Matches(signal, chunk)
           N == Len(seq)
           X == BlockStates(Value)
           E == Spans(chunk)
           step == [p \in X \X (1 .. N) |-> MatchInBlock(signal, limits, state.carry, chunk, base, p[1], seq[p[2]])]
           next(f, left) == IF left = {} THEN start
                         ELSE MatchInBlock(signal, limits, state.carry, chunk, base, f[left \ {Max(left)}], seq[Max(left)])
           isFold(f) == f = [left \in SUBSET DOMAIN seq |-> next(f, left)]
           iter == CHOOSE f : isFold(f)
<1>1. /\ chunk \in Seq(Value) /\ base \in Int
      /\ seq \in Seq(E) /\ start \in X
  <2>1. /\ state.carry \in Seq(Value) /\ state.position \in Nat /\ state.found \in FoundStates(Value)
        /\ Len(state.carry) \in Nat /\ Len(block) \in Nat
    BY DEF BlockStates
  <2>2. chunk \in Seq(Value)
    BY <2>1
  <2>3. base \in Int
    BY <2>1 DEF AtLeast
  <2> HIDE DEF chunk, base
  <2>4. rest \in Seq(Value)
    <3>1. CarryLimit(signal) \in Nat
      BY SizesAssumption DEF CarryLimit
    <3>2. LastPart(chunk, CarryLimit(signal)) \in Seq(Value)
      BY <2>2, <3>1, LastPartIs
    <3>3. <<>> \in Seq(Value)
      OBVIOUS
    <3> QED BY <3>2, <3>3
  <2> HIDE DEF rest
  <2>5. start \in BlockStates(Value)
    BY <2>1, <2>4 DEF BlockStates
  <2> QED BY <2>2, <2>3, <2>5, MatchesAre
<1>2. \A x \in X, e \in E : MatchInBlock(signal, limits, state.carry, chunk, base, x, e) \in X
  <2> HIDE DEF chunk, base, rest, start
  <2> QED BY <1>1, MatchKeeps
<1>3. ScanBlock(signal, limits, state, block) = iter[DOMAIN seq]
  BY DEF ScanBlock, FoldLeft, MapThenFoldSet
<1> HIDE DEF iter, X, E, seq, chunk, base, rest, start
<1>4. N \in Nat /\ DOMAIN seq = 1 .. N /\ \A n \in 1 .. N : seq[n] \in E
  BY <1>1
<1> HIDE DEF N
<1>5. step \in [X \X (1 .. N) -> X]
  <2>1. \A x \in X, n \in 1 .. N : MatchInBlock(signal, limits, state.carry, chunk, base, x, seq[n]) \in X
    BY <1>2, <1>4
  <2> QED BY <2>1
<1>6. PICK f : Folds(f, N, X, start, step)
  <2> HIDE DEF step
  <2> QED BY <1>1, <1>4, <1>5, FoldExists
<1>7. ASSUME NEW left \in SUBSET (1 .. N), left # {}
      PROVE  /\ Max(left) \in 1 .. N /\ left \ {Max(left)} \in SUBSET (1 .. N)
             /\ \A x \in X : step[<<x, Max(left)>>] = MatchInBlock(signal, limits, state.carry, chunk, base, x, seq[Max(left)])
  <2>1. left \in SUBSET (0 .. N)
    OBVIOUS
  <2>2. Max(left) \in left
    BY <1>4, <1>7, <2>1, GreatestNumber
  <2> QED BY <2>2
<1> HIDE DEF step
<1>8. isFold(f)
  <2>1. f \in [SUBSET (1 .. N) -> X]
    BY <1>6 DEF Folds
  <2>2. ASSUME NEW left \in SUBSET (1 .. N) PROVE f[left] = next(f, left)
    BY <1>6, <1>7 DEF Folds
  <2> HIDE DEF next
  <2> QED BY <1>4, <2>1, <2>2
<1>9. isFold(iter)
  <2> HIDE DEF isFold
  <2> QED BY <1>8 DEF iter
<1>10. \A left \in SUBSET (1 .. N) : iter[left] = next(iter, left)
  <2> HIDE DEF next
  <2> QED BY <1>4, <1>9
<1>11. Recurs(iter, N, X, start, step)
  <2> SUFFICES ASSUME NEW left \in SUBSET (1 .. N)
               PROVE  IF left = {} THEN iter[left] = start
                      ELSE iter[left \ {Max(left)}] \in X =>
                              iter[left] = step[<<iter[left \ {Max(left)}], Max(left)>>]
    BY DEF Recurs
  <2>1. iter[left] = next(iter, left)
    BY <1>10
  <2> QED BY <1>7, <2>1
<1>12. PICK h : Steps(h, N, X, start, step, iter[1 .. N])
  BY <1>1, <1>4, <1>5, <1>11, FoldSteps
<1>13. iter[1 .. N] \in X
  BY <1>4, <1>12 DEF Steps
<1> QED BY <1>3, <1>4, <1>13 DEF X

\* Counting nothing is a count.
LEMMA NoneIsCounted == ASSUME NEW K PROVE <<>> \in Counts(K)
<1>1. <<>> \in [{} -> Int] /\ {} \in SUBSET K
  OBVIOUS
<1> QED BY <1>1 DEF Counts

\* Before the first match nothing is found.
LEMMA NothingIsFound ==
    ASSUME NEW Value, NEW kinds \in Counts(Kinds) PROVE NothingFoundYet(kinds) \in FoundStates(Value)
<1>1. <<>> \in Seq(Hits(Value))
  OBVIOUS
<1>2. <<>> \in Counts(Seq(Value))
  BY NoneIsCounted
<1> QED BY <1>1, <1>2 DEF NothingFoundYet, FoundStates

\* Looking at the blocks one after the other ends with what was found.
LEMMA BlocksKeep ==
    ASSUME NEW Value, NEW limits, NEW kinds \in Counts(Kinds), NEW file \in Seq(Value),
           NEW signal \in Signals
    PROVE  ScanBlocks(signal, limits, kinds, file) \in BlockStates(Value)
<1> DEFINE start == [found |-> NothingFoundYet(kinds), tail |-> FALSE, carry |-> <<>>, position |-> 0]
           seq == Blocks(file)
           N == Len(seq)
           X == BlockStates(Value)
           E == Seq(Value)
           step == [p \in X \X (1 .. N) |-> ScanBlock(signal, limits, p[1], seq[p[2]])]
           next(f, left) == IF left = {} THEN start
                         ELSE ScanBlock(signal, limits, f[left \ {Max(left)}], seq[Max(left)])
           isFold(f) == f = [left \in SUBSET DOMAIN seq |-> next(f, left)]
           iter == CHOOSE f : isFold(f)
<1>1. seq \in Seq(E) /\ start \in X
  <2>1. NothingFoundYet(kinds) \in FoundStates(Value)
    BY NothingIsFound
  <2>2. <<>> \in Seq(Value)
    OBVIOUS
  <2>3. start \in BlockStates(Value)
    BY <2>1, <2>2 DEF BlockStates
  <2> HIDE DEF start
  <2> QED BY <2>3, BlocksAre
<1>2. \A x \in X, e \in E : ScanBlock(signal, limits, x, e) \in X
  <2> HIDE DEF start
  <2> SUFFICES ASSUME NEW x \in X, NEW e \in E PROVE ScanBlock(signal, limits, x, e) \in X
    OBVIOUS
  <2>1. CASE x.found.full
    BY <2>1 DEF ScanBlock
  <2>2. CASE ~x.found.full
    BY <2>2, BlockKeeps
  <2> QED BY <2>1, <2>2
<1>3. ScanBlocks(signal, limits, kinds, file) = iter[DOMAIN seq]
  BY DEF ScanBlocks, FoldLeft, MapThenFoldSet
<1> HIDE DEF iter, X, E, seq, start
<1>4. N \in Nat /\ DOMAIN seq = 1 .. N /\ \A n \in 1 .. N : seq[n] \in E
  BY <1>1
<1> HIDE DEF N
<1>5. step \in [X \X (1 .. N) -> X]
  <2>1. \A x \in X, n \in 1 .. N : ScanBlock(signal, limits, x, seq[n]) \in X
    BY <1>2, <1>4
  <2> QED BY <2>1
<1>6. PICK f : Folds(f, N, X, start, step)
  <2> HIDE DEF step
  <2> QED BY <1>1, <1>4, <1>5, FoldExists
<1>7. ASSUME NEW left \in SUBSET (1 .. N), left # {}
      PROVE  /\ Max(left) \in 1 .. N /\ left \ {Max(left)} \in SUBSET (1 .. N)
             /\ \A x \in X : step[<<x, Max(left)>>] = ScanBlock(signal, limits, x, seq[Max(left)])
  <2>1. left \in SUBSET (0 .. N)
    OBVIOUS
  <2>2. Max(left) \in left
    BY <1>4, <1>7, <2>1, GreatestNumber
  <2> QED BY <2>2
<1> HIDE DEF step
<1>8. isFold(f)
  <2>1. f \in [SUBSET (1 .. N) -> X]
    BY <1>6 DEF Folds
  <2>2. ASSUME NEW left \in SUBSET (1 .. N) PROVE f[left] = next(f, left)
    BY <1>6, <1>7 DEF Folds
  <2> HIDE DEF next
  <2> QED BY <1>4, <2>1, <2>2
<1>9. isFold(iter)
  <2> HIDE DEF isFold
  <2> QED BY <1>8 DEF iter
<1>10. \A left \in SUBSET (1 .. N) : iter[left] = next(iter, left)
  <2> HIDE DEF next
  <2> QED BY <1>4, <1>9
<1>11. Recurs(iter, N, X, start, step)
  <2> SUFFICES ASSUME NEW left \in SUBSET (1 .. N)
               PROVE  IF left = {} THEN iter[left] = start
                      ELSE iter[left \ {Max(left)}] \in X =>
                              iter[left] = step[<<iter[left \ {Max(left)}], Max(left)>>]
    BY DEF Recurs
  <2>1. iter[left] = next(iter, left)
    BY <1>10
  <2> QED BY <1>7, <2>1
<1>12. PICK h : Steps(h, N, X, start, step, iter[1 .. N])
  BY <1>1, <1>4, <1>5, <1>11, FoldSteps
<1>13. iter[1 .. N] \in X
  BY <1>4, <1>12 DEF Steps
<1> QED BY <1>3, <1>4, <1>13 DEF X

\* A file scanned either way yields what it finds.
LEMMA FileIsScanned ==
    ASSUME NEW Value, NEW limits, NEW kinds \in Counts(Kinds), NEW file \in Seq(Value),
           NEW signal \in Signals, NEW mapped
    PROVE  ScanFile(signal, limits, kinds, file, mapped) \in FoundStates(Value)
<1>1. ScanAll(signal, limits, NothingFoundYet(kinds), file, 0) \in FoundStates(Value)
  <2>1. 0 \in Int /\ NothingFoundYet(kinds) \in FoundStates(Value)
    BY NothingIsFound
  <2> QED BY <2>1, ScanAllKeeps
<1>2. ScanStream(signal, limits, kinds, file) \in FoundStates(Value)
  <2> DEFINE end == ScanBlocks(signal, limits, kinds, file)
             base == AtLeast(0, end.position - Len(end.carry))
  <2>1. end \in BlockStates(Value)
    BY BlocksKeep
  <2>2. ScanStream(signal, limits, kinds, file)
           = IF end.found.full \/ ~end.tail THEN end.found
             ELSE ScanAll(signal, limits, end.found, end.carry, base)
    BY DEF ScanStream
  <2> HIDE DEF end
  <2>3. end.found \in FoundStates(Value) /\ end.carry \in Seq(Value) /\ end.position \in Nat
    BY <2>1 DEF BlockStates
  <2>4. base \in Int
    BY <2>3 DEF AtLeast
  <2> HIDE DEF base
  <2>5. ScanAll(signal, limits, end.found, end.carry, base) \in FoundStates(Value)
    BY <2>3, <2>4, ScanAllKeeps
  <2> QED BY <2>2, <2>3, <2>5
<1> QED BY <1>1, <1>2 DEF ScanFile

\* The heuristics yield hits.
LEMMA HeuristicsAre ==
    ASSUME NEW Value, NEW limits, NEW file \in Seq(Value), NEW mapped
    PROVE  Heuristics(limits, file, mapped) \in Seq(Hits(Value))
<1> DEFINE tokens == ScanFile("token_scan", limits, <<>>, file, mapped)
           references == ScanFile("bracket_scan", limits, tokens.kinds, file, mapped)
<1>1. tokens \in FoundStates(Value)
  <2>1. <<>> \in Counts(Kinds) /\ "token_scan" \in Signals
    BY NoneIsCounted DEF Signals
  <2> QED BY <2>1, FileIsScanned
<1>2. references \in FoundStates(Value)
  <2> HIDE DEF tokens
  <2>1. tokens.kinds \in Counts(Kinds) /\ "bracket_scan" \in Signals
    BY <1>1 DEF FoundStates, Signals
  <2> QED BY <2>1, FileIsScanned
<1>3. Heuristics(limits, file, mapped) = tokens.out \o references.out
  BY DEF Heuristics
<1> HIDE DEF tokens, references
<1>4. tokens.out \in Seq(Hits(Value)) /\ references.out \in Seq(Hits(Value))
  BY <1>1, <1>2 DEF FoundStates
<1> QED BY <1>3, <1>4
------------------------------------------------------------------------------
(* What the parser owns and what is guessed beside it.                     *)

Founds(Value) ==
    [offset : Int, length : Int, name : Seq(Value), kind : Value, path : Seq(Seq(Value)),
     confirmed : BOOLEAN, signal : Value, plain : BOOLEAN]
Bounds(Value) ==
    [offset : Int, length : Int, name : Seq(Value), kind : Value, rule : Value,
     path : Seq(Seq(Value))]

\* A file discovery can look at: what the parser found lies in it.
IsDiscoverable(file, Value) ==
    /\ Vocabulary \subseteq Value
    /\ file.type \in {"opj", "opju"} /\ file.streamed \in BOOLEAN
    /\ file.symbols \in Seq(Value)
    /\ file.boundaries \in Seq(Bounds(Value)) /\ file.regions \in Seq(Bounds(Value))
    /\ file.symbols = <<>> => file.boundaries = <<>> /\ file.regions = <<>>

Owned(b) == [offset |-> b.offset, length |-> b.length, name |-> b.name, kind |-> b.kind,
             path |-> b.path, confirmed |-> TRUE, signal |-> None, plain |-> FALSE]
Guessed(h) == [offset |-> h.offset, length |-> Len(h.name), name |-> h.name,
             kind |-> IF h.kind = "unclassified" THEN None ELSE h.kind,
             path |-> <<>>, confirmed |-> FALSE, signal |-> h.signal, plain |-> FALSE]

\* What the parser owns is confirmed, and a boundary that yields to no window is among it.
LEMMA ParserObjectsAre ==
    ASSUME NEW Value, NEW file, IsDiscoverable(file, Value), NEW owned, owned = ParserObjects(file)
    PROVE  /\ owned \in Seq(Founds(Value)) /\ \A o \in ToSet(owned) : o.confirmed = TRUE
           /\ file.streamed = FALSE => \A b \in ToSet(file.regions) : Owned(b) \in ToSet(owned)
           /\ file.header = "opj" =>
                 \A b \in ToSet(file.boundaries) :
                    ~YieldsToWindow(file.boundaries, b) => Owned(b) \in ToSet(owned)
<1> DEFINE X == Bounds(Value)
           Y == {o \in Founds(Value) : o.confirmed = TRUE}
           f == [b \in X |-> Owned(b)]
           P == {n \in DOMAIN file.boundaries : ~YieldsToWindow(file.boundaries, file.boundaries[n])}
           shown == Picked(file.boundaries, P)
           bounds == IF file.header = "opj" THEN shown ELSE <<>>
           regions == [n \in DOMAIN file.regions |-> Owned(file.regions[n])]
           first == IF file.header = "opju" \/ ~file.streamed THEN regions ELSE <<>>
           second == [n \in DOMAIN bounds |-> Owned(bounds[n])]
<1>1. file.boundaries \in Seq(X) /\ file.regions \in Seq(X) /\ file.streamed \in BOOLEAN
      /\ None \in Value
  BY DEF IsDiscoverable, Vocabulary
<1>2. owned = first \o second
  BY DEF ParserObjects, If, Each, Those, Owned
<1>3. f \in [X -> Y] /\ \A b \in X : f[b] = Owned(b)
  BY <1>1 DEF Owned, Bounds, Founds
<1>3a. f \in [X -> Y]
  BY <1>3
<1>4. /\ P \in SUBSET (1 .. Len(file.boundaries))
      /\ \A n \in 1 .. Len(file.boundaries) :
            ~YieldsToWindow(file.boundaries, file.boundaries[n]) => n \in P
      /\ DOMAIN file.boundaries = 1 .. Len(file.boundaries)
  BY <1>1
<1>5. shown \in Seq(X) /\ ToSet(shown) = {file.boundaries[n] : n \in P}
  <2> HIDE DEF P, X
  <2> QED BY <1>1, <1>4, PickedAre
<1>6. \A b \in ToSet(file.boundaries) : ~YieldsToWindow(file.boundaries, b) => b \in ToSet(shown)
  <2> HIDE DEF P, shown
  <2> QED BY <1>4, <1>5 DEF ToSet
<1> HIDE DEF shown, P
<1>7. bounds \in Seq(X)
  <2>1. <<>> \in Seq(X)
    OBVIOUS
  <2> QED BY <1>5, <2>1
<1>8. second \in Seq(Y) /\ ToSet(second) = {f[x] : x \in ToSet(bounds)}
  <2> HIDE DEF bounds, X, Y
  <2>1. second = [n \in DOMAIN bounds |-> f[bounds[n]]]
    <3>1. \A n \in DOMAIN bounds : bounds[n] \in X
      BY <1>7
    <3> HIDE DEF f
    <3> QED BY <1>3, <3>1
  <2> HIDE DEF second, f
  <2> QED BY <1>3a, <1>7, <2>1, EachIs
<1>9. regions \in Seq(Y) /\ ToSet(regions) = {f[x] : x \in ToSet(file.regions)}
  <2> HIDE DEF X, Y
  <2>1. regions = [n \in DOMAIN file.regions |-> f[file.regions[n]]]
    <3>1. \A n \in DOMAIN file.regions : file.regions[n] \in X
      BY <1>1
    <3> HIDE DEF f
    <3> QED BY <1>3, <3>1
  <2> HIDE DEF regions, f
  <2>2. file.regions \in Seq(X)
    BY <1>1
  <2> QED BY <1>3a, <2>1, <2>2, EachIs
<1> HIDE DEF regions, second, f
<1>10. first \in Seq(Y)
  <2>1. <<>> \in Seq(Y)
    OBVIOUS
  <2> QED BY <1>9, <2>1
<1> HIDE DEF first
<1>11. owned \in Seq(Y) /\ ToSet(owned) = ToSet(first) \cup ToSet(second)
  <2> HIDE DEF Y
  <2> QED BY <1>2, <1>8, <1>10, ConcatenatedAre
<1>12. owned \in Seq(Founds(Value)) /\ \A o \in ToSet(owned) : o.confirmed = TRUE
  BY <1>11 DEF ToSet
<1>13. ASSUME file.streamed = FALSE, NEW b \in ToSet(file.regions) PROVE Owned(b) \in ToSet(owned)
  <2>1. b \in X
    BY <1>1 DEF ToSet
  <2>2. f[b] \in ToSet(first)
    BY <1>9, <1>13 DEF first
  <2> QED BY <1>3, <1>11, <2>1, <2>2
<1>14. ASSUME file.header = "opj", NEW b \in ToSet(file.boundaries),
              ~YieldsToWindow(file.boundaries, b)
       PROVE  Owned(b) \in ToSet(owned)
  <2>1. b \in X
    BY <1>1 DEF ToSet
  <2>2. b \in ToSet(bounds)
    BY <1>6, <1>14
  <2>3. f[b] \in ToSet(second)
    BY <1>8, <2>2
  <2> QED BY <1>3, <1>11, <2>1, <2>3
<1> QED BY <1>12, <1>13, <1>14

\* What is guessed is not confirmed.
LEMMA GuessesAre ==
    ASSUME NEW Value, NEW file, IsDiscoverable(file, Value), NEW opts, NEW owned
    PROVE  Guesses(file, opts, owned) \in Seq({o \in Founds(Value) : o.confirmed = FALSE})
<1> DEFINE wanted == file.header = "opju" /\ owned # <<>>
           limits == [repeats |-> opts.repeats, perKind |-> opts.perKind,
                      allowed |-> IF wanted THEN WantedKinds ELSE None,
                      total |-> IF wanted THEN WantedLimit ELSE None]
           X == Hits(Value)
           Y == {o \in Founds(Value) : o.confirmed = FALSE}
           f == [h \in X |-> Guessed(h)]
           hits == Heuristics(limits, file.symbols, file.mapped)
           all == [n \in DOMAIN hits |-> Guessed(hits[n])]
           P == {n \in DOMAIN all : ~(/\ file.header = "opju" /\ all[n].kind \in {"graph", "layer"}
                                      /\ all[n].signal = "bracket_scan"
                                      /\ InReport(file, all[n].offset))}
<1>1. file.symbols \in Seq(Value) /\ Vocabulary \subseteq Value
  BY DEF IsDiscoverable
<1>2. Guesses(file, opts, owned) = Picked(all, P)
  BY ZenonT(20) DEF Guesses, Each, Those, Guessed
<1> HIDE DEF limits
<1>3. hits \in Seq(X)
  BY <1>1, HeuristicsAre
<1>4. f \in [X -> Y]
  <2> SUFFICES ASSUME NEW h \in X PROVE Guessed(h) \in Y
    OBVIOUS
  <2>1. /\ h.offset \in Int /\ h.name \in Seq(Value) /\ h.kind \in Kinds /\ h.signal \in Signals
        /\ Len(h.name) \in Int
    BY DEF Hits
  <2>2. (IF h.kind = "unclassified" THEN None ELSE h.kind) \in Value /\ h.signal \in Value
    BY <1>1, <2>1 DEF Kinds, Signals, Vocabulary
  <2>3. <<>> \in Seq(Seq(Value))
    OBVIOUS
  <2> QED BY <2>1, <2>2, <2>3 DEF Founds, Guessed
<1> HIDE DEF hits, P
<1>5. all = [n \in DOMAIN hits |-> f[hits[n]]]
  <2>1. \A n \in DOMAIN hits : hits[n] \in X
    BY <1>3
  <2> QED BY <2>1
<1> HIDE DEF f, all, X, Y
<1>6. all \in Seq(Y) /\ DOMAIN all = 1 .. Len(all)
  BY <1>3, <1>4, <1>5, EachIs
<1>7. P \in SUBSET (1 .. Len(all))
  BY <1>6 DEF P
<1>8. Picked(all, P) \in Seq(Y)
  BY <1>6, <1>7, PickedAre
<1> QED BY <1>2, <1>8 DEF Y

\* The path a guess takes from the parser's objects is one of theirs.
LEMMA PreferredIsAPath ==
    ASSUME NEW Value, NEW owned \in Seq(Founds(Value)), NEW o \in Founds(Value)
    PROVE  PreferredPath(owned, o) \in Seq(Seq(Value))
<1> DEFINE Routes == Seq(Seq(Value))
           only(paths, other) == IF Cardinality(paths) = 1 THEN CHOOSE p \in paths : TRUE ELSE other
<1>1. \A paths \in SUBSET Routes, other \in Routes : only(paths, other) \in Routes
  <2> SUFFICES ASSUME NEW paths \in SUBSET Routes, NEW other \in Routes, Cardinality(paths) = 1
               PROVE  (CHOOSE p \in paths : TRUE) \in Routes
    OBVIOUS
  <2>1. paths # {}
    <3>1. Cardinality({}) = 0
      BY FS_EmptySet
    <3>2. CASE paths = {}
      <4>1. Cardinality(paths) = 0
        BY <3>1, <3>2
      <4>2. 0 # 1
        OBVIOUS
      <4> QED BY <4>1, <4>2
    <3> QED BY <3>2
  <2> HIDE DEF Routes
  <2> QED BY <2>1
<1>2. ToSet(owned) \in SUBSET Founds(Value)
  BY DEF ToSet
<1>3. \A name : MatrixPaths(owned, name) \in SUBSET Routes
  BY <1>2 DEF MatrixPaths, Founds
<1>4. o.path \in Routes
  BY DEF Founds
<1>5. PreferredPath(owned, o)
         = IF o.kind # "matrix" THEN o.path
           ELSE only(MatrixPaths(owned, o.name), only(MatrixPaths(owned, Leaf(o.name)), o.path))
  BY DEF PreferredPath
<1> HIDE DEF only, Routes
<1>6. PreferredPath(owned, o) \in Routes
  <2>1. only(MatrixPaths(owned, Leaf(o.name)), o.path) \in Routes
    BY <1>1, <1>3, <1>4
  <2>2. only(MatrixPaths(owned, o.name), only(MatrixPaths(owned, Leaf(o.name)), o.path)) \in Routes
    BY <1>1, <1>3, <2>1
  <2> QED BY <1>4, <1>5, <2>2
<1> QED BY <1>6 DEF Routes

\* Merging leaves the parser's objects where they are and puts guesses after them.
LEMMA MergedAre ==
    ASSUME NEW Value, NEW owned \in Seq(Founds(Value)),
           NEW guesses \in Seq({o \in Founds(Value) : o.confirmed = FALSE})
    PROVE  \E rest \in Seq({o \in Founds(Value) : o.confirmed = FALSE}) :
              Merge(owned, guesses) = owned \o rest
<1> DEFINE Y == {o \in Founds(Value) : o.confirmed = FALSE}
           moved(o) == [o EXCEPT !.path = PreferredPath(owned, o)]
           f == [o \in Y |-> moved(o)]
           placed == [n \in DOMAIN guesses |-> moved(guesses[n])]
           repeats(o) == \E p \in ToSet(owned) : Key(p) = Key(o)
                                                  /\ (p.offset = o.offset \/ p.path = o.path)
           known(o) == \E p \in ToSet(owned) : Key(p) = Key(o)
           dropped(n, o) ==
               /\ known(o)
               /\ \/ o.kind = "note"
                  \/ repeats(o)
                  \/ \E m \in 1 .. n - 1 : Key(placed[m]) = Key(o) /\ placed[m].path = o.path
                                           /\ ~repeats(placed[m])
           P == {n \in DOMAIN placed : ~dropped(n, placed[n])}
<1>1. CASE owned = <<>>
  <2>1. Merge(owned, guesses) = guesses
    BY <1>1 DEF Merge
  <2>2. <<>> \o guesses = guesses
    OBVIOUS
  <2> QED BY <1>1, <2>1, <2>2
<1>2. CASE owned # <<>>
  <2>1. Merge(owned, guesses) = owned \o Picked(placed, P)
    BY <1>2 DEF Merge, Each
  <2> HIDE DEF P
  <2>2. f \in [Y -> Y]
    <3> SUFFICES ASSUME NEW o \in Y PROVE moved(o) \in Y
      OBVIOUS
    <3>1. PreferredPath(owned, o) \in Seq(Seq(Value))
      BY PreferredIsAPath
    <3> QED BY <3>1 DEF Founds
  <2>3. placed = [n \in DOMAIN guesses |-> f[guesses[n]]]
    <3>1. \A n \in DOMAIN guesses : guesses[n] \in Y
      OBVIOUS
    <3> QED BY <3>1
  <2>4. guesses \in Seq(Y)
    OBVIOUS
  <2> HIDE DEF f, placed, Y
  <2>5. placed \in Seq(Y) /\ DOMAIN placed = 1 .. Len(placed)
    BY <2>2, <2>3, <2>4, EachIs
  <2>6. P \in SUBSET (1 .. Len(placed))
    BY <2>5 DEF P
  <2>7. Picked(placed, P) \in Seq(Y)
    BY <2>5, <2>6, PickedAre
  <2> QED BY <2>1, <2>7 DEF Y
<1> QED BY <1>1, <1>2

------------------------------------------------------------------------------
(* What is picked, in order.                                               *)

\* The confirmed ones go first.
ConfirmedFirst(s) == \A n, m \in DOMAIN s : n < m /\ s[m].confirmed = TRUE => s[n].confirmed = TRUE

\* And they still do in what is picked.
LEMMA PickedConfirmedFirst ==
    ASSUME NEW Y, NEW s \in Seq(Y), NEW P \in SUBSET (1 .. Len(s)), NEW q, q = Picked(s, P),
           ConfirmedFirst(s)
    PROVE  ConfirmedFirst(q)
<1>1. q \in Seq(Y) /\ DOMAIN q = 1 .. Len(q)
  BY PickedAre
<1>2. PICK at : LeadsTo(at, q, s, P)
  BY PickedInOrder
<1> SUFFICES ASSUME NEW k \in 1 .. Len(q), NEW l \in 1 .. Len(q), k < l, q[l].confirmed = TRUE
             PROVE  q[k].confirmed = TRUE
  BY <1>1 DEF ConfirmedFirst
<1>3. /\ at[k] \in P /\ at[l] \in P /\ at[k] < at[l]
      /\ q[k] = s[at[k]] /\ q[l] = s[at[l]]
  BY <1>2 DEF LeadsTo
<1>4. at[k] \in DOMAIN s /\ at[l] \in DOMAIN s
  <2>1. DOMAIN s = 1 .. Len(s)
    OBVIOUS
  <2> QED BY <1>3, <2>1
<1>5. s[at[l]].confirmed = TRUE
  BY <1>3
<1>6. s[at[k]].confirmed = TRUE
  BY <1>3, <1>4, <1>5 DEF ConfirmedFirst
<1> QED BY <1>3, <1>6

\* What tells objects apart: where they begin, their kind and their name.
Apart(o) == <<o.offset, o.kind, o.name>>
Distinct(s) == \A n, m \in DOMAIN s : Apart(s[n]) = Apart(s[m]) => n = m

Firsts(s) == {n \in DOMAIN s : \A m \in 1 .. n - 1 : Apart(s[m]) # Apart(s[n])}

HasConfirmed(s, o) == \E p \in ToSet(s) : Apart(p) = Apart(o) /\ p.confirmed = TRUE
KeepsConfirmed(q, s) == \A o \in ToSet(s) : o.confirmed = TRUE => HasConfirmed(q, o)

\* The first of each are apart, and what is confirmed is among them.
LEMMA FirstOnesAreApart ==
    ASSUME NEW Y, NEW s \in Seq(Y), ConfirmedFirst(s), NEW q,
           q = Picked(s, Firsts(s))
    PROVE  /\ q \in Seq(Y) /\ Distinct(q) /\ ToSet(q) \subseteq ToSet(s)
           /\ KeepsConfirmed(q, s)
           /\ s # <<>> => q # <<>>
<1> DEFINE P == Firsts(s)
<1>1. Len(s) \in Nat /\ DOMAIN s = 1 .. Len(s) /\ P \in SUBSET (1 .. Len(s))
  BY DEF Firsts
<1>2. \A n, m \in P : Apart(s[n]) = Apart(s[m]) => n = m
  <2> SUFFICES ASSUME NEW n \in P, NEW m \in P, Apart(s[n]) = Apart(s[m]) PROVE n = m
    OBVIOUS
  <2>1. n \in Int /\ m \in Int /\ 1 <= n /\ 1 <= m
    BY <1>1
  <2>2. n \notin 1 .. m - 1
    BY DEF Firsts
  <2>3. m \notin 1 .. n - 1
    BY DEF Firsts
  <2> QED BY <2>1, <2>2, <2>3
<1>3. \A n \in DOMAIN s : \E m \in P : m <= n /\ Apart(s[m]) = Apart(s[n])
  <2> SUFFICES ASSUME NEW n \in DOMAIN s
               PROVE  \E m \in P : m <= n /\ Apart(s[m]) = Apart(s[n])
    OBVIOUS
  <2> DEFINE S == {m \in DOMAIN s : Apart(s[m]) = Apart(s[n])}
  <2>1. S \in SUBSET Nat /\ n \in S
    BY <1>1
  <2>2. PICK m \in S : \A k \in S : m <= k
    <3> HIDE DEF S
    <3> QED BY <2>1, LeastNumber
  <2>3. \A k \in 1 .. m - 1 : Apart(s[k]) # Apart(s[m])
    <3> SUFFICES ASSUME NEW k \in 1 .. m - 1, Apart(s[k]) = Apart(s[m]) PROVE FALSE
      OBVIOUS
    <3>1. k \in DOMAIN s /\ m \in Int
      BY <1>1
    <3>2. k \in S
      BY <3>1
    <3>3. m <= k
      BY <2>2, <3>2
    <3> QED BY <3>1, <3>3
  <2>4. m \in P
    BY <2>3 DEF Firsts
  <2> QED BY <2>1, <2>2, <2>4
<1> HIDE DEF P
<1>4. q = Picked(s, P)
  BY DEF P
<1>5. /\ q \in Seq(Y) /\ Len(q) \in Nat /\ DOMAIN q = 1 .. Len(q)
      /\ ToSet(q) = {s[n] : n \in P}
  <2>1. P \in SUBSET (1 .. Len(s))
    BY <1>1
  <2> QED BY <1>4, <2>1, PickedAre
<1>6. PICK at : LeadsTo(at, q, s, P)
  BY <1>1, <1>4, PickedInOrder
<1>7. Distinct(q)
  <2> SUFFICES ASSUME NEW k \in 1 .. Len(q), NEW l \in 1 .. Len(q), Apart(q[k]) = Apart(q[l])
               PROVE  k = l
    BY <1>5 DEF Distinct
  <2>1. /\ at[k] \in P /\ at[l] \in P /\ q[k] = s[at[k]] /\ q[l] = s[at[l]]
        /\ k < l => at[k] < at[l]
        /\ l < k => at[l] < at[k]
    BY <1>6 DEF LeadsTo
  <2>2. at[k] = at[l]
    BY <1>2, <2>1
  <2>3. at[k] \in Int
    <3>1. at[k] \in P /\ P \in SUBSET (1 .. Len(s)) /\ Len(s) \in Nat
      BY <1>1, <2>1
    <3>2. at[k] \in 1 .. Len(s)
      BY <3>1
    <3> QED BY <3>1, <3>2
  <2>4. k \in Int /\ l \in Int
    BY <1>5
  <2> QED BY <2>1, <2>2, <2>3, <2>4
<1>8. ToSet(q) \subseteq ToSet(s)
  BY <1>1, <1>5 DEF ToSet
<1>9. ASSUME NEW o \in ToSet(s), o.confirmed = TRUE PROVE HasConfirmed(q, o)
  <2>1. PICK n \in DOMAIN s : s[n] = o
    BY DEF ToSet
  <2>2. PICK m \in P : m <= n /\ Apart(s[m]) = Apart(s[n])
    BY <1>3
  <2>3. m \in DOMAIN s /\ s[m] \in ToSet(q)
    BY <1>1, <1>5
  <2>4. s[m].confirmed = TRUE
    BY <1>1, <1>9, <2>1, <2>2, <2>3 DEF ConfirmedFirst
  <2> QED BY <2>1, <2>2, <2>3, <2>4 DEF HasConfirmed
<1>10. ASSUME s # <<>> PROVE q # <<>>
  <2>1. 1 \in DOMAIN s
    BY <1>1, <1>10
  <2>2. PICK m \in P : TRUE
    BY <1>3, <2>1
  <2>3. PICK k \in 1 .. Len(q) : at[k] = m
    BY <1>6 DEF LeadsTo
  <2> QED BY <1>5, <2>3
<1> QED BY <1>5, <1>7, <1>8, <1>9, <1>10 DEF KeepsConfirmed

\* Sorting by offset keeps objects apart.
LEMMA SortedAreApart ==
    ASSUME NEW Y, \A o \in Y : o.offset \in Int, NEW s \in Seq(Y), Distinct(s), NEW t, t = ByOffset(s)
    PROVE  t \in Seq(Y) /\ ToSet(t) = ToSet(s) /\ Distinct(t) /\ Len(t) = Len(s)
<1>1. t \in Seq(Y) /\ ToSet(t) = ToSet(s) /\ Len(t) = Len(s)
  BY ObjectsAreSorted
<1> DEFINE N == Len(s)
<1>2. /\ N \in Nat /\ DOMAIN s = 1 .. N /\ DOMAIN t = 1 .. N
      /\ \A o \in ToSet(s) : \E n \in 1 .. N : s[n] = o
      /\ \A n \in 1 .. N : s[n] \in ToSet(s) /\ t[n] \in ToSet(t)
      /\ \A o \in ToSet(t) : \E n \in 1 .. N : t[n] = o
  BY <1>1 DEF ToSet
<1>2a. \A n, m \in 1 .. N : Apart(s[n]) = Apart(s[m]) => n = m
  <2>1. DOMAIN s = 1 .. N
    BY <1>2
  <2> QED BY <2>1 DEF Distinct
<1> DEFINE f == [n \in 1 .. N |-> CHOOSE m \in 1 .. N : s[m] = t[n]]
<1>3. \A n \in 1 .. N : f[n] \in 1 .. N /\ s[f[n]] = t[n]
  <2> SUFFICES ASSUME NEW n \in 1 .. N PROVE f[n] \in 1 .. N /\ s[f[n]] = t[n]
    OBVIOUS
  <2>1. \E m \in 1 .. N : s[m] = t[n]
    BY <1>1, <1>2
  <2> QED BY <2>1
<1>4. \A m \in 1 .. N : \E n \in 1 .. N : f[n] = m
  <2> SUFFICES ASSUME NEW m \in 1 .. N PROVE \E n \in 1 .. N : f[n] = m
    OBVIOUS
  <2>1. PICK n \in 1 .. N : t[n] = s[m]
    BY <1>1, <1>2
  <2>2. f[n] \in 1 .. N /\ s[f[n]] = s[m]
    BY <1>3, <2>1
  <2>3. f[n] = m
    <3> HIDE DEF f
    <3>1. f[n] \in 1 .. N /\ Apart(s[f[n]]) = Apart(s[m])
      BY <2>2
    <3> QED BY <1>2a, <3>1
  <2> QED BY <2>3
<1>5. f \in [1 .. N -> 1 .. N]
  BY <1>3
<1> HIDE DEF f
<1>6. IsFiniteSet(1 .. N)
  <2>1. 1 \in Int /\ N \in Int
    BY <1>2
  <2> QED BY <2>1, FS_Interval
<1>7. f \in Surjection(1 .. N, 1 .. N)
  BY <1>4, <1>5 DEF Surjection
<1>8. \A n, m \in 1 .. N : f[n] = f[m] => n = m
  <2>1. f \in Injection(1 .. N, 1 .. N)
    BY <1>6, <1>7, FS_SurjSameCardinalityImpliesInj
  <2> QED BY <2>1 DEF Injection, IsInjective
<1>9. Distinct(t)
  <2> SUFFICES ASSUME NEW n \in 1 .. N, NEW m \in 1 .. N, Apart(t[n]) = Apart(t[m]) PROVE n = m
    BY <1>2 DEF Distinct
  <2>1. f[n] \in 1 .. N /\ f[m] \in 1 .. N /\ s[f[n]] = t[n] /\ s[f[m]] = t[m]
    BY <1>3
  <2>2. Apart(s[f[n]]) = Apart(s[f[m]])
    BY <2>1
  <2>3. f[n] = f[m]
    BY <1>2a, <2>1, <2>2
  <2> QED BY <1>8, <2>3
<1> QED BY <1>1, <1>9

------------------------------------------------------------------------------
(* The steps of Objects, each by its name.                                 *)

Merged(file, opts) ==
    IF opts.collect
    THEN Merge(ParserObjects(file), Guesses(file, opts, ParserObjects(file)))
    ELSE ParserObjects(file)
Clear(file, merged) == {n \in DOMAIN merged : ~AtSignature(file, merged[n])}
Placed(o) == IF o.path = <<>> THEN [o EXCEPT !.path = DerivedPath(o.name)] ELSE o
PlacedAll(s) == [n \in DOMAIN s |-> Placed(s[n])]
Once(file, opts) ==
    LET s == PlacedAll(Picked(Merged(file, opts), Clear(file, Merged(file, opts))))
    IN  Picked(s, Firsts(s))
Some(file, opts) ==
    IF Once(file, opts) = <<>> /\ file.header # None THEN <<OriginProject>> ELSE Once(file, opts)
PathsOf(s) == [n \in DOMAIN s |-> s[n].path]
Titled(o, path) ==
    [offset |-> o.offset, length |-> o.length, name |-> o.name, kind |-> o.kind,
     path |-> path, confirmed |-> o.confirmed, signal |-> o.signal, plain |-> o.plain,
     root |-> o.path[1]]
TitledAll(s) == [n \in DOMAIN s |-> Titled(s[n], UniquePaths(PathsOf(s))[n])]
Limited(file, opts) == CapRepeats(ByOffset(Some(file, opts)), opts.repeats)

\* Objects does these steps.
LEMMA ObjectsAreSteps ==
    ASSUME NEW file, NEW opts
    PROVE  Objects(file, opts) = IF file.symbols = <<>> /\ ~file.streamed THEN <<>>
                                 ELSE TitledAll(Limited(file, opts))
BY ZenonT(20) DEF Objects, Limited, TitledAll, Titled, PathsOf, Some, Once, PlacedAll, Placed, Clear, Merged,
       Firsts, Apart, FirstOfEach, Those, Each

\* The objects before the limit: the parser's are first.
LEMMA MergedInOrder ==
    ASSUME NEW Value, NEW file, IsDiscoverable(file, Value), NEW opts, NEW s, s = Merged(file, opts)
    PROVE  /\ s \in Seq(Founds(Value)) /\ ConfirmedFirst(s)
           /\ ToSet(ParserObjects(file)) \subseteq ToSet(s)
<1> DEFINE owned == ParserObjects(file)
           Y == Founds(Value)
           G == {o \in Founds(Value) : o.confirmed = FALSE}
<1>1. owned \in Seq(Y) /\ \A o \in ToSet(owned) : o.confirmed = TRUE
  BY ParserObjectsAre
<1>2. \A n \in DOMAIN owned : owned[n].confirmed = TRUE
  BY <1>1 DEF ToSet
<1>3. CASE s = owned
  <2>1. ConfirmedFirst(s)
    BY <1>2, <1>3 DEF ConfirmedFirst
  <2> QED BY <1>1, <1>3, <2>1
<1>4. CASE opts.collect /\ s = Merge(owned, Guesses(file, opts, owned))
  <2>1. Guesses(file, opts, owned) \in Seq(G)
    BY GuessesAre
  <2> HIDE DEF owned
  <2>2. PICK rest \in Seq(G) : s = owned \o rest
    BY <1>1, <1>4, <2>1, MergedAre
  <2>3. rest \in Seq(Y) /\ \A n \in DOMAIN rest : rest[n].confirmed = FALSE
    BY <2>2
  <2> HIDE DEF Y, G
  <2>4. s \in Seq(Y) /\ ToSet(owned) \subseteq ToSet(s)
    <3>1. owned \o rest \in Seq(Y) /\ ToSet(owned \o rest) = ToSet(owned) \cup ToSet(rest)
      BY <1>1, <2>3, ConcatenatedAre
    <3> QED BY <2>2, <3>1
  <2>5. /\ DOMAIN s = 1 .. Len(owned) + Len(rest) /\ Len(owned) \in Nat /\ Len(rest) \in Nat
        /\ DOMAIN owned = 1 .. Len(owned) /\ DOMAIN rest = 1 .. Len(rest)
        /\ \A n \in 1 .. Len(owned) : s[n] = owned[n]
        /\ \A n \in DOMAIN s : n \notin 1 .. Len(owned) => s[n] = rest[n - Len(owned)]
    BY <1>1, <2>2, <2>3
  <2>6. ASSUME NEW m \in DOMAIN s, s[m].confirmed = TRUE PROVE m \in 1 .. Len(owned)
    <3> SUFFICES ASSUME m \notin 1 .. Len(owned) PROVE FALSE
      OBVIOUS
    <3>1. m - Len(owned) \in 1 .. Len(rest) /\ s[m] = rest[m - Len(owned)]
      BY <2>5
    <3>2. s[m].confirmed = FALSE
      BY <2>3, <2>5, <3>1
    <3> QED BY <2>6, <3>2
  <2>7. ASSUME NEW n \in DOMAIN s, NEW m \in DOMAIN s, n < m, s[m].confirmed = TRUE
        PROVE  s[n].confirmed = TRUE
    <3>1. m \in 1 .. Len(owned)
      BY <2>6, <2>7
    <3>2. n \in 1 .. Len(owned)
      BY <2>5, <2>7, <3>1
    <3>3. s[n] = owned[n] /\ n \in DOMAIN owned
      BY <2>5, <3>2
    <3> QED BY <1>2, <3>3
  <2> QED BY <2>4, <2>7 DEF ConfirmedFirst, owned, Y
<1> QED BY <1>3, <1>4 DEF Merged

\* An object is at its place whatever path it gets.
LEMMA PlacedAre ==
    ASSUME NEW Value, NEW file, IsDiscoverable(file, Value), NEW o \in Founds(Value)
    PROVE  /\ Placed(o) \in Founds(Value) /\ Apart(Placed(o)) = Apart(o)
           /\ Placed(o).confirmed = o.confirmed
<1>1. o.name \in Seq(Value) /\ "object" \in Value
  BY DEF Founds, IsDiscoverable, Vocabulary
<1>2. DerivedPath(o.name) \in Seq(Seq(Value))
  <2> DEFINE folder == IF o.name # <<>> /\ o.name[1] \in DOMAIN KnownPrefixes /\ Len(o.name) > 1
                       THEN <<o.name[1]>> ELSE <<"object">>
  <2>1. folder \in Seq(Value)
    <3>1. Len(o.name) > 1 => o.name[1] \in Value
      BY <1>1
    <3>2. <<"object">> \in Seq(Value)
      BY <1>1
    <3>3. Len(o.name) > 1 => <<o.name[1]>> \in Seq(Value)
      BY <3>1
    <3> QED BY <3>2, <3>3
  <2>2. DerivedPath(o.name) = <<folder, o.name>>
    BY DEF DerivedPath
  <2> HIDE DEF folder
  <2> QED BY <1>1, <2>1, <2>2
<1> DEFINE moved == [o EXCEPT !.path = DerivedPath(o.name)]
<1>3. moved \in Founds(Value) /\ Apart(moved) = Apart(o) /\ moved.confirmed = o.confirmed
  BY <1>2 DEF Founds, Apart
<1>4. Placed(o) = IF o.path = <<>> THEN moved ELSE o
  BY DEF Placed
<1> HIDE DEF moved
<1> QED BY <1>3, <1>4

\* Once for each place, kind and name; what the parser owns is there when no signature is
\* looked for.
LEMMA FoundOnce ==
    ASSUME NEW Value, NEW file, IsDiscoverable(file, Value), NEW opts, NEW q, q = Once(file, opts)
    PROVE  /\ q \in Seq(Founds(Value)) /\ Distinct(q)
           /\ file.streamed = FALSE =>
                 \A o \in ToSet(ParserObjects(file)) : HasConfirmed(q, o)
<1> DEFINE Y == Founds(Value)
           merged == Merged(file, opts)
           P == Clear(file, merged)
           clear == Picked(merged, P)
           placed == PlacedAll(clear)
           f == [o \in Y |-> Placed(o)]
<1>1. /\ merged \in Seq(Y) /\ ConfirmedFirst(merged)
      /\ ToSet(ParserObjects(file)) \subseteq ToSet(merged)
  BY MergedInOrder
<1>2. q = Picked(placed, Firsts(placed))
  BY DEF Once
<1> HIDE DEF Y, merged
<1>3. P \in SUBSET (1 .. Len(merged)) /\ DOMAIN merged = 1 .. Len(merged)
  BY <1>1 DEF Clear
<1>4. \A n \in 1 .. Len(merged) : file.streamed = FALSE /\ merged[n].confirmed = TRUE => n \in P
  BY <1>3 DEF Clear, AtSignature
<1> HIDE DEF P
<1>5. clear \in Seq(Y) /\ ConfirmedFirst(clear) /\ ToSet(clear) = {merged[n] : n \in P}
  BY <1>1, <1>3, PickedAre, PickedConfirmedFirst
<1>6. /\ \A o \in Y : f[o] = Placed(o)
      /\ \A o \in Y : Placed(o) \in Y /\ Apart(Placed(o)) = Apart(o)
                      /\ Placed(o).confirmed = o.confirmed
  BY PlacedAre DEF Y
<1>7. f \in [Y -> Y]
  BY <1>6
<1> HIDE DEF clear, f
<1>8. DOMAIN clear = 1 .. Len(clear) /\ \A n \in 1 .. Len(clear) : clear[n] \in Y
  BY <1>5
<1>9. placed = [n \in DOMAIN clear |-> f[clear[n]]] /\ DOMAIN placed = DOMAIN clear
  BY <1>6, <1>8 DEF PlacedAll
<1> HIDE DEF placed
<1>10. placed \in Seq(Y) /\ ToSet(placed) = {f[o] : o \in ToSet(clear)}
  BY <1>5, <1>7, <1>9, EachIs
<1>11. \A n \in DOMAIN placed : placed[n] = Placed(clear[n]) /\ clear[n] \in Y
  BY <1>6, <1>8, <1>9
<1>12. ConfirmedFirst(placed)
  <2> SUFFICES ASSUME NEW n \in DOMAIN placed, NEW m \in DOMAIN placed, n < m,
                      placed[m].confirmed = TRUE
               PROVE  placed[n].confirmed = TRUE
    BY DEF ConfirmedFirst
  <2>1. clear[m].confirmed = TRUE
    BY <1>6, <1>11
  <2>2. clear[n].confirmed = TRUE
    BY <1>5, <1>9, <2>1 DEF ConfirmedFirst
  <2> QED BY <1>6, <1>11, <2>2
<1>13. q \in Seq(Y) /\ Distinct(q) /\ KeepsConfirmed(q, placed)
  <2>1. placed \in Seq(Y)
    BY <1>10
  <2> QED BY <1>2, <1>12, <2>1, FirstOnesAreApart
<1>14. ASSUME file.streamed = FALSE, NEW o \in ToSet(ParserObjects(file))
       PROVE  HasConfirmed(q, o)
  <2>1. o.confirmed = TRUE
    BY ParserObjectsAre
  <2>2. PICK n \in 1 .. Len(merged) : merged[n] = o
    BY <1>1, <1>3 DEF ToSet
  <2>3. o \in ToSet(clear)
    BY <1>4, <1>5, <1>14, <2>1, <2>2
  <2>4. o \in Y
    BY <1>5, <2>3 DEF ToSet
  <2>5. Placed(o) \in ToSet(placed)
    BY <1>6, <1>10, <2>3, <2>4
  <2>6. HasConfirmed(q, Placed(o))
    BY <1>6, <1>13, <2>1, <2>4, <2>5 DEF KeepsConfirmed
  <2> QED BY <1>6, <2>4, <2>6 DEF HasConfirmed
<1> QED BY <1>13, <1>14 DEF Y

\* A file with a header is never without an object.
LEMMA SomeAre ==
    ASSUME NEW Value, NEW file, IsDiscoverable(file, Value), NEW opts, NEW q, q = Some(file, opts)
    PROVE  /\ q \in Seq(Founds(Value)) /\ Distinct(q)
           /\ file.header # None => q # <<>>
           /\ file.streamed = FALSE =>
                 \A o \in ToSet(ParserObjects(file)) : HasConfirmed(q, o)
<1> DEFINE once == Once(file, opts)
<1>2. q = IF once = <<>> /\ file.header # None THEN <<OriginProject>> ELSE once
  BY DEF Some
<1>0. once = Once(file, opts)
  OBVIOUS
<1> HIDE DEF once
<1>1. /\ once \in Seq(Founds(Value)) /\ Distinct(once)
      /\ file.streamed = FALSE =>
            \A o \in ToSet(ParserObjects(file)) : HasConfirmed(once, o)
  BY <1>0, FoundOnce
<1>3. CASE ~(once = <<>> /\ file.header # None)
  BY <1>1, <1>2, <1>3
<1>4. CASE once = <<>> /\ file.header # None
  <2>1. q = <<OriginProject>>
    BY <1>2, <1>4
  <2>2. OriginProject \in Founds(Value)
    <3>1. {"origin_project", "project", None} \subseteq Value
      BY DEF IsDiscoverable, Vocabulary
    <3>2. <<"origin_project">> \in Seq(Value) /\ <<"project">> \in Seq(Value)
      BY <3>1
    <3>3. <<<<"project">>, <<"origin_project">>>> \in Seq(Seq(Value))
      BY <3>2
    <3> QED BY <3>1, <3>2, <3>3 DEF OriginProject, Founds
  <2>3. q \in Seq(Founds(Value)) /\ q # <<>> /\ Distinct(q)
    <3> HIDE DEF OriginProject, Founds
    <3> QED BY <2>1, <2>2 DEF Distinct
  <2>4. ASSUME file.streamed = FALSE PROVE ToSet(ParserObjects(file)) = {}
    <3>1. ToSet(once) = {}
      BY <1>4 DEF ToSet
    <3>2. \A o \in ToSet(ParserObjects(file)) : \E p \in ToSet(once) : TRUE
      BY <1>1, <2>4 DEF HasConfirmed
    <3> QED BY <3>1, <3>2
  <2> QED BY <2>3, <2>4
<1> QED BY <1>3, <1>4

------------------------------------------------------------------------------
(* The limit of the repeats.                                               *)

\* Where s has objects of a kind and a name that are confirmed, or are not.
OfKey(s, key, confirmed) == {m \in DOMAIN s : Key(s[m]) = key /\ s[m].confirmed = confirmed}
Slots(s, most, key, confirmed) ==
    IF confirmed THEN most ELSE most - AtMost(Cardinality(OfKey(s, key, TRUE)), most)
FirstOfKey(s, key, confirmed, k) ==
    {n \in OfKey(s, key, confirmed) : Cardinality({m \in OfKey(s, key, confirmed) : m < n}) < k}
KeptOf(s, most) ==
    {n \in DOMAIN s : n \in FirstOfKey(s, Key(s[n]), s[n].confirmed,
                                       Slots(s, most, Key(s[n]), s[n].confirmed))}

\* CapRepeats keeps these.
LEMMA CapKeeps ==
    ASSUME NEW s, NEW most, most # None
    PROVE  CapRepeats(s, most) = Picked(s, KeptOf(s, most))
<1> DEFINE of(n, confirmed) == {m \in DOMAIN s : /\ Key(s[m]) = Key(s[n])
                                                 /\ s[m].confirmed = confirmed}
           slots(n) == IF s[n].confirmed THEN most
                       ELSE most - AtMost(Cardinality(of(n, TRUE)), most)
           before(n) == {m \in of(n, s[n].confirmed) : m < n}
           P == {n \in DOMAIN s : Cardinality(before(n)) < slots(n)}
<1>1. CapRepeats(s, most) = Picked(s, P)
  BY DEF CapRepeats
<1>2. ASSUME NEW n \in DOMAIN s
      PROVE  Cardinality(before(n)) < slots(n)
                <=> n \in FirstOfKey(s, Key(s[n]), s[n].confirmed,
                                     Slots(s, most, Key(s[n]), s[n].confirmed))
  <2>1. slots(n) = Slots(s, most, Key(s[n]), s[n].confirmed)
    BY DEF Slots, OfKey
  <2>2. before(n) = {m \in OfKey(s, Key(s[n]), s[n].confirmed) : m < n}
    BY DEF OfKey
  <2>3. n \in OfKey(s, Key(s[n]), s[n].confirmed)
    BY DEF OfKey
  <2> HIDE DEF slots, before
  <2> QED BY <2>1, <2>2, <2>3 DEF FirstOfKey
<1>3. P = KeptOf(s, most)
  <2> HIDE DEF before, slots
  <2> QED BY <1>2 DEF KeptOf
<1> QED BY <1>1, <1>3

KeptOfKey(s, most, key) == {n \in KeptOf(s, most) : Key(s[n]) = key}
SureOfKey(s, most, key) ==
    {n \in KeptOf(s, most) : Key(s[n]) = key /\ s[n].confirmed = TRUE}

\* So many of a key are kept: the confirmed ones first, the others while there is room.
LEMMA KeptAre ==
    ASSUME NEW Y, \A o \in Y : o.confirmed \in BOOLEAN, NEW s \in Seq(Y), NEW most \in Nat \ {0},
           NEW key
    PROVE  /\ KeptOf(s, most) \in SUBSET (1 .. Len(s))
           /\ Cardinality(KeptOfKey(s, most, key)) <= most
           /\ \A n \in DOMAIN s : Key(s[n]) = key /\ s[n].confirmed = TRUE /\ n \notin KeptOf(s, most) =>
                 Cardinality(SureOfKey(s, most, key)) >= most
<1> DEFINE N == Len(s)
           T == OfKey(s, key, TRUE)
           F == OfKey(s, key, FALSE)
           room == most - AtMost(Cardinality(T), most)
           KT == FirstOfKey(s, key, TRUE, most)
           KF == FirstOfKey(s, key, FALSE, room)
           K == KeptOf(s, most)
<1>1. N \in Nat /\ DOMAIN s = 1 .. N /\ \A n \in 1 .. N : s[n].confirmed \in BOOLEAN
  OBVIOUS
<1>2. T \in SUBSET (1 .. N) /\ F \in SUBSET (1 .. N) /\ K \in SUBSET (1 .. N)
  BY <1>1 DEF OfKey, KeptOf
<1>3. /\ KT = {n \in T : Cardinality({m \in T : m < n}) < most}
      /\ KF = {n \in F : Cardinality({m \in F : m < n}) < room}
  BY DEF FirstOfKey
<1>4. /\ \A n \in T : n \in K <=> n \in KT
      /\ \A n \in F : n \in K <=> n \in KF
      /\ \A n \in K : Key(s[n]) = key => n \in T \/ n \in F
  <2>1. ASSUME NEW n \in T PROVE n \in K <=> n \in KT
    <3>1. n \in DOMAIN s /\ Key(s[n]) = key /\ s[n].confirmed = TRUE
      BY DEF OfKey
    <3>2. Slots(s, most, key, TRUE) = most
      BY DEF Slots
    <3> QED BY <3>1, <3>2 DEF KeptOf
  <2>2. ASSUME NEW n \in F PROVE n \in K <=> n \in KF
    <3>1. n \in DOMAIN s /\ Key(s[n]) = key /\ s[n].confirmed = FALSE
      BY DEF OfKey
    <3>2. Slots(s, most, key, FALSE) = room
      BY DEF Slots
    <3> HIDE DEF room
    <3> QED BY <3>1, <3>2 DEF KeptOf
  <2>3. ASSUME NEW n \in K, Key(s[n]) = key PROVE n \in T \/ n \in F
    <3>1. n \in DOMAIN s /\ s[n].confirmed \in BOOLEAN
      BY <1>1, <1>2
    <3> QED BY <2>3, <3>1 DEF OfKey
  <2> QED BY <2>1, <2>2, <2>3
<1> HIDE DEF T, F, K, KT, KF
<1>5. Cardinality(T) \in Nat /\ Cardinality(KT) = AtMost(Cardinality(T), most)
  BY <1>1, <1>2, <1>3, FirstOnesAre
<1>6. room \in Nat /\ room = most - Cardinality(KT)
  BY <1>5 DEF AtMost
<1> HIDE DEF room
<1>7. Cardinality(F) \in Nat /\ Cardinality(KF) = AtMost(Cardinality(F), room)
  BY <1>1, <1>2, <1>3, <1>6, FirstOnesAre
<1>8. KT \subseteq T /\ KF \subseteq F
  BY <1>3
<1>9. /\ {n \in K : Key(s[n]) = key} = KT \cup KF
      /\ {n \in K : Key(s[n]) = key /\ s[n].confirmed = TRUE} = KT
  <2>1. \A n \in KT : n \in K /\ Key(s[n]) = key /\ s[n].confirmed = TRUE
    BY <1>4, <1>8 DEF T, OfKey
  <2>2. \A n \in KF : n \in K /\ Key(s[n]) = key /\ s[n].confirmed = FALSE
    BY <1>4, <1>8 DEF F, OfKey
  <2>3. \A n \in K : Key(s[n]) = key => n \in KT \/ n \in KF
    BY <1>4
  <2> QED BY <2>1, <2>2, <2>3
<1>10. /\ IsFiniteSet(KT) /\ IsFiniteSet(KF) /\ IsFiniteSet(T)
       /\ Cardinality(KT) \in Nat /\ Cardinality(KF) \in Nat
  <2>1. IsFiniteSet(1 .. N)
    <3>1. 1 \in Int /\ N \in Int
      BY <1>1
    <3> QED BY <3>1, FS_Interval
  <2>2. T \subseteq 1 .. N /\ KT \subseteq 1 .. N /\ KF \subseteq 1 .. N
    BY <1>2, <1>8
  <2>3. IsFiniteSet(KT) /\ IsFiniteSet(KF) /\ IsFiniteSet(T)
    BY <2>1, <2>2, FS_Subset
  <2> QED BY <2>3, FS_CardinalityType
<1>11. KT \cap KF = {}
  BY <1>8 DEF T, F, OfKey
<1>12. Cardinality(KT \cup KF) = Cardinality(KT) + Cardinality(KF)
  <2>1. Cardinality(KT \cup KF) = Cardinality(KT) + Cardinality(KF) - Cardinality(KT \cap KF)
    BY <1>10, FS_Union
  <2>2. Cardinality(KT \cap KF) = 0
    BY <1>11, FS_EmptySet
  <2> QED BY <1>10, <2>1, <2>2
<1>13. Cardinality(KT \cup KF) <= most
  <2>1. Cardinality(KF) <= room
    BY <1>6, <1>7 DEF AtMost
  <2> QED BY <1>6, <1>10, <1>12, <2>1
<1>14. ASSUME NEW n \in DOMAIN s, Key(s[n]) = key, s[n].confirmed = TRUE, n \notin K
       PROVE  Cardinality(KT) >= most
  <2>1. n \in T /\ n \notin KT
    BY <1>4, <1>14 DEF T, OfKey
  <2> DEFINE B == {m \in T : m < n}
  <2>2. ~(Cardinality(B) < most)
    BY <1>3, <2>1
  <2>3. B \subseteq T
    OBVIOUS
  <2> HIDE DEF B
  <2>4. Cardinality(B) <= Cardinality(T)
    BY <1>10, <2>3, FS_Subset
  <2>5. Cardinality(B) \in Nat
    <3>1. IsFiniteSet(B)
      BY <1>10, <2>3, FS_Subset
    <3> QED BY <3>1, FS_CardinalityType
  <2>6. Cardinality(T) >= most
    BY <1>5, <2>2, <2>4, <2>5
  <2> QED BY <1>5, <2>6 DEF AtMost
<1>15. /\ K \in SUBSET (1 .. N) /\ Cardinality({n \in K : Key(s[n]) = key}) <= most
       /\ \A n \in DOMAIN s : Key(s[n]) = key /\ s[n].confirmed = TRUE /\ n \notin K =>
             Cardinality({m \in K : Key(s[m]) = key /\ s[m].confirmed = TRUE}) >= most
  BY <1>2, <1>9, <1>13, <1>14
<1> QED BY <1>15 DEF K, N, KeptOfKey, SureOfKey

\* Where there is something, something is kept.
LEMMA SomethingIsKept ==
    ASSUME NEW Y, \A o \in Y : o.confirmed \in BOOLEAN, NEW s \in Seq(Y), NEW most \in Nat \ {0},
           s # <<>>
    PROVE  KeptOf(s, most) # {}
<1> DEFINE T == OfKey(s, Key(s[1]), TRUE)
           K == KeptOf(s, most)
<1>1. Len(s) \in Nat /\ DOMAIN s = 1 .. Len(s) /\ 1 \in DOMAIN s /\ s[1].confirmed \in BOOLEAN
  OBVIOUS
<1>2. \A k : {m \in OfKey(s, Key(s[k]), s[k].confirmed) : m < 1} = {}
  BY <1>1 DEF OfKey
<1>3. Cardinality({}) = 0
  BY FS_EmptySet
<1>4. T \in SUBSET Nat
  BY <1>1 DEF OfKey
<1>5. CASE T = {}
  <2>1. s[1].confirmed = FALSE
    BY <1>1, <1>5 DEF OfKey
  <2>2. Slots(s, most, Key(s[1]), FALSE) = most
    <3>1. Cardinality(T) = 0
      BY <1>3, <1>5
    <3>2. AtMost(Cardinality(T), most) = 0
      <4>1. 0 <= most
        OBVIOUS
      <4> HIDE DEF T
      <4> QED BY <3>1, <4>1 DEF AtMost
    <3>3. Slots(s, most, Key(s[1]), FALSE) = most - AtMost(Cardinality(T), most)
      BY DEF Slots
    <3> HIDE DEF T
    <3>4. most - 0 = most
      OBVIOUS
    <3> QED BY <3>2, <3>3, <3>4
  <2>3. 1 \in OfKey(s, Key(s[1]), FALSE)
    BY <1>1, <2>1 DEF OfKey
  <2>4. {m \in OfKey(s, Key(s[1]), FALSE) : m < 1} = {}
    BY <1>2, <2>1
  <2>5. 1 \in FirstOfKey(s, Key(s[1]), FALSE, most)
    <3>1. Cardinality({m \in OfKey(s, Key(s[1]), FALSE) : m < 1}) < most
      <4>1. 0 < most
        OBVIOUS
      <4> QED BY <1>3, <2>4, <4>1
    <3> QED BY <2>3, <3>1 DEF FirstOfKey
  <2>6. 1 \in K
    BY <1>1, <2>1, <2>2, <2>5 DEF KeptOf
  <2> QED BY <2>6
<1>6. CASE T # {}
  <2>1. PICK n \in T : \A m \in T : n <= m
    <3> HIDE DEF T
    <3> QED BY <1>4, <1>6, LeastNumber
  <2>2. n \in DOMAIN s /\ Key(s[n]) = Key(s[1]) /\ s[n].confirmed = TRUE
    BY DEF OfKey
  <2>3. {m \in T : m < n} = {}
    <3> SUFFICES ASSUME NEW m \in T, m < n PROVE FALSE
      OBVIOUS
    <3>1. n <= m /\ n \in Nat /\ m \in Nat
      BY <1>4, <2>1
    <3> QED BY <3>1
  <2>4. Slots(s, most, Key(s[1]), TRUE) = most
    BY DEF Slots
  <2>5. n \in FirstOfKey(s, Key(s[1]), TRUE, most)
    <3>1. Cardinality({m \in T : m < n}) < most
      <4>1. 0 < most
        OBVIOUS
      <4> QED BY <1>3, <2>3, <4>1
    <3> QED BY <3>1 DEF FirstOfKey
  <2>6. n \in K
    BY <2>2, <2>4, <2>5 DEF KeptOf
  <2> QED BY <2>6
<1> QED BY <1>5, <1>6

------------------------------------------------------------------------------
(* The inventory.  Each of its objects stands for one that was found.      *)

Same(o, p) ==
    /\ o.offset = p.offset /\ o.length = p.length /\ o.name = p.name /\ o.kind = p.kind
    /\ o.confirmed = p.confirmed /\ o.signal = p.signal /\ o.plain = p.plain

\* The title is a path and the root of it.
LEMMA TitledIsSame ==
    ASSUME NEW o, NEW path
    PROVE  Same(Titled(o, path), o) /\ Titled(o, path).path = path
BY DEF Titled, Same

\* The objects of r stand for those of s at P, by b.
Stands(b, s, P, r) ==
    /\ b = [n \in P |-> b[n]]
    /\ \A n \in P : b[n] \in ToSet(r) /\ Same(b[n], s[n])
    /\ \A o \in ToSet(r) : \E n \in P : b[n] = o

\* An object for each one picked.
LEMMA PickedStand ==
    ASSUME NEW Value, NEW s \in Seq(Founds(Value)), NEW P \in SUBSET (1 .. Len(s)),
           NEW q \in Seq(Founds(Value)), NEW at, LeadsTo(at, q, s, P), NEW r, r = TitledAll(q)
    PROVE  Len(r) = Len(q) /\ r \in Seq(ToSet(r)) /\ \E b : Stands(b, s, P, r)
<1> DEFINE N == Len(q)
           b == [n \in P |-> r[CHOOSE k \in 1 .. N : at[k] = n]]
<1>1. N \in Nat /\ DOMAIN q = 1 .. N /\ \A k \in 1 .. N : q[k] \in Founds(Value)
  OBVIOUS
<1>2. r = [k \in 1 .. N |-> Titled(q[k], UniquePaths(PathsOf(q))[k])]
  BY <1>1 DEF TitledAll
<1>3. \A k \in 1 .. N : Same(r[k], q[k])
  <2> SUFFICES ASSUME NEW k \in 1 .. N PROVE Same(r[k], q[k])
    OBVIOUS
  <2>1. r[k] = Titled(q[k], UniquePaths(PathsOf(q))[k])
    BY <1>2
  <2> QED BY <1>1, <2>1, TitledIsSame
<1> HIDE DEF N
<1>4. DOMAIN r = 1 .. N /\ Len(r) = N /\ r \in Seq({r[k] : k \in 1 .. N})
  <2> DEFINE T == {r[k] : k \in 1 .. N}
  <2>1. r \in [1 .. N -> T]
    <3>1. r = [k \in 1 .. N |-> r[k]]
      BY <1>2
    <3> QED BY <3>1
  <2> HIDE DEF T
  <2>2. r \in Seq(T) /\ Len(r) = N /\ DOMAIN r = 1 .. N
    BY <1>1, <2>1, TupleIsSeq
  <2> QED BY <2>2 DEF T
<1>5. ToSet(r) = {r[k] : k \in 1 .. N}
  BY <1>4 DEF ToSet
<1>6. /\ at \in [1 .. N -> P]
      /\ \A n \in P : \E k \in 1 .. N : at[k] = n
      /\ \A k, l \in 1 .. N : k < l => at[k] < at[l]
      /\ \A k \in 1 .. N : q[k] = s[at[k]]
  BY DEF LeadsTo, N
<1>7. \A k, l \in 1 .. N : at[k] = at[l] => k = l
  <2> SUFFICES ASSUME NEW k \in 1 .. N, NEW l \in 1 .. N, at[k] = at[l] PROVE k = l
    OBVIOUS
  <2>1. at[k] \in 1 .. Len(s) /\ Len(s) \in Nat
    <3>1. at[k] \in P
      BY <1>6
    <3>2. Len(s) \in Nat
      OBVIOUS
    <3> QED BY <3>1, <3>2
  <2>2. at[k] \in Int /\ k \in Int /\ l \in Int
    BY <1>1, <2>1
  <2> QED BY <1>6, <2>2
<1>8. \A k \in 1 .. N : at[k] \in P /\ b[at[k]] = r[k]
  <2> SUFFICES ASSUME NEW k \in 1 .. N PROVE at[k] \in P /\ b[at[k]] = r[k]
    OBVIOUS
  <2>1. at[k] \in P
    BY <1>6
  <2>2. (CHOOSE l \in 1 .. N : at[l] = at[k]) = k
    BY <1>7
  <2> QED BY <2>1, <2>2
<1> HIDE DEF b
<1>9. \A n \in P : b[n] \in ToSet(r) /\ Same(b[n], s[n])
  <2> SUFFICES ASSUME NEW n \in P PROVE b[n] \in ToSet(r) /\ Same(b[n], s[n])
    OBVIOUS
  <2>1. PICK k \in 1 .. N : at[k] = n
    BY <1>6
  <2>2. b[n] = r[k] /\ q[k] = s[n] /\ Same(r[k], q[k]) /\ r[k] \in ToSet(r)
    BY <1>3, <1>5, <1>6, <1>8, <2>1
  <2> QED BY <2>2
<1>10. \A o \in ToSet(r) : \E n \in P : b[n] = o
  BY <1>5, <1>8
<1>11. Stands(b, s, P, r)
  <2>1. b = [n \in P |-> b[n]]
    BY DEF b
  <2> QED BY <1>9, <1>10, <2>1 DEF Stands
<1> QED BY <1>4, <1>5, <1>11 DEF N

\* What was found before the limit.
Discovered(file, opts) == ByOffset(Some(file, opts))

\* It is typed and apart and what the parser owns is in it.
LEMMA DiscoveredAre ==
    ASSUME NEW Value, NEW file, IsDiscoverable(file, Value), NEW opts, NEW s, s = Discovered(file, opts)
    PROVE  /\ s \in Seq(Founds(Value)) /\ Distinct(s)
           /\ file.header # None => s # <<>>
           /\ file.streamed = FALSE =>
                 \A o \in ToSet(ParserObjects(file)) : HasConfirmed(s, o)
<1> DEFINE q == Some(file, opts)
<1>1. q = Some(file, opts)
  OBVIOUS
<1> HIDE DEF q
<1>2. /\ q \in Seq(Founds(Value)) /\ Distinct(q)
      /\ file.header # None => q # <<>>
      /\ file.streamed = FALSE =>
            \A o \in ToSet(ParserObjects(file)) : HasConfirmed(q, o)
  BY <1>1, SomeAre
<1>3. s = ByOffset(q)
  BY <1>1 DEF Discovered
<1>4. \A o \in Founds(Value) : o.offset \in Int
  BY DEF Founds
<1>5. s \in Seq(Founds(Value)) /\ ToSet(s) = ToSet(q) /\ Distinct(s) /\ Len(s) = Len(q)
  <2> DEFINE Y == Founds(Value)
  <2>1. q \in Seq(Y) /\ \A o \in Y : o.offset \in Int
    BY <1>2, <1>4
  <2> HIDE DEF Y
  <2>2. s \in Seq(Y) /\ ToSet(s) = ToSet(q) /\ Distinct(s) /\ Len(s) = Len(q)
    <3>1. Distinct(q)
      BY <1>2
    <3> QED BY <1>3, <2>1, <3>1, SortedAreApart
  <2> QED BY <2>2 DEF Y
<1>6. q # <<>> => s # <<>>
  <2> HIDE DEF Founds
  <2> QED BY <1>2, <1>5
<1> QED BY <1>2, <1>5, <1>6 DEF HasConfirmed

\* A limit of the repeats: a number, or none.
IsLimit(most) == most \in Nat \ {0} \/ most = None
PlacesOf(s, most) == IF most = None THEN 1 .. Len(s) ELSE KeptOf(s, most)

\* The inventory stands for what was found, where the limit keeps it.
LEMMA InventoryStands ==
    ASSUME NEW Value, NEW file, IsDiscoverable(file, Value), NEW opts, IsLimit(opts.repeats),
           NEW s, s = Discovered(file, opts), NEW P, P = PlacesOf(s, opts.repeats),
           NEW r, r = TitledAll(Limited(file, opts))
    PROVE  /\ P \in SUBSET (1 .. Len(s)) /\ Len(r) = Cardinality(P)
           /\ Limited(file, opts) \in Seq(Founds(Value)) /\ r \in Seq(ToSet(r))
           /\ \E b : Stands(b, s, P, r)
<1> DEFINE q == Limited(file, opts)
           most == opts.repeats
           Y == Founds(Value)
<1>1. s \in Seq(Y)
  BY DiscoveredAre
<1>2. Len(s) \in Nat /\ DOMAIN s = 1 .. Len(s)
  BY <1>1
<1>3. q = CapRepeats(s, most) /\ r = TitledAll(q)
  BY DEF Limited, Discovered
<1>4. \A o \in Y : o.confirmed \in BOOLEAN
  BY DEF Founds
<1> HIDE DEF q, Y
<1>5. CASE most = None
  <2> DEFINE at == [n \in 1 .. Len(s) |-> n]
  <2>1. q = s
    BY <1>3, <1>5 DEF CapRepeats
  <2>2. P = 1 .. Len(s)
    BY <1>5 DEF PlacesOf
  <2>3. LeadsTo(at, q, s, P)
    BY <1>2, <2>1, <2>2 DEF LeadsTo
  <2>4. Cardinality(P) = Len(s)
    <3>1. 1 \in Int /\ Len(s) \in Int
      BY <1>2
    <3>2. Cardinality(1 .. Len(s)) = IF 1 > Len(s) THEN 0 ELSE Len(s) - 1 + 1
      BY <3>1, FS_Interval
    <3> QED BY <1>2, <2>2, <3>2
  <2>5. Len(r) = Len(q) /\ r \in Seq(ToSet(r)) /\ \E b : Stands(b, s, P, r)
    <3> HIDE DEF at
    <3>1. P \in SUBSET (1 .. Len(s)) /\ q \in Seq(Founds(Value)) /\ s \in Seq(Founds(Value))
      BY <1>1, <2>1, <2>2 DEF Y
    <3> QED BY <1>3, <2>3, <3>1, PickedStand
  <2>6. Limited(file, opts) \in Seq(Founds(Value))
    BY <1>1, <2>1 DEF q, Y
  <2> QED BY <2>1, <2>2, <2>4, <2>5, <2>6
<1>6. CASE most # None
  <2>1. most \in Nat \ {0}
    BY <1>6 DEF IsLimit
  <2>2. P = KeptOf(s, most) /\ q = Picked(s, P)
    BY <1>3, <1>6, CapKeeps DEF PlacesOf
  <2> HIDE DEF most
  <2>3. P \in SUBSET (1 .. Len(s))
    BY <1>1, <1>4, <2>1, <2>2, KeptAre
  <2>4. q \in Seq(Y)
    BY <1>1, <2>2, <2>3, PickedAre
  <2>5. Len(q) = Cardinality(P) /\ \E at : LeadsTo(at, q, s, P)
    BY <1>1, <2>2, <2>3, PickedInOrder
  <2>6. PICK at : LeadsTo(at, q, s, P)
    BY <2>5
  <2>7. Len(r) = Len(q) /\ r \in Seq(ToSet(r)) /\ \E b : Stands(b, s, P, r)
    BY <1>1, <1>3, <2>3, <2>4, <2>6, PickedStand DEF Y
  <2>8. Limited(file, opts) \in Seq(Founds(Value))
    BY <2>4 DEF q, Y
  <2> QED BY <2>3, <2>5, <2>7, <2>8
<1> QED BY <1>5, <1>6

\* So many stand for so many.
LEMMA StandsCount ==
    ASSUME NEW s, Distinct(s), NEW P \in SUBSET DOMAIN s, IsFiniteSet(P), NEW r, NEW b,
           Stands(b, s, P, r), NEW S \in SUBSET P
    PROVE  Cardinality({b[n] : n \in S}) = Cardinality(S)
<1> DEFINE f == [n \in S |-> b[n]]
<1>1. \A n, m \in S : f[n] = f[m] => n = m
  <2> SUFFICES ASSUME NEW n \in S, NEW m \in S, b[n] = b[m] PROVE n = m
    OBVIOUS
  <2>1. Same(b[n], s[n]) /\ Same(b[m], s[m])
    BY DEF Stands
  <2>2. Apart(s[n]) = Apart(s[m])
    BY <2>1 DEF Same, Apart
  <2>3. n \in DOMAIN s /\ m \in DOMAIN s
    OBVIOUS
  <2> QED BY <2>2, <2>3 DEF Distinct
<1>2. {b[n] : n \in S} = {f[n] : n \in S} /\ f = [n \in S |-> f[n]]
  OBVIOUS
<1>3. IsFiniteSet(S)
  BY FS_Subset
<1> HIDE DEF f
<1> QED BY <1>1, <1>2, <1>3, ImagesAreAsMany

\* A data section that yields is shown by a window, which does not yield.
LEMMA YieldsToAnother ==
    ASSUME NEW file, NEW v, YieldsToWindow(file.boundaries, v)
    PROVE  \E w \in ToSet(file.boundaries) :
              /\ w # v /\ ~YieldsToWindow(file.boundaries, w) /\ SemanticName(w) = SemanticName(v)
              /\ w.kind \in {v.kind, IF v.kind = "worksheet" THEN "excel" ELSE v.kind}
<1> DEFINE windows == {w \in ToSet(file.boundaries) :
                          w.rule = "opj_window" /\ SemanticName(w) = SemanticName(v)}
           kinds == {w.kind : w \in windows}
<1>1. /\ v.rule = "opj_data_section"
      /\ \/ v.kind = "worksheet" /\ kinds \cap {"worksheet", "excel"} # {}
         \/ v.kind = "matrix" /\ "matrix" \in kinds
  BY DEF YieldsToWindow
<1>2. \E w \in windows : w.kind \in {v.kind, IF v.kind = "worksheet" THEN "excel" ELSE v.kind}
  <2>1. CASE v.kind = "worksheet" /\ kinds \cap {"worksheet", "excel"} # {}
    <3>1. PICK k \in kinds : k \in {"worksheet", "excel"}
      BY <2>1
    <3>2. PICK w \in windows : w.kind = k
      BY <3>1
    <3> QED BY <2>1, <3>1, <3>2
  <2>2. CASE v.kind = "matrix" /\ "matrix" \in kinds
    <3>1. PICK w \in windows : w.kind = "matrix"
      BY <2>2
    <3> QED BY <2>2, <3>1
  <2> QED BY <1>1, <2>1, <2>2
<1>3. PICK w \in windows : w.kind \in {v.kind, IF v.kind = "worksheet" THEN "excel" ELSE v.kind}
  BY <1>2
<1>4. w.rule = "opj_window" /\ w \in ToSet(file.boundaries) /\ SemanticName(w) = SemanticName(v)
  OBVIOUS
<1>5. w.rule # "opj_data_section"
  BY <1>4
<1>6. ~YieldsToWindow(file.boundaries, w)
  BY <1>5 DEF YieldsToWindow
<1>7. w # v
  BY <1>1, <1>5
<1> QED BY <1>3, <1>4, <1>6, <1>7

\* The parts of InventoryIsSound.
KnownOf(objects) == {[offset |-> o.offset, kind |-> o.kind, name |-> o.name] : o \in ToSet(objects)}
SameKey(objects, key) == {o \in ToSet(objects) : Key(o) = key}
IsFull(opts, objects, key) ==
    opts.repeats # None
    /\ Cardinality({o \in SameKey(objects, key) : o.confirmed}) >= opts.repeats
IsShown(opts, objects, v) ==
    \/ [offset |-> v.offset, kind |-> v.kind, name |-> v.name] \in KnownOf(objects)
    \/ IsFull(opts, objects, Key(v))

\* What the parser owns is shown.
LEMMA OwnedIsShown ==
    ASSUME NEW Value, NEW file, IsDiscoverable(file, Value), NEW opts, IsLimit(opts.repeats),
           file.streamed = FALSE, NEW r, r = TitledAll(Limited(file, opts)),
           NEW v, Owned(v) \in ToSet(ParserObjects(file))
    PROVE  IsShown(opts, r, v)
<1> DEFINE s == Discovered(file, opts)
           P == PlacesOf(s, opts.repeats)
           Y == Founds(Value)
<1>1. s \in Seq(Y) /\ Distinct(s) /\ HasConfirmed(s, Owned(v))
  BY DiscoveredAre
<1>2. /\ P \in SUBSET (1 .. Len(s))
      /\ \E b : Stands(b, s, P, r)
  BY InventoryStands
<1>3. PICK b : Stands(b, s, P, r)
  BY <1>2
<1>4. /\ \A o \in Y : o.confirmed \in BOOLEAN
      /\ P = IF opts.repeats = None THEN 1 .. Len(s) ELSE KeptOf(s, opts.repeats)
  BY DEF Founds, PlacesOf
<1> HIDE DEF s, P, Y
<1>5. Len(s) \in Nat /\ DOMAIN s = 1 .. Len(s) /\ \A n \in 1 .. Len(s) : s[n] \in Y
  BY <1>1
<1>6. PICK n \in 1 .. Len(s) : Apart(s[n]) = Apart(Owned(v)) /\ s[n].confirmed = TRUE
  BY <1>1, <1>5 DEF HasConfirmed, ToSet
<1>7. s[n].offset = v.offset /\ s[n].kind = v.kind /\ s[n].name = v.name /\ Key(s[n]) = Key(v)
  BY <1>6 DEF Apart, Owned, Key
<1>8. CASE n \in P
  <2>1. b[n] \in ToSet(r) /\ Same(b[n], s[n])
    BY <1>3, <1>8 DEF Stands
  <2>2. b[n].offset = v.offset /\ b[n].kind = v.kind /\ b[n].name = v.name
    BY <1>7, <2>1 DEF Same
  <2> QED BY <2>1, <2>2 DEF IsShown, KnownOf
<1>9. CASE n \notin P
  <2>1. opts.repeats # None /\ opts.repeats \in Nat \ {0} /\ P = KeptOf(s, opts.repeats)
    BY <1>4, <1>9 DEF IsLimit
  <2> DEFINE S == {m \in P : Key(s[m]) = Key(v) /\ s[m].confirmed = TRUE}
             O == {o \in SameKey(r, Key(v)) : o.confirmed}
  <2>2. Cardinality(S) >= opts.repeats
    <3> DEFINE most == opts.repeats
               key == Key(v)
    <3>1. n \in DOMAIN s /\ n \notin KeptOf(s, most) /\ Key(s[n]) = key /\ s[n].confirmed = TRUE
      BY <1>5, <1>6, <1>7, <1>9, <2>1
    <3>2. most \in Nat \ {0} /\ P = KeptOf(s, most)
      BY <2>1
    <3>3. s \in Seq(Y)
      BY <1>1
    <3>4. \A o \in Y : o.confirmed \in BOOLEAN
      BY <1>4
    <3> HIDE DEF most, key
    <3>5. Cardinality(SureOfKey(s, most, key)) >= most
      BY <3>1, <3>2, <3>3, <3>4, KeptAre
    <3>6. SureOfKey(s, most, key) = {l \in P : Key(s[l]) = key /\ s[l].confirmed = TRUE}
      BY <3>2 DEF SureOfKey
    <3>7. Cardinality({l \in P : Key(s[l]) = key /\ s[l].confirmed = TRUE}) >= most
      BY <3>5, <3>6
    <3> QED BY <3>7 DEF most, key
  <2>3. O = {b[m] : m \in S}
    <3>1. ASSUME NEW o \in O PROVE \E m \in S : b[m] = o
      <4>1. o \in ToSet(r) /\ Key(o) = Key(v) /\ o.confirmed
        BY DEF SameKey
      <4>2. PICK m \in P : b[m] = o
        BY <1>3, <4>1 DEF Stands
      <4>3. Same(o, s[m])
        BY <1>3, <4>2 DEF Stands
      <4>4. s[m].confirmed \in BOOLEAN
        BY <1>2, <1>4, <1>5
      <4>5. Key(s[m]) = Key(v) /\ s[m].confirmed = TRUE
        BY <4>1, <4>3, <4>4 DEF Same, Key
      <4> QED BY <4>2, <4>5
    <3>2. ASSUME NEW m \in S PROVE b[m] \in O
      <4>1. b[m] \in ToSet(r) /\ Same(b[m], s[m])
        BY <1>3 DEF Stands
      <4>2. Key(b[m]) = Key(v) /\ b[m].confirmed = TRUE
        BY <4>1 DEF Same, Key
      <4> QED BY <4>1, <4>2 DEF SameKey
    <3> HIDE DEF O, S
    <3> QED BY <3>1, <3>2
  <2>4. Cardinality({b[m] : m \in S}) = Cardinality(S)
    <3>1. IsFiniteSet(P)
      <4>1. IsFiniteSet(1 .. Len(s))
        <5>1. 1 \in Int /\ Len(s) \in Int
          BY <1>5
        <5> QED BY <5>1, FS_Interval
      <4> QED BY <1>2, <4>1, FS_Subset
    <3>2. P \in SUBSET DOMAIN s /\ S \in SUBSET P
      BY <1>2, <1>5
    <3> HIDE DEF S
    <3> QED BY <1>1, <1>3, <3>1, <3>2, StandsCount
  <2>5. Cardinality(O) >= opts.repeats
    BY <2>2, <2>3, <2>4
  <2> QED BY <2>1, <2>5 DEF IsShown, IsFull
<1> QED BY <1>8, <1>9

\* Of nothing the inventory is sound when there was nothing to find.
LEMMA NothingIsSound ==
    ASSUME NEW file, NEW opts, opts.repeats # None => opts.repeats \in Nat,
           file.boundaries = <<>>, file.regions = <<>>, file.symbols = <<>>
    PROVE  InventoryIsSound(file, opts, <<>>)
<1>1. ToSet(<<>>) = {}
  BY DEF ToSet
<1>2. ToSet(IF file.header = "opj" THEN file.boundaries ELSE file.regions) = {}
  BY <1>1
<1>3. KnownOf(<<>>) = {}
  BY <1>1 DEF KnownOf
<1>4. Cardinality(KnownOf(<<>>)) = Len(<<>>)
  <2>1. Cardinality({}) = 0 /\ Len(<<>>) = 0
    BY FS_EmptySet
  <2> QED BY <1>3, <2>1
<1> QED BY <1>1, <1>2, <1>4 DEF InventoryIsSound, KnownOf

\* What is found of a file that can be looked at is sound.
LEMMA FoundIsSound ==
    ASSUME NEW Value, NEW file, IsDiscoverable(file, Value), NEW opts, IsLimit(opts.repeats),
           NEW r, r = TitledAll(Limited(file, opts))
    PROVE  InventoryIsSound(file, opts, r)
<1> DEFINE s == Discovered(file, opts)
           P == PlacesOf(s, opts.repeats)
           Y == Founds(Value)
<1>1. s \in Seq(Y) /\ Distinct(s)
  BY DiscoveredAre
<1>1a. file.header # None => s # <<>>
  BY DiscoveredAre
<1>2. P \in SUBSET (1 .. Len(s)) /\ Len(r) = Cardinality(P) /\ \E b : Stands(b, s, P, r)
  BY InventoryStands
<1>3. PICK b : Stands(b, s, P, r)
  BY <1>2
<1>4. /\ \A o \in Y : o.confirmed \in BOOLEAN
      /\ P = IF opts.repeats = None THEN 1 .. Len(s) ELSE KeptOf(s, opts.repeats)
  BY DEF Founds, PlacesOf
<1> HIDE DEF s, P, Y
<1>5. Len(s) \in Nat /\ DOMAIN s = 1 .. Len(s) /\ \A n \in 1 .. Len(s) : s[n] \in Y
  BY <1>1
<1>6. P \in SUBSET DOMAIN s /\ IsFiniteSet(P)
  <2>1. IsFiniteSet(1 .. Len(s))
    <3>1. 1 \in Int /\ Len(s) \in Int
      BY <1>5
    <3> QED BY <3>1, FS_Interval
  <2>2. IsFiniteSet(P)
    BY <1>2, <2>1, FS_Subset
  <2> QED BY <1>2, <1>5, <2>2
<1>7. /\ \A n \in P : b[n] \in ToSet(r) /\ Same(b[n], s[n])
      /\ \A o \in ToSet(r) : \E n \in P : b[n] = o
  BY <1>3 DEF Stands
<1>8. Cardinality(KnownOf(r)) = Len(r)
  <2> DEFINE rec(o) == [offset |-> o.offset, kind |-> o.kind, name |-> o.name]
             f == [n \in P |-> rec(b[n])]
  <2>1. \A n, m \in P : f[n] = f[m] => n = m
    <3> SUFFICES ASSUME NEW n \in P, NEW m \in P, rec(b[n]) = rec(b[m]) PROVE n = m
      OBVIOUS
    <3>1. Same(b[n], s[n]) /\ Same(b[m], s[m])
      BY <1>7
    <3>2. /\ rec(b[n]).offset = rec(b[m]).offset /\ rec(b[n]).kind = rec(b[m]).kind
          /\ rec(b[n]).name = rec(b[m]).name
      OBVIOUS
    <3>3. b[n].offset = b[m].offset /\ b[n].kind = b[m].kind /\ b[n].name = b[m].name
      BY <3>2
    <3>4. Apart(s[n]) = Apart(s[m])
      BY <3>1, <3>3 DEF Same, Apart
    <3>5. n \in DOMAIN s /\ m \in DOMAIN s
      BY <1>6
    <3> QED BY <1>1, <3>4, <3>5 DEF Distinct
  <2>2. KnownOf(r) = {f[n] : n \in P}
    <3>1. KnownOf(r) = {rec(o) : o \in ToSet(r)}
      BY DEF KnownOf
    <3>2. \A n \in P : f[n] = rec(b[n]) /\ b[n] \in ToSet(r)
      BY <1>7
    <3> HIDE DEF f, rec
    <3> QED BY <1>7, <3>1, <3>2
  <2>3. f = [n \in P |-> f[n]]
    OBVIOUS
  <2> HIDE DEF f
  <2>4. Cardinality({f[n] : n \in P}) = Cardinality(P)
    BY <1>6, <2>1, <2>3, ImagesAreAsMany
  <2> QED BY <1>2, <2>2, <2>4
<1>9. ASSUME opts.repeats # None, NEW o \in ToSet(r)
      PROVE  Cardinality(SameKey(r, Key(o))) <= opts.repeats
  <2>1. opts.repeats \in Nat \ {0} /\ P = KeptOf(s, opts.repeats)
    BY <1>4, <1>9 DEF IsLimit
  <2> DEFINE S == {m \in P : Key(s[m]) = Key(o)}
  <2>2. Cardinality({n \in KeptOf(s, opts.repeats) : Key(s[n]) = Key(o)}) <= opts.repeats
    <3>1. Cardinality(KeptOfKey(s, opts.repeats, Key(o))) <= opts.repeats
      BY <1>1, <1>4, <2>1, KeptAre
    <3> QED BY <3>1 DEF KeptOfKey
  <2>3. SameKey(r, Key(o)) = {b[m] : m \in S}
    <3>1. ASSUME NEW p \in SameKey(r, Key(o)) PROVE \E m \in S : b[m] = p
      <4>1. p \in ToSet(r) /\ Key(p) = Key(o)
        BY DEF SameKey
      <4>2. PICK m \in P : b[m] = p
        BY <1>7, <4>1
      <4>3. Key(s[m]) = Key(o)
        BY <1>7, <4>1, <4>2 DEF Same, Key
      <4> QED BY <4>2, <4>3
    <3>2. ASSUME NEW m \in S PROVE b[m] \in SameKey(r, Key(o))
      <4>1. b[m] \in ToSet(r) /\ Same(b[m], s[m])
        BY <1>7
      <4>2. Key(b[m]) = Key(o)
        BY <4>1 DEF Same, Key
      <4> QED BY <4>1, <4>2 DEF SameKey
    <3> HIDE DEF S
    <3> QED BY <3>1, <3>2
  <2>4. Cardinality({b[m] : m \in S}) = Cardinality(S)
    <3>1. S \in SUBSET P
      OBVIOUS
    <3> HIDE DEF S
    <3> QED BY <1>1, <1>3, <1>6, <3>1, StandsCount
  <2>5. Cardinality(S) <= opts.repeats
    BY <2>1, <2>2
  <2> HIDE DEF S
  <2> QED BY <2>3, <2>4, <2>5
<1>10. ASSUME file.streamed = FALSE,
              NEW v \in ToSet(IF file.header = "opj" THEN file.boundaries ELSE file.regions)
       PROVE  \/ IsShown(opts, r, v)
              \/ \E w \in ToSet(file.boundaries) :
                    /\ w # v /\ IsShown(opts, r, w) /\ SemanticName(w) = SemanticName(v)
                    /\ w.kind \in {v.kind, IF v.kind = "worksheet" THEN "excel" ELSE v.kind}
  <2>1. \A w : Owned(w) \in ToSet(ParserObjects(file)) => IsShown(opts, r, w)
    BY <1>10, OwnedIsShown
  <2>2. CASE file.header # "opj"
    <3>1. v \in ToSet(file.regions)
      BY <2>2
    <3>2. Owned(v) \in ToSet(ParserObjects(file))
      BY <1>10, <3>1, ParserObjectsAre
    <3> QED BY <2>1, <3>2
  <2>3. CASE file.header = "opj" /\ ~YieldsToWindow(file.boundaries, v)
    <3>1. Owned(v) \in ToSet(ParserObjects(file))
      BY <2>3, ParserObjectsAre
    <3> QED BY <2>1, <3>1
  <2>4. CASE file.header = "opj" /\ YieldsToWindow(file.boundaries, v)
    <3>1. PICK w \in ToSet(file.boundaries) :
              /\ w # v /\ ~YieldsToWindow(file.boundaries, w) /\ SemanticName(w) = SemanticName(v)
              /\ w.kind \in {v.kind, IF v.kind = "worksheet" THEN "excel" ELSE v.kind}
      BY <2>4, YieldsToAnother
    <3>2. Owned(w) \in ToSet(ParserObjects(file))
      BY <2>4, <3>1, ParserObjectsAre
    <3>3. IsShown(opts, r, w)
      BY <2>1, <3>2
    <3> QED BY <3>1, <3>3
  <2> QED BY <2>2, <2>3, <2>4
<1>11. ASSUME file.header # None PROVE r # <<>>
  <2>1. P # {}
    <3>1. s # <<>>
      BY <1>1a, <1>11
    <3>2. CASE opts.repeats = None
      <4>1. 1 \in 1 .. Len(s)
        BY <1>1, <1>5, <3>1
      <4> QED BY <1>4, <3>2, <4>1
    <3>3. CASE opts.repeats # None
      <4>1. opts.repeats \in Nat \ {0}
        BY <3>3 DEF IsLimit
      <4> QED BY <1>1, <1>4, <3>1, <3>3, <4>1, SomethingIsKept
    <3> QED BY <3>2, <3>3
  <2>2. PICK n \in P : b[n] \in ToSet(r)
    BY <1>7, <2>1
  <2>3. ToSet(<<>>) = {}
    BY DEF ToSet
  <2> QED BY <2>2, <2>3
<1>12. file.streamed \in BOOLEAN
  BY DEF IsDiscoverable
<1> DEFINE known == KnownOf(r)
           of(key) == SameKey(r, key)
           full(key) == opts.repeats # None
                        /\ Cardinality({o \in of(key) : o.confirmed}) >= opts.repeats
           shown(v) == \/ [offset |-> v.offset, kind |-> v.kind, name |-> v.name] \in known
                       \/ full(Key(v))
<1>13. \A v : shown(v) <=> IsShown(opts, r, v)
  BY DEF IsShown, IsFull
<1>14. InventoryIsSound(file, opts, r)
         <=> /\ Cardinality(known) = Len(r)
             /\ opts.repeats # None =>
                   \A o \in ToSet(r) : Cardinality(of(Key(o))) <= opts.repeats
             /\ ~file.streamed =>
                   \A v \in ToSet(IF file.header = "opj" THEN file.boundaries ELSE file.regions) :
                      \/ shown(v)
                      \/ \E w \in ToSet(file.boundaries) :
                            /\ w # v /\ shown(w) /\ SemanticName(w) = SemanticName(v)
                            /\ w.kind \in {v.kind, IF v.kind = "worksheet" THEN "excel" ELSE v.kind}
             /\ file.header # None /\ file.symbols # <<>> => r # <<>>
  BY DEF InventoryIsSound, KnownOf, SameKey
<1> HIDE DEF known, of, shown
<1>15. Cardinality(known) = Len(r)
  BY <1>8 DEF known
<1>16. opts.repeats # None => \A o \in ToSet(r) : Cardinality(of(Key(o))) <= opts.repeats
  BY <1>9 DEF of
<1>17. ~file.streamed =>
          \A v \in ToSet(IF file.header = "opj" THEN file.boundaries ELSE file.regions) :
             \/ shown(v)
             \/ \E w \in ToSet(file.boundaries) :
                   /\ w # v /\ shown(w) /\ SemanticName(w) = SemanticName(v)
                   /\ w.kind \in {v.kind, IF v.kind = "worksheet" THEN "excel" ELSE v.kind}
  BY <1>10, <1>12, <1>13
<1> QED BY <1>11, <1>14, <1>15, <1>16, <1>17

------------------------------------------------------------------------------
(* The choices for one family of tables.                                   *)

\* The objects that are confirmed or of another kind.
LEMMA WithoutGuessesAre ==
    ASSUME NEW Y, NEW objects \in Seq(Y), NEW kinds
    PROVE  ToSet(WithoutGuessesOf(objects, kinds))
              = {o \in ToSet(objects) : o.confirmed \/ o.kind \notin kinds}
<1> DEFINE P == {n \in DOMAIN objects : objects[n].confirmed \/ objects[n].kind \notin kinds}
<1>1. WithoutGuessesOf(objects, kinds) = Picked(objects, P)
  BY DEF WithoutGuessesOf, Those
<1>2. P \in SUBSET (1 .. Len(objects))
  OBVIOUS
<1>3. ToSet(Picked(objects, P)) = {objects[n] : n \in P}
  <2> HIDE DEF P
  <2> QED BY <1>2, PickedAre
<1>4. {objects[n] : n \in P} = {o \in ToSet(objects) : o.confirmed \/ o.kind \notin kinds}
  BY DEF ToSet
<1> QED BY <1>1, <1>3, <1>4

\* The parser's matrices of an inventory, the sheets of a book and the books among them.
MatricesOf(objects) == {o \in ToSet(objects) : o.kind = "matrix" /\ o.confirmed}
SheetsOf(matrices) ==
    {m \in matrices : /\ m.path[2] = 1 /\ Len(m.path[1]) >= 2
                      /\ m.path[1][Len(m.path[1])] = m.name
                      /\ m.path[1][Len(m.path[1]) - 1] # m.name}
BooksOf(matrices) == {m.path[1][Len(m.path[1]) - 1] : m \in SheetsOf(matrices)}

\* The objects that are no matrix, and the parser's matrices that are no book.
LEMMA CoalescedAre ==
    ASSUME NEW Y, NEW objects \in Seq(Y)
    PROVE  ToSet(Coalesce(objects))
              = IF MatricesOf(objects) = {} THEN ToSet(objects)
                ELSE {o \in ToSet(objects) :
                         \/ o.kind # "matrix"
                         \/ o.confirmed /\ o.name \notin BooksOf(MatricesOf(objects))}
<1> DEFINE matrices == MatricesOf(objects)
           books == BooksOf(matrices)
           stays(o) == o.kind # "matrix" \/ (o.confirmed /\ o.name \notin books)
           P == {n \in DOMAIN objects : stays(objects[n])}
<1>1. Coalesce(objects) = IF matrices = {} THEN objects ELSE Picked(objects, P)
  BY DEF Coalesce, Those, MatricesOf, BooksOf, SheetsOf
<1> HIDE DEF matrices, books
<1>2. P \in SUBSET (1 .. Len(objects))
  OBVIOUS
<1>3. ToSet(Picked(objects, P)) = {objects[n] : n \in P}
  <2> HIDE DEF P
  <2> QED BY <1>2, PickedAre
<1>4. {objects[n] : n \in P} = {o \in ToSet(objects) : stays(o)}
  BY DEF ToSet
<1>5. ToSet(Coalesce(objects)) = IF matrices = {} THEN ToSet(objects) ELSE {o \in ToSet(objects) : stays(o)}
  <2> HIDE DEF P, stays
  <2> QED BY <1>1, <1>3, <1>4
<1> QED BY <1>5 DEF matrices, books

\* The choices keep what the parser found, but for the books of its matrix sheets.
LEMMA ChoicesKeep ==
    ASSUME NEW Y, NEW objects \in Seq(Y), NEW file, file.type \in {"opj", "opju"}
    PROVE  TabularKeepsTheParsers(file, objects)
<1> DEFINE owned(kind) == {o \in ToSet(objects) : o.kind = kind /\ o.confirmed}
           books(kind) == {o \in owned(kind) : \E m \in owned(kind) :
                              /\ m # o /\ Len(m.path[1]) >= 2
                              /\ m.path[1][Len(m.path[1]) - 1] = o.name}
           keeps(kind, chosen) ==
               /\ chosen \subseteq ToSet(objects)
               /\ owned(kind) \ books(kind) \subseteq chosen
               /\ kind = "matrix" /\ owned(kind) # {} => \A o \in chosen : o.kind = kind => o.confirmed
<1>1. ASSUME NEW kinds, NEW kind, kind = "matrix" => kind \in kinds
      PROVE  keeps(kind, ToSet(WithoutGuessesOf(objects, kinds)))
  <2>1. ToSet(WithoutGuessesOf(objects, kinds))
           = {o \in ToSet(objects) : o.confirmed \/ o.kind \notin kinds}
    BY WithoutGuessesAre
  <2> QED BY <1>1, <2>1
<1>2. keeps("matrix", ToSet(Coalesce(objects)))
  <2> DEFINE named == BooksOf(MatricesOf(objects))
  <2>1. ToSet(Coalesce(objects))
           = IF MatricesOf(objects) = {} THEN ToSet(objects)
             ELSE {o \in ToSet(objects) : o.kind # "matrix" \/ (o.confirmed /\ o.name \notin named)}
    BY CoalescedAre
  <2>2. MatricesOf(objects) = owned("matrix")
    BY DEF MatricesOf
  <2>3. ASSUME NEW o \in owned("matrix"), o.name \in named PROVE o \in books("matrix")
    <3>1. PICK m \in SheetsOf(owned("matrix")) : m.path[1][Len(m.path[1]) - 1] = o.name
      BY <2>2, <2>3 DEF BooksOf
    <3>2. /\ m \in owned("matrix") /\ Len(m.path[1]) >= 2
          /\ m.path[1][Len(m.path[1]) - 1] # m.name
      BY DEF SheetsOf
    <3>3. m # o
      BY <3>1, <3>2
    <3> QED BY <2>3, <3>1, <3>2, <3>3
  <2> HIDE DEF named, books
  <2> QED BY <2>1, <2>2, <2>3
<1>3. \A kind : kind # "matrix" => keeps(kind, ToSet(objects))
  OBVIOUS
<1>4. ASSUME NEW kind \in {"worksheet", "matrix", "excel"}
      PROVE  keeps(kind, ToSet(TabularObjects(file, objects, kind)))
  <2> DEFINE guessed == \E o \in ToSet(objects) : o.kind = "worksheet" /\ o.confirmed
  <2> HIDE DEF keeps, guessed
  <2>0. TabularObjects(file, objects, kind)
           = IF kind = "worksheet" /\ file.type = "opj" /\ guessed
             THEN WithoutGuessesOf(objects, {"worksheet"})
             ELSE IF kind = "matrix" /\ file.type = "opj" THEN Coalesce(objects)
             ELSE IF file.type = "opju" /\ kind # "worksheet"
             THEN WithoutGuessesOf(objects, ParserRequiredKinds \ {"graph"})
             ELSE objects
    BY DEF TabularObjects, guessed
  <2>1. CASE kind = "worksheet"
    <3>1. keeps(kind, ToSet(WithoutGuessesOf(objects, {"worksheet"})))
      BY <1>1, <2>1
    <3>2. keeps(kind, ToSet(objects))
      BY <1>3, <2>1
    <3> QED BY <2>0, <2>1, <3>1, <3>2
  <2>2. CASE kind = "matrix"
    <3>1. keeps(kind, ToSet(WithoutGuessesOf(objects, ParserRequiredKinds \ {"graph"})))
      BY <1>1, <2>2 DEF ParserRequiredKinds
    <3> QED BY <1>2, <2>0, <2>2, <3>1
  <2>3. CASE kind = "excel"
    <3>1. keeps(kind, ToSet(WithoutGuessesOf(objects, ParserRequiredKinds \ {"graph"})))
      BY <1>1, <2>3
    <3>2. keeps(kind, ToSet(objects))
      BY <1>3, <2>3
    <3> QED BY <2>0, <2>3, <3>1, <3>2
  <2> QED BY <2>1, <2>2, <2>3
<1>5. TabularKeepsTheParsers(file, objects)
         = \A kind \in {"worksheet", "matrix", "excel"} :
              keeps(kind, ToSet(TabularObjects(file, objects, kind)))
  BY DEF TabularKeepsTheParsers
<1> HIDE DEF keeps
<1> QED BY <1>4, <1>5

\* Discovery loses nothing the parser found, whatever it found and whatever the bytes are,
\* and respects its limits; the choices for a family of tables keep the parser's objects.
THEOREM NothingIsLost ==
    ASSUME NEW Value, NEW file, IsDiscoverable(file, Value), NEW opts, IsLimit(opts.repeats),
           subject = [of |-> "inventory", file |-> file, opts |-> opts]
    PROVE  NothingParsedIsLost
<1> DEFINE r == Objects(file, opts)
<1>1. InventoryIsSound(file, opts, r) /\ \E Y : r \in Seq(Y)
  <2>1. CASE file.symbols = <<>> /\ ~file.streamed
    <3>1. r = <<>>
      BY <2>1, ObjectsAreSteps
    <3>2. file.boundaries = <<>> /\ file.regions = <<>>
      BY <2>1 DEF IsDiscoverable
    <3>3. opts.repeats # None => opts.repeats \in Nat
      BY DEF IsLimit
    <3>4. InventoryIsSound(file, opts, <<>>)
      BY <2>1, <3>2, <3>3, NothingIsSound
    <3>5. <<>> \in Seq({})
      OBVIOUS
    <3> HIDE DEF r
    <3> QED BY <3>1, <3>4, <3>5
  <2>2. CASE ~(file.symbols = <<>> /\ ~file.streamed)
    <3>1. r = TitledAll(Limited(file, opts))
      BY <2>2, ObjectsAreSteps
    <3> HIDE DEF r
    <3>2. InventoryIsSound(file, opts, r)
      BY <3>1, FoundIsSound
    <3>3. r \in Seq(ToSet(r))
      BY <3>1, InventoryStands
    <3> QED BY <3>2, <3>3
  <2> QED BY <2>1, <2>2
<1>2. file.type \in {"opj", "opju"}
  BY DEF IsDiscoverable
<1>3. TabularKeepsTheParsers(file, r)
  <2> HIDE DEF r
  <2> QED BY <1>1, <1>2, ChoicesKeep
<1>4. subject.file = file /\ subject.opts = opts
  OBVIOUS
<1> QED BY <1>1, <1>3, <1>4 DEF NothingParsedIsLost

------------------------------------------------------------------------------
(* The list and what get makes of an item of it.                           *)

\* A file the list can be made of.
IsListable(file, Value) ==
    /\ IsDiscoverable(file, Value)
    /\ file.images \in Seq(Block)
    /\ \E T : file.tables \in Seq(T)

EveryObject(file) == Objects(file, AllObjects)

\* No two objects of the inventory have a path in common.
LEMMA PathsAreUnique ==
    ASSUME NEW Value, NEW file, IsDiscoverable(file, Value), NEW r, r = EveryObject(file)
    PROVE  /\ r \in Seq(ToSet(r)) /\ AreObjects(ToSet(r))
           /\ \A n, m \in DOMAIN r : r[n].path = r[m].path => n = m
<1> DEFINE q == Limited(file, AllObjects)
           all == TitledAll(q)
<1>1. r = IF file.symbols = <<>> /\ ~file.streamed THEN <<>> ELSE all
  BY ObjectsAreSteps DEF EveryObject
<1>2. CASE file.symbols = <<>> /\ ~file.streamed
  <2>1. r = <<>> /\ ToSet(<<>>) = {}
    BY <1>1, <1>2 DEF ToSet
  <2> HIDE DEF EveryObject
  <2> QED BY <2>1 DEF AreObjects
<1>3. CASE ~(file.symbols = <<>> /\ ~file.streamed)
  <2>1. r = TitledAll(Limited(file, AllObjects))
    BY <1>1, <1>3
  <2>2. IsLimit(AllObjects.repeats)
    BY DEF IsLimit, AllObjects
  <2>3. q \in Seq(Founds(Value)) /\ r \in Seq(ToSet(r))
    BY <2>1, <2>2, InventoryStands
  <2> HIDE DEF q
  <2>4. DOMAIN q = 1 .. Len(q) /\ Len(q) \in Nat /\ \A n \in 1 .. Len(q) : q[n] \in Founds(Value)
    BY <2>3
  <2>5. r = [n \in 1 .. Len(q) |-> Titled(q[n], UniquePaths(PathsOf(q))[n])]
    BY <2>1, <2>4 DEF TitledAll, q
  <2>6. \A n \in 1 .. Len(q) : Same(r[n], q[n]) /\ r[n].path = UniquePaths(PathsOf(q))[n]
    <3> SUFFICES ASSUME NEW n \in 1 .. Len(q)
                 PROVE  Same(r[n], q[n]) /\ r[n].path = UniquePaths(PathsOf(q))[n]
      OBVIOUS
    <3>1. r[n] = Titled(q[n], UniquePaths(PathsOf(q))[n])
      BY <2>5
    <3> QED BY <3>1, TitledIsSame
  <2>7. DOMAIN r = 1 .. Len(q)
    BY <2>5
  <2>8. AreObjects(ToSet(r))
    <3> SUFFICES ASSUME NEW n \in 1 .. Len(q) PROVE r[n].offset \in Int /\ r[n].length \in Int
      BY <2>7 DEF AreObjects, ToSet
    <3>1. q[n].offset \in Int /\ q[n].length \in Int
      BY <2>4 DEF Founds
    <3> QED BY <2>6, <3>1 DEF Same
  <2>9. ASSUME NEW n \in 1 .. Len(q), NEW m \in 1 .. Len(q), n < m
        PROVE  r[n].path # r[m].path
    <3> DEFINE paths == PathsOf(q)
               before(k) == {l \in 1 .. k : paths[l] = paths[k]}
    <3>1. DOMAIN paths = 1 .. Len(q)
      BY <2>4 DEF PathsOf
    <3> HIDE DEF paths
    <3>2. \A k \in 1 .. Len(q) : r[k].path = <<paths[k], Cardinality(before(k))>>
      <4> SUFFICES ASSUME NEW k \in 1 .. Len(q)
                   PROVE  r[k].path = <<paths[k], Cardinality(before(k))>>
        OBVIOUS
      <4>1. UniquePaths(paths)[k] = <<paths[k], Cardinality(before(k))>>
        BY <3>1 DEF UniquePaths
      <4> QED BY <2>6, <4>1 DEF paths
    <3> SUFFICES ASSUME r[n].path = r[m].path PROVE FALSE
      OBVIOUS
    <3>3. paths[n] = paths[m] /\ Cardinality(before(n)) = Cardinality(before(m))
      <4> HIDE DEF before
      <4> QED BY <3>2
    <3>4. n \in Nat /\ m \in Nat /\ 1 <= n
      BY <2>4
    <3>5. before(n) \subseteq before(m) \ {m} /\ m \in before(m)
      BY <2>9, <3>3, <3>4
    <3>6. IsFiniteSet(before(m))
      <4>1. IsFiniteSet(1 .. m)
        <5>1. 1 \in Int /\ m \in Int
          BY <3>4
        <5> QED BY <5>1, FS_Interval
      <4>2. before(m) \subseteq 1 .. m
        OBVIOUS
      <4> HIDE DEF before
      <4> QED BY <4>1, <4>2, FS_Subset
    <3> HIDE DEF before
    <3>7. before(n) \subseteq before(m) /\ before(n) # before(m)
      BY <3>5
    <3>8. Cardinality(before(n)) < Cardinality(before(m))
      <4>1. Cardinality(before(n)) <= Cardinality(before(m))
            /\ (Cardinality(before(n)) = Cardinality(before(m)) => before(n) = before(m))
            /\ Cardinality(before(n)) \in Nat /\ Cardinality(before(m)) \in Nat
        BY <3>6, <3>7, FS_Subset, FS_CardinalityType
      <4> QED BY <3>7, <4>1
    <3>9. Cardinality(before(m)) \in Nat
      BY <3>6, FS_CardinalityType
    <3> QED BY <3>3, <3>8, <3>9
  <2>10. \A n, m \in DOMAIN r : r[n].path = r[m].path => n = m
    <3> SUFFICES ASSUME NEW n \in 1 .. Len(q), NEW m \in 1 .. Len(q), r[n].path = r[m].path
                 PROVE  n = m
      BY <2>7
    <3>1. n \in Int /\ m \in Int
      BY <2>4
    <3> QED BY <2>9, <3>1
  <2> QED BY <2>3, <2>8, <2>10
<1> QED BY <1>2, <1>3

\* The object get takes for an item is the one it was made of.
LEMMA TargetIsTheObject ==
    ASSUME NEW r, r \in Seq(ToSet(r)), \A n, m \in DOMAIN r : r[n].path = r[m].path => n = m,
           NEW o \in ToSet(r), NEW item,
           item.id[1][4] = o.name, item.id[1][5] = o.path, item.id[1][6] = o.offset,
           item.id[1][7] = o.length
    PROVE  Target(r, item) = o
<1> DEFINE about(x) == /\ x.name = item.id[1][4]
                       /\ x.offset = item.id[1][6]
                       /\ x.length = item.id[1][7]
                       /\ x.path = item.id[1][5]
           P == {n \in DOMAIN r : about(r[n])}
           found == Picked(r, P)
<1>1. Target(r, item) = IF found = <<>> THEN None ELSE found[1]
  BY DEF Target, Those
<1>2. PICK k \in DOMAIN r : r[k] = o
  BY DEF ToSet
<1>3. k \in P /\ \A n \in P : n = k
  BY <1>2
<1>4. P \in SUBSET (1 .. Len(r))
  OBVIOUS
<1> HIDE DEF P
<1>5. found \in Seq(ToSet(r)) /\ ToSet(found) = {r[n] : n \in P} /\ DOMAIN found = 1 .. Len(found)
      /\ Len(found) \in Nat
  BY <1>4, PickedAre
<1> HIDE DEF found
<1>6. ToSet(found) = {o}
  BY <1>2, <1>3, <1>5
<1>7. found # <<>>
  <2>1. ToSet(<<>>) = {}
    BY DEF ToSet
  <2> QED BY <1>6, <2>1
<1>8. 1 \in DOMAIN found
  BY <1>5, <1>7
<1>9. found[1] = o
  BY <1>6, <1>8 DEF ToSet
<1> QED BY <1>1, <1>7, <1>9

\* A window is that of an object.
LEMMA WindowsAreOfObjects ==
    ASSUME NEW Y, AreObjects(Y), NEW objects \in Seq(Y), NEW size \in Nat, NEW windows,
           windows = Windows(objects, size, FALSE)
    PROVE  \A n \in DOMAIN windows : windows[n].object \in ToSet(objects)
<1> DEFINE ordered == ByOffset(objects)
           N == Len(ordered)
           start(o) == AtLeast(o.offset, 0)
           own(n, o) == IF o.confirmed /\ o.length > 0 THEN AtMost(o.offset + o.length, size)
                        ELSE IF n < N THEN ordered[n + 1].offset
                        ELSE start(o)
           end(n, o) == AtLeast(own(n, o), start(o))
           window(n) == [object |-> ordered[n], start |-> start(ordered[n]),
                         end |-> IF n = N /\ end(n, ordered[n]) = start(ordered[n]) THEN size
                                 ELSE end(n, ordered[n])]
<1>1. ordered \in Seq(Y) /\ ToSet(ordered) = ToSet(objects)
  BY ObjectsAreSorted DEF AreObjects
<1>2. windows = [n \in DOMAIN ordered |-> window(n)]
  BY DEF Windows
<1>5. \A n : window(n).object = ordered[n]
  OBVIOUS
<1> HIDE DEF ordered, window
<1>3. \A n \in DOMAIN ordered : ordered[n] \in ToSet(ordered)
  BY DEF ToSet
<1>4. DOMAIN windows = DOMAIN ordered /\ \A n \in DOMAIN ordered : windows[n].object = ordered[n]
  BY <1>2, <1>5
<1> QED BY <1>1, <1>3, <1>4

\* Without a limit the list takes its objects from the whole inventory.
LEMMA ListedAreOfTheInventory ==
    ASSUME NEW Value, NEW file, IsDiscoverable(file, Value), NEW listed,
           listed = ListedObjects(file, None)
    PROVE  listed \in Seq(ToSet(EveryObject(file))) /\ ToSet(listed) \subseteq ToSet(EveryObject(file))
<1> DEFINE r == Objects(file, [AllObjects EXCEPT !.perKind = None])
           owned == {o.kind : o \in {p \in ToSet(r) : p.confirmed}} \ {None}
           kinds == ParserRequiredKinds \cup owned
           P == {n \in DOMAIN r : r[n].confirmed \/ r[n].kind \notin kinds}
<1>1. r = EveryObject(file)
  <2>1. [AllObjects EXCEPT !.perKind = None] = AllObjects
    <3> DEFINE f == AllObjects
    <3>1. f.perKind = None /\ DOMAIN f = {"repeats", "perKind", "collect"}
      BY DEF AllObjects
    <3>2. f = [x \in DOMAIN f |-> f[x]]
      BY DEF AllObjects
    <3> HIDE DEF f
    <3>3. [f EXCEPT !.perKind = None] = [x \in DOMAIN f |-> IF x = "perKind" THEN None ELSE f[x]]
      BY <3>1, <3>2
    <3>4. \A x \in DOMAIN f : (IF x = "perKind" THEN None ELSE f[x]) = f[x]
      BY <3>1
    <3>5. [f EXCEPT !.perKind = None] = f
      BY <3>2, <3>3, <3>4
    <3> QED BY <3>5 DEF f
  <2> QED BY <2>1 DEF EveryObject
<1>2. listed = IF file.type = "opju" THEN Picked(r, P) ELSE r
  BY DEF ListedObjects, WithoutGuessesOf, Those
<1>3. r \in Seq(ToSet(r))
  <2> HIDE DEF r
  <2> QED BY <1>1, PathsAreUnique
<1>4. P \in SUBSET (1 .. Len(r))
  BY <1>3
<1> HIDE DEF r, P
<1>5. Picked(r, P) \in Seq(ToSet(r))
  BY <1>3, <1>4, PickedAre
<1>6. listed \in Seq(ToSet(r))
  BY <1>2, <1>3, <1>5
<1>7. ToSet(listed) \subseteq ToSet(r)
  BY <1>6 DEF ToSet
<1> QED BY <1>1, <1>6, <1>7

\* What an item is made of.
IsEntry(x) == x = [id |-> x.id, heuristic |-> x.heuristic, discovery |-> x.discovery]
IsOf(x, objects) ==
    \E o \in objects : /\ x.id[3] = o.kind /\ x.id[4] = o.name /\ x.id[5] = o.path
                       /\ x.id[6] = o.offset /\ x.id[7] = o.length
AreListed(items, objects) ==
    /\ items \in Seq(ToSet(items))
    /\ \A x \in ToSet(items) : IsEntry(x) /\ (x.discovery \in OfObjects => IsOf(x, objects))

\* An item is an entry with the parts it is made of.
LEMMA ItemIsEntry ==
    ASSUME NEW d, NEW k, NEW ok, NEW name, NEW path, NEW offset, NEW length, NEW window, NEW h, NEW x,
           x = Item(d, k, ok, name, path, offset, length, window, h)
    PROVE  /\ IsEntry(x) /\ x.discovery = d
           /\ x.id[3] = ok /\ x.id[4] = name /\ x.id[5] = path /\ x.id[6] = offset /\ x.id[7] = length
BY DEF Item, IsEntry

\* A function of numbers is a sequence of what it yields.
LEMMA NumberedIsSeq ==
    ASSUME NEW N \in Nat, NEW t, t = [n \in 1 .. N |-> t[n]]
    PROVE  t \in Seq(ToSet(t)) /\ ToSet(t) = {t[n] : n \in 1 .. N}
<1> DEFINE T == {t[n] : n \in 1 .. N}
<1>1. t \in [1 .. N -> T]
  OBVIOUS
<1>2. ToSet(t) = T
  BY DEF ToSet
<1> HIDE DEF T
<1>3. t \in Seq(T)
  BY <1>1, TupleIsSeq
<1> QED BY <1>2, <1>3 DEF T

\* Lists of items can be put together.
LEMMA ListsJoin ==
    ASSUME NEW objects, NEW s, AreListed(s, objects), NEW t, AreListed(t, objects)
    PROVE  AreListed(s \o t, objects)
<1> DEFINE Y == ToSet(s) \cup ToSet(t)
<1>1. s \in Seq(Y) /\ t \in Seq(Y)
  <2>1. s \in Seq(ToSet(s)) /\ t \in Seq(ToSet(t))
    BY DEF AreListed
  <2> QED BY <2>1
<1> HIDE DEF Y
<1>2. s \o t \in Seq(Y) /\ ToSet(s \o t) = ToSet(s) \cup ToSet(t)
  BY <1>1, ConcatenatedAre
<1>3. s \o t \in Seq(ToSet(s \o t))
  BY <1>2 DEF Y
<1>4. \A x \in ToSet(s \o t) : IsEntry(x) /\ (x.discovery \in OfObjects => IsOf(x, objects))
  BY <1>2 DEF AreListed
<1> QED BY <1>3, <1>4 DEF AreListed

\* What has nothing is a list.
LEMMA NothingIsListed ==
    ASSUME NEW objects PROVE AreListed(<<>>, objects)
<1>1. ToSet(<<>>) = {}
  BY DEF ToSet
<1> QED BY <1>1 DEF AreListed

\* The parts of the list that is not limited.
ImageItems(file) ==
    [n \in DOMAIN file.images |->
        Item("carved", "png", None, None, None, file.images[n][1], file.images[n][2], None, TRUE)]
WindowsOf(file) == Windows(ListedObjects(file, None), Len(file.symbols), FALSE)
ObjectItems(file) == [n \in DOMAIN WindowsOf(file) |-> ObjectItem(file, WindowsOf(file)[n])]
TableItems(file) ==
    [n \in DOMAIN file.tables |->
        Item("opju_column_descriptor_table", "worksheet", "worksheet", file.tables[n][1],
             <<file.tables[n][1]>>, file.tables[n][2], file.tables[n][3] - file.tables[n][2],
             <<file.tables[n][2], file.tables[n][3]>>, FALSE)]
Known(file) ==
    ImageItems(file) \o ObjectItems(file) \o (IF file.type = "opju" THEN TableItems(file) ELSE <<>>)
Gaps(file) == GapItems(file, ListedObjects(file, None))

\* The list is made of them.
LEMMA ListIsItsParts ==
    ASSUME NEW file, NEW gaps
    PROVE  ListItems(file, [images |-> TRUE, gaps |-> gaps, perKind |-> None])
              = Known(file) \o (IF gaps THEN Gaps(file) ELSE <<>>)
BY DEF ListItems, Known, Gaps, ImageItems, ObjectItems, TableItems, WindowsOf, Each, If

\* A part of the list whose items are entries is a list.
LEMMA PartIsListed ==
    ASSUME NEW objects, NEW N \in Nat, NEW t, t = [n \in 1 .. N |-> t[n]],
           \A n \in 1 .. N : IsEntry(t[n]) /\ (t[n].discovery \in OfObjects => IsOf(t[n], objects))
    PROVE  AreListed(t, objects)
<1>1. t \in Seq(ToSet(t)) /\ ToSet(t) = {t[n] : n \in 1 .. N}
  BY NumberedIsSeq
<1> QED BY <1>1 DEF AreListed

\* The images and the tables are entries, and so are the objects, each that of its window.
LEMMA KnownIsListed ==
    ASSUME NEW Value, NEW file, IsListable(file, Value)
    PROVE  AreListed(Known(file), ToSet(EveryObject(file)))
<1> DEFINE objects == ToSet(EveryObject(file))
           listed == ListedObjects(file, None)
           windows == WindowsOf(file)
<1>1. IsDiscoverable(file, Value) /\ file.images \in Seq(Block) /\ Len(file.symbols) \in Nat
  BY DEF IsListable, IsDiscoverable
<1>2. listed \in Seq(objects) /\ ToSet(listed) \subseteq objects /\ AreObjects(objects)
  BY <1>1, ListedAreOfTheInventory, PathsAreUnique
<1>3. windows = Windows(listed, Len(file.symbols), FALSE)
  BY DEF WindowsOf
<1> HIDE DEF objects, listed, windows
<1>4. AreListed(ImageItems(file), objects)
  <2> DEFINE N == Len(file.images)
             t == ImageItems(file)
  <2>1. N \in Nat /\ DOMAIN file.images = 1 .. N
    BY <1>1
  <2>2. /\ t = [n \in 1 .. N |-> t[n]]
        /\ \A n \in 1 .. N : t[n] = Item("carved", "png", None, None, None, file.images[n][1],
                                         file.images[n][2], None, TRUE)
    BY <2>1 DEF ImageItems
  <2>3. \A n \in 1 .. N : IsEntry(t[n]) /\ t[n].discovery = "carved"
    <3> HIDE DEF t, N
    <3> SUFFICES ASSUME NEW n \in 1 .. N PROVE IsEntry(t[n]) /\ t[n].discovery = "carved"
      OBVIOUS
    <3>1. t[n] = Item("carved", "png", None, None, None, file.images[n][1], file.images[n][2],
                      None, TRUE)
      BY <2>2
    <3> QED BY <3>1 DEF Item, IsEntry
  <2>4. "carved" \notin OfObjects
    BY DEF OfObjects
  <2> HIDE DEF t, N
  <2>5. AreListed(t, objects)
    BY <2>1, <2>2, <2>3, <2>4, PartIsListed
  <2> QED BY <2>5 DEF t
<1>5. AreListed(ObjectItems(file), objects)
  <2> DEFINE t == ObjectItems(file)
  <2>1. PICK N \in Nat : DOMAIN windows = 1 .. N
    BY <1>1, <1>2, <1>3, WindowsAre
  <2>2. \A n \in 1 .. N : windows[n].object \in objects
    <3>1. \A n \in DOMAIN windows : windows[n].object \in ToSet(listed)
      BY <1>1, <1>2, <1>3, WindowsAreOfObjects
    <3> QED BY <1>2, <2>1, <3>1
  <2>3. t = [n \in 1 .. N |-> t[n]] /\ \A n \in 1 .. N : t[n] = ObjectItem(file, windows[n])
    BY <2>1 DEF ObjectItems, windows
  <2>4. ASSUME NEW n \in 1 .. N PROVE IsEntry(t[n]) /\ IsOf(t[n], objects)
    <3> DEFINE w == windows[n]
               o == w.object
               d == IF o.confirmed /\ ~o.plain THEN "opj_boundary" ELSE "object_discovery"
    <3>1. t[n] = Item(d, ListKind(file, o), o.kind, o.name, o.path, o.offset, o.length,
                      <<w.start, w.end>>, o.signal # None)
      BY <2>3 DEF ObjectItem
    <3> HIDE DEF t, w, d
    <3>2. /\ IsEntry(t[n])
          /\ t[n].id[3] = o.kind /\ t[n].id[4] = o.name /\ t[n].id[5] = o.path
          /\ t[n].id[6] = o.offset /\ t[n].id[7] = o.length
      BY <3>1, ItemIsEntry
    <3>3. o \in objects
      BY <2>2 DEF w
    <3> HIDE DEF o
    <3> QED BY <3>2, <3>3 DEF IsOf
  <2> HIDE DEF t
  <2>5. AreListed(t, objects)
    BY <2>3, <2>4, PartIsListed
  <2> QED BY <2>5 DEF t
<1>6. AreListed(IF file.type = "opju" THEN TableItems(file) ELSE <<>>, objects)
  <2> DEFINE N == Len(file.tables)
             t == TableItems(file)
             d == "opju_column_descriptor_table"
  <2>1. N \in Nat /\ DOMAIN file.tables = 1 .. N
    BY DEF IsListable
  <2>2. /\ t = [n \in 1 .. N |-> t[n]]
        /\ \A n \in 1 .. N :
              t[n] = Item(d, "worksheet", "worksheet", file.tables[n][1], <<file.tables[n][1]>>,
                          file.tables[n][2], file.tables[n][3] - file.tables[n][2],
                          <<file.tables[n][2], file.tables[n][3]>>, FALSE)
    BY <2>1 DEF TableItems
  <2>3. d \notin OfObjects
    BY DEF OfObjects
  <2> HIDE DEF t, N, d
  <2>4. \A n \in 1 .. N : IsEntry(t[n]) /\ t[n].discovery = d
    <3> SUFFICES ASSUME NEW n \in 1 .. N PROVE IsEntry(t[n]) /\ t[n].discovery = d
      OBVIOUS
    <3>1. t[n] = Item(d, "worksheet", "worksheet", file.tables[n][1], <<file.tables[n][1]>>,
                      file.tables[n][2], file.tables[n][3] - file.tables[n][2],
                      <<file.tables[n][2], file.tables[n][3]>>, FALSE)
      BY <2>2
    <3> QED BY <3>1 DEF Item, IsEntry
  <2>5. AreListed(t, objects)
    BY <2>1, <2>2, <2>3, <2>4, PartIsListed
  <2> QED BY <2>5, NothingIsListed DEF t
<1>7. AreListed(ImageItems(file) \o ObjectItems(file), objects)
  BY <1>4, <1>5, ListsJoin
<1>8. AreListed(Known(file), objects)
  BY <1>6, <1>7, ListsJoin DEF Known
<1> QED BY <1>8 DEF objects

\* The gaps are entries, and no objects.
LEMMA GapsAreListed ==
    ASSUME NEW Value, NEW file, IsListable(file, Value)
    PROVE  AreListed(Gaps(file), ToSet(EveryObject(file)))
<1> DEFINE objects == ToSet(EveryObject(file))
           listed == ListedObjects(file, None)
           P == {n \in DOMAIN listed : listed[n].confirmed}
           backed == Picked(listed, P)
           owned == file.type = "opj" /\ backed # <<>>
           size == Len(file.symbols)
           run == [b \in 0 .. size - 1 |-> IF file.symbols[b + 1] \in Printable THEN 1 ELSE 0]
           class(g) == Class([images |-> file.images, run |-> run, numeric |-> {}], g, ClassText, TRUE)
           d == IF owned THEN "raw_region" ELSE "unknown_gap"
           covered == Covered(file.images, IF owned THEN backed ELSE listed, size)
           ranges == GapRanges(size, covered, 1)
           t == Gaps(file)
<1>1. IsDiscoverable(file, Value) /\ file.images \in Seq(Block) /\ size \in Nat
  BY DEF IsListable, IsDiscoverable
<1>2. listed \in Seq(objects) /\ AreObjects(objects)
  BY <1>1, ListedAreOfTheInventory, PathsAreUnique
<1>3. t = [n \in DOMAIN ranges |->
              Item(d, "raw_dump", class(ranges[n]), None, None, ranges[n][1], ranges[n][2], None, TRUE)]
  BY DEF Gaps, GapItems, Those, Each
<1> HIDE DEF objects, listed, class
<1>4. P \in SUBSET (1 .. Len(listed))
  BY <1>2
<1> HIDE DEF P
<1>5. backed \in Seq(objects)
  BY <1>2, <1>4, PickedAre
<1> HIDE DEF backed, size
<1>6. covered \in Seq(Block)
  <2>1. (IF owned THEN backed ELSE listed) \in Seq(objects)
    BY <1>2, <1>5
  <2> QED BY <1>1, <1>2, <2>1, CoveredAreBlocks
<1> HIDE DEF covered
<1>7. ranges \in Seq(Nat \X Nat)
  <2>1. 1 \in Int
    OBVIOUS
  <2> QED BY <1>1, <1>6, <2>1, GapsAreRanges
<1>8. d \notin OfObjects
  BY DEF OfObjects
<1> DEFINE N == Len(ranges)
<1> HIDE DEF d, ranges, t
<1>9. N \in Nat /\ DOMAIN ranges = 1 .. N
  BY <1>7
<1> HIDE DEF N
<1>10. /\ t = [n \in 1 .. N |-> t[n]]
       /\ \A n \in 1 .. N : t[n] = Item(d, "raw_dump", class(ranges[n]), None, None, ranges[n][1],
                                        ranges[n][2], None, TRUE)
  BY <1>3, <1>9
<1>11. \A n \in 1 .. N : IsEntry(t[n]) /\ t[n].discovery = d
  <2> SUFFICES ASSUME NEW n \in 1 .. N PROVE IsEntry(t[n]) /\ t[n].discovery = d
    OBVIOUS
  <2>1. t[n] = Item(d, "raw_dump", class(ranges[n]), None, None, ranges[n][1], ranges[n][2],
                    None, TRUE)
    BY <1>10
  <2> QED BY <2>1 DEF Item, IsEntry
<1>12. AreListed(t, objects)
  BY <1>8, <1>9, <1>10, <1>11, PartIsListed
<1> QED BY <1>12 DEF t, objects

\* The catalog numbers the items and leaves what they are.
LEMMA CatalogKeeps ==
    ASSUME NEW objects, NEW items, AreListed(items, objects), NEW catalog,
           catalog = CatalogItems(items)
    PROVE  /\ DOMAIN catalog = DOMAIN items
           /\ \A n \in DOMAIN items :
                 catalog[n].id[1] = items[n].id /\ catalog[n].discovery = items[n].discovery
<1>1. DOMAIN catalog = DOMAIN items
  BY DEF CatalogItems
<1> SUFFICES ASSUME NEW n \in DOMAIN items
             PROVE  catalog[n].id[1] = items[n].id /\ catalog[n].discovery = items[n].discovery
  BY <1>1
<1> DEFINE count == Cardinality({m \in 1 .. n : items[m].id = items[n].id})
           x == items[n]
<1>2. x \in ToSet(items)
  BY DEF ToSet
<1>3. IsEntry(x)
  BY <1>2 DEF AreListed
<1>4. catalog[n] = [x EXCEPT !.id = <<x.id, count>>]
  BY DEF CatalogItems
<1> HIDE DEF x, count
<1>5. [x EXCEPT !.id = <<x.id, count>>]
         = [id |-> <<x.id, count>>, heuristic |-> x.heuristic, discovery |-> x.discovery]
  BY <1>3 DEF IsEntry
<1>6. catalog[n].id = <<x.id, count>> /\ catalog[n].discovery = x.discovery
  BY <1>4, <1>5
<1> QED BY <1>6 DEF x

\* More items at the end of a list leave the catalog of those before.
LEMMA LongerCatalog ==
    ASSUME NEW S, NEW s \in Seq(S), NEW t \in Seq(S)
    PROVE  ToSet(CatalogItems(s)) \subseteq ToSet(CatalogItems(s \o t))
<1> DEFINE u == s \o t
           short == CatalogItems(s)
           long == CatalogItems(u)
<1>1. /\ Len(s) \in Nat /\ DOMAIN s = 1 .. Len(s) /\ Len(t) \in Nat
      /\ DOMAIN u = 1 .. Len(s) + Len(t) /\ \A n \in 1 .. Len(s) : u[n] = s[n]
  OBVIOUS
<1> HIDE DEF u
<1>2. DOMAIN short = DOMAIN s /\ DOMAIN long = DOMAIN u
  BY DEF CatalogItems
<1>3. ASSUME NEW n \in 1 .. Len(s) PROVE n \in DOMAIN u /\ short[n] = long[n]
  <2> DEFINE before(q) == {m \in 1 .. n : q[m].id = q[n].id}
  <2>1. n \in DOMAIN s /\ n \in DOMAIN u
    BY <1>1
  <2>2. before(s) = before(u)
    <3>1. \A m \in 1 .. n : m \in 1 .. Len(s)
      BY <1>1
    <3>2. \A m \in 1 .. n : u[m] = s[m]
      BY <1>1, <3>1
    <3>3. u[n] = s[n]
      BY <1>1
    <3> QED BY <3>2, <3>3
  <2>3. /\ short[n] = [s[n] EXCEPT !.id = <<s[n].id, Cardinality(before(s))>>]
        /\ long[n] = [u[n] EXCEPT !.id = <<u[n].id, Cardinality(before(u))>>]
    BY <2>1 DEF CatalogItems
  <2> HIDE DEF before
  <2>4. u[n] = s[n]
    BY <1>1
  <2> QED BY <2>1, <2>2, <2>3, <2>4
<1> HIDE DEF short, long
<1>4. ToSet(short) \subseteq ToSet(long)
  BY <1>1, <1>2, <1>3 DEF ToSet
<1> QED BY <1>4 DEF short, long, u

\* The items of a list that is not limited can be retrieved by their identities, whatever the
\* file holds, and get takes the objects that they were made of.
LEMMA UnlimitedIsRetrievable ==
    ASSUME NEW Value, NEW file, IsListable(file, Value), NEW gaps \in BOOLEAN,
           None \notin ToSet(EveryObject(file))
    PROVE  IdsResolve(file, [images |-> TRUE, gaps |-> gaps, perKind |-> None])
<1> DEFINE opts == [images |-> TRUE, gaps |-> gaps, perKind |-> None]
           every == [images |-> TRUE, gaps |-> TRUE, perKind |-> None]
           rest == IF gaps THEN Gaps(file) ELSE <<>>
           items == ListItems(file, opts)
           r == EveryObject(file)
           objects == ToSet(r)
<1>1. AreListed(Known(file), objects) /\ AreListed(Gaps(file), objects)
  BY KnownIsListed, GapsAreListed
<1>2. AreListed(rest, objects)
  BY <1>1, NothingIsListed
<1>3. items = Known(file) \o rest
  BY ListIsItsParts
<1>4. ListItems(file, every) = Known(file) \o Gaps(file)
  BY ListIsItsParts
<1>5. /\ r \in Seq(ToSet(r))
      /\ \A n, m \in DOMAIN r : r[n].path = r[m].path => n = m
  BY PathsAreUnique DEF IsListable
<1> HIDE DEF objects, r
<1>6. ToSet(CatalogItems(items)) \subseteq ToSet(CatalogForGet(file))
  <2>1. CatalogForGet(file) = CatalogItems(ListItems(file, every))
    BY DEF CatalogForGet
  <2>2. CASE gaps = TRUE
    <3>1. items = ListItems(file, every)
      BY <2>2
    <3> QED BY <2>1, <3>1
  <2>3. CASE gaps = FALSE
    <3> DEFINE S == ToSet(Known(file)) \cup ToSet(Gaps(file))
    <3>1. Known(file) \in Seq(S) /\ Gaps(file) \in Seq(S)
      <4>1. Known(file) \in Seq(ToSet(Known(file))) /\ Gaps(file) \in Seq(ToSet(Gaps(file)))
        BY <1>1 DEF AreListed
      <4> QED BY <4>1
    <3>2. items = Known(file)
      <4>1. rest = <<>>
        BY <2>3
      <4>2. Known(file) \o <<>> = Known(file)
        BY <3>1
      <4> HIDE DEF items, rest
      <4> QED BY <1>3, <4>1, <4>2
    <3> HIDE DEF S, items
    <3>3. ToSet(CatalogItems(Known(file))) \subseteq ToSet(CatalogItems(Known(file) \o Gaps(file)))
      BY <3>1, LongerCatalog
    <3> QED BY <1>4, <2>1, <3>2, <3>3
  <2> QED BY <2>2, <2>3
<1> HIDE DEF items, rest
<1>7. AreListed(items, objects)
  BY <1>1, <1>2, <1>3, ListsJoin
<1>8. ASSUME NEW item \in ToSet(CatalogItems(items)), item.discovery \in OfObjects
      PROVE  Target(r, item) # None /\ Target(r, item).kind = item.id[1][3]
  <2> DEFINE catalog == CatalogItems(items)
  <2>1. PICK n \in DOMAIN catalog : catalog[n] = item
    BY DEF ToSet
  <2>2. n \in DOMAIN items /\ item.id[1] = items[n].id /\ item.discovery = items[n].discovery
    BY <1>7, <2>1, CatalogKeeps
  <2> DEFINE x == items[n]
  <2>3. x \in ToSet(items)
    BY <2>2 DEF ToSet
  <2>4. IsOf(x, objects)
    BY <1>7, <1>8, <2>2, <2>3 DEF AreListed
  <2>5. PICK o \in objects : /\ x.id[3] = o.kind /\ x.id[4] = o.name /\ x.id[5] = o.path
                             /\ x.id[6] = o.offset /\ x.id[7] = o.length
    BY <2>4 DEF IsOf
  <2>6. /\ item.id[1][3] = o.kind /\ item.id[1][4] = o.name /\ item.id[1][5] = o.path
        /\ item.id[1][6] = o.offset /\ item.id[1][7] = o.length
    BY <2>2, <2>5
  <2>7. o \in ToSet(r)
    BY DEF objects
  <2>8. Target(r, item) = o
    BY <1>5, <2>6, <2>7, TargetIsTheObject
  <2>9. o # None
    BY <2>7 DEF r
  <2> QED BY <2>6, <2>8, <2>9
<1>9. \A item \in ToSet(CatalogItems(items)) : FindsItsObject(item, r)
  BY <1>8 DEF FindsItsObject, OfObjects
<1>10. ToSet(CatalogItems(ListItems(file, opts))) = ToSet(CatalogItems(items))
       /\ Objects(file, AllObjects) = r
  BY DEF items, r, EveryObject
<1> HIDE DEF opts
<1>11. IdsResolve(file, opts)
  BY <1>6, <1>9, <1>10 DEF IdsResolve
<1> QED BY <1>11 DEF opts

\* Whatever the file holds and however the list is asked for: the items of a list that is not
\* limited are in the catalog get builds, and get takes the objects they were made of.
THEOREM ListsAreRetrievable ==
    ASSUME NEW Value, NEW file, IsListable(file, Value), None \notin ToSet(EveryObject(file)),
           NEW opts \in ListOptions(file),
           subject = [of |-> "list", file |-> file, opts |-> opts]
    PROVE  ListedIsRetrievable
<1>1. subject.file = file /\ subject.opts = opts
  OBVIOUS
<1>2. ASSUME opts.perKind = None PROVE IdsResolve(file, opts)
  <2>1. opts.gaps \in BOOLEAN /\ opts = [images |-> TRUE, gaps |-> opts.gaps, perKind |-> None]
    BY <1>2 DEF ListOptions
  <2>2. IdsResolve(file, [images |-> TRUE, gaps |-> opts.gaps, perKind |-> None])
    BY <2>1, UnlimitedIsRetrievable
  <2> QED BY <2>1, <2>2
<1> QED BY <1>1, <1>2 DEF ListedIsRetrievable
------------------------------------------------------------------------------
(* Compare.  A target has any items, named by their signatures, and any    *)
(* files; a file has its cells, row by row, of any kind.                   *)

\* What a path of a target may hold, and the targets of any signatures and contents.
Holding(Cell, Data) == {Nothing, Directory} \cup [size : Nat, data : Data, rows : Seq(Seq(Cell))]
AnyTarget(Signature, Path, Cell, Data) ==
    [found : STRING, items : Seq(Signature), files : UNION {[P -> Holding(Cell, Data)] : P \in SUBSET Path}]

\* The least of a few numbers is one of them.
LEMMA LeastIsOne == ASSUME NEW S \in SUBSET {1, 2, 3, 4}, S # {} PROVE Min(S) \in S
<1>1. \E x \in S : \A y \in S : x <= y
  <2>1. \A x \in S : x \in {1, 2, 3, 4}
    OBVIOUS
  <2>2. CASE 1 \in S
    BY <2>1, <2>2
  <2>3. CASE 1 \notin S /\ 2 \in S
    BY <2>1, <2>3
  <2>4. CASE 1 \notin S /\ 2 \notin S /\ 3 \in S
    BY <2>1, <2>4
  <2>5. CASE 1 \notin S /\ 2 \notin S /\ 3 \notin S
    <3>1. \A x \in S : x = 4
      BY <2>1, <2>5
    <3>2. PICK x \in S : TRUE
      OBVIOUS
    <3>3. \A y \in S : x <= y
      BY <3>1
    <3> QED BY <3>3
  <2> QED BY <2>2, <2>3, <2>4, <2>5
<1> QED BY <1>1 DEF Min

\* The first of the steps that raise is one of them, so who raises does not hang on the order.
LEMMA RaisesAlike ==
    ASSUME NEW l, NEW r
    PROVE  Raises(l, r) = None <=> /\ ResolveRaises(l) = None /\ ResolveRaises(r) = None
                                   /\ LoadRaises(l) = None /\ LoadRaises(r) = None
<1> DEFINE steps == <<ResolveRaises(l), ResolveRaises(r), LoadRaises(l), LoadRaises(r)>>
           raised == {n \in DOMAIN steps : steps[n] # None}
<1>1. DOMAIN steps = {1, 2, 3, 4}
  OBVIOUS
<1>2. Raises(l, r) = IF raised = {} THEN None ELSE steps[Min(raised)]
  BY DEF Raises
<1>3. raised \subseteq {1, 2, 3, 4}
  BY <1>1
<1>4. raised # {} => Min(raised) \in raised
  BY <1>3, LeastIsOne
<1>5. raised = {} <=> /\ ResolveRaises(l) = None /\ ResolveRaises(r) = None
                      /\ LoadRaises(l) = None /\ LoadRaises(r) = None
  BY <1>1
<1> QED BY <1>2, <1>4, <1>5

\* What raises is not a success.
LEMMA RaisedIsNoSuccess ==
    ASSUME NEW l, NEW r, Raises(l, r) # None PROVE MainExit(Raises(l, r)) # Success
<1> DEFINE steps == <<ResolveRaises(l), ResolveRaises(r), LoadRaises(l), LoadRaises(r)>>
           raised == {n \in DOMAIN steps : steps[n] # None}
<1>1. DOMAIN steps = {1, 2, 3, 4}
  OBVIOUS
<1>2. Raises(l, r) = IF raised = {} THEN None ELSE steps[Min(raised)]
  BY DEF Raises
<1>3. raised \subseteq {1, 2, 3, 4} /\ raised # {}
  BY <1>1, <1>2
<1>4. Min(raised) \in raised
  BY <1>3, LeastIsOne
<1>5. \A n \in {1, 2, 3, 4} : steps[n] \in {None, "filenotfound", "value"}
  BY DEF ResolveRaises, LoadRaises
<1>6. Raises(l, r) \in {"filenotfound", "value"}
  BY <1>2, <1>3, <1>4, <1>5
<1> QED BY <1>6 DEF MainExit, Success, General, Usage

\* Two cells differ whichever one comes first.
LEMMA CellsAlike == ASSUME NEW a, NEW b PROVE CellDiffers(a, b) <=> CellDiffers(b, a)
BY DEF CellDiffers, Close

\* Two tables are taken for one whichever one comes first.
LEMMA TablesAlike ==
    ASSUME NEW Cell, NEW Data, NEW l \in Holding(Cell, Data) \ {Nothing},
           NEW r \in Holding(Cell, Data) \ {Nothing}, TableMismatch(l, r) = None
    PROVE  TableMismatch(r, l) = None
<1>1. l # Directory /\ r # Directory
  BY NoneAssumption DEF TableMismatch, Mismatches
<1>2. l.rows \in Seq(Seq(Cell)) /\ r.rows \in Seq(Seq(Cell))
  BY <1>1 DEF Holding
<1> DEFINE differs(x, y, n) == \/ Len(x.rows[n]) # Len(y.rows[n])
                               \/ \E k \in DOMAIN x.rows[n] : CellDiffers(x.rows[n][k], y.rows[n][k])
           rows(x, y) == {n \in DOMAIN x.rows : differs(x, y, n)}
<1>3. Len(l.rows) = Len(r.rows) /\ Width(l.rows) = Width(r.rows) /\ rows(l, r) = {}
  BY <1>1, NoneAssumption DEF TableMismatch, Mismatches
<1>4. DOMAIN l.rows = DOMAIN r.rows
  BY <1>2, <1>3
<1>5. ASSUME NEW n \in DOMAIN r.rows PROVE ~differs(r, l, n)
  <2>1. ~differs(l, r, n) /\ l.rows[n] \in Seq(Cell) /\ r.rows[n] \in Seq(Cell)
    BY <1>2, <1>3, <1>4, <1>5
  <2>2. Len(l.rows[n]) = Len(r.rows[n]) /\ DOMAIN l.rows[n] = DOMAIN r.rows[n]
    BY <2>1
  <2> QED BY <2>1, <2>2, CellsAlike
<1>6. rows(r, l) = {}
  BY <1>5
<1>7. TableMismatch(r, l) = None
  BY <1>1, <1>3, <1>6 DEF TableMismatch
<1> QED BY <1>7

\* Two files of one path are alike whichever one comes first, and alike files are equal.
LEMMA FilesAlike ==
    ASSUME NEW Cell, NEW Data, NEW path, NEW l \in Holding(Cell, Data), NEW r \in Holding(Cell, Data),
           FileMismatch(path, l, r) = None
    PROVE  /\ FileMismatch(path, r, l) = None
           /\ \/ l = Nothing /\ r = Nothing
              \/ Nothing \notin {l, r} /\ Directory \in {l, r}
              \/ {Nothing, Directory} \cap {l, r} = {} /\ l.data = r.data
<1>1. path # None /\ path \notin Absolute
  BY NoneAssumption DEF FileMismatch, Mismatches
<1>2. CASE l = Nothing \/ r = Nothing
  BY <1>1, <1>2, NoneAssumption DEF FileMismatch, Mismatches
<1>3. CASE l # Nothing /\ r # Nothing
  <2>1. /\ path \in Tables => TableMismatch(l, r) = None
        /\ BytesMismatch(l, r) = None
    BY <1>1, <1>3, NoneAssumption DEF FileMismatch, Mismatches
  <2>2. path \in Tables => TableMismatch(r, l) = None
    BY <1>3, <2>1, TablesAlike
  <2>3. BytesMismatch(r, l) = None /\ (Directory \in {l, r} \/ l.data = r.data)
    BY <2>1, NoneAssumption DEF BytesMismatch, Mismatches
  <2> QED BY <1>1, <1>3, <2>2, <2>3 DEF FileMismatch, Mismatches
<1> QED BY <1>2, <1>3
------------------------------------------------------------------------------
(* The two manifests.                                                      *)

\* How often a signature is in a manifest is a number, and not 0 when it is there.
LEMMA TimesCount ==
    ASSUME NEW Signature, NEW items \in Seq(Signature), NEW s
    PROVE  /\ Times(items, s) \in Nat
           /\ Times(items, s) > 0 <=> s \in ToSet(items)
<1> DEFINE at == {n \in DOMAIN items : items[n] = s}
<1>1. IsFiniteSet(DOMAIN items) /\ DOMAIN items = 1 .. Len(items)
  BY FS_Interval
<1>2. IsFiniteSet(at) /\ Cardinality(at) \in Nat
  BY <1>1, FS_Subset, FS_CardinalityType
<1>3. Cardinality(at) = 0 <=> at = {}
  BY <1>2, FS_EmptySet
<1>4. at # {} <=> s \in ToSet(items)
  BY DEF ToSet
<1> QED BY <1>2, <1>3, <1>4 DEF Times

\* What holds of two targets that match, in terms of neither one being the first.
Alike(l, r) ==
    /\ ResolveRaises(l) = None /\ ResolveRaises(r) = None
    /\ LoadRaises(l) = None /\ LoadRaises(r) = None
    /\ \A s \in ToSet(l.items) \cup ToSet(r.items) : Times(l.items, s) = Times(r.items, s)

FilesMatch(l, r) ==
    \A s \in ToSet(l.items) : FileMismatch(s.path, At(l, s.path), At(r, s.path)) = None

\* The command succeeds when no target raises and the manifests are equal as bags, and the
\* files too when they are asked for.
LEMMA SuccessMeans ==
    ASSUME NEW Signature, NEW l, NEW r, l.items \in Seq(Signature), r.items \in Seq(Signature),
           NEW bytes \in BOOLEAN
    PROVE  CmdCompare(l, r, bytes) = Success <=> Alike(l, r) /\ (bytes => FilesMatch(l, r))
<1> DEFINE both == ToSet(l.items) \cup ToSet(r.items)
           paired(s) == AtMost(Times(l.items, s), Times(r.items, s))
           mismatch(s) == FileMismatch(s.path, At(l, s.path), At(r, s.path))
           same == \A s \in both : Times(l.items, s) = Times(r.items, s)
<1>1. \A s : Times(l.items, s) \in Nat /\ Times(r.items, s) \in Nat
  BY TimesCount
<1>2. Signatures(l, r) = {} <=> same
  BY DEF Signatures
<1>3. ASSUME same PROVE ComparedFiles(l, r) = {} <=> FilesMatch(l, r)
  <2>1. both = ToSet(l.items) /\ \A s \in both : paired(s) > 0 /\ paired(s) = Times(l.items, s)
                                               /\ paired(s) = Times(r.items, s)
    BY <1>1, <1>3, TimesCount DEF AtMost
  <2>2. \A s \in both : ~(Times(l.items, s) > paired(s)) /\ ~(Times(r.items, s) > paired(s))
    BY <1>1, <2>1
  <2>3. ComparedFiles(l, r) = {} <=> \A s \in both : mismatch(s) = None
    <3>1. ComparedFiles(l, r) =
             {<<s, mismatch(s)>> : s \in {t \in both : paired(t) > 0 /\ mismatch(t) # None}}
             \cup {<<s, "missing_in_right">> : s \in {t \in both : Times(l.items, t) > paired(t)}}
             \cup {<<s, "missing_in_left">> : s \in {t \in both : Times(r.items, t) > paired(t)}}
      BY DEF ComparedFiles
    <3>2. /\ {t \in both : Times(l.items, t) > paired(t)} = {}
          /\ {t \in both : Times(r.items, t) > paired(t)} = {}
      BY <2>2
    <3>3. {t \in both : paired(t) > 0 /\ mismatch(t) # None} = {t \in both : mismatch(t) # None}
      BY <2>1
    <3> HIDE DEF both, paired, mismatch
    <3>4. ComparedFiles(l, r) = {<<s, mismatch(s)>> : s \in {t \in both : mismatch(t) # None}}
      BY <3>1, <3>2, <3>3
    <3> QED BY <3>4
  <2> QED BY <2>1, <2>3 DEF FilesMatch
<1>4. CompareManifests(l, r, bytes).match <=> same /\ (bytes => FilesMatch(l, r))
  BY <1>2, <1>3 DEF CompareManifests
<1>5. CASE Raises(l, r) # None
  BY <1>5, RaisedIsNoSuccess, RaisesAlike DEF CmdCompare, Alike
<1>6. CASE Raises(l, r) = None
  BY <1>4, <1>6, RaisesAlike DEF CmdCompare, Alike, Success, General
<1> QED BY <1>5, <1>6

\* What a target holds at a path is a file, a directory or nothing.
LEMMA AtHeld ==
    ASSUME NEW Signature, NEW Path, NEW Cell, NEW Data,
           NEW t \in AnyTarget(Signature, Path, Cell, Data), NEW path
    PROVE  At(t, path) \in Holding(Cell, Data)
BY DEF At, AnyTarget, Holding

\* Whatever two manifests and the files beside them are, a match of compare is an equality:
\* of the manifests as bags, and with --compare-bytes of every file an item names; and the
\* order of the two does not matter.
THEOREM MatchesAreEqualities ==
    ASSUME NEW Signature, NEW Path, NEW Cell, NEW Data,
           NEW l \in AnyTarget(Signature, Path, Cell, Data),
           NEW r \in AnyTarget(Signature, Path, Cell, Data),
           subject = [of |-> "compare", left |-> l, right |-> r]
    PROVE  MatchIsEquality
<1> DEFINE same(s) == LET f == At(l, s.path)
                          g == At(r, s.path)
                      IN  \/ f = Nothing /\ g = Nothing
                          \/ Nothing \notin {f, g} /\ Directory \in {f, g}
                          \/ {Nothing, Directory} \cap {f, g} = {} /\ f.data = g.data
<1>1. l.items \in Seq(Signature) /\ r.items \in Seq(Signature)
  BY DEF AnyTarget
<1>2. \A s : At(l, s.path) \in Holding(Cell, Data) /\ At(r, s.path) \in Holding(Cell, Data)
  BY AtHeld
<1>3. Alike(l, r) <=> Alike(r, l)
  BY DEF Alike
<1>4. ASSUME Alike(l, r) PROVE FilesMatch(l, r) <=> FilesMatch(r, l)
  <2>1. ToSet(l.items) = ToSet(r.items)
    <3>1. \A s : /\ Times(l.items, s) > 0 <=> s \in ToSet(l.items)
                 /\ Times(r.items, s) > 0 <=> s \in ToSet(r.items)
      BY <1>1, TimesCount
    <3> QED BY <1>4, <3>1 DEF Alike
  <2>2. \A s : FileMismatch(s.path, At(l, s.path), At(r, s.path)) = None
               <=> FileMismatch(s.path, At(r, s.path), At(l, s.path)) = None
    BY <1>2, FilesAlike
  <2> QED BY <2>1, <2>2 DEF FilesMatch
<1>5. \A bytes \in BOOLEAN : /\ CmdCompare(l, r, bytes) = Success
                                  <=> Alike(l, r) /\ (bytes => FilesMatch(l, r))
                             /\ CmdCompare(r, l, bytes) = Success
                                  <=> Alike(r, l) /\ (bytes => FilesMatch(r, l))
  BY <1>1, SuccessMeans
<1>6. FilesMatch(l, r) => \A s \in ToSet(l.items) : same(s)
  BY <1>2, FilesAlike DEF FilesMatch
<1>7. MatchIsSound(l, r)
  <2>1. CmdCompare(l, r, FALSE) = Success =>
           \A s \in ToSet(l.items) \cup ToSet(r.items) : Times(l.items, s) = Times(r.items, s)
    BY <1>5 DEF Alike
  <2>2. CmdCompare(l, r, TRUE) = Success =>
           CmdCompare(l, r, FALSE) = Success /\ \A s \in ToSet(l.items) : same(s)
    BY <1>5, <1>6
  <2>3. \A bytes \in BOOLEAN : CmdCompare(l, r, bytes) = Success <=> CmdCompare(r, l, bytes) = Success
    BY <1>3, <1>4, <1>5
  <2> QED BY <2>1, <2>2, <2>3 DEF MatchIsSound
<1> QED BY <1>7 DEF MatchIsEquality
------------------------------------------------------------------------------
(* The claims.  The items of an input are of any kind, and so are the      *)
(* warnings of extract.                                                    *)

\* An input with any items and any codes of warnings.
Input(Thing, Code) ==
    [type : {"opj", "opju", "other"}, parse : {"ok", "corrupted", "other"},
     raised : {None, "filenotfound", "corrupted", "unsupported", "value", "other"},
     mismatch : BOOLEAN, large : BOOLEAN, exhaustive : BOOLEAN, enabled : BOOLEAN,
     unfinished : BOOLEAN, failOnPartial : BOOLEAN, evidence : {None} \cup Code,
     objects : Seq(Thing), items : Seq(Thing), codes : Seq(Code)]

\* What the words of the claims are made of.
AnyWords(Code) ==
    Code \cup {"native-parser-error", "no-listable-items", "header-signature-mismatch", "heuristic-items-capped",
              "unsupported-input-type", "no-extraction-steps", "command-exec-error"}

\* The scope and the class are failed for the same parser.
LEMMA FailedAlike ==
    ASSUME NEW type, NEW parser, NEW status, NEW codes, NEW items
    PROVE  /\ SupportScope(type, parser, status, codes, items) = "failed" <=> parser = "error"
           /\ SupportClass(type, parser, status, codes, items) = "failed" <=> parser = "error"
BY DEF SupportScope, SupportClass

\* What is verified is an OPJ whose items the parser backs, all of them finished.
LEMMA VerifiedMeans ==
    ASSUME NEW type, NEW parser, NEW status, NEW codes, NEW items,
           SupportScope(type, parser, status, codes, items) = "verified"
    PROVE  /\ type = "opj" /\ parser \in {"ok", "empty"} /\ status \in {"ok", "empty"} /\ codes = <<>>
           /\ \A i \in ToSet(items) : ~LeavesPartial(i)
           /\ SupportClass(type, parser, status, codes, items) = "parser"
<1>1. VerifiedCoverage(type, parser, status, codes, items) /\ \E i \in ToSet(items) : ParserBacked(i)
  BY DEF SupportScope
<1>2. type = "opj" /\ parser \in {"ok", "empty"} /\ status \in {"ok", "empty"} /\ codes = <<>>
  BY <1>1 DEF VerifiedCoverage
<1>3. \A i \in ToSet(items) : ~LeavesPartial(i) /\ ParserBacked(i)
  BY <1>1, <1>2 DEF SupportScope, VerifiedCoverage
<1>4. ToSet(codes) = {}
  BY <1>2 DEF ToSet
<1>5. FullSupport(parser, status, codes, items)
  BY <1>2, <1>3, <1>4 DEF FullSupport
<1> QED BY <1>1, <1>2, <1>3, <1>5 DEF SupportClass, SupportedTypes

\* A list of words is empty when its parts are.
LEMMA NoWords ==
    ASSUME NEW Word, NEW a \in Seq(Word), NEW b \in Seq(Word)
    PROVE  a \o b \in Seq(Word) /\ (a \o b = <<>> <=> a = <<>> /\ b = <<>>)
OBVIOUS

\* A claim is made of the status, the codes and the items of the report it is in.
Claims(type, r) ==
    /\ r.class = SupportClass(type, r.parser, r.status, r.codes, r.items)
    /\ r.scope = SupportScope(type, r.parser, r.status, r.codes, r.items)

\* A report without a warning is of an input that was read to its end.
ReadToTheEnd(in) == in.parse = "ok" /\ ~Definitive(in.evidence)

\* The report of list.
LEMMA ListFacts ==
    ASSUME NEW Thing, NEW Code, NEW in \in Input(Thing, Code), in.raised = None
    PROVE  LET r == ListReport(in) IN
           /\ Claims(in.type, r)
           /\ in.type \in SupportedTypes =>
                 /\ r.parser = "error" <=> in.parse # "ok"
                 /\ r.codes = <<>> => ReadToTheEnd(in)
                 /\ r.exit = IF in.parse # "ok" THEN ListExit(in, "error", <<>>)
                             ELSE IF in.items = <<>> THEN Unsupported
                             ELSE IF Definitive(in.evidence) THEN Corrupted ELSE Success
                 /\ in.type = "opj" /\ in.parse = "ok" => r.items = in.items
<1> DEFINE r == ListReport(in)
           supported == in.type \in SupportedTypes
           failed == supported /\ in.parse # "ok"
           items == IF supported /\ ~failed THEN in.items ELSE <<>>
           parser == IF ~supported THEN "unsupported"
                     ELSE IF failed THEN "error"
                     ELSE IF items = <<>> THEN "empty" ELSE "ok"
           first == If(failed, <<"native-parser-error">>)
                    \o If(parser = "empty", <<"no-listable-items">>)
                    \o If(in.mismatch /\ ~failed, <<"header-signature-mismatch">>)
                    \o If(Capped(items, IF in.exhaustive THEN None ELSE KindLimit(in)),
                          <<"heuristic-items-capped">>)
           last == If(in.evidence # None /\ ~failed, <<in.evidence>>)
           codes == IF supported THEN first \o last
                    ELSE If(in.mismatch, <<"header-signature-mismatch">>) \o <<"unsupported-input-type">>
           status == IF supported THEN CommandState(TRUE, parser, items # <<>>) ELSE "unsupported"
           claimed == NotCarved(in.type, items)
<1>1. r = [class |-> SupportClass(in.type, parser, status, codes, claimed),
           scope |-> SupportScope(in.type, parser, status, codes, claimed),
           status |-> status, parser |-> parser, codes |-> codes,
           warnings |-> IF parser = "ok" THEN <<>> ELSE codes,
           items |-> claimed,
           exit |-> IF supported THEN ListExit(in, parser, items) ELSE Unsupported]
  BY DEF ListReport
<1>2. /\ first \in Seq(AnyWords(Code))
      /\ first = <<>> => ~failed
  <2> DEFINE W == AnyWords(Code)
             a == If(failed, <<"native-parser-error">>)
             b == If(parser = "empty", <<"no-listable-items">>)
             c == If(in.mismatch /\ ~failed, <<"header-signature-mismatch">>)
             d == If(Capped(items, IF in.exhaustive THEN None ELSE KindLimit(in)), <<"heuristic-items-capped">>)
  <2>1. a \in Seq(W) /\ (a = <<>> => ~failed) /\ b \in Seq(W) /\ c \in Seq(W) /\ d \in Seq(W)
    <3>1. \A w \in W : <<w>> \in Seq(W) /\ <<>> \in Seq(W) /\ <<w>> # <<>>
      OBVIOUS
    <3>2. /\ "native-parser-error" \in W /\ "no-listable-items" \in W
          /\ "header-signature-mismatch" \in W /\ "heuristic-items-capped" \in W
      BY DEF AnyWords
    <3> HIDE DEF W
    <3>3. a \in {<<>>, <<"native-parser-error">>} /\ (failed => a = <<"native-parser-error">>)
      BY DEF If
    <3>4. /\ b \in {<<>>, <<"no-listable-items">>}
          /\ c \in {<<>>, <<"header-signature-mismatch">>}
          /\ d \in {<<>>, <<"heuristic-items-capped">>}
      BY DEF If
    <3> HIDE DEF a, b, c, d
    <3> QED BY <3>1, <3>2, <3>3, <3>4
  <2> HIDE DEF W, a, b, c, d
  <2>2. ((a \o b) \o c) \o d \in Seq(W) /\ (((a \o b) \o c) \o d = <<>> => a = <<>>)
    BY <2>1, NoWords
  <2> QED BY <2>1, <2>2 DEF a, b, c, d, W
<1>3. /\ last \in Seq(AnyWords(Code))
      /\ supported /\ last = <<>> /\ ~failed => ~Definitive(in.evidence)
  <2>1. Definitive(in.evidence) => in.evidence # None
    BY NoneIsNoWord DEF Definitive
  <2>2. in.evidence # None => in.evidence \in AnyWords(Code)
    BY DEF Input, AnyWords
  <2>3. last = IF in.evidence # None /\ ~failed THEN <<in.evidence>> ELSE <<>>
    BY DEF If
  <2> HIDE DEF last, failed
  <2> QED BY <2>1, <2>2, <2>3
<1> HIDE DEF first, last
<1>4. supported /\ codes = <<>> => ReadToTheEnd(in)
  BY <1>2, <1>3, NoWords DEF ReadToTheEnd
<1>5. in.type = "opj" /\ in.parse = "ok" => claimed = in.items
  BY DEF NotCarved, SupportedTypes
<1>6. supported => ListExit(in, parser, items) = IF in.parse # "ok" THEN ListExit(in, "error", <<>>)
                             ELSE IF in.items = <<>> THEN Unsupported
                             ELSE IF Definitive(in.evidence) THEN Corrupted ELSE Success
  BY DEF ListExit
<1> HIDE DEF codes, status, claimed
<1> QED BY <1>1, <1>4, <1>5, <1>6 DEF Claims

\* The report of inspect.
LEMMA InspectFacts ==
    ASSUME NEW Thing, NEW Code, NEW in \in Input(Thing, Code), in.raised = None
    PROVE  LET r == InspectReport(in) IN
           /\ Claims(in.type, r)
           /\ in.type \in SupportedTypes =>
                 /\ r.parser = "error" <=> in.parse # "ok"
                 /\ r.codes = <<>> => ReadToTheEnd(in)
                 /\ r.exit = IF in.parse # "ok" THEN ListExit(in, "error", <<>>)
                             ELSE IF Definitive(in.evidence) THEN Corrupted ELSE Success
           /\ in.type \notin SupportedTypes => r.exit = Unsupported
<1> DEFINE r == InspectReport(in)
           supported == in.type \in SupportedTypes
           failed == supported /\ in.parse # "ok"
           objects == IF supported /\ ~failed THEN in.objects ELSE <<>>
           items == IF supported /\ ~failed THEN in.items ELSE <<>>
           images == Cardinality({n \in DOMAIN items : items[n].discovery = "carved"})
           parser == IF ~supported THEN "unsupported"
                     ELSE IF failed THEN "error"
                     ELSE IF in.type = "opj" /\ items = <<>> THEN "empty" ELSE "ok"
           first == If(~supported, <<"unsupported-input-type">>)
                    \o If(failed, <<"native-parser-error">>)
                    \o If(parser = "empty", <<"no-listable-items">>)
                    \o If(in.mismatch /\ ~failed, <<"header-signature-mismatch">>)
                    \o If(Capped(items, KindLimit(in)), <<"heuristic-items-capped">>)
           last == If(in.evidence # None /\ supported /\ ~failed, <<in.evidence>>)
           codes == first \o last
           hasItems == IF items # <<>> THEN TRUE ELSE Len(objects) + images > 0
           status == CommandState(supported, parser, hasItems)
           claimed == IF in.type = "opju" THEN NotCarved("opju", items) ELSE objects
           exit == IF parser = "error" THEN (IF in.parse = "corrupted" THEN Corrupted ELSE General)
                   ELSE IF ~supported THEN Unsupported
                   ELSE IF Definitive(in.evidence) THEN Corrupted
                   ELSE Success
<1>1. r = [class |-> SupportClass(in.type, parser, status, codes, claimed),
           scope |-> SupportScope(in.type, parser, status, codes, claimed),
           status |-> status, parser |-> parser, codes |-> codes, warnings |-> codes,
           items |-> claimed, exit |-> exit]
  BY DEF InspectReport
<1>2. /\ first \in Seq(AnyWords(Code))
      /\ first = <<>> => ~failed
  <2> DEFINE W == AnyWords(Code)
             z == If(~supported, <<"unsupported-input-type">>)
             a == If(failed, <<"native-parser-error">>)
             b == If(parser = "empty", <<"no-listable-items">>)
             c == If(in.mismatch /\ ~failed, <<"header-signature-mismatch">>)
             d == If(Capped(items, KindLimit(in)), <<"heuristic-items-capped">>)
  <2>1. z \in Seq(W) /\ a \in Seq(W) /\ (a = <<>> => ~failed) /\ b \in Seq(W) /\ c \in Seq(W) /\ d \in Seq(W)
    <3>1. \A w \in W : <<w>> \in Seq(W) /\ <<>> \in Seq(W) /\ <<w>> # <<>>
      OBVIOUS
    <3>2. /\ "native-parser-error" \in W /\ "no-listable-items" \in W /\ "unsupported-input-type" \in W
          /\ "header-signature-mismatch" \in W /\ "heuristic-items-capped" \in W
      BY DEF AnyWords
    <3> HIDE DEF W
    <3>3. a \in {<<>>, <<"native-parser-error">>} /\ (failed => a = <<"native-parser-error">>)
      BY DEF If
    <3>4. /\ b \in {<<>>, <<"no-listable-items">>}
          /\ c \in {<<>>, <<"header-signature-mismatch">>}
          /\ d \in {<<>>, <<"heuristic-items-capped">>}
          /\ z \in {<<>>, <<"unsupported-input-type">>}
      BY DEF If
    <3> HIDE DEF a, b, c, d, z
    <3> QED BY <3>1, <3>2, <3>3, <3>4
  <2> HIDE DEF W, a, b, c, d, z
  <2>2. /\ (((z \o a) \o b) \o c) \o d \in Seq(W)
        /\ (((z \o a) \o b) \o c) \o d = <<>> => a = <<>>
    BY <2>1, NoWords
  <2> QED BY <2>1, <2>2 DEF a, b, c, d, z, W
<1>3. /\ last \in Seq(AnyWords(Code))
      /\ supported /\ last = <<>> /\ ~failed => ~Definitive(in.evidence)
  <2>1. Definitive(in.evidence) => in.evidence # None
    BY NoneIsNoWord DEF Definitive
  <2>2. in.evidence # None => in.evidence \in AnyWords(Code)
    BY DEF Input, AnyWords
  <2>3. last = IF in.evidence # None /\ supported /\ ~failed THEN <<in.evidence>> ELSE <<>>
    BY DEF If
  <2> HIDE DEF last, failed, supported
  <2> QED BY <2>1, <2>2, <2>3
<1> HIDE DEF first, last
<1>4. supported /\ codes = <<>> => ReadToTheEnd(in)
  BY <1>2, <1>3, NoWords DEF ReadToTheEnd
<1>5. /\ supported => exit = IF in.parse # "ok" THEN ListExit(in, "error", <<>>)
                            ELSE IF Definitive(in.evidence) THEN Corrupted ELSE Success
      /\ ~supported => exit = Unsupported
      /\ supported => (parser = "error" <=> in.parse # "ok")
  BY DEF ListExit
<1> HIDE DEF codes, status, claimed, exit, parser
<1> QED BY <1>1, <1>4, <1>5 DEF Claims

\* The report of extract, when every step has run.
LEMMA ExtractFacts ==
    ASSUME NEW Thing, NEW Code, NEW in \in Input(Thing, Code)
    PROVE  LET r == ExtractReport(in) IN
           /\ Claims(in.type, r)
           /\ r.items = in.items /\ r.parser # "error"
           /\ r.codes = <<>> => in.evidence = None
           /\ r.status = "ok" => ~PartialExtraction(in)
           /\ r.status \in {"ok", "partial", "unsupported"}
           /\ r.exit = IF Definitive(in.evidence) THEN Corrupted
                       ELSE IF in.failOnPartial /\ (PartialExtraction(in) \/ PartialOutputs(in.items))
                            THEN Partial
                       ELSE Success
<1> DEFINE r == ExtractReport(in)
           parser == ParserStatus(in.enabled, in.items)
           a == If(in.evidence # None, <<in.evidence>>)
           c == If(~in.enabled, <<"no-extraction-steps">>)
           codes == a \o in.codes \o c
           status == IF ~in.enabled THEN "unsupported"
                     ELSE IF PartialExtraction(in) THEN "partial" ELSE "ok"
           exit == IF Definitive(in.evidence) THEN Corrupted
                   ELSE IF in.failOnPartial /\ (PartialExtraction(in) \/ PartialOutputs(in.items))
                        THEN Partial
                   ELSE Success
<1>1. r = [class |-> SupportClass(in.type, parser, status, codes, in.items),
           scope |-> SupportScope(in.type, parser, status, codes, in.items),
           status |-> status, parser |-> parser, codes |-> codes, warnings |-> codes,
           items |-> in.items, exit |-> exit]
  BY DEF ExtractReport
<1>2. codes = <<>> => in.evidence = None
  <2> DEFINE W == AnyWords(Code)
  <2>1. /\ in.evidence # None => in.evidence \in W
        /\ in.codes \in Seq(Code) /\ Code \subseteq W /\ "no-extraction-steps" \in W
    BY DEF Input, AnyWords
  <2>2. a = (IF in.evidence # None THEN <<in.evidence>> ELSE <<>>) /\ c \in {<<>>, <<"no-extraction-steps">>}
    BY DEF If
  <2> HIDE DEF W, a, c
  <2>0. \A w \in W : <<w>> \in Seq(W) /\ <<w>> # <<>>
    OBVIOUS
  <2>3. a \in Seq(W) /\ c \in Seq(W) /\ in.codes \in Seq(W) /\ (a = <<>> => in.evidence = None)
    <3>1. c \in Seq(W)
      <4>1. <<"no-extraction-steps">> \in Seq(W) /\ <<>> \in Seq(W)
        BY <2>0, <2>1
      <4> QED BY <2>2, <4>1
    <3>2. in.codes \in Seq(W)
      BY <2>1
    <3>3. CASE in.evidence = None
      BY <2>2, <3>1, <3>2, <3>3
    <3>4. CASE in.evidence # None
      <4>1. <<in.evidence>> \in Seq(W) /\ <<in.evidence>> # <<>> /\ a = <<in.evidence>>
        BY <2>0, <2>1, <2>2, <3>4
      <4> QED BY <3>1, <3>2, <4>1
    <3> QED BY <3>3, <3>4
  <2>4. (a \o in.codes) \o c = <<>> => a = <<>>
    BY <2>3, NoWords
  <2> QED BY <2>3, <2>4
<1>3. parser # "error"
  BY DEF ParserStatus
<1> HIDE DEF codes, exit, parser
<1> QED BY <1>1, <1>2, <1>3 DEF Claims, exit

\* The report of a command that failed before the parser.
LEMMA FailureFacts ==
    ASSUME NEW in
    PROVE  /\ Failed(in).scope # "verified"
           /\ Failed(in).scope = "failed" <=> Failed(in).class = "failed"
<1> DEFINE type == IF in.raised = "filenotfound" THEN "unknown" ELSE in.type
           parser == IF in.raised = "corrupted" THEN "error" ELSE "unsupported"
           codes == <<"command-exec-error">>
           scope == SupportScope(type, parser, "unsupported", codes, <<>>)
           class == SupportClass(type, parser, "unsupported", codes, <<>>)
<1>1. Failed(in).scope = scope /\ Failed(in).class = class
  BY DEF Failed, FailureReport
<1>2. scope # "verified"
  BY VerifiedMeans
<1>3. scope = "failed" <=> class = "failed"
  BY FailedAlike
<1> QED BY <1>1, <1>2, <1>3

\* What a report claims, when its claims are of what it lists.
LEMMA ClaimsMean ==
    ASSUME NEW type, NEW r, Claims(type, r)
    PROVE  /\ r.scope = "failed" <=> r.class = "failed"
           /\ r.scope = "verified" =>
                 /\ type = "opj" /\ r.class = "parser" /\ r.codes = <<>>
                 /\ r.parser \in {"ok", "empty"} /\ r.status \in {"ok", "empty"}
                 /\ \A i \in ToSet(r.items) : ~LeavesPartial(i)
                 /\ r.items # <<>>
<1>1. r.scope = "failed" <=> r.class = "failed"
  BY FailedAlike DEF Claims
<1>2. ASSUME r.scope = "verified" PROVE r.items # <<>>
  <2>1. \E i \in ToSet(r.items) : ParserBacked(i)
    BY <1>2 DEF Claims, SupportScope
  <2>2. r.items = <<>> => ToSet(r.items) = {}
    BY DEF ToSet
  <2> QED BY <2>1, <2>2
<1> QED BY <1>1, <1>2, VerifiedMeans DEF Claims

\* An output extract would call partial is an item that leaves the extraction partial.
LEMMA PartialOutputLeaves ==
    ASSUME NEW i, i.status \in {"partial", "unsupported"}, ~IsReconnaissance(i)
    PROVE  LeavesPartial(i)
<1>1. i.status # None
  BY NoneIsNoWord
<1> QED BY <1>1 DEF LeavesPartial, ItemStatus, NotFinished

\* Whatever an input holds, and whatever the parser makes of it: what list, inspect and extract
\* call verified is an OPJ that was read in full, and a parser that gave up or an input that is
\* cut short shows in the exit code and in the warnings of each of them.
THEOREM ReportsAreSound ==
    ASSUME NEW Thing, NEW Code, NEW in \in Input(Thing, Code),
           subject = [of |-> "report", in |-> in]
    PROVE  ClaimsAreSound
<1> DEFINE sound(r) == /\ r.scope = "verified" => /\ in.type = "opj" /\ r.class = "parser"
                                                  /\ r.exit = Success /\ r.codes = <<>>
                                                  /\ \A i \in ToSet(r.items) : ~LeavesPartial(i)
                       /\ r.scope = "failed" <=> r.class = "failed"
           damaged == in.parse # "ok" \/ Definitive(in.evidence)
           told(r) == r.exit # Success /\ r.codes # <<>> /\ r.scope # "verified"
           list == ListReport(in)
           inspect == InspectReport(in)
           extract == ExtractReport(in)
           whole == in.type \in SupportedTypes /\ in.parse = "ok" /\ in.raised = None
<1>1. CASE in.raised # None
  <2>1. list = Failed(in) /\ inspect = Failed(in)
    BY <1>1 DEF ListReport, InspectReport
  <2>2. sound(list) /\ sound(inspect)
    BY <2>1, FailureFacts
  <2>3. Reports(in) = {list, inspect}
    BY <1>1 DEF Reports
  <2>4. VerifiedIsFullSupport(in)
    BY <2>2, <2>3 DEF VerifiedIsFullSupport
  <2>5. DamageIsReported(in)
    BY <1>1 DEF DamageIsReported
  <2> QED BY <2>4, <2>5 DEF ClaimsAreSound
<1>2. CASE in.raised = None
  <2>1. /\ Claims(in.type, list)
        /\ in.type \in SupportedTypes =>
              /\ list.codes = <<>> => ReadToTheEnd(in)
              /\ list.exit = IF in.parse # "ok" THEN ListExit(in, "error", <<>>)
                             ELSE IF in.items = <<>> THEN Unsupported
                             ELSE IF Definitive(in.evidence) THEN Corrupted ELSE Success
              /\ in.type = "opj" /\ in.parse = "ok" => list.items = in.items
    BY <1>2, ListFacts
  <2>2. /\ Claims(in.type, inspect)
        /\ in.type \in SupportedTypes =>
              /\ inspect.codes = <<>> => ReadToTheEnd(in)
              /\ inspect.exit = IF in.parse # "ok" THEN ListExit(in, "error", <<>>)
                                ELSE IF Definitive(in.evidence) THEN Corrupted ELSE Success
    BY <1>2, InspectFacts
  <2>3. /\ Claims(in.type, extract)
        /\ extract.items = in.items
        /\ extract.codes = <<>> => in.evidence = None
        /\ extract.status = "ok" => ~PartialExtraction(in)
        /\ extract.status \in {"ok", "partial", "unsupported"}
        /\ extract.exit = IF Definitive(in.evidence) THEN Corrupted
                          ELSE IF in.failOnPartial /\ (PartialExtraction(in) \/ PartialOutputs(in.items))
                               THEN Partial
                          ELSE Success
    BY ExtractFacts
  <2>4. ~Definitive(None)
    BY NoneIsNoWord DEF Definitive
  <2>5. Reports(in) \subseteq {list, inspect, extract} /\ (extract \in Reports(in) => whole \/ extract \in {list, inspect})
    BY DEF Reports
  <2>6. ListExit(in, "error", <<>>) = IF in.parse = "corrupted" THEN Corrupted ELSE General
    BY DEF ListExit
  <2> HIDE DEF list, inspect, extract
  <2>7. sound(list)
    <3>1. ASSUME list.scope = "verified" PROVE list.exit = Success
      <4>1. in.type = "opj" /\ list.codes = <<>> /\ list.items # <<>>
        BY <2>1, <3>1, ClaimsMean
      <4>2. in.parse = "ok" /\ ~Definitive(in.evidence) /\ list.items = in.items
        BY <2>1, <4>1 DEF SupportedTypes, ReadToTheEnd
      <4> QED BY <2>1, <4>1, <4>2 DEF SupportedTypes
    <3> QED BY <2>1, <3>1, ClaimsMean
  <2>8. sound(inspect)
    <3>1. ASSUME inspect.scope = "verified" PROVE inspect.exit = Success
      <4>1. in.type = "opj" /\ inspect.codes = <<>>
        BY <2>2, <3>1, ClaimsMean
      <4> QED BY <2>2, <4>1 DEF SupportedTypes, ReadToTheEnd
    <3> QED BY <2>2, <3>1, ClaimsMean
  <2>9. sound(extract)
    <3>1. ASSUME extract.scope = "verified" PROVE extract.exit = Success
      <4>1. /\ extract.codes = <<>> /\ extract.status \in {"ok", "empty"}
            /\ \A i \in ToSet(in.items) : ~LeavesPartial(i)
        BY <2>3, <3>1, ClaimsMean
      <4>2. in.evidence = None /\ ~PartialExtraction(in)
        BY <2>3, <4>1
      <4>3. ~PartialOutputs(in.items)
        BY <4>1, PartialOutputLeaves DEF PartialOutputs
      <4> QED BY <2>3, <2>4, <4>2, <4>3
    <3> QED BY <2>3, <3>1, ClaimsMean
  <2>10. VerifiedIsFullSupport(in)
    BY <2>5, <2>7, <2>8, <2>9 DEF VerifiedIsFullSupport
  <2>11. ASSUME in.type \in SupportedTypes, damaged PROVE told(list) /\ told(inspect)
    <3>1. ~ReadToTheEnd(in)
      BY <2>11 DEF ReadToTheEnd
    <3>2. list.codes # <<>> /\ inspect.codes # <<>>
      BY <2>1, <2>2, <2>11, <3>1
    <3>3. list.exit # Success /\ inspect.exit # Success
      BY <2>1, <2>2, <2>6, <2>11 DEF Success, Corrupted, General, Unsupported
    <3> QED BY <2>1, <2>2, <3>2, <3>3, ClaimsMean
  <2>12. ASSUME whole, damaged PROVE told(extract)
    <3>1. Definitive(in.evidence)
      BY <2>12
    <3>2. extract.codes # <<>> /\ extract.exit # Success
      BY <2>3, <2>4, <3>1 DEF Success, Corrupted
    <3> QED BY <2>3, <3>2, ClaimsMean
  <2>13. in.type \in SupportedTypes /\ damaged /\ list.exit = Corrupted => inspect.exit = Corrupted
    BY <2>1, <2>2, <2>6 DEF Success, Corrupted, General, Unsupported
  <2>14. DamageIsReported(in)
    <3>1. ASSUME in.type \in SupportedTypes, damaged, NEW r \in Reports(in) PROVE told(r)
      BY <2>5, <2>11, <2>12, <3>1
    <3> QED BY <2>13, <3>1 DEF DamageIsReported, list, inspect
  <2> QED BY <2>10, <2>14 DEF ClaimsAreSound
<1> QED BY <1>1, <1>2
==============================================================================
