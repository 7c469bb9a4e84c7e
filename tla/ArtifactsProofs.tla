--------------------------- MODULE ArtifactsProofs ---------------------------
(***************************************************************************)
(* What RawRegions and HumanArtifacts promise of every input, where the    *)
(* runs look at small ones: the byte map is a partition, no unexplained    *)
(* byte is without an artifact, and the human profile hides nothing.  The  *)
(* first part is what these proofs and those of InventoryProofs and        *)
(* ScansProofs use of sets of numbers, of folds and of the helpers of      *)
(* Commons.                                                                *)
(***************************************************************************)
EXTENDS MCArtifacts, FiniteSetTheorems, TLAPS

------------------------------------------------------------------------------
(* Numbers.                                                                *)

\* Of some natural numbers one is the least.
LEMMA LeastNumber == ASSUME NEW S \in SUBSET Nat, S # {} PROVE \E n \in S : \A m \in S : n <= m
<1>1. PICK n \in S : \A m \in S : ~(<<m, n>> \in OpToRel(<, Nat))
  BY NatLessThanWellFounded, WFMin
<1>2. \A m \in S : ~(m < n)
  BY <1>1 DEF OpToRel
<1> QED BY <1>2

\* What holds of 0, and of the number after each it holds of, holds up to the bound.
LEMMA Upwards ==
    ASSUME NEW N \in Nat, NEW S, 0 \in S, \A n \in 0 .. N - 1 : n \in S => n + 1 \in S
    PROVE  \A n \in 0 .. N : n \in S
<1> SUFFICES ASSUME (0 .. N) \ S # {} PROVE FALSE
  OBVIOUS
<1>1. PICK n \in (0 .. N) \ S : \A m \in (0 .. N) \ S : n <= m
  <2>1. (0 .. N) \ S \in SUBSET Nat
    OBVIOUS
  <2> QED BY <2>1, LeastNumber
<1>2. n \in 1 .. N
  BY <1>1
<1>3. n - 1 \in 0 .. N - 1 /\ n - 1 \in S
  BY <1>1, <1>2
<1>4. (n - 1) + 1 \in S
  BY <1>3
<1> QED BY <1>1, <1>2, <1>4

\* Of numbers up to a bound one is the greatest.
LEMMA GreatestNumber ==
    ASSUME NEW N \in Nat, NEW S \in SUBSET (0 .. N), S # {}
    PROVE  Max(S) \in S /\ \A m \in S : m <= Max(S)
<1>1. PICK k \in {N - n : n \in S} : \A m \in {N - n : n \in S} : k <= m
  <2>1. {N - n : n \in S} # {}
    OBVIOUS
  <2>2. \A n \in S : N - n \in Nat
    OBVIOUS
  <2>3. {N - n : n \in S} \in SUBSET Nat
    BY <2>2
  <2> QED BY <2>1, <2>3, LeastNumber
<1>2. PICK n \in S : k = N - n
  OBVIOUS
<1>3. \A m \in S : n >= m
  BY <1>1, <1>2
<1> QED BY <1>2, <1>3 DEF Max

\* The numbers up to one end with it.
LEMMA Initial ==
    ASSUME NEW n \in Nat \ {0}
    PROVE  /\ Max(1 .. n) = n
           /\ 1 .. n # {}
           /\ (1 .. n) \ {n} = 1 .. n - 1
<1>1. n \in 1 .. n /\ \A y \in 1 .. n : n >= y
  OBVIOUS
<1>2. Max(1 .. n) \in 1 .. n /\ \A y \in 1 .. n : Max(1 .. n) >= y
  BY <1>1 DEF Max
<1> QED BY <1>1, <1>2
------------------------------------------------------------------------------
(* Folds.  FoldLeft is a recursive function of the positions that are left.*)

Folds(f, N, X, base, step) ==
    /\ f \in [SUBSET (1 .. N) -> X]
    /\ \A s \in SUBSET (1 .. N) :
          f[s] = IF s = {} THEN base ELSE step[<<f[s \ {Max(s)}], Max(s)>>]

\* Such a function exists: one for the positions up to n gives one for those up to n + 1.
LEMMA FoldExists ==
    ASSUME NEW N \in Nat, NEW X, NEW base \in X, NEW step \in [X \X (1 .. N) -> X]
    PROVE  \E f : Folds(f, N, X, base, step)
<1> DEFINE isFold(f, n) ==
             \A s \in SUBSET (1 .. n) :
                f[s] = IF s = {} THEN base ELSE step[<<f[s \ {Max(s)}], Max(s)>>]
           reached == {n \in 0 .. N : \E f \in [SUBSET (1 .. n) -> X] : isFold(f, n)}
<1>1. 0 \in reached
  <2> DEFINE f == [s \in SUBSET (1 .. 0) |-> base]
  <2>1. f \in [SUBSET (1 .. 0) -> X] /\ isFold(f, 0)
    OBVIOUS
  <2> HIDE DEF f, isFold
  <2>2. 0 \in 0 .. N
    OBVIOUS
  <2> QED BY <2>1, <2>2
<1>2. ASSUME NEW n \in 0 .. N - 1, n \in reached PROVE n + 1 \in reached
  <2>1. PICK f \in [SUBSET (1 .. n) -> X] : isFold(f, n)
    BY <1>2
  <2> DEFINE g == [s \in SUBSET (1 .. n + 1) |->
                      IF n + 1 \in s THEN step[<<f[s \ {n + 1}], n + 1>>] ELSE f[s]]
  <2>2. ASSUME NEW s \in SUBSET (1 .. n + 1), n + 1 \in s
        PROVE  /\ s # {} /\ Max(s) = n + 1
               /\ g[s] = step[<<g[s \ {Max(s)}], Max(s)>>] /\ g[s] \in X
    <3>1. s \in SUBSET (0 .. n + 1) /\ s # {} /\ n + 1 \in Nat
      BY <2>2
    <3>2. Max(s) \in s /\ Max(s) \in 1 .. n + 1 /\ \A m \in s : m <= Max(s)
      BY <3>1, GreatestNumber
    <3>3. Max(s) = n + 1
      BY <2>2, <3>2
    <3>4. s \ {n + 1} \in SUBSET (1 .. n)
      OBVIOUS
    <3>5. s \ {n + 1} \in SUBSET (1 .. n + 1) /\ g[s \ {n + 1}] = f[s \ {n + 1}]
      BY <3>4
    <3>6. g[s] = step[<<f[s \ {n + 1}], n + 1>>]
      BY <2>2
    <3>7. f[s \ {n + 1}] \in X /\ n + 1 \in 1 .. N
      BY <2>1, <3>4
    <3> QED BY <3>1, <3>3, <3>5, <3>6, <3>7
  <2>3. ASSUME NEW s \in SUBSET (1 .. n + 1), n + 1 \notin s
        PROVE  /\ g[s] = IF s = {} THEN base ELSE step[<<g[s \ {Max(s)}], Max(s)>>]
               /\ g[s] \in X
    <3>1. s \in SUBSET (1 .. n) /\ g[s] = f[s]
      BY <2>3
    <3>2. s \ {Max(s)} \in SUBSET (1 .. n) /\ s \ {Max(s)} \in SUBSET (1 .. n + 1)
      BY <3>1
    <3>3a. n + 1 \notin s \ {Max(s)}
      BY <2>3
    <3>3. g[s \ {Max(s)}] = f[s \ {Max(s)}]
      BY <3>2, <3>3a
    <3> QED BY <2>1, <3>1, <3>3
  <2>4. g \in [SUBSET (1 .. n + 1) -> X]
    BY <2>2, <2>3
  <2>5. isFold(g, n + 1)
    BY <2>2, <2>3
  <2> HIDE DEF g, isFold
  <2> QED BY <2>4, <2>5
<1>3. N \in reached
  <2> HIDE DEF reached
  <2> QED BY <1>1, <1>2, Upwards
<1> QED BY <1>3 DEF Folds

\* What a fold has come to after each number of positions.
Steps(h, N, X, base, step, result) ==
    /\ h \in [0 .. N -> X]
    /\ h[0] = base
    /\ h[N] = result
    /\ \A n \in 1 .. N : h[n] = step[<<h[n - 1], n>>]

Recurs(iter, N, X, base, step) ==
    \A s \in SUBSET (1 .. N) :
       IF s = {} THEN iter[s] = base
       ELSE iter[s \ {Max(s)}] \in X => iter[s] = step[<<iter[s \ {Max(s)}], Max(s)>>]

\* What the function behind a fold has for the first positions, one more with each, is the
\* fold as it goes along.
LEMMA FoldSteps ==
    ASSUME NEW N \in Nat, NEW X, NEW base \in X, NEW step \in [X \X (1 .. N) -> X], NEW iter,
           Recurs(iter, N, X, base, step)
    PROVE  \E h : Steps(h, N, X, base, step, iter[1 .. N])
<1> DEFINE h == [n \in 0 .. N |-> iter[1 .. n]]
           reached == {n \in 0 .. N : h[n] \in X}
<1>1. h[0] = base
  <2>1. 1 .. 0 = {} /\ 0 \in 0 .. N
    OBVIOUS
  <2> QED BY <2>1 DEF Recurs
<1>2. ASSUME NEW n \in 1 .. N, h[n - 1] \in X
      PROVE  h[n] = step[<<h[n - 1], n>>] /\ h[n] \in X
  <2>1. Max(1 .. n) = n /\ 1 .. n # {} /\ (1 .. n) \ {n} = 1 .. n - 1
    <3>1. n \in Nat \ {0}
      OBVIOUS
    <3> QED BY <3>1, Initial
  <2>2. n \in 0 .. N /\ n - 1 \in 0 .. N /\ \A k \in 1 .. n : k \in 1 .. N
    OBVIOUS
  <2>3. h[n] = iter[1 .. n] /\ h[n - 1] = iter[1 .. n - 1]
    BY <2>2
  <2>4. h[n] = step[<<h[n - 1], n>>]
    <3>1. iter[(1 .. n) \ {Max(1 .. n)}] \in X
      BY <1>2, <2>1, <2>3
    <3>2. iter[1 .. n] = step[<<iter[(1 .. n) \ {Max(1 .. n)}], Max(1 .. n)>>]
      BY <2>1, <2>2, <3>1 DEF Recurs
    <3> QED BY <2>1, <2>3, <3>2
  <2> QED BY <1>2, <2>4
<1>3. 0 \in reached
  BY <1>1
<1>4. ASSUME NEW n \in 0 .. N - 1, n \in reached PROVE n + 1 \in reached
  <2>1. n + 1 \in 1 .. N /\ n + 1 \in 0 .. N /\ (n + 1) - 1 = n
    OBVIOUS
  <2>2. h[(n + 1) - 1] \in X
    BY <1>4, <2>1
  <2>3. h[n + 1] \in X
    BY <1>2, <2>1, <2>2
  <2> QED BY <2>1, <2>3
<1>5. \A n \in 0 .. N : n \in reached
  <2> HIDE DEF reached
  <2> QED BY <1>3, <1>4, Upwards
<1>6. \A n \in 0 .. N : h[n] \in X
  BY <1>5
<1>7. h \in [0 .. N -> X] /\ h[N] = iter[1 .. N]
  BY <1>6
<1>8. \A n \in 1 .. N : h[n] = step[<<h[n - 1], n>>]
  <2> SUFFICES ASSUME NEW n \in 1 .. N PROVE h[n] = step[<<h[n - 1], n>>]
    OBVIOUS
  <2>1. n - 1 \in 0 .. N
    OBVIOUS
  <2> HIDE DEF h
  <2> QED BY <1>2, <1>6, <2>1
<1>9. Steps(h, N, X, base, step, iter[1 .. N])
  <2> HIDE DEF h
  <2> QED BY <1>1, <1>7, <1>8 DEF Steps
<1> HIDE DEF h
<1> QED BY <1>7, <1>9
------------------------------------------------------------------------------
(* Sorted sets.  An order is the set of its pairs.                         *)

IsOrder(R, S) ==
    /\ \A x \in S : <<x, x>> \notin R
    /\ \A x, y, z \in S : <<x, y>> \in R /\ <<y, z>> \in R => <<x, z>> \in R
    /\ \A x, y \in S : x # y => <<x, y>> \in R \/ <<y, x>> \in R

Below(R, S, x) == {y \in S : <<y, x>> \in R}

\* What is before a member is fewer than what is before a later one, and than the set.
LEMMA RanksGrow ==
    ASSUME NEW S, IsFiniteSet(S), NEW R, IsOrder(R, S)
    PROVE  /\ \A x \in S : Cardinality(Below(R, S, x)) \in 0 .. Cardinality(S) - 1
           /\ \A x, y \in S : <<x, y>> \in R =>
                 Cardinality(Below(R, S, x)) < Cardinality(Below(R, S, y))
<1>1. ASSUME NEW T \in SUBSET S, NEW U \in SUBSET T, T # U
      PROVE  Cardinality(U) \in Nat /\ Cardinality(T) \in Nat /\ Cardinality(U) < Cardinality(T)
  <2>1. IsFiniteSet(T)
    BY FS_Subset
  <2>2. IsFiniteSet(U) /\ Cardinality(U) <= Cardinality(T) /\ Cardinality(U) # Cardinality(T)
    BY <1>1, <2>1, FS_Subset
  <2>3. Cardinality(U) \in Nat /\ Cardinality(T) \in Nat
    BY <2>1, <2>2, FS_CardinalityType
  <2> QED BY <2>2, <2>3
<1>2. ASSUME NEW x \in S PROVE Cardinality(Below(R, S, x)) \in 0 .. Cardinality(S) - 1
  <2>1. Below(R, S, x) \in SUBSET S /\ S # Below(R, S, x)
    BY DEF Below, IsOrder
  <2>2. /\ Cardinality(Below(R, S, x)) \in Nat /\ Cardinality(S) \in Nat
        /\ Cardinality(Below(R, S, x)) < Cardinality(S)
    BY <1>1, <2>1
  <2> QED BY <2>2
<1>3. ASSUME NEW x \in S, NEW y \in S, <<x, y>> \in R
      PROVE  Cardinality(Below(R, S, x)) < Cardinality(Below(R, S, y))
  <2>1. Below(R, S, y) \in SUBSET S /\ Below(R, S, x) \in SUBSET Below(R, S, y)
    BY <1>3 DEF Below, IsOrder
  <2>2. x \in Below(R, S, y) /\ x \notin Below(R, S, x)
    BY <1>3 DEF Below, IsOrder
  <2> QED BY <1>1, <2>1, <2>2
<1> QED BY <1>2, <1>3

\* Each place up to the size of the set is the place of one member.
LEMMA EveryRankIsTaken ==
    ASSUME NEW S, IsFiniteSet(S), NEW R, IsOrder(R, S), NEW k \in 0 .. Cardinality(S) - 1
    PROVE  \E x \in S : Cardinality(Below(R, S, x)) = k
<1> DEFINE rank == [x \in S |-> Cardinality(Below(R, S, x))]
           places == 0 .. Cardinality(S) - 1
<1>1. Cardinality(S) \in Nat
  BY FS_CardinalityType
<1>2. IsFiniteSet(places) /\ Cardinality(places) = Cardinality(S)
  <2>1. 0 \in Int /\ Cardinality(S) - 1 \in Int
    BY <1>1
  <2>2. IsFiniteSet(places)
        /\ Cardinality(places) = IF 0 > Cardinality(S) - 1 THEN 0 ELSE Cardinality(S) - 1 - 0 + 1
    BY <2>1, FS_Interval
  <2> QED BY <1>1, <2>2
<1>3. rank \in [S -> places]
  BY RanksGrow
<1>4. \A x, y \in S : x # y => rank[x] # rank[y]
  <2> SUFFICES ASSUME NEW x \in S, NEW y \in S, x # y PROVE rank[x] # rank[y]
    OBVIOUS
  <2>1. rank[x] \in Int /\ rank[y] \in Int
    BY <1>1, <1>3
  <2>2. <<x, y>> \in R \/ <<y, x>> \in R
    BY DEF IsOrder
  <2>3. rank[x] < rank[y] \/ rank[y] < rank[x]
    BY <2>2, RanksGrow
  <2> QED BY <2>1, <2>3
<1>5. rank \in Injection(S, places)
  <2> HIDE DEF rank, places
  <2> QED BY <1>3, <1>4 DEF Injection, IsInjective
<1>6. rank \in Surjection(S, places)
  <2> HIDE DEF rank, places
  <2> QED BY <1>2, <1>5, FS_Injection
<1> QED BY <1>6 DEF Surjection

\* A function of the first numbers is a sequence.
LEMMA TupleIsSeq ==
    ASSUME NEW N \in Nat, NEW S, NEW q \in [1 .. N -> S] PROVE q \in Seq(S) /\ Len(q) = N
OBVIOUS

\* q has at each place a member with as many before it, where there is one.
HasPlaces(q, R, S) ==
    /\ DOMAIN q = 1 .. Cardinality(S) /\ q = [n \in DOMAIN q |-> q[n]]
    /\ \A n \in DOMAIN q : (\E x \in S : Cardinality(Below(R, S, x)) = n - 1) =>
          q[n] \in S /\ Cardinality(Below(R, S, q[n])) = n - 1

IsInOrder(q, R, S) ==
    /\ Cardinality(S) \in Nat
    /\ q \in [1 .. Cardinality(S) -> S] /\ q \in Seq(S) /\ Len(q) = Cardinality(S)
    /\ \A x \in S : \E n \in 1 .. Cardinality(S) : q[n] = x
    /\ \A n, m \in 1 .. Cardinality(S) : n < m => <<q[n], q[m]>> \in R

\* A sorted set has each member once, in the order.
LEMMA SortedIsInOrder ==
    ASSUME NEW S, IsFiniteSet(S), NEW R, IsOrder(R, S), NEW q, HasPlaces(q, R, S)
    PROVE  IsInOrder(q, R, S)
<1> DEFINE N == Cardinality(S)
           rank(x) == Cardinality(Below(R, S, x))
<1>1. N \in Nat
  BY FS_CardinalityType
<1>0. /\ DOMAIN q = 1 .. N /\ q = [n \in DOMAIN q |-> q[n]]
      /\ \A n \in DOMAIN q : (\E x \in S : rank(x) = n - 1) => q[n] \in S /\ rank(q[n]) = n - 1
  BY DEF HasPlaces
<1>2. \A n \in 1 .. N : q[n] \in S /\ rank(q[n]) = n - 1
  <2> SUFFICES ASSUME NEW n \in 1 .. N PROVE q[n] \in S /\ rank(q[n]) = n - 1
    OBVIOUS
  <2>1. n - 1 \in 0 .. N - 1
    BY <1>1
  <2>2. \E x \in S : rank(x) = n - 1
    BY <2>1, EveryRankIsTaken
  <2> QED BY <1>0, <2>2
<1>3. q \in [1 .. N -> S]
  BY <1>0, <1>2
<1>4. q \in Seq(S) /\ Len(q) = N
  BY <1>1, <1>3, TupleIsSeq
<1>5. \A x \in S : rank(x) \in 0 .. N - 1
  BY RanksGrow
<1>6. \A x, y \in S : x # y => rank(x) # rank(y)
  <2> SUFFICES ASSUME NEW x \in S, NEW y \in S, x # y PROVE rank(x) # rank(y)
    OBVIOUS
  <2>1. <<x, y>> \in R \/ <<y, x>> \in R
    BY DEF IsOrder
  <2>2. rank(x) < rank(y) \/ rank(y) < rank(x)
    BY <2>1, RanksGrow
  <2>3. rank(x) \in Int /\ rank(y) \in Int
    BY <1>1, <1>5
  <2> QED BY <2>2, <2>3
<1>7. \A x \in S : \E n \in 1 .. N : q[n] = x
  <2> SUFFICES ASSUME NEW x \in S PROVE \E n \in 1 .. N : q[n] = x
    OBVIOUS
  <2>1. rank(x) + 1 \in 1 .. N /\ (rank(x) + 1) - 1 = rank(x)
    BY <1>1, <1>5
  <2>2. q[rank(x) + 1] \in S /\ rank(q[rank(x) + 1]) = rank(x)
    BY <1>2, <2>1
  <2> QED BY <1>6, <2>1, <2>2
<1>8. ASSUME NEW n \in 1 .. N, NEW m \in 1 .. N, n < m PROVE <<q[n], q[m]>> \in R
  <2>1. q[n] \in S /\ q[m] \in S /\ rank(q[n]) < rank(q[m])
    BY <1>1, <1>2, <1>8
  <2>2. q[n] # q[m] /\ ~(rank(q[m]) < rank(q[n]))
    BY <1>1, <1>2, <1>8
  <2>3. <<q[m], q[n]>> \notin R
    BY <2>1, <2>2, RanksGrow
  <2> QED BY <2>1, <2>2, <2>3 DEF IsOrder
<1> QED BY <1>1, <1>3, <1>4, <1>7, <1>8 DEF IsInOrder

\* Sorted numbers: each once, the smaller ones first.
LEMMA SortedNumbers ==
    ASSUME NEW S \in SUBSET Int, IsFiniteSet(S)
    PROVE  /\ Cardinality(S) \in Nat
           /\ Ascending(S) \in [1 .. Cardinality(S) -> S]
           /\ Ascending(S) \in Seq(S) /\ Len(Ascending(S)) = Cardinality(S)
           /\ \A x \in S : \E n \in 1 .. Cardinality(S) : Ascending(S)[n] = x
           /\ \A n, m \in 1 .. Cardinality(S) : n < m => Ascending(S)[n] < Ascending(S)[m]
<1> DEFINE R == {p \in S \X S : p[1] < p[2]}
           q == Ascending(S)
<1>1. IsOrder(R, S)
  BY DEF IsOrder
<1>2. \A x \in S : Below(R, S, x) = {y \in S : y < x}
  BY DEF Below
<1>3. q = [n \in 1 .. Cardinality(S) |-> CHOOSE x \in S : Cardinality({y \in S : y < x}) = n - 1]
  BY DEF Ascending, Sorted
<1>4. DOMAIN q = 1 .. Cardinality(S) /\ q = [n \in DOMAIN q |-> q[n]]
  BY <1>3
<1>5. ASSUME NEW n \in DOMAIN q, \E x \in S : Cardinality(Below(R, S, x)) = n - 1
      PROVE  q[n] \in S /\ Cardinality(Below(R, S, q[n])) = n - 1
  <2>1. q[n] = CHOOSE x \in S : Cardinality({y \in S : y < x}) = n - 1
    BY <1>3, <1>4
  <2>2. \E x \in S : Cardinality({y \in S : y < x}) = n - 1
    BY <1>2, <1>5
  <2> HIDE DEF q, R
  <2>3. q[n] \in S /\ Cardinality({y \in S : y < q[n]}) = n - 1
    BY <2>1, <2>2
  <2> QED BY <1>2, <2>3
<1>6. \A a, b \in S : <<a, b>> \in R <=> a < b
  OBVIOUS
<1> HIDE DEF R, q
<1>7. /\ Cardinality(S) \in Nat
      /\ q \in [1 .. Cardinality(S) -> S] /\ q \in Seq(S) /\ Len(q) = Cardinality(S)
      /\ \A x \in S : \E n \in 1 .. Cardinality(S) : q[n] = x
      /\ \A n, m \in 1 .. Cardinality(S) : n < m => <<q[n], q[m]>> \in R
  <2>1. HasPlaces(q, R, S)
    BY <1>4, <1>5 DEF HasPlaces
  <2>2. IsInOrder(q, R, S)
    BY <1>1, <2>1, SortedIsInOrder
  <2> QED BY <2>2 DEF IsInOrder
<1>8. \A n, m \in 1 .. Cardinality(S) : n < m => q[n] < q[m]
  BY <1>6, <1>7
<1> QED BY <1>7, <1>8 DEF q
------------------------------------------------------------------------------
(* Sorting by a key: SortedBy inserts each element after those of no       *)
(* greater key.                                                            *)

IsInKeyOrder(s, key) == \A n, m \in DOMAIN s : n < m => key[s[n]] <= key[s[m]]
Ordered(Y, key) == {t \in Seq(Y) : IsInKeyOrder(t, key)}
Insert(key, t, x) == InsertAt(t, Cardinality({n \in DOMAIN t : key[t[n]] <= key[x]}) + 1, x)
InsertStep(Y, key, s) == [p \in Ordered(Y, key) \X (1 .. Len(s)) |-> Insert(key, p[1], s[p[2]])]

\* A set of numbers that with each holds the lesser ones holds as many as its greatest says.
LEMMA InitialPart ==
    ASSUME NEW L \in Nat, NEW A \in SUBSET (1 .. L), \A n \in A : \A m \in 1 .. L : m < n => m \in A
    PROVE  Cardinality(A) \in 0 .. L /\ A = 1 .. Cardinality(A)
<1> DEFINE g == Max({0} \cup A)
<1>1. g \in {0} \cup A /\ \A n \in A : n <= g
  <2>1. {0} \cup A \in SUBSET (0 .. L) /\ {0} \cup A # {}
    OBVIOUS
  <2>2. g \in {0} \cup A /\ \A n \in {0} \cup A : n <= g
    BY <2>1, GreatestNumber
  <2> QED BY <2>2
<1> HIDE DEF g
<1>2. g \in 0 .. L
  BY <1>1
<1>3. A = 1 .. g
  <2>1. \A n \in A : n \in 1 .. g
    BY <1>1, <1>2
  <2>2. ASSUME NEW n \in 1 .. g PROVE n \in A
    <3>1. g \in A /\ n \in 1 .. L /\ (n < g \/ n = g)
      BY <1>1, <1>2
    <3> QED BY <3>1
  <2> QED BY <2>1, <2>2
<1>4. Cardinality(1 .. g) = g
  <2>1. 1 \in Int /\ g \in Int
    BY <1>2
  <2>2. Cardinality(1 .. g) = IF 1 > g THEN 0 ELSE g - 1 + 1
    BY <2>1, FS_Interval
  <2> QED BY <1>2, <2>2
<1> QED BY <1>2, <1>3, <1>4

\* t is s with x after its first k members.
IsInserted(t, s, k, x, Y) ==
    /\ t \in Seq(Y) /\ Len(t) = Len(s) + 1
    /\ \A n \in 1 .. k : t[n] = s[n]
    /\ t[k + 1] = x
    /\ \A n \in k + 2 .. Len(s) + 1 : t[n] = s[n - 1]

\* What is inserted into a sequence of k or more after the first k of them.
LEMMA InsertedAre ==
    ASSUME NEW Y, NEW s \in Seq(Y), NEW x \in Y, NEW k \in 0 .. Len(s)
    PROVE  IsInserted(InsertAt(s, k + 1, x), s, k, x, Y)
<1> DEFINE front == SubSeq(s, 1, k)
           back == SubSeq(s, k + 1, Len(s))
<1>1. InsertAt(s, k + 1, x) = front \o <<x>> \o back
  <2>1. (k + 1) - 1 = k
    OBVIOUS
  <2> QED BY <2>1 DEF InsertAt
<1>2. front \in Seq(Y) /\ Len(front) = k /\ \A n \in 1 .. k : front[n] = s[n]
  OBVIOUS
<1>3. /\ back \in Seq(Y) /\ Len(back) = Len(s) - k
      /\ \A n \in 1 .. Len(s) - k : back[n] = s[k + n]
  OBVIOUS
<1> HIDE DEF front, back
<1>4. <<x>> \in Seq(Y) /\ Len(<<x>>) = 1 /\ <<x>>[1] = x
  OBVIOUS
<1> DEFINE start == front \o <<x>>
<1>5. /\ start \in Seq(Y) /\ Len(start) = k + 1
      /\ \A n \in 1 .. k : start[n] = s[n]
      /\ start[k + 1] = x
  BY <1>2, <1>4
<1> HIDE DEF start
<1> DEFINE all == start \o back
<1>6. /\ all \in Seq(Y) /\ Len(all) = Len(s) + 1
      /\ \A n \in 1 .. k + 1 : all[n] = start[n]
      /\ \A n \in k + 2 .. Len(s) + 1 : all[n] = back[n - (k + 1)]
  BY <1>3, <1>5
<1>7. InsertAt(s, k + 1, x) = all
  BY <1>1 DEF start
<1> HIDE DEF all
<1>8. \A n \in k + 2 .. Len(s) + 1 : back[n - (k + 1)] = s[n - 1]
  <2> SUFFICES ASSUME NEW n \in k + 2 .. Len(s) + 1 PROVE back[n - (k + 1)] = s[n - 1]
    OBVIOUS
  <2>1. n - (k + 1) \in 1 .. Len(s) - k /\ k + (n - (k + 1)) = n - 1
    OBVIOUS
  <2> QED BY <1>3, <2>1
<1> QED BY <1>5, <1>6, <1>7, <1>8 DEF IsInserted

\* Inserting keeps the order.
LEMMA InsertKeepsOrder ==
    ASSUME NEW Y, NEW key \in [Y -> Int], NEW s \in Ordered(Y, key), NEW x \in Y
    PROVE  /\ Insert(key, s, x) \in Ordered(Y, key) /\ ToSet(Insert(key, s, x)) = ToSet(s) \cup {x}
           /\ Len(Insert(key, s, x)) = Len(s) + 1
<1> DEFINE A == {n \in DOMAIN s : key[s[n]] <= key[x]}
           k == Cardinality(A)
           t == Insert(key, s, x)
           L == Len(s)
<1>1. s \in Seq(Y) /\ L \in Nat /\ DOMAIN s = 1 .. L /\ IsInKeyOrder(s, key)
      /\ \A n \in 1 .. L : s[n] \in Y /\ key[s[n]] \in Int
  BY DEF Ordered
<1>2. \A n \in A : \A m \in 1 .. L : m < n => m \in A
  BY <1>1 DEF IsInKeyOrder
<1>3. k \in 0 .. L /\ A = 1 .. k
  <2>1. A \in SUBSET (1 .. L)
    BY <1>1
  <2> HIDE DEF A, L
  <2> QED BY <1>1, <1>2, <2>1, InitialPart
<1>4. t = InsertAt(s, k + 1, x)
  BY DEF Insert
<1>5. \A n \in 1 .. k : key[s[n]] <= key[x]
  BY <1>3
<1>6. \A n \in k + 1 .. L : key[x] <= key[s[n]]
  <2> SUFFICES ASSUME NEW n \in k + 1 .. L PROVE key[x] <= key[s[n]]
    OBVIOUS
  <2>1. n \notin 1 .. k /\ n \in 1 .. L
    BY <1>3
  <2>2. ~(key[s[n]] <= key[x])
    BY <1>1, <1>3, <2>1
  <2> QED BY <1>1, <2>1, <2>2
<1> HIDE DEF A, k, t
<1>7. /\ t \in Seq(Y) /\ Len(t) = L + 1 /\ DOMAIN t = 1 .. L + 1
      /\ \A n \in 1 .. k : t[n] = s[n]
      /\ t[k + 1] = x
      /\ \A n \in k + 2 .. L + 1 : t[n] = s[n - 1]
  <2>1. k \in 0 .. Len(s) /\ s \in Seq(Y)
    BY <1>1, <1>3
  <2>2. IsInserted(InsertAt(s, k + 1, x), s, k, x, Y)
    BY <2>1, InsertedAre
  <2> HIDE DEF L
  <2>3. /\ t \in Seq(Y) /\ Len(t) = Len(s) + 1
        /\ \A n \in 1 .. k : t[n] = s[n]
        /\ t[k + 1] = x
        /\ \A n \in k + 2 .. Len(s) + 1 : t[n] = s[n - 1]
    BY <1>4, <2>2 DEF IsInserted
  <2> QED BY <2>3 DEF L
<1>7a. Len(t) = Len(s) + 1
  BY <1>7
<1> HIDE DEF L
<1>8. ASSUME NEW n \in 1 .. L + 1, NEW m \in 1 .. L + 1, n < m PROVE key[t[n]] <= key[t[m]]
  <2>1. CASE m <= k
    <3>1. n \in 1 .. k /\ m \in 1 .. k /\ n \in 1 .. L /\ m \in 1 .. L
      BY <1>1, <1>3, <1>8, <2>1
    <3> QED BY <1>1, <1>7, <1>8, <3>1 DEF IsInKeyOrder
  <2>2. CASE m = k + 1
    <3>1. n \in 1 .. k
      BY <1>1, <1>3, <1>8, <2>2
    <3> QED BY <1>5, <1>7, <2>2, <3>1
  <2>3. CASE m > k + 1
    <3>1. m \in k + 2 .. L + 1 /\ m - 1 \in k + 1 .. L /\ m - 1 \in 1 .. L
      BY <1>1, <1>3, <1>8, <2>3
    <3>2. t[m] = s[m - 1]
      BY <1>7, <3>1
    <3>3. CASE n <= k
      <4>1. n \in 1 .. k /\ n \in 1 .. L /\ n < m - 1
        BY <1>1, <1>3, <2>3, <3>3
      <4>2. t[n] = s[n] /\ key[s[n]] <= key[s[m - 1]]
        BY <1>1, <1>7, <3>1, <4>1 DEF IsInKeyOrder
      <4> QED BY <3>2, <4>2
    <3>4. CASE n = k + 1
      BY <1>6, <1>7, <3>1, <3>2, <3>4
    <3>5. CASE n > k + 1
      <4>1. n \in k + 2 .. L + 1 /\ n - 1 \in 1 .. L /\ n - 1 < m - 1
        BY <1>1, <1>3, <1>8, <3>5
      <4>2. t[n] = s[n - 1]
        BY <1>7, <4>1
      <4> QED BY <1>1, <3>1, <3>2, <4>1, <4>2 DEF IsInKeyOrder
    <3>6. n <= k \/ n = k + 1 \/ n > k + 1
      BY <1>3
    <3> QED BY <3>3, <3>4, <3>5, <3>6
  <2>4. m <= k \/ m = k + 1 \/ m > k + 1
    BY <1>3
  <2> QED BY <2>1, <2>2, <2>3, <2>4
<1>9. IsInKeyOrder(t, key)
  BY <1>7, <1>8 DEF IsInKeyOrder
<1>10. \A y \in ToSet(t) : y \in ToSet(s) \cup {x}
  <2> SUFFICES ASSUME NEW n \in 1 .. L + 1 PROVE t[n] \in ToSet(s) \cup {x}
    BY <1>7 DEF ToSet
  <2>1. n \in 1 .. k \/ n = k + 1 \/ n \in k + 2 .. L + 1
    BY <1>1, <1>3
  <2>2. n \in 1 .. k => n \in 1 .. L
    BY <1>1, <1>3
  <2>3. n \in k + 2 .. L + 1 => n - 1 \in 1 .. L
    BY <1>1, <1>3
  <2> QED BY <1>1, <1>7, <2>1, <2>2, <2>3 DEF ToSet
<1>11. \A y \in ToSet(s) \cup {x} : y \in ToSet(t)
  <2>1. x \in ToSet(t)
    <3>1. k + 1 \in 1 .. L + 1
      BY <1>1, <1>3
    <3> QED BY <1>7, <3>1 DEF ToSet
  <2>2. ASSUME NEW n \in 1 .. L PROVE s[n] \in ToSet(t)
    <3>1. CASE n \in 1 .. k
      <4>1. n \in 1 .. L + 1 /\ t[n] = s[n]
        BY <1>1, <1>7, <3>1
      <4> QED BY <1>7, <4>1 DEF ToSet
    <3>2. CASE n \notin 1 .. k
      <4>1. n + 1 \in k + 2 .. L + 1 /\ (n + 1) - 1 = n /\ n + 1 \in 1 .. L + 1
        BY <1>1, <1>3, <3>2
      <4>2. t[n + 1] = s[n]
        BY <1>7, <4>1
      <4> QED BY <1>7, <4>1, <4>2 DEF ToSet
    <3> QED BY <3>1, <3>2
  <2> QED BY <1>1, <2>1, <2>2 DEF ToSet
<1> QED BY <1>7, <1>7a, <1>9, <1>10, <1>11 DEF Ordered, t

\* What insertion makes of a sequence: its members, in order of the key.
LEMMA InsertionSorts ==
    ASSUME NEW Y, NEW key \in [Y -> Int], NEW s \in Seq(Y), NEW h, NEW result,
           Steps(h, Len(s), Ordered(Y, key), <<>>, InsertStep(Y, key, s), result)
    PROVE  result \in Ordered(Y, key) /\ ToSet(result) = ToSet(s) /\ Len(result) = Len(s)
<1> DEFINE N == Len(s)
           upto(n) == {s[m] : m \in 1 .. n}
           reached == {n \in 0 .. N : ToSet(h[n]) = upto(n) /\ Len(h[n]) = n}
<1>1. /\ N \in Nat /\ h \in [0 .. N -> Ordered(Y, key)] /\ h[0] = <<>> /\ h[N] = result
      /\ \A n \in 1 .. N : h[n] = InsertStep(Y, key, s)[<<h[n - 1], n>>]
  BY DEF Steps
<1>2. 0 \in reached
  <2>1. ToSet(<<>>) = {} /\ upto(0) = {} /\ Len(<<>>) = 0
    BY DEF ToSet
  <2>2. 0 \in 0 .. N /\ h[0] = <<>>
    BY <1>1
  <2> HIDE DEF upto, N
  <2> QED BY <2>1, <2>2
<1>3. ASSUME NEW n \in 0 .. N - 1, n \in reached PROVE n + 1 \in reached
  <2>1. n + 1 \in 1 .. N /\ n + 1 \in 0 .. N /\ (n + 1) - 1 = n /\ n \in 0 .. N
    BY <1>1
  <2>2. h[n] \in Ordered(Y, key) /\ s[n + 1] \in Y
    <3>1. h[n] \in Ordered(Y, key)
      BY <1>1, <2>1
    <3>2. s \in [1 .. N -> Y]
      OBVIOUS
    <3> HIDE DEF N
    <3>3. s[n + 1] \in Y
      BY <2>1, <3>2
    <3> QED BY <3>1, <3>3
  <2>3. h[n + 1] = InsertStep(Y, key, s)[<<h[n], n + 1>>]
    BY <1>1, <2>1
  <2>4. h[n + 1] = Insert(key, h[n], s[n + 1])
    BY <2>1, <2>2, <2>3 DEF InsertStep
  <2>5. ToSet(h[n + 1]) = ToSet(h[n]) \cup {s[n + 1]} /\ Len(h[n + 1]) = Len(h[n]) + 1
    <3> HIDE DEF N, upto, reached
    <3>1. /\ ToSet(Insert(key, h[n], s[n + 1])) = ToSet(h[n]) \cup {s[n + 1]}
          /\ Len(Insert(key, h[n], s[n + 1])) = Len(h[n]) + 1
      BY <2>2, InsertKeepsOrder, SMTT(20)
    <3> QED BY <2>4, <3>1
  <2>6. upto(n + 1) = upto(n) \cup {s[n + 1]}
    <3>1. 1 .. n + 1 = (1 .. n) \cup {n + 1}
      BY <2>1
    <3> QED BY <3>1
  <2>7. ToSet(h[n]) = upto(n) /\ Len(h[n]) = n
    BY <1>3
  <2>8. ToSet(h[n + 1]) = upto(n + 1) /\ Len(h[n + 1]) = n + 1
    BY <2>5, <2>6, <2>7
  <2> HIDE DEF upto
  <2> QED BY <2>1, <2>8
<1>4. N \in reached
  <2> HIDE DEF reached, N
  <2>1. N \in 0 .. N
    BY <1>1
  <2> QED BY <1>1, <1>2, <1>3, <2>1, Upwards
<1>5. ToSet(s) = upto(N)
  BY <1>1 DEF ToSet
<1> QED BY <1>1, <1>4, <1>5

------------------------------------------------------------------------------
(* Parts of sequences.                                                     *)

\* A part of a sequence is a sequence of the same values.
LEMMA PartIs ==
    ASSUME NEW Value, NEW s \in Seq(Value), NEW a \in Int, NEW b \in Int, 1 <= a, b <= Len(s)
    PROVE  SubSeq(s, a, b) \in Seq(Value)
OBVIOUS

\* The product of numbers is a number.
LEMMA ProductIs == ASSUME NEW a \in Nat, NEW b \in Nat PROVE a * b \in Nat
OBVIOUS

\* A function of the members of a sequence yields a sequence.
LEMMA EachIs ==
    ASSUME NEW X, NEW Y, NEW s \in Seq(X), NEW f \in [X -> Y], NEW t,
           t = [n \in DOMAIN s |-> f[s[n]]]
    PROVE  /\ t \in Seq(Y) /\ Len(t) = Len(s) /\ Len(t) \in Nat /\ DOMAIN t = 1 .. Len(t)
           /\ ToSet(t) = {f[x] : x \in ToSet(s)}
<1>1. Len(s) \in Nat /\ DOMAIN s = 1 .. Len(s) /\ \A n \in 1 .. Len(s) : s[n] \in X
  OBVIOUS
<1>2. t \in [1 .. Len(s) -> Y]
  BY <1>1
<1>3. t \in Seq(Y) /\ Len(t) = Len(s)
  BY <1>1, <1>2, TupleIsSeq
<1>4. ToSet(t) = {f[x] : x \in ToSet(s)}
  BY <1>1 DEF ToSet
<1> QED BY <1>1, <1>2, <1>3, <1>4

\* at leads from the positions of q to those of s it is picked from, in order.
LeadsTo(at, q, s, P) ==
    /\ at \in [1 .. Len(q) -> P]
    /\ \A n \in P : \E k \in 1 .. Len(q) : at[k] = n
    /\ \A k, l \in 1 .. Len(q) : k < l => at[k] < at[l]
    /\ \A k \in 1 .. Len(q) : q[k] = s[at[k]]

\* What is picked from a sequence is there in its order.
LEMMA PickedInOrder ==
    ASSUME NEW Y, NEW s \in Seq(Y), NEW P \in SUBSET (1 .. Len(s)), NEW q, q = Picked(s, P)
    PROVE  Len(q) = Cardinality(P) /\ \E at : LeadsTo(at, q, s, P)
<1> DEFINE at == Ascending(P)
           N == Cardinality(P)
<1>1. Len(s) \in Nat /\ \A n \in 1 .. Len(s) : s[n] \in Y
  OBVIOUS
<1>2. P \in SUBSET Int /\ IsFiniteSet(P)
  <2>1. IsFiniteSet(1 .. Len(s))
    <3>1. 1 \in Int /\ Len(s) \in Int
      BY <1>1
    <3> QED BY <3>1, FS_Interval
  <2>2. IsFiniteSet(P)
    BY <2>1, FS_Subset
  <2> QED BY <1>1, <2>2
<1>3. /\ N \in Nat /\ at \in [1 .. N -> P]
      /\ \A x \in P : \E n \in 1 .. N : at[n] = x
      /\ \A n, m \in 1 .. N : n < m => at[n] < at[m]
  BY <1>2, SortedNumbers
<1>4. q = [n \in DOMAIN at |-> s[at[n]]]
  BY DEF Picked, Each
<1> HIDE DEF at, N
<1>5. q \in [1 .. N -> Y]
  BY <1>1, <1>3, <1>4
<1>6. Len(q) = N
  BY <1>3, <1>5, TupleIsSeq
<1>7. \A k \in 1 .. N : q[k] = s[at[k]]
  BY <1>3, <1>4
<1>8. LeadsTo(at, q, s, P)
  BY <1>3, <1>6, <1>7 DEF LeadsTo
<1> QED BY <1>6, <1>8 DEF N

\* The blocks of a file are parts of it.
LEMMA BlocksAre ==
    ASSUME NEW Value, NEW file \in Seq(Value) PROVE Blocks(file) \in Seq(Seq(Value))
<1> DEFINE N == (Len(file) + ChunkSize - 1) \div ChunkSize
           block(n) == SubSeq(file, (n - 1) * ChunkSize + 1, AtMost(n * ChunkSize, Len(file)))
<1>1. ChunkSize \in Nat \ {0} /\ Len(file) \in Nat
  BY SizesAssumption
<1>2. N \in Nat
  <2>1. Len(file) + ChunkSize - 1 \in Nat
    BY <1>1
  <2> QED BY <1>1, <2>1
<1> HIDE DEF N
<1>3. ASSUME NEW n \in 1 .. N PROVE block(n) \in Seq(Value)
  <2>1. n - 1 \in Nat /\ n \in Nat
    BY <1>2
  <2>2. (n - 1) * ChunkSize \in Nat /\ n * ChunkSize \in Nat
    BY <1>1, <2>1, ProductIs
  <2> DEFINE a == (n - 1) * ChunkSize
             b == n * ChunkSize
  <2> HIDE DEF a, b
  <2>3. a + 1 \in Int /\ 1 <= a + 1 /\ AtMost(b, Len(file)) \in Int /\ AtMost(b, Len(file)) <= Len(file)
    BY <1>1, <2>2 DEF AtMost, a, b
  <2>4. SubSeq(file, a + 1, AtMost(b, Len(file))) \in Seq(Value)
    BY <2>3, PartIs
  <2> QED BY <2>4 DEF a, b
<1>4. Blocks(file) = [n \in 1 .. N |-> block(n)]
  BY DEF Blocks, N
<1> HIDE DEF block
<1>5. Blocks(file) \in [1 .. N -> Seq(Value)]
  BY <1>3, <1>4
<1> QED BY <1>2, <1>5, TupleIsSeq

------------------------------------------------------------------------------
(* The byte map.  The evidence of a file lies inside it; any item of a     *)
(* manifest and any element of a walk may be asked for it.                 *)

Classes == {"unknown", "heuristic", "bounded_unverified", "carved", "parser_bounded"}

\* Evidence lies inside the file and is of a class that is evidence.
IsEvidence(evidence, size) ==
    \A e \in evidence : /\ e.start \in 0 .. size /\ e.end \in 0 .. size /\ e.start < e.end
                        /\ e.class \in Classes \ {"unknown"}

Cuts(size, evidence) == Ascending({0, size} \cup UNION {{e.start, e.end} : e \in evidence})

EvidenceAt(evidence, b) == {e \in evidence : b \in e.start .. e.end - 1}
LabelsOf(es) == {e.label : e \in es}
Segments(size, evidence) ==
    [start : 0 .. size, end : 0 .. size, class : Classes, labels : SUBSET LabelsOf(evidence)]

\* The cuts go up from the beginning of the file to its end, and no range ends between two.
LEMMA CutsCoverTheFile ==
    ASSUME NEW size \in Nat, NEW evidence, IsEvidence(evidence, size), NEW cuts,
           cuts = Cuts(size, evidence)
    PROVE  /\ Len(cuts) \in Nat \ {0} /\ cuts \in [1 .. Len(cuts) -> 0 .. size]
           /\ cuts[1] = 0 /\ cuts[Len(cuts)] = size
           /\ \A n, m \in 1 .. Len(cuts) : n < m => cuts[n] < cuts[m]
           /\ \A e \in evidence : \E n, m \in 1 .. Len(cuts) : cuts[n] = e.start /\ cuts[m] = e.end
<1> DEFINE ends == {0, size} \cup UNION {{e.start, e.end} : e \in evidence}
<1>1. ends \subseteq 0 .. size /\ 0 \in ends /\ size \in ends
      /\ \A e \in evidence : e.start \in ends /\ e.end \in ends
  BY DEF IsEvidence
<1>2. IsFiniteSet(ends)
  <2>1. IsFiniteSet(0 .. size)
    BY FS_Interval
  <2> HIDE DEF ends
  <2> QED BY <1>1, <2>1, FS_Subset
<1>3. cuts = Ascending(ends)
  BY DEF Cuts
<1> HIDE DEF ends
<1>4. ends \in SUBSET Int
  BY <1>1
<1>5. /\ Len(cuts) = Cardinality(ends) /\ Len(cuts) \in Nat
      /\ cuts \in [1 .. Len(cuts) -> ends]
      /\ \A x \in ends : \E n \in 1 .. Len(cuts) : cuts[n] = x
      /\ \A n, m \in 1 .. Len(cuts) : n < m => cuts[n] < cuts[m]
  BY <1>2, <1>3, <1>4, SortedNumbers
<1>6. PICK first \in 1 .. Len(cuts) : cuts[first] = 0
  BY <1>1, <1>5
<1>7. PICK last \in 1 .. Len(cuts) : cuts[last] = size
  BY <1>1, <1>5
<1>8. Len(cuts) # 0
  BY <1>6
<1>9. 1 \in 1 .. Len(cuts) /\ Len(cuts) \in 1 .. Len(cuts)
  BY <1>5, <1>8
<1>10. \A n \in 1 .. Len(cuts) : cuts[n] \in 0 .. size
  BY <1>1, <1>5
<1>11. cuts[1] = 0
  <2>1. first = 1 \/ 1 < first
    BY <1>5
  <2> QED BY <1>5, <1>6, <1>9, <1>10, <2>1
<1>12. cuts[Len(cuts)] = size
  <2>1. last = Len(cuts) \/ last < Len(cuts)
    BY <1>5
  <2> QED BY <1>5, <1>7, <1>9, <1>10, <2>1
<1>13. cuts \in [1 .. Len(cuts) -> 0 .. size]
  BY <1>5, <1>10
<1>14. \A e \in evidence : \E n, m \in 1 .. Len(cuts) : cuts[n] = e.start /\ cuts[m] = e.end
  <2> SUFFICES ASSUME NEW e \in evidence
               PROVE  \E n, m \in 1 .. Len(cuts) : cuts[n] = e.start /\ cuts[m] = e.end
    OBVIOUS
  <2>1. PICK n \in 1 .. Len(cuts) : cuts[n] = e.start
    BY <1>1, <1>5
  <2>2. PICK m \in 1 .. Len(cuts) : cuts[m] = e.end
    BY <1>1, <1>5
  <2> QED BY <2>1, <2>2
<1> QED BY <1>5, <1>8, <1>11, <1>12, <1>13, <1>14

\* Between two cuts that follow each other every byte has one evidence.
LEMMA BytesBetweenCuts ==
    ASSUME NEW size \in Nat, NEW evidence, IsEvidence(evidence, size), NEW cuts,
           cuts = Cuts(size, evidence), NEW n \in 1 .. Len(cuts) - 1,
           NEW b \in cuts[n] .. cuts[n + 1] - 1
    PROVE  {e \in evidence : e.start < cuts[n + 1] /\ e.end > cuts[n]} = EvidenceAt(evidence, b)
<1>1. /\ Len(cuts) \in Nat /\ cuts \in [1 .. Len(cuts) -> 0 .. size]
      /\ \A k, m \in 1 .. Len(cuts) : k < m => cuts[k] < cuts[m]
      /\ \A e \in evidence : \E k, m \in 1 .. Len(cuts) : cuts[k] = e.start /\ cuts[m] = e.end
  BY CutsCoverTheFile
<1>2. n \in 1 .. Len(cuts) /\ n + 1 \in 1 .. Len(cuts) /\ n \in Nat
  BY <1>1
<1>3. cuts[n] \in Nat /\ cuts[n + 1] \in Nat
  BY <1>1, <1>2
<1> DEFINE low == cuts[n]
           high == cuts[n + 1]
<1>4. low \in Nat /\ high \in Nat /\ b \in low .. high - 1
  BY <1>3
<1>5. \A m \in 1 .. Len(cuts) : cuts[m] \in Nat /\ (cuts[m] <= low \/ high <= cuts[m])
  <2> SUFFICES ASSUME NEW m \in 1 .. Len(cuts)
               PROVE  cuts[m] \in Nat /\ (cuts[m] <= low \/ high <= cuts[m])
    OBVIOUS
  <2>1. m < n \/ m = n \/ m = n + 1 \/ n + 1 < m
    BY <1>1, <1>2
  <2>2. (m < n => cuts[m] < cuts[n]) /\ (n + 1 < m => cuts[n + 1] < cuts[m])
    BY <1>1, <1>2
  <2>3. cuts[m] \in Nat
    BY <1>1
  <2> QED BY <1>3, <2>1, <2>2, <2>3
<1> HIDE DEF low, high
<1>6. b \in Nat /\ low <= b /\ b < high
  BY <1>4
<1>7. ASSUME NEW e \in evidence
      PROVE  e.start < high /\ e.end > low <=> b \in e.start .. e.end - 1
  <2>1. /\ e.start \in Nat /\ (e.start <= low \/ high <= e.start)
        /\ e.end \in Nat /\ (e.end <= low \/ high <= e.end)
    BY <1>1, <1>5
  <2>2. e.start < high <=> e.start <= b
    BY <1>4, <1>6, <2>1
  <2>3. e.end > low <=> b < e.end
    BY <1>4, <1>6, <2>1
  <2> QED BY <1>6, <2>1, <2>2, <2>3
<1> QED BY <1>7 DEF EvidenceAt, low, high

\* The segment between two cuts has the class and the labels of each of its bytes.
LEMMA SegmentIsOfItsBytes ==
    ASSUME NEW size \in Nat, NEW evidence, IsEvidence(evidence, size), NEW cuts,
           cuts = Cuts(size, evidence), NEW n \in 1 .. Len(cuts) - 1, NEW s,
           s = Segment(evidence, cuts[n], cuts[n + 1])
    PROVE  /\ s \in Segments(size, evidence)
           /\ s.start = cuts[n] /\ s.end = cuts[n + 1] /\ s.start < s.end
           /\ \A b \in s.start .. s.end - 1 :
                 s.class = SegmentClass(EvidenceAt(evidence, b)) /\ s.labels = LabelsOf(EvidenceAt(evidence, b))
<1> DEFINE overlaps == {e \in evidence : e.start < cuts[n + 1] /\ e.end > cuts[n]}
<1>1. /\ Len(cuts) \in Nat /\ cuts \in [1 .. Len(cuts) -> 0 .. size]
      /\ \A k, m \in 1 .. Len(cuts) : k < m => cuts[k] < cuts[m]
  BY CutsCoverTheFile
<1>2. n \in 1 .. Len(cuts) /\ n + 1 \in 1 .. Len(cuts) /\ n < n + 1
  BY <1>1
<1>3. cuts[n] \in 0 .. size /\ cuts[n + 1] \in 0 .. size /\ cuts[n] < cuts[n + 1]
  BY <1>1, <1>2
<1>4. s = [start |-> cuts[n], end |-> cuts[n + 1], class |-> SegmentClass(overlaps),
           labels |-> {e.label : e \in overlaps}]
  BY DEF Segment
<1>5. \A b \in cuts[n] .. cuts[n + 1] - 1 : overlaps = EvidenceAt(evidence, b)
  BY BytesBetweenCuts
<1>6. SegmentClass(overlaps) \in Classes
  BY DEF SegmentClass, Classes
<1>7. {e.label : e \in overlaps} \in SUBSET LabelsOf(evidence)
  BY DEF LabelsOf
<1> HIDE DEF overlaps
<1>8. s \in Segments(size, evidence)
  BY <1>3, <1>4, <1>6, <1>7 DEF Segments
<1>9. s.start = cuts[n] /\ s.end = cuts[n + 1] /\ s.class = SegmentClass(overlaps)
      /\ s.labels = LabelsOf(overlaps)
  BY <1>4 DEF LabelsOf
<1> QED BY <1>3, <1>5, <1>8, <1>9

\* Joining a segment leaves segments.
LEMMA JoinedAreSegments ==
    ASSUME NEW size, NEW evidence, NEW m \in Seq(Segments(size, evidence)),
           NEW s \in Segments(size, evidence)
    PROVE  JoinSegment(m, s) \in Seq(Segments(size, evidence))
<1>1. CASE JoinSegment(m, s) = Append(m, s)
  BY <1>1
<1>2. CASE m # <<>> /\ JoinSegment(m, s) = [m EXCEPT ![Len(m)].end = s.end]
  <2>1. Len(m) \in DOMAIN m /\ m[Len(m)] \in Segments(size, evidence)
    BY <1>2
  <2>2. [m[Len(m)] EXCEPT !.end = s.end] \in Segments(size, evidence)
    BY <2>1 DEF Segments
  <2>3. JoinSegment(m, s) = [m EXCEPT ![Len(m)] = [m[Len(m)] EXCEPT !.end = s.end]]
    BY <1>2
  <2> QED BY <2>1, <2>2, <2>3
<1> QED BY <1>1, <1>2 DEF JoinSegment

\* The partition joins the segments between the cuts, one after the other.
LEMMA PartitionJoins ==
    ASSUME NEW size \in Nat, NEW evidence, IsEvidence(evidence, size), NEW cuts,
           cuts = Cuts(size, evidence)
    PROVE  \E h \in [0 .. Len(cuts) - 1 -> Seq(Segments(size, evidence))] :
              /\ h[0] = <<>>
              /\ \A n \in 1 .. Len(cuts) - 1 :
                    h[n] = JoinSegment(h[n - 1], Segment(evidence, cuts[n], cuts[n + 1]))
              /\ Partition(size, evidence) = h[Len(cuts) - 1]
<1> DEFINE N == Len(cuts) - 1
           X == Seq(Segments(size, evidence))
           piece(n) == Segment(evidence, cuts[n], cuts[n + 1])
           q == [n \in 1 .. N |-> n]
           base == <<>>
           step == [p \in X \X (1 .. N) |-> JoinSegment(p[1], piece(p[2]))]
           next(f, s) == IF s = {} THEN base ELSE JoinSegment(f[s \ {Max(s)}], piece(q[Max(s)]))
           isFold(f) == f = [s \in SUBSET DOMAIN q |-> next(f, s)]
           iter == CHOOSE f : isFold(f)
<1>1. N \in Nat
  BY CutsCoverTheFile
<1>2. Partition(size, evidence) = iter[DOMAIN q]
  BY DEF Partition, FoldLeft, MapThenFoldSet, Cuts
<1> HIDE DEF iter
<1>3. \A n \in 1 .. N : piece(n) \in Segments(size, evidence)
  BY SegmentIsOfItsBytes
<1> HIDE DEF piece
<1>4. step \in [X \X (1 .. N) -> X] /\ base \in X
  BY <1>3, JoinedAreSegments
<1> HIDE DEF N, X, base
<1>5. PICK f : Folds(f, N, X, base, step)
  <2> HIDE DEF step
  <2> QED BY <1>1, <1>4, FoldExists
<1>6. DOMAIN q = 1 .. N /\ \A n \in 1 .. N : q[n] = n
  OBVIOUS
<1>7. ASSUME NEW s \in SUBSET (1 .. N), s # {}
      PROVE  /\ Max(s) \in 1 .. N /\ s \ {Max(s)} \in SUBSET (1 .. N)
             /\ \A x \in X : step[<<x, Max(s)>>] = JoinSegment(x, piece(q[Max(s)]))
  <2>1. s \in SUBSET (0 .. N)
    OBVIOUS
  <2>2. Max(s) \in s
    BY <1>1, <1>7, <2>1, GreatestNumber
  <2> QED BY <1>6, <2>2
<1> HIDE DEF q, step
<1>8. ASSUME NEW s \in SUBSET (1 .. N) PROVE f[s] = next(f, s)
  BY <1>5, <1>7 DEF Folds
<1>9. isFold(f)
  <2>1. f \in [SUBSET (1 .. N) -> X]
    BY <1>5 DEF Folds
  <2> HIDE DEF next
  <2> QED BY <1>6, <1>8, <2>1
<1>10. isFold(iter)
  <2> HIDE DEF isFold
  <2> QED BY <1>9 DEF iter
<1>11. \A s \in SUBSET (1 .. N) : iter[s] = next(iter, s)
  <2> HIDE DEF next
  <2> QED BY <1>6, <1>10
<1>12. Recurs(iter, N, X, base, step)
  <2> SUFFICES ASSUME NEW s \in SUBSET (1 .. N)
               PROVE  IF s = {} THEN iter[s] = base
                      ELSE iter[s \ {Max(s)}] \in X =>
                              iter[s] = step[<<iter[s \ {Max(s)}], Max(s)>>]
    BY DEF Recurs
  <2>1. iter[s] = next(iter, s)
    BY <1>11
  <2> QED BY <1>7, <2>1
<1>13. PICK h : Steps(h, N, X, base, step, iter[1 .. N])
  BY <1>1, <1>4, <1>12, FoldSteps
<1>14. \A n \in 1 .. N : h[n] = JoinSegment(h[n - 1], piece(n))
  <2> SUFFICES ASSUME NEW n \in 1 .. N PROVE h[n] = JoinSegment(h[n - 1], piece(n))
    OBVIOUS
  <2>1. n - 1 \in 0 .. N
    BY <1>1
  <2>2. h[n - 1] \in X /\ h[n] = step[<<h[n - 1], n>>]
    BY <1>13, <2>1 DEF Steps
  <2> QED BY <2>2 DEF step
<1>15. h \in [0 .. N -> X] /\ h[0] = <<>> /\ Partition(size, evidence) = h[N]
  BY <1>2, <1>6, <1>13 DEF Steps, base
<1> QED BY <1>14, <1>15 DEF N, X, piece

\* What the byte map is of the bytes up to one: whole, in order, each segment as long as it
\* can be and with the class and the labels of its bytes.
IsOfItsBytes(s, evidence) ==
    /\ s.start < s.end
    /\ \A b \in s.start .. s.end - 1 :
          s.class = SegmentClass(EvidenceAt(evidence, b)) /\ s.labels = LabelsOf(EvidenceAt(evidence, b))

Differ(s, t) == s.class # t.class \/ s.labels # t.labels

IsMap(m, evidence, upto) ==
    /\ m = <<>> <=> upto = 0
    /\ m # <<>> => m[Len(m)].end = upto
    /\ \A k \in DOMAIN m : IsOfItsBytes(m[k], evidence)
    /\ \A k \in DOMAIN m : k + 1 \in DOMAIN m => m[k].end = m[k + 1].start /\ Differ(m[k], m[k + 1])
    /\ \A j, k \in DOMAIN m : j < k => m[j].end <= m[k].start
    /\ \A b \in 0 .. upto - 1 : \E k \in DOMAIN m : b \in m[k].start .. m[k].end - 1

\* A segment that begins where the map ends makes it a map of the bytes up to its own end.
LEMMA JoinKeepsMap ==
    ASSUME NEW size \in Nat, NEW evidence, NEW m \in Seq(Segments(size, evidence)),
           NEW s \in Segments(size, evidence), NEW upto \in Nat, IsMap(m, evidence, upto),
           s.start = upto, IsOfItsBytes(s, evidence)
    PROVE  IsMap(JoinSegment(m, s), evidence, s.end)
<1> DEFINE L == Len(m)
           n == JoinSegment(m, s)
<1>1. /\ L \in Nat /\ DOMAIN m = 1 .. L
      /\ \A k \in DOMAIN m : m[k] \in Segments(size, evidence)
  OBVIOUS
<1>2. /\ \A t \in Segments(size, evidence) : t.start \in Nat /\ t.end \in Nat
      /\ s.start \in Nat /\ s.end \in Nat /\ s.start < s.end
  BY DEF Segments, IsOfItsBytes
<1>3. \A k \in DOMAIN m : m[k].start \in Nat /\ m[k].end \in Nat /\ m[k].start < m[k].end /\ m[k].end <= upto
  <2> SUFFICES ASSUME NEW k \in DOMAIN m
               PROVE  m[k].start \in Nat /\ m[k].end \in Nat /\ m[k].start < m[k].end
                      /\ m[k].end <= upto
    OBVIOUS
  <2>1. m[k].start \in Nat /\ m[k].end \in Nat /\ m[k].start < m[k].end
    BY <1>1, <1>2 DEF IsMap, IsOfItsBytes
  <2>2. m # <<>> /\ L \in DOMAIN m /\ m[L].end = upto /\ m[L].start < m[L].end
        /\ m[L].start \in Nat /\ m[L].end \in Nat
    BY <1>1, <1>2 DEF IsMap, IsOfItsBytes
  <2>3. k = L \/ k < L
    BY <1>1
  <2>4. k < L => m[k].end <= m[L].start
    BY <2>2 DEF IsMap
  <2> QED BY <2>1, <2>2, <2>3, <2>4
<1>4. CASE n = Append(m, s) /\ (m # <<>> => Differ(m[L], s))
  <2>1. DOMAIN n = 1 .. L + 1 /\ n[L + 1] = s /\ \A k \in DOMAIN m : n[k] = m[k]
    BY <1>1, <1>4
  <2>2. \A k \in DOMAIN n : k \in DOMAIN m \/ k = L + 1
    BY <1>1, <2>1
  <2>3. n # <<>> /\ s.end # 0 /\ Len(n) = L + 1
    BY <1>1, <1>2, <1>4
  <2>4. \A k \in DOMAIN n : IsOfItsBytes(n[k], evidence)
    BY <2>1, <2>2 DEF IsMap
  <2>5. ASSUME NEW k \in DOMAIN n, k + 1 \in DOMAIN n
        PROVE  n[k].end = n[k + 1].start /\ Differ(n[k], n[k + 1])
    <3>1. CASE k + 1 \in DOMAIN m
      <4>1. k \in DOMAIN m
        BY <1>1, <2>1, <3>1
      <4> QED BY <2>1, <3>1, <4>1 DEF IsMap
    <3>2. CASE k + 1 = L + 1
      <4>1. k = L /\ k \in DOMAIN m /\ m # <<>>
        BY <1>1, <2>1, <3>2
      <4> QED BY <1>4, <2>1, <3>2, <4>1 DEF IsMap
    <3> QED BY <2>2, <2>5, <3>1, <3>2
  <2>6. ASSUME NEW j \in DOMAIN n, NEW k \in DOMAIN n, j < k PROVE n[j].end <= n[k].start
    <3>1. j \in DOMAIN m
      BY <1>1, <2>1, <2>6
    <3>2. CASE k \in DOMAIN m
      BY <2>1, <2>6, <3>1, <3>2 DEF IsMap
    <3>3. CASE k = L + 1
      BY <1>3, <2>1, <3>1, <3>3
    <3> QED BY <2>2, <3>2, <3>3
  <2>7. ASSUME NEW b \in 0 .. s.end - 1 PROVE \E k \in DOMAIN n : b \in n[k].start .. n[k].end - 1
    <3>1. CASE b \in 0 .. upto - 1
      <4>1. PICK k \in DOMAIN m : b \in m[k].start .. m[k].end - 1
        BY <3>1 DEF IsMap
      <4>2. k \in DOMAIN n /\ n[k] = m[k]
        BY <1>1, <2>1
      <4> QED BY <4>1, <4>2
    <3>2. CASE b \in upto .. s.end - 1
      <4>1. L + 1 \in DOMAIN n
        BY <1>1, <2>1
      <4> QED BY <2>1, <3>2, <4>1
    <3>3. b \in 0 .. upto - 1 \/ b \in upto .. s.end - 1
      BY <1>2
    <3> QED BY <3>1, <3>2, <3>3
  <2> QED BY <2>1, <2>3, <2>4, <2>5, <2>6, <2>7 DEF IsMap
<1>5. CASE /\ m # <<>> /\ ~Differ(m[L], s)
           /\ n = [m EXCEPT ![L].end = s.end]
  <2>1. L \in DOMAIN m /\ m[L] \in Segments(size, evidence) /\ m[L].end = upto
    BY <1>1, <1>5 DEF IsMap
  <2>2. DOMAIN n = DOMAIN m /\ Len(n) = L /\ \A k \in DOMAIN m \ {L} : n[k] = m[k]
    <3>1. n = [m EXCEPT ![L] = [m[L] EXCEPT !.end = s.end]]
      BY <1>5
    <3>2. [m[L] EXCEPT !.end = s.end] \in Segments(size, evidence)
      BY <2>1 DEF Segments
    <3> QED BY <2>1, <3>1, <3>2
  <2>3. /\ n[L].start = m[L].start /\ n[L].end = s.end
        /\ n[L].class = m[L].class /\ n[L].labels = m[L].labels
    BY <1>5, <2>1 DEF Segments
  <2>4. n # <<>> /\ s.end # 0
    BY <1>1, <1>2, <1>5, <2>1, <2>2
  <2>5. ASSUME NEW k \in DOMAIN n PROVE IsOfItsBytes(n[k], evidence)
    <3>1. CASE k = L
      <4>1. IsOfItsBytes(m[L], evidence) /\ m[L].start \in Nat /\ m[L].start < upto
        BY <1>3, <2>1 DEF IsMap
      <4>2. ASSUME NEW b \in n[L].start .. n[L].end - 1
            PROVE  n[L].class = SegmentClass(EvidenceAt(evidence, b)) /\ n[L].labels = LabelsOf(EvidenceAt(evidence, b))
        <5>1. b \in m[L].start .. m[L].end - 1 \/ b \in s.start .. s.end - 1
          BY <1>2, <2>1, <2>3, <4>1
        <5> QED BY <1>5, <2>3, <4>1, <5>1 DEF IsOfItsBytes, Differ
      <4>3. n[L].start < n[L].end
        BY <1>2, <2>3, <4>1
      <4> QED BY <3>1, <4>2, <4>3 DEF IsOfItsBytes
    <3>2. CASE k # L
      BY <2>2, <3>2 DEF IsMap
    <3> QED BY <3>1, <3>2
  <2>6. ASSUME NEW k \in DOMAIN n, k + 1 \in DOMAIN n
        PROVE  n[k].end = n[k + 1].start /\ Differ(n[k], n[k + 1])
    <3>1. k # L /\ n[k] = m[k]
      BY <1>1, <2>2, <2>6
    <3>2. n[k + 1].start = m[k + 1].start /\ n[k + 1].class = m[k + 1].class
          /\ n[k + 1].labels = m[k + 1].labels
      BY <2>2, <2>3, <2>6
    <3>3. m[k].end = m[k + 1].start /\ Differ(m[k], m[k + 1])
      BY <2>2, <2>6 DEF IsMap
    <3> QED BY <3>1, <3>2, <3>3 DEF Differ
  <2>7. ASSUME NEW j \in DOMAIN n, NEW k \in DOMAIN n, j < k PROVE n[j].end <= n[k].start
    <3>1. j # L /\ n[j] = m[j]
      BY <1>1, <2>2, <2>7
    <3>2. n[k].start = m[k].start
      BY <2>2, <2>3
    <3> QED BY <2>2, <2>7, <3>1, <3>2 DEF IsMap
  <2>8. ASSUME NEW b \in 0 .. s.end - 1 PROVE \E k \in DOMAIN n : b \in n[k].start .. n[k].end - 1
    <3>1. CASE b \in 0 .. upto - 1
      <4>1. PICK k \in DOMAIN m : b \in m[k].start .. m[k].end - 1
        BY <3>1 DEF IsMap
      <4>2. CASE k = L
        BY <1>2, <1>3, <2>1, <2>2, <2>3, <4>1, <4>2
      <4>3. CASE k # L
        BY <2>2, <4>1, <4>3
      <4> QED BY <4>2, <4>3
    <3>2. CASE b \in upto .. s.end - 1
      <4>1. m[L].start < upto /\ m[L].start \in Nat
        BY <1>3, <2>1
      <4> QED BY <1>2, <2>1, <2>2, <2>3, <3>2, <4>1
    <3>3. b \in 0 .. upto - 1 \/ b \in upto .. s.end - 1
      BY <1>2
    <3> QED BY <3>1, <3>2, <3>3
  <2>9. n[Len(n)].end = s.end
    BY <2>2, <2>3
  <2> HIDE DEF n, L
  <2>10. IsMap(n, evidence, s.end)
    BY <2>2, <2>4, <2>5, <2>6, <2>7, <2>8, <2>9 DEF IsMap
  <2> QED BY <2>10 DEF n
<1>6. \/ n = Append(m, s) /\ (m # <<>> => Differ(m[L], s))
      \/ /\ m # <<>> /\ ~Differ(m[L], s)
         /\ n = [m EXCEPT ![L].end = s.end]
  <2>1. m # <<>> => m[L].end = s.start
    BY DEF IsMap
  <2> QED BY <2>1 DEF JoinSegment, Differ
<1> QED BY <1>4, <1>5, <1>6

\* The partition of a file is the map of all its bytes.
LEMMA PartitionIsMap ==
    ASSUME NEW size \in Nat, NEW evidence, IsEvidence(evidence, size)
    PROVE  /\ Partition(size, evidence) \in Seq(Segments(size, evidence))
           /\ IsMap(Partition(size, evidence), evidence, size)
<1> DEFINE cuts == Cuts(size, evidence)
           N == Len(cuts) - 1
<1>1. PICK h \in [0 .. N -> Seq(Segments(size, evidence))] :
         /\ h[0] = <<>>
         /\ \A n \in 1 .. N : h[n] = JoinSegment(h[n - 1], Segment(evidence, cuts[n], cuts[n + 1]))
         /\ Partition(size, evidence) = h[N]
  BY PartitionJoins
<1>2. /\ N \in Nat /\ cuts \in [1 .. N + 1 -> 0 .. size]
      /\ cuts[1] = 0 /\ cuts[N + 1] = size
  BY CutsCoverTheFile
<1> DEFINE reached == {n \in 0 .. N : IsMap(h[n], evidence, cuts[n + 1])}
<1>3. 0 \in reached
  <2>1. IsMap(<<>>, evidence, 0)
    BY DEF IsMap
  <2>2. 0 \in 0 .. N /\ 0 + 1 = 1
    BY <1>2
  <2> HIDE DEF cuts
  <2> QED BY <1>1, <1>2, <2>1, <2>2
<1>4. ASSUME NEW n \in 0 .. N - 1, n \in reached PROVE n + 1 \in reached
  <2> DEFINE s == Segment(evidence, cuts[n + 1], cuts[n + 1 + 1])
  <2>1. /\ n + 1 \in 1 .. N /\ n + 1 \in 0 .. N /\ n \in 0 .. N /\ (n + 1) - 1 = n
        /\ n + 1 \in 1 .. Len(cuts) - 1 /\ n + 1 \in 1 .. N + 1
    BY <1>2
  <2>2. /\ s \in Segments(size, evidence)
        /\ s.start = cuts[n + 1] /\ s.end = cuts[n + 1 + 1] /\ IsOfItsBytes(s, evidence)
    <3> HIDE DEF cuts
    <3>1. cuts = Cuts(size, evidence)
      BY DEF cuts
    <3> QED BY <2>1, <3>1, SegmentIsOfItsBytes DEF IsOfItsBytes
  <2> HIDE DEF cuts, s, N
  <2>3. cuts[n + 1] \in Nat
    BY <1>2, <2>1
  <2>4. h[n] \in Seq(Segments(size, evidence)) /\ IsMap(h[n], evidence, cuts[n + 1])
    BY <1>1, <1>4, <2>1
  <2>5. IsMap(JoinSegment(h[n], s), evidence, s.end)
    BY <2>2, <2>3, <2>4, JoinKeepsMap
  <2>6. h[n + 1] = JoinSegment(h[n], s)
    BY <1>1, <2>1 DEF s
  <2> QED BY <2>1, <2>2, <2>5, <2>6
<1>5. N \in reached
  <2> HIDE DEF N, reached
  <2>1. N \in 0 .. N
    BY <1>2
  <2> QED BY <1>2, <1>3, <1>4, <2>1, Upwards
<1>6. h[N] \in Seq(Segments(size, evidence))
  <2> HIDE DEF N
  <2> QED BY <1>1, <1>2
<1> HIDE DEF N, cuts
<1> QED BY <1>1, <1>2, <1>5, <1>6

\* The evidence of any items and elements lies inside the file, and nothing else is asked.
LEMMA EvidenceLiesInside ==
    ASSUME NEW size \in Nat, NEW items, NEW walk,
           \A n \in DOMAIN items : items[n].start \in Int /\ items[n].end \in Int,
           \A e \in walk : e.start \in Int /\ e.end \in Int
    PROVE  IsEvidence(EvidenceOf(items, size) \cup WalkEvidence(walk, size), size)
<1>1. ASSUME NEW e \in WalkEvidence(walk, size)
      PROVE  /\ e.start \in 0 .. size /\ e.end \in 0 .. size /\ e.start < e.end
             /\ e.class \in Classes \ {"unknown"}
  <2>1. PICK d \in walk : /\ 0 <= d.start /\ d.start < d.end /\ d.end <= size
                          /\ e.start = d.start /\ e.end = d.end
                          /\ e.class = IF d.tagged /\ d.partly THEN "heuristic" ELSE "parser_bounded"
    BY DEF WalkEvidence
  <2> QED BY <2>1 DEF Classes
<1>2. ASSUME NEW e \in EvidenceOf(items, size)
      PROVE  /\ e.start \in 0 .. size /\ e.end \in 0 .. size /\ e.start < e.end
             /\ e.class \in Classes \ {"unknown"}
  <2> DEFINE start(n) == AtLeast(0, AtMost(items[n].start, size))
             end(n) == AtLeast(start(n), AtMost(items[n].end, size))
  <2>1. PICK n \in DOMAIN items : /\ e.start = start(n) /\ e.end = end(n) /\ e.end > e.start
                                  /\ e.class = EvidenceClass(items[n])
    BY DEF EvidenceOf
  <2>2. start(n) \in 0 .. size
    BY DEF AtLeast, AtMost
  <2>3. end(n) \in 0 .. size
    <3> HIDE DEF start
    <3> QED BY <2>2 DEF AtLeast, AtMost
  <2>4. EvidenceClass(items[n]) \in Classes \ {"unknown"}
    BY DEF EvidenceClass, Classes
  <2> HIDE DEF start, end
  <2> QED BY <2>1, <2>2, <2>3, <2>4
<1> QED BY <1>1, <1>2 DEF IsEvidence

\* The classes from the weakest to the strongest.
Strength == <<"unknown", "heuristic", "bounded_unverified", "carved", "parser_bounded">>
Rank(class) == CHOOSE n \in DOMAIN Strength : Strength[n] = class

\* The class of a byte is the strongest of its evidence.
LEMMA ClassIsTheStrongest ==
    ASSUME NEW es, \A e \in es : e.class \in Classes \ {"unknown"}
    PROVE  Rank(SegmentClass(es)) = Max({1} \cup {Rank(e.class) : e \in es})
<1>1. /\ Rank("unknown") = 1 /\ Rank("heuristic") = 2 /\ Rank("bounded_unverified") = 3
      /\ Rank("carved") = 4 /\ Rank("parser_bounded") = 5
  <2>1. /\ DOMAIN Strength = {1, 2, 3, 4, 5}
        /\ Strength[1] = "unknown" /\ Strength[2] = "heuristic" /\ Strength[3] = "bounded_unverified"
        /\ Strength[4] = "carved" /\ Strength[5] = "parser_bounded"
    BY DEF Strength
  <2>2. ASSUME NEW k \in DOMAIN Strength PROVE Rank(Strength[k]) = k
    <3>1. \A n \in DOMAIN Strength : Strength[n] = Strength[k] => n = k
      BY <2>1
    <3>2. Rank(Strength[k]) = CHOOSE n \in DOMAIN Strength : Strength[n] = Strength[k]
      BY DEF Rank
    <3> QED BY <3>1, <3>2
  <2> QED BY <2>1, <2>2
<1> DEFINE ranks == {1} \cup {Rank(e.class) : e \in es}
<1>2. ASSUME NEW top \in ranks, \A k \in ranks : k <= top, ranks \subseteq 1 .. 5
      PROVE  Max(ranks) = top
  <2> HIDE DEF ranks
  <2>1. Max(ranks) \in ranks /\ \A k \in ranks : Max(ranks) >= k
    BY <1>2 DEF Max
  <2>2. Max(ranks) \in 1 .. 5 /\ top \in 1 .. 5
    BY <1>2, <2>1
  <2>3. Max(ranks) >= top /\ Max(ranks) <= top
    BY <1>2, <2>1
  <2> QED BY <2>2, <2>3
<1>3. \A e \in es : /\ Rank(e.class) \in 2 .. 5
                    /\ e.class = "heuristic" <=> Rank(e.class) = 2
                    /\ e.class = "bounded_unverified" <=> Rank(e.class) = 3
                    /\ e.class = "carved" <=> Rank(e.class) = 4
                    /\ e.class = "parser_bounded" <=> Rank(e.class) = 5
  BY <1>1 DEF Classes
<1>4. ranks \subseteq 1 .. 5
  BY <1>3
<1>5. CASE es = {}
  <2>1. SegmentClass(es) = "unknown" /\ ranks = {1}
    BY <1>5 DEF SegmentClass
  <2>2. Max(ranks) = 1
    <3> HIDE DEF ranks
    <3>1. 1 \in ranks /\ \A k \in ranks : k <= 1
      BY <2>1
    <3> QED BY <1>2, <1>4, <3>1
  <2> QED BY <1>1, <2>1, <2>2
<1>6. CASE es # {}
  <2>1. /\ SegmentClass(es) = IF \E e \in es : e.class = "parser_bounded" THEN "parser_bounded"
                              ELSE IF \E e \in es : e.class = "carved" THEN "carved"
                              ELSE IF \E e \in es : e.class = "bounded_unverified" THEN "bounded_unverified"
                              ELSE "heuristic"
    BY <1>6 DEF SegmentClass
  <2>2. \E e \in es : e.class = SegmentClass(es) /\ \A f \in es : Rank(f.class) <= Rank(e.class)
    BY <1>1, <1>3, <1>6, <2>1
  <2>3. PICK e \in es : e.class = SegmentClass(es) /\ \A f \in es : Rank(f.class) <= Rank(e.class)
    BY <2>2
  <2>4. Rank(e.class) \in ranks /\ \A k \in ranks : k <= Rank(e.class)
    BY <1>3, <2>3
  <2> HIDE DEF ranks
  <2> QED BY <1>2, <1>4, <2>3, <2>4 DEF ranks
<1> QED BY <1>5, <1>6

\* The map of any evidence is a partition with the strongest class of every byte.
LEMMA MapIsOfTheBytes ==
    ASSUME NEW size \in Nat, NEW items, NEW walk,
           \A n \in DOMAIN items : items[n].start \in Int /\ items[n].end \in Int,
           \A e \in walk : e.start \in Int /\ e.end \in Int
    PROVE  MapsEveryByte(size, items, walk)
<1> DEFINE evidence == EvidenceOf(items, size) \cup WalkEvidence(walk, size)
           map == ByteMap(size, items, walk, FALSE).segments
<1>1. IsEvidence(evidence, size)
  BY EvidenceLiesInside
<1>2. map = Partition(size, evidence)
  BY DEF ByteMap
<1> HIDE DEF evidence, map
<1>3. /\ map \in Seq(Segments(size, evidence)) /\ IsMap(map, evidence, size)
      /\ Len(map) \in Nat /\ DOMAIN map = 1 .. Len(map)
  BY <1>1, <1>2, PartitionIsMap
<1>4. ASSUME NEW b \in 0 .. size - 1
      PROVE  \E n \in DOMAIN map :
                /\ b \in map[n].start .. map[n].end - 1
                /\ \A m \in DOMAIN map \ {n} : b \notin map[m].start .. map[m].end - 1
                /\ Rank(map[n].class) = Max({1} \cup {Rank(e.class) : e \in EvidenceAt(evidence, b)})
                /\ map[n].labels = {e.label : e \in EvidenceAt(evidence, b)}
  <2>1. PICK n \in DOMAIN map : b \in map[n].start .. map[n].end - 1
    BY <1>3 DEF IsMap
  <2>2. map[n].class = SegmentClass(EvidenceAt(evidence, b)) /\ map[n].labels = LabelsOf(EvidenceAt(evidence, b))
    BY <1>3, <2>1 DEF IsMap, IsOfItsBytes
  <2>3. \A e \in EvidenceAt(evidence, b) : e.class \in Classes \ {"unknown"}
    BY <1>1 DEF IsEvidence, EvidenceAt
  <2>4. Rank(map[n].class) = Max({1} \cup {Rank(e.class) : e \in EvidenceAt(evidence, b)})
    BY <2>2, <2>3, ClassIsTheStrongest
  <2>5. ASSUME NEW m \in DOMAIN map \ {n} PROVE b \notin map[m].start .. map[m].end - 1
    <3>1. n < m \/ m < n
      BY <1>3
    <3>2. n < m => map[n].end <= map[m].start
      BY <1>3 DEF IsMap
    <3>3. m < n => map[m].end <= map[n].start
      BY <1>3 DEF IsMap
    <3>4. map[n] \in Segments(size, evidence) /\ map[m] \in Segments(size, evidence)
      BY <1>3
    <3>5. /\ map[n].start \in Nat /\ map[n].end \in Nat
          /\ map[m].start \in Nat /\ map[m].end \in Nat
      BY <3>4 DEF Segments
    <3> QED BY <2>1, <3>1, <3>2, <3>3, <3>5
  <2> QED BY <2>1, <2>2, <2>4, <2>5 DEF LabelsOf
<1>5. ASSUME NEW n \in 1 .. Len(map) - 1
      PROVE  /\ map[n].end = map[n + 1].start
             /\ <<map[n].class, map[n].labels>> # <<map[n + 1].class, map[n + 1].labels>>
  <2>1. n \in DOMAIN map /\ n + 1 \in DOMAIN map
    BY <1>3
  <2> QED BY <1>3, <2>1 DEF IsMap, Differ
<1> QED BY <1>4, <1>5 DEF MapsEveryByte, evidence, map, EvidenceAt, Rank, Strength

\* The byte map is a partition of the file, each byte has the class of its strongest evidence
\* and no segment could be longer, whatever the size, the manifest and the walk are.
THEOREM BytesAreMapped ==
    ASSUME NEW size \in Nat, NEW items, NEW walk,
           \A n \in DOMAIN items : items[n].start \in Int /\ items[n].end \in Int,
           \A e \in walk : e.start \in Int /\ e.end \in Int,
           subject = [of |-> "map", size |-> size, items |-> items, walk |-> walk]
    PROVE  MapIsAPartition
<1>1. MapsEveryByte(size, items, walk)
  BY MapIsOfTheBytes
<1>2. subject.size = size /\ subject.items = items /\ subject.walk = walk
  OBVIOUS
<1> QED BY <1>1, <1>2 DEF MapIsAPartition
------------------------------------------------------------------------------
(* Gaps.  The blocks are walked in order of their beginnings with a cursor *)
(* before which everything is settled.                                     *)

Block == Int \X (Nat \ {0})
GapStates == [cursor : Nat, gaps : Seq(Nat \X Nat)]

\* A run of bytes that are not explained, as long as it can be.
IsRun(r, size, explained) ==
    /\ r \in Nat \X (Nat \ {0}) /\ r[1] + r[2] <= size
    /\ \A b \in r[1] .. r[1] + r[2] - 1 : b \notin explained
    /\ r[1] = 0 \/ r[1] - 1 \in explained
    /\ r[1] + r[2] = size \/ r[1] + r[2] \in explained

\* The gaps are the long enough runs that end before the cursor, and no run goes across it.
GapsUpTo(state, size, least, explained) ==
    /\ 0 < state.cursor /\ state.cursor < size => state.cursor - 1 \in explained
    /\ \A r : r \in ToSet(state.gaps) <=>
                 IsRun(r, size, explained) /\ r[1] + r[2] <= state.cursor /\ r[2] >= least
    /\ \A n \in 1 .. Len(state.gaps) - 1 :
          state.gaps[n][1] + state.gaps[n][2] < state.gaps[n + 1][1]

\* Between two cursors ends at most one run.
OneMoreRun(r, size, explained, cursor, start, upto) ==
    IsRun(r, size, explained) /\ r[1] + r[2] <= upto
       <=> \/ IsRun(r, size, explained) /\ r[1] + r[2] <= cursor
           \/ cursor < start /\ r = <<cursor, start - cursor>>

\* What a gap before the block is: the one run that ends after the cursor and before the end
\* of the block.
LEMMA RunBeforeBlock ==
    ASSUME NEW size \in Nat, NEW explained, NEW cursor \in Nat, NEW start \in Nat, NEW upto \in Nat,
           cursor <= start, start <= upto, cursor < start => start <= size,
           0 < cursor /\ cursor < size => cursor - 1 \in explained,
           \A b \in cursor .. start - 1 : b \notin explained,
           \A b \in start .. upto - 1 : b < size => b \in explained,
           start < upto \/ start = size \/ cursor = start,
           NEW r
    PROVE  OneMoreRun(r, size, explained, cursor, start, upto)
<1>1. ASSUME cursor < start, r = <<cursor, start - cursor>>
      PROVE  IsRun(r, size, explained) /\ r[1] + r[2] <= upto
  <2>1. r[1] = cursor /\ r[2] = start - cursor /\ r \in Nat \X (Nat \ {0}) /\ r[1] + r[2] = start
    BY <1>1
  <2>2. start = size \/ start \in explained
    BY <1>1
  <2>3. cursor = 0 \/ cursor - 1 \in explained
    BY <1>1
  <2> QED BY <1>1, <2>1, <2>2, <2>3 DEF IsRun
<1>2. ASSUME IsRun(r, size, explained), r[1] + r[2] <= upto, ~(r[1] + r[2] <= cursor)
      PROVE  cursor < start /\ r = <<cursor, start - cursor>>
  <2>1. /\ r[1] \in Nat /\ r[2] \in Nat \ {0} /\ r[1] + r[2] <= size /\ r = <<r[1], r[2]>>
        /\ \A b \in r[1] .. r[1] + r[2] - 1 : b \notin explained
        /\ r[1] = 0 \/ r[1] - 1 \in explained
        /\ r[1] + r[2] = size \/ r[1] + r[2] \in explained
    BY <1>2 DEF IsRun
  <2> DEFINE a == r[1]
             z == r[1] + r[2]
  <2>2. a \in Nat /\ z \in Nat /\ a < z /\ z <= size /\ z <= upto /\ cursor < z /\ r[2] = z - a
    BY <1>2, <2>1
  <2>3. /\ \A b \in a .. z - 1 : b \notin explained
        /\ a = 0 \/ a - 1 \in explained
        /\ z = size \/ z \in explained
    BY <2>1
  <2> HIDE DEF a, z
  <2>4. z - 1 < start
    <3>1. z - 1 \in a .. z - 1
      BY <2>2
    <3>2. z - 1 \notin start .. upto - 1
      BY <2>2, <2>3, <3>1
    <3> QED BY <2>2, <3>2
  <2>5. cursor < start /\ start <= size
    BY <2>2, <2>4
  <2>6. z = start
    <3>1. z < start => z \in cursor .. start - 1
      BY <2>2
    <3>2. z < start => z \notin explained /\ z # size
      BY <2>2, <2>5, <3>1
    <3> QED BY <2>2, <2>3, <2>4, <3>2
  <2>7. ~(a < cursor)
    <3> SUFFICES ASSUME a < cursor PROVE FALSE
      OBVIOUS
    <3>1. cursor - 1 \in explained
      BY <2>2, <2>5
    <3>2. cursor - 1 \in a .. z - 1
      BY <2>2
    <3> QED BY <2>3, <3>1, <3>2
  <2>8. ~(cursor < a)
    <3> SUFFICES ASSUME cursor < a PROVE FALSE
      OBVIOUS
    <3>1. a - 1 \in cursor .. start - 1 /\ a # 0
      BY <2>2, <2>6
    <3> QED BY <2>3, <3>1
  <2>9. a = cursor
    BY <2>2, <2>7, <2>8
  <2> QED BY <2>1, <2>2, <2>5, <2>6, <2>9 DEF a
<1>3. ASSUME IsRun(r, size, explained), r[1] + r[2] <= cursor PROVE r[1] + r[2] <= upto
  <2>1. r[1] + r[2] \in Nat
    BY <1>3 DEF IsRun
  <2> QED BY <1>3, <2>1
<1> QED BY <1>1, <1>2, <1>3 DEF OneMoreRun

\* Appending adds a member at the end.
LEMMA AppendedAre ==
    ASSUME NEW S, NEW s \in Seq(S), NEW x \in S
    PROVE  ToSet(Append(s, x)) = ToSet(s) \cup {x}
<1>1. /\ DOMAIN Append(s, x) = 1 .. Len(s) + 1 /\ Append(s, x)[Len(s) + 1] = x
      /\ \A n \in 1 .. Len(s) : Append(s, x)[n] = s[n]
      /\ DOMAIN s = 1 .. Len(s) /\ Len(s) \in Nat
  OBVIOUS
<1>2. 1 .. Len(s) + 1 = (1 .. Len(s)) \cup {Len(s) + 1}
  BY <1>1
<1> QED BY <1>1, <1>2 DEF ToSet

\* A block that begins where no unsettled byte is explained settles the bytes up to its end.
LEMMA GapStepKeeps ==
    ASSUME NEW size \in Nat, NEW least \in Nat \ {0}, NEW explained, NEW state \in GapStates,
           NEW block \in Block, GapsUpTo(state, size, least, explained),
           \A b \in Bytes(block) : b \in 0 .. size - 1 => b \in explained,
           \A b \in explained : b \in 0 .. size - 1 => b < state.cursor \/ block[1] <= b,
           NEW next, next = GapStep(size, least, state, block)
    PROVE  /\ next \in GapStates /\ GapsUpTo(next, size, least, explained)
           /\ state.cursor <= next.cursor
           /\ \A b \in Bytes(block) : b < size => b < next.cursor
<1> DEFINE cursor == state.cursor
           gaps == state.gaps
           from == AtLeast(block[1], 0)
           upto == AtLeast(AtMost(block[1] + block[2], size), from)
           start == AtLeast(cursor, AtMost(from, size))
<1>0. gaps \in Seq(Nat \X Nat)
  BY DEF GapStates
<1>1. /\ cursor \in Nat /\ gaps \in Seq(Nat \X Nat) /\ block[1] \in Int /\ block[2] \in Nat \ {0}
      /\ block = <<block[1], block[2]>>
  BY DEF GapStates, Block
<1>2. from \in Nat /\ block[1] <= from /\ (from = block[1] \/ from = 0)
  BY <1>1 DEF AtLeast
<1>3. /\ upto \in Nat /\ from <= upto
      /\ block[1] + block[2] <= upto \/ size <= upto
      /\ upto <= block[1] + block[2] \/ upto = from
      /\ upto <= size \/ upto = from
  <2> HIDE DEF from
  <2> QED BY <1>1, <1>2 DEF AtLeast, AtMost
<1>4. /\ start \in Nat /\ cursor <= start
      /\ start = cursor \/ (start <= from /\ start <= size)
      /\ start = from \/ start = size \/ start = cursor
      /\ from <= start \/ size <= start
  <2> HIDE DEF from, cursor
  <2> QED BY <1>1, <1>2 DEF AtLeast, AtMost
<1>5. /\ next.cursor = AtLeast(cursor, upto)
      /\ next.gaps = IF start - cursor >= least THEN Append(gaps, <<cursor, start - cursor>>)
                     ELSE gaps
      /\ next = [cursor |-> next.cursor, gaps |-> next.gaps]
  BY DEF GapStep
<1>a. /\ 0 < cursor /\ cursor < size => cursor - 1 \in explained
      /\ \A r : r \in ToSet(gaps) <=>
                   IsRun(r, size, explained) /\ r[1] + r[2] <= cursor /\ r[2] >= least
      /\ \A n \in 1 .. Len(gaps) - 1 : gaps[n][1] + gaps[n][2] < gaps[n + 1][1]
  BY DEF GapsUpTo
<1>c. Len(gaps) \in Nat /\ DOMAIN gaps = 1 .. Len(gaps)
  BY <1>1
<1>13. 0 < cursor /\ cursor < size => cursor - 1 \in explained
  BY <1>a
<1>b. \A b \in explained : b \in 0 .. size - 1 => b < cursor \/ block[1] <= b
  OBVIOUS
<1> HIDE DEF from, upto, start, gaps, cursor
<1>6. /\ next.cursor \in Nat /\ cursor <= next.cursor /\ upto <= next.cursor
      /\ next.cursor = cursor \/ next.cursor = upto
  <2> QED BY <1>1, <1>3, <1>5 DEF AtLeast
<1>7. next.gaps \in Seq(Nat \X Nat)
  <2>1. start - cursor >= least => <<cursor, start - cursor>> \in Nat \X Nat
    BY <1>1, <1>4
  <2> QED BY <1>1, <1>5, <2>1
<1>8. next \in GapStates
  BY <1>5, <1>6, <1>7 DEF GapStates
<1>9. \A b \in Bytes(block) : b < size => b < next.cursor
  BY <1>1, <1>3, <1>6 DEF Bytes
<1>10. \A b \in cursor .. start - 1 : b \notin explained
  <2> SUFFICES ASSUME NEW b \in cursor .. start - 1 PROVE b \notin explained
    OBVIOUS
  <2>1. b \in 0 .. size - 1 /\ ~(b < cursor) /\ b < from /\ b \in Nat
    BY <1>1, <1>2, <1>4
  <2>2. from = 0 \/ ~(block[1] <= b)
    BY <1>1, <1>2, <2>1
  <2> QED BY <1>1, <1>2, <1>b, <2>1, <2>2
<1>11. \A b \in start .. next.cursor - 1 : b < size => b \in explained
  <2> SUFFICES ASSUME NEW b \in start .. next.cursor - 1, b < size PROVE b \in explained
    OBVIOUS
  <2>0. b \in Nat /\ start <= b /\ b < next.cursor
    BY <1>1, <1>4, <1>6
  <2>1. b \in 0 .. size - 1 /\ next.cursor = upto /\ b < upto /\ from <= b
    <3>1. next.cursor = upto /\ b < upto
      BY <1>1, <1>4, <1>6, <2>0
    <3>2. from <= b
      BY <1>2, <1>4, <2>0
    <3> QED BY <2>0, <3>1, <3>2
  <2>2. upto <= block[1] + block[2]
    BY <1>1, <1>2, <1>3, <2>1
  <2>3. b \in Bytes(block)
    BY <1>1, <1>2, <1>3, <2>1, <2>2 DEF Bytes
  <2> QED BY <2>1, <2>3
<1>12. start <= next.cursor /\ (start < next.cursor \/ start = size \/ cursor = start)
  <2>1. start <= next.cursor
    BY <1>1, <1>2, <1>3, <1>4, <1>6
  <2>2. ASSUME start # size, cursor # start PROVE start < next.cursor
    <3>1. start = from /\ from <= size /\ from # 0 /\ from = block[1]
      BY <1>1, <1>2, <1>4, <2>2
    <3>2. from < upto
      BY <1>1, <1>3, <2>2, <3>1
    <3> QED BY <1>1, <1>2, <1>3, <1>6, <3>1, <3>2
  <2> QED BY <2>1, <2>2
<1>14. cursor < start => start <= size
  BY <1>1, <1>4
<1>15. ASSUME NEW r
       PROVE  IsRun(r, size, explained) /\ r[1] + r[2] <= next.cursor
                 <=> \/ IsRun(r, size, explained) /\ r[1] + r[2] <= cursor
                     \/ cursor < start /\ r = <<cursor, start - cursor>>
  <2> DEFINE z == next.cursor
  <2>1. /\ cursor \in Nat /\ start \in Nat /\ z \in Nat
        /\ cursor <= start /\ start <= z
        /\ \A b \in start .. z - 1 : b < size => b \in explained
        /\ start < z \/ start = size \/ cursor = start
    BY <1>1, <1>4, <1>6, <1>11, <1>12
  <2> HIDE DEF z
  <2>2. OneMoreRun(r, size, explained, cursor, start, z)
    BY <1>10, <1>13, <1>14, <2>1, RunBeforeBlock
  <2> QED BY <2>2 DEF z, OneMoreRun
<1>16. ASSUME NEW r
       PROVE  r \in ToSet(next.gaps) <=>
                 IsRun(r, size, explained) /\ r[1] + r[2] <= next.cursor /\ r[2] >= least
  <2>1. r \in ToSet(gaps) <=> IsRun(r, size, explained) /\ r[1] + r[2] <= cursor /\ r[2] >= least
    BY <1>a
  <2>2. CASE start - cursor >= least
    <3>1. <<cursor, start - cursor>> \in Nat \X Nat
      BY <1>1, <1>4
    <3>2. ToSet(next.gaps) = ToSet(gaps) \cup {<<cursor, start - cursor>>}
      <4> DEFINE gap == <<cursor, start - cursor>>
      <4>1. next.gaps = Append(gaps, gap) /\ gap \in Nat \X Nat
        BY <1>5, <2>2, <3>1
      <4> HIDE DEF gap
      <4>2. ToSet(Append(gaps, gap)) = ToSet(gaps) \cup {gap}
        BY <1>0, <4>1, AppendedAre
      <4> QED BY <4>1, <4>2 DEF gap
    <3>3. cursor < start
      BY <1>1, <1>4, <2>2
    <3> QED BY <1>15, <2>1, <2>2, <3>2, <3>3
  <2>3. CASE ~(start - cursor >= least)
    <3>1. next.gaps = gaps
      BY <1>5, <2>3
    <3>2. r = <<cursor, start - cursor>> => ~(r[2] >= least)
      BY <2>3
    <3> QED BY <1>15, <2>1, <3>1, <3>2
  <2> QED BY <2>2, <2>3
<1>17. ASSUME NEW n \in 1 .. Len(next.gaps) - 1
       PROVE  next.gaps[n][1] + next.gaps[n][2] < next.gaps[n + 1][1]
  <2>1. CASE n \in 1 .. Len(gaps) - 1
    <3>1. next.gaps[n] = gaps[n] /\ next.gaps[n + 1] = gaps[n + 1]
      <4>1. n \in DOMAIN gaps /\ n + 1 \in DOMAIN gaps
        BY <1>c, <2>1
      <4>2. \A k \in DOMAIN gaps : Append(gaps, <<cursor, start - cursor>>)[k] = gaps[k]
        BY <1>0
      <4> QED BY <1>5, <4>1, <4>2
    <3> QED BY <1>a, <2>1, <3>1
  <2>2. CASE n \notin 1 .. Len(gaps) - 1
    <3>1. next.gaps = Append(gaps, <<cursor, start - cursor>>) /\ start - cursor >= least
      BY <1>5, <2>2
    <3>2. n = Len(gaps) /\ n \in DOMAIN gaps
      <4>1. Len(next.gaps) = Len(gaps) + 1
        BY <1>0, <3>1
      <4>2. Len(gaps) \in Nat /\ n \in 1 .. Len(gaps) + 1 - 1
        BY <1>c, <4>1
      <4>3. n = Len(gaps)
        BY <2>2, <4>2
      <4> QED BY <1>c, <4>2, <4>3
    <3>3. next.gaps[n] = gaps[n] /\ next.gaps[n + 1] = <<cursor, start - cursor>>
      BY <1>1, <3>1, <3>2
    <3>4. gaps[n] \in ToSet(gaps)
      BY <3>2 DEF ToSet
    <3>5. IsRun(gaps[n], size, explained) /\ gaps[n][1] + gaps[n][2] <= cursor
      BY <1>a, <3>4
    <3>6. gaps[n][1] + gaps[n][2] # cursor
      <4>0. cursor < start
        BY <1>1, <1>4, <3>1
      <4>1. cursor \in cursor .. start - 1 /\ cursor < size
        BY <1>1, <1>4, <1>14, <4>0
      <4>2. cursor \notin explained /\ cursor # size
        BY <1>10, <4>1
      <4> QED BY <3>5, <4>2 DEF IsRun
    <3>7. gaps[n][1] + gaps[n][2] \in Nat
      BY <3>5 DEF IsRun
    <3> QED BY <1>1, <3>3, <3>5, <3>6, <3>7
  <2> QED BY <2>1, <2>2
<1>18. 0 < next.cursor /\ next.cursor < size => next.cursor - 1 \in explained
  <2> SUFFICES ASSUME 0 < next.cursor, next.cursor < size PROVE next.cursor - 1 \in explained
    OBVIOUS
  <2>1. CASE next.cursor = cursor
    BY <1>a, <2>1
  <2>2. CASE next.cursor # cursor
    <3>1. start < next.cursor \/ cursor = start
      BY <1>4, <1>6, <1>12
    <3>2. next.cursor - 1 \in start .. next.cursor - 1
      BY <1>1, <1>4, <1>6, <1>12, <2>2
    <3> QED BY <1>6, <1>11, <3>2
  <2> QED BY <2>1, <2>2
<1>19. GapsUpTo(next, size, least, explained)
  BY <1>16, <1>17, <1>18 DEF GapsUpTo
<1> QED BY <1>6, <1>8, <1>9, <1>19 DEF cursor

\* The blocks in order of their beginnings.
ByStart(blocks) == SortedBy(blocks, LAMBDA block : block[1])
Starts == [block \in Block |-> block[1]]

\* Sorting keeps the blocks and puts them in order.
LEMMA BlocksAreSorted ==
    ASSUME NEW blocks \in Seq(Block)
    PROVE  ByStart(blocks) \in Ordered(Block, Starts) /\ ToSet(ByStart(blocks)) = ToSet(blocks)
<1> DEFINE N == Len(blocks)
           X == Ordered(Block, Starts)
           base == <<>>
           step == InsertStep(Block, Starts, blocks)
           into(t, x) == InsertAt(t, Cardinality({n \in DOMAIN t : t[n][1] <= x[1]}) + 1, x)
           next(f, s) == IF s = {} THEN base ELSE into(f[s \ {Max(s)}], blocks[Max(s)])
           isFold(f) == f = [s \in SUBSET DOMAIN blocks |-> next(f, s)]
           iter == CHOOSE f : isFold(f)
<1>1. N \in Nat /\ DOMAIN blocks = 1 .. N /\ \A n \in 1 .. N : blocks[n] \in Block
  OBVIOUS
<1>2. ByStart(blocks) = iter[DOMAIN blocks]
  BY DEF ByStart, SortedBy, FoldLeft, MapThenFoldSet
<1> HIDE DEF iter
<1>3. Starts \in [Block -> Int]
  BY DEF Starts, Block
<1>4. step \in [X \X (1 .. N) -> X] /\ base \in X
  <2>1. \A t \in X, n \in 1 .. N : Insert(Starts, t, blocks[n]) \in X
    BY <1>1, <1>3, InsertKeepsOrder
  <2>2. base \in X
    BY DEF Ordered, IsInKeyOrder
  <2> QED BY <2>1, <2>2 DEF InsertStep
<1>5. ASSUME NEW t \in X, NEW n \in 1 .. N PROVE into(t, blocks[n]) = step[<<t, n>>]
  <2>1. step[<<t, n>>] = Insert(Starts, t, blocks[n])
    BY <1>5 DEF InsertStep
  <2>2. /\ \A m \in DOMAIN t : t[m] \in Block /\ Starts[t[m]] = t[m][1]
        /\ Starts[blocks[n]] = blocks[n][1]
    BY <1>1 DEF Ordered, Starts
  <2>3. {m \in DOMAIN t : Starts[t[m]] <= Starts[blocks[n]]} = {m \in DOMAIN t : t[m][1] <= blocks[n][1]}
    BY <2>2
  <2> QED BY <2>1, <2>3 DEF Insert
<1> HIDE DEF N, X, base, step, into
<1>6. PICK f : Folds(f, N, X, base, step)
  BY <1>1, <1>4, FoldExists
<1>7. ASSUME NEW s \in SUBSET (1 .. N), s # {}
      PROVE  /\ Max(s) \in 1 .. N /\ s \ {Max(s)} \in SUBSET (1 .. N)
             /\ \A x \in X : step[<<x, Max(s)>>] = into(x, blocks[Max(s)])
  <2>1. s \in SUBSET (0 .. N)
    OBVIOUS
  <2>2. Max(s) \in s
    BY <1>1, <1>7, <2>1, GreatestNumber
  <2> QED BY <1>5, <2>2
<1>8. isFold(f)
  <2>1. f \in [SUBSET (1 .. N) -> X]
    BY <1>6 DEF Folds
  <2>2. ASSUME NEW s \in SUBSET (1 .. N) PROVE f[s] = next(f, s)
    BY <1>6, <1>7 DEF Folds
  <2> HIDE DEF next
  <2> QED BY <1>1, <2>1, <2>2
<1>9. isFold(iter)
  <2> HIDE DEF isFold
  <2> QED BY <1>8 DEF iter
<1>10. \A s \in SUBSET (1 .. N) : iter[s] = next(iter, s)
  <2> HIDE DEF next
  <2> QED BY <1>1, <1>9
<1>11. Recurs(iter, N, X, base, step)
  <2> SUFFICES ASSUME NEW s \in SUBSET (1 .. N)
               PROVE  IF s = {} THEN iter[s] = base
                      ELSE iter[s \ {Max(s)}] \in X =>
                              iter[s] = step[<<iter[s \ {Max(s)}], Max(s)>>]
    BY DEF Recurs
  <2>1. iter[s] = next(iter, s)
    BY <1>10
  <2> QED BY <1>7, <2>1
<1>12. PICK h : Steps(h, N, X, base, step, iter[1 .. N])
  BY <1>1, <1>4, <1>11, FoldSteps
<1>13. Steps(h, Len(blocks), Ordered(Block, Starts), <<>>, InsertStep(Block, Starts, blocks), iter[1 .. N])
  BY <1>12 DEF N, X, base, step
<1>14. iter[1 .. N] \in Ordered(Block, Starts) /\ ToSet(iter[1 .. N]) = ToSet(blocks)
  BY <1>3, <1>13, InsertionSorts
<1> QED BY <1>1, <1>2, <1>14

GapStart == [cursor |-> 0, gaps |-> <<>>]
Walked(size, least, blocks) ==
    FoldLeft(LAMBDA s, block : GapStep(size, least, s, block), GapStart, blocks)

\* A step over a block leaves a state of the walk.
LEMMA GapStepType ==
    ASSUME NEW size \in Nat, NEW least \in Nat \ {0}, NEW state \in GapStates, NEW block \in Block
    PROVE  GapStep(size, least, state, block) \in GapStates
<1> DEFINE from == AtLeast(block[1], 0)
           upto == AtLeast(AtMost(block[1] + block[2], size), from)
           cursor == state.cursor
           start == AtLeast(cursor, AtMost(from, size))
           gaps == state.gaps
           next == GapStep(size, least, state, block)
<1>1. cursor \in Nat /\ gaps \in Seq(Nat \X Nat) /\ block[1] \in Int /\ block[2] \in Nat
  BY DEF GapStates, Block
<1>2. from \in Nat
  BY <1>1 DEF AtLeast
<1>3. next = [cursor |-> AtLeast(cursor, upto),
              gaps |-> IF start - cursor >= least THEN Append(gaps, <<cursor, start - cursor>>)
                       ELSE gaps]
  BY DEF GapStep
<1> HIDE DEF from, cursor, gaps, next
<1>4. upto \in Nat /\ start \in Nat /\ cursor <= start
  BY <1>1, <1>2 DEF AtLeast, AtMost
<1> HIDE DEF upto, start
<1>5. AtLeast(cursor, upto) \in Nat
  BY <1>1, <1>4 DEF AtLeast
<1>6. <<cursor, start - cursor>> \in Nat \X Nat
  BY <1>1, <1>4
<1>7. next \in GapStates
  BY <1>1, <1>3, <1>5, <1>6 DEF GapStates
<1> QED BY <1>7 DEF next

\* The walk goes over the blocks one after the other.
LEMMA WalkSteps ==
    ASSUME NEW size \in Nat, NEW least \in Nat \ {0}, NEW blocks \in Seq(Block)
    PROVE  \E h \in [0 .. Len(blocks) -> GapStates] :
              /\ h[0] = GapStart
              /\ \A n \in 1 .. Len(blocks) : h[n] = GapStep(size, least, h[n - 1], blocks[n])
              /\ Walked(size, least, blocks) = h[Len(blocks)]
<1> DEFINE N == Len(blocks)
           step == [p \in GapStates \X (1 .. N) |-> GapStep(size, least, p[1], blocks[p[2]])]
           next(f, s) == IF s = {} THEN GapStart
                         ELSE GapStep(size, least, f[s \ {Max(s)}], blocks[Max(s)])
           isFold(f) == f = [s \in SUBSET DOMAIN blocks |-> next(f, s)]
           iter == CHOOSE f : isFold(f)
<1>1. N \in Nat /\ DOMAIN blocks = 1 .. N /\ \A n \in 1 .. N : blocks[n] \in Block
  OBVIOUS
<1>2. Walked(size, least, blocks) = iter[DOMAIN blocks]
  BY DEF Walked, FoldLeft, MapThenFoldSet
<1> HIDE DEF iter
<1>3. GapStart \in GapStates
  BY DEF GapStart, GapStates
<1>4. step \in [GapStates \X (1 .. N) -> GapStates]
  BY <1>1, GapStepType
<1> HIDE DEF N
<1>5. PICK f : Folds(f, N, GapStates, GapStart, step)
  <2> HIDE DEF step
  <2> QED BY <1>1, <1>3, <1>4, FoldExists
<1>6. ASSUME NEW s \in SUBSET (1 .. N), s # {}
      PROVE  /\ Max(s) \in 1 .. N /\ s \ {Max(s)} \in SUBSET (1 .. N)
             /\ \A x \in GapStates : step[<<x, Max(s)>>] = GapStep(size, least, x, blocks[Max(s)])
  <2>1. s \in SUBSET (0 .. N)
    OBVIOUS
  <2>2. Max(s) \in s
    BY <1>1, <1>6, <2>1, GreatestNumber
  <2> QED BY <2>2
<1> HIDE DEF step
<1>7. isFold(f)
  <2>1. f \in [SUBSET (1 .. N) -> GapStates]
    BY <1>5 DEF Folds
  <2>2. ASSUME NEW s \in SUBSET (1 .. N) PROVE f[s] = next(f, s)
    BY <1>5, <1>6 DEF Folds
  <2> HIDE DEF next
  <2> QED BY <1>1, <2>1, <2>2
<1>8. isFold(iter)
  <2> HIDE DEF isFold
  <2> QED BY <1>7 DEF iter
<1>9. \A s \in SUBSET (1 .. N) : iter[s] = next(iter, s)
  <2> HIDE DEF next
  <2> QED BY <1>1, <1>8
<1>10. Recurs(iter, N, GapStates, GapStart, step)
  <2> SUFFICES ASSUME NEW s \in SUBSET (1 .. N)
               PROVE  IF s = {} THEN iter[s] = GapStart
                      ELSE iter[s \ {Max(s)}] \in GapStates =>
                              iter[s] = step[<<iter[s \ {Max(s)}], Max(s)>>]
    BY DEF Recurs
  <2>1. iter[s] = next(iter, s)
    BY <1>9
  <2> QED BY <1>6, <2>1
<1>11. PICK h : Steps(h, N, GapStates, GapStart, step, iter[1 .. N])
  BY <1>1, <1>3, <1>4, <1>10, FoldSteps
<1>12. \A n \in 1 .. N : h[n] = GapStep(size, least, h[n - 1], blocks[n])
  <2> SUFFICES ASSUME NEW n \in 1 .. N PROVE h[n] = GapStep(size, least, h[n - 1], blocks[n])
    OBVIOUS
  <2>1. n - 1 \in 0 .. N
    BY <1>1
  <2>2. h[n - 1] \in GapStates /\ h[n] = step[<<h[n - 1], n>>]
    BY <1>11, <2>1 DEF Steps
  <2> QED BY <2>2 DEF step
<1>13. h \in [0 .. N -> GapStates] /\ h[0] = GapStart /\ Walked(size, least, blocks) = h[N]
  BY <1>1, <1>2, <1>11 DEF Steps
<1> QED BY <1>12, <1>13 DEF N

\* Walking all the blocks finds the runs of what none of them explains: the whole file but
\* for what is left after the last one.
LEMMA WalkFindsRuns ==
    ASSUME NEW size \in Nat, NEW least \in Nat \ {0}, NEW blocks \in Seq(Block), NEW explained,
           IsInKeyOrder(blocks, Starts), explained = UNION {Bytes(blocks[n]) : n \in DOMAIN blocks}
    PROVE  /\ Walked(size, least, blocks) \in GapStates
           /\ GapsUpTo(Walked(size, least, blocks), size, least, explained)
           /\ \A b \in explained : b < size => b < Walked(size, least, blocks).cursor
<1> DEFINE N == Len(blocks)
<1>1. PICK h \in [0 .. N -> GapStates] :
         /\ h[0] = GapStart
         /\ \A n \in 1 .. N : h[n] = GapStep(size, least, h[n - 1], blocks[n])
         /\ Walked(size, least, blocks) = h[N]
  BY WalkSteps
<1>2. N \in Nat /\ DOMAIN blocks = 1 .. N /\ \A n \in 1 .. N : blocks[n] \in Block
  OBVIOUS
<1> DEFINE settled(n) == \A m \in 1 .. n : \A b \in Bytes(blocks[m]) : b < size => b < h[n].cursor
           good(n) == GapsUpTo(h[n], size, least, explained) /\ settled(n)
           reached == {n \in 0 .. N : good(n)}
<1> HIDE DEF N
<1>3. 0 \in reached
  <2>1. h[0].cursor = 0 /\ h[0].gaps = <<>>
    BY <1>1 DEF GapStart
  <2>2. ASSUME NEW r PROVE ~(IsRun(r, size, explained) /\ r[1] + r[2] <= 0)
    BY DEF IsRun
  <2>3. ToSet(<<>>) = {} /\ Len(<<>>) = 0
    BY DEF ToSet
  <2>4. GapsUpTo(h[0], size, least, explained)
    BY <2>1, <2>2, <2>3 DEF GapsUpTo
  <2>5. settled(0)
    OBVIOUS
  <2> QED BY <1>2, <2>4, <2>5
<1>4. ASSUME NEW n \in 0 .. N - 1, good(n) PROVE good(n + 1)
  <2>1. n + 1 \in 1 .. N /\ n \in 0 .. N /\ n + 1 \in 0 .. N /\ (n + 1) - 1 = n
    BY <1>2
  <2> DEFINE state == h[n]
             block == blocks[n + 1]
             after == h[n + 1]
  <2>2. state \in GapStates /\ block \in Block /\ after = GapStep(size, least, state, block)
    BY <1>1, <1>2, <2>1
  <2>3. \A b \in Bytes(block) : b \in explained
    BY <1>2, <2>1
  <2>4. ASSUME NEW b \in explained, b \in 0 .. size - 1 PROVE b < state.cursor \/ block[1] <= b
    <3>1. PICK m \in 1 .. N : b \in Bytes(blocks[m])
      BY <1>2
    <3>2. CASE m <= n
      BY <1>4, <2>4, <3>1, <3>2
    <3>3. CASE ~(m <= n)
      <4>1. m = n + 1 \/ n + 1 < m
        BY <2>1, <3>3
      <4>2. blocks[m] \in Block /\ blocks[m][1] \in Int /\ blocks[m][1] <= b
        BY <1>2, <2>4, <3>1 DEF Bytes, Block
      <4>3. block[1] \in Int /\ (n + 1 < m => Starts[block] <= Starts[blocks[m]])
        BY <1>2, <2>1, <2>2 DEF IsInKeyOrder, Block
      <4>4. Starts[block] = block[1] /\ Starts[blocks[m]] = blocks[m][1]
        BY <2>2, <4>2 DEF Starts
      <4>5. block[1] <= blocks[m][1]
        BY <4>1, <4>2, <4>3, <4>4
      <4> QED BY <2>4, <4>2, <4>3, <4>5
    <3> QED BY <3>2, <3>3
  <2>5. GapsUpTo(state, size, least, explained)
    BY <1>4
  <2>6. settled(n)
    BY <1>4
  <2> HIDE DEF state, block, after, good, settled
  <2>7. /\ GapsUpTo(after, size, least, explained)
        /\ after \in GapStates /\ state.cursor <= after.cursor
        /\ \A b \in Bytes(block) : b < size => b < after.cursor
    BY <2>2, <2>3, <2>4, <2>5, GapStepKeeps
  <2>8. settled(n + 1)
    <3> SUFFICES ASSUME NEW m \in 1 .. n + 1, NEW b \in Bytes(blocks[m]), b < size
                 PROVE  b < after.cursor
      BY DEF settled, after
    <3>1. m \in 1 .. n \/ m = n + 1
      BY <2>1
    <3>2. m \in 1 .. n => b < state.cursor
      BY <2>6 DEF settled, state
    <3>3. state.cursor \in Nat /\ after.cursor \in Nat
      BY <2>2, <2>7 DEF GapStates
    <3>4. b \in Int
      <4>1. blocks[m] \in Block
        BY <1>2, <2>1, <3>1
      <4> QED BY <4>1 DEF Bytes, Block
    <3> QED BY <2>7, <3>1, <3>2, <3>3, <3>4 DEF block
  <2> QED BY <2>7, <2>8 DEF good, after
<1>5. good(N)
  <2> HIDE DEF good
  <2>1. \A n \in 0 .. N - 1 : n \in reached => n + 1 \in reached
    BY <1>2, <1>4
  <2>2. N \in 0 .. N
    BY <1>2
  <2> HIDE DEF reached
  <2>3. N \in reached
    BY <1>2, <1>3, <2>1, <2>2, Upwards
  <2> QED BY <2>3 DEF reached
<1>6. \A b \in explained : b < size => b < h[N].cursor
  BY <1>2, <1>5
<1>7. h[N] \in GapStates
  BY <1>1, <1>2
<1> QED BY <1>1, <1>5, <1>6, <1>7

\* The gaps are the runs of the bytes no block covers that are long enough, in order.
LEMMA GapsAreRuns ==
    ASSUME NEW size \in Nat, NEW least \in Nat \ {0}, NEW blocks \in Seq(Block), NEW explained,
           explained = UNION {Bytes(blocks[n]) : n \in DOMAIN blocks}, NEW gaps,
           gaps = GapRanges(size, blocks, least)
    PROVE  /\ gaps \in Seq(Nat \X Nat)
           /\ \A r : r \in ToSet(gaps) <=> IsRun(r, size, explained) /\ r[2] >= least
           /\ \A n \in 1 .. Len(gaps) - 1 : gaps[n][1] + gaps[n][2] < gaps[n + 1][1]
<1> DEFINE ordered == ByStart(blocks)
           walked == Walked(size, least, ordered)
           rest == <<size, 1>>
           closed == GapStep(size, least, walked, rest)
<1>1. ordered \in Ordered(Block, Starts) /\ ToSet(ordered) = ToSet(blocks)
  BY BlocksAreSorted
<1>2. ordered \in Seq(Block) /\ IsInKeyOrder(ordered, Starts)
  BY <1>1 DEF Ordered
<1>3. explained = UNION {Bytes(ordered[n]) : n \in DOMAIN ordered}
  <2>1. explained = UNION {Bytes(block) : block \in ToSet(blocks)}
    BY DEF ToSet
  <2>2. UNION {Bytes(ordered[n]) : n \in DOMAIN ordered} = UNION {Bytes(block) : block \in ToSet(ordered)}
    BY DEF ToSet
  <2> QED BY <1>1, <2>1, <2>2
<1> HIDE DEF ordered
<1>4. /\ walked \in GapStates /\ GapsUpTo(walked, size, least, explained)
      /\ \A b \in explained : b < size => b < walked.cursor
  BY <1>2, <1>3, WalkFindsRuns
<1>5. size # 0 => gaps = IF size - walked.cursor >= least
                         THEN Append(walked.gaps, <<walked.cursor, size - walked.cursor>>)
                         ELSE walked.gaps
  <2>1. size # 0 => ~(size <= 0 \/ least <= 0)
    OBVIOUS
  <2>2. gaps = IF size <= 0 \/ least <= 0 THEN <<>>
               ELSE IF size - walked.cursor >= least
                    THEN Append(walked.gaps, <<walked.cursor, size - walked.cursor>>)
                    ELSE walked.gaps
    BY Zenon DEF GapRanges, Walked, ByStart, GapStart, ordered
  <2> HIDE DEF walked
  <2> QED BY <2>1, <2>2
<1>6. size = 0 => gaps = <<>>
  BY DEF GapRanges
<1> HIDE DEF walked
<1>7. walked.cursor \in Nat
  BY <1>4 DEF GapStates
<1>8. closed.gaps = IF size - walked.cursor >= least
                    THEN Append(walked.gaps, <<walked.cursor, size - walked.cursor>>)
                    ELSE walked.gaps
  <2>1. rest[1] = size /\ AtLeast(rest[1], 0) = size /\ AtMost(size, size) = size
    BY DEF AtLeast, AtMost
  <2>2. closed.gaps = IF AtLeast(walked.cursor, size) - walked.cursor >= least
                      THEN Append(walked.gaps, <<walked.cursor, AtLeast(walked.cursor, size) - walked.cursor>>)
                      ELSE walked.gaps
    BY <2>1 DEF GapStep
  <2>3. CASE walked.cursor <= size
    <3>1. AtLeast(walked.cursor, size) = size
      BY <1>7, <2>3 DEF AtLeast
    <3> QED BY <2>2, <3>1
  <2>4. CASE ~(walked.cursor <= size)
    <3>1. AtLeast(walked.cursor, size) = walked.cursor
      BY <1>7, <2>4 DEF AtLeast
    <3>2. ~(size - walked.cursor >= least) /\ ~(walked.cursor - walked.cursor >= least)
      BY <1>7, <2>4
    <3> QED BY <2>2, <3>1, <3>2
  <2> QED BY <2>3, <2>4
<1>9. /\ closed \in GapStates /\ GapsUpTo(closed, size, least, explained) /\ size < closed.cursor + 1
  <2>1. rest \in Block /\ Bytes(rest) = size .. size
    BY DEF Block, Bytes
  <2>2. \A b \in Bytes(rest) : b \in 0 .. size - 1 => b \in explained
    BY <2>1
  <2>3. \A b \in explained : b \in 0 .. size - 1 => b < walked.cursor \/ rest[1] <= b
    BY <1>4
  <2>4. size <= closed.cursor
    <3>1. AtLeast(rest[1], 0) = size /\ AtMost(rest[1] + rest[2], size) = size
          /\ AtLeast(size, size) = size
      BY DEF AtLeast, AtMost
    <3>2. closed.cursor = AtLeast(walked.cursor, size)
      BY <3>1 DEF GapStep
    <3> QED BY <1>7, <3>2 DEF AtLeast
  <2> HIDE DEF rest, closed
  <2>5. closed = GapStep(size, least, walked, rest)
    BY DEF closed
  <2>6. closed \in GapStates /\ GapsUpTo(closed, size, least, explained)
    BY <1>4, <2>1, <2>2, <2>3, <2>5, GapStepKeeps
  <2>7. closed.cursor \in Nat
    BY <2>6 DEF GapStates
  <2> QED BY <2>4, <2>6, <2>7
<1> HIDE DEF closed
<1>10. CASE size # 0
  <2>1. gaps = closed.gaps
    BY <1>5, <1>8, <1>10
  <2>2. closed.cursor \in Nat /\ gaps \in Seq(Nat \X Nat)
    BY <1>9, <2>1 DEF GapStates
  <2>3. ASSUME NEW r
        PROVE  r \in ToSet(gaps) <=> IsRun(r, size, explained) /\ r[2] >= least
    <3>1. r \in ToSet(gaps) <=> IsRun(r, size, explained) /\ r[1] + r[2] <= closed.cursor /\ r[2] >= least
      BY <1>9, <2>1 DEF GapsUpTo
    <3>2. IsRun(r, size, explained) => r[1] + r[2] <= closed.cursor
      BY <1>9, <2>2 DEF IsRun
    <3> QED BY <3>1, <3>2
  <2> QED BY <1>9, <2>1, <2>2, <2>3 DEF GapsUpTo
<1>11. CASE size = 0
  <2>1. gaps = <<>> /\ ToSet(<<>>) = {} /\ Len(<<>>) = 0
    BY <1>6, <1>11 DEF ToSet
  <2>2. \A r : ~IsRun(r, size, explained)
    BY <1>11 DEF IsRun
  <2> QED BY <2>1, <2>2
<1> QED BY <1>10, <1>11

\* The gaps are exactly the runs of bytes no block covers that are long enough, one after the
\* other, for any file, any blocks and any length asked for.
LEMMA GapsAreExact ==
    ASSUME NEW size \in Nat, NEW least \in Nat \ {0}, NEW blocks \in Seq(Block)
    PROVE  GapsAreTheUncoveredRuns(size, blocks, least)
<1> DEFINE explained == UNION {Bytes(blocks[n]) : n \in DOMAIN blocks}
           open == (0 .. size - 1) \ explained
           whole == {cd \in open \X open : /\ cd[1] <= cd[2] /\ cd[1] .. cd[2] \subseteq open
                                           /\ cd[1] - 1 \notin open /\ cd[2] + 1 \notin open}
           runs == {<<ab[1], ab[2] - ab[1] + 1>> : ab \in whole}
           gaps == GapRanges(size, blocks, least)
<1>1. /\ gaps \in Seq(Nat \X Nat)
      /\ \A r : r \in ToSet(gaps) <=> IsRun(r, size, explained) /\ r[2] >= least
      /\ \A n \in 1 .. Len(gaps) - 1 : gaps[n][1] + gaps[n][2] < gaps[n + 1][1]
  BY GapsAreRuns
<1>2. GapsAreTheUncoveredRuns(size, blocks, least)
         <=> /\ ToSet(gaps) = {r \in runs : r[2] >= least}
             /\ \A n \in 1 .. Len(gaps) - 1 : gaps[n][1] + gaps[n][2] < gaps[n + 1][1]
  BY DEF GapsAreTheUncoveredRuns
<1> HIDE DEF explained, gaps
<1>3. ASSUME NEW r \in runs PROVE IsRun(r, size, explained)
  <2>1. PICK ab \in whole : r = <<ab[1], ab[2] - ab[1] + 1>>
    OBVIOUS
  <2> DEFINE a == ab[1]
             z == ab[2]
  <2>2. /\ a \in 0 .. size - 1 /\ z \in 0 .. size - 1 /\ a <= z
        /\ \A b \in a .. z : b \notin explained
        /\ a - 1 \notin open /\ z + 1 \notin open
    OBVIOUS
  <2> HIDE DEF a, z
  <2>3. r[1] = a /\ r[2] = z - a + 1 /\ r = <<a, z - a + 1>>
    BY <2>1 DEF a, z
  <2>4. /\ r \in Nat \X (Nat \ {0}) /\ r[1] + r[2] = z + 1 /\ r[1] + r[2] - 1 = z
        /\ z + 1 <= size
    BY <2>2, <2>3
  <2>5. a = 0 \/ a - 1 \in explained
    <3>1. a # 0 => a - 1 \in 0 .. size - 1
      BY <2>2
    <3> QED BY <2>2, <3>1
  <2>6. z + 1 = size \/ z + 1 \in explained
    BY <2>2
  <2> QED BY <2>2, <2>3, <2>4, <2>5, <2>6 DEF IsRun
<1>4. ASSUME NEW r, IsRun(r, size, explained) PROVE r \in runs
  <2> DEFINE a == r[1]
             z == r[1] + r[2] - 1
  <2>1. /\ r[1] \in Nat /\ r[2] \in Nat \ {0} /\ r[1] + r[2] <= size /\ r = <<r[1], r[2]>>
        /\ \A b \in r[1] .. r[1] + r[2] - 1 : b \notin explained
        /\ r[1] = 0 \/ r[1] - 1 \in explained
        /\ r[1] + r[2] = size \/ r[1] + r[2] \in explained
    BY <1>4 DEF IsRun
  <2>2. /\ a \in Nat /\ z \in Nat /\ a <= z /\ z < size /\ r[2] = z - a + 1
        /\ \A b \in a .. z : b \notin explained
        /\ a = 0 \/ a - 1 \in explained
        /\ z + 1 = size \/ z + 1 \in explained
    BY <2>1
  <2>3. r = <<a, z - a + 1>>
    BY <2>1, <2>2
  <2> HIDE DEF a, z
  <2>4. a .. z \subseteq open /\ a \in open /\ z \in open
    BY <2>2
  <2>5. a - 1 \notin open /\ z + 1 \notin open
    <3>1. a = 0 => a - 1 \notin 0 .. size - 1
      OBVIOUS
    <3>2. z + 1 = size => z + 1 \notin 0 .. size - 1
      OBVIOUS
    <3> QED BY <2>2, <3>1, <3>2
  <2> HIDE DEF open
  <2>6. <<a, z>> \in whole
    BY <2>2, <2>4, <2>5
  <2> QED BY <2>3, <2>6
<1> HIDE DEF runs
<1>5. ToSet(gaps) = {r \in runs : r[2] >= least}
  BY <1>1, <1>3, <1>4
<1> QED BY <1>1, <1>2, <1>5
------------------------------------------------------------------------------
(* What becomes of a gap.  The objects of a file are sorted by offset, the *)
(* windows between them and the images are the blocks.                     *)

Offsets(Y) == [o \in Y |-> o.offset]

\* Sorting keeps the objects, each as often as it was there.
LEMMA ObjectsAreSorted ==
    ASSUME NEW Y, \A o \in Y : o.offset \in Int, NEW objects \in Seq(Y)
    PROVE  /\ ByOffset(objects) \in Seq(Y) /\ ToSet(ByOffset(objects)) = ToSet(objects)
           /\ Len(ByOffset(objects)) = Len(objects)
<1> DEFINE N == Len(objects)
           X == Ordered(Y, Offsets(Y))
           base == <<>>
           step == InsertStep(Y, Offsets(Y), objects)
           into(t, x) == InsertAt(t, Cardinality({n \in DOMAIN t : t[n].offset <= x.offset}) + 1, x)
           next(f, s) == IF s = {} THEN base ELSE into(f[s \ {Max(s)}], objects[Max(s)])
           isFold(f) == f = [s \in SUBSET DOMAIN objects |-> next(f, s)]
           iter == CHOOSE f : isFold(f)
<1>1. N \in Nat /\ DOMAIN objects = 1 .. N /\ \A n \in 1 .. N : objects[n] \in Y
  OBVIOUS
<1>2. ByOffset(objects) = iter[DOMAIN objects]
  BY DEF ByOffset, SortedBy, FoldLeft, MapThenFoldSet
<1> HIDE DEF iter
<1>3. Offsets(Y) \in [Y -> Int]
  BY DEF Offsets
<1>4. step \in [X \X (1 .. N) -> X] /\ base \in X
  <2>1. \A t \in X, n \in 1 .. N : Insert(Offsets(Y), t, objects[n]) \in X
    BY <1>1, <1>3, InsertKeepsOrder
  <2>2. base \in X
    BY DEF Ordered, IsInKeyOrder
  <2> QED BY <2>1, <2>2 DEF InsertStep
<1>5. ASSUME NEW t \in X, NEW n \in 1 .. N PROVE into(t, objects[n]) = step[<<t, n>>]
  <2>1. step[<<t, n>>] = Insert(Offsets(Y), t, objects[n])
    BY <1>5 DEF InsertStep
  <2>2. /\ \A m \in DOMAIN t : t[m] \in Y /\ Offsets(Y)[t[m]] = t[m].offset
        /\ Offsets(Y)[objects[n]] = objects[n].offset
    BY <1>1 DEF Ordered, Offsets
  <2>3. {m \in DOMAIN t : Offsets(Y)[t[m]] <= Offsets(Y)[objects[n]]} = {m \in DOMAIN t : t[m].offset <= objects[n].offset}
    BY <2>2
  <2> QED BY <2>1, <2>3 DEF Insert
<1> HIDE DEF N, X, base, step, into
<1>6. PICK f : Folds(f, N, X, base, step)
  BY <1>1, <1>4, FoldExists
<1>7. ASSUME NEW s \in SUBSET (1 .. N), s # {}
      PROVE  /\ Max(s) \in 1 .. N /\ s \ {Max(s)} \in SUBSET (1 .. N)
             /\ \A x \in X : step[<<x, Max(s)>>] = into(x, objects[Max(s)])
  <2>1. s \in SUBSET (0 .. N)
    OBVIOUS
  <2>2. Max(s) \in s
    BY <1>1, <1>7, <2>1, GreatestNumber
  <2> QED BY <1>5, <2>2
<1>8. isFold(f)
  <2>1. f \in [SUBSET (1 .. N) -> X]
    BY <1>6 DEF Folds
  <2>2. ASSUME NEW s \in SUBSET (1 .. N) PROVE f[s] = next(f, s)
    BY <1>6, <1>7 DEF Folds
  <2> HIDE DEF next
  <2> QED BY <1>1, <2>1, <2>2
<1>9. isFold(iter)
  <2> HIDE DEF isFold
  <2> QED BY <1>8 DEF iter
<1>10. \A s \in SUBSET (1 .. N) : iter[s] = next(iter, s)
  <2> HIDE DEF next
  <2> QED BY <1>1, <1>9
<1>11. Recurs(iter, N, X, base, step)
  <2> SUFFICES ASSUME NEW s \in SUBSET (1 .. N)
               PROVE  IF s = {} THEN iter[s] = base
                      ELSE iter[s \ {Max(s)}] \in X =>
                              iter[s] = step[<<iter[s \ {Max(s)}], Max(s)>>]
    BY DEF Recurs
  <2>1. iter[s] = next(iter, s)
    BY <1>10
  <2> QED BY <1>7, <2>1
<1>12. PICK h : Steps(h, N, X, base, step, iter[1 .. N])
  BY <1>1, <1>4, <1>11, FoldSteps
<1>13. Steps(h, Len(objects), Ordered(Y, Offsets(Y)), <<>>, InsertStep(Y, Offsets(Y), objects), iter[1 .. N])
  BY <1>12 DEF N, X, base, step
<1>14. iter[1 .. N] \in Ordered(Y, Offsets(Y)) /\ ToSet(iter[1 .. N]) = ToSet(objects)
      /\ Len(iter[1 .. N]) = Len(objects)
  BY <1>3, <1>13, InsertionSorts
<1> QED BY <1>1, <1>2, <1>14 DEF Ordered

\* What is picked from a sequence is at the positions picked.
LEMMA PickedAre ==
    ASSUME NEW Y, NEW s \in Seq(Y), NEW P \in SUBSET (1 .. Len(s)), NEW q, q = Picked(s, P)
    PROVE  /\ q \in Seq(Y) /\ Len(q) \in Nat /\ DOMAIN q = 1 .. Len(q)
           /\ ToSet(q) = {s[n] : n \in P}
<1> DEFINE at == Ascending(P)
           N == Cardinality(P)
<1>1. Len(s) \in Nat /\ DOMAIN s = 1 .. Len(s) /\ \A n \in 1 .. Len(s) : s[n] \in Y
  OBVIOUS
<1>2. P \in SUBSET Int /\ IsFiniteSet(P)
  <2>1. IsFiniteSet(1 .. Len(s))
    <3>1. 1 \in Int /\ Len(s) \in Int
      BY <1>1
    <3> QED BY <3>1, FS_Interval
  <2>2. IsFiniteSet(P)
    BY <2>1, FS_Subset
  <2> QED BY <1>1, <2>2
<1>3. /\ N \in Nat /\ at \in [1 .. N -> P]
      /\ \A x \in P : \E n \in 1 .. N : at[n] = x
  BY <1>2, SortedNumbers
<1>4. q = [n \in DOMAIN at |-> s[at[n]]]
  BY DEF Picked, Each
<1> HIDE DEF at, N
<1>5. q \in [1 .. N -> Y]
  BY <1>1, <1>3, <1>4
<1>6. q \in Seq(Y) /\ Len(q) = N
  BY <1>3, <1>5, TupleIsSeq
<1>7. ToSet(q) = {s[n] : n \in P}
  <2>1. DOMAIN q = 1 .. N /\ \A n \in 1 .. N : q[n] = s[at[n]] /\ at[n] \in P
    BY <1>3, <1>4
  <2>2. \A n \in 1 .. N : q[n] \in {s[m] : m \in P}
    BY <2>1
  <2>3. \A m \in P : \E n \in 1 .. N : q[n] = s[m]
    BY <1>3, <2>1
  <2>4. ToSet(q) = {q[n] : n \in 1 .. N}
    BY <2>1 DEF ToSet
  <2> QED BY <2>2, <2>3, <2>4
<1> QED BY <1>3, <1>5, <1>6, <1>7

\* Concatenating keeps the members of both.
LEMMA ConcatenatedAre ==
    ASSUME NEW Y, NEW s \in Seq(Y), NEW t \in Seq(Y)
    PROVE  s \o t \in Seq(Y) /\ ToSet(s \o t) = ToSet(s) \cup ToSet(t)
<1>1. /\ s \o t \in Seq(Y) /\ DOMAIN (s \o t) = 1 .. Len(s) + Len(t)
      /\ \A n \in 1 .. Len(s) : (s \o t)[n] = s[n]
      /\ \A n \in 1 .. Len(t) : (s \o t)[Len(s) + n] = t[n]
      /\ Len(s) \in Nat /\ Len(t) \in Nat /\ DOMAIN s = 1 .. Len(s) /\ DOMAIN t = 1 .. Len(t)
  OBVIOUS
<1>2. ASSUME NEW n \in 1 .. Len(s) + Len(t) PROVE (s \o t)[n] \in ToSet(s) \cup ToSet(t)
  <2>1. CASE n \in 1 .. Len(s)
    BY <1>1, <2>1 DEF ToSet
  <2>2. CASE n \notin 1 .. Len(s)
    <3>1. n - Len(s) \in 1 .. Len(t) /\ Len(s) + (n - Len(s)) = n
      BY <1>1, <2>2
    <3>2. (s \o t)[n] = t[n - Len(s)]
      BY <1>1, <3>1
    <3> QED BY <1>1, <3>1, <3>2 DEF ToSet
  <2> QED BY <2>1, <2>2
<1>3. ASSUME NEW n \in 1 .. Len(s) PROVE s[n] \in ToSet(s \o t)
  <2>1. n \in 1 .. Len(s) + Len(t)
    BY <1>1
  <2> QED BY <1>1, <2>1 DEF ToSet
<1>4. ASSUME NEW n \in 1 .. Len(t) PROVE t[n] \in ToSet(s \o t)
  <2>1. Len(s) + n \in 1 .. Len(s) + Len(t)
    BY <1>1
  <2> QED BY <1>1, <2>1 DEF ToSet
<1>5. ToSet(s \o t) \subseteq ToSet(s) \cup ToSet(t)
  BY <1>1, <1>2 DEF ToSet
<1>6. ToSet(s) \subseteq ToSet(s \o t) /\ ToSet(t) \subseteq ToSet(s \o t)
  <2>1. ToSet(s) = {s[n] : n \in 1 .. Len(s)} /\ ToSet(t) = {t[n] : n \in 1 .. Len(t)}
    BY <1>1 DEF ToSet
  <2> QED BY <1>3, <1>4, <2>1
<1> QED BY <1>1, <1>5, <1>6

\* What is known of an object: where it begins and how long the parser says it is.
AreObjects(Y) == \A o \in Y : o.offset \in Int /\ o.length \in Int

\* The windows of the objects begin and end at numbers.
LEMMA WindowsAre ==
    ASSUME NEW Y, AreObjects(Y), NEW objects \in Seq(Y), NEW size \in Nat, NEW windows,
           windows = Windows(objects, size, FALSE)
    PROVE  \E N \in Nat : /\ DOMAIN windows = 1 .. N /\ windows = [n \in 1 .. N |-> windows[n]]
                          /\ \A n \in 1 .. N : windows[n].start \in Int /\ windows[n].end \in Int
<1> DEFINE ordered == ByOffset(objects)
           N == Len(ordered)
           start(o) == AtLeast(o.offset, 0)
           own(n, o) == IF o.confirmed /\ o.length > 0 THEN AtMost(o.offset + o.length, size)
                        ELSE IF n < N THEN ordered[n + 1].offset
                        ELSE start(o)
           end(n, o) == AtLeast(own(n, o), start(o))
<1>1. /\ ordered \in Seq(Y) /\ N \in Nat /\ DOMAIN ordered = 1 .. N
      /\ \A n \in 1 .. N : ordered[n].offset \in Int /\ ordered[n].length \in Int
  <2>1. ordered \in Seq(Y)
    BY ObjectsAreSorted DEF AreObjects
  <2> HIDE DEF ordered
  <2> QED BY <2>1 DEF AreObjects
<1>2. windows = [n \in DOMAIN ordered |->
                    [object |-> ordered[n], start |-> start(ordered[n]),
                     end |-> IF n = N /\ end(n, ordered[n]) = start(ordered[n]) THEN size
                             ELSE end(n, ordered[n])]]
  BY DEF Windows
<1> HIDE DEF ordered, N
<1>3. ASSUME NEW n \in 1 .. N PROVE start(ordered[n]) \in Int /\ end(n, ordered[n]) \in Int
  <2> DEFINE o == ordered[n]
  <2>1. o.offset \in Int /\ o.length \in Int
    BY <1>1
  <2>2. n < N => ordered[n + 1].offset \in Int
    <3>1. n < N => n + 1 \in 1 .. N
      BY <1>1
    <3> QED BY <1>1, <3>1
  <2> HIDE DEF o
  <2>3. start(o) \in Int
    BY <2>1 DEF AtLeast
  <2>4. AtMost(o.offset + o.length, size) \in Int
    BY <2>1 DEF AtMost
  <2> HIDE DEF start
  <2>5. own(n, o) \in Int
    BY <2>2, <2>3, <2>4
  <2> HIDE DEF own
  <2>6. end(n, o) \in Int
    BY <2>3, <2>5 DEF AtLeast
  <2> QED BY <2>3, <2>6 DEF o
<1> HIDE DEF start, end
<1>4. \A n \in 1 .. N : windows[n].start \in Int /\ windows[n].end \in Int
  <2> SUFFICES ASSUME NEW n \in 1 .. N
               PROVE  windows[n].start \in Int /\ windows[n].end \in Int
    OBVIOUS
  <2> DEFINE from == start(ordered[n])
             upto == IF n = N /\ end(n, ordered[n]) = from THEN size ELSE end(n, ordered[n])
  <2>1. windows[n] = [object |-> ordered[n], start |-> from, end |-> upto]
    BY <1>1, <1>2, Zenon
  <2>2. from \in Int /\ upto \in Int
    <3>1. from \in Int /\ end(n, ordered[n]) \in Int /\ size \in Int
      BY <1>3
    <3> QED BY <3>1, Zenon
  <2> HIDE DEF from, upto
  <2> DEFINE w == windows[n]
  <2>3. w = [object |-> ordered[n], start |-> from, end |-> upto]
    BY <2>1
  <2> HIDE DEF w
  <2>4. w.start = from /\ w.end = upto
    BY <2>3
  <2> QED BY <2>2, <2>4 DEF w
<1>5. DOMAIN windows = 1 .. N /\ windows = [n \in 1 .. N |-> windows[n]]
  BY <1>1, <1>2
<1> QED BY <1>1, <1>4, <1>5

\* What explains bytes are blocks.
LEMMA CoveredAreBlocks ==
    ASSUME NEW Y, AreObjects(Y), NEW objects \in Seq(Y), NEW size \in Nat,
           NEW images \in Seq(Block)
    PROVE  Covered(images, objects, size) \in Seq(Block)
<1> DEFINE windows == Windows(objects, size, FALSE)
           ranges == Each(windows, LAMBDA w : <<w.start, w.end - w.start>>)
           P == {n \in DOMAIN ranges : ranges[n][2] > 0}
           held == Picked(ranges, P)
<1>1. PICK N \in Nat : /\ DOMAIN windows = 1 .. N /\ windows = [n \in 1 .. N |-> windows[n]]
                       /\ \A n \in 1 .. N : windows[n].start \in Int /\ windows[n].end \in Int
  BY WindowsAre
<1>2. Covered(images, objects, size) = images \o held
  BY DEF Covered, Those
<1>3. ranges = [n \in DOMAIN windows |-> <<windows[n].start, windows[n].end - windows[n].start>>]
  BY DEF Each
<1> HIDE DEF windows, ranges
<1>4. ranges \in [1 .. N -> Int \X Int]
  BY <1>1, <1>3
<1>5. ranges \in Seq(Int \X Int) /\ Len(ranges) = N
  BY <1>4, TupleIsSeq
<1>6. P \in SUBSET (1 .. Len(ranges))
  BY <1>4, <1>5
<1> HIDE DEF P
<1>7. /\ held \in Seq(Int \X Int) /\ Len(held) \in Nat /\ DOMAIN held = 1 .. Len(held)
      /\ ToSet(held) = {ranges[n] : n \in P}
  BY <1>5, <1>6, PickedAre, SMTT(20)
<1> HIDE DEF held
<1>8. \A n \in P : ranges[n] \in Block
  BY <1>4 DEF P, Block
<1>9. \A n \in 1 .. Len(held) : held[n] \in Block
  BY <1>7, <1>8 DEF ToSet
<1>10. held \in Seq(Block)
  <2>1. held \in [1 .. Len(held) -> Block]
    BY <1>7, <1>9
  <2> QED BY <1>7, <2>1, TupleIsSeq
<1> QED BY <1>2, <1>10, ConcatenatedAre

\* The gaps are ranges, and there are none of no size.
LEMMA GapsAreRanges ==
    ASSUME NEW size \in Nat, NEW least \in Int, NEW blocks \in Seq(Block)
    PROVE  /\ GapRanges(size, blocks, least) \in Seq(Nat \X Nat)
           /\ size = 0 => ToSet(GapRanges(size, blocks, least)) = {}
<1>1. CASE size = 0 \/ least <= 0
  <2>1. GapRanges(size, blocks, least) = <<>>
    <3>1. size <= 0 \/ least <= 0
      BY <1>1
    <3> QED BY <3>1, Zenon DEF GapRanges
  <2>2. <<>> \in Seq(Nat \X Nat) /\ ToSet(<<>>) = {}
    BY DEF ToSet
  <2> QED BY <2>1, <2>2
<1>2. CASE size # 0 /\ ~(least <= 0)
  <2>1. least \in Nat \ {0}
    BY <1>2
  <2> QED BY <1>2, <2>1, GapsAreRuns
<1> QED BY <1>1, <1>2

\* The longest run of a range is a number.
LEMMA LongestIsANumber ==
    ASSUME NEW run, NEW range \in Nat \X Nat PROVE LongestIn(run, range) \in Nat
<1> DEFINE among(b) == {c \in Bytes(range) : run[c] = run[b] /\ run[b] # 0}
           N == Cardinality(Bytes(range))
           lengths == {0} \cup {Cardinality(among(b)) : b \in Bytes(range)}
<1>1. IsFiniteSet(Bytes(range))
  <2>1. range[1] \in Int /\ range[1] + range[2] - 1 \in Int
    OBVIOUS
  <2> QED BY <2>1, FS_Interval DEF Bytes
<1>2. N \in Nat
  BY <1>1, FS_CardinalityType
<1>3. ASSUME NEW b \in Bytes(range) PROVE Cardinality(among(b)) \in 0 .. N
  <2>1. among(b) \in SUBSET Bytes(range)
    OBVIOUS
  <2> HIDE DEF among
  <2>2. IsFiniteSet(among(b)) /\ Cardinality(among(b)) <= N
    BY <1>1, <2>1, FS_Subset
  <2>3. Cardinality(among(b)) \in Nat
    BY <2>2, FS_CardinalityType
  <2> QED BY <1>2, <2>2, <2>3
<1>4. LongestIn(run, range) = Max(lengths)
  BY DEF LongestIn
<1> HIDE DEF N, among
<1>5. lengths \in SUBSET (0 .. N) /\ lengths # {}
  BY <1>2, <1>3
<1> HIDE DEF lengths
<1>6. Max(lengths) \in lengths
  BY <1>2, <1>5, GreatestNumber
<1>7. Max(lengths) \in Nat
  <2>1. \A n \in lengths : n \in Nat
    BY <1>2, <1>5
  <2> QED BY <1>6, <2>1, Zenon
<1> QED BY <1>4, <1>7

\* What raw and text artifacts are of.
RegionItems ==
    [kind : {"raw_dump", "text_region"}, range : Nat \X Nat, status : {"extracted", "skipped", "partial"},
     error : {None, "target_exists", "excluded_by_text_extraction", "empty_file"}]
Keeps(items, r) ==
    \E i \in ToSet(items) : i.range = r /\ (i.status = "extracted" \/ i.error = "target_exists")

\* The raw artifacts have an item for every range that is not left out.
LEMMA RawKeeps ==
    ASSUME NEW file, NEW ranges \in Seq(Nat \X Nat), NEW classes, NEW excluded, NEW existing, NEW items,
           items = ExportRaw(file, ranges, classes, excluded, existing)
    PROVE  /\ items \in Seq(RegionItems)
           /\ ~(file.size <= 0) =>
                 \A r \in ToSet(ranges) : classes[r] \notin excluded => Keeps(items, r)
<1> DEFINE P == {n \in DOMAIN ranges : classes[ranges[n]] \in excluded}
           Q == {n \in DOMAIN ranges : classes[ranges[n]] \notin excluded}
           out == Picked(ranges, P)
           in == Picked(ranges, Q)
           first == [n \in DOMAIN out |->
                        RegionItem("raw_dump", out[n], "skipped", "excluded_by_text_extraction")]
           second == [n \in DOMAIN in |->
                        IF in[n] \in existing
                        THEN RegionItem("raw_dump", in[n], "skipped", "target_exists")
                        ELSE RegionItem("raw_dump", in[n], "extracted", None)]
<1>1. /\ P \in SUBSET (1 .. Len(ranges)) /\ Q \in SUBSET (1 .. Len(ranges))
      /\ DOMAIN ranges = 1 .. Len(ranges)
  OBVIOUS
<1>2. items = IF file.size <= 0 THEN Emptied("raw_dump") ELSE first \o second
  BY DEF ExportRaw, Those
<1>3. ToSet(ranges) = {ranges[n] : n \in DOMAIN ranges}
  BY DEF ToSet
<1>4. \A n \in DOMAIN ranges : classes[ranges[n]] \notin excluded => n \in Q
  OBVIOUS
<1> HIDE DEF P, Q
<1>5. /\ out \in Seq(Nat \X Nat) /\ Len(out) \in Nat /\ DOMAIN out = 1 .. Len(out)
  BY <1>1, PickedAre
<1>6. /\ in \in Seq(Nat \X Nat) /\ Len(in) \in Nat /\ DOMAIN in = 1 .. Len(in)
      /\ ToSet(in) = {ranges[n] : n \in Q}
  BY <1>1, PickedAre
<1> HIDE DEF out, in
<1>7. first \in Seq(RegionItems)
  <2>1. first \in [1 .. Len(out) -> RegionItems]
    BY <1>5 DEF RegionItem, RegionItems
  <2> QED BY <1>5, <2>1, TupleIsSeq
<1>8. second \in Seq(RegionItems)
  <2>1. second \in [1 .. Len(in) -> RegionItems]
    BY <1>6 DEF RegionItem, RegionItems
  <2> QED BY <1>6, <2>1, TupleIsSeq
<1>9. ASSUME NEW n \in DOMAIN in PROVE Keeps(second, in[n])
  <2> DEFINE i == second[n]
  <2>1. i.range = in[n] /\ (i.status = "extracted" \/ i.error = "target_exists")
    BY DEF RegionItem
  <2>2. i \in ToSet(second)
    BY DEF ToSet
  <2> HIDE DEF i
  <2> QED BY <2>1, <2>2 DEF Keeps
<1> HIDE DEF first, second
<1>10. first \o second \in Seq(RegionItems) /\ ToSet(second) \subseteq ToSet(first \o second)
  BY <1>7, <1>8, ConcatenatedAre
<1>11. Emptied("raw_dump") \in Seq(RegionItems)
  BY DEF Emptied, RegionItem, RegionItems
<1>12. ASSUME ~(file.size <= 0), NEW r \in ToSet(ranges), classes[r] \notin excluded PROVE Keeps(items, r)
  <2>1. PICK m \in Q : r = ranges[m]
    BY <1>3, <1>4, <1>12
  <2>2. r \in ToSet(in)
    BY <1>6, <2>1
  <2>3. PICK n \in DOMAIN in : r = in[n]
    BY <2>2 DEF ToSet
  <2>4. Keeps(second, r)
    BY <1>9, <2>3
  <2> QED BY <1>2, <1>10, <1>12, <2>4 DEF Keeps
<1> QED BY <1>2, <1>10, <1>11, <1>12

\* The text artifacts have an item for every range with a string long enough.
LEMMA TextKeeps ==
    ASSUME NEW file, NEW ranges \in Seq(Nat \X Nat), NEW textMin, NEW existing, NEW items,
           items = ExportText(file, ranges, textMin, existing)
    PROVE  /\ items \in Seq(RegionItems)
           /\ ~(file.size <= 0) =>
                 \A r \in ToSet(ranges) : LongestIn(file.run, r) >= textMin => Keeps(items, r)
<1> DEFINE P == {n \in DOMAIN ranges : LongestIn(file.run, ranges[n]) >= textMin}
           held == Picked(ranges, P)
           written == [n \in DOMAIN held |->
                         IF held[n] \in existing
                         THEN RegionItem("text_region", held[n], "skipped", "target_exists")
                         ELSE RegionItem("text_region", held[n], "extracted", None)]
<1>1. P \in SUBSET (1 .. Len(ranges)) /\ DOMAIN ranges = 1 .. Len(ranges)
  OBVIOUS
<1>2. items = IF file.size <= 0 THEN Emptied("text_region") ELSE written
  BY DEF ExportText, Those
<1>3. ToSet(ranges) = {ranges[n] : n \in DOMAIN ranges}
  BY DEF ToSet
<1>4. \A n \in DOMAIN ranges : LongestIn(file.run, ranges[n]) >= textMin => n \in P
  OBVIOUS
<1> HIDE DEF P
<1>5. /\ held \in Seq(Nat \X Nat) /\ Len(held) \in Nat /\ DOMAIN held = 1 .. Len(held)
      /\ ToSet(held) = {ranges[n] : n \in P}
  BY <1>1, PickedAre
<1> HIDE DEF held
<1>6. written \in Seq(RegionItems)
  <2>1. written \in [1 .. Len(held) -> RegionItems]
    BY <1>5 DEF RegionItem, RegionItems
  <2> QED BY <1>5, <2>1, TupleIsSeq
<1>7. ASSUME NEW n \in DOMAIN held PROVE Keeps(written, held[n])
  <2> DEFINE i == written[n]
  <2>1. i.range = held[n] /\ (i.status = "extracted" \/ i.error = "target_exists")
    BY DEF RegionItem
  <2>2. i \in ToSet(written)
    BY DEF ToSet
  <2> HIDE DEF i
  <2> QED BY <2>1, <2>2 DEF Keeps
<1> HIDE DEF written
<1>8. Emptied("text_region") \in Seq(RegionItems)
  BY DEF Emptied, RegionItem, RegionItems
<1>9. ASSUME ~(file.size <= 0), NEW r \in ToSet(ranges), LongestIn(file.run, r) >= textMin
      PROVE  Keeps(items, r)
  <2>1. PICK m \in P : r = ranges[m]
    BY <1>3, <1>4, <1>9
  <2>2. r \in ToSet(held)
    BY <1>5, <2>1
  <2>3. PICK n \in DOMAIN held : r = held[n]
    BY <2>2 DEF ToSet
  <2> QED BY <1>2, <1>7, <1>9, <2>3
<1> QED BY <1>2, <1>6, <1>8, <1>9

\* With the lengths left at their defaults every gap of the size asked for has an artifact,
\* its bytes or the text in them, whatever the images, the objects and the options are.
LEMMA GapsArePreserved ==
    ASSUME NEW Y, AreObjects(Y), NEW file, NEW opts, file.size \in Nat, file.images \in Seq(Block),
           file.objects \in Seq(Y), opts.raw \in BOOLEAN, opts.text \in BOOLEAN,
           opts.rawMin \in Int, opts.textMin \in Int, opts.textLength \in Int
    PROVE  GapIsPreservedByDefault(file, opts)
<1> DEFINE covered == Covered(file.images, file.objects, file.size)
           gaps(least) == GapRanges(file.size, covered, least)
           ranges == gaps(opts.rawMin)
           texts == gaps(opts.textMin)
           classes == [r \in ToSet(ranges) |-> Class(file, r, ClassText, opts.numeric)]
           raw == ExportRaw(file, ranges, classes, Excluded(opts), opts.existing)
           text == ExportText(file, texts, opts.textLength, opts.existing)
           items == If(opts.raw, raw) \o If(opts.text, text)
<1>1. covered \in Seq(Block)
  BY CoveredAreBlocks
<1> HIDE DEF covered
<1>2. ranges \in Seq(Nat \X Nat) /\ texts \in Seq(Nat \X Nat) /\ (file.size = 0 => ToSet(ranges) = {})
  BY <1>1, GapsAreRanges
<1>3. Carve(file, opts) = items
  BY DEF Carve, covered
<1>4. opts.rawMin = opts.textMin => ranges = texts
  OBVIOUS
<1>5. GapIsPreservedByDefault(file, opts) <=>
         (opts.textLength <= ClassText /\ opts.raw => \A r \in ToSet(ranges) : Keeps(items, r))
  BY <1>3 DEF GapIsPreservedByDefault, GapIsPreserved, Keeps, covered
<1> HIDE DEF ranges, texts
<1>6. /\ raw \in Seq(RegionItems)
      /\ ~(file.size <= 0) =>
            \A r \in ToSet(ranges) : classes[r] \notin Excluded(opts) => Keeps(raw, r)
  <2> HIDE DEF classes
  <2> QED BY <1>2, RawKeeps
<1>7. /\ text \in Seq(RegionItems)
      /\ ~(file.size <= 0) =>
            \A r \in ToSet(texts) : LongestIn(file.run, r) >= opts.textLength => Keeps(text, r)
  BY <1>2, TextKeeps
<1>8. \A r \in ToSet(ranges) : classes[r] = Class(file, r, ClassText, opts.numeric)
  OBVIOUS
<1> HIDE DEF raw, text, classes
<1>9. ASSUME opts.raw PROVE ToSet(raw) \subseteq ToSet(items) /\ (opts.text => ToSet(text) \subseteq ToSet(items))
  <2>1. <<>> \in Seq(RegionItems)
    OBVIOUS
  <2>2. If(opts.raw, raw) = raw /\ If(opts.text, text) \in Seq(RegionItems)
        /\ (opts.text => If(opts.text, text) = text)
    BY <1>7, <1>9, <2>1 DEF If
  <2>3. ToSet(raw \o If(opts.text, text)) = ToSet(raw) \cup ToSet(If(opts.text, text))
    BY <1>6, <2>2, ConcatenatedAre
  <2> QED BY <2>2, <2>3
<1> HIDE DEF items
<1>10. ASSUME opts.textLength <= ClassText, opts.raw, NEW r \in ToSet(ranges) PROVE Keeps(items, r)
  <2>1. ~(file.size <= 0)
    BY <1>2
  <2>2. CASE classes[r] \notin Excluded(opts)
    <3>1. Keeps(raw, r)
      BY <1>6, <2>1, <2>2
    <3> QED BY <1>9, <1>10, <3>1 DEF Keeps
  <2>3. CASE classes[r] \in Excluded(opts)
    <3>1. opts.text /\ opts.rawMin = opts.textMin /\ classes[r] = "text_region"
      BY <2>3 DEF Excluded
    <3>2. LongestIn(file.run, r) >= ClassText
      BY <1>8, <3>1 DEF Class
    <3>3. r \in Nat \X Nat
      BY <1>2 DEF ToSet
    <3>4. LongestIn(file.run, r) \in Nat
      BY <3>3, LongestIsANumber
    <3>5. LongestIn(file.run, r) >= opts.textLength
      BY <1>10, <3>2, <3>4, LimitsAssumption
    <3>6. Keeps(text, r)
      BY <1>4, <1>7, <2>1, <3>1, <3>5
    <3> QED BY <1>9, <1>10, <3>1, <3>6 DEF Keeps
  <2> QED BY <2>2, <2>3
<1> QED BY <1>5, <1>10

\* What gaps are looked for in, and a file with the options it is carved with.
GapInputs == [of : {"gaps"}, size : Nat, blocks : Seq(Block), least : Nat \ {0}]
Files(Y, Run, Mark) == [size : Nat, images : Seq(Block), objects : Seq(Y), run : Run, numeric : Mark]
Options == [raw : BOOLEAN, text : BOOLEAN, rawMin : Int, textMin : Int, textLength : Int,
            numeric : BOOLEAN, existing : SUBSET (Nat \X Nat)]
CarveInputs(Y, Run, Mark) == [of : {"carving"}, file : Files(Y, Run, Mark), opts : Options]

\* No unexplained byte is lost: the gaps are exactly the long enough runs of bytes nothing
\* covers, and each has an artifact when the lengths are left at their defaults.
THEOREM NoBytesAreLost ==
    ASSUME NEW Y, AreObjects(Y), NEW Run, NEW Mark,
           subject \in GapInputs \cup CarveInputs(Y, Run, Mark)
    PROVE  NoByteIsLost
<1>1. CASE subject \in GapInputs
  <2>1. /\ subject.of = "gaps" /\ subject.size \in Nat /\ subject.least \in Nat \ {0}
        /\ subject.blocks \in Seq(Block)
    BY <1>1 DEF GapInputs
  <2>2. GapsAreTheUncoveredRuns(subject.size, subject.blocks, subject.least)
    BY <2>1, GapsAreExact
  <2> QED BY <2>1, <2>2 DEF NoByteIsLost
<1>2. CASE subject \in CarveInputs(Y, Run, Mark)
  <2> DEFINE file == subject.file
             opts == subject.opts
  <2>1. subject.of = "carving" /\ file \in Files(Y, Run, Mark) /\ opts \in Options
    BY <1>2 DEF CarveInputs
  <2> HIDE DEF file, opts
  <2>2. /\ file.size \in Nat /\ file.images \in Seq(Block) /\ file.objects \in Seq(Y)
        /\ opts.raw \in BOOLEAN /\ opts.text \in BOOLEAN
        /\ opts.rawMin \in Int /\ opts.textMin \in Int /\ opts.textLength \in Int
    BY <2>1 DEF Files, Options
  <2>3. GapIsPreservedByDefault(file, opts)
    BY <2>2, GapsArePreserved
  <2> QED BY <2>1, <2>3 DEF NoByteIsLost, file, opts
<1> QED BY <1>1, <1>2
------------------------------------------------------------------------------
(* The human profile.  A manifest has any items of any kinds, and a disk   *)
(* any paths.  The candidates are considered one after the other.          *)

RetainedItem(Alias, Path, Value) ==
    [alias : Alias, kind : Value, path : Path, status : Value, content : Value, overlap : SUBSET Alias,
     generic : Value, exact : Value, formula : Value, method : Value, error : Value]

States(A, items) == [items : [DOMAIN items -> A], kept : SUBSET DOMAIN items]
Considered(disk, items, ranked) ==
    FoldLeft(LAMBDA s, c : Consider(disk, s, c), [items |-> items, kept |-> {}], ranked)

\* The same item but for the items it names.
SameBut(i, j) ==
    /\ i.alias = j.alias /\ i.kind = j.kind /\ i.path = j.path /\ i.status = j.status
    /\ j.overlap \subseteq i.overlap

\* What a consideration of some candidates has: each of them kept or named by one that is.
Settles(state, items, done) ==
    /\ state.kept \subseteq done
    /\ \A n \in DOMAIN items : SameBut(state.items[n], items[n])
    /\ \A c \in done : c \in state.kept
                       \/ \E k \in state.kept : items[c].alias \in state.items[k].overlap

\* Considering one more candidate settles it and leaves the others settled.
LEMMA ConsiderSettles ==
    ASSUME NEW Alias, NEW Path, NEW Value, NEW A, A = RetainedItem(Alias, Path, Value), NEW N \in Nat,
           NEW items \in [1 .. N -> A], NEW disk, NEW state \in States(A, items), NEW c \in 1 .. N,
           NEW next, next = Consider(disk, state, c)
    PROVE  /\ next \in States(A, items)
           /\ \A done : Settles(state, items, done) => Settles(next, items, done \cup {c})
<1> DEFINE all == state.items
           kept == state.kept
           same == Duplicates(all, disk, kept, c)
           samePath == {k \in same : all[k].path = all[c].path}
           primary == CHOOSE k \in (IF samePath # {} THEN samePath ELSE same) : TRUE
<1>1. /\ all \in [1 .. N -> A] /\ kept \in SUBSET (1 .. N) /\ state = [items |-> all, kept |-> kept]
      /\ DOMAIN items = 1 .. N
  BY DEF States
<1>2. next = IF same = {} THEN [state EXCEPT !.kept = @ \cup {c}]
             ELSE [state EXCEPT !.items = Record(@, primary, c)]
  BY DEF Consider
<1>3. same \subseteq kept
  BY DEF Duplicates
<1> HIDE DEF same
<1>4. same # {} => primary \in same
  OBVIOUS
<1> HIDE DEF all, kept, primary
<1>5. CASE same = {}
  <2>1. next = [items |-> all, kept |-> kept \cup {c}]
    BY <1>1, <1>2, <1>5
  <2>2. next.items = all /\ next.kept = kept \cup {c}
    BY <2>1
  <2>3. next \in States(A, items)
    <3>1. all \in [DOMAIN items -> A] /\ kept \cup {c} \in SUBSET DOMAIN items
      BY <1>1
    <3> QED BY <2>1, <3>1 DEF States
  <2>4. ASSUME NEW done, Settles(state, items, done) PROVE Settles(next, items, done \cup {c})
    BY <2>2, <2>4 DEF Settles, all, kept
  <2> QED BY <2>3, <2>4
<1>6. CASE same # {}
  <2>1. primary \in kept /\ primary \in 1 .. N
    BY <1>1, <1>3, <1>4, <1>6
  <2> DEFINE after == [all EXCEPT ![primary].overlap = @ \cup {all[c].alias}]
             old == all[primary]
             new == [old EXCEPT !.overlap = @ \cup {all[c].alias}]
  <2>2. next = [items |-> after, kept |-> kept]
    BY <1>1, <1>2, <1>6 DEF Record
  <2>3. old \in A /\ all[c] \in A
    BY <1>1, <2>1
  <2>4. new \in A /\ SameBut(new, old) /\ new.overlap = old.overlap \cup {all[c].alias}
    BY <2>3 DEF RetainedItem, SameBut
  <2>5. after = [all EXCEPT ![primary] = new]
    OBVIOUS
  <2> HIDE DEF new, old, after
  <2>6. /\ after \in [1 .. N -> A] /\ after[primary] = new
        /\ \A n \in 1 .. N : n # primary => after[n] = all[n]
    BY <1>1, <2>1, <2>4, <2>5
  <2>7. next.items = after /\ next.kept = kept /\ next \in States(A, items)
    <3>1. after \in [DOMAIN items -> A] /\ kept \in SUBSET DOMAIN items
      BY <1>1, <2>6
    <3> QED BY <2>2, <3>1 DEF States
  <2>8. ASSUME NEW done, Settles(state, items, done) PROVE Settles(next, items, done \cup {c})
    <3>1. /\ kept \subseteq done
          /\ \A n \in 1 .. N : SameBut(all[n], items[n])
          /\ \A d \in done : d \in kept \/ \E k \in kept : items[d].alias \in all[k].overlap
      BY <1>1, <2>8 DEF Settles, all, kept
    <3>2. \A n \in 1 .. N : all[n].overlap \subseteq after[n].overlap
      BY <2>4, <2>6 DEF old
    <3>3. \A n \in 1 .. N : SameBut(after[n], items[n])
      BY <2>4, <2>6, <3>1 DEF SameBut, old
    <3>4. items[c].alias \in after[primary].overlap
      BY <2>4, <2>6, <3>1 DEF SameBut
    <3>5. \A d \in done \cup {c} : d \in kept \/ \E k \in kept : items[d].alias \in after[k].overlap
      BY <1>1, <2>1, <3>1, <3>2, <3>4
    <3> QED BY <1>1, <2>7, <3>1, <3>3, <3>5 DEF Settles
  <2> QED BY <2>7, <2>8
<1> QED BY <1>5, <1>6

\* ranked holds the candidates, which are numbers up to N.
IsRanking(ranked, candidates, N) ==
    /\ Len(ranked) \in Nat /\ DOMAIN ranked = 1 .. Len(ranked)
    /\ ranked \in Seq(1 .. N)
    /\ \A n \in DOMAIN ranked : ranked[n] \in candidates
    /\ \A c \in candidates : \E n \in DOMAIN ranked : ranked[n] = c

\* Ranking keeps the candidates.
LEMMA RankedAre ==
    ASSUME NEW N \in Nat, NEW items, NEW candidates \in SUBSET (1 .. N)
    PROVE  IsRanking(Ranked(items, candidates), candidates, N)
<1> DEFINE before(a, b) == \/ Priority(items[a]) < Priority(items[b])
                           \/ Priority(items[a]) = Priority(items[b]) /\ a < b
           R == {p \in candidates \X candidates : before(p[1], p[2])}
           ranked == Ranked(items, candidates)
<1>1. \A n : Priority(items[n]) \in Int
  BY DEF Priority
<1>2. IsOrder(R, candidates)
  <2>1. \A a \in candidates : ~before(a, a)
    BY <1>1
  <2>2. \A a, b, c \in candidates : before(a, b) /\ before(b, c) => before(a, c)
    BY <1>1
  <2>3. \A a, b \in candidates : a # b => before(a, b) \/ before(b, a)
    BY <1>1
  <2> HIDE DEF before
  <2> QED BY <2>1, <2>2, <2>3 DEF IsOrder
<1>3. IsFiniteSet(candidates)
  <2>1. IsFiniteSet(1 .. N)
    BY FS_Interval
  <2> QED BY <2>1, FS_Subset
<1>4. \A x \in candidates : Below(R, candidates, x) = {y \in candidates : before(y, x)}
  <2> HIDE DEF before
  <2> QED BY DEF Below
<1>5. ranked = [n \in 1 .. Cardinality(candidates) |->
                  CHOOSE x \in candidates : Cardinality({y \in candidates : before(y, x)}) = n - 1]
  BY DEF Ranked, Sorted
<1> HIDE DEF before, R, ranked
<1>6. DOMAIN ranked = 1 .. Cardinality(candidates) /\ ranked = [n \in DOMAIN ranked |-> ranked[n]]
  <2> DEFINE place(n) == CHOOSE x \in candidates : Cardinality({y \in candidates : before(y, x)}) = n - 1
  <2>1. ranked = [n \in 1 .. Cardinality(candidates) |-> place(n)]
    BY <1>5
  <2> HIDE DEF place
  <2> QED BY <2>1
<1>7. ASSUME NEW n \in DOMAIN ranked,
             \E x \in candidates : Cardinality(Below(R, candidates, x)) = n - 1
      PROVE  ranked[n] \in candidates /\ Cardinality(Below(R, candidates, ranked[n])) = n - 1
  <2>1. ranked[n] = CHOOSE x \in candidates : Cardinality({y \in candidates : before(y, x)}) = n - 1
    BY <1>5, <1>6
  <2>2. \E x \in candidates : Cardinality({y \in candidates : before(y, x)}) = n - 1
    BY <1>4, <1>7
  <2>3. ranked[n] \in candidates /\ Cardinality({y \in candidates : before(y, ranked[n])}) = n - 1
    BY <2>1, <2>2
  <2> QED BY <1>4, <2>3
<1>8. IsInOrder(ranked, R, candidates)
  <2>1. HasPlaces(ranked, R, candidates)
    BY <1>6, <1>7 DEF HasPlaces
  <2> QED BY <1>2, <1>3, <2>1, SortedIsInOrder
<1> DEFINE size == Cardinality(candidates)
<1>9. /\ size \in Nat /\ ranked \in [1 .. size -> candidates] /\ Len(ranked) = size
      /\ \A x \in candidates : \E n \in 1 .. size : ranked[n] = x
  BY <1>8 DEF IsInOrder
<1> HIDE DEF size
<1>10. ranked \in [1 .. size -> 1 .. N]
  BY <1>9
<1>11. ranked \in Seq(1 .. N)
  BY <1>9, <1>10, TupleIsSeq
<1> QED BY <1>9, <1>11 DEF IsRanking, ranked

\* h is the consideration as it goes along.
ConsiderationIs(h, A, items, disk, ranked) ==
    /\ h \in [0 .. Len(ranked) -> States(A, items)]
    /\ h[0] = [items |-> items, kept |-> {}]
    /\ \A n \in 1 .. Len(ranked) : h[n] = Consider(disk, h[n - 1], ranked[n])
    /\ Considered(disk, items, ranked) = h[Len(ranked)]

\* The candidates are considered one after the other.
LEMMA ConsiderSteps ==
    ASSUME NEW Alias, NEW Path, NEW Value, NEW A, A = RetainedItem(Alias, Path, Value), NEW M \in Nat,
           NEW items \in [1 .. M -> A], NEW disk, NEW ranked \in Seq(1 .. M)
    PROVE  \E h : ConsiderationIs(h, A, items, disk, ranked)
<1> DEFINE N == Len(ranked)
           X == States(A, items)
           base == [items |-> items, kept |-> {}]
           step == [p \in X \X (1 .. N) |-> Consider(disk, p[1], ranked[p[2]])]
           next(f, s) == IF s = {} THEN base
                         ELSE Consider(disk, f[s \ {Max(s)}], ranked[Max(s)])
           isFold(f) == f = [s \in SUBSET DOMAIN ranked |-> next(f, s)]
           iter == CHOOSE f : isFold(f)
<1>1. N \in Nat /\ DOMAIN ranked = 1 .. N /\ \A n \in 1 .. N : ranked[n] \in 1 .. M
  OBVIOUS
<1>2. Considered(disk, items, ranked) = iter[DOMAIN ranked]
  BY DEF Considered, FoldLeft, MapThenFoldSet
<1> HIDE DEF iter
<1>3. base \in X
  <2>1. items \in [DOMAIN items -> A] /\ {} \in SUBSET DOMAIN items
    OBVIOUS
  <2> QED BY <2>1 DEF States
<1>4. step \in [X \X (1 .. N) -> X]
  <2>1. \A s \in X, n \in 1 .. N : Consider(disk, s, ranked[n]) \in X
    BY <1>1, ConsiderSettles
  <2> QED BY <2>1
<1> HIDE DEF N, X, base
<1>5. PICK f : Folds(f, N, X, base, step)
  <2> HIDE DEF step
  <2> QED BY <1>1, <1>3, <1>4, FoldExists
<1>6. ASSUME NEW s \in SUBSET (1 .. N), s # {}
      PROVE  /\ Max(s) \in 1 .. N /\ s \ {Max(s)} \in SUBSET (1 .. N)
             /\ \A x \in X : step[<<x, Max(s)>>] = Consider(disk, x, ranked[Max(s)])
  <2>1. s \in SUBSET (0 .. N)
    OBVIOUS
  <2>2. Max(s) \in s
    BY <1>1, <1>6, <2>1, GreatestNumber
  <2> QED BY <2>2
<1> HIDE DEF step
<1>7. isFold(f)
  <2>1. f \in [SUBSET (1 .. N) -> X]
    BY <1>5 DEF Folds
  <2>2. ASSUME NEW s \in SUBSET (1 .. N) PROVE f[s] = next(f, s)
    BY <1>5, <1>6 DEF Folds
  <2> HIDE DEF next
  <2> QED BY <1>1, <2>1, <2>2
<1>8. isFold(iter)
  <2> HIDE DEF isFold
  <2> QED BY <1>7 DEF iter
<1>9. \A s \in SUBSET (1 .. N) : iter[s] = next(iter, s)
  <2> HIDE DEF next
  <2> QED BY <1>1, <1>8
<1>10. Recurs(iter, N, X, base, step)
  <2> SUFFICES ASSUME NEW s \in SUBSET (1 .. N)
               PROVE  IF s = {} THEN iter[s] = base
                      ELSE iter[s \ {Max(s)}] \in X =>
                              iter[s] = step[<<iter[s \ {Max(s)}], Max(s)>>]
    BY DEF Recurs
  <2>1. iter[s] = next(iter, s)
    BY <1>9
  <2> QED BY <1>6, <2>1
<1>11. PICK h : Steps(h, N, X, base, step, iter[1 .. N])
  BY <1>1, <1>3, <1>4, <1>10, FoldSteps
<1>12. \A n \in 1 .. N : h[n] = Consider(disk, h[n - 1], ranked[n])
  <2> SUFFICES ASSUME NEW n \in 1 .. N PROVE h[n] = Consider(disk, h[n - 1], ranked[n])
    OBVIOUS
  <2>1. n - 1 \in 0 .. N
    BY <1>1
  <2>2. h[n - 1] \in X /\ h[n] = step[<<h[n - 1], n>>]
    BY <1>11, <2>1 DEF Steps
  <2> QED BY <2>2 DEF step
<1>13. h \in [0 .. N -> X] /\ h[0] = base /\ Considered(disk, items, ranked) = h[N]
  BY <1>1, <1>2, <1>11 DEF Steps
<1> QED BY <1>12, <1>13 DEF N, X, base, ConsiderationIs

\* When all the candidates are considered each is kept or named by one that is.
LEMMA ConsideredAreSettled ==
    ASSUME NEW Alias, NEW Path, NEW Value, NEW A, A = RetainedItem(Alias, Path, Value), NEW M \in Nat,
           NEW items \in [1 .. M -> A], NEW disk, NEW candidates \in SUBSET (1 .. M), NEW end,
           end = Considered(disk, items, Ranked(items, candidates))
    PROVE  end \in States(A, items) /\ Settles(end, items, candidates)
<1> DEFINE ranked == Ranked(items, candidates)
           N == Len(ranked)
<1>1. IsRanking(ranked, candidates, M)
  BY RankedAre
<1> HIDE DEF ranked
<1>2. ranked \in Seq(1 .. M)
  BY <1>1 DEF IsRanking
<1>3. /\ N \in Nat /\ DOMAIN ranked = 1 .. N /\ \A n \in 1 .. N : ranked[n] \in candidates
      /\ \A c \in candidates : \E n \in 1 .. N : ranked[n] = c
  BY <1>1 DEF IsRanking
<1>a. PICK h : ConsiderationIs(h, A, items, disk, ranked)
  BY <1>2, ConsiderSteps
<1>4. /\ h \in [0 .. N -> States(A, items)]
      /\ h[0] = [items |-> items, kept |-> {}]
      /\ \A n \in 1 .. N : h[n] = Consider(disk, h[n - 1], ranked[n])
      /\ Considered(disk, items, ranked) = h[N]
  BY <1>a DEF ConsiderationIs
<1> HIDE DEF N
<1> DEFINE done(n) == {ranked[m] : m \in 1 .. n}
           reached == {n \in 0 .. N : Settles(h[n], items, done(n))}
<1>5. 0 \in reached
  <2>1. h[0].items = items /\ h[0].kept = {}
    BY <1>4
  <2>2. \A n \in DOMAIN items : SameBut(items[n], items[n])
    BY DEF SameBut
  <2>3. done(0) = {}
    OBVIOUS
  <2> HIDE DEF done
  <2>4. Settles(h[0], items, done(0))
    BY <2>1, <2>2, <2>3 DEF Settles
  <2> QED BY <1>3, <2>4
<1>6. ASSUME NEW n \in 0 .. N - 1, n \in reached PROVE n + 1 \in reached
  <2>1. n + 1 \in 1 .. N /\ n + 1 \in 0 .. N /\ n \in 0 .. N /\ (n + 1) - 1 = n
    BY <1>3
  <2>2. done(n + 1) = done(n) \cup {ranked[n + 1]}
    <3>1. 1 .. n + 1 = (1 .. n) \cup {n + 1}
      BY <2>1
    <3> QED BY <3>1
  <2>3. Settles(h[n], items, done(n))
    BY <1>6
  <2> DEFINE state == h[n]
             c == ranked[n + 1]
             next == h[n + 1]
  <2>4. state \in States(A, items) /\ c \in 1 .. M /\ next = Consider(disk, state, c)
    BY <1>3, <1>4, <2>1
  <2> HIDE DEF done, state, c, next
  <2>5. Settles(next, items, done(n) \cup {c})
    BY <2>3, <2>4, ConsiderSettles DEF state
  <2> QED BY <2>1, <2>2, <2>5 DEF c, next
<1>7. N \in reached
  <2>1. N \in 0 .. N
    BY <1>3
  <2> HIDE DEF reached
  <2> QED BY <1>3, <1>5, <1>6, <2>1, Upwards
<1>8. done(N) = candidates
  <2>1. \A n \in 1 .. N : ranked[n] \in candidates
    BY <1>3
  <2>2. \A c \in candidates : \E n \in 1 .. N : ranked[n] = c
    BY <1>1, <1>3
  <2> QED BY <2>1, <2>2
<1>9. end = h[N] /\ h[N] \in States(A, items)
  BY <1>3, <1>4 DEF ranked
<1> HIDE DEF done
<1> QED BY <1>7, <1>8, <1>9

\* The two properties of a retention: nothing is hidden, and the manifest and the directory
\* agree, for any manifest, disk and directories.
LEMMA RetentionsAgree ==
    ASSUME NEW Alias, NEW Path, NEW Value, NEW items \in Seq(RetainedItem(Alias, Path, Value)),
           NEW type, NEW disk, NEW dirOf
    PROVE  Accounted(type, items, disk, dirOf) /\ FilesAgree(type, items, disk, dirOf)
<1> DEFINE A == RetainedItem(Alias, Path, Value)
           M == Len(items)
           human == {n \in DOMAIN items : items[n].kind \in HumanKinds}
           preserved == {n \in human : items[n].status \notin Materialized}
           early == {n \in human \ preserved : Omitted(type, items[n], disk)}
           candidates == human \ (preserved \cup early)
           end == Considered(disk, items, Ranked(items, candidates))
           merged == end.items
           late == {k \in end.kept : Ambiguous(type, end.items[k])}
           kept == end.kept \ late
           omitted == early \cup late
           left == RemoveUnkept(merged, disk, kept)
           isThere(p) == IF p \in DOMAIN left THEN left[p] # Absent
                         ELSE \E q \in DOMAIN left : left[q] # Absent /\ dirOf[q] = p
           final(n) == IF n \in omitted THEN Omit(merged[n])
                       ELSE IF n \in preserved /\ ~isThere(merged[n].path)
                       THEN [merged[n] EXCEPT !.path = None]
                       ELSE merged[n]
           listed == kept \cup preserved \cup omitted
           at == Ascending(listed)
           result == Retain(type, items, disk, dirOf)
<1>1. M \in Nat /\ DOMAIN items = 1 .. M /\ items \in [1 .. M -> A]
  OBVIOUS
<1>2. result = [items |-> [n \in DOMAIN at |-> final(at[n])], disk |-> left, warned |-> omitted # {}]
  BY DEF Retain, Each, Considered
<1>3. result.disk = left /\ result.items = [n \in DOMAIN at |-> final(at[n])]
  <2> HIDE DEF result, final, left, omitted, at
  <2> QED BY <1>2
<1>4. human \in SUBSET (1 .. M) /\ candidates \in SUBSET (1 .. M)
  BY <1>1
<1>5. /\ preserved \subseteq human /\ early \subseteq human \ preserved
      /\ \A n \in human : n \in preserved \/ n \in early \/ n \in candidates
      /\ \A n \in candidates : /\ n \in human /\ n \notin preserved /\ n \notin early
                               /\ items[n].status \in Materialized
                               /\ ~Omitted(type, items[n], disk)
      /\ \A n \in preserved : items[n].status \notin Materialized
      /\ \A n \in 1 .. M : items[n].kind \in HumanKinds => n \in human
  BY <1>1
<1> HIDE DEF result, human, preserved, early, candidates
<1>6. end \in States(A, items) /\ Settles(end, items, candidates)
  <2> HIDE DEF M, A
  <2>1. A = RetainedItem(Alias, Path, Value)
    BY DEF A
  <2> QED BY <1>1, <1>4, <2>1, ConsideredAreSettled
<1> HIDE DEF end
<1>7. /\ merged \in [1 .. M -> A] /\ end.kept \subseteq candidates
      /\ \A n \in 1 .. M : SameBut(merged[n], items[n])
      /\ \A c \in candidates : c \in end.kept
                               \/ \E k \in end.kept : items[c].alias \in merged[k].overlap
  BY <1>1, <1>6 DEF States, Settles
<1> HIDE DEF merged
<1>8. /\ kept \subseteq candidates /\ late \subseteq candidates
      /\ \A k \in end.kept : k \in kept \/ k \in late
  BY <1>7
<1> HIDE DEF kept, late
<1>9. listed \in SUBSET (1 .. M) /\ IsFiniteSet(listed)
  <2>1. listed \in SUBSET (1 .. M)
    BY <1>4, <1>5, <1>8
  <2>2. IsFiniteSet(1 .. M)
    BY <1>1, FS_Interval
  <2> HIDE DEF listed, M
  <2>3. IsFiniteSet(listed)
    BY <2>1, <2>2, FS_Subset
  <2> QED BY <2>1, <2>3
<1>10. ToSet(result.items) = {final(n) : n \in listed}
  <2> HIDE DEF final, listed
  <2>1. listed \in SUBSET Int
    BY <1>9
  <2>2. /\ at \in [1 .. Cardinality(listed) -> listed]
        /\ \A x \in listed : \E n \in 1 .. Cardinality(listed) : at[n] = x
    BY <1>9, <2>1, SortedNumbers
  <2> HIDE DEF at
  <2>3. DOMAIN result.items = DOMAIN at /\ \A n \in DOMAIN at : result.items[n] = final(at[n])
    BY <1>3
  <2>4. ToSet(result.items) = {final(at[n]) : n \in DOMAIN at}
    BY <2>3 DEF ToSet
  <2> QED BY <2>2, <2>4
<1>11. ASSUME NEW n \in 1 .. M
       PROVE  /\ final(n).alias = items[n].alias /\ final(n).kind = items[n].kind
              /\ final(n).overlap = merged[n].overlap
  <2>1. merged[n] \in A /\ merged[n].alias = items[n].alias /\ merged[n].kind = items[n].kind
    BY <1>7 DEF SameBut
  <2>2. ASSUME NEW i \in A PROVE /\ Omit(i).alias = i.alias /\ Omit(i).kind = i.kind
                                 /\ Omit(i).overlap = i.overlap
    BY DEF Omit, RetainedItem
  <2>3. ASSUME NEW i \in A
        PROVE  /\ [i EXCEPT !.path = None].alias = i.alias /\ [i EXCEPT !.path = None].kind = i.kind
               /\ [i EXCEPT !.path = None].overlap = i.overlap
    BY DEF RetainedItem
  <2> HIDE DEF A, isThere
  <2> QED BY <2>1, <2>2, <2>3
<1>12. \A n \in listed : final(n) \in ToSet(result.items)
  BY <1>10
<1>13. Accounted(type, items, disk, dirOf)
  <2> SUFFICES ASSUME NEW n \in 1 .. M, items[n].kind \in HumanKinds
               PROVE  \E i \in ToSet(result.items) :
                         \/ i.alias = items[n].alias /\ i.kind = items[n].kind
                         \/ items[n].alias \in i.overlap
    BY <1>1 DEF Accounted, result
  <2>1. n \in human
    BY <1>5
  <2>2. CASE n \in listed
    BY <1>11, <1>12, <2>2
  <2>3. CASE n \notin listed
    <3>1. n \in candidates /\ n \notin end.kept
      BY <1>5, <1>8, <2>1, <2>3
    <3>2. PICK k \in end.kept : items[n].alias \in merged[k].overlap
      BY <1>7, <3>1
    <3>3. k \in listed /\ k \in 1 .. M
      BY <1>4, <1>7, <1>8
    <3> HIDE DEF listed, final
    <3> QED BY <1>11, <1>12, <3>2, <3>3
  <2> QED BY <2>2, <2>3
<1>14. \A n \in candidates : /\ items[n].status = "extracted" /\ items[n].path \in DOMAIN disk
                             /\ disk[items[n].path] # Absent
  BY <1>5 DEF Omitted, Materialized
<1>15. \A n \in 1 .. M : merged[n].path = items[n].path /\ merged[n].status = items[n].status
  BY <1>7 DEF SameBut
<1>16. /\ DOMAIN left = DOMAIN disk
       /\ \A p \in DOMAIN disk :
             left[p] = IF /\ \E n \in 1 .. M : items[n].status \in Materialized /\ items[n].path = p
                          /\ ~\E k \in kept : items[k].path = p
                       THEN Absent ELSE disk[p]
  <2>1. DOMAIN merged = 1 .. M /\ kept \in SUBSET (1 .. M)
    BY <1>4, <1>7, <1>8
  <2> HIDE DEF M, A
  <2> QED BY <1>15, <2>1 DEF RemoveUnkept
<1> HIDE DEF left
<1>17. \A k \in kept : k \in 1 .. M /\ k \in listed /\ final(k) = merged[k]
  <2> SUFFICES ASSUME NEW k \in kept PROVE k \in 1 .. M /\ k \in listed /\ final(k) = merged[k]
    OBVIOUS
  <2>1. k \in candidates /\ k \notin preserved /\ k \notin early
    BY <1>5, <1>8
  <2>2. k \notin late
    BY DEF kept
  <2> QED BY <1>4, <2>1, <2>2
<1>18. ASSUME NEW n \in listed, final(n).status = "extracted"
       PROVE  n \in kept /\ final(n).path = items[n].path
  <2>1. n \in 1 .. M /\ merged[n] \in A
    BY <1>7, <1>9
  <2>2. n \notin omitted
    <3>1. ASSUME n \in omitted PROVE FALSE
      <4>1. final(n) = Omit(merged[n])
        BY <3>1
      <4>2. Omit(merged[n]).status = "skipped"
        BY <2>1 DEF Omit, RetainedItem
      <4> HIDE DEF final
      <4> QED BY <1>18, <4>1, <4>2
    <3> QED BY <3>1
  <2>3. n \notin preserved
    <3>1. ASSUME n \in preserved PROVE FALSE
      <4>1. final(n) = [merged[n] EXCEPT !.path = None] \/ final(n) = merged[n]
        BY <2>2
      <4>2. [merged[n] EXCEPT !.path = None].status = merged[n].status
        BY <2>1 DEF RetainedItem
      <4>3. items[n].status \notin Materialized /\ merged[n].status = items[n].status
        BY <1>5, <1>15, <2>1, <3>1
      <4> HIDE DEF final
      <4> QED BY <1>18, <4>1, <4>2, <4>3 DEF Materialized
    <3> QED BY <3>1
  <2>4. n \in kept
    BY <2>2, <2>3
  <2> HIDE DEF final, listed
  <2> QED BY <1>15, <1>17, <2>1, <2>4
<1>19. FilesAgree(type, items, disk, dirOf)
  <2> DEFINE shown == {i.path : i \in {j \in ToSet(result.items) : j.status \in {"extracted"}}}
             written == {i.path : i \in {j \in ToSet(items) : j.status \in Materialized}}
  <2>1. shown = {items[k].path : k \in kept}
    <3> HIDE DEF final, listed
    <3>1. ASSUME NEW i \in ToSet(result.items), i.status = "extracted"
          PROVE  i.path \in {items[k].path : k \in kept}
      <4>1. PICK n \in listed : i = final(n)
        BY <1>10
      <4> QED BY <1>18, <3>1, <4>1
    <3>2. ASSUME NEW k \in kept PROVE items[k].path \in shown
      <4>1. /\ k \in listed /\ final(k) = merged[k] /\ merged[k].status = items[k].status
            /\ merged[k].path = items[k].path
        BY <1>15, <1>17
      <4>2. items[k].status = "extracted"
        BY <1>8, <1>14
      <4>3. final(k) \in ToSet(result.items) /\ final(k).status = "extracted" /\ final(k).path = items[k].path
        BY <1>12, <4>1, <4>2
      <4> QED BY <4>3
    <3> QED BY <3>1, <3>2
  <2>2. \A p : p \in written <=> \E n \in 1 .. M : items[n].status \in Materialized /\ items[n].path = p
    <3>1. ToSet(items) = {items[n] : n \in 1 .. M}
      BY <1>1 DEF ToSet
    <3> QED BY <3>1
  <2>3. FilesAgree(type, items, disk, dirOf) <=>
           /\ \A p \in shown : p \in DOMAIN disk /\ disk[p] # Absent /\ left[p] = disk[p]
           /\ \A p \in DOMAIN disk \cap written : left[p] # Absent => p \in shown
           /\ \A p \in DOMAIN disk \ written : left[p] = disk[p]
    BY <1>3 DEF FilesAgree, result
  <2> HIDE DEF shown, written
  <2>4. ASSUME NEW p \in shown PROVE p \in DOMAIN disk /\ disk[p] # Absent /\ left[p] = disk[p]
    <3>1. PICK k \in kept : p = items[k].path
      BY <2>1
    <3> QED BY <1>8, <1>14, <1>16, <3>1
  <2>5. \A p \in DOMAIN disk \cap written : left[p] # Absent => p \in shown
    BY <1>16, <2>1, <2>2
  <2>6. \A p \in DOMAIN disk \ written : left[p] = disk[p]
    BY <1>16, <2>2
  <2> QED BY <2>3, <2>4, <2>5, <2>6
<1> QED BY <1>13, <1>19

\* What is left of a run is accounted for and on the disk as the manifest says, for any
\* manifest and any disk.
THEOREM RetentionsAreTrue ==
    ASSUME NEW Alias, NEW Path, NEW Value, NEW items \in Seq(RetainedItem(Alias, Path, Value)),
           NEW type, NEW disk,
           subject = [of |-> "retention", type |-> type, items |-> items, disk |-> disk]
    PROVE  RetentionIsTrue
<1>1. Accounted(type, items, disk, DirOf) /\ FilesAgree(type, items, disk, DirOf)
  BY RetentionsAgree
<1>2. subject.type = type /\ subject.items = items /\ subject.disk = disk
  OBVIOUS
<1> QED BY <1>1, <1>2 DEF RetentionIsTrue
==============================================================================
