------------------------------ MODULE ScansProofs ------------------------------
(***************************************************************************)
(* What ChunkedScans promises of every file: its strings, its lines of     *)
(* text and the rows of its numeric tables do not depend on where its      *)
(* blocks end.                                                             *)
(***************************************************************************)
EXTENDS ArtifactsProofs

------------------------------------------------------------------------------
(* Runs: the strings and the lines of a file are runs of its symbols.      *)

Grows(q) == \A n, m \in DOMAIN q : n < m => q[n][1] < q[m][1]

\* Two growing sequences of entries, each with the entries of the other.
AreOfTheSame(q, N, r, M, Y) ==
    /\ q \in [1 .. N -> Nat \X Y] /\ r \in [1 .. M -> Nat \X Y]
    /\ \A n, m \in 1 .. N : n < m => q[n][1] < q[m][1]
    /\ \A n, m \in 1 .. M : n < m => r[n][1] < r[m][1]
    /\ \A n \in 1 .. N : \E k \in 1 .. M : r[k] = q[n]
    /\ \A n \in 1 .. M : \E k \in 1 .. N : q[k] = r[n]

\* The one begins the other.
LEMMA GrowingBegins ==
    ASSUME NEW Y, NEW N \in Nat, NEW M \in Nat, NEW q, NEW r, AreOfTheSame(q, N, r, M, Y)
    PROVE  \A n \in 1 .. N : n <= M /\ q[n] = r[n]
<1> DEFINE at(n) == q[n][1]
           of(n) == r[n][1]
           reached == {n \in 0 .. N : \A k \in 1 .. n : k <= M /\ q[k] = r[k]}
<1> USE DEF AreOfTheSame
<1>1. /\ \A n \in 1 .. N : at(n) \in Nat
      /\ \A n \in 1 .. M : of(n) \in Nat
  OBVIOUS
<1>2. /\ \A n, m \in 1 .. N : n < m => at(n) < at(m)
      /\ \A n, m \in 1 .. M : n < m => of(n) < of(m)
  OBVIOUS
<1>3. \A n \in 1 .. N, m \in 1 .. M : q[n] = r[m] => at(n) = of(m)
  OBVIOUS
<1> HIDE DEF at, of
<1>4. 0 \in reached
  OBVIOUS
<1>5. ASSUME NEW n \in 0 .. N - 1, n \in reached PROVE n + 1 \in reached
  <2>1. n + 1 \in 1 .. N /\ n + 1 \in 0 .. N /\ n \in Nat
    OBVIOUS
  <2>2. \A k \in 1 .. n : k \in 1 .. N /\ k \in 1 .. M /\ q[k] = r[k]
    BY <1>5
  <2> HIDE DEF reached
  <2>3. PICK k \in 1 .. M : r[k] = q[n + 1]
    BY <2>1
  <2>4. ASSUME k <= n PROVE FALSE
    <3>1. k \in 1 .. n
      BY <2>4, <2>1
    <3>2. at(k) = of(k) /\ at(n + 1) = of(k) /\ k \in 1 .. N
      BY <1>3, <2>1, <2>2, <2>3, <3>1
    <3>3. at(k) < at(n + 1)
      BY <1>2, <2>1, <2>4, <3>2
    <3> QED BY <1>1, <2>1, <3>2, <3>3
  <2>5. n + 1 \in 1 .. M
    BY <2>1, <2>4
  <2>6. PICK j \in 1 .. N : q[j] = r[n + 1]
    BY <2>5
  <2>7. at(j) = of(n + 1) /\ at(n + 1) = of(k)
    BY <1>3, <2>1, <2>3, <2>5, <2>6
  <2>8. ASSUME j <= n PROVE FALSE
    <3>1. j \in 1 .. n
      BY <2>8, <2>1
    <3>2. at(j) = of(j) /\ j \in 1 .. M
      BY <1>3, <2>2, <3>1
    <3>3. of(j) < of(n + 1)
      BY <1>2, <2>5, <2>8, <3>2
    <3> QED BY <1>1, <2>5, <2>7, <3>2, <3>3
  <2>9. ASSUME n + 1 < j PROVE FALSE
    <3>1. at(n + 1) < at(j)
      BY <1>2, <2>1, <2>9
    <3>2. of(n + 1) \in Nat /\ of(k) \in Nat /\ of(k) < of(n + 1)
      BY <1>1, <2>5, <2>7, <3>1
    <3>3. ASSUME k = n + 1 PROVE FALSE
      BY <3>2, <3>3
    <3>4. ASSUME n + 1 < k PROVE FALSE
      <4>1. of(n + 1) < of(k)
        BY <1>2, <2>3, <2>5, <3>4
      <4> QED BY <3>2, <4>1
    <3> QED BY <2>1, <2>3, <2>4, <3>3, <3>4
  <2>10. j = n + 1
    BY <2>1, <2>8, <2>9
  <2>11. n + 1 <= M /\ q[n + 1] = r[n + 1]
    BY <2>5, <2>6, <2>10
  <2>12. \A m \in 1 .. n + 1 : m \in 1 .. n \/ m = n + 1
    BY <2>1
  <2>13. ASSUME NEW m \in 1 .. n + 1 PROVE m <= M /\ q[m] = r[m]
    <3>1. CASE m \in 1 .. n
      <4>1. m \in 1 .. M /\ q[m] = r[m]
        BY <2>2, <3>1
      <4> QED BY <4>1
    <3>2. CASE m = n + 1
      BY <2>11, <3>2
    <3> QED BY <2>12, <3>1, <3>2
  <2> QED BY <2>1, <2>13 DEF reached
<1>6. \A n \in 0 .. N : n \in reached
  <2> HIDE DEF reached
  <2> QED BY <1>4, <1>5, Upwards
<1>7. N \in reached
  <2> HIDE DEF reached
  <2> QED BY <1>6
<1> QED BY <1>7

\* They are the same.
LEMMA SameInOrder ==
    ASSUME NEW Y, NEW q \in Seq(Nat \X Y), NEW r \in Seq(Nat \X Y), Grows(q), Grows(r),
           ToSet(q) = ToSet(r)
    PROVE  q = r
<1> DEFINE N == Len(q)
           M == Len(r)
<1>1. /\ N \in Nat /\ q \in [1 .. N -> Nat \X Y] /\ DOMAIN q = 1 .. N
      /\ M \in Nat /\ r \in [1 .. M -> Nat \X Y] /\ DOMAIN r = 1 .. M
  OBVIOUS
<1>2a. \A n, m \in 1 .. N : n < m => q[n][1] < q[m][1]
  BY <1>1 DEF Grows
<1>2b. \A n, m \in 1 .. M : n < m => r[n][1] < r[m][1]
  BY <1>1 DEF Grows
<1> HIDE DEF N, M
<1>3. /\ \A n \in 1 .. N : q[n] \in ToSet(r)
      /\ \A n \in 1 .. M : r[n] \in ToSet(q)
  BY <1>1 DEF ToSet
<1>4a. \A n \in 1 .. N : \E k \in 1 .. M : r[k] = q[n]
  BY <1>1, <1>3 DEF ToSet
<1>4b. \A n \in 1 .. M : \E k \in 1 .. N : q[k] = r[n]
  BY <1>1, <1>3 DEF ToSet
<1>a. AreOfTheSame(q, N, r, M, Y)
  BY <1>1, <1>2a, <1>2b, <1>4a, <1>4b DEF AreOfTheSame
<1>b. AreOfTheSame(r, M, q, N, Y)
  BY <1>1, <1>2a, <1>2b, <1>4a, <1>4b DEF AreOfTheSame
<1>c. N \in Nat /\ M \in Nat
  BY <1>1
<1>5. \A n \in 1 .. N : n <= M /\ q[n] = r[n]
  BY <1>a, <1>c, GrowingBegins
<1>6. \A n \in 1 .. M : n <= N /\ r[n] = q[n]
  BY <1>b, <1>c, GrowingBegins
<1>7. N = M
  <2>1. N <= M
    <3>1. N = 0 \/ N \in 1 .. N
      BY <1>1
    <3> QED BY <1>1, <1>5, <3>1
  <2>2. M <= N
    <3>1. M = 0 \/ M \in 1 .. M
      BY <1>1
    <3> QED BY <1>1, <1>6, <3>1
  <2> QED BY <1>1, <2>1, <2>2
<1> QED BY <1>1, <1>5, <1>7

\* The least of some natural numbers.
LEMMA LeastIs ==
    ASSUME NEW S \in SUBSET Nat, S # {} PROVE Min(S) \in S /\ \A m \in S : Min(S) <= m
<1>1. PICK n \in S : \A m \in S : n <= m
  BY LeastNumber
<1> QED BY <1>1 DEF Min

IsRunOf(s, class, r) ==
    /\ 1 <= r[1] /\ r[1] <= r[2] /\ r[2] <= Len(s)
    /\ \A k \in r[1] .. r[2] : s[k] \in class
    /\ r[1] = 1 \/ s[r[1] - 1] \notin class
    /\ r[2] = Len(s) \/ s[r[2] + 1] \notin class

EndOfRun(s, class, k) == Min({m \in k .. Len(s) : m = Len(s) \/ s[m + 1] \notin class})

\* The run that begins at a place ends before the first symbol that is not of the class.
LEMMA RunEnds ==
    ASSUME NEW Value, NEW s \in Seq(Value), NEW class, NEW k \in 1 .. Len(s), s[k] \in class,
           k = 1 \/ s[k - 1] \notin class, NEW e, e = EndOfRun(s, class, k)
    PROVE  /\ e \in k .. Len(s) /\ IsRunOf(s, class, <<k, e>>)
           /\ \A m \in Nat : IsRunOf(s, class, <<k, m>>) => m = e
<1> DEFINE L == Len(s)
           ends == {m \in k .. L : m = L \/ s[m + 1] \notin class}
<1>1. L \in Nat /\ k \in 1 .. L
  OBVIOUS
<1>2. ends \in SUBSET Nat /\ L \in ends
  BY <1>1
<1>3. e \in ends /\ \A m \in ends : e <= m
  <2>1. e = Min(ends)
    BY DEF EndOfRun
  <2>2. ends \in SUBSET Nat /\ ends # {}
    BY <1>2
  <2> HIDE DEF ends
  <2>3. Min(ends) \in ends /\ \A m \in ends : Min(ends) <= m
    BY <2>2, LeastIs
  <2> QED BY <2>1, <2>3
<1>4. e \in k .. L /\ (e = L \/ s[e + 1] \notin class)
  BY <1>3
<1>5. \A m \in k .. L : m < e => m # L /\ s[m + 1] \in class
  BY <1>1, <1>3
<1>6. \A j \in k .. e : s[j] \in class
  <2> SUFFICES ASSUME NEW j \in k .. e, j # k PROVE s[j] \in class
    OBVIOUS
  <2> HIDE DEF L, ends
  <2>1. j - 1 \in k .. L /\ j - 1 < e /\ (j - 1) + 1 = j
    BY <1>1, <1>4
  <2> QED BY <1>5, <2>1
<1>7. IsRunOf(s, class, <<k, e>>)
  BY <1>1, <1>4, <1>6 DEF IsRunOf
<1>8. ASSUME NEW m \in Nat, IsRunOf(s, class, <<k, m>>) PROVE m = e
  <2>1. /\ m \in k .. L /\ \A j \in k .. m : s[j] \in class
        /\ m = L \/ s[m + 1] \notin class
    BY <1>1, <1>8 DEF IsRunOf
  <2>2. e <= m
    BY <1>3, <2>1
  <2> HIDE DEF L, ends
  <2>3. ASSUME e < m PROVE FALSE
    <3>1. e + 1 \in k .. m /\ e # L
      BY <1>1, <1>4, <2>1, <2>3
    <3> QED BY <1>4, <2>1, <3>1
  <2> QED BY <1>1, <1>4, <2>1, <2>2, <2>3
<1> QED BY <1>4, <1>7, <1>8

\* The runs of a class are the longest ones, from left to right.
LEMMA RunsAreTheRuns ==
    ASSUME NEW Value, NEW s \in Seq(Value), NEW class, NEW runs, runs = Runs(s, class)
    PROVE  /\ runs \in Seq(Nat \X Nat) /\ Grows(runs)
           /\ \A r \in Nat \X Nat : r \in ToSet(runs) <=> IsRunOf(s, class, r)
<1> DEFINE L == Len(s)
           first == {k \in DOMAIN s : s[k] \in class /\ (k = 1 \/ s[k - 1] \notin class)}
           ends(k) == EndOfRun(s, class, k)
           at == Ascending(first)
           c == Cardinality(first)
<1>1. L \in Nat /\ DOMAIN s = 1 .. L
  OBVIOUS
<1>2. first \in SUBSET (1 .. L) /\ first \in SUBSET Int /\ IsFiniteSet(first)
  <2>1. first \in SUBSET (1 .. L) /\ first \in SUBSET Int
    BY <1>1
  <2>2. IsFiniteSet(1 .. L)
    <3>1. 1 \in Int /\ L \in Int
      BY <1>1
    <3> QED BY <3>1, FS_Interval
  <2> HIDE DEF first
  <2>3. IsFiniteSet(first)
    BY <2>1, <2>2, FS_Subset
  <2> QED BY <2>1, <2>3
<1>3. runs = [n \in DOMAIN at |-> <<at[n], ends(at[n])>>]
  BY DEF Runs, Each, EndOfRun
<1>4. /\ c \in Nat /\ at \in [1 .. c -> first]
      /\ \A k \in first : \E n \in 1 .. c : at[n] = k
      /\ \A n, m \in 1 .. c : n < m => at[n] < at[m]
  <2> HIDE DEF first
  <2> QED BY <1>2, SortedNumbers
<1> HIDE DEF at, c
<1>5. DOMAIN runs = 1 .. c /\ \A n \in 1 .. c : runs[n] = <<at[n], ends(at[n])>>
  BY <1>3, <1>4
<1>6. ASSUME NEW k \in first
      PROVE  /\ ends(k) \in Nat /\ IsRunOf(s, class, <<k, ends(k)>>)
             /\ \A m \in Nat : IsRunOf(s, class, <<k, m>>) => m = ends(k)
  <2>1. k \in 1 .. Len(s) /\ s[k] \in class /\ (k = 1 \/ s[k - 1] \notin class)
    BY <1>1
  <2>2. ends(k) \in k .. Len(s)
    BY <2>1, RunEnds
  <2>3. IsRunOf(s, class, <<k, ends(k)>>)
    BY <2>1, RunEnds
  <2>4. ASSUME NEW m \in Nat, IsRunOf(s, class, <<k, m>>) PROVE m = ends(k)
    BY <2>1, <2>4, RunEnds
  <2> QED BY <2>1, <2>2, <2>3, <2>4
<1> HIDE DEF ends
<1>7. \A n \in 1 .. c : at[n] \in first /\ at[n] \in Nat
  BY <1>2, <1>4
<1>8. ASSUME NEW n \in 1 .. c
      PROVE runs[n] \in Nat \X Nat /\ runs[n][1] = at[n] /\ IsRunOf(s, class, runs[n])
  <2>1. runs[n] = <<at[n], ends(at[n])>>
    BY <1>5
  <2>2. ends(at[n]) \in Nat /\ IsRunOf(s, class, <<at[n], ends(at[n])>>) /\ at[n] \in Nat
    BY <1>6, <1>7
  <2> QED BY <2>1, <2>2
<1>9. runs \in [1 .. c -> Nat \X Nat]
  BY <1>3, <1>4, <1>8
<1>10. runs \in Seq(Nat \X Nat)
  BY <1>4, <1>9, TupleIsSeq
<1>11. Grows(runs)
  <2>1. \A n, m \in 1 .. c : n < m => runs[n][1] < runs[m][1]
    BY <1>4, <1>8
  <2> QED BY <1>5, <2>1 DEF Grows
<1>12. ASSUME NEW a \in Nat, NEW b \in Nat
       PROVE  <<a, b>> \in ToSet(runs) <=> IsRunOf(s, class, <<a, b>>)
  <2>1. <<a, b>> \in ToSet(runs) => IsRunOf(s, class, <<a, b>>)
    BY <1>5, <1>8 DEF ToSet
  <2>2. ASSUME IsRunOf(s, class, <<a, b>>) PROVE <<a, b>> \in ToSet(runs)
    <3>a. /\ 1 <= a /\ a <= b /\ b <= L /\ \A k \in a .. b : s[k] \in class
          /\ a = 1 \/ s[a - 1] \notin class
      BY <2>2 DEF IsRunOf
    <3>b. a \in a .. b
      BY <3>a
    <3>1. a \in 1 .. L /\ s[a] \in class /\ (a = 1 \/ s[a - 1] \notin class)
      BY <1>1, <3>a, <3>b
    <3>2. a \in first
      BY <1>1, <3>1 DEF first
    <3>3. PICK n \in 1 .. c : at[n] = a
      BY <1>4, <3>2
    <3>4. b = ends(a)
      BY <1>6, <2>2, <3>2
    <3>5. runs[n] = <<a, b>>
      BY <1>5, <3>3, <3>4
    <3> QED BY <1>5, <3>5 DEF ToSet
  <2> QED BY <2>1, <2>2
<1>13. \A r \in Nat \X Nat : r \in ToSet(runs) <=> IsRunOf(s, class, r)
  <2> SUFFICES ASSUME NEW r \in Nat \X Nat PROVE r \in ToSet(runs) <=> IsRunOf(s, class, r)
    OBVIOUS
  <2>1. r = <<r[1], r[2]>> /\ r[1] \in Nat /\ r[2] \in Nat
    OBVIOUS
  <2> QED BY <1>12, <2>1
<1> QED BY <1>10, <1>11, <1>13
------------------------------------------------------------------------------
(* The long runs of a part of a file, and the sequences that list them.    *)

Window(file, i, j) == SubSeq(file, i + 1, j)

IsSpan(file, i, j, class, a, b) ==
    /\ i < a /\ a <= b /\ b <= j
    /\ \A k \in a .. b : file[k] \in class
    /\ a = i + 1 \/ file[a - 1] \notin class
    /\ b = j \/ file[b + 1] \notin class

LongSpans(file, i, j, class) ==
    {p \in Nat \X Nat : IsSpan(file, i, j, class, p[1], p[2]) /\ p[2] - p[1] + 1 >= MinLength}

SpanText(file, p) == <<p[1] - 1, SubSeq(file, p[1], p[2])>>

IsListing(g, Value, file, i, j, class) ==
    /\ g \in Seq(Nat \X Seq(Value)) /\ Grows(g)
    /\ ToSet(g) = {SpanText(file, p) : p \in LongSpans(file, i, j, class)}

\* There is one sequence that lists them.
LEMMA ListedOnce ==
    ASSUME NEW Value, NEW file, NEW i, NEW j, NEW class, NEW g, NEW h,
           IsListing(g, Value, file, i, j, class), IsListing(h, Value, file, i, j, class)
    PROVE  g = h
<1>1. /\ g \in Seq(Nat \X Seq(Value)) /\ h \in Seq(Nat \X Seq(Value))
      /\ Grows(g) /\ Grows(h) /\ ToSet(g) = ToSet(h)
  BY DEF IsListing
<1> QED BY <1>1, SameInOrder

\* A part of a file has the symbols between its ends.
LEMMA WindowIs ==
    ASSUME NEW Value, NEW file \in Seq(Value), NEW i \in Nat, NEW j \in Nat, i <= j, j <= Len(file)
    PROVE  /\ Window(file, i, j) \in Seq(Value) /\ Len(Window(file, i, j)) = j - i
           /\ \A k \in 1 .. j - i : Window(file, i, j)[k] = file[i + k]
BY DEF Window

\* A run of the part is a run of the file, but for where the part ends.
LEMMA RunsOfWindow ==
    ASSUME NEW Value, NEW file \in Seq(Value), NEW i \in Nat, NEW j \in Nat, i <= j, j <= Len(file),
           NEW class, NEW a \in Nat, NEW b \in Nat
    PROVE  IsRunOf(Window(file, i, j), class, <<a, b>>) <=> IsSpan(file, i, j, class, i + a, i + b)
<1> DEFINE s == Window(file, i, j)
<1>1. Len(s) = j - i /\ \A k \in 1 .. j - i : s[k] = file[i + k]
  BY WindowIs
<1> HIDE DEF s
<1>2. ASSUME 1 <= a, a <= b, b <= j - i
      PROVE  /\ (\A k \in a .. b : s[k] \in class) <=> (\A k \in i + a .. i + b : file[k] \in class)
             /\ a # 1 => s[a - 1] = file[i + a - 1]
             /\ b # j - i => s[b + 1] = file[i + b + 1]
  <2>1. \A k \in a .. b : s[k] = file[i + k] /\ i + k \in i + a .. i + b
    BY <1>1, <1>2
  <2>2. \A k \in i + a .. i + b : k - i \in a .. b /\ i + (k - i) = k
    BY <1>2
  <2>3. a # 1 => a - 1 \in 1 .. j - i /\ i + (a - 1) = i + a - 1
    BY <1>2
  <2>4. b # j - i => b + 1 \in 1 .. j - i /\ i + (b + 1) = i + b + 1
    BY <1>2
  <2>5. (\A k \in a .. b : s[k] \in class) => (\A k \in i + a .. i + b : file[k] \in class)
    BY <2>1, <2>2
  <2>6. (\A k \in i + a .. i + b : file[k] \in class) => (\A k \in a .. b : s[k] \in class)
    BY <2>1
  <2> QED BY <1>1, <2>3, <2>4, <2>5, <2>6
<1>3. /\ IsRunOf(s, class, <<a, b>>) => 1 <= a /\ a <= b /\ b <= j - i
      /\ IsSpan(file, i, j, class, i + a, i + b) => 1 <= a /\ a <= b /\ b <= j - i
  BY <1>1 DEF IsRunOf, IsSpan
<1>4. ASSUME 1 <= a, a <= b, b <= j - i
      PROVE  IsRunOf(s, class, <<a, b>>) <=> IsSpan(file, i, j, class, i + a, i + b)
  <2>1. IsRunOf(s, class, <<a, b>>) <=>
           /\ \A k \in a .. b : s[k] \in class
           /\ a = 1 \/ s[a - 1] \notin class
           /\ b = j - i \/ s[b + 1] \notin class
    BY <1>1, <1>4 DEF IsRunOf
  <2>2. IsSpan(file, i, j, class, i + a, i + b) <=>
           /\ \A k \in i + a .. i + b : file[k] \in class
           /\ a = 1 \/ file[i + a - 1] \notin class
           /\ b = j - i \/ file[i + b + 1] \notin class
    BY <1>4 DEF IsSpan
  <2> QED BY <1>2, <1>4, <2>1, <2>2
<1> QED BY <1>3, <1>4 DEF s

\* Where a symbol that is not of the class ends the first part, no run crosses it.
LEMMA SpansFollow ==
    ASSUME NEW file, NEW d \in Nat, NEW e \in Nat, d <= e, NEW class, d = 0 \/ file[d] \notin class
    PROVE  LongSpans(file, 0, e, class) = LongSpans(file, 0, d, class) \cup LongSpans(file, d, e, class)
<1>1. ASSUME NEW a \in Nat, NEW b \in Nat, IsSpan(file, 0, e, class, a, b)
      PROVE  IsSpan(file, 0, d, class, a, b) \/ IsSpan(file, d, e, class, a, b)
  <2>1. CASE b < d
    BY <1>1, <2>1 DEF IsSpan
  <2>2. CASE d < a
    BY <1>1, <2>2 DEF IsSpan
  <2>3. CASE a <= d /\ d <= b
    BY <1>1, <2>3 DEF IsSpan
  <2> QED BY <2>1, <2>2, <2>3
<1>2. ASSUME NEW a \in Nat, NEW b \in Nat, IsSpan(file, 0, d, class, a, b)
      PROVE  IsSpan(file, 0, e, class, a, b)
  <2>1. b # d
    BY <1>2 DEF IsSpan
  <2> QED BY <1>2, <2>1 DEF IsSpan
<1>3. ASSUME NEW a \in Nat, NEW b \in Nat, IsSpan(file, d, e, class, a, b)
      PROVE  IsSpan(file, 0, e, class, a, b)
  <2>1. 0 < a /\ a <= b /\ b <= e /\ (\A k \in a .. b : file[k] \in class)
        /\ (b = e \/ file[b + 1] \notin class)
    BY <1>3 DEF IsSpan
  <2>2. a = 1 \/ file[a - 1] \notin class
    <3>1. CASE a = d + 1
      <4>1. a - 1 = d /\ (d = 0 => a = 1)
        BY <3>1
      <4> QED BY <4>1
    <3>2. CASE a # d + 1
      BY <1>3, <3>2 DEF IsSpan
    <3> QED BY <3>1, <3>2
  <2> QED BY <2>1, <2>2 DEF IsSpan
<1> QED BY <1>1, <1>2, <1>3 DEF LongSpans

\* The runs of two parts that follow one another are listed one list after the other.
LEMMA ListsFollow ==
    ASSUME NEW Value, NEW file, NEW d \in Nat, NEW e \in Nat, d <= e, NEW class,
           d = 0 \/ file[d] \notin class, NEW g, NEW h,
           IsListing(g, Value, file, 0, d, class), IsListing(h, Value, file, d, e, class)
    PROVE  IsListing(g \o h, Value, file, 0, e, class)
<1> DEFINE Y == Nat \X Seq(Value)
           N == Len(g)
           M == Len(h)
           k == g \o h
<1>1. g \in Seq(Y) /\ h \in Seq(Y) /\ Grows(g) /\ Grows(h)
  BY DEF IsListing
<1>2. k \in Seq(Y) /\ ToSet(k) = ToSet(g) \cup ToSet(h)
  <2> HIDE DEF Y
  <2> QED BY <1>1, ConcatenatedAre
<1>3. ToSet(k) = {SpanText(file, p) : p \in LongSpans(file, 0, e, class)}
  <2>1. LongSpans(file, 0, e, class) = LongSpans(file, 0, d, class) \cup LongSpans(file, d, e, class)
    BY SpansFollow
  <2>2. /\ ToSet(g) = {SpanText(file, p) : p \in LongSpans(file, 0, d, class)}
        /\ ToSet(h) = {SpanText(file, p) : p \in LongSpans(file, d, e, class)}
    BY DEF IsListing
  <2> QED BY <1>2, <2>1, <2>2
<1>4. \A x \in ToSet(g) : x[1] \in Nat /\ x[1] < d
  <2>1. \A p \in LongSpans(file, 0, d, class) : p[1] - 1 \in Nat /\ p[1] - 1 < d
    BY DEF LongSpans, IsSpan
  <2> QED BY <2>1 DEF IsListing, SpanText
<1>5. \A x \in ToSet(h) : x[1] \in Nat /\ d <= x[1]
  <2>1. \A p \in LongSpans(file, d, e, class) : p[1] - 1 \in Nat /\ d <= p[1] - 1
    BY DEF LongSpans, IsSpan
  <2> QED BY <2>1 DEF IsListing, SpanText
<1> HIDE DEF Y
<1>6. /\ N \in Nat /\ M \in Nat /\ DOMAIN g = 1 .. N /\ DOMAIN h = 1 .. M /\ DOMAIN k = 1 .. N + M
      /\ \A n \in 1 .. N : k[n] = g[n] /\ g[n] \in ToSet(g)
      /\ \A n \in N + 1 .. N + M : k[n] = h[n - N] /\ h[n - N] \in ToSet(h) /\ n - N \in 1 .. M
  <2>1. N \in Nat /\ M \in Nat /\ DOMAIN g = 1 .. N /\ DOMAIN h = 1 .. M /\ DOMAIN k = 1 .. N + M
    BY <1>1
  <2>2. \A n \in 1 .. N : k[n] = g[n]
    BY <1>1
  <2>3. \A n \in N + 1 .. N + M : k[n] = h[n - N] /\ n - N \in 1 .. M
    BY <1>1
  <2> HIDE DEF N, M, k
  <2> QED BY <2>1, <2>2, <2>3 DEF ToSet
<1> HIDE DEF N, M, k
<1>7. Grows(k)
  <2> SUFFICES ASSUME NEW n \in 1 .. N + M, NEW m \in 1 .. N + M, n < m PROVE k[n][1] < k[m][1]
    BY <1>6 DEF Grows
  <2>1. CASE m <= N
    <3>1. n \in 1 .. N /\ m \in 1 .. N
      BY <1>6, <2>1
    <3>2. k[n] = g[n] /\ k[m] = g[m]
      BY <1>6, <3>1
    <3> QED BY <1>1, <1>6, <3>1, <3>2 DEF Grows
  <2>2. CASE N < n
    <3>1. n \in N + 1 .. N + M /\ m \in N + 1 .. N + M /\ n - N < m - N
      BY <1>6, <2>2
    <3>2. k[n] = h[n - N] /\ k[m] = h[m - N] /\ n - N \in 1 .. M /\ m - N \in 1 .. M
      BY <1>6, <3>1
    <3> QED BY <1>1, <1>6, <3>1, <3>2 DEF Grows
  <2>3. CASE n <= N /\ N < m
    <3>1. n \in 1 .. N /\ m \in N + 1 .. N + M
      BY <1>6, <2>3
    <3>2. k[n] \in ToSet(g) /\ k[m] \in ToSet(h)
      BY <1>6, <3>1
    <3>3. k[n][1] \in Nat /\ k[m][1] \in Nat /\ k[n][1] < d /\ d <= k[m][1]
      BY <1>4, <1>5, <3>2
    <3> QED BY <3>3
  <2> QED BY <1>6, <2>1, <2>2, <2>3
<1> QED BY <1>2, <1>3, <1>7 DEF IsListing, k, Y
------------------------------------------------------------------------------
(* Printable strings.                                                      *)

HasThose(q, s, P) == \A x : x \in ToSet(q) <=> \E n \in P : x = s[n]

\* What is picked of a growing sequence grows.
LEMMA PickedGrow ==
    ASSUME NEW Y, NEW s \in Seq(Nat \X Y), Grows(s), NEW P \in SUBSET (1 .. Len(s)), NEW q,
           q = Picked(s, P)
    PROVE  q \in Seq(Nat \X Y) /\ Grows(q) /\ HasThose(q, s, P)
<1>1. q \in Seq(Nat \X Y) /\ HasThose(q, s, P)
  <2>1. q \in Seq(Nat \X Y)
    BY PickedAre
  <2>2. ToSet(q) = {s[n] : n \in P}
    BY PickedAre
  <2> QED BY <2>1, <2>2 DEF HasThose
<1>2. PICK at : LeadsTo(at, q, s, P)
  BY PickedInOrder
<1>3. /\ DOMAIN s = 1 .. Len(s) /\ DOMAIN q = 1 .. Len(q)
      /\ \A n, m \in 1 .. Len(s) : n < m => s[n][1] < s[m][1]
  <2> DEFINE Z == Nat \X Y
  <2>1. s \in Seq(Z) /\ q \in Seq(Z)
    BY <1>1
  <2> HIDE DEF Z
  <2>2. DOMAIN s = 1 .. Len(s) /\ DOMAIN q = 1 .. Len(q)
    BY <2>1
  <2> QED BY <2>2 DEF Grows
<1>4. Grows(q)
  <2> SUFFICES ASSUME NEW n \in 1 .. Len(q), NEW m \in 1 .. Len(q), n < m PROVE q[n][1] < q[m][1]
    BY <1>3 DEF Grows
  <2>1. at[n] \in 1 .. Len(s) /\ at[m] \in 1 .. Len(s) /\ at[n] < at[m]
    BY <1>2 DEF LeadsTo
  <2>2. q[n] = s[at[n]] /\ q[m] = s[at[m]]
    BY <1>2 DEF LeadsTo
  <2> QED BY <1>3, <2>1, <2>2
<1> QED BY <1>1, <1>4

\* A part of a part of a file is a part of the file.
LEMMA PartOfWindow ==
    ASSUME NEW Value, NEW file \in Seq(Value), NEW i \in Nat, NEW j \in Nat, i <= j, j <= Len(file),
           NEW a \in Nat, NEW b \in Nat, 1 <= a, b <= j - i
    PROVE  SubSeq(Window(file, i, j), a, b) = SubSeq(file, i + a, i + b)
BY DEF Window

IsLong(r) == r[2] - r[1] + 1 >= MinLength

\* q has the long runs of a class, from left to right.
AreLongRuns(q, s, class) ==
    /\ q \in Seq(Nat \X Nat) /\ Grows(q)
    /\ \A r \in Nat \X Nat : r \in ToSet(q) <=> IsRunOf(s, class, r) /\ IsLong(r)

\* The long ones among the runs.
LEMMA LongRunsAre ==
    ASSUME NEW Value, NEW s \in Seq(Value), NEW class, NEW q, q = Those(Runs(s, class), IsLong)
    PROVE  AreLongRuns(q, s, class)
<1> DEFINE runs == Runs(s, class)
           P == {n \in DOMAIN runs : IsLong(runs[n])}
<1>1. q = Picked(runs, P)
  BY DEF Those
<1>2. /\ runs \in Seq(Nat \X Nat) /\ Grows(runs)
      /\ \A r \in Nat \X Nat : r \in ToSet(runs) <=> IsRunOf(s, class, r)
  BY RunsAreTheRuns
<1> HIDE DEF runs
<1>3. DOMAIN runs = 1 .. Len(runs) /\ P \in SUBSET (1 .. Len(runs))
  BY <1>2
<1>4. \A n \in P : n \in DOMAIN runs /\ IsLong(runs[n])
  OBVIOUS
<1>5. \A n \in DOMAIN runs : IsLong(runs[n]) => n \in P
  OBVIOUS
<1> HIDE DEF P
<1>6. q \in Seq(Nat \X Nat) /\ Grows(q) /\ HasThose(q, runs, P)
  BY <1>1, <1>2, <1>3, PickedGrow
<1>7. \A r : r \in ToSet(runs) <=> \E n \in DOMAIN runs : r = runs[n]
  BY DEF ToSet
<1>8. \A r : r \in ToSet(q) <=> r \in ToSet(runs) /\ IsLong(r)
  BY <1>4, <1>5, <1>6, <1>7 DEF HasThose
<1> QED BY <1>2, <1>6, <1>8 DEF AreLongRuns

HasValues(t, f, S) == \A y : y \in ToSet(t) <=> \E x \in S : y = f[x]

\* A function of the members of a sequence yields a sequence of its values.
LEMMA ValuesAre ==
    ASSUME NEW X, NEW Y, NEW s \in Seq(X), NEW f \in [X -> Y], NEW t,
           t = [n \in DOMAIN s |-> f[s[n]]]
    PROVE  t \in Seq(Y) /\ HasValues(t, f, ToSet(s))
<1>1. t \in Seq(Y)
  BY EachIs
<1>2. DOMAIN t = DOMAIN s
  OBVIOUS
<1>3. \A n \in DOMAIN s : t[n] = f[s[n]]
  OBVIOUS
<1> QED BY <1>1, <1>2, <1>3 DEF ToSet, HasValues

TextsOf(q, s, i) == [n \in DOMAIN q |-> <<i + q[n][1] - 1, SubSeq(s, q[n][1], q[n][2])>>]

\* The texts of the long runs of a part of a file, in order, are a listing.
LEMMA RunsAreListed ==
    ASSUME NEW Value, NEW file \in Seq(Value), NEW i \in Nat, NEW j \in Nat, i <= j, j <= Len(file),
           NEW class, NEW q, AreLongRuns(q, Window(file, i, j), class), NEW t,
           t = TextsOf(q, Window(file, i, j), i)
    PROVE  IsListing(t, Value, file, i, j, class)
<1> DEFINE s == Window(file, i, j)
           X == {r \in Nat \X Nat : IsRunOf(s, class, r) /\ IsLong(r)}
           Y == Nat \X Seq(Value)
           f == [r \in X |-> <<i + r[1] - 1, SubSeq(s, r[1], r[2])>>]
<1>1. t = [n \in DOMAIN q |-> <<i + q[n][1] - 1, SubSeq(s, q[n][1], q[n][2])>>]
  BY DEF TextsOf
<1>2. s \in Seq(Value) /\ Len(s) = j - i /\ \A k \in 1 .. j - i : s[k] = file[i + k]
  BY WindowIs
<1>3. /\ q \in Seq(Nat \X Nat) /\ Grows(q)
      /\ \A r \in Nat \X Nat : r \in ToSet(q) <=> IsRunOf(s, class, r) /\ IsLong(r)
  BY DEF AreLongRuns
<1> HIDE DEF s
<1>5. Len(q) \in Nat /\ q \in [1 .. Len(q) -> Nat \X Nat] /\ DOMAIN q = 1 .. Len(q)
  BY <1>3
<1>6. ToSet(q) = X
  <2>1. \A r \in ToSet(q) : r \in Nat \X Nat
    BY <1>5 DEF ToSet
  <2> QED BY <1>3, <2>1
<1>7. q \in Seq(X)
  <2> HIDE DEF X
  <2>1. \A n \in 1 .. Len(q) : q[n] \in X
    BY <1>5, <1>6 DEF ToSet
  <2>2. q \in [1 .. Len(q) -> X]
    BY <1>5, <2>1
  <2> QED BY <1>5, <2>2, TupleIsSeq
<1>8. \A r \in X : /\ r[1] \in Nat /\ r[2] \in Nat /\ r = <<r[1], r[2]>> /\ 1 <= r[1] /\ r[1] <= r[2]
                   /\ r[2] <= j - i /\ i + r[1] - 1 \in Nat
  BY <1>2 DEF IsRunOf
<1>9. \A r \in X : SubSeq(s, r[1], r[2]) \in Seq(Value)
  <2> SUFFICES ASSUME NEW r \in X PROVE SubSeq(s, r[1], r[2]) \in Seq(Value)
    OBVIOUS
  <2>1. r[1] \in Int /\ r[2] \in Int /\ 1 <= r[1] /\ r[2] <= Len(s)
    BY <1>2, <1>8
  <2> HIDE DEF X
  <2> QED BY <1>2, <2>1, PartIs
<1>10. f \in [X -> Y]
  <2> HIDE DEF X
  <2> QED BY <1>8, <1>9
<1>11. t = [n \in DOMAIN q |-> f[q[n]]]
  <2>1. \A n \in DOMAIN q : q[n] \in X
    BY <1>7
  <2> HIDE DEF X
  <2> QED BY <1>1, <2>1
<1>12. t \in Seq(Y) /\ DOMAIN t = DOMAIN q /\ HasValues(t, f, X)
  <2>1. DOMAIN t = DOMAIN q
    BY <1>1
  <2> HIDE DEF f, X, Y
  <2>2. t \in Seq(Y) /\ HasValues(t, f, ToSet(q))
    BY <1>7, <1>10, <1>11, ValuesAre
  <2> QED BY <1>6, <2>1, <2>2
<1>13. Grows(t)
  <2>1. \A n \in DOMAIN q : t[n][1] = i + q[n][1] - 1 /\ q[n][1] \in Nat
    BY <1>1, <1>5
  <2>2. \A n, m \in DOMAIN q : n < m => q[n][1] < q[m][1]
    BY <1>3 DEF Grows
  <2>3. \A n, m \in DOMAIN q : n < m => t[n][1] < t[m][1]
    BY <2>1, <2>2
  <2> QED BY <1>12, <2>3 DEF Grows
<1>14. ASSUME NEW a \in Nat, NEW b \in Nat, <<a, b>> \in X
       PROVE  /\ IsSpan(file, i, j, class, i + a, i + b)
              /\ f[<<a, b>>] = SpanText(file, <<i + a, i + b>>)
  <2>1. IsRunOf(s, class, <<a, b>>) /\ 1 <= a /\ b <= j - i
    BY <1>8, <1>14
  <2>2. f[<<a, b>>] = <<i + a - 1, SubSeq(s, a, b)>>
    BY <1>14
  <2> HIDE DEF f, X
  <2>3. IsSpan(file, i, j, class, i + a, i + b)
    BY <2>1, RunsOfWindow DEF s
  <2>4. SubSeq(s, a, b) = SubSeq(file, i + a, i + b)
    <3>1. SubSeq(Window(file, i, j), a, b) = SubSeq(file, i + a, i + b)
      BY <2>1 DEF Window
    <3> QED BY <3>1 DEF s
  <2> QED BY <2>2, <2>3, <2>4 DEF SpanText
<1>15. \A p \in LongSpans(file, i, j, class) :
          <<p[1] - i, p[2] - i>> \in X
  <2> SUFFICES ASSUME NEW a \in Nat, NEW b \in Nat, IsSpan(file, i, j, class, a, b),
                      b - a + 1 >= MinLength
               PROVE  <<a - i, b - i>> \in X
    BY DEF LongSpans
  <2>1. a - i \in Nat /\ b - i \in Nat /\ i + (a - i) = a /\ i + (b - i) = b
    BY DEF IsSpan
  <2>2. IsRunOf(s, class, <<a - i, b - i>>)
    BY <2>1, RunsOfWindow DEF s
  <2>3. (b - i) - (a - i) + 1 = b - a + 1
    OBVIOUS
  <2> QED BY <2>1, <2>2, <2>3 DEF IsLong
<1>16. ToSet(t) = {SpanText(file, p) : p \in LongSpans(file, i, j, class)}
  <2>1. ASSUME NEW r \in X
        PROVE  \E p \in LongSpans(file, i, j, class) : f[r] = SpanText(file, p)
    <3> DEFINE a == r[1]
               b == r[2]
    <3>1. a \in Nat /\ b \in Nat /\ r = <<a, b>> /\ IsLong(r)
      BY <1>8
    <3> HIDE DEF a, b, f, X
    <3>2. IsSpan(file, i, j, class, i + a, i + b) /\ f[r] = SpanText(file, <<i + a, i + b>>)
      BY <1>14, <3>1
    <3>3. b - a + 1 >= MinLength /\ (i + b) - (i + a) + 1 = b - a + 1
      BY <3>1 DEF IsLong
    <3>4. <<i + a, i + b>> \in LongSpans(file, i, j, class)
      BY <3>1, <3>2, <3>3 DEF LongSpans
    <3> QED BY <3>2, <3>4
  <2>2. ASSUME NEW p \in LongSpans(file, i, j, class)
        PROVE  \E r \in X : f[r] = SpanText(file, p)
    <3> DEFINE a == p[1] - i
               b == p[2] - i
    <3>1. p[1] \in Nat /\ p[2] \in Nat /\ p = <<p[1], p[2]>> /\ i < p[1] /\ i < p[2]
      BY DEF LongSpans, IsSpan
    <3>2. a \in Nat /\ b \in Nat /\ p = <<i + a, i + b>>
      BY <3>1
    <3>3. <<a, b>> \in X
      BY <1>15
    <3> HIDE DEF a, b, f, X
    <3> QED BY <1>14, <3>2, <3>3
  <2> HIDE DEF f, X
  <2> QED BY <1>12, <2>1, <2>2 DEF HasValues
<1> QED BY <1>12, <1>13, <1>16 DEF IsListing, Y

\* The strings of a part of a file are its long printable runs.
LEMMA StringsAreListed ==
    ASSUME NEW Value, NEW file \in Seq(Value), NEW i \in Nat, NEW j \in Nat, i <= j, j <= Len(file)
    PROVE  IsListing(StringsIn(Window(file, i, j), i), Value, file, i, j, Printable)
<1> DEFINE s == Window(file, i, j)
           q == Those(Runs(s, Printable), IsLong)
<1>1. StringsIn(s, i) = TextsOf(q, s, i)
  BY DEF StringsIn, Those, Each, IsLong, TextsOf
<1>2. s \in Seq(Value)
  BY WindowIs
<1>3. AreLongRuns(q, s, Printable)
  BY <1>2, LongRunsAre
<1> QED BY <1>1, <1>3, RunsAreListed
------------------------------------------------------------------------------
(* The blocks of a file.                                                   *)

\* Where the blocks end.
AreBounds(c, file) ==
    /\ c \in [0 .. Len(Blocks(file)) -> 0 .. Len(file)]
    /\ c[0] = 0 /\ c[Len(Blocks(file))] = Len(file)
    /\ \A n \in 1 .. Len(Blocks(file)) :
          c[n - 1] < c[n] /\ Blocks(file)[n] = Window(file, c[n - 1], c[n])

\* The number of blocks is what covers the file.
LEMMA BlocksCover ==
    ASSUME NEW L \in Nat, NEW C \in Nat \ {0}, NEW N, N = (L + C - 1) \div C
    PROVE  N \in Nat /\ N * C <= L + C - 1 /\ L <= N * C
<1>1. L + C - 1 \in Nat
  OBVIOUS
<1>2. N \in Nat
  BY <1>1
<1>3. N * C <= L + C - 1 /\ L + C - 1 < (N + 1) * C
  BY <1>1, Z3
<1>4. (N + 1) * C = N * C + C /\ N * C \in Nat
  BY <1>2
<1> QED BY <1>2, <1>3, <1>4

\* A block begins where the one before it ends.
LEMMA BlocksFollow ==
    ASSUME NEW Value, NEW file \in Seq(Value)
    PROVE  \E c : AreBounds(c, file)
<1> DEFINE L == Len(file)
           C == ChunkSize
           N == (L + C - 1) \div C
           c == [n \in 0 .. N |-> AtMost(n * C, L)]
<1>1. C \in Nat \ {0} /\ L \in Nat
  BY SizesAssumption
<1>2. N \in Nat /\ N * C <= L + C - 1 /\ L <= N * C
  <2> HIDE DEF C, L
  <2> QED BY <1>1, BlocksCover
<1>3. Blocks(file) = [n \in 1 .. N |-> SubSeq(file, (n - 1) * C + 1, AtMost(n * C, L))]
  BY DEF Blocks
<1> HIDE DEF N, C, L
<1>4. Blocks(file) \in Seq(Seq(Value)) /\ DOMAIN Blocks(file) = 1 .. N
  BY <1>3, BlocksAre
<1>5. Len(Blocks(file)) = N
  BY <1>2, <1>4
<1>6. \A n \in 0 .. N : n * C \in Nat
  BY <1>1, <1>2, ProductIs
<1>7. ASSUME NEW n \in 1 .. N
      PROVE  /\ (n - 1) * C < L /\ (n - 1) * C + C = n * C
             /\ (n - 1) * C \in Nat /\ n * C \in Nat
  <2>1. n \in Nat /\ n - 1 \in Nat
    BY <1>2
  <2>2. (n - 1) * C + C = n * C
    BY <1>1, <2>1
  <2>3. (n - 1) * C \in Nat /\ n * C \in Nat
    BY <1>1, <2>1, ProductIs
  <2>4. n * C <= N * C
    <3>1. N - n \in Nat /\ n * C + (N - n) * C = N * C
      BY <1>1, <1>2, <2>1
    <3>2. (N - n) * C \in Nat
      BY <1>1, <3>1, ProductIs
    <3>3. N * C \in Nat
      BY <1>1, <1>2, ProductIs
    <3> QED BY <2>3, <3>1, <3>2, <3>3
  <2>5. N * C \in Nat
    BY <1>1, <1>2, ProductIs
  <2> QED BY <1>1, <1>2, <2>2, <2>3, <2>4, <2>5
<1>8. c[0] = 0 /\ c[N] = L
  <2>1. 0 * C = 0 /\ 0 \in 0 .. N /\ N \in 0 .. N /\ N * C \in Nat
    BY <1>1, <1>2, ProductIs
  <2>2. c[0] = AtMost(0 * C, L) /\ c[N] = AtMost(N * C, L)
    BY <2>1
  <2> QED BY <1>1, <1>2, <2>1, <2>2 DEF AtMost
<1>9. c \in [0 .. N -> 0 .. L]
  <2>1. \A n \in 0 .. N : AtMost(n * C, L) \in 0 .. L
    BY <1>1, <1>6 DEF AtMost
  <2> QED BY <2>1
<1>10. ASSUME NEW n \in 1 .. N
       PROVE  c[n - 1] < c[n] /\ Blocks(file)[n] = Window(file, c[n - 1], c[n])
  <2>1. n \in 0 .. N /\ n - 1 \in 0 .. N
    BY <1>2
  <2>2. c[n] = AtMost(n * C, L) /\ c[n - 1] = AtMost((n - 1) * C, L)
    BY <2>1
  <2> HIDE DEF c
  <2>3. c[n - 1] = (n - 1) * C
    BY <1>1, <1>7, <2>2 DEF AtMost
  <2>4. c[n - 1] < c[n]
    BY <1>1, <1>7, <2>2, <2>3 DEF AtMost
  <2>5. Blocks(file)[n] = SubSeq(file, (n - 1) * C + 1, AtMost(n * C, L))
    BY <1>3
  <2> QED BY <2>2, <2>3, <2>4, <2>5 DEF Window
<1>11. AreBounds(c, file)
  BY <1>5, <1>8, <1>9, <1>10 DEF AreBounds, L
<1> QED BY <1>11
------------------------------------------------------------------------------
(* Strings, block by block.                                                *)

\* Two parts that follow one another are one part.
LEMMA WindowsJoin ==
    ASSUME NEW Value, NEW file \in Seq(Value), NEW d \in Nat, NEW c \in Nat, NEW e \in Nat,
           d <= c, c <= e, e <= Len(file)
    PROVE  Window(file, d, c) \o Window(file, c, e) = Window(file, d, e)
<1> DEFINE s == Window(file, d, c)
           t == Window(file, c, e)
           w == Window(file, d, e)
           u == s \o t
<1>1. /\ s \in Seq(Value) /\ Len(s) = c - d /\ \A k \in 1 .. c - d : s[k] = file[d + k]
      /\ t \in Seq(Value) /\ Len(t) = e - c /\ \A k \in 1 .. e - c : t[k] = file[c + k]
      /\ w \in Seq(Value) /\ Len(w) = e - d /\ \A k \in 1 .. e - d : w[k] = file[d + k]
  <2>1. d <= Len(file) /\ c <= Len(file) /\ d <= e
    OBVIOUS
  <2>2. s \in Seq(Value) /\ Len(s) = c - d /\ \A k \in 1 .. c - d : s[k] = file[d + k]
    BY <2>1, WindowIs
  <2>3. t \in Seq(Value) /\ Len(t) = e - c /\ \A k \in 1 .. e - c : t[k] = file[c + k]
    BY <2>1, WindowIs
  <2>4. w \in Seq(Value) /\ Len(w) = e - d /\ \A k \in 1 .. e - d : w[k] = file[d + k]
    BY <2>1, WindowIs
  <2> QED BY <2>2, <2>3, <2>4
<1> HIDE DEF s, t, w
<1>2. /\ u \in Seq(Value) /\ Len(u) = e - d
      /\ \A k \in 1 .. e - d : u[k] = IF k <= c - d THEN s[k] ELSE t[k - (c - d)]
  <2>a. s \in Seq(Value) /\ t \in Seq(Value)
    BY <1>1
  <2>1. u \in Seq(Value) /\ Len(u) = Len(s) + Len(t)
    BY <2>a
  <2>2. \A k \in 1 .. Len(s) + Len(t) : u[k] = IF k <= Len(s) THEN s[k] ELSE t[k - Len(s)]
    BY <2>a
  <2> HIDE DEF u
  <2>3. Len(s) + Len(t) = e - d
    BY <1>1
  <2> QED BY <1>1, <2>1, <2>2, <2>3
<1> HIDE DEF u
<1>3. \A k \in 1 .. e - d : u[k] = w[k]
  <2> SUFFICES ASSUME NEW k \in 1 .. e - d PROVE u[k] = w[k]
    OBVIOUS
  <2>1. CASE k <= c - d
    <3>1. k \in 1 .. c - d
      BY <2>1
    <3> QED BY <1>1, <1>2, <2>1, <3>1
  <2>2. CASE ~(k <= c - d)
    <3>1. k - (c - d) \in 1 .. e - c /\ c + (k - (c - d)) = d + k
      BY <2>2
    <3>2. t[k - (c - d)] = file[d + k]
      BY <1>1, <3>1
    <3> QED BY <1>1, <1>2, <2>2, <3>2
  <2> QED BY <2>1, <2>2
<1>4. u = w
  <2>1. u = [k \in 1 .. e - d |-> u[k]] /\ w = [k \in 1 .. e - d |-> w[k]]
    BY <1>1, <1>2
  <2> QED BY <1>3, <2>1
<1> QED BY <1>4 DEF s, t, w, u

\* The listings of nothing and of one text.
LEMMA FewAreListed ==
    ASSUME NEW Y, NEW x \in Nat \X Y
    PROVE  /\ <<>> \in Seq(Nat \X Y) /\ Grows(<<>>) /\ ToSet(<<>>) = {}
           /\ <<x>> \in Seq(Nat \X Y) /\ Grows(<<x>>) /\ ToSet(<<x>>) = {x}
<1> DEFINE X == Nat \X Y
<1>1. x \in X
  OBVIOUS
<1> HIDE DEF X
<1>2. <<>> \in Seq(X) /\ DOMAIN <<>> = {}
  OBVIOUS
<1>3. <<x>> \in Seq(X) /\ DOMAIN <<x>> = {1} /\ <<x>>[1] = x
  BY <1>1
<1>4. Grows(<<>>) /\ ToSet(<<>>) = {}
  BY <1>2 DEF Grows, ToSet
<1>5. Grows(<<x>>)
  <2>1. \A n, k \in DOMAIN <<x>> : ~(n < k)
    BY <1>3
  <2> QED BY <2>1 DEF Grows
<1>6. ToSet(<<x>>) = {x}
  BY <1>3 DEF ToSet
<1> QED BY <1>2, <1>3, <1>4, <1>5, <1>6 DEF X

\* What is left at the end of a file is one run, which is listed when it is long.
LEMMA RestIsListed ==
    ASSUME NEW Value, NEW file \in Seq(Value), NEW d \in Nat, NEW e \in Nat, d <= e, e <= Len(file),
           NEW class, \A k \in d + 1 .. e : file[k] \in class, NEW h,
           h = If(e - d >= MinLength, <<<<d, Window(file, d, e)>>>>)
    PROVE  IsListing(h, Value, file, d, e, class)
<1>1. MinLength \in Nat \ {0}
  BY SizesAssumption
<1>2. Window(file, d, e) \in Seq(Value)
  BY WindowIs
<1>3. ASSUME NEW a \in Nat, NEW b \in Nat
      PROVE  IsSpan(file, d, e, class, a, b) <=> a = d + 1 /\ b = e /\ d < e
  <2>1. ASSUME IsSpan(file, d, e, class, a, b) PROVE a = d + 1 /\ b = e /\ d < e
    <3>1. d < a /\ a <= b /\ b <= e
      BY <2>1 DEF IsSpan
    <3>2. a # d + 1 => a - 1 \in d + 1 .. e
      BY <3>1
    <3>3. b # e => b + 1 \in d + 1 .. e
      BY <3>1
    <3>4. a = d + 1
      BY <2>1, <3>2 DEF IsSpan
    <3>5. b = e
      BY <2>1, <3>3 DEF IsSpan
    <3> QED BY <3>1, <3>4, <3>5
  <2>2. ASSUME a = d + 1, b = e, d < e PROVE IsSpan(file, d, e, class, a, b)
    BY <2>2 DEF IsSpan
  <2> QED BY <2>1, <2>2
<1>4. CASE e - d >= MinLength
  <2> DEFINE x == <<d, Window(file, d, e)>>
  <2>1. h = <<x>> /\ x \in Nat \X Seq(Value) /\ d < e
    BY <1>1, <1>2, <1>4 DEF If
  <2>2. LongSpans(file, d, e, class) = {<<d + 1, e>>}
    <3>1. <<d + 1, e>> \in Nat \X Nat /\ e - (d + 1) + 1 = e - d
      OBVIOUS
    <3>2. IsSpan(file, d, e, class, d + 1, e)
      BY <1>3, <2>1
    <3>3. \A p \in LongSpans(file, d, e, class) : p = <<d + 1, e>>
      BY <1>3 DEF LongSpans
    <3>4. <<d + 1, e>> \in LongSpans(file, d, e, class)
      BY <1>4, <3>1, <3>2 DEF LongSpans
    <3> QED BY <3>3, <3>4
  <2>3. SpanText(file, <<d + 1, e>>) = x
    BY DEF SpanText, Window
  <2> HIDE DEF x
  <2>4. <<x>> \in Seq(Nat \X Seq(Value)) /\ Grows(<<x>>) /\ ToSet(<<x>>) = {x}
    BY <2>1, FewAreListed
  <2>5. h \in Seq(Nat \X Seq(Value)) /\ Grows(h) /\ ToSet(h) = {x}
    BY <2>1, <2>4
  <2> QED BY <2>2, <2>3, <2>5 DEF IsListing
<1>5. CASE ~(e - d >= MinLength)
  <2>1. h = <<>>
    BY <1>5 DEF If
  <2>2. \A p \in LongSpans(file, d, e, class) : FALSE
    <3> SUFFICES ASSUME NEW a \in Nat, NEW b \in Nat, IsSpan(file, d, e, class, a, b),
                        b - a + 1 >= MinLength
                 PROVE  FALSE
      BY DEF LongSpans
    <3>1. a = d + 1 /\ b = e
      BY <1>3
    <3> QED BY <1>1, <1>5, <3>1
  <2>3. h \in Seq(Nat \X Seq(Value)) /\ Grows(h) /\ ToSet(h) = {}
    <3>1. <<d, Window(file, d, e)>> \in Nat \X Seq(Value)
      BY <1>2
    <3>2. <<>> \in Seq(Nat \X Seq(Value)) /\ Grows(<<>>) /\ ToSet(<<>>) = {}
      BY <3>1, FewAreListed
    <3> QED BY <2>1, <3>2
  <2> QED BY <2>2, <2>3 DEF IsListing
<1> QED BY <1>4, <1>5

IsRead(state, Value, file, c) ==
    /\ state.position = c
    /\ \E d \in 0 .. c : /\ state.carry = Window(file, d, c)
                         /\ \A k \in d + 1 .. c : file[k] \in Printable
                         /\ d = 0 \/ file[d] \notin Printable
                         /\ IsListing(state.out, Value, file, 0, d, Printable)

\* After a block the strings that ended are listed, and the run it ends with is carried.
LEMMA BlockIsRead ==
    ASSUME NEW Value, NEW file \in Seq(Value), NEW c \in Nat, NEW e \in Nat, c <= e, e <= Len(file),
           NEW state, IsRead(state, Value, file, c)
    PROVE  IsRead(StringsOfBlock(state, Window(file, c, e)), Value, file, e)
<1>1. PICK d \in 0 .. c : /\ state.carry = Window(file, d, c)
                          /\ \A k \in d + 1 .. c : file[k] \in Printable
                          /\ d = 0 \/ file[d] \notin Printable
                          /\ IsListing(state.out, Value, file, 0, d, Printable)
  BY DEF IsRead
<1> DEFINE s == Window(file, d, e)
           before == {0} \cup {k \in DOMAIN s : s[k] \notin Printable}
           m == Max(before)
           f == d + m
           next == StringsOfBlock(state, Window(file, c, e))
<1>2. d \in Nat /\ d <= c /\ d <= e /\ c <= Len(file) /\ state.position = c
  BY DEF IsRead
<1>3. state.carry \o Window(file, c, e) = s
  <2>1. Window(file, d, c) \o Window(file, c, e) = Window(file, d, e)
    BY <1>2, WindowsJoin
  <2> QED BY <1>1, <2>1
<1>4. s \in Seq(Value) /\ Len(s) = e - d /\ \A k \in 1 .. e - d : s[k] = file[d + k]
  <2> HIDE DEF s
  <2>1. d \in Nat /\ d <= e /\ s = Window(file, d, e)
    BY <1>2 DEF s
  <2> QED BY <2>1, WindowIs
<1>5. Len(state.carry) = c - d
  <2>1. Len(Window(file, d, c)) = c - d
    BY <1>2, WindowIs
  <2> QED BY <1>1, <2>1
<1>6. m \in before /\ (\A k \in before : k <= m) /\ m \in 0 .. e - d
  <2>1. before \in SUBSET (0 .. e - d) /\ before # {} /\ e - d \in Nat
    <3>1. DOMAIN s = 1 .. e - d
      BY <1>4
    <3> HIDE DEF s
    <3> QED BY <1>2, <3>1
  <2> HIDE DEF before
  <2> QED BY <2>1, GreatestNumber
<1>7. TrailingPart(s) = SubSeq(s, m + 1, Len(s))
  BY DEF TrailingPart
<1>8. /\ \A k \in m + 1 .. e - d : s[k] \in Printable
      /\ m = 0 \/ s[m] \notin Printable
  <2>1. DOMAIN s = 1 .. e - d
    BY <1>4
  <2> HIDE DEF s, m
  <2>2. \A k \in m + 1 .. e - d : k \in 1 .. e - d /\ ~(k <= m)
    BY <1>6
  <2> QED BY <1>6, <2>1, <2>2
<1> HIDE DEF before, m
<1>9. f \in Nat /\ d <= f /\ f <= e
  BY <1>2, <1>6
<1>10. TrailingPart(s) = Window(file, f, e)
  BY <1>2, <1>6, <1>7 DEF Window
<1>11. SubSeq(s, 1, Len(s) - Len(TrailingPart(s))) = Window(file, d, f)
  <2>1. Len(TrailingPart(s)) = e - f
    BY <1>9, <1>10, WindowIs
  <2>2. Len(s) - Len(TrailingPart(s)) = m
    BY <1>2, <1>4, <1>6, <2>1
  <2> QED BY <1>2, <1>6, <2>2 DEF Window
<1>12. c - Len(state.carry) = d
  BY <1>2, <1>5
<1>13. /\ next.position = c + Len(Window(file, c, e)) /\ next.carry = TrailingPart(s)
       /\ next.out = state.out \o StringsIn(Window(file, d, f), d)
  <2> HIDE DEF s, f
  <2> QED BY <1>2, <1>3, <1>11, <1>12 DEF StringsOfBlock, CarriedRun
<1>14. next.position = e
  <2>1. Len(Window(file, c, e)) = e - c
    BY <1>2, WindowIs
  <2> QED BY <1>13, <2>1
<1>15. \A k \in f + 1 .. e : file[k] \in Printable
  <2> SUFFICES ASSUME NEW k \in f + 1 .. e PROVE file[k] \in Printable
    OBVIOUS
  <2>1. k - d \in m + 1 .. e - d /\ k - d \in 1 .. e - d /\ d + (k - d) = k
    BY <1>2, <1>6
  <2> QED BY <1>4, <1>8, <2>1
<1>16. f = 0 \/ file[f] \notin Printable
  <2>1. CASE m = 0
    BY <1>1, <1>2, <2>1
  <2>2. CASE m # 0
    <3>1. m \in 1 .. e - d
      BY <1>6, <2>2
    <3> QED BY <1>4, <1>8, <2>2, <3>1
  <2> QED BY <2>1, <2>2
<1> HIDE DEF f, s, next
<1>17. IsListing(StringsIn(Window(file, d, f), d), Value, file, d, f, Printable)
  BY <1>2, <1>9, StringsAreListed
<1>18. IsListing(next.out, Value, file, 0, f, Printable)
  BY <1>1, <1>2, <1>9, <1>13, <1>17, ListsFollow
<1>19. f \in 0 .. e
  BY <1>9
<1> QED BY <1>10, <1>13, <1>14, <1>15, <1>16, <1>18, <1>19 DEF IsRead, next

StringStates(Value) == [position : Nat, out : Seq(Int \X Seq(Value)), carry : Seq(Value)]

\* Strings are an offset and a text.
LEMMA StringsAre ==
    ASSUME NEW Value, NEW s \in Seq(Value), NEW base \in Int
    PROVE  StringsIn(s, base) \in Seq(Int \X Seq(Value))
<1> DEFINE q == Those(Runs(s, Printable), IsLong)
           N == Len(q)
           Y == Int \X Seq(Value)
           t == [n \in DOMAIN q |-> <<base + q[n][1] - 1, SubSeq(s, q[n][1], q[n][2])>>]
<1>1. StringsIn(s, base) = t
  BY DEF StringsIn, Those, Each, IsLong
<1>2. AreLongRuns(q, s, Printable)
  BY LongRunsAre
<1> HIDE DEF q
<1>3. N \in Nat /\ q \in [1 .. N -> Nat \X Nat] /\ DOMAIN q = 1 .. N
  BY <1>2 DEF AreLongRuns
<1> HIDE DEF N
<1>4. ASSUME NEW n \in 1 .. N PROVE t[n] \in Y
  <2>1. q[n] \in Nat \X Nat /\ q[n] \in ToSet(q)
    BY <1>3 DEF ToSet
  <2>2. IsRunOf(s, Printable, q[n])
    BY <1>2, <2>1 DEF AreLongRuns
  <2>3. q[n][1] \in Int /\ q[n][2] \in Int /\ 1 <= q[n][1] /\ q[n][2] <= Len(s)
    BY <2>1, <2>2 DEF IsRunOf
  <2>4. SubSeq(s, q[n][1], q[n][2]) \in Seq(Value)
    BY <2>3, PartIs
  <2>5. t[n] = <<base + q[n][1] - 1, SubSeq(s, q[n][1], q[n][2])>>
    BY <1>3
  <2> DEFINE x == base + q[n][1] - 1
             y == SubSeq(s, q[n][1], q[n][2])
  <2>6. x \in Int
    BY <2>3
  <2>7. t[n] = <<x, y>> /\ y \in Seq(Value)
    BY <2>4, <2>5
  <2> HIDE DEF t, x, y
  <2> QED BY <2>6, <2>7
<1>5. t \in [1 .. N -> Y]
  BY <1>3, <1>4
<1> HIDE DEF t, Y
<1>6. t \in Seq(Y)
  BY <1>3, <1>5, TupleIsSeq
<1> QED BY <1>1, <1>6 DEF Y

\* What a block leaves behind is a state of the scan.
LEMMA StringsOfBlockAre ==
    ASSUME NEW Value, NEW state \in StringStates(Value), NEW block \in Seq(Value)
    PROVE  StringsOfBlock(state, block) \in StringStates(Value)
<1> DEFINE current == state.carry \o block
           before == {0} \cup {k \in DOMAIN current : current[k] \notin Printable}
           m == Max(before)
           carry == SubSeq(current, m + 1, Len(current))
           whole == SubSeq(current, 1, Len(current) - Len(carry))
           base == state.position - Len(state.carry)
           out == state.out \o StringsIn(whole, base)
           position == state.position + Len(block)
<1>1. state.position \in Nat /\ state.out \in Seq(Int \X Seq(Value)) /\ state.carry \in Seq(Value)
  BY DEF StringStates
<1>2. current \in Seq(Value)
  BY <1>1
<1>3. m \in 0 .. Len(current)
  <2> HIDE DEF current
  <2>1. before \in SUBSET (0 .. Len(current)) /\ before # {} /\ Len(current) \in Nat
    BY <1>2
  <2> HIDE DEF before
  <2> QED BY <2>1, GreatestNumber
<1>4. StringsOfBlock(state, block) = [position |-> position, out |-> out, carry |-> carry]
  BY DEF StringsOfBlock, CarriedRun, TrailingPart
<1> HIDE DEF current, m
<1>5. carry \in Seq(Value) /\ whole \in Seq(Value)
  <2>1. carry \in Seq(Value)
    BY <1>2, <1>3
  <2> HIDE DEF carry
  <2>2. Len(current) - Len(carry) \in Int /\ Len(current) - Len(carry) <= Len(current)
    BY <1>2, <2>1
  <2>3. whole \in Seq(Value)
    BY <1>2, <2>2, PartIs
  <2> QED BY <2>1, <2>3
<1>6. base \in Int /\ position \in Nat
  BY <1>1
<1> HIDE DEF base, position, whole, carry
<1>7. out \in Seq(Int \X Seq(Value))
  <2> DEFINE Y == Int \X Seq(Value)
  <2>1. StringsIn(whole, base) \in Seq(Y) /\ state.out \in Seq(Y)
    BY <1>1, <1>5, <1>6, StringsAre
  <2> HIDE DEF Y
  <2>2. out \in Seq(Y)
    BY <2>1
  <2> QED BY <2>2 DEF Y
<1> HIDE DEF out
<1> QED BY <1>4, <1>5, <1>6, <1>7 DEF StringStates

StringStart == [position |-> 0, out |-> <<>>, carry |-> <<>>]
StringsAtEnd(file) == FoldLeft(StringsOfBlock, StringStart, Blocks(file))

\* The blocks are read one after the other.
LEMMA StringSteps ==
    ASSUME NEW Value, NEW file \in Seq(Value)
    PROVE  \E h : /\ h[0] = StringStart
                  /\ \A n \in 1 .. Len(Blocks(file)) :
                        h[n] = StringsOfBlock(h[n - 1], Blocks(file)[n])
                  /\ h[Len(Blocks(file))] = StringsAtEnd(file)
<1> DEFINE seq == Blocks(file)
           N == Len(seq)
           X == StringStates(Value)
           E == Seq(Value)
           step == [p \in X \X (1 .. N) |-> StringsOfBlock(p[1], seq[p[2]])]
           next(f, left) == IF left = {} THEN StringStart
                            ELSE StringsOfBlock(f[left \ {Max(left)}], seq[Max(left)])
           isFold(f) == f = [left \in SUBSET DOMAIN seq |-> next(f, left)]
           iter == CHOOSE f : isFold(f)
<1>1. seq \in Seq(E) /\ StringStart \in X
  <2>1. <<>> \in Seq(Value) /\ <<>> \in Seq(Int \X Seq(Value))
    OBVIOUS
  <2>2. StringStart \in X
    BY <2>1 DEF StringStart, StringStates
  <2> QED BY <2>2, BlocksAre
<1>2. \A x \in X, e \in E : StringsOfBlock(x, e) \in X
  BY StringsOfBlockAre
<1>3. StringsAtEnd(file) = iter[DOMAIN seq]
  BY DEF StringsAtEnd, FoldLeft, MapThenFoldSet
<1> HIDE DEF iter, X, E, seq
<1>4. N \in Nat /\ DOMAIN seq = 1 .. N /\ \A n \in 1 .. N : seq[n] \in E
  BY <1>1
<1> HIDE DEF N
<1>5. step \in [X \X (1 .. N) -> X]
  <2>1. \A x \in X, n \in 1 .. N : StringsOfBlock(x, seq[n]) \in X
    BY <1>2, <1>4
  <2> QED BY <2>1
<1>6. PICK f : Folds(f, N, X, StringStart, step)
  <2> HIDE DEF step
  <2> QED BY <1>1, <1>4, <1>5, FoldExists
<1>7. ASSUME NEW left \in SUBSET (1 .. N), left # {}
      PROVE  /\ Max(left) \in 1 .. N /\ left \ {Max(left)} \in SUBSET (1 .. N)
             /\ \A x \in X : step[<<x, Max(left)>>] = StringsOfBlock(x, seq[Max(left)])
  <2>1. left \in SUBSET (0 .. N)
    OBVIOUS
  <2>2. Max(left) \in left
    BY <1>4, <1>7, <2>1, GreatestNumber
  <2> QED BY <2>2
<1>a. \A x \in X, n \in 1 .. N : step[<<x, n>>] = StringsOfBlock(x, seq[n])
  OBVIOUS
<1> HIDE DEF step
<1>8. isFold(f)
  <2>1. f \in [SUBSET (1 .. N) -> X]
    BY <1>6 DEF Folds
  <2>2. ASSUME NEW left \in SUBSET (1 .. N) PROVE f[left] = next(f, left)
    BY <1>6, <1>7 DEF Folds
  <2> HIDE DEF next
  <2> QED BY <1>4, <2>1, <2>2
<1>9. isFold(iter)
  <2> HIDE DEF isFold
  <2> QED BY <1>8 DEF iter
<1>10. \A left \in SUBSET (1 .. N) : iter[left] = next(iter, left)
  <2> HIDE DEF next
  <2> QED BY <1>4, <1>9
<1>11. Recurs(iter, N, X, StringStart, step)
  <2> SUFFICES ASSUME NEW left \in SUBSET (1 .. N)
               PROVE  IF left = {} THEN iter[left] = StringStart
                      ELSE iter[left \ {Max(left)}] \in X =>
                              iter[left] = step[<<iter[left \ {Max(left)}], Max(left)>>]
    BY DEF Recurs
  <2>1. iter[left] = next(iter, left)
    BY <1>10
  <2> QED BY <1>7, <2>1
<1>12. PICK h : Steps(h, N, X, StringStart, step, iter[1 .. N])
  BY <1>1, <1>4, <1>5, <1>11, FoldSteps
<1>13. ASSUME NEW n \in 1 .. N PROVE h[n] = StringsOfBlock(h[n - 1], seq[n])
  <2>1. h[n - 1] \in X /\ h[n] = step[<<h[n - 1], n>>]
    BY <1>4, <1>12 DEF Steps
  <2> QED BY <1>a, <2>1
<1>14. h[0] = StringStart /\ h[N] = StringsAtEnd(file)
  BY <1>3, <1>4, <1>12 DEF Steps
<1> QED BY <1>13, <1>14 DEF N, seq

\* The blocks lose no string, cut none and find none twice.
LEMMA StringsDoNotDepend ==
    ASSUME NEW Value, NEW file \in Seq(Value) PROVE StringsAgree(file)
<1> DEFINE N == Len(Blocks(file))
           L == Len(file)
           end == StringsAtEnd(file)
<1>1. PICK c : AreBounds(c, file)
  BY BlocksFollow
<1>2. PICK h : /\ h[0] = StringStart
               /\ \A n \in 1 .. Len(Blocks(file)) :
                     h[n] = StringsOfBlock(h[n - 1], Blocks(file)[n])
               /\ h[Len(Blocks(file))] = StringsAtEnd(file)
  BY StringSteps
<1>3. N \in Nat /\ L \in Nat
  <2>1. Blocks(file) \in Seq(Seq(Value))
    BY BlocksAre
  <2> QED BY <2>1
<1> DEFINE reached == {n \in 0 .. N : IsRead(h[n], Value, file, c[n])}
<1>4. 0 \in reached
  <2>1. c[0] = 0 /\ h[0] = StringStart
    BY <1>1, <1>2 DEF AreBounds
  <2>2. Window(file, 0, 0) = <<>>
    BY DEF Window
  <2>3. IsListing(<<>>, Value, file, 0, 0, Printable)
    <3>1. /\ 0 \in Nat /\ 0 <= 0 /\ 0 <= L /\ \A k \in 0 + 1 .. 0 : file[k] \in Printable
          /\ ~(0 - 0 >= MinLength)
      BY <1>3, SizesAssumption
    <3>2. <<>> = If(0 - 0 >= MinLength, <<<<0, Window(file, 0, 0)>>>>)
      BY <3>1 DEF If
    <3> QED BY <3>1, <3>2, RestIsListed
  <2>4. \A k \in 0 + 1 .. 0 : file[k] \in Printable
    OBVIOUS
  <2>5. IsRead(StringStart, Value, file, 0)
    BY <2>2, <2>3, <2>4 DEF IsRead, StringStart
  <2> QED BY <1>3, <2>1, <2>5
<1>5. ASSUME NEW n \in 0 .. N - 1, n \in reached PROVE n + 1 \in reached
  <2>1. n + 1 \in 1 .. N /\ n + 1 \in 0 .. N /\ n \in 0 .. N /\ (n + 1) - 1 = n
    BY <1>3
  <2>2. /\ c[n] \in 0 .. L /\ c[n + 1] \in 0 .. L /\ c[n] < c[n + 1]
        /\ Blocks(file)[n + 1] = Window(file, c[n], c[n + 1])
    BY <1>1, <2>1 DEF AreBounds
  <2>3. h[n + 1] = StringsOfBlock(h[n], Window(file, c[n], c[n + 1]))
    BY <1>2, <2>1, <2>2
  <2>4. IsRead(h[n], Value, file, c[n])
    BY <1>5
  <2>5. c[n] \in Nat /\ c[n + 1] \in Nat /\ c[n] <= c[n + 1] /\ c[n + 1] <= Len(file)
    BY <1>3, <2>2
  <2> DEFINE from == c[n]
             upto == c[n + 1]
             state == h[n]
  <2> HIDE DEF reached
  <2>a. /\ from \in Nat /\ upto \in Nat /\ from <= upto /\ upto <= Len(file)
        /\ IsRead(state, Value, file, from)
    BY <2>4, <2>5
  <2> HIDE DEF from, upto, state
  <2>b. IsRead(StringsOfBlock(state, Window(file, from, upto)), Value, file, upto)
    BY <2>a, BlockIsRead
  <2>6. IsRead(h[n + 1], Value, file, c[n + 1])
    BY <2>3, <2>b DEF from, upto, state
  <2> USE DEF reached
  <2> QED BY <2>1, <2>6
<1>6. IsRead(end, Value, file, L)
  <2>1. N \in reached
    <3> HIDE DEF reached, N
    <3>1. \A n \in 0 .. N : n \in reached
      BY <1>3, <1>4, <1>5, Upwards
    <3> QED BY <1>3, <3>1
  <2> QED BY <1>1, <1>2, <2>1 DEF AreBounds
<1> HIDE DEF end
<1>7. PICK d \in 0 .. L : /\ end.carry = Window(file, d, L)
                          /\ \A k \in d + 1 .. L : file[k] \in Printable
                          /\ d = 0 \/ file[d] \notin Printable
                          /\ IsListing(end.out, Value, file, 0, d, Printable)
  BY <1>6 DEF IsRead
<1> DEFINE rest == If(L - d >= MinLength, <<<<d, Window(file, d, L)>>>>)
<1>8. d \in Nat /\ d <= L /\ L <= Len(file)
  BY <1>3
<1>9. IsListing(rest, Value, file, d, L, Printable)
  BY <1>3, <1>7, <1>8, RestIsListed
<1>10. IsListing(end.out \o rest, Value, file, 0, L, Printable)
  <2> HIDE DEF rest, L
  <2> QED BY <1>3, <1>7, <1>8, <1>9, ListsFollow
<1>11. StreamStrings(file) = end.out \o rest
  <2>1. Len(end.carry) = L - d /\ end.position = L
    <3>1. Len(Window(file, d, L)) = L - d
      BY <1>3, <1>8, WindowIs
    <3> QED BY <1>6, <1>7, <3>1 DEF IsRead
  <2>2. end.position - Len(end.carry) = d
    BY <1>3, <1>8, <2>1
  <2>3. StreamStrings(file) = end.out \o If(Len(end.carry) >= MinLength,
                                            <<<<end.position - Len(end.carry), end.carry>>>>)
    BY DEF StreamStrings, end, StringsAtEnd, StringStart
  <2> QED BY <1>7, <2>1, <2>2, <2>3
<1>12. IsListing(StringsIn(file, 0), Value, file, 0, L, Printable)
  <2>1. Window(file, 0, L) = file
    BY <1>3 DEF Window
  <2>2. IsListing(StringsIn(Window(file, 0, L), 0), Value, file, 0, L, Printable)
    BY <1>3, StringsAreListed
  <2> QED BY <2>1, <2>2
<1>13. StreamStrings(file) = StringsIn(file, 0)
  BY <1>10, <1>11, <1>12, ListedOnce
<1> QED BY <1>13 DEF StringsAgree
------------------------------------------------------------------------------
(* Lines.                                                                  *)

IsLineEnd(s, ends, k) ==
    /\ k \in 1 .. Len(s)
    /\ \/ s[k] \in ends \ {"CR"}
       \/ s[k] = "CR" /\ ~(k < Len(s) /\ s[k + 1] = "LF")
       \/ k = Len(s)

IsLineOf(s, ends, l) ==
    /\ 1 <= l[1] /\ l[1] <= l[2] /\ IsLineEnd(s, ends, l[2])
    /\ \A k \in l[1] .. l[2] - 1 : ~IsLineEnd(s, ends, k)
    /\ l[1] = 1 \/ IsLineEnd(s, ends, l[1] - 1)

AreLines(q, s, ends) ==
    /\ q \in Seq(Nat \X Nat) /\ Grows(q)
    /\ \A l \in Nat \X Nat : l \in ToSet(q) <=> IsLineOf(s, ends, l)

StartOf(last, k) == Max({0} \cup {m \in last : m < k}) + 1

FollowsAnEnd(last, k) ==
    /\ StartOf(last, k) \in 1 .. k
    /\ \A m \in StartOf(last, k) .. k - 1 : m \notin last
    /\ StartOf(last, k) = 1 \/ StartOf(last, k) - 1 \in last

\* A line starts after the end before it.
LEMMA StartIs ==
    ASSUME NEW N \in Nat, NEW last \in SUBSET (1 .. N), NEW k \in last
    PROVE  FollowsAnEnd(last, k)
<1> DEFINE S == {0} \cup {m \in last : m < k}
           p == Max(S)
<1>1. S \in SUBSET (0 .. N) /\ S # {} /\ k \in 1 .. N
  <2>1. k \in 1 .. N
    OBVIOUS
  <2>2. S \in SUBSET (0 .. N)
    <3>1. 0 \in 0 .. N /\ 1 .. N \subseteq 0 .. N
      OBVIOUS
    <3>2. {m \in last : m < k} \subseteq 1 .. N
      OBVIOUS
    <3>3. {m \in last : m < k} \subseteq 0 .. N
      BY <3>1, <3>2
    <3> QED BY <3>1, <3>3
  <2>3. 0 \in S
    OBVIOUS
  <2> HIDE DEF S
  <2> QED BY <2>1, <2>2, <2>3
<1>2. p \in S /\ \A m \in S : m <= p
  <2> HIDE DEF S
  <2> QED BY <1>1, GreatestNumber
<1>3. p \in 0 .. k - 1 /\ (p = 0 \/ p \in last)
  BY <1>1, <1>2
<1>4. \A m \in p + 1 .. k - 1 : m \notin last
  <2> SUFFICES ASSUME NEW m \in p + 1 .. k - 1, m \in last PROVE FALSE
    OBVIOUS
  <2>1. m \in S
    BY <1>1, <1>3
  <2>2. m <= p
    BY <1>2, <2>1
  <2> HIDE DEF p, S
  <2> QED BY <1>1, <1>3, <2>2
<1>5. StartOf(last, k) = p + 1
  BY DEF StartOf
<1> HIDE DEF p, S
<1>6. (p + 1) - 1 = p /\ p + 1 \in 1 .. k /\ (p + 1 = 1 <=> p = 0)
  BY <1>1, <1>3
<1> QED BY <1>3, <1>4, <1>5, <1>6 DEF FollowsAnEnd

\* The lines of a sequence.
LEMMA LinesAre ==
    ASSUME NEW Value, NEW s \in Seq(Value), NEW ends PROVE AreLines(Lines(s, ends), s, ends)
<1> DEFINE L == Len(s)
           last == {k \in DOMAIN s : \/ s[k] \in ends \ {"CR"}
                                     \/ s[k] = "CR" /\ ~(k < Len(s) /\ s[k + 1] = "LF")
                                     \/ k = Len(s)}
           at == Ascending(last)
           c == Cardinality(last)
           q == Lines(s, ends)
<1>1. L \in Nat /\ DOMAIN s = 1 .. L
  OBVIOUS
<1>2. q = [n \in DOMAIN at |-> <<StartOf(last, at[n]), at[n]>>]
  BY DEF Lines, Each, StartOf
<1>3. \A k : k \in last <=> IsLineEnd(s, ends, k)
  BY <1>1 DEF IsLineEnd
<1>4. last \in SUBSET (1 .. L) /\ last \in SUBSET Int /\ IsFiniteSet(last)
  <2>1. last \in SUBSET (1 .. L)
    BY <1>1
  <2> HIDE DEF last
  <2>2. last \in SUBSET Int
    BY <1>1, <2>1
  <2>3. IsFiniteSet(1 .. L)
    <3>1. 1 \in Int /\ L \in Int
      BY <1>1
    <3> QED BY <3>1, FS_Interval
  <2>4. IsFiniteSet(last)
    BY <2>1, <2>3, FS_Subset
  <2> QED BY <2>1, <2>2, <2>4
<1> HIDE DEF last
<1>5. /\ c \in Nat /\ at \in [1 .. c -> last]
      /\ \A k \in last : \E n \in 1 .. c : at[n] = k
      /\ \A n, m \in 1 .. c : n < m => at[n] < at[m]
  BY <1>4, SortedNumbers
<1> HIDE DEF at, c, q, L
<1>6. \A k \in last : /\ k \in Nat /\ StartOf(last, k) \in 1 .. k
                      /\ \A m \in StartOf(last, k) .. k - 1 : m \notin last
                      /\ StartOf(last, k) = 1 \/ StartOf(last, k) - 1 \in last
  <2>1. \A k \in last : FollowsAnEnd(last, k)
    BY <1>1, <1>4, StartIs
  <2>2. \A k \in last : k \in Nat
    BY <1>1, <1>4
  <2> QED BY <2>1, <2>2 DEF FollowsAnEnd
<1>7. DOMAIN q = 1 .. c /\ \A n \in 1 .. c : q[n] = <<StartOf(last, at[n]), at[n]>> /\ at[n] \in last
  BY <1>2, <1>5
<1>8. ASSUME NEW n \in 1 .. c PROVE q[n] \in Nat \X Nat
  <2>1. q[n] = <<StartOf(last, at[n]), at[n]>> /\ at[n] \in last
    BY <1>7
  <2>2. StartOf(last, at[n]) \in Nat /\ at[n] \in Nat
    BY <1>6, <2>1
  <2> QED BY <2>1, <2>2
<1>9. q \in Seq(Nat \X Nat)
  <2>1. q \in [1 .. c -> Nat \X Nat]
    BY <1>2, <1>5, <1>8
  <2> QED BY <1>5, <2>1, TupleIsSeq
<1>10. Grows(q)
  <2> SUFFICES ASSUME NEW n \in 1 .. c, NEW m \in 1 .. c, n < m PROVE q[n][1] < q[m][1]
    BY <1>7 DEF Grows
  <2> DEFINE a == at[n]
             b == at[m]
  <2>1. a \in last /\ b \in last /\ a < b /\ a \in Nat /\ b \in Nat
    BY <1>5, <1>6
  <2>2. q[n][1] = StartOf(last, a) /\ q[m][1] = StartOf(last, b)
    BY <1>7
  <2> HIDE DEF a, b
  <2>3. StartOf(last, a) \in 1 .. a /\ StartOf(last, b) \in 1 .. b
    BY <1>6, <2>1
  <2>4. ~(StartOf(last, b) <= a)
    <3> SUFFICES ASSUME StartOf(last, b) <= a PROVE FALSE
      OBVIOUS
    <3>1. a \in StartOf(last, b) .. b - 1
      BY <2>1, <2>3
    <3> QED BY <1>6, <2>1, <3>1
  <2> QED BY <2>1, <2>2, <2>3, <2>4
<1>11. ASSUME NEW a \in Nat, NEW k \in Nat
       PROVE  IsLineOf(s, ends, <<a, k>>) <=> k \in last /\ a = StartOf(last, k)
  <2>1. IsLineOf(s, ends, <<a, k>>) <=>
           /\ 1 <= a /\ a <= k /\ k \in last /\ \A m \in a .. k - 1 : m \notin last
           /\ a = 1 \/ a - 1 \in last
    BY <1>3 DEF IsLineOf
  <2>2. ASSUME k \in last, a = StartOf(last, k) PROVE IsLineOf(s, ends, <<a, k>>)
    <3>1. a \in 1 .. k /\ (\A m \in a .. k - 1 : m \notin last) /\ (a = 1 \/ a - 1 \in last)
      BY <1>6, <2>2
    <3> QED BY <2>1, <2>2, <3>1
  <2>3. ASSUME IsLineOf(s, ends, <<a, k>>) PROVE k \in last /\ a = StartOf(last, k)
    <3> DEFINE b == StartOf(last, k)
    <3>1. /\ 1 <= a /\ a <= k /\ k \in last /\ \A m \in a .. k - 1 : m \notin last
          /\ a = 1 \/ a - 1 \in last
      BY <2>1, <2>3
    <3>2. b \in 1 .. k /\ (\A m \in b .. k - 1 : m \notin last) /\ (b = 1 \/ b - 1 \in last)
      BY <1>6, <3>1
    <3> HIDE DEF b
    <3>3. ASSUME a < b PROVE FALSE
      <4>1. b - 1 \in a .. k - 1 /\ b # 1
        BY <3>1, <3>2, <3>3
      <4> QED BY <3>1, <3>2, <4>1
    <3>4. ASSUME b < a PROVE FALSE
      <4>1. a - 1 \in b .. k - 1 /\ a # 1
        BY <3>1, <3>2, <3>4
      <4> QED BY <3>1, <3>2, <4>1
    <3>5. a = b
      BY <3>1, <3>2, <3>3, <3>4
    <3> QED BY <3>1, <3>5 DEF b
  <2> QED BY <2>2, <2>3
<1>12. ASSUME NEW a \in Nat, NEW k \in Nat
       PROVE  <<a, k>> \in ToSet(q) <=> IsLineOf(s, ends, <<a, k>>)
  <2>1. <<a, k>> \in ToSet(q) <=> \E n \in 1 .. c : <<a, k>> = <<StartOf(last, at[n]), at[n]>>
    BY <1>7 DEF ToSet
  <2>2. <<a, k>> \in ToSet(q) <=> k \in last /\ a = StartOf(last, k)
    BY <1>5, <1>7, <2>1
  <2> QED BY <1>11, <2>2
<1>13. \A l \in Nat \X Nat : l \in ToSet(q) <=> IsLineOf(s, ends, l)
  <2> SUFFICES ASSUME NEW l \in Nat \X Nat PROVE l \in ToSet(q) <=> IsLineOf(s, ends, l)
    OBVIOUS
  <2>1. l = <<l[1], l[2]>> /\ l[1] \in Nat /\ l[2] \in Nat
    OBVIOUS
  <2> QED BY <1>12, <2>1
<1> QED BY <1>9, <1>10, <1>13 DEF AreLines, q

\* There is one sequence of the lines.
LEMMA LinesOnce ==
    ASSUME NEW s, NEW ends, NEW q, NEW r, AreLines(q, s, ends), AreLines(r, s, ends)
    PROVE  q = r
<1>1. q \in Seq(Nat \X Nat) /\ r \in Seq(Nat \X Nat) /\ Grows(q) /\ Grows(r)
  BY DEF AreLines
<1>2. (\A l \in ToSet(q) : l \in Nat \X Nat) /\ (\A l \in ToSet(r) : l \in Nat \X Nat)
  BY <1>1 DEF ToSet
<1>3. ToSet(q) = ToSet(r)
  BY <1>2 DEF AreLines
<1> QED BY <1>1, <1>3, SameInOrder

\* The first numbers are in order.
LEMMA FirstNumbers ==
    ASSUME NEW Value, NEW s \in Seq(Value), NEW m \in 0 .. Len(s)
    PROVE  Picked(s, 1 .. m) = SubSeq(s, 1, m)
<1> DEFINE S == 1 .. m
           at == Ascending(S)
<1>1. m \in Nat /\ Len(s) \in Nat /\ m <= Len(s)
  OBVIOUS
<1>2. IsFiniteSet(S) /\ Cardinality(S) = m
  <2>1. 1 \in Int /\ m \in Int
    BY <1>1
  <2> QED BY <1>1, <2>1, FS_Interval
<1>3. /\ at \in [1 .. m -> S]
      /\ \A n, k \in 1 .. m : n < k => at[n] < at[k]
  <2>1. S \in SUBSET Int
    OBVIOUS
  <2> HIDE DEF S
  <2> QED BY <1>2, <2>1, SortedNumbers
<1>4. \A n \in 1 .. m : at[n] \in 1 .. m
  BY <1>3
<1> HIDE DEF at
<1> DEFINE up == {n \in 0 .. m : n = 0 \/ at[n] >= n}
           down == {n \in 0 .. m : n = m \/ at[m - n] <= m - n}
<1>5. \A n \in 0 .. m : n \in up
  <2>1. 0 \in up
    BY <1>1
  <2>2. ASSUME NEW n \in 0 .. m - 1, n \in up PROVE n + 1 \in up
    <3>1. n + 1 \in 1 .. m /\ n + 1 \in 0 .. m
      BY <1>1
    <3>2. at[n + 1] \in 1 .. m
      BY <1>4, <3>1
    <3>3. CASE n = 0
      BY <3>1, <3>2, <3>3
    <3>4. CASE n # 0
      <4>1. n \in 1 .. m /\ at[n] >= n
        BY <2>2, <3>4
      <4>2. at[n] < at[n + 1] /\ at[n] \in 1 .. m
        BY <1>3, <1>4, <3>1, <4>1
      <4> QED BY <3>1, <3>2, <4>1, <4>2
    <3> QED BY <3>3, <3>4
  <2> HIDE DEF up
  <2> QED BY <1>1, <2>1, <2>2, Upwards
<1>6. \A n \in 0 .. m : n \in down
  <2>1. 0 \in down
    <3>1. 0 \in 0 .. m /\ m - 0 = m
      BY <1>1
    <3>2. m # 0 => m \in 1 .. m
      BY <1>1
    <3> QED BY <1>4, <3>1, <3>2
  <2>2. ASSUME NEW n \in 0 .. m - 1, n \in down PROVE n + 1 \in down
    <3>1. n + 1 \in 0 .. m /\ m - n \in 1 .. m /\ n # m
      BY <1>1
    <3>2. at[m - n] <= m - n
      BY <2>2, <3>1
    <3>3. CASE n + 1 # m
      <4>1. m - (n + 1) \in 1 .. m /\ m - (n + 1) < m - n
        BY <1>1, <3>3
      <4>2. at[m - (n + 1)] < at[m - n] /\ at[m - (n + 1)] \in 1 .. m /\ at[m - n] \in 1 .. m
        BY <1>3, <1>4, <3>1, <4>1
      <4>3. at[m - (n + 1)] <= m - (n + 1)
        BY <1>1, <3>1, <3>2, <4>1, <4>2
      <4> QED BY <3>1, <4>3
    <3> QED BY <3>1, <3>3
  <2> HIDE DEF down
  <2> QED BY <1>1, <2>1, <2>2, Upwards
<1>7. ASSUME NEW n \in 1 .. m PROVE at[n] = n
  <2>1. n \in 0 .. m /\ m - n \in 0 .. m /\ m - (m - n) = n /\ m - n # m /\ n # 0
    BY <1>1
  <2>2. at[n] >= n
    BY <1>5, <2>1
  <2>3. at[n] <= n
    BY <1>6, <2>1
  <2> QED BY <1>4, <2>2, <2>3
<1>8. Picked(s, S) = [n \in 1 .. m |-> s[n]]
  <2>1. Picked(s, S) = [n \in DOMAIN at |-> s[at[n]]]
    BY DEF Picked, Each, at
  <2>2. DOMAIN at = 1 .. m
    BY <1>3
  <2> QED BY <1>7, <2>1, <2>2
<1>9. SubSeq(s, 1, m) = [n \in 1 .. m |-> s[n]]
  BY <1>1
<1> QED BY <1>8, <1>9
------------------------------------------------------------------------------
HoldsEnds(ends) == "CR" \in ends /\ "LF" \in ends

\* The text of line l of s is what comes before its end.
IsTextOf(s, ends, l, b) ==
    /\ b \in l[1] - 1 .. l[2]
    /\ \A k \in l[1] .. b : s[k] \notin ends
    /\ \A k \in b + 1 .. l[2] : s[k] \in ends
    /\ b = Len(s) \/ s[b + 1] \in ends
    /\ LineText(s, l, ends) = SubSeq(s, l[1], b)

\* Within a line only its last symbols are line ends: CR, LF or both.
LEMMA EndsAreLast ==
    ASSUME NEW Value, NEW s \in Seq(Value), NEW ends, HoldsEnds(ends),
           NEW a \in Nat, NEW z \in Nat, IsLineOf(s, ends, <<a, z>>)
    PROVE  /\ 1 <= a /\ a <= z /\ z <= Len(s)
           /\ \A k \in a .. z - 1 : s[k] \in ends => k = z - 1 /\ s[z] \in ends
           /\ z < Len(s) => s[z] \in ends
<1>1. /\ 1 <= a /\ a <= z /\ z <= Len(s) /\ IsLineEnd(s, ends, z)
      /\ \A k \in a .. z - 1 : ~IsLineEnd(s, ends, k)
  BY DEF IsLineOf, IsLineEnd
<1>2. ASSUME NEW k \in a .. z - 1, s[k] \in ends PROVE k = z - 1 /\ s[z] \in ends
  <2>1. k \in 1 .. Len(s) /\ ~IsLineEnd(s, ends, k) /\ k \in Nat /\ k + 1 \in 1 .. Len(s)
    BY <1>1
  <2>2. s[k] = "CR" /\ k < Len(s) /\ s[k + 1] = "LF"
    BY <1>2, <2>1 DEF IsLineEnd
  <2>3. s[k + 1] \in ends \ {"CR"}
    BY <2>2 DEF HoldsEnds
  <2>4. IsLineEnd(s, ends, k + 1)
    BY <2>1, <2>3 DEF IsLineEnd
  <2>5. k + 1 \notin a .. z - 1
    BY <1>1, <2>4
  <2>6. k + 1 = z
    BY <1>1, <2>1, <2>5
  <2> QED BY <2>1, <2>3, <2>6
<1>3. z < Len(s) => s[z] \in ends
  BY <1>1 DEF IsLineEnd, HoldsEnds
<1> QED BY <1>1, <1>2, <1>3

\* Every line has such a text.
LEMMA LineTextIs ==
    ASSUME NEW Value, NEW s \in Seq(Value), NEW ends, HoldsEnds(ends),
           NEW a \in Nat, NEW z \in Nat, IsLineOf(s, ends, <<a, z>>)
    PROVE  \E b : IsTextOf(s, ends, <<a, z>>, b)
<1>1. /\ 1 <= a /\ a <= z /\ z <= Len(s) /\ Len(s) \in Nat
      /\ \A k \in a .. z - 1 : s[k] \in ends => k = z - 1 /\ s[z] \in ends
      /\ z < Len(s) => s[z] \in ends
  BY EndsAreLast
<1>2. \E b \in a - 1 .. z : /\ \A k \in a .. b : s[k] \notin ends
                            /\ \A k \in b + 1 .. z : s[k] \in ends
                            /\ b = Len(s) \/ s[b + 1] \in ends
  <2>1. CASE s[z] \notin ends
    <3>1. z \in a - 1 .. z /\ \A k \in a .. z : s[k] \notin ends
      BY <1>1, <2>1
    <3>2. z = Len(s) /\ \A k \in z + 1 .. z : s[k] \in ends
      BY <1>1, <2>1
    <3> QED BY <3>1, <3>2
  <2>2. CASE s[z] \in ends /\ a < z /\ s[z - 1] \in ends
    <3>1. z - 2 \in a - 1 .. z /\ \A k \in a .. z - 2 : s[k] \notin ends
      BY <1>1, <2>2
    <3>2. (\A k \in (z - 2) + 1 .. z : s[k] \in ends) /\ s[(z - 2) + 1] \in ends
      BY <1>1, <2>2
    <3> QED BY <3>1, <3>2
  <2>3. CASE s[z] \in ends /\ ~(a < z /\ s[z - 1] \in ends)
    <3>1. z - 1 \in a - 1 .. z /\ \A k \in a .. z - 1 : s[k] \notin ends
      BY <1>1, <2>3
    <3>2. (\A k \in (z - 1) + 1 .. z : s[k] \in ends) /\ s[(z - 1) + 1] \in ends
      BY <1>1, <2>3
    <3> QED BY <3>1, <3>2
  <2> QED BY <2>1, <2>2, <2>3
<1>3. PICK b \in a - 1 .. z : /\ \A k \in a .. b : s[k] \notin ends
                              /\ \A k \in b + 1 .. z : s[k] \in ends
                              /\ b = Len(s) \/ s[b + 1] \in ends
  BY <1>2
<1> DEFINE t == SubSeq(s, a, z)
           m == b - a + 1
           P == {n \in DOMAIN t : t[n] \notin ends}
<1>4. t \in Seq(Value) /\ Len(t) = z - a + 1 /\ \A n \in 1 .. z - a + 1 : t[n] = s[a + n - 1]
  BY <1>1
<1>5. m \in 0 .. Len(t) /\ m \in Nat
  BY <1>1, <1>4
<1>6. P = 1 .. m
  <2> HIDE DEF t
  <2>1. \A n \in 1 .. z - a + 1 : n <= m => a + n - 1 \in a .. b
    BY <1>1
  <2>2. \A n \in 1 .. z - a + 1 : ~(n <= m) => a + n - 1 \in b + 1 .. z
    BY <1>1
  <2>3. \A n \in 1 .. z - a + 1 : t[n] \notin ends <=> n <= m
    BY <1>3, <1>4, <2>1, <2>2
  <2>4. DOMAIN t = 1 .. z - a + 1
    BY <1>4
  <2> HIDE DEF m
  <2> QED BY <1>4, <1>5, <2>3, <2>4
<1>7. LineText(s, <<a, z>>, ends) = Picked(t, P)
  BY DEF LineText, Those
<1>8. Picked(t, 1 .. m) = SubSeq(t, 1, m)
  <2> HIDE DEF t, m
  <2> QED BY <1>4, <1>5, FirstNumbers
<1>9. SubSeq(t, 1, m) = SubSeq(s, a, b)
  BY <1>1
<1>10. LineText(s, <<a, z>>, ends) = SubSeq(s, a, b)
  BY <1>6, <1>7, <1>8, <1>9
<1> QED BY <1>3, <1>10 DEF IsTextOf

\* The text of a line that is not empty is a run of symbols that end no line.
LEMMA TextIsRun ==
    ASSUME NEW Value, NEW s \in Seq(Value), NEW ends, HoldsEnds(ends),
           NEW a \in Nat, NEW z \in Nat, IsLineOf(s, ends, <<a, z>>),
           NEW b \in Nat, IsTextOf(s, ends, <<a, z>>, b), a <= b
    PROVE  IsRunOf(s, Value \ ends, <<a, b>>)
<1>1. 1 <= a /\ a <= z /\ z <= Len(s) /\ Len(s) \in Nat
  BY EndsAreLast
<1>2. /\ b <= z /\ \A k \in a .. b : s[k] \notin ends
      /\ b = Len(s) \/ s[b + 1] \in ends
  BY DEF IsTextOf
<1>3. \A k \in a .. b : s[k] \in Value
  BY <1>1, <1>2
<1>4. a = 1 \/ s[a - 1] \in ends
  <2>1. ASSUME a # 1 PROVE s[a - 1] \in ends
    <3>1. IsLineEnd(s, ends, a - 1) /\ a - 1 # Len(s)
      BY <1>1, <2>1 DEF IsLineOf
    <3> QED BY <3>1 DEF IsLineEnd, HoldsEnds
  <2> QED BY <2>1
<1> QED BY <1>1, <1>2, <1>3, <1>4 DEF IsRunOf

\* And each such run is the text of a line.
LEMMA RunIsText ==
    ASSUME NEW Value, NEW s \in Seq(Value), NEW ends, HoldsEnds(ends),
           NEW a \in Nat, NEW e \in Nat, IsRunOf(s, Value \ ends, <<a, e>>)
    PROVE  \E z \in Nat : IsLineOf(s, ends, <<a, z>>) /\ IsTextOf(s, ends, <<a, z>>, e)
<1> DEFINE L == Len(s)
           S == {k \in a .. L : IsLineEnd(s, ends, k)}
<1>1. /\ 1 <= a /\ a <= e /\ e <= L /\ L \in Nat
      /\ \A k \in a .. e : s[k] \in Value \ ends
      /\ a = 1 \/ s[a - 1] \notin Value \ ends
      /\ e = L \/ s[e + 1] \notin Value \ ends
  BY DEF IsRunOf
<1>2. a \in 1 .. L /\ \A k \in 1 .. L : s[k] \in Value
  BY <1>1
<1>3. L \in S
  BY <1>1, <1>2 DEF IsLineEnd
<1> HIDE DEF L
<1>4. PICK z \in S : \A k \in S : z <= k
  <2>1. S \in SUBSET Nat /\ S # {}
    BY <1>1, <1>3
  <2> HIDE DEF S
  <2> QED BY <2>1, LeastNumber
<1>5. z \in Nat /\ a <= z /\ z <= L /\ IsLineEnd(s, ends, z)
  BY <1>1, <1>4
<1>6. \A k \in a .. z - 1 : ~IsLineEnd(s, ends, k)
  <2> SUFFICES ASSUME NEW k \in a .. z - 1, IsLineEnd(s, ends, k) PROVE FALSE
    OBVIOUS
  <2>1. k \in S /\ ~(z <= k)
    BY <1>1, <1>5
  <2> HIDE DEF S
  <2> QED BY <1>4, <2>1
<1> HIDE DEF S
<1>7. a = 1 \/ IsLineEnd(s, ends, a - 1)
  <2>1. ASSUME a # 1 PROVE IsLineEnd(s, ends, a - 1)
    <3>1. a - 1 \in 1 .. L /\ s[a - 1] \in ends /\ (a - 1) + 1 = a
      BY <1>1, <1>2, <2>1
    <3>2. s[a] # "LF"
      BY <1>1 DEF HoldsEnds
    <3> QED BY <3>1, <3>2 DEF IsLineEnd, L
  <2> QED BY <2>1
<1>8. IsLineOf(s, ends, <<a, z>>)
  BY <1>1, <1>5, <1>6, <1>7 DEF IsLineOf
<1>9. PICK b : IsTextOf(s, ends, <<a, z>>, b)
  BY <1>5, <1>8, LineTextIs
<1>10. /\ b \in a - 1 .. z /\ \A k \in a .. b : s[k] \notin ends
       /\ \A k \in b + 1 .. z : s[k] \in ends
       /\ b = L \/ s[b + 1] \in ends
  BY <1>9 DEF IsTextOf, L
<1>11. a <= b
  <2>1. ASSUME b = a - 1 PROVE FALSE
    <3>1. a \in b + 1 .. z
      BY <1>1, <1>5, <2>1
    <3> QED BY <1>1, <1>10, <3>1
  <2> QED BY <1>1, <1>10, <2>1
<1>12. ~(b < e)
  <2> SUFFICES ASSUME b < e PROVE FALSE
    OBVIOUS
  <2>1. b + 1 \in a .. e /\ b # L
    BY <1>1, <1>5, <1>10, <1>11
  <2> QED BY <1>1, <1>10, <2>1
<1>13. ~(e < b)
  <2> SUFFICES ASSUME e < b PROVE FALSE
    OBVIOUS
  <2>1. e + 1 \in a .. b /\ e # L /\ e + 1 \in 1 .. L
    BY <1>1, <1>5, <1>10
  <2> QED BY <1>1, <1>2, <1>10, <2>1
<1>14. b = e
  BY <1>1, <1>5, <1>10, <1>12, <1>13
<1> QED BY <1>5, <1>8, <1>9, <1>14

IsLongLine(s, ends, l) == Len(LineText(s, l, ends)) >= MinLength
RunOfLine(s, ends, l) == <<l[1], l[1] + Len(LineText(s, l, ends)) - 1>>
IsTextOfRun(s, ends, l, r) == LineText(s, l, ends) = SubSeq(s, r[1], r[2])

\* q has the long lines, from the first to the last.
AreLongLines(q, s, ends) ==
    /\ q \in Seq(Nat \X Nat) /\ Grows(q)
    /\ \A l \in Nat \X Nat : l \in ToSet(q) <=> IsLineOf(s, ends, l) /\ IsLongLine(s, ends, l)

LongLines(s, ends) == Those(Lines(s, ends), LAMBDA l : IsLongLine(s, ends, l))

\* The long ones among the lines.
LEMMA LongLinesAre ==
    ASSUME NEW Value, NEW s \in Seq(Value), NEW ends PROVE AreLongLines(LongLines(s, ends), s, ends)
<1> DEFINE lines == Lines(s, ends)
           P == {n \in DOMAIN lines : IsLongLine(s, ends, lines[n])}
           q == LongLines(s, ends)
<1>1. q = Picked(lines, P)
  BY DEF LongLines, Those
<1> HIDE DEF q
<1>2. AreLines(lines, s, ends)
  BY LinesAre
<1> HIDE DEF lines
<1>3. lines \in Seq(Nat \X Nat) /\ Grows(lines)
  BY <1>2 DEF AreLines
<1>4. DOMAIN lines = 1 .. Len(lines) /\ P \in SUBSET (1 .. Len(lines))
  BY <1>3
<1>5. \A n \in P : n \in DOMAIN lines /\ IsLongLine(s, ends, lines[n])
  OBVIOUS
<1>6. \A n \in DOMAIN lines : IsLongLine(s, ends, lines[n]) => n \in P
  OBVIOUS
<1> HIDE DEF P
<1>7. q \in Seq(Nat \X Nat) /\ Grows(q) /\ HasThose(q, lines, P)
  BY <1>1, <1>3, <1>4, PickedGrow
<1>8. \A l : l \in ToSet(lines) <=> \E n \in DOMAIN lines : l = lines[n]
  BY DEF ToSet
<1>9. \A l : l \in ToSet(q) <=> l \in ToSet(lines) /\ IsLongLine(s, ends, l)
  BY <1>5, <1>6, <1>7, <1>8 DEF HasThose
<1>10. \A l \in Nat \X Nat : l \in ToSet(q) <=> IsLineOf(s, ends, l) /\ IsLongLine(s, ends, l)
  BY <1>2, <1>9 DEF AreLines
<1> QED BY <1>7, <1>10 DEF AreLongLines, q

\* The text of a long line, as a run.
LEMMA LongLineIsRun ==
    ASSUME NEW Value, NEW s \in Seq(Value), NEW ends, HoldsEnds(ends),
           NEW l \in Nat \X Nat, IsLineOf(s, ends, l), NEW r, r = RunOfLine(s, ends, l)
    PROVE  /\ IsTextOfRun(s, ends, l, r)
           /\ LineText(s, l, ends) \in Seq(Value)
           /\ IsLongLine(s, ends, l) => /\ r \in Nat \X Nat /\ IsLong(r)
                                        /\ IsRunOf(s, Value \ ends, r)
<1> DEFINE a == l[1]
           z == l[2]
<1>1. a \in Nat /\ z \in Nat /\ l = <<a, z>>
  OBVIOUS
<1> HIDE DEF a, z
<1>2. PICK b : IsTextOf(s, ends, <<a, z>>, b)
  BY <1>1, LineTextIs
<1>3. 1 <= a /\ a <= z /\ z <= Len(s)
  BY <1>1, EndsAreLast
<1>4. b \in a - 1 .. z /\ LineText(s, <<a, z>>, ends) = SubSeq(s, a, b)
  BY <1>2 DEF IsTextOf
<1>5. b \in Nat /\ SubSeq(s, a, b) \in Seq(Value) /\ Len(SubSeq(s, a, b)) = b - a + 1
  BY <1>1, <1>3, <1>4
<1>6. r = <<a, a + (b - a + 1) - 1>>
  <2>1. r = <<l[1], l[1] + Len(LineText(s, l, ends)) - 1>>
    BY DEF RunOfLine
  <2>2. l[1] = a
    BY DEF a
  <2> QED BY <1>1, <1>4, <1>5, <2>1, <2>2
<1>7. r = <<a, b>>
  BY <1>1, <1>5, <1>6
<1>8. LineText(s, l, ends) = SubSeq(s, r[1], r[2])
  <2>1. LineText(s, l, ends) = SubSeq(s, a, b)
    BY <1>1, <1>4
  <2>2. r[1] = a /\ r[2] = b
    BY <1>7
  <2> QED BY <2>1, <2>2
<1>9. ASSUME IsLongLine(s, ends, l)
      PROVE  r \in Nat \X Nat /\ IsLong(r) /\ IsRunOf(s, Value \ ends, r)
  <2>1. b - a + 1 >= MinLength
    BY <1>1, <1>4, <1>5, <1>9 DEF IsLongLine
  <2>2. a <= b
    BY <1>1, <1>5, <2>1, SizesAssumption
  <2>3. IsRunOf(s, Value \ ends, <<a, b>>)
    BY <1>1, <1>2, <1>5, <2>2, TextIsRun
  <2>4. r \in Nat \X Nat
    BY <1>1, <1>5, <1>7
  <2>5. IsLong(r)
    <3>1. r[1] = a /\ r[2] = b
      BY <1>7
    <3> QED BY <2>1, <3>1 DEF IsLong
  <2>6. IsRunOf(s, Value \ ends, r)
    BY <1>7, <2>3
  <2> QED BY <2>4, <2>5, <2>6
<1>10. LineText(s, l, ends) \in Seq(Value)
  <2>1. LineText(s, l, ends) = SubSeq(s, a, b)
    BY <1>1, <1>4
  <2> QED BY <1>5, <2>1
<1> QED BY <1>8, <1>9, <1>10 DEF IsTextOfRun

\* The long lines are the long runs of symbols that end no line.
LEMMA LongLinesAreRuns ==
    ASSUME NEW Value, NEW s \in Seq(Value), NEW ends, HoldsEnds(ends),
           NEW q, AreLongLines(q, s, ends),
           NEW r, r = [n \in DOMAIN q |-> RunOfLine(s, ends, q[n])]
    PROVE  AreLongRuns(r, s, Value \ ends)
<1> DEFINE N == Len(q)
           class == Value \ ends
<1>1. /\ q \in Seq(Nat \X Nat) /\ Grows(q)
      /\ \A l \in Nat \X Nat : l \in ToSet(q) <=> IsLineOf(s, ends, l) /\ IsLongLine(s, ends, l)
  BY DEF AreLongLines
<1>2. N \in Nat /\ DOMAIN q = 1 .. N /\ \A n \in 1 .. N : q[n] \in Nat \X Nat
  BY <1>1
<1> HIDE DEF N, class
<1>3. DOMAIN r = 1 .. N /\ \A n \in 1 .. N : r[n] = RunOfLine(s, ends, q[n])
  BY <1>2
<1>4. ASSUME NEW n \in 1 .. N
      PROVE  /\ IsLineOf(s, ends, q[n]) /\ IsLongLine(s, ends, q[n])
             /\ r[n] \in Nat \X Nat /\ IsLong(r[n]) /\ IsRunOf(s, class, r[n])
             /\ r[n][1] = q[n][1]
  <2> DEFINE l == q[n]
             p == r[n]
  <2>1. l \in ToSet(q)
    BY <1>2 DEF ToSet
  <2>2. l \in Nat \X Nat /\ IsLineOf(s, ends, l) /\ IsLongLine(s, ends, l)
    BY <1>1, <1>2, <2>1
  <2>3. p = RunOfLine(s, ends, l)
    BY <1>3
  <2> HIDE DEF l, p
  <2>4. p \in Nat \X Nat /\ IsLong(p) /\ IsRunOf(s, class, p)
    BY <2>2, <2>3, LongLineIsRun DEF class
  <2>5. p[1] = l[1]
    BY <2>3 DEF RunOfLine
  <2> QED BY <2>2, <2>4, <2>5 DEF l, p
<1>5. r \in Seq(Nat \X Nat)
  <2>1. r \in [1 .. N -> Nat \X Nat]
    BY <1>2, <1>4
  <2> QED BY <1>2, <2>1, TupleIsSeq
<1>6. Grows(r)
  BY <1>1, <1>2, <1>3, <1>4 DEF Grows
<1>7. ASSUME NEW a \in Nat, NEW e \in Nat, IsRunOf(s, class, <<a, e>>), IsLong(<<a, e>>)
      PROVE  <<a, e>> \in ToSet(r)
  <2>1. PICK z \in Nat : IsLineOf(s, ends, <<a, z>>) /\ IsTextOf(s, ends, <<a, z>>, e)
    BY <1>7, RunIsText DEF class
  <2>2. 1 <= a /\ a <= e /\ e <= Len(s) /\ e - a + 1 >= MinLength
    BY <1>7 DEF IsRunOf, IsLong
  <2>3. Len(LineText(s, <<a, z>>, ends)) = e - a + 1
    <3>1. LineText(s, <<a, z>>, ends) = SubSeq(s, a, e)
      BY <2>1 DEF IsTextOf
    <3>2. Len(SubSeq(s, a, e)) = e - a + 1
      BY <2>2
    <3> QED BY <3>1, <3>2
  <2>4. IsLongLine(s, ends, <<a, z>>)
    BY <2>2, <2>3 DEF IsLongLine
  <2>5. <<a, z>> \in ToSet(q)
    BY <1>1, <2>1, <2>4
  <2>6. PICK n \in 1 .. N : q[n] = <<a, z>>
    BY <1>2, <2>5 DEF ToSet
  <2>7. r[n] = RunOfLine(s, ends, <<a, z>>)
    BY <1>3, <2>6
  <2> DEFINE w == Len(LineText(s, <<a, z>>, ends))
  <2>8. w = e - a + 1 /\ r[n] = <<a, a + w - 1>>
    BY <2>3, <2>7 DEF RunOfLine
  <2> HIDE DEF w
  <2>9. a + w - 1 = e
    BY <2>8
  <2>10. r[n] = <<a, e>>
    BY <2>8, <2>9
  <2> QED BY <1>3, <2>10 DEF ToSet
<1>8. ASSUME NEW p \in Nat \X Nat, p \in ToSet(r) PROVE IsRunOf(s, class, p) /\ IsLong(p)
  <2>1. PICK n \in 1 .. N : r[n] = p
    BY <1>3, <1>8 DEF ToSet
  <2> QED BY <1>4, <2>1
<1>9. \A p \in Nat \X Nat : p \in ToSet(r) <=> IsRunOf(s, class, p) /\ IsLong(p)
  <2> SUFFICES ASSUME NEW p \in Nat \X Nat
               PROVE  p \in ToSet(r) <=> IsRunOf(s, class, p) /\ IsLong(p)
    OBVIOUS
  <2> DEFINE a == p[1]
             e == p[2]
  <2>1. p = <<a, e>> /\ a \in Nat /\ e \in Nat
    OBVIOUS
  <2> HIDE DEF a, e
  <2> QED BY <1>7, <1>8, <2>1
<1> QED BY <1>5, <1>6, <1>9 DEF AreLongRuns, class

LongTexts(s) == Those(TextLines(s), LAMBDA line : Len(line) >= MinLength)
TextsIn(g) == [n \in DOMAIN g |-> g[n][2]]

\* The lines that are long enough, as texts.
LEMMA LongTextsAre ==
    ASSUME NEW Value, NEW s \in Seq(Value), NEW q, q = LongLines(s, TextEnds)
    PROVE  LongTexts(s) = [n \in DOMAIN q |-> LineText(s, q[n], TextEnds)]
<1> DEFINE lines == Lines(s, TextEnds)
           P == {n \in DOMAIN lines : IsLongLine(s, TextEnds, lines[n])}
           R == {n \in DOMAIN TextLines(s) : Len(TextLines(s)[n]) >= MinLength}
           at == Ascending(P)
<1>1. TextLines(s) = [n \in DOMAIN lines |-> LineText(s, lines[n], TextEnds)]
  BY DEF TextLines, Each
<1>2. DOMAIN TextLines(s) = DOMAIN lines
  BY <1>1
<1>3. \A n \in DOMAIN lines : TextLines(s)[n] = LineText(s, lines[n], TextEnds)
  BY <1>1
<1> HIDE DEF lines
<1>4. R = P
  BY <1>2, <1>3 DEF IsLongLine
<1>5. LongTexts(s) = [n \in DOMAIN Ascending(R) |-> TextLines(s)[Ascending(R)[n]]]
  BY DEF LongTexts, Those, Picked, Each
<1>6. q = [n \in DOMAIN at |-> lines[at[n]]]
  BY DEF LongLines, Those, Picked, Each, lines
<1>7. \A n \in DOMAIN at : at[n] \in DOMAIN lines
  <2>1. AreLines(lines, s, TextEnds)
    BY LinesAre DEF lines
  <2>2. lines \in Seq(Nat \X Nat)
    BY <2>1 DEF AreLines
  <2>3. Len(lines) \in Nat /\ DOMAIN lines = 1 .. Len(lines)
    BY <2>2
  <2>4. P \in SUBSET Int /\ P \in SUBSET (1 .. Len(lines)) /\ IsFiniteSet(P)
    <3>1. P \in SUBSET (1 .. Len(lines))
      BY <2>3
    <3>2. IsFiniteSet(1 .. Len(lines))
      <4>1. 1 \in Int /\ Len(lines) \in Int
        BY <2>3
      <4> QED BY <4>1, FS_Interval
    <3> HIDE DEF P
    <3>3. IsFiniteSet(P)
      BY <3>1, <3>2, FS_Subset
    <3> QED BY <2>3, <3>1, <3>3
  <2> HIDE DEF P
  <2>5. at \in [1 .. Cardinality(P) -> P]
    BY <2>4, SortedNumbers
  <2> HIDE DEF at
  <2> QED BY <2>3, <2>4, <2>5
<1> HIDE DEF at, P, R
<1>8. LongTexts(s) = [n \in DOMAIN at |-> LineText(s, lines[at[n]], TextEnds)]
  <2>1. LongTexts(s) = [n \in DOMAIN at |-> TextLines(s)[at[n]]]
    BY <1>4, <1>5 DEF at
  <2> QED BY <1>3, <1>7, <2>1
<1> QED BY <1>6, <1>8

AreTextsOf(out, Value, file, i, j) ==
    \E g : IsListing(g, Value, file, i, j, Value \ TextEnds) /\ out = TextsIn(g)

\* The lines of a part of a file that are long enough are its long runs.
LEMMA TextsAreListed ==
    ASSUME NEW Value, NEW file \in Seq(Value), NEW i \in Nat, NEW j \in Nat, i <= j, j <= Len(file)
    PROVE  AreTextsOf(LongTexts(Window(file, i, j)), Value, file, i, j)
<1> DEFINE s == Window(file, i, j)
           q == LongLines(s, TextEnds)
           r == [n \in DOMAIN q |-> RunOfLine(s, TextEnds, q[n])]
           g == TextsOf(r, s, i)
<1>1. s \in Seq(Value) /\ HoldsEnds(TextEnds)
  BY WindowIs DEF HoldsEnds, TextEnds
<1>2. LongTexts(s) = [n \in DOMAIN q |-> LineText(s, q[n], TextEnds)]
  <2> HIDE DEF s, q
  <2> QED BY <1>1, LongTextsAre DEF q
<1>3. AreLongLines(q, s, TextEnds)
  <2> HIDE DEF s
  <2> QED BY <1>1, LongLinesAre
<1> HIDE DEF q
<1>4. AreLongRuns(r, s, Value \ TextEnds)
  <2> HIDE DEF s
  <2> QED BY <1>1, <1>3, LongLinesAreRuns
<1>5. DOMAIN r = DOMAIN q /\ \A n \in DOMAIN q : r[n] = RunOfLine(s, TextEnds, q[n])
  OBVIOUS
<1> HIDE DEF r
<1>6. IsListing(g, Value, file, i, j, Value \ TextEnds)
  BY <1>4, RunsAreListed
<1>7. g = [n \in DOMAIN q |-> <<i + r[n][1] - 1, SubSeq(s, r[n][1], r[n][2])>>]
  BY <1>5 DEF TextsOf
<1> HIDE DEF g, s
<1>8. ASSUME NEW n \in DOMAIN q PROVE g[n][2] = LineText(s, q[n], TextEnds)
  <2> DEFINE l == q[n]
             p == r[n]
  <2>1. l \in Nat \X Nat /\ IsLineOf(s, TextEnds, l)
    <3>1. q \in Seq(Nat \X Nat) /\ l \in ToSet(q)
      BY <1>3 DEF AreLongLines, ToSet
    <3>2. l \in Nat \X Nat
      BY <3>1
    <3> QED BY <1>3, <3>1, <3>2 DEF AreLongLines
  <2>2. p = RunOfLine(s, TextEnds, l)
    BY <1>5
  <2>3. g[n][2] = SubSeq(s, p[1], p[2])
    BY <1>7
  <2> HIDE DEF l, p
  <2>4. IsTextOfRun(s, TextEnds, l, p)
    BY <1>1, <2>1, <2>2, LongLineIsRun
  <2> QED BY <2>3, <2>4 DEF l, IsTextOfRun
<1>9. TextsIn(g) = [n \in DOMAIN q |-> LineText(s, q[n], TextEnds)]
  BY <1>7, <1>8 DEF TextsIn
<1> QED BY <1>2, <1>6, <1>9 DEF AreTextsOf, s
------------------------------------------------------------------------------
(* Lines of text.                                                          *)

\* <<a, Len(s)>> is the last line of s, which does not end with a line end.
IsLastLine(s, ends, a) ==
    /\ a \in 1 .. Len(s)
    /\ a = 1 \/ IsLineEnd(s, ends, a - 1)
    /\ \A k \in a .. Len(s) - 1 : ~IsLineEnd(s, ends, k)

\* There is a last line.
LEMMA LastLineIs ==
    ASSUME NEW Value, NEW s \in Seq(Value), NEW ends, s # <<>> PROVE \E a : IsLastLine(s, ends, a)
<1> DEFINE L == Len(s)
           S == {0} \cup {k \in 1 .. L - 1 : IsLineEnd(s, ends, k)}
           m == Max(S)
<1>1. L \in Nat /\ L >= 1
  OBVIOUS
<1> HIDE DEF L
<1>2. S \in SUBSET (0 .. L - 1) /\ S # {} /\ L - 1 \in Nat
  <2>1. 0 \in 0 .. L - 1 /\ 1 .. L - 1 \subseteq 0 .. L - 1 /\ L - 1 \in Nat
    BY <1>1
  <2> QED BY <2>1
<1>3. m \in S /\ \A k \in S : k <= m
  <2> HIDE DEF S
  <2> QED BY <1>2, GreatestNumber
<1>4. \A k \in 1 .. L - 1 : IsLineEnd(s, ends, k) => k <= m
  BY <1>3
<1>5. m \in 0 .. L - 1 /\ (m = 0 \/ IsLineEnd(s, ends, m))
  BY <1>1, <1>3
<1> HIDE DEF m, S
<1>6. m + 1 \in 1 .. L /\ (m + 1) - 1 = m /\ (m + 1 = 1 \/ IsLineEnd(s, ends, m))
  BY <1>1, <1>5
<1>7. \A k \in m + 1 .. L - 1 : k \in 1 .. L - 1 /\ ~(k <= m)
  BY <1>1, <1>5
<1>8. IsLastLine(s, ends, m + 1)
  BY <1>4, <1>6, <1>7 DEF IsLastLine, L
<1> QED BY <1>8

\* The last line is a line, and each other line ends before it.
LEMMA LinesBeforeLast ==
    ASSUME NEW Value, NEW s \in Seq(Value), NEW ends, NEW a, IsLastLine(s, ends, a)
    PROVE  /\ IsLineOf(s, ends, <<a, Len(s)>>)
           /\ \A l \in Nat \X Nat : IsLineOf(s, ends, l) => l = <<a, Len(s)>> \/ l[2] <= a - 1
<1> DEFINE L == Len(s)
<1>1. /\ L \in Nat /\ a \in 1 .. L /\ (a = 1 \/ IsLineEnd(s, ends, a - 1))
      /\ \A k \in a .. L - 1 : ~IsLineEnd(s, ends, k)
  BY DEF IsLastLine
<1>2. IsLineEnd(s, ends, L)
  BY <1>1 DEF IsLineEnd
<1>3. \A k : IsLineEnd(s, ends, k) => k \in 1 .. L
  BY DEF IsLineEnd
<1> HIDE DEF L
<1>4. IsLineOf(s, ends, <<a, L>>)
  BY <1>1, <1>2 DEF IsLineOf
<1>5. ASSUME NEW b \in Nat, NEW z \in Nat, IsLineOf(s, ends, <<b, z>>), ~(z <= a - 1)
      PROVE  b = a /\ z = L
  <2>1. /\ 1 <= b /\ b <= z /\ IsLineEnd(s, ends, z)
        /\ \A k \in b .. z - 1 : ~IsLineEnd(s, ends, k)
        /\ b = 1 \/ IsLineEnd(s, ends, b - 1)
    BY <1>5 DEF IsLineOf
  <2>2. z = L
    <3>1. z \in 1 .. L /\ z \notin a .. L - 1
      BY <1>1, <1>3, <2>1
    <3> QED BY <1>1, <1>5, <3>1
  <2>3. ~(a < b)
    <3> SUFFICES ASSUME a < b PROVE FALSE
      OBVIOUS
    <3>1. b - 1 \in a .. L - 1 /\ b # 1
      BY <1>1, <2>1, <2>2
    <3> QED BY <1>1, <2>1, <3>1
  <2>4. ~(b < a)
    <3> SUFFICES ASSUME b < a PROVE FALSE
      OBVIOUS
    <3>1. a - 1 \in b .. z - 1 /\ a # 1
      BY <1>1, <2>1, <2>2
    <3> QED BY <1>1, <2>1, <3>1
  <2> QED BY <1>1, <2>2, <2>3, <2>4
<1>6. ASSUME NEW l \in Nat \X Nat, IsLineOf(s, ends, l) PROVE l = <<a, L>> \/ l[2] <= a - 1
  <2>1. l = <<l[1], l[2]>> /\ l[1] \in Nat /\ l[2] \in Nat
    OBVIOUS
  <2> QED BY <1>5, <1>6, <2>1
<1> QED BY <1>4, <1>6 DEF L

\* The lines of what comes before the last line are the other lines.
LEMMA LinesOfFront ==
    ASSUME NEW Value, NEW s \in Seq(Value), NEW ends, NEW a, IsLastLine(s, ends, a),
           NEW l \in Nat \X Nat
    PROVE  IsLineOf(SubSeq(s, 1, a - 1), ends, l) <=> IsLineOf(s, ends, l) /\ l[2] <= a - 1
<1> DEFINE L == Len(s)
           t == SubSeq(s, 1, a - 1)
<1>1. L \in Nat /\ a \in 1 .. L /\ (a = 1 \/ IsLineEnd(s, ends, a - 1))
  BY DEF IsLastLine
<1>2. t \in Seq(Value) /\ Len(t) = a - 1 /\ \A k \in 1 .. a - 1 : t[k] = s[k]
  BY <1>1
<1> HIDE DEF t
<1>3. ASSUME NEW k \in 1 .. a - 1 PROVE IsLineEnd(t, ends, k) <=> IsLineEnd(s, ends, k)
  <2>1. k \in 1 .. Len(t) /\ k \in 1 .. Len(s) /\ t[k] = s[k]
    BY <1>1, <1>2
  <2>2. CASE k = a - 1
    <3>1. IsLineEnd(t, ends, k)
      BY <1>2, <2>1, <2>2 DEF IsLineEnd
    <3>2. IsLineEnd(s, ends, k)
      BY <1>1, <2>1, <2>2
    <3> QED BY <3>1, <3>2
  <2>3. CASE k # a - 1
    <3>1. k < Len(t) /\ k < Len(s) /\ t[k + 1] = s[k + 1]
      BY <1>1, <1>2, <2>1, <2>3
    <3> QED BY <2>1, <3>1 DEF IsLineEnd
  <2> QED BY <2>2, <2>3
<1>4. \A k : IsLineEnd(t, ends, k) => k \in 1 .. a - 1
  BY <1>2 DEF IsLineEnd
<1>5. \A k : IsLineEnd(s, ends, k) => k \in 1 .. L
  BY DEF IsLineEnd
<1> HIDE DEF L
<1>6. l[1] \in Nat /\ l[2] \in Nat
  OBVIOUS
<1>7. ASSUME IsLineOf(t, ends, l) PROVE IsLineOf(s, ends, l) /\ l[2] <= a - 1
  <2>1. /\ 1 <= l[1] /\ l[1] <= l[2] /\ IsLineEnd(t, ends, l[2]) /\ l[2] \in 1 .. a - 1
        /\ \A k \in l[1] .. l[2] - 1 : ~IsLineEnd(t, ends, k)
        /\ l[1] = 1 \/ IsLineEnd(t, ends, l[1] - 1)
    BY <1>4, <1>7 DEF IsLineOf
  <2>2. \A k \in l[1] .. l[2] - 1 : k \in 1 .. a - 1
    BY <1>1, <1>6, <2>1
  <2>3. l[1] # 1 => l[1] - 1 \in 1 .. a - 1
    BY <1>1, <1>6, <2>1
  <2> QED BY <1>3, <2>1, <2>2, <2>3 DEF IsLineOf
<1>8. ASSUME IsLineOf(s, ends, l), l[2] <= a - 1 PROVE IsLineOf(t, ends, l)
  <2>1. /\ 1 <= l[1] /\ l[1] <= l[2] /\ IsLineEnd(s, ends, l[2]) /\ l[2] \in 1 .. a - 1
        /\ \A k \in l[1] .. l[2] - 1 : ~IsLineEnd(s, ends, k)
        /\ l[1] = 1 \/ IsLineEnd(s, ends, l[1] - 1)
    BY <1>1, <1>6, <1>8 DEF IsLineOf
  <2>2. \A k \in l[1] .. l[2] - 1 : k \in 1 .. a - 1
    BY <1>1, <1>6, <2>1
  <2>3. l[1] # 1 => l[1] - 1 \in 1 .. a - 1
    BY <1>1, <1>6, <2>1
  <2> QED BY <1>3, <2>1, <2>2, <2>3 DEF IsLineOf
<1> QED BY <1>7, <1>8 DEF t

\* So they are all lines but the last.
LEMMA FrontOfLines ==
    ASSUME NEW Value, NEW s \in Seq(Value), NEW ends, NEW a, IsLastLine(s, ends, a)
    PROVE  /\ Lines(s, ends) \in Seq(Nat \X Nat) /\ Lines(s, ends) # <<>>
           /\ Last(Lines(s, ends)) = <<a, Len(s)>>
           /\ Front(Lines(s, ends)) = Lines(SubSeq(s, 1, a - 1), ends)
<1> DEFINE q == Lines(s, ends)
           N == Len(q)
           L == Len(s)
           t == SubSeq(s, 1, a - 1)
           r == SubSeq(q, 1, N - 1)
<1>1. AreLines(q, s, ends) /\ t \in Seq(Value) /\ L \in Nat /\ a \in 1 .. L
  BY LinesAre DEF IsLastLine
<1>2. /\ IsLineOf(s, ends, <<a, L>>)
      /\ \A l \in Nat \X Nat : IsLineOf(s, ends, l) => l = <<a, L>> \/ l[2] <= a - 1
  BY LinesBeforeLast
<1>3. \A l \in Nat \X Nat : IsLineOf(t, ends, l) <=> IsLineOf(s, ends, l) /\ l[2] <= a - 1
  BY LinesOfFront
<1>4. AreLines(Lines(t, ends), t, ends)
  <2> HIDE DEF t
  <2> QED BY <1>1, LinesAre
<1> HIDE DEF q, L, t
<1>5. /\ q \in Seq(Nat \X Nat) /\ Grows(q)
      /\ \A l \in Nat \X Nat : l \in ToSet(q) <=> IsLineOf(s, ends, l)
  BY <1>1 DEF AreLines
<1>6. N \in Nat /\ DOMAIN q = 1 .. N /\ \A n \in 1 .. N : q[n] \in Nat \X Nat /\ q[n] \in ToSet(q)
  <2>1. N \in Nat /\ DOMAIN q = 1 .. N /\ \A n \in 1 .. N : q[n] \in Nat \X Nat
    BY <1>5
  <2> HIDE DEF N
  <2> QED BY <2>1 DEF ToSet
<1>7. r \in Seq(Nat \X Nat) /\ (N >= 1 => DOMAIN r = 1 .. N - 1) /\ \A n \in 1 .. N - 1 : r[n] = q[n]
  BY <1>5
<1>a. \A n, k \in 1 .. N : n < k => q[n][1] < q[k][1]
  BY <1>5, <1>6 DEF Grows
<1>b. ASSUME NEW n \in 1 .. N
      PROVE  /\ q[n][1] \in Nat /\ q[n][2] \in Nat /\ q[n][1] <= q[n][2]
             /\ q[n] = <<a, L>> \/ q[n][2] <= a - 1
  <2> DEFINE l == q[n]
  <2>1. l \in Nat \X Nat /\ l \in ToSet(q)
    BY <1>6
  <2> HIDE DEF l
  <2>2. IsLineOf(s, ends, l)
    BY <1>5, <2>1
  <2>3. l[1] \in Nat /\ l[2] \in Nat /\ l[1] <= l[2]
    BY <2>1, <2>2 DEF IsLineOf
  <2>4. l = <<a, L>> \/ l[2] <= a - 1
    BY <1>2, <2>1, <2>2
  <2> QED BY <2>3, <2>4 DEF l
<1> HIDE DEF N, r
<1>8. PICK m \in 1 .. N : q[m] = <<a, L>>
  <2>1. <<a, L>> \in Nat \X Nat
    BY <1>1
  <2>2. <<a, L>> \in ToSet(q)
    BY <1>2, <1>5, <2>1
  <2> QED BY <1>6, <2>2 DEF ToSet
<1>9. ASSUME NEW n \in 1 .. N, n # m PROVE n < m /\ q[n][2] <= a - 1
  <2> DEFINE b == q[n][1]
             z == q[n][2]
  <2>1. b \in Nat /\ z \in Nat /\ b <= z /\ q[m][1] = a /\ (q[n] = <<a, L>> => b = a)
    BY <1>8, <1>b
  <2>2. n < m => b < a
    BY <1>a, <2>1
  <2>3. m < n => a < b
    BY <1>a, <2>1
  <2>4. q[n] = <<a, L>> \/ z <= a - 1
    BY <1>b
  <2> HIDE DEF b, z
  <2>5. n < m \/ m < n
    BY <1>6, <1>9
  <2>6. z <= a - 1
    BY <1>1, <2>1, <2>2, <2>3, <2>4, <2>5
  <2>7. n < m
    BY <1>1, <2>1, <2>3, <2>5, <2>6
  <2> QED BY <2>6, <2>7 DEF z
<1>10. m = N
  <2>1. N \in 1 .. N /\ m <= N
    BY <1>6, <1>8
  <2>2. N # m => N < m
    BY <1>9, <2>1
  <2> QED BY <1>6, <2>1, <2>2
<1>c. DOMAIN r = 1 .. N - 1
  BY <1>6, <1>7, <1>8
<1>11. Grows(r)
  <2>1. DOMAIN r = 1 .. N - 1
    BY <1>c
  <2>2. ASSUME NEW n \in 1 .. N - 1, NEW k \in 1 .. N - 1, n < k PROVE r[n][1] < r[k][1]
    <3>1. n \in 1 .. N /\ k \in 1 .. N
      BY <1>6
    <3>2. r[n] = q[n] /\ r[k] = q[k]
      BY <1>7
    <3> QED BY <1>a, <2>2, <3>1, <3>2
  <2> QED BY <2>1, <2>2 DEF Grows
<1>12. ASSUME NEW l \in Nat \X Nat PROVE l \in ToSet(r) <=> IsLineOf(t, ends, l)
  <2>1. ASSUME l \in ToSet(r) PROVE IsLineOf(t, ends, l)
    <3>1. PICK n \in 1 .. N - 1 : l = q[n]
      <4>1. \E n \in 1 .. N - 1 : l = r[n]
        BY <1>c, <2>1 DEF ToSet
      <4> QED BY <1>7, <4>1
    <3>2. n \in 1 .. N /\ n # m
      <4>1. N \in Nat /\ m = N
        BY <1>6, <1>10
      <4> QED BY <4>1
    <3>3. l \in ToSet(q) /\ l[2] <= a - 1
      BY <1>6, <1>9, <3>1, <3>2
    <3>4. IsLineOf(s, ends, l)
      BY <1>5, <3>3
    <3> QED BY <1>3, <3>3, <3>4
  <2>2. ASSUME IsLineOf(t, ends, l) PROVE l \in ToSet(r)
    <3>1. l \in ToSet(q) /\ l[2] <= a - 1
      BY <1>3, <1>5, <2>2
    <3>2. PICK n \in 1 .. N : l = q[n]
      BY <1>6, <3>1 DEF ToSet
    <3>3. n # m
      <4>1. n = m => l[2] = L
        BY <1>8, <3>2
      <4>2. a \in Nat /\ L \in Nat /\ a <= L
        BY <1>1
      <4> QED BY <3>1, <4>1, <4>2
    <3>4. n \in 1 .. N - 1
      BY <1>6, <1>10, <3>3
    <3>5. DOMAIN r = 1 .. N - 1 /\ r[n] = l
      BY <1>7, <1>c, <3>2, <3>4
    <3> QED BY <3>4, <3>5 DEF ToSet
  <2> QED BY <2>1, <2>2
<1>13. AreLines(r, t, ends)
  BY <1>7, <1>11, <1>12 DEF AreLines
<1>14. r = Lines(t, ends)
  BY <1>4, <1>13, LinesOnce
<1>15. q # <<>> /\ Last(q) = <<a, L>> /\ Front(q) = r
  BY <1>6, <1>8, <1>10 DEF Last, Front, N, r
<1> QED BY <1>5, <1>14, <1>15 DEF q, L, t

Without(text, ends) == Those(text, LAMBDA symbol : symbol \notin ends)

\* The text of a line depends on the line alone.
LEMMA LineTextOfFront ==
    ASSUME NEW Value, NEW s \in Seq(Value), NEW ends, NEW m \in 0 .. Len(s),
           NEW l \in Nat \X Nat, 1 <= l[1], l[2] <= m
    PROVE  LineText(SubSeq(s, 1, m), l, ends) = LineText(s, l, ends)
<1> DEFINE a == l[1]
           z == l[2]
           x == SubSeq(SubSeq(s, 1, m), a, z)
           y == SubSeq(s, a, z)
<1>1. a \in Nat /\ z \in Nat
  OBVIOUS
<1>2. x = y
  <2> HIDE DEF a, z
  <2>1. 1 <= a /\ z <= m /\ m <= Len(s) /\ m \in Nat
    BY DEF a, z
  <2> QED BY <1>1, <2>1
<1>3. LineText(SubSeq(s, 1, m), l, ends) = Without(x, ends) /\ LineText(s, l, ends) = Without(y, ends)
  BY DEF LineText, Without
<1> HIDE DEF x, y
<1> QED BY <1>2, <1>3

\* The texts of the lines are sequences of symbols.
LEMMA TextLinesAre ==
    ASSUME NEW Value, NEW s \in Seq(Value), NEW q, q = Lines(s, TextEnds)
    PROVE  /\ TextLines(s) \in Seq(Seq(Value)) /\ q \in Seq(Nat \X Nat)
           /\ Len(TextLines(s)) = Len(q)
           /\ \A n \in 1 .. Len(q) : /\ TextLines(s)[n] = LineText(s, q[n], TextEnds)
                                     /\ IsLineOf(s, TextEnds, q[n])
<1> DEFINE T == TextLines(s)
           N == Len(q)
<1>1. AreLines(q, s, TextEnds)
  BY LinesAre
<1>2. /\ q \in Seq(Nat \X Nat)
      /\ \A l \in Nat \X Nat : l \in ToSet(q) <=> IsLineOf(s, TextEnds, l)
  BY <1>1 DEF AreLines
<1>3. N \in Nat /\ DOMAIN q = 1 .. N /\ \A n \in 1 .. N : q[n] \in Nat \X Nat
  BY <1>2
<1>4. T = [n \in 1 .. N |-> LineText(s, q[n], TextEnds)]
  BY <1>3 DEF TextLines, Each
<1> HIDE DEF T, N
<1>5. ASSUME NEW n \in 1 .. N
      PROVE  IsLineOf(s, TextEnds, q[n]) /\ LineText(s, q[n], TextEnds) \in Seq(Value)
  <2> DEFINE l == q[n]
  <2>1. l \in Nat \X Nat /\ l \in ToSet(q)
    BY <1>3 DEF ToSet
  <2> HIDE DEF l
  <2>2. IsLineOf(s, TextEnds, l)
    BY <1>2, <2>1
  <2>3. HoldsEnds(TextEnds)
    BY DEF HoldsEnds, TextEnds
  <2>4. LineText(s, l, TextEnds) \in Seq(Value)
    BY <2>1, <2>2, <2>3, LongLineIsRun
  <2> QED BY <2>2, <2>4 DEF l
<1>6. T \in [1 .. N -> Seq(Value)]
  BY <1>4, <1>5
<1>7. T \in Seq(Seq(Value)) /\ Len(T) = N
  BY <1>3, <1>6, TupleIsSeq
<1>8. \A n \in 1 .. N : T[n] = LineText(s, q[n], TextEnds)
  BY <1>4
<1> QED BY <1>2, <1>5, <1>7, <1>8 DEF T, N

\* s goes on after its last line end, or it has none: what follows is the last text.
IsOpenLine(s, a) ==
    /\ a \in 1 .. Len(s)
    /\ a = 1 \/ s[a - 1] \in TextEnds
    /\ \A k \in a .. Len(s) : s[k] \notin TextEnds
    /\ Front(TextLines(s)) = TextLines(SubSeq(s, 1, a - 1))
    /\ Last(TextLines(s)) = SubSeq(s, a, Len(s))

\* The texts but the last one are those of what comes before the last line.
LEMMA FrontOfTexts ==
    ASSUME NEW Value, NEW s \in Seq(Value), s # <<>>, s[Len(s)] \notin TextEnds
    PROVE  \E a : IsOpenLine(s, a)
<1> DEFINE L == Len(s)
           q == Lines(s, TextEnds)
           N == Len(q)
           T == TextLines(s)
<1>1. L \in Nat /\ L >= 1 /\ HoldsEnds(TextEnds)
  BY DEF HoldsEnds, TextEnds
<1>2. PICK a : IsLastLine(s, TextEnds, a)
  BY LastLineIs
<1> DEFINE t == SubSeq(s, 1, a - 1)
           r == Lines(t, TextEnds)
           R == TextLines(t)
<1>3. /\ q \in Seq(Nat \X Nat) /\ q # <<>> /\ Last(q) = <<a, L>> /\ Front(q) = r
  BY <1>2, FrontOfLines
<1>4. a \in 1 .. L /\ (a = 1 \/ IsLineEnd(s, TextEnds, a - 1)) /\ t \in Seq(Value)
  BY <1>2 DEF IsLastLine
<1>5. a = 1 \/ s[a - 1] \in TextEnds
  BY <1>1, <1>4 DEF IsLineEnd, HoldsEnds
<1>6. IsLineOf(s, TextEnds, <<a, L>>)
  BY <1>2, LinesBeforeLast
<1>7. PICK b : IsTextOf(s, TextEnds, <<a, L>>, b)
  BY <1>1, <1>4, <1>6, LineTextIs
<1>8. /\ b \in a - 1 .. L /\ \A k \in a .. b : s[k] \notin TextEnds
      /\ \A k \in b + 1 .. L : s[k] \in TextEnds
      /\ LineText(s, <<a, L>>, TextEnds) = SubSeq(s, a, b)
  BY <1>7 DEF IsTextOf
<1> HIDE DEF L
<1>9. b = L
  <2>1. b # L => L \in b + 1 .. L
    BY <1>1, <1>4, <1>8
  <2> QED BY <1>8, <2>1 DEF L
<1>10. /\ T \in Seq(Seq(Value)) /\ Len(T) = N
       /\ \A n \in 1 .. N : T[n] = LineText(s, q[n], TextEnds) /\ IsLineOf(s, TextEnds, q[n])
  BY TextLinesAre
<1>11. /\ R \in Seq(Seq(Value)) /\ r \in Seq(Nat \X Nat) /\ Len(R) = Len(r)
       /\ \A n \in 1 .. Len(r) : R[n] = LineText(t, r[n], TextEnds) /\ IsLineOf(t, TextEnds, r[n])
  <2> HIDE DEF t
  <2> QED BY <1>4, TextLinesAre
<1> HIDE DEF q, T, R, r
<1>12. N \in Nat /\ N >= 1 /\ Len(r) = N - 1 /\ (\A n \in 1 .. N - 1 : r[n] = q[n]) /\ q[N] = <<a, L>>
  BY <1>3 DEF Front, Last
<1> HIDE DEF N
<1>13. ASSUME NEW n \in 1 .. N - 1 PROVE R[n] = T[n]
  <2> DEFINE l == r[n]
  <2>1. n \in 1 .. N /\ l = q[n] /\ n \in 1 .. Len(r)
    BY <1>12
  <2>2. l \in Nat \X Nat /\ IsLineOf(t, TextEnds, l)
    BY <1>11, <2>1
  <2>3. R[n] = LineText(t, l, TextEnds) /\ T[n] = LineText(s, l, TextEnds)
    BY <1>10, <1>11, <2>1
  <2> HIDE DEF l
  <2>4. 1 <= l[1] /\ l[2] <= a - 1
    <3>1. Len(t) = a - 1
      BY <1>1, <1>4 DEF L
    <3> HIDE DEF t
    <3> QED BY <2>2, <3>1 DEF IsLineOf, IsLineEnd
  <2>5. a - 1 \in 0 .. Len(s)
    BY <1>1, <1>4 DEF L
  <2>6. LineText(t, l, TextEnds) = LineText(s, l, TextEnds)
    BY <2>2, <2>4, <2>5, LineTextOfFront
  <2> QED BY <2>3, <2>6
<1>14. Front(T) = R
  <2>1. Front(T) = [n \in 1 .. N - 1 |-> T[n]]
    <3> DEFINE Y == Seq(Value)
    <3>1. Front(T) = SubSeq(T, 1, N - 1)
      BY <1>10 DEF Front
    <3>2. T \in Seq(Y) /\ Len(T) = N /\ N - 1 \in Nat /\ N - 1 <= N
      BY <1>10, <1>12
    <3> HIDE DEF Y
    <3>3. SubSeq(T, 1, N - 1) = [n \in 1 .. N - 1 |-> T[n]]
      BY <3>2
    <3> QED BY <3>1, <3>3
  <2>2. R = [n \in 1 .. N - 1 |-> R[n]]
    BY <1>11, <1>12
  <2> QED BY <1>13, <2>1, <2>2
<1>15. Last(T) = SubSeq(s, a, L)
  <2>1. T[N] = LineText(s, <<a, L>>, TextEnds)
    <3>1. N \in 1 .. N
      BY <1>12
    <3>2. T[N] = LineText(s, q[N], TextEnds)
      BY <1>10, <3>1
    <3>3. q[N] = <<a, L>>
      BY <1>12
    <3> QED BY <3>2, <3>3
  <2> QED BY <1>8, <1>9, <1>10, <2>1 DEF Last
<1>16. IsOpenLine(s, a)
  BY <1>4, <1>5, <1>8, <1>9, <1>14, <1>15 DEF IsOpenLine, L, T, R
<1> QED BY <1>16

\* The lines up to d are out, the rest up to c is carried.
IsTextRead(state, Value, file, c) ==
    \E d \in 0 .. c : /\ state.carry = Window(file, d, c)
                      /\ \A k \in d + 1 .. c : file[k] \notin TextEnds
                      /\ d = 0 \/ file[d] \in TextEnds
                      /\ AreTextsOf(state.out, Value, file, 0, d)

\* The texts of two parts that follow one another.
LEMMA TextsFollow ==
    ASSUME NEW Value, NEW file \in Seq(Value), NEW d \in Nat, NEW e \in Nat, d <= e,
           d = 0 \/ file[d] \in TextEnds, NEW out, NEW more,
           AreTextsOf(out, Value, file, 0, d), AreTextsOf(more, Value, file, d, e)
    PROVE  AreTextsOf(out \o more, Value, file, 0, e)
<1> DEFINE class == Value \ TextEnds
<1>1. PICK g : IsListing(g, Value, file, 0, d, class) /\ out = TextsIn(g)
  BY DEF AreTextsOf
<1>2. PICK h : IsListing(h, Value, file, d, e, class) /\ more = TextsIn(h)
  BY DEF AreTextsOf
<1>3. d = 0 \/ file[d] \notin class
  OBVIOUS
<1> HIDE DEF class
<1>4. IsListing(g \o h, Value, file, 0, e, class)
  BY <1>1, <1>2, <1>3, ListsFollow
<1> DEFINE Y == Nat \X Seq(Value)
           N == Len(g)
           M == Len(h)
<1>5. g \in Seq(Y) /\ h \in Seq(Y)
  BY <1>1, <1>2 DEF IsListing
<1>6. \A y \in Y : y[2] \in Seq(Value)
  OBVIOUS
<1> HIDE DEF Y
<1>7. N \in Nat /\ M \in Nat /\ DOMAIN g = 1 .. N /\ DOMAIN h = 1 .. M
  BY <1>5
<1>8. out = [n \in 1 .. N |-> g[n][2]] /\ more = [n \in 1 .. M |-> h[n][2]]
  BY <1>1, <1>2, <1>7 DEF TextsIn
<1>9. out \in Seq(Seq(Value)) /\ Len(out) = N /\ more \in Seq(Seq(Value)) /\ Len(more) = M
  <2> DEFINE Z == Seq(Value)
  <2>1. (\A n \in 1 .. N : g[n][2] \in Z) /\ (\A n \in 1 .. M : h[n][2] \in Z)
    BY <1>5, <1>6
  <2> HIDE DEF Z, N, M
  <2>2. out \in [1 .. N -> Z] /\ more \in [1 .. M -> Z]
    BY <1>8, <2>1
  <2>3. out \in Seq(Z) /\ Len(out) = N
    BY <1>7, <2>2, TupleIsSeq
  <2>4. more \in Seq(Z) /\ Len(more) = M
    BY <1>7, <2>2, TupleIsSeq
  <2> QED BY <2>3, <2>4 DEF Z
<1>10. /\ DOMAIN (g \o h) = 1 .. N + M
       /\ \A n \in 1 .. N + M : (g \o h)[n] = IF n <= N THEN g[n] ELSE h[n - N]
  BY <1>5
<1>11. out \o more = [n \in 1 .. N + M |-> IF n <= N THEN out[n] ELSE more[n - N]]
  <2> DEFINE Z == Seq(Value)
  <2>1. out \in Seq(Z) /\ more \in Seq(Z)
    BY <1>9
  <2> HIDE DEF Z
  <2>2. Len(out) = N /\ Len(more) = M
    BY <1>9
  <2> HIDE DEF N, M
  <2> DEFINE w == out \o more
  <2>3. w \in Seq(Z) /\ Len(w) = N + M
    <3>1. w \in Seq(Z) /\ Len(w) = Len(out) + Len(more)
      BY <2>1
    <3> HIDE DEF w
    <3> QED BY <2>2, <3>1
  <2>4. (\A n \in 1 .. N : w[n] = out[n]) /\ (\A n \in N + 1 .. N + M : w[n] = more[n - N])
    BY <1>7, <2>1, <2>2
  <2> HIDE DEF w
  <2>5. w = [n \in 1 .. N + M |-> w[n]]
    BY <2>3
  <2>6. \A n \in 1 .. N + M : w[n] = IF n <= N THEN out[n] ELSE more[n - N]
    BY <1>7, <2>4
  <2>7. w = [n \in 1 .. N + M |-> IF n <= N THEN out[n] ELSE more[n - N]]
    BY <2>5, <2>6
  <2> QED BY <2>7 DEF w
<1>12. TextsIn(g \o h) = [n \in 1 .. N + M |-> (g \o h)[n][2]]
  BY <1>10 DEF TextsIn
<1> HIDE DEF N, M
<1>13. ASSUME NEW n \in 1 .. N + M
       PROVE  (g \o h)[n][2] = IF n <= N THEN out[n] ELSE more[n - N]
  <2>1. CASE n <= N
    <3>1. n \in 1 .. N
      BY <1>7, <2>1
    <3> QED BY <1>8, <1>10, <2>1, <3>1
  <2>2. CASE ~(n <= N)
    <3>1. n - N \in 1 .. M
      BY <1>7, <2>2
    <3> QED BY <1>8, <1>10, <2>2, <3>1
  <2> QED BY <2>1, <2>2
<1>14. TextsIn(g \o h) = out \o more
  BY <1>11, <1>12, <1>13
<1> QED BY <1>4, <1>14 DEF AreTextsOf, class

\* What is there of a text that no line end follows.
LEMMA RestOfText ==
    ASSUME NEW Value, NEW file \in Seq(Value), NEW d \in Nat, NEW e \in Nat, d <= e, e <= Len(file),
           \A k \in d + 1 .. e : file[k] \notin TextEnds, NEW more,
           more = If(e - d >= MinLength, <<Window(file, d, e)>>)
    PROVE  AreTextsOf(more, Value, file, d, e)
<1> DEFINE class == Value \ TextEnds
           h == If(e - d >= MinLength, <<<<d, Window(file, d, e)>>>>)
<1>1. \A k \in d + 1 .. e : file[k] \in class
  <2>1. \A k \in d + 1 .. e : k \in 1 .. Len(file)
    OBVIOUS
  <2> QED BY <2>1
<1>2. IsListing(h, Value, file, d, e, class)
  <2> HIDE DEF class
  <2> QED BY <1>1, RestIsListed
<1>3. more = TextsIn(h)
  <2>1. CASE e - d >= MinLength
    <3>1. h = <<<<d, Window(file, d, e)>>>> /\ more = <<Window(file, d, e)>>
      BY <2>1 DEF If
    <3> DEFINE x == <<d, Window(file, d, e)>>
    <3>2. h = <<x>> /\ more = <<x[2]>>
      BY <3>1
    <3> HIDE DEF x, h
    <3>3. DOMAIN h = 1 .. 1 /\ \A n \in 1 .. 1 : h[n][2] = x[2]
      BY <3>2
    <3>4. more = [n \in 1 .. 1 |-> x[2]]
      BY <3>2
    <3>5. TextsIn(h) = [n \in 1 .. 1 |-> x[2]]
      BY <3>3 DEF TextsIn
    <3> QED BY <3>4, <3>5 DEF h
  <2>2. CASE ~(e - d >= MinLength)
    <3>1. h = <<>> /\ more = <<>>
      BY <2>2 DEF If
    <3> QED BY <3>1 DEF TextsIn
  <2> QED BY <2>1, <2>2
<1> QED BY <1>2, <1>3 DEF AreTextsOf

HasNoOtherEnds(file) == \A k \in DOMAIN file : file[k] # "v"

\* What a block leaves behind, if the file has no line boundary that is neither CR nor LF.
LEMMA TextOfBlockIsRead ==
    ASSUME NEW Value, NEW file \in Seq(Value), HasNoOtherEnds(file),
           NEW c \in Nat, NEW e \in Nat, c < e, e <= Len(file),
           NEW state, IsTextRead(state, Value, file, c)
    PROVE  IsTextRead(TextOfBlock(state, Window(file, c, e)), Value, file, e)
<1>1. PICK d \in 0 .. c : /\ state.carry = Window(file, d, c)
                          /\ \A k \in d + 1 .. c : file[k] \notin TextEnds
                          /\ d = 0 \/ file[d] \in TextEnds
                          /\ AreTextsOf(state.out, Value, file, 0, d)
  BY DEF IsTextRead
<1> DEFINE s == state.carry \o Window(file, c, e)
           out == state.out
           next == TextOfBlock(state, Window(file, c, e))
<1>2. d \in Nat /\ d <= c /\ d <= e /\ d < e
  OBVIOUS
<1>3. s = Window(file, d, e)
  BY <1>1, <1>2, WindowsJoin
<1>4. s \in Seq(Value) /\ Len(s) = e - d /\ \A k \in 1 .. e - d : s[k] = file[d + k]
  <2> HIDE DEF s
  <2> QED BY <1>2, <1>3, WindowIs
<1>5. next = IF EndsLine(s)
             THEN [out |-> out \o LongTexts(s), carry |-> <<>>]
             ELSE [out |-> out \o Those(Front(TextLines(s)), LAMBDA line : Len(line) >= MinLength),
                   carry |-> Last(TextLines(s))]
  BY DEF TextOfBlock, LongTexts
<1> HIDE DEF s, out, next
<1>6. Len(s) = e - d /\ e - d \in 1 .. e - d /\ s # <<>> /\ s[Len(s)] = file[e] /\ e \in DOMAIN file
  <2>1. d + (e - d) = e /\ e - d \in 1 .. e - d
    BY <1>2
  <2>2. s # <<>>
    BY <1>2, <1>4
  <2> QED BY <1>2, <1>4, <2>1, <2>2
<1>7. CASE EndsLine(s)
  <2>1. file[e] \in TextEnds
    BY <1>6, <1>7 DEF EndsLine, TextEnds
  <2>2. next.out = out \o LongTexts(s) /\ next.carry = <<>>
    BY <1>5, <1>7
  <2>3. AreTextsOf(LongTexts(s), Value, file, d, e)
    BY <1>2, <1>3, TextsAreListed
  <2>4. AreTextsOf(out \o LongTexts(s), Value, file, 0, e)
    BY <1>1, <1>2, <2>3, TextsFollow DEF out
  <2>5. Window(file, e, e) = <<>> /\ e \in 0 .. e /\ \A k \in e + 1 .. e : file[k] \notin TextEnds
    BY <1>2 DEF Window
  <2> QED BY <2>1, <2>2, <2>4, <2>5 DEF IsTextRead, next
<1>8. CASE ~EndsLine(s)
  <2>1. s[Len(s)] \notin TextEnds
    BY <1>6, <1>8 DEF EndsLine, TextEnds, HasNoOtherEnds
  <2>2. PICK a : IsOpenLine(s, a)
    BY <1>4, <1>6, <2>1, FrontOfTexts
  <2> DEFINE f == d + a - 1
             t == SubSeq(s, 1, a - 1)
  <2>3. /\ a \in 1 .. e - d /\ (a = 1 \/ s[a - 1] \in TextEnds)
        /\ \A k \in a .. e - d : s[k] \notin TextEnds
        /\ Front(TextLines(s)) = TextLines(t) /\ Last(TextLines(s)) = SubSeq(s, a, e - d)
    BY <1>6, <2>2 DEF IsOpenLine
  <2>4. f \in Nat /\ f \in d .. e - 1 /\ f \in 0 .. e
    BY <1>2, <2>3
  <2>5. t = Window(file, d, f)
    BY <1>2, <1>3, <2>3 DEF Window
  <2>6. SubSeq(s, a, e - d) = Window(file, f, e)
    BY <1>2, <1>3, <2>3 DEF Window
  <2>7. \A k \in f + 1 .. e : file[k] \notin TextEnds
    <3> SUFFICES ASSUME NEW k \in f + 1 .. e PROVE file[k] \notin TextEnds
      OBVIOUS
    <3>1. k - d \in a .. e - d /\ k - d \in 1 .. e - d /\ d + (k - d) = k
      BY <1>2, <2>3
    <3>2. s[k - d] = file[k]
      BY <1>4, <3>1
    <3> QED BY <2>3, <3>1, <3>2
  <2>8. f = 0 \/ file[f] \in TextEnds
    <3>1. CASE a = 1
      BY <1>1, <1>2, <3>1
    <3>2. CASE a # 1
      <4>1. a - 1 \in 1 .. e - d /\ d + (a - 1) = f
        BY <1>2, <2>3, <3>2
      <4>2. s[a - 1] = file[f]
        BY <1>4, <4>1
      <4> QED BY <2>3, <3>2, <4>2
    <3> QED BY <3>1, <3>2
  <2>9. next.out = out \o LongTexts(t) /\ next.carry = Window(file, f, e)
    <3> HIDE DEF t, f
    <3>1. LongTexts(t) = Those(Front(TextLines(s)), LAMBDA line : Len(line) >= MinLength)
      BY <2>3 DEF LongTexts
    <3> QED BY <1>5, <1>8, <2>3, <2>6, <3>1
  <2> HIDE DEF t, f
  <2>10. AreTextsOf(LongTexts(t), Value, file, d, f)
    <3>1. f <= Len(file) /\ d <= f
      BY <1>2, <2>4
    <3> QED BY <1>2, <2>4, <2>5, <3>1, TextsAreListed
  <2>11. AreTextsOf(out \o LongTexts(t), Value, file, 0, f)
    <3>1. d <= f
      BY <1>2, <2>4
    <3> QED BY <1>1, <1>2, <2>4, <2>10, <3>1, TextsFollow DEF out
  <2> QED BY <2>4, <2>7, <2>8, <2>9, <2>11 DEF IsTextRead, next
<1> QED BY <1>7, <1>8

TextStates(Value) == [out : Seq(Seq(Value)), carry : Seq(Value)]

\* What a block leaves behind is a state of the scan.
LEMMA TextOfBlockAre ==
    ASSUME NEW Value, NEW state \in TextStates(Value), NEW block \in Seq(Value), block # <<>>
    PROVE  TextOfBlock(state, block) \in TextStates(Value)
<1> DEFINE s == state.carry \o block
           T == TextLines(s)
           N == Len(T)
           Y == Seq(Value)
           Long(line) == Len(line) >= MinLength
           Kept(lines) == Those(lines, Long)
<1>1. state.out \in Seq(Y) /\ state.carry \in Seq(Value)
  BY DEF TextStates
<1>2. s \in Seq(Value) /\ s # <<>>
  BY <1>1
<1> HIDE DEF s
<1>3. T \in Seq(Y) /\ N \in Nat /\ N >= 1
  <2>1. T \in Seq(Y) /\ N = Len(Lines(s, TextEnds)) /\ Lines(s, TextEnds) \in Seq(Nat \X Nat)
    BY <1>2, TextLinesAre
  <2>2. PICK a : IsLastLine(s, TextEnds, a)
    BY <1>2, LastLineIs
  <2>3. Lines(s, TextEnds) # <<>>
    BY <1>2, <2>2, FrontOfLines
  <2> QED BY <2>1, <2>3
<1>4. TextOfBlock(state, block)
         = IF EndsLine(s) THEN [out |-> state.out \o Kept(T), carry |-> <<>>]
           ELSE [out |-> state.out \o Kept(Front(T)), carry |-> Last(T)]
  BY DEF TextOfBlock, s
<1> HIDE DEF T
<1>5. Front(T) \in Seq(Y) /\ Last(T) \in Y
  <2> HIDE DEF Y
  <2> QED BY <1>3 DEF Front, Last
<1>6. ASSUME NEW lines \in Seq(Y) PROVE Kept(lines) \in Seq(Y)
  <2> DEFINE P == {n \in DOMAIN lines : Long(lines[n])}
  <2>1. Kept(lines) = Picked(lines, P)
    BY DEF Those
  <2>2. P \in SUBSET (1 .. Len(lines))
    OBVIOUS
  <2> HIDE DEF P, Y
  <2> QED BY <2>1, <2>2, PickedAre
<1>7. Kept(T) \in Seq(Y) /\ Kept(Front(T)) \in Seq(Y)
  <2> HIDE DEF Kept, Y
  <2> QED BY <1>3, <1>5, <1>6
<1>8. <<>> \in Seq(Value)
  OBVIOUS
<1> HIDE DEF Kept
<1>9. state.out \o Kept(T) \in Seq(Y) /\ state.out \o Kept(Front(T)) \in Seq(Y)
  <2> HIDE DEF Y
  <2> QED BY <1>1, <1>7
<1> DEFINE x == state.out \o Kept(T)
           y == state.out \o Kept(Front(T))
           z == Last(T)
<1>10. x \in Seq(Y) /\ y \in Seq(Y) /\ z \in Y
  BY <1>5, <1>9
<1>11. TextOfBlock(state, block) = IF EndsLine(s) THEN [out |-> x, carry |-> <<>>]
                                   ELSE [out |-> y, carry |-> z]
  BY <1>4
<1> HIDE DEF x, y, z
<1> QED BY <1>8, <1>10, <1>11 DEF TextStates

TextStart == [out |-> <<>>, carry |-> <<>>]
TextAtEnd(file) == FoldLeft(TextOfBlock, TextStart, Blocks(file))

\* The blocks are read one after the other.
LEMMA TextSteps ==
    ASSUME NEW Value, NEW file \in Seq(Value), \A n \in 1 .. Len(Blocks(file)) : Blocks(file)[n] # <<>>
    PROVE  \E h : /\ h[0] = TextStart
                  /\ \A n \in 1 .. Len(Blocks(file)) :
                        h[n] = TextOfBlock(h[n - 1], Blocks(file)[n])
                  /\ h[Len(Blocks(file))] = TextAtEnd(file)
<1> DEFINE seq == Blocks(file)
           N == Len(seq)
           X == TextStates(Value)
           E == Seq(Value)
           step == [p \in X \X (1 .. N) |-> TextOfBlock(p[1], seq[p[2]])]
           next(f, left) == IF left = {} THEN TextStart
                            ELSE TextOfBlock(f[left \ {Max(left)}], seq[Max(left)])
           isFold(f) == f = [left \in SUBSET DOMAIN seq |-> next(f, left)]
           iter == CHOOSE f : isFold(f)
<1>1. seq \in Seq(E) /\ TextStart \in X
  <2>1. <<>> \in Seq(Value) /\ <<>> \in Seq(Seq(Value))
    OBVIOUS
  <2>2. TextStart \in X
    BY <2>1 DEF TextStart, TextStates
  <2> QED BY <2>2, BlocksAre
<1>2. \A x \in X, e \in E : e # <<>> => TextOfBlock(x, e) \in X
  BY TextOfBlockAre
<1>3. TextAtEnd(file) = iter[DOMAIN seq]
  BY DEF TextAtEnd, FoldLeft, MapThenFoldSet
<1>b. \A n \in 1 .. N : seq[n] # <<>>
  OBVIOUS
<1> HIDE DEF iter, X, E, seq
<1>4. N \in Nat /\ DOMAIN seq = 1 .. N /\ \A n \in 1 .. N : seq[n] \in E
  BY <1>1
<1> HIDE DEF N
<1>5. step \in [X \X (1 .. N) -> X]
  <2>1. \A x \in X, n \in 1 .. N : TextOfBlock(x, seq[n]) \in X
    BY <1>2, <1>4, <1>b
  <2> QED BY <2>1
<1>6. PICK f : Folds(f, N, X, TextStart, step)
  <2> HIDE DEF step
  <2> QED BY <1>1, <1>4, <1>5, FoldExists
<1>7. ASSUME NEW left \in SUBSET (1 .. N), left # {}
      PROVE  /\ Max(left) \in 1 .. N /\ left \ {Max(left)} \in SUBSET (1 .. N)
             /\ \A x \in X : step[<<x, Max(left)>>] = TextOfBlock(x, seq[Max(left)])
  <2>1. left \in SUBSET (0 .. N)
    OBVIOUS
  <2>2. Max(left) \in left
    BY <1>4, <1>7, <2>1, GreatestNumber
  <2> QED BY <2>2
<1>a. \A x \in X, n \in 1 .. N : step[<<x, n>>] = TextOfBlock(x, seq[n])
  OBVIOUS
<1> HIDE DEF step
<1>8. isFold(f)
  <2>1. f \in [SUBSET (1 .. N) -> X]
    BY <1>6 DEF Folds
  <2>2. ASSUME NEW left \in SUBSET (1 .. N) PROVE f[left] = next(f, left)
    BY <1>6, <1>7 DEF Folds
  <2> HIDE DEF next
  <2> QED BY <1>4, <2>1, <2>2
<1>9. isFold(iter)
  <2> HIDE DEF isFold
  <2> QED BY <1>8 DEF iter
<1>10. \A left \in SUBSET (1 .. N) : iter[left] = next(iter, left)
  <2> HIDE DEF next
  <2> QED BY <1>4, <1>9
<1>11. Recurs(iter, N, X, TextStart, step)
  <2> SUFFICES ASSUME NEW left \in SUBSET (1 .. N)
               PROVE  IF left = {} THEN iter[left] = TextStart
                      ELSE iter[left \ {Max(left)}] \in X =>
                              iter[left] = step[<<iter[left \ {Max(left)}], Max(left)>>]
    BY DEF Recurs
  <2>1. iter[left] = next(iter, left)
    BY <1>10
  <2> QED BY <1>7, <2>1
<1>12. PICK h : Steps(h, N, X, TextStart, step, iter[1 .. N])
  BY <1>1, <1>4, <1>5, <1>11, FoldSteps
<1>13. ASSUME NEW n \in 1 .. N PROVE h[n] = TextOfBlock(h[n - 1], seq[n])
  <2>1. h[n - 1] \in X /\ h[n] = step[<<h[n - 1], n>>]
    BY <1>4, <1>12 DEF Steps
  <2> QED BY <1>a, <2>1
<1>14. h[0] = TextStart /\ h[N] = TextAtEnd(file)
  BY <1>3, <1>4, <1>12 DEF Steps
<1> QED BY <1>13, <1>14 DEF N, seq

\* The blocks lose no line of text, cut none and find none twice.
LEMMA TextDoesNotDepend ==
    ASSUME NEW Value, NEW file \in Seq(Value) PROVE TextAgrees(file)
<1> SUFFICES ASSUME "v" \notin ToSet(file) PROVE StreamText(file) = WholeText(file)
  BY DEF TextAgrees
<1> DEFINE N == Len(Blocks(file))
           L == Len(file)
           end == TextAtEnd(file)
<1>0. HasNoOtherEnds(file)
  BY DEF HasNoOtherEnds, ToSet
<1>1. PICK c : AreBounds(c, file)
  BY BlocksFollow
<1>3. N \in Nat /\ L \in Nat
  <2>1. Blocks(file) \in Seq(Seq(Value))
    BY BlocksAre
  <2> QED BY <2>1
<1>a. ASSUME NEW n \in 0 .. N - 1
      PROVE  /\ n + 1 \in 1 .. N /\ n + 1 \in 0 .. N /\ n \in 0 .. N /\ (n + 1) - 1 = n
             /\ c[n] \in Nat /\ c[n + 1] \in Nat /\ c[n] < c[n + 1] /\ c[n + 1] <= L
             /\ Blocks(file)[n + 1] = Window(file, c[n], c[n + 1])
  <2>1. n + 1 \in 1 .. N /\ n + 1 \in 0 .. N /\ n \in 0 .. N /\ (n + 1) - 1 = n
    BY <1>3
  <2>2. /\ c[n] \in 0 .. L /\ c[n + 1] \in 0 .. L /\ c[n] < c[n + 1]
        /\ Blocks(file)[n + 1] = Window(file, c[n], c[n + 1])
    BY <1>1, <2>1 DEF AreBounds
  <2> QED BY <1>3, <2>1, <2>2
<1>b. \A n \in 1 .. Len(Blocks(file)) : Blocks(file)[n] # <<>>
  <2> SUFFICES ASSUME NEW n \in 1 .. N PROVE Blocks(file)[n] # <<>>
    OBVIOUS
  <2> DEFINE from == c[n - 1]
             upto == c[(n - 1) + 1]
  <2>1. n - 1 \in 0 .. N - 1 /\ (n - 1) + 1 = n
    BY <1>3
  <2>2. from \in Nat /\ upto \in Nat /\ from < upto /\ upto <= L
    BY <1>a, <2>1
  <2>3. Blocks(file)[n] = Window(file, from, upto)
    BY <1>a, <2>1
  <2> HIDE DEF from, upto
  <2>4. Len(Window(file, from, upto)) = upto - from
    BY <1>3, <2>2, WindowIs
  <2>5. Len(Window(file, from, upto)) # 0
    BY <2>2, <2>4
  <2> QED BY <2>3, <2>5
<1>2. PICK h : /\ h[0] = TextStart
               /\ \A n \in 1 .. Len(Blocks(file)) :
                     h[n] = TextOfBlock(h[n - 1], Blocks(file)[n])
               /\ h[Len(Blocks(file))] = TextAtEnd(file)
  BY <1>b, TextSteps
<1> DEFINE reached == {n \in 0 .. N : IsTextRead(h[n], Value, file, c[n])}
<1>4. 0 \in reached
  <2>1. c[0] = 0 /\ h[0] = TextStart
    BY <1>1, <1>2 DEF AreBounds
  <2>2. Window(file, 0, 0) = <<>> /\ \A k \in 0 + 1 .. 0 : file[k] \notin TextEnds
    BY DEF Window
  <2>3. AreTextsOf(<<>>, Value, file, 0, 0)
    <3>1. /\ 0 \in Nat /\ 0 <= 0 /\ 0 <= L /\ \A k \in 0 + 1 .. 0 : file[k] \notin TextEnds
          /\ ~(0 - 0 >= MinLength)
      BY <1>3, SizesAssumption
    <3>2. <<>> = If(0 - 0 >= MinLength, <<Window(file, 0, 0)>>)
      BY <3>1 DEF If
    <3> QED BY <3>1, <3>2, RestOfText
  <2>4. IsTextRead(TextStart, Value, file, 0)
    BY <2>2, <2>3 DEF IsTextRead, TextStart
  <2> QED BY <1>3, <2>1, <2>4
<1>5. ASSUME NEW n \in 0 .. N - 1, n \in reached PROVE n + 1 \in reached
  <2> DEFINE from == c[n]
             upto == c[n + 1]
             state == h[n]
  <2>1. n + 1 \in 1 .. N /\ n + 1 \in 0 .. N /\ (n + 1) - 1 = n
    BY <1>a
  <2>2. /\ from \in Nat /\ upto \in Nat /\ from < upto /\ upto <= Len(file)
        /\ IsTextRead(state, Value, file, from)
    BY <1>5, <1>a
  <2>3. h[n + 1] = TextOfBlock(state, Window(file, from, upto))
    BY <1>2, <1>a, <2>1
  <2> HIDE DEF reached, from, upto, state
  <2>4. IsTextRead(TextOfBlock(state, Window(file, from, upto)), Value, file, upto)
    BY <1>0, <2>2, TextOfBlockIsRead
  <2>5. IsTextRead(h[n + 1], Value, file, c[n + 1])
    BY <2>3, <2>4 DEF upto
  <2> USE DEF reached
  <2> QED BY <2>1, <2>5
<1>6. IsTextRead(end, Value, file, L)
  <2>1. N \in reached
    <3> HIDE DEF reached, N
    <3>1. \A n \in 0 .. N : n \in reached
      BY <1>3, <1>4, <1>5, Upwards
    <3> QED BY <1>3, <3>1
  <2> QED BY <1>1, <1>2, <2>1 DEF AreBounds
<1>7. StreamText(file) = end.out \o If(Len(end.carry) >= MinLength, <<end.carry>>)
  BY DEF StreamText, TextAtEnd, TextStart
<1> HIDE DEF end
<1>8. PICK d \in 0 .. L : /\ end.carry = Window(file, d, L)
                          /\ \A k \in d + 1 .. L : file[k] \notin TextEnds
                          /\ d = 0 \/ file[d] \in TextEnds
                          /\ AreTextsOf(end.out, Value, file, 0, d)
  BY <1>6 DEF IsTextRead
<1> DEFINE rest == If(Len(end.carry) >= MinLength, <<end.carry>>)
<1>9. d \in Nat /\ d <= L /\ L <= Len(file)
  BY <1>3
<1>10. rest = If(L - d >= MinLength, <<Window(file, d, L)>>)
  <2>1. Len(Window(file, d, L)) = L - d
    BY <1>3, <1>9, WindowIs
  <2> QED BY <1>8, <2>1
<1> HIDE DEF rest
<1>11. AreTextsOf(rest, Value, file, d, L)
  BY <1>3, <1>8, <1>9, <1>10, RestOfText
<1>12. AreTextsOf(end.out \o rest, Value, file, 0, L)
  <2> HIDE DEF L
  <2> QED BY <1>3, <1>8, <1>9, <1>11, TextsFollow
<1>13. AreTextsOf(WholeText(file), Value, file, 0, L)
  <2>1. Window(file, 0, L) = file
    BY <1>3 DEF Window
  <2>2. AreTextsOf(LongTexts(Window(file, 0, L)), Value, file, 0, L)
    BY <1>3, TextsAreListed
  <2>3. WholeText(file) = LongTexts(file)
    BY DEF WholeText, LongTexts
  <2> QED BY <2>1, <2>2, <2>3
<1>14. StreamText(file) = end.out \o rest
  BY <1>7 DEF rest
<1>15. end.out \o rest = WholeText(file)
  <2> DEFINE class == Value \ TextEnds
  <2>1. PICK g : IsListing(g, Value, file, 0, L, class) /\ end.out \o rest = TextsIn(g)
    BY <1>12 DEF AreTextsOf
  <2>2. PICK i : IsListing(i, Value, file, 0, L, class) /\ WholeText(file) = TextsIn(i)
    BY <1>13 DEF AreTextsOf
  <2> HIDE DEF class, L
  <2>3. g = i
    BY <2>1, <2>2, ListedOnce
  <2> QED BY <2>1, <2>2, <2>3
<1> QED BY <1>14, <1>15
------------------------------------------------------------------------------
(* Rows of numeric tables.                                                 *)

\* Every end of a line ends one.
LEMMA EndsEnd ==
    ASSUME NEW Value, NEW s \in Seq(Value), NEW ends, NEW k, IsLineEnd(s, ends, k)
    PROVE  \E a \in 1 .. k : IsLineOf(s, ends, <<a, k>>)
<1> DEFINE S == {0} \cup {n \in 1 .. k - 1 : IsLineEnd(s, ends, n)}
           m == Max(S)
<1>1. k \in Nat /\ k >= 1
  BY DEF IsLineEnd
<1>2. S \in SUBSET (0 .. k - 1) /\ S # {} /\ k - 1 \in Nat
  <2>1. 0 \in 0 .. k - 1 /\ 1 .. k - 1 \subseteq 0 .. k - 1 /\ k - 1 \in Nat
    BY <1>1
  <2> QED BY <2>1
<1>3. m \in S /\ \A n \in S : n <= m
  <2> HIDE DEF S
  <2> QED BY <1>2, GreatestNumber
<1>4. \A n \in 1 .. k - 1 : IsLineEnd(s, ends, n) => n <= m
  BY <1>3
<1>5. m \in 0 .. k - 1 /\ (m = 0 \/ IsLineEnd(s, ends, m))
  BY <1>1, <1>3
<1> HIDE DEF m, S
<1>6. m + 1 \in 1 .. k /\ (m + 1) - 1 = m /\ (m + 1 = 1 \/ IsLineEnd(s, ends, m))
  BY <1>1, <1>5
<1>7. \A n \in m + 1 .. k - 1 : n \in 1 .. k - 1 /\ ~(n <= m)
  BY <1>1, <1>5
<1>8. IsLineOf(s, ends, <<m + 1, k>>)
  <2>1. \A n \in m + 1 .. k - 1 : ~IsLineEnd(s, ends, n)
    BY <1>4, <1>7
  <2> QED BY <1>1, <1>6, <2>1 DEF IsLineOf
<1> QED BY <1>6, <1>8

\* One line follows the other, from the first symbol to the last.
Adjoin(q, s, ends) ==
    /\ q \in Seq(Nat \X Nat)
    /\ \A n \in 1 .. Len(q) : /\ IsLineOf(s, ends, q[n])
                              /\ n = 1 => q[n][1] = 1
                              /\ n > 1 => q[n][1] = q[n - 1][2] + 1
    /\ IF q = <<>> THEN s = <<>> ELSE q[Len(q)][2] = Len(s)

\* The lines do.
LEMMA LinesAdjoin ==
    ASSUME NEW Value, NEW s \in Seq(Value), NEW ends, NEW q, q = Lines(s, ends)
    PROVE  Adjoin(q, s, ends)
<1> DEFINE N == Len(q)
           L == Len(s)
<1>1. AreLines(q, s, ends)
  BY LinesAre
<1>2. /\ q \in Seq(Nat \X Nat) /\ Grows(q)
      /\ \A l \in Nat \X Nat : l \in ToSet(q) <=> IsLineOf(s, ends, l)
  BY <1>1 DEF AreLines
<1>3. N \in Nat /\ DOMAIN q = 1 .. N /\ L \in Nat /\ \A n \in 1 .. N : q[n] \in Nat \X Nat
  BY <1>2
<1>4. \A n, m \in 1 .. N : n < m => q[n][1] < q[m][1]
  BY <1>2, <1>3 DEF Grows
<1>5. (q = <<>> <=> N = 0) /\ (s = <<>> <=> L = 0)
  BY <1>2
<1> HIDE DEF N, L
<1>6. ASSUME NEW n \in 1 .. N
      PROVE  /\ IsLineOf(s, ends, q[n]) /\ q[n][1] \in Nat /\ q[n][2] \in Nat
             /\ 1 <= q[n][1] /\ q[n][1] <= q[n][2] /\ q[n][2] <= L /\ IsLineEnd(s, ends, q[n][2])
             /\ \A k \in q[n][1] .. q[n][2] - 1 : ~IsLineEnd(s, ends, k)
             /\ q[n][1] = 1 \/ IsLineEnd(s, ends, q[n][1] - 1)
  <2> DEFINE l == q[n]
  <2>1. l \in Nat \X Nat /\ l \in ToSet(q)
    BY <1>3 DEF ToSet
  <2> HIDE DEF l
  <2>2. IsLineOf(s, ends, l)
    BY <1>2, <2>1
  <2>3. IsLineEnd(s, ends, l[2])
    BY <2>2 DEF IsLineOf
  <2>4. l[2] <= L
    BY <2>3 DEF IsLineEnd, L
  <2>5. /\ IsLineOf(s, ends, l) /\ l[1] \in Nat /\ l[2] \in Nat
        /\ 1 <= l[1] /\ l[1] <= l[2] /\ l[2] <= L /\ IsLineEnd(s, ends, l[2])
        /\ \A k \in l[1] .. l[2] - 1 : ~IsLineEnd(s, ends, k)
        /\ l[1] = 1 \/ IsLineEnd(s, ends, l[1] - 1)
    BY <2>1, <2>2, <2>3, <2>4 DEF IsLineOf
  <2> QED BY <2>5 DEF l
<1>7. ASSUME NEW k, IsLineEnd(s, ends, k) PROVE \E n \in 1 .. N : q[n][1] <= k /\ q[n][2] = k
  <2>1. PICK a \in 1 .. k : IsLineOf(s, ends, <<a, k>>)
    BY <1>7, EndsEnd
  <2>2. k \in Nat
    BY <1>7 DEF IsLineEnd
  <2>3. <<a, k>> \in ToSet(q)
    BY <1>2, <2>1, <2>2
  <2>4. PICK n \in 1 .. N : q[n] = <<a, k>>
    BY <1>3, <2>3 DEF ToSet
  <2> QED BY <2>1, <2>2, <2>4
<1>8. ASSUME NEW n \in 1 .. N, NEW m \in 1 .. N, q[n][1] < q[m][1] PROVE n < m /\ q[n][2] < q[m][1]
  <2>1. n < m
    BY <1>3, <1>4, <1>6, <1>8
  <2>2. ~(q[m][1] <= q[n][2])
    <3> SUFFICES ASSUME q[m][1] <= q[n][2] PROVE FALSE
      OBVIOUS
    <3> DEFINE k == q[m][1] - 1
    <3>1. k \in q[n][1] .. q[n][2] - 1 /\ q[m][1] # 1
      <4>1. /\ q[n][1] \in Nat /\ q[n][2] \in Nat /\ q[m][1] \in Nat
            /\ 1 <= q[n][1] /\ q[n][1] < q[m][1] /\ q[m][1] <= q[n][2]
        BY <1>6, <1>8
      <4> QED BY <4>1
    <3>2. IsLineEnd(s, ends, k)
      BY <1>6, <3>1
    <3> HIDE DEF k
    <3> QED BY <1>6, <3>1, <3>2
  <2>3. q[n][2] \in Nat /\ q[m][1] \in Nat
    BY <1>6
  <2> QED BY <2>1, <2>2, <2>3
<1>9. ASSUME NEW n \in 1 .. N, n = 1 PROVE q[n][1] = 1
  <2> SUFFICES ASSUME q[n][1] # 1 PROVE FALSE
    OBVIOUS
  <2>1. IsLineEnd(s, ends, q[n][1] - 1) /\ q[n][1] \in Nat
    BY <1>6
  <2>2. PICK m \in 1 .. N : q[m][1] <= q[n][1] - 1
    BY <1>7, <2>1
  <2>3. q[m][1] < q[n][1]
    BY <1>6, <2>1, <2>2
  <2>4. m < n
    BY <1>8, <2>3
  <2> QED BY <1>3, <1>9, <2>4
<1>10. ASSUME NEW n \in 1 .. N, n > 1 PROVE q[n][1] = q[n - 1][2] + 1
  <2> DEFINE a == q[n][1]
             e == q[n - 1][2]
             b == q[n - 1][1]
  <2>1. n - 1 \in 1 .. N /\ n - 1 < n
    BY <1>3, <1>10
  <2>2. a \in Nat /\ e \in Nat /\ b \in Nat /\ b < a /\ b <= e /\ 1 <= b
    BY <1>4, <1>6, <2>1
  <2>3. e < a
    BY <1>8, <2>1, <2>2
  <2>4. ~(e < a - 1)
    <3> SUFFICES ASSUME e < a - 1 PROVE FALSE
      OBVIOUS
    <3>1. IsLineEnd(s, ends, a - 1)
      BY <1>6, <2>2
    <3>2. PICK m \in 1 .. N : q[m][1] <= a - 1 /\ q[m][2] = a - 1
      BY <1>7, <3>1
    <3>3. q[m][1] \in Nat /\ q[m][1] < a
      BY <1>6, <2>2, <3>2
    <3>4. m < n
      BY <1>8, <3>3
    <3>5. q[m][1] <= b
      <4>1. m = n - 1 \/ m < n - 1
        BY <1>3, <3>4
      <4>2. m < n - 1 => q[m][1] < b
        BY <1>4, <2>1
      <4> QED BY <2>2, <3>3, <4>1, <4>2
    <3>6. e \in q[m][1] .. q[m][2] - 1
      <4> HIDE DEF a, b, e
      <4>1. q[m][1] <= e
        BY <2>2, <3>3, <3>5
      <4>2. q[m][2] - 1 = a - 2 /\ e <= a - 2
        BY <2>2, <3>2
      <4> QED BY <2>2, <3>3, <4>1, <4>2
    <3>7. IsLineEnd(s, ends, e)
      BY <1>6, <2>1
    <3> HIDE DEF e
    <3> QED BY <1>6, <3>6, <3>7
  <2> QED BY <2>2, <2>3, <2>4
<1>11. IF q = <<>> THEN s = <<>> ELSE q[N][2] = L
  <2>1. ASSUME L # 0 PROVE N # 0 /\ q[N][2] = L
    <3>1. IsLineEnd(s, ends, L)
      BY <1>3, <2>1 DEF IsLineEnd, L
    <3>2. PICK m \in 1 .. N : q[m][2] = L
      BY <1>7, <3>1
    <3>3. ~(m < N)
      <4> SUFFICES ASSUME m < N PROVE FALSE
        OBVIOUS
      <4>1. N \in 1 .. N /\ q[m][1] < q[N][1]
        BY <1>3, <1>4
      <4>2. q[m][2] < q[N][1] /\ q[N][1] <= q[N][2] /\ q[N][2] <= L
        BY <1>6, <1>8, <4>1
      <4>3. q[N][1] \in Nat /\ q[N][2] \in Nat
        BY <1>6, <4>1
      <4> QED BY <1>3, <3>2, <4>2, <4>3
    <3> QED BY <1>3, <3>2, <3>3
  <2>2. ASSUME N # 0 PROVE L # 0
    <3>1. 1 \in 1 .. N
      BY <1>3, <2>2
    <3> QED BY <1>3, <1>6, <3>1
  <2> QED BY <1>5, <2>1, <2>2
<1> QED BY <1>2, <1>6, <1>9, <1>10, <1>11 DEF Adjoin, N, L
------------------------------------------------------------------------------
NumericRow == Nat \X Nat \X Nat \X Nat
TablePlaces(rows, table) == {n \in 1 .. Len(rows) : rows[n][1] = table}
IsWhole(rows, table) == Cardinality(TablePlaces(rows, table)) >= MinRows

\* The rows of the table that is being read come last, the other tables have enough rows.
IsScan(state) ==
    /\ state.row <= Len(state.rows)
    /\ \A n \in 1 .. Len(state.rows) : state.rows[n][1] <= state.table
    /\ \A n \in Len(state.rows) - state.row + 1 .. Len(state.rows) :
          state.rows[n][1] = state.table
    /\ \A n \in 1 .. Len(state.rows) - state.row :
          /\ state.row > 0 => state.rows[n][1] # state.table
          /\ IsWhole(state.rows, state.rows[n][1])

ScanStates == [rows : Seq(NumericRow), table : Nat, row : Nat]
Scans == {state \in ScanStates : IsScan(state)}

\* A state of a scan, by its parts.
IsScanOf(rows, table, row, state) ==
    /\ rows \in Seq(NumericRow) /\ Len(rows) \in Nat /\ table \in Nat /\ row \in Nat
    /\ row <= Len(rows)
    /\ \A n \in 1 .. Len(rows) : rows[n][1] \in Nat /\ rows[n][1] <= table
    /\ \A n \in Len(rows) - row + 1 .. Len(rows) : rows[n][1] = table
    /\ \A n \in 1 .. Len(rows) - row : (row > 0 => rows[n][1] # table) /\ IsWhole(rows, rows[n][1])
    /\ state = [rows |-> rows, table |-> table, row |-> row]

\* The parts of a state of a scan.
LEMMA ScanIs ==
    ASSUME NEW state \in Scans
    PROVE  IsScanOf(state.rows, state.table, state.row, state)
<1>1. state \in ScanStates /\ IsScan(state)
  BY DEF Scans
<1> DEFINE rows == state.rows
           table == state.table
           row == state.row
<1>2. /\ rows \in Seq(NumericRow) /\ table \in Nat /\ row \in Nat
      /\ state = [rows |-> rows, table |-> table, row |-> row]
  BY <1>1 DEF ScanStates
<1>3. Len(rows) \in Nat /\ \A n \in 1 .. Len(rows) : rows[n] \in NumericRow
  <2> HIDE DEF rows
  <2> QED BY <1>2
<1>4. \A n \in 1 .. Len(rows) : rows[n][1] \in Nat
  BY <1>3 DEF NumericRow
<1> QED BY <1>1, <1>2, <1>3, <1>4 DEF IsScan, IsScanOf

\* Such parts make a state of a scan.
LEMMA ScanOfIs ==
    ASSUME NEW rows, NEW table, NEW row, NEW state, IsScanOf(rows, table, row, state)
    PROVE  state \in Scans
<1>1. /\ rows \in Seq(NumericRow) /\ table \in Nat /\ row \in Nat
      /\ state = [rows |-> rows, table |-> table, row |-> row]
  BY DEF IsScanOf
<1>2. state.rows = rows /\ state.table = table /\ state.row = row
  BY <1>1
<1>3. state \in ScanStates
  BY <1>1 DEF ScanStates
<1>4. IsScan(state)
  BY <1>2 DEF IsScan, IsScanOf
<1> QED BY <1>3, <1>4 DEF Scans

\* The places of the table that is being read.
LEMMA TablePlacesLast ==
    ASSUME NEW rows, NEW table, NEW row, NEW state, IsScanOf(rows, table, row, state), row > 0
    PROVE  /\ TablePlaces(rows, table) = Len(rows) - row + 1 .. Len(rows)
           /\ Cardinality(TablePlaces(rows, table)) = row
<1> DEFINE N == Len(rows)
<1>1. /\ N \in Nat /\ row \in Nat /\ row <= N
      /\ \A n \in N - row + 1 .. N : rows[n][1] = table
      /\ \A n \in 1 .. N - row : rows[n][1] # table
  BY DEF IsScanOf
<1> HIDE DEF N
<1>2. TablePlaces(rows, table) = N - row + 1 .. N
  <2>1. \A n \in 1 .. N : n \in 1 .. N - row \/ n \in N - row + 1 .. N
    BY <1>1
  <2>2. \A n \in N - row + 1 .. N : n \in 1 .. N
    BY <1>1
  <2> QED BY <1>1, <2>1, <2>2 DEF TablePlaces, N
<1>3. Cardinality(N - row + 1 .. N) = row
  <2>1. N - row + 1 \in Int /\ N \in Int /\ N - row + 1 <= N /\ N - (N - row + 1) + 1 = row
    BY <1>1
  <2>2. Cardinality(N - row + 1 .. N) = N - (N - row + 1) + 1
    BY <2>1, FS_Interval
  <2> QED BY <2>1, <2>2
<1> QED BY <1>2, <1>3 DEF N

\* A table that is dropped is the last one, as a whole.
LEMMA DroppedIs ==
    ASSUME NEW rows, NEW table, NEW row, NEW state, IsScanOf(rows, table, row, state), row > 0
    PROVE  WithoutTable(rows, table) = SubSeq(rows, 1, Len(rows) - row)
<1> DEFINE N == Len(rows)
           P == {n \in DOMAIN rows : rows[n][1] # table}
<1>1. /\ rows \in Seq(NumericRow) /\ N \in Nat /\ row \in Nat /\ row <= N
      /\ \A n \in N - row + 1 .. N : rows[n][1] = table
      /\ \A n \in 1 .. N - row : rows[n][1] # table
  BY DEF IsScanOf
<1>2. DOMAIN rows = 1 .. N
  BY <1>1
<1> HIDE DEF N
<1>3. P = 1 .. N - row
  <2>1. \A n \in 1 .. N : n \in 1 .. N - row \/ n \in N - row + 1 .. N
    BY <1>1
  <2>2. \A n \in 1 .. N - row : n \in 1 .. N
    BY <1>1
  <2> QED BY <1>1, <1>2, <2>1, <2>2
<1>4. WithoutTable(rows, table) = Picked(rows, P)
  BY DEF WithoutTable, Those
<1>5. N - row \in 0 .. N
  BY <1>1
<1>6. Picked(rows, 1 .. N - row) = SubSeq(rows, 1, N - row)
  BY <1>1, <1>5, FirstNumbers DEF N
<1> QED BY <1>3, <1>4, <1>6 DEF N

\* What is read of another table does not make a table less whole.
LEMMA StaysWhole ==
    ASSUME NEW rows, NEW more, NEW table, IsWhole(rows, table),
           Len(rows) \in Nat, Len(more) \in Nat,
           \A n \in 1 .. Len(rows) : rows[n][1] = table => n <= Len(more) /\ more[n][1] = table,
           \A n \in 1 .. Len(more) : more[n][1] = table => n <= Len(rows) /\ rows[n][1] = table
    PROVE  IsWhole(more, table)
<1>1. TablePlaces(more, table) = TablePlaces(rows, table)
  BY DEF TablePlaces
<1> QED BY <1>1 DEF IsWhole

\* A line without a row ends a table, and drops it if it is short.
LEMMA DropShortIs ==
    ASSUME NEW state \in Scans PROVE [DropShort(state) EXCEPT !.row = 0] \in Scans
<1> DEFINE rows == state.rows
           table == state.table
           row == state.row
           N == Len(rows)
           next == [DropShort(state) EXCEPT !.row = 0]
<1>1. IsScanOf(rows, table, row, state)
  BY ScanIs
<1>2. /\ state = [rows |-> rows, table |-> table, row |-> row]
      /\ rows \in Seq(NumericRow) /\ N \in Nat /\ table \in Nat /\ row \in Nat /\ row <= N
      /\ \A n \in 1 .. N : rows[n][1] \in Nat /\ rows[n][1] <= table
      /\ \A n \in N - row + 1 .. N : rows[n][1] = table
      /\ \A n \in 1 .. N - row : (row > 0 => rows[n][1] # table) /\ IsWhole(rows, rows[n][1])
  BY <1>1 DEF IsScanOf
<1>3. CASE 0 < row /\ row < MinRows
  <2> DEFINE kept == SubSeq(rows, 1, N - row)
  <2>1. WithoutTable(rows, table) = kept
    <3> HIDE DEF rows, table, row
    <3> QED BY <1>1, <1>3, DroppedIs
  <2>2. next = [rows |-> kept, table |-> table, row |-> 0]
    <3> DEFINE w == WithoutTable(rows, table)
    <3>1. next = [[state EXCEPT !.rows = w] EXCEPT !.row = 0]
      BY <1>3 DEF DropShort
    <3>2. w = kept
      BY <2>1
    <3> HIDE DEF w, kept, next
    <3>3. next = [rows |-> w, table |-> table, row |-> 0]
      BY <1>2, <3>1
    <3> QED BY <3>2, <3>3
  <2> HIDE DEF rows, table, row
  <2>3. /\ kept \in Seq(NumericRow) /\ Len(kept) = N - row /\ N - row \in Nat
        /\ \A n \in 1 .. N - row : kept[n] = rows[n]
    BY <1>2
  <2> HIDE DEF kept, next
  <2>4. ASSUME NEW n \in 1 .. N - row PROVE IsWhole(kept, kept[n][1])
    <3>1. n \in 1 .. N /\ kept[n][1] = rows[n][1] /\ rows[n][1] # table /\ IsWhole(rows, rows[n][1])
      BY <1>2, <1>3, <2>3
    <3> DEFINE t == rows[n][1]
    <3>2. IsWhole(rows, t) /\ t # table /\ kept[n][1] = t
      BY <3>1
    <3> HIDE DEF t, N
    <3>3. \A k \in 1 .. N : rows[k][1] = t => k <= N - row /\ kept[k][1] = t
      <4> SUFFICES ASSUME NEW k \in 1 .. N, rows[k][1] = t PROVE k <= N - row /\ kept[k][1] = t
        OBVIOUS
      <4>1. k \notin N - row + 1 .. N
        BY <1>2, <3>2
      <4>2. k \in 1 .. N - row
        BY <1>2, <4>1
      <4> QED BY <2>3, <4>2
    <3>4. \A k \in 1 .. N - row : kept[k][1] = t => k <= N /\ rows[k][1] = t
      BY <1>2, <2>3
    <3>5. IsWhole(kept, t)
      <4>1. Len(rows) = N /\ Len(rows) \in Nat /\ Len(kept) \in Nat
        BY <1>2, <2>3 DEF N
      <4>2. \A k \in 1 .. Len(rows) : rows[k][1] = t => k <= Len(kept) /\ kept[k][1] = t
        BY <2>3, <3>3, <4>1
      <4>3. \A k \in 1 .. Len(kept) : kept[k][1] = t => k <= Len(rows) /\ rows[k][1] = t
        BY <2>3, <3>4, <4>1
      <4> QED BY <3>2, <4>1, <4>2, <4>3, StaysWhole
    <3> QED BY <3>2, <3>5
  <2>5. \A n \in 1 .. Len(kept) : kept[n][1] \in Nat /\ kept[n][1] <= table
    BY <1>2, <2>3
  <2>6. IsScanOf(kept, table, 0, next)
    BY <1>2, <2>2, <2>3, <2>4, <2>5 DEF IsScanOf
  <2> QED BY <2>6, ScanOfIs DEF next
<1>4. CASE ~(0 < row /\ row < MinRows)
  <2>1. next = [rows |-> rows, table |-> table, row |-> 0]
    BY <1>2, <1>4 DEF DropShort
  <2> HIDE DEF next, rows, table, row
  <2>2. ASSUME NEW n \in 1 .. N PROVE IsWhole(rows, rows[n][1])
    <3>1. CASE n \in 1 .. N - row
      BY <1>2, <3>1
    <3>2. CASE n \notin 1 .. N - row
      <4>1. n \in N - row + 1 .. N /\ row > 0
        BY <1>2, <3>2
      <4>2. Cardinality(TablePlaces(rows, table)) = row
        BY <1>1, <4>1, TablePlacesLast
      <4>3. row >= MinRows
        BY <1>2, <1>4, <4>1, SizesAssumption
      <4> QED BY <1>2, <4>1, <4>2, <4>3 DEF IsWhole
    <3> QED BY <3>1, <3>2
  <2>3. IsScanOf(rows, table, 0, next)
    BY <1>2, <2>1, <2>2 DEF IsScanOf
  <2> QED BY <2>3, ScanOfIs DEF next
<1> QED BY <1>3, <1>4

\* A line with a row begins a table or goes on with one.
LEMMA RowIs ==
    ASSUME NEW state \in Scans, NEW x \in NumericRow, NEW table \in Nat, x[1] = table,
           IF state.row = 0 THEN table = state.table + 1 ELSE table = state.table
    PROVE  [rows |-> Append(state.rows, x), table |-> table, row |-> state.row + 1] \in Scans
<1> DEFINE rows == state.rows
           row == state.row
           N == Len(rows)
           more == Append(rows, x)
           next == [rows |-> more, table |-> table, row |-> row + 1]
<1>1. IsScanOf(rows, state.table, row, state)
  BY ScanIs
<1> DEFINE old == state.table
<1>2. /\ rows \in Seq(NumericRow) /\ N \in Nat /\ old \in Nat /\ row \in Nat /\ row <= N
      /\ \A n \in 1 .. N : rows[n][1] \in Nat /\ rows[n][1] <= old
      /\ \A n \in N - row + 1 .. N : rows[n][1] = old
      /\ \A n \in 1 .. N - row : (row > 0 => rows[n][1] # old) /\ IsWhole(rows, rows[n][1])
      /\ IF row = 0 THEN table = old + 1 ELSE table = old
  BY <1>1 DEF IsScanOf
<1> HIDE DEF rows, row, old
<1>3. /\ more \in Seq(NumericRow) /\ Len(more) = N + 1
      /\ (\A n \in 1 .. N : more[n] = rows[n]) /\ more[N + 1] = x
  <2>1. more \in Seq(NumericRow) /\ Len(more) = N + 1
    BY <1>2
  <2>2. (\A n \in 1 .. N : more[n] = rows[n]) /\ more[N + 1] = x
    BY <1>2
  <2> QED BY <2>1, <2>2
<1>n. N = Len(rows)
  OBVIOUS
<1> HIDE DEF more, N
<1>4. ASSUME NEW n \in 1 .. N + 1
      PROVE  \/ n \in 1 .. N /\ more[n][1] = rows[n][1]
             \/ n = N + 1 /\ more[n][1] = table
  <2>1. n \in 1 .. N \/ n = N + 1
    BY <1>2
  <2> QED BY <1>3, <2>1
<1>5. \A n \in 1 .. N + 1 : more[n][1] \in Nat /\ more[n][1] <= table
  BY <1>2, <1>4
<1>6. \A n \in N - row + 1 .. N + 1 : more[n][1] = table
  <2> SUFFICES ASSUME NEW n \in N - row + 1 .. N + 1 PROVE more[n][1] = table
    OBVIOUS
  <2>1. n \in 1 .. N + 1
    BY <1>2
  <2>2. CASE n = N + 1
    BY <1>3, <2>2
  <2>3. CASE n # N + 1
    <3>1. n \in N - row + 1 .. N /\ n \in 1 .. N /\ row # 0
      BY <1>2, <2>3
    <3> QED BY <1>2, <1>3, <3>1
  <2> QED BY <2>2, <2>3
<1>7. ASSUME NEW n \in 1 .. N - row PROVE more[n][1] # table /\ IsWhole(more, more[n][1])
  <2> DEFINE t == rows[n][1]
  <2>1. n \in 1 .. N /\ more[n][1] = t /\ IsWhole(rows, t)
    BY <1>2, <1>3
  <2>2. t # table
    BY <1>2, <2>1
  <2> HIDE DEF t
  <2>3. \A k \in 1 .. Len(rows) : rows[k][1] = t => k <= Len(more) /\ more[k][1] = t
    BY <1>2, <1>3, <1>n
  <2>4. \A k \in 1 .. Len(more) : more[k][1] = t => k <= Len(rows) /\ rows[k][1] = t
    BY <1>2, <1>3, <1>4, <1>n, <2>2
  <2>5. Len(rows) \in Nat /\ Len(more) \in Nat
    BY <1>2, <1>3, <1>n
  <2>6. IsWhole(more, t)
    BY <2>1, <2>3, <2>4, <2>5, StaysWhole
  <2> QED BY <2>1, <2>2, <2>6
<1>8. IsScanOf(more, table, row + 1, next)
  <2>1. (N + 1) - (row + 1) + 1 = N - row + 1 /\ (N + 1) - (row + 1) = N - row
    BY <1>2
  <2>2. /\ N + 1 \in Nat /\ row + 1 \in Nat /\ row + 1 <= N + 1
    BY <1>2
  <2> HIDE DEF next
  <2>3. next = [rows |-> more, table |-> table, row |-> row + 1]
    BY DEF next
  <2>4. Len(more) = N + 1
    BY <1>3
  <2> QED BY <1>3, <1>5, <1>6, <1>7, <2>1, <2>2, <2>3, <2>4 DEF IsScanOf
<1> QED BY <1>8, ScanOfIs DEF next, more, row, rows

\* Each line leaves a state of the scan behind.
LEMMA TableLineIs ==
    ASSUME NEW Value, NEW state \in Scans, NEW text \in Seq(Value), NEW offset \in Nat
    PROVE  TableLine(state, text, offset) \in Scans
<1>1. CASE IsNumericRow(text)
  <2> DEFINE table == IF state.row = 0 THEN state.table + 1 ELSE state.table
             x == <<table, state.row + 1, offset, Len(text)>>
  <2>1. IsScanOf(state.rows, state.table, state.row, state)
    BY ScanIs
  <2>2. /\ state = [rows |-> state.rows, table |-> state.table, row |-> state.row]
        /\ state.table \in Nat /\ state.row \in Nat
    BY <2>1 DEF IsScanOf
  <2>3. table \in Nat /\ (IF state.row = 0 THEN table = state.table + 1 ELSE table = state.table)
    BY <2>2
  <2>4. TableLine(state, text, offset)
           = [state EXCEPT !.table = table, !.row = state.row + 1, !.rows = Append(state.rows, x)]
    BY <1>1 DEF TableLine
  <2> HIDE DEF table
  <2>5. x \in NumericRow /\ x[1] = table
    BY <2>2, <2>3 DEF NumericRow
  <2> HIDE DEF x
  <2>6. TableLine(state, text, offset)
           = [rows |-> Append(state.rows, x), table |-> table, row |-> state.row + 1]
    BY <2>2, <2>4
  <2> QED BY <2>3, <2>5, <2>6, RowIs
<1>2. CASE ~IsNumericRow(text)
  <2>1. TableLine(state, text, offset) = [DropShort(state) EXCEPT !.row = 0]
    BY <1>2 DEF TableLine
  <2> QED BY <2>1, DropShortIs
<1> QED BY <1>1, <1>2

LongRows(rows) ==
    IF rows # <<>> /\ Len(Those(rows, LAMBDA row : row[1] = Last(rows)[1])) < MinRows
    THEN WithoutTable(rows, Last(rows)[1]) ELSE rows

\* The rows of a table are as many as its places.
LEMMA RowsOfTable ==
    ASSUME NEW rows \in Seq(NumericRow), NEW table
    PROVE  Len(Those(rows, LAMBDA row : row[1] = table)) = Cardinality(TablePlaces(rows, table))
<1> DEFINE P == {n \in DOMAIN rows : rows[n][1] = table}
<1>1. Those(rows, LAMBDA row : row[1] = table) = Picked(rows, P)
  BY DEF Those
<1>2. P = TablePlaces(rows, table)
  BY DEF TablePlaces
<1>3. P \in SUBSET (1 .. Len(rows))
  OBVIOUS
<1> HIDE DEF P
<1>4. Len(Picked(rows, P)) = Cardinality(P)
  BY <1>3, PickedInOrder
<1> QED BY <1>1, <1>2, <1>4

\* Without the short table a scan ends with, its rows are those of its long tables.
LEMMA LongRowsAre ==
    ASSUME NEW state \in Scans PROVE DropShort(state).rows = LongRows(state.rows)
<1> DEFINE rows == state.rows
           table == state.table
           row == state.row
           N == Len(rows)
           last == Last(rows)[1]
           many == Len(Those(rows, LAMBDA r : r[1] = last))
<1>1. IsScanOf(rows, table, row, state)
  BY ScanIs
<1>2. /\ rows \in Seq(NumericRow) /\ N \in Nat /\ row \in Nat /\ row <= N
      /\ \A n \in N - row + 1 .. N : rows[n][1] = table
      /\ \A n \in 1 .. N - row : IsWhole(rows, rows[n][1])
      /\ state = [rows |-> rows, table |-> table, row |-> row]
  BY <1>1 DEF IsScanOf
<1>3. LongRows(rows) = IF rows # <<>> /\ many < MinRows THEN WithoutTable(rows, last) ELSE rows
  BY DEF LongRows
<1>4. many = Cardinality(TablePlaces(rows, last))
  <2> HIDE DEF rows, last
  <2> QED BY <1>2, RowsOfTable
<1>5. last = rows[N][1]
  BY DEF Last
<1>6. DropShort(state).rows = IF 0 < row /\ row < MinRows THEN WithoutTable(rows, table) ELSE rows
  <2> DEFINE w == WithoutTable(rows, table)
  <2>1. DropShort(state) = IF 0 < row /\ row < MinRows THEN [state EXCEPT !.rows = w] ELSE state
    BY DEF DropShort
  <2> HIDE DEF w
  <2> QED BY <1>2, <2>1 DEF w
<1>7. rows # <<>> <=> N # 0
  BY <1>2
<1> HIDE DEF rows, table, row, N, last, many
<1>8. CASE row > 0
  <2>1. N \in N - row + 1 .. N /\ N # 0
    BY <1>2, <1>8
  <2>2. last = table
    BY <1>2, <1>5, <2>1
  <2>3. Cardinality(TablePlaces(rows, table)) = row
    BY <1>1, <1>8, TablePlacesLast
  <2>4. many = row
    BY <1>4, <2>2, <2>3
  <2> QED BY <1>3, <1>6, <1>7, <1>8, <2>1, <2>2, <2>4 DEF rows
<1>9. CASE row = 0 /\ N # 0
  <2>1. N \in 1 .. N - row
    BY <1>2, <1>9
  <2>2. IsWhole(rows, last)
    BY <1>2, <1>5, <2>1
  <2>3. many >= MinRows
    BY <1>4, <2>2 DEF IsWhole
  <2>4. many \in Nat \/ ~(many < MinRows)
    <3>1. IsFiniteSet(TablePlaces(rows, last))
      <4>1. IsFiniteSet(1 .. N)
        <5>1. 1 \in Int /\ N \in Int
          BY <1>2
        <5> QED BY <5>1, FS_Interval
      <4>2. TablePlaces(rows, last) \subseteq 1 .. N
        BY DEF TablePlaces, N
      <4> QED BY <4>1, <4>2, FS_Subset
    <3> QED BY <1>4, <3>1, FS_CardinalityType
  <2>5. ~(many < MinRows)
    BY <2>3, <2>4, SizesAssumption
  <2> QED BY <1>2, <1>3, <1>6, <1>9, <2>5 DEF rows
<1>10. CASE row = 0 /\ N = 0
  BY <1>3, <1>6, <1>7, <1>10 DEF rows
<1> QED BY <1>2, <1>8, <1>9, <1>10

LineStep(s, offset, state, line) == TableLine(state, LineText(s, line, BytesEnds), offset + line[1] - 1)

\* The states of a scan of some lines of s, one after the other.
IsScanning(h, scan, s, lines, offset) ==
    /\ h[0] = scan
    /\ \A n \in 1 .. Len(lines) : h[n] = LineStep(s, offset, h[n - 1], lines[n])
    /\ \A n \in 0 .. Len(lines) : h[n] \in Scans
    /\ h[Len(lines)] = ScanLines(scan, s, lines, offset)

AreTextLines(lines, Value, s) ==
    /\ lines \in Seq(Nat \X Nat)
    /\ \A n \in 1 .. Len(lines) : 1 <= lines[n][1] /\ LineText(s, lines[n], BytesEnds) \in Seq(Value)

\* The lines are read one after the other.
LEMMA LineSteps ==
    ASSUME NEW Value, NEW s \in Seq(Value), NEW scan \in Scans, NEW offset \in Nat,
           NEW lines, AreTextLines(lines, Value, s)
    PROVE  \E h : IsScanning(h, scan, s, lines, offset)
<1> DEFINE seq == lines
           N == Len(seq)
           X == Scans
           Do(state, line) == LineStep(s, offset, state, line)
           step == [p \in X \X (1 .. N) |-> Do(p[1], seq[p[2]])]
           next(f, left) == IF left = {} THEN scan
                            ELSE Do(f[left \ {Max(left)}], seq[Max(left)])
           isFold(f) == f = [left \in SUBSET DOMAIN seq |-> next(f, left)]
           iter == CHOOSE f : isFold(f)
<1>3. ScanLines(scan, s, lines, offset) = iter[DOMAIN seq]
  BY DEF ScanLines, FoldLeft, MapThenFoldSet, LineStep
<1>1. /\ seq \in Seq(Nat \X Nat)
      /\ \A n \in 1 .. N : 1 <= seq[n][1] /\ LineText(s, seq[n], BytesEnds) \in Seq(Value)
  BY DEF AreTextLines
<1> HIDE DEF iter, X, seq
<1>4. N \in Nat /\ DOMAIN seq = 1 .. N /\ \A n \in 1 .. N : seq[n] \in Nat \X Nat
  BY <1>1
<1> HIDE DEF N
<1>2. ASSUME NEW x \in X, NEW n \in 1 .. N PROVE Do(x, seq[n]) \in X
  <2> DEFINE line == seq[n]
             text == LineText(s, line, BytesEnds)
  <2>1. line \in Nat \X Nat /\ 1 <= line[1] /\ text \in Seq(Value)
    BY <1>1, <1>4
  <2> HIDE DEF line
  <2>2. offset + line[1] - 1 \in Nat
    BY <2>1
  <2> HIDE DEF text
  <2>3. TableLine(x, text, offset + line[1] - 1) \in Scans
    BY <2>1, <2>2, TableLineIs DEF X
  <2> QED BY <2>3 DEF LineStep, line, text, X
<1> HIDE DEF Do
<1>5. step \in [X \X (1 .. N) -> X]
  BY <1>2
<1>s. scan \in X
  BY DEF X
<1>6. PICK f : Folds(f, N, X, scan, step)
  <2> HIDE DEF step
  <2> QED BY <1>s, <1>4, <1>5, FoldExists
<1>7. ASSUME NEW left \in SUBSET (1 .. N), left # {}
      PROVE  /\ Max(left) \in 1 .. N /\ left \ {Max(left)} \in SUBSET (1 .. N)
             /\ \A x \in X : step[<<x, Max(left)>>] = Do(x, seq[Max(left)])
  <2>1. left \in SUBSET (0 .. N)
    OBVIOUS
  <2>2. Max(left) \in left
    BY <1>4, <1>7, <2>1, GreatestNumber
  <2> QED BY <2>2
<1>a. \A x \in X, n \in 1 .. N : step[<<x, n>>] = Do(x, seq[n])
  OBVIOUS
<1> HIDE DEF step
<1>8. isFold(f)
  <2>1. f \in [SUBSET (1 .. N) -> X]
    BY <1>6 DEF Folds
  <2>2. ASSUME NEW left \in SUBSET (1 .. N) PROVE f[left] = next(f, left)
    BY <1>6, <1>7 DEF Folds
  <2> HIDE DEF next
  <2> QED BY <1>4, <2>1, <2>2
<1>9. isFold(iter)
  <2> HIDE DEF isFold
  <2> QED BY <1>8 DEF iter
<1>10. \A left \in SUBSET (1 .. N) : iter[left] = next(iter, left)
  <2> HIDE DEF next
  <2> QED BY <1>4, <1>9
<1>11. Recurs(iter, N, X, scan, step)
  <2> SUFFICES ASSUME NEW left \in SUBSET (1 .. N)
               PROVE  IF left = {} THEN iter[left] = scan
                      ELSE iter[left \ {Max(left)}] \in X =>
                              iter[left] = step[<<iter[left \ {Max(left)}], Max(left)>>]
    BY DEF Recurs
  <2>1. iter[left] = next(iter, left)
    BY <1>10
  <2> QED BY <1>7, <2>1
<1>12. PICK h : Steps(h, N, X, scan, step, iter[1 .. N])
  BY <1>s, <1>4, <1>5, <1>11, FoldSteps
<1>13. ASSUME NEW n \in 1 .. N PROVE h[n] = Do(h[n - 1], seq[n])
  <2>1. h[n - 1] \in X /\ h[n] = step[<<h[n - 1], n>>]
    BY <1>4, <1>12 DEF Steps
  <2> QED BY <1>a, <2>1
<1>14. h[0] = scan /\ h[N] = ScanLines(scan, s, lines, offset) /\ \A n \in 0 .. N : h[n] \in X
  BY <1>3, <1>4, <1>12 DEF Steps
<1>15. IsScanning(h, scan, s, lines, offset)
  BY <1>13, <1>14 DEF IsScanning, Do, N, seq, X
<1> QED BY <1>15

\* H[z] is the state of the scan after the line that ends at z.
HasScans(H, file) ==
    /\ H[0] = NoRows
    /\ \A a, z \in Nat : IsLineOf(file, BytesEnds, <<a, z>>) =>
          H[z] = LineStep(file, 0, H[a - 1], <<a, z>>)
    /\ H[0] \in Scans /\ \A z : IsLineEnd(file, BytesEnds, z) => H[z] \in Scans

\* A scan starts without rows.
LEMMA NoRowsIs == NoRows \in Scans
<1> DEFINE rows == NoRows.rows
<1>1. rows = <<>> /\ rows \in Seq(NumericRow) /\ Len(rows) = 0
  BY DEF NoRows
<1>2. NoRows = [rows |-> rows, table |-> 0, row |-> 0]
  BY DEF NoRows
<1> HIDE DEF rows
<1>3. IsScanOf(rows, 0, 0, NoRows)
  BY <1>1, <1>2 DEF IsScanOf
<1> QED BY <1>3, ScanOfIs

\* The lines of s are lines of text.
LEMMA LinesAreText ==
    ASSUME NEW Value, NEW s \in Seq(Value), NEW q, q = Lines(s, BytesEnds)
    PROVE  AreTextLines(q, Value, s)
<1>1. Adjoin(q, s, BytesEnds)
  BY LinesAdjoin
<1>2. q \in Seq(Nat \X Nat) /\ \A n \in 1 .. Len(q) : IsLineOf(s, BytesEnds, q[n])
  BY <1>1 DEF Adjoin
<1>3. HoldsEnds(BytesEnds)
  BY DEF HoldsEnds, BytesEnds
<1>4. ASSUME NEW n \in 1 .. Len(q)
      PROVE  1 <= q[n][1] /\ LineText(s, q[n], BytesEnds) \in Seq(Value)
  <2> DEFINE l == q[n]
  <2>1. l \in Nat \X Nat /\ IsLineOf(s, BytesEnds, l)
    BY <1>2
  <2> HIDE DEF l
  <2>2. LineText(s, l, BytesEnds) \in Seq(Value)
    BY <1>3, <2>1, LongLineIsRun
  <2>3. 1 <= l[1]
    BY <2>1 DEF IsLineOf
  <2> QED BY <2>2, <2>3 DEF l
<1> QED BY <1>2, <1>4 DEF AreTextLines

\* Two lines with one end are one line.
LEMMA OneLineEnds ==
    ASSUME NEW s, NEW ends, NEW a \in Nat, NEW b \in Nat, NEW z \in Nat,
           IsLineOf(s, ends, <<a, z>>), IsLineOf(s, ends, <<b, z>>)
    PROVE  a = b
<1>1. /\ 1 <= a /\ a <= z /\ (\A k \in a .. z - 1 : ~IsLineEnd(s, ends, k))
      /\ a = 1 \/ IsLineEnd(s, ends, a - 1)
      /\ 1 <= b /\ b <= z /\ (\A k \in b .. z - 1 : ~IsLineEnd(s, ends, k))
      /\ b = 1 \/ IsLineEnd(s, ends, b - 1)
  BY DEF IsLineOf
<1>2. ~(a < b)
  <2> SUFFICES ASSUME a < b PROVE FALSE
    OBVIOUS
  <2>1. b - 1 \in a .. z - 1 /\ b # 1
    BY <1>1
  <2> QED BY <1>1, <2>1
<1>3. ~(b < a)
  <2> SUFFICES ASSUME b < a PROVE FALSE
    OBVIOUS
  <2>1. a - 1 \in b .. z - 1 /\ a # 1
    BY <1>1
  <2> QED BY <1>1, <2>1
<1> QED BY <1>2, <1>3

\* The scan of the whole file has such states.
LEMMA WholeIsScanned ==
    ASSUME NEW Value, NEW file \in Seq(Value)
    PROVE  \E H : HasScans(H, file) /\ WholeRows(file) = DropShort(H[Len(file)]).rows
<1> DEFINE L == Len(file)
           q == Lines(file, BytesEnds)
           N == Len(q)
<1>1. AreTextLines(q, Value, file) /\ Adjoin(q, file, BytesEnds) /\ AreLines(q, file, BytesEnds)
  BY LinesAreText, LinesAdjoin, LinesAre
<1> HIDE DEF q
<1>2. PICK h : IsScanning(h, NoRows, file, q, 0)
  BY <1>1, NoRowsIs, LineSteps
<1>3. /\ q \in Seq(Nat \X Nat) /\ Grows(q)
      /\ \A l \in Nat \X Nat : l \in ToSet(q) <=> IsLineOf(file, BytesEnds, l)
  BY <1>1 DEF AreLines
<1>4. /\ N \in Nat /\ L \in Nat /\ DOMAIN q = 1 .. N /\ (q = <<>> <=> N = 0)
      /\ \A n \in 1 .. N : q[n] \in Nat \X Nat
  BY <1>3
<1>5. /\ \A n \in 1 .. N : /\ IsLineOf(file, BytesEnds, q[n]) /\ (n = 1 => q[n][1] = 1)
                           /\ n > 1 => q[n][1] = q[n - 1][2] + 1
      /\ IF q = <<>> THEN file = <<>> ELSE q[N][2] = L
  BY <1>1 DEF Adjoin
<1>6. /\ h[0] = NoRows /\ \A n \in 1 .. N : h[n] = LineStep(file, 0, h[n - 1], q[n])
      /\ \A n \in 0 .. N : h[n] \in Scans
      /\ h[N] = ScanLines(NoRows, file, q, 0)
  BY <1>2 DEF IsScanning
<1>7. \A n, m \in 1 .. N : n < m => q[n][1] < q[m][1]
  BY <1>3, <1>4 DEF Grows
<1>b. file = <<>> => L = 0
  OBVIOUS
<1> HIDE DEF N, L
<1>8. ASSUME NEW n \in 1 .. N
      PROVE  /\ q[n] = <<q[n][1], q[n][2]>> /\ q[n][1] \in Nat /\ q[n][2] \in Nat
             /\ 1 <= q[n][1] /\ q[n][1] <= q[n][2] /\ q[n][2] <= L
  <2> DEFINE l == q[n]
  <2>1. l \in Nat \X Nat /\ IsLineOf(file, BytesEnds, l)
    BY <1>4, <1>5
  <2>2. l = <<l[1], l[2]>> /\ l[1] \in Nat /\ l[2] \in Nat
    BY <2>1
  <2>3. 1 <= l[1] /\ l[1] <= l[2] /\ l[2] <= L
    BY <2>1 DEF IsLineOf, IsLineEnd, L
  <2> QED BY <2>2, <2>3
<1>9. ASSUME NEW n \in 1 .. N, NEW m \in 1 .. N, q[n][2] = q[m][2] PROVE n = m
  <2> DEFINE a == q[n][1]
             b == q[m][1]
             z == q[n][2]
  <2>1. q[n] = <<a, z>> /\ q[m] = <<b, z>> /\ a \in Nat /\ b \in Nat /\ z \in Nat
    BY <1>8, <1>9
  <2>2. IsLineOf(file, BytesEnds, <<a, z>>) /\ IsLineOf(file, BytesEnds, <<b, z>>)
    BY <1>5, <2>1
  <2>3. ~(n < m) /\ ~(m < n) => n = m
    BY <1>4
  <2>4. (n < m => a < b) /\ (m < n => b < a)
    BY <1>7
  <2> HIDE DEF a, b, z
  <2>5. a = b
    BY <2>1, <2>2, OneLineEnds
  <2> QED BY <2>1, <2>3, <2>4, <2>5
<1> DEFINE place(z) == CHOOSE n \in 1 .. N : q[n][2] = z
           H == [z \in 0 .. L |-> IF z = 0 THEN NoRows ELSE h[place(z)]]
<1>10. \A n \in 1 .. N : place(q[n][2]) = n
  BY <1>9
<1>11. H[0] = NoRows
  BY <1>4
<1>12. \A n \in 1 .. N : H[q[n][2]] = h[n]
  <2> SUFFICES ASSUME NEW n \in 1 .. N PROVE H[q[n][2]] = h[n]
    OBVIOUS
  <2> DEFINE z == q[n][2]
  <2>1. z \in 0 .. L /\ z # 0 /\ place(z) = n
    BY <1>4, <1>8, <1>10
  <2> HIDE DEF z, place
  <2>2. H[z] = h[place(z)]
    BY <2>1
  <2> QED BY <2>1, <2>2 DEF z
<1> HIDE DEF H, place
<1>13. ASSUME NEW a \in Nat, NEW z \in Nat, IsLineOf(file, BytesEnds, <<a, z>>)
       PROVE  H[z] = LineStep(file, 0, H[a - 1], <<a, z>>) /\ H[z] \in Scans
  <2>1. <<a, z>> \in ToSet(q)
    BY <1>3, <1>13
  <2>2. PICK n \in 1 .. N : q[n] = <<a, z>>
    BY <1>4, <2>1 DEF ToSet
  <2>3. q[n][1] = a /\ q[n][2] = z
    BY <2>2
  <2>4. H[z] = h[n] /\ n \in 0 .. N
    BY <1>4, <1>12, <2>3
  <2>5. H[a - 1] = h[n - 1]
    <3>1. CASE n = 1
      <4>1. a - 1 = 0 /\ n - 1 = 0
        BY <1>5, <2>3, <3>1
      <4> QED BY <1>6, <1>11, <4>1
    <3>2. CASE n # 1
      <4>1. n - 1 \in 1 .. N /\ n > 1
        BY <1>4, <3>2
      <4>2. q[n - 1][2] \in Nat
        BY <1>8, <4>1
      <4>3. a - 1 = q[n - 1][2]
        BY <1>5, <2>3, <4>1, <4>2
      <4> QED BY <1>12, <4>1, <4>3
    <3> QED BY <3>1, <3>2
  <2>6. h[n] = LineStep(file, 0, h[n - 1], <<a, z>>) /\ h[n] \in Scans
    <3>1. h[n] = LineStep(file, 0, h[n - 1], q[n])
      BY <1>6
    <3> QED BY <1>6, <2>2, <2>4, <3>1
  <2> QED BY <2>4, <2>5, <2>6
<1>14. ASSUME NEW z, IsLineEnd(file, BytesEnds, z) PROVE H[z] \in Scans
  <2>1. PICK a \in 1 .. z : IsLineOf(file, BytesEnds, <<a, z>>)
    BY <1>14, EndsEnd
  <2>2. z \in Nat
    BY <1>14 DEF IsLineEnd
  <2>3. a \in Nat
    BY <2>2
  <2> QED BY <1>13, <2>1, <2>2, <2>3
<1>15. H[L] = h[N]
  <2>1. CASE N = 0
    <3>1. L = 0
      BY <1>4, <1>5, <1>b, <2>1
    <3> QED BY <1>6, <1>11, <2>1, <3>1
  <2>2. CASE N # 0
    <3>1. N \in 1 .. N /\ q[N][2] = L
      BY <1>4, <1>5, <2>2
    <3> QED BY <1>12, <3>1
  <2> QED BY <2>1, <2>2
<1>16. HasScans(H, file)
  BY <1>11, <1>13, <1>14, NoRowsIs DEF HasScans
<1>17. WholeRows(file) = DropShort(H[Len(file)]).rows
  <2>1. WholeRows(file) = DropShort(ScanLines(NoRows, file, q, 0)).rows
    BY DEF WholeRows, q
  <2>2. ScanLines(NoRows, file, q, 0) = H[L]
    BY <1>6, <1>15
  <2> QED BY <2>1, <2>2 DEF L
<1> QED BY <1>16, <1>17

HasNoReturns(file) == \A k \in DOMAIN file : file[k] # "CR"

\* A part of a file that ends where the file or a line of it ends.
IsPart(file, d, f) ==
    /\ d <= f /\ f <= Len(file)
    /\ d = 0 \/ file[d] \in BytesEnds
    /\ f = Len(file) \/ f = d \/ file[f] \in BytesEnds

\* The ends of the lines of such a part are ends of lines of the file.
LEMMA EndsOfWindow ==
    ASSUME NEW Value, NEW file \in Seq(Value), HasNoReturns(file), NEW d \in Nat, NEW f \in Nat,
           IsPart(file, d, f), NEW k \in 1 .. f - d
    PROVE  IsLineEnd(Window(file, d, f), BytesEnds, k) <=> IsLineEnd(file, BytesEnds, d + k)
<1> DEFINE t == Window(file, d, f)
           L == Len(file)
<1>1. /\ L \in Nat /\ d <= f /\ f <= L
      /\ f = L \/ f = d \/ file[f] \in BytesEnds
  BY DEF IsPart
<1>2. Len(t) = f - d /\ t[k] = file[d + k]
  BY <1>1, WindowIs
<1>3. d + k \in 1 .. L /\ file[d + k] # "CR"
  BY <1>1 DEF HasNoReturns
<1>4. IsLineEnd(file, BytesEnds, d + k) <=> file[d + k] \in BytesEnds \/ d + k = L
  BY <1>3 DEF IsLineEnd, BytesEnds
<1>5. IsLineEnd(t, BytesEnds, k) <=> file[d + k] \in BytesEnds \/ k = f - d
  BY <1>2, <1>3 DEF IsLineEnd, BytesEnds
<1>6. d + k = L => k = f - d
  BY <1>1
<1>7. k = f - d => d + k = f /\ f # d
  BY <1>1
<1> QED BY <1>1, <1>4, <1>5, <1>6, <1>7

\* So the lines of the part are lines of the file.
LEMMA LineOfWindow ==
    ASSUME NEW Value, NEW file \in Seq(Value), HasNoReturns(file), NEW d \in Nat, NEW f \in Nat,
           IsPart(file, d, f), NEW a \in Nat, NEW z \in Nat,
           IsLineOf(Window(file, d, f), BytesEnds, <<a, z>>)
    PROVE  /\ 1 <= a /\ a <= z /\ z <= f - d
           /\ IsLineOf(file, BytesEnds, <<d + a, d + z>>)
           /\ LineText(Window(file, d, f), <<a, z>>, BytesEnds)
                 = LineText(file, <<d + a, d + z>>, BytesEnds)
<1> DEFINE t == Window(file, d, f)
           L == Len(file)
           ends == BytesEnds
<1>1. /\ 1 <= a /\ a <= z /\ IsLineEnd(t, ends, z)
      /\ \A k \in a .. z - 1 : ~IsLineEnd(t, ends, k)
      /\ a = 1 \/ IsLineEnd(t, ends, a - 1)
  BY DEF IsLineOf
<1>2. L \in Nat /\ d <= f /\ f <= L /\ (d = 0 \/ file[d] \in ends)
  BY DEF IsPart
<1>3. Len(t) = f - d
  BY <1>2, WindowIs
<1>4. z \in 1 .. f - d
  BY <1>1, <1>3 DEF IsLineEnd
<1>5. \A k \in 1 .. f - d : IsLineEnd(t, ends, k) <=> IsLineEnd(file, ends, d + k)
  BY EndsOfWindow
<1> HIDE DEF t, L, ends
<1>6. IsLineEnd(file, ends, d + z)
  BY <1>1, <1>4, <1>5
<1>7. ASSUME NEW k \in d + a .. d + z - 1 PROVE ~IsLineEnd(file, ends, k)
  <2>1. k - d \in a .. z - 1 /\ k - d \in 1 .. f - d /\ d + (k - d) = k
    BY <1>1, <1>4
  <2> QED BY <1>1, <1>5, <2>1
<1>8. d + a = 1 \/ IsLineEnd(file, ends, (d + a) - 1)
  <2>1. CASE a # 1
    <3>1. a - 1 \in 1 .. f - d /\ d + (a - 1) = (d + a) - 1
      BY <1>1, <1>4, <2>1
    <3>2. IsLineEnd(t, ends, a - 1)
      BY <1>1, <2>1
    <3> QED BY <1>5, <3>1, <3>2
  <2>2. CASE a = 1 /\ d # 0
    <3>1. d \in 1 .. L /\ (d + a) - 1 = d
      BY <1>2, <2>2
    <3>2. file[d] \in ends /\ file[d] # "CR"
      BY <1>2, <2>2, <3>1 DEF HasNoReturns, L
    <3>3. IsLineEnd(file, ends, d)
      BY <3>1, <3>2 DEF IsLineEnd, L
    <3> QED BY <3>1, <3>3
  <2>3. CASE a = 1 /\ d = 0
    BY <2>3
  <2> QED BY <2>1, <2>2, <2>3
<1>9. 1 <= d + a /\ d + a <= d + z
  BY <1>1
<1>10. IsLineOf(file, ends, <<d + a, d + z>>)
  BY <1>6, <1>7, <1>8, <1>9 DEF IsLineOf
<1>11. LineText(t, <<a, z>>, ends) = LineText(file, <<d + a, d + z>>, ends)
  <2> DEFINE x == SubSeq(t, a, z)
             y == SubSeq(file, d + a, d + z)
  <2>1. x = y
    <3>1. z <= f - d
      BY <1>4
    <3>2. f <= L /\ d <= f
      BY <1>2
    <3>3. 1 <= a /\ z <= f - d /\ d <= f /\ f <= Len(file) /\ file \in Seq(Value)
      BY <1>1, <3>1, <3>2 DEF L
    <3>4. SubSeq(SubSeq(file, d + 1, f), a, z) = SubSeq(file, d + a, d + z)
      BY <3>3
    <3> QED BY <3>4 DEF t, Window
  <2>2. LineText(t, <<a, z>>, ends) = Without(x, ends)
    BY DEF LineText, Without
  <2>3. LineText(file, <<d + a, d + z>>, ends) = Without(y, ends)
    BY DEF LineText, Without
  <2> HIDE DEF x, y
  <2> QED BY <2>1, <2>2, <2>3
<1> QED BY <1>1, <1>4, <1>10, <1>11 DEF t, ends

\* Reading the lines of a part leads from the state at its start to the state at its end.
LEMMA PartIsScanned ==
    ASSUME NEW Value, NEW file \in Seq(Value), HasNoReturns(file), NEW H, HasScans(H, file),
           NEW d \in Nat, NEW f \in Nat, IsPart(file, d, f),
           NEW s \in Seq(Value), f - d <= Len(s), SubSeq(s, 1, f - d) = Window(file, d, f)
    PROVE  ScanLines(H[d], s, Lines(Window(file, d, f), BytesEnds), d) = H[f]
<1> DEFINE t == Window(file, d, f)
           q == Lines(t, BytesEnds)
           N == Len(q)
           m == f - d
           ends == BytesEnds
<1>1. /\ m \in Nat /\ m \in 0 .. Len(s) /\ t \in Seq(Value) /\ Len(t) = m /\ SubSeq(s, 1, m) = t
      /\ d <= f /\ (d = 0 \/ file[d] \in ends) /\ d <= Len(file)
  <2>1. d <= f /\ f <= Len(file) /\ (d = 0 \/ file[d] \in ends)
    BY DEF IsPart
  <2>2. t \in Seq(Value) /\ Len(t) = m
    BY <2>1, WindowIs
  <2> QED BY <2>1, <2>2
<1>2. Adjoin(q, t, ends) /\ AreTextLines(q, Value, t)
  BY <1>1, LinesAdjoin, LinesAreText
<1>w. \A a, z \in Nat : IsLineOf(t, ends, <<a, z>>) =>
         /\ 1 <= a /\ a <= z /\ z <= m
         /\ IsLineOf(file, ends, <<d + a, d + z>>)
         /\ LineText(t, <<a, z>>, ends) = LineText(file, <<d + a, d + z>>, ends)
  BY LineOfWindow
<1>s. \A l \in Nat \X Nat : 1 <= l[1] /\ l[2] <= m => LineText(t, l, ends) = LineText(s, l, ends)
  <2> HIDE DEF m, t, ends
  <2> SUFFICES ASSUME NEW l \in Nat \X Nat, 1 <= l[1], l[2] <= m
               PROVE  LineText(t, l, ends) = LineText(s, l, ends)
    OBVIOUS
  <2>1. LineText(SubSeq(s, 1, m), l, ends) = LineText(s, l, ends)
    BY <1>1, LineTextOfFront
  <2> QED BY <1>1, <2>1
<1>3. H[d] \in Scans
  <2>1. CASE d = 0
    BY <2>1 DEF HasScans
  <2>2. CASE d # 0
    <3>1. d \in 1 .. Len(file) /\ file[d] \in BytesEnds /\ file[d] # "CR"
      BY <1>1, <2>2 DEF HasNoReturns
    <3>2. IsLineEnd(file, BytesEnds, d)
      BY <3>1 DEF IsLineEnd
    <3> QED BY <3>2 DEF HasScans
  <2> QED BY <2>1, <2>2
<1> HIDE DEF q, t, m, ends
<1>4. /\ q \in Seq(Nat \X Nat) /\ N \in Nat /\ \A n \in 1 .. N : q[n] \in Nat \X Nat
      /\ \A n \in 1 .. N : /\ IsLineOf(t, ends, q[n])
                           /\ n = 1 => q[n][1] = 1
                           /\ n > 1 => q[n][1] = q[n - 1][2] + 1
                           /\ LineText(t, q[n], ends) \in Seq(Value)
      /\ IF q = <<>> THEN t = <<>> ELSE q[N][2] = m
  BY <1>1, <1>2 DEF Adjoin, AreTextLines, ends
<1>b. (q = <<>> <=> N = 0) /\ (t = <<>> => m = 0)
  BY <1>1, <1>4
<1> HIDE DEF N
<1>5. ASSUME NEW n \in 1 .. N
      PROVE  /\ q[n] = <<q[n][1], q[n][2]>> /\ q[n][1] \in Nat /\ q[n][2] \in Nat
             /\ 1 <= q[n][1] /\ q[n][2] <= m
             /\ IsLineOf(file, ends, <<d + q[n][1], d + q[n][2]>>)
             /\ LineText(s, q[n], ends) = LineText(t, q[n], ends)
             /\ LineText(s, q[n], ends) = LineText(file, <<d + q[n][1], d + q[n][2]>>, ends)
  <2> DEFINE l == q[n]
             a == l[1]
             z == l[2]
  <2>1. l \in Nat \X Nat /\ IsLineOf(t, ends, l)
    BY <1>4
  <2> HIDE DEF l
  <2>2. l = <<a, z>> /\ a \in Nat /\ z \in Nat
    BY <2>1
  <2> HIDE DEF a, z
  <2>3. IsLineOf(t, ends, <<a, z>>)
    BY <2>1, <2>2
  <2>4. /\ 1 <= a /\ a <= z /\ z <= m /\ IsLineOf(file, ends, <<d + a, d + z>>)
        /\ LineText(t, <<a, z>>, ends) = LineText(file, <<d + a, d + z>>, ends)
    BY <1>w, <2>2, <2>3
  <2>5. LineText(t, l, ends) = LineText(s, l, ends)
    BY <1>s, <2>1, <2>4 DEF a, z
  <2>6. LineText(s, l, ends) = LineText(file, <<d + a, d + z>>, ends)
    BY <2>2, <2>4, <2>5
  <2>7. l = <<a, z>> /\ a \in Nat /\ z \in Nat
    BY <2>2
  <2> QED BY <2>4, <2>5, <2>6, <2>7 DEF l, a, z
<1>6. AreTextLines(q, Value, s)
  BY <1>4, <1>5 DEF AreTextLines, N, ends
<1>7. PICK h : IsScanning(h, H[d], s, q, d)
  BY <1>3, <1>6, LineSteps
<1>8. /\ h[0] = H[d] /\ \A n \in 1 .. N : h[n] = LineStep(s, d, h[n - 1], q[n])
      /\ h[N] = ScanLines(H[d], s, q, d)
  BY <1>7 DEF IsScanning, N
<1> DEFINE at(n) == d + IF n = 0 THEN 0 ELSE q[n][2]
           reached == {n \in 0 .. N : h[n] = H[at(n)]}
<1>9. 0 \in reached
  BY <1>4, <1>8
<1>10. ASSUME NEW n \in 0 .. N - 1, n \in reached PROVE n + 1 \in reached
  <2> DEFINE k == n + 1
             l == q[k]
             a == l[1]
             z == l[2]
             text == LineText(s, l, ends)
  <2>1. k \in 1 .. N /\ k \in 0 .. N /\ k - 1 = n /\ k # 0 /\ n \in Nat /\ n \in 0 .. N
    BY <1>4
  <2>2. h[n] = H[at(n)]
    BY <1>10
  <2>3. h[k] = LineStep(s, d, h[n], l)
    BY <1>8, <2>1
  <2>4. /\ l = <<a, z>> /\ a \in Nat /\ z \in Nat /\ IsLineOf(file, ends, <<d + a, d + z>>)
        /\ text = LineText(file, <<d + a, d + z>>, ends)
    BY <1>5, <2>1
  <2>5. at(n) = d + a - 1
    <3>1. CASE n = 0
      <4>1. k = 1 /\ 1 \in 1 .. N /\ at(n) = d + 0
        BY <2>1, <3>1
      <4>2. q[1][1] = 1
        BY <1>4, <4>1
      <4>3. a = 1
        BY <4>1, <4>2
      <4> HIDE DEF a, at
      <4> QED BY <4>1, <4>3
    <3>2. CASE n # 0
      <4>1. n \in 1 .. N /\ k > 1
        BY <2>1, <3>2
      <4>2. a = q[n][2] + 1 /\ q[n][2] \in Nat
        <5>1. a = q[k - 1][2] + 1
          BY <1>4, <2>1, <4>1
        <5> QED BY <1>5, <2>1, <4>1, <5>1
      <4> QED BY <3>2, <4>2
    <3> QED BY <3>1, <3>2
  <2>6. at(k) = d + z
    BY <2>1
  <2> HIDE DEF at, reached
  <2>7. H[d + z] = LineStep(file, 0, H[d + a - 1], <<d + a, d + z>>)
    <3> HIDE DEF a, z
    <3>1. d + a \in Nat /\ d + z \in Nat /\ (d + a) - 1 = d + a - 1
      BY <2>4
    <3> QED BY <2>4, <3>1 DEF HasScans, ends
  <2>8. LineStep(file, 0, H[d + a - 1], <<d + a, d + z>>) = TableLine(H[d + a - 1], text, d + a - 1)
    <3>1. 0 + (d + a) - 1 = d + a - 1
      BY <2>4
    <3> HIDE DEF a, z, text
    <3>2. LineStep(file, 0, H[d + a - 1], <<d + a, d + z>>)
             = TableLine(H[d + a - 1], LineText(file, <<d + a, d + z>>, ends), 0 + (d + a) - 1)
      BY DEF LineStep, ends
    <3> QED BY <2>4, <3>1, <3>2
  <2>9. h[k] = TableLine(h[n], text, d + a - 1)
    BY <2>3 DEF LineStep, ends
  <2> HIDE DEF k, a, z, text, l
  <2>10. h[k] = H[at(k)]
    BY <2>2, <2>5, <2>6, <2>7, <2>8, <2>9
  <2> QED BY <2>1, <2>10 DEF reached, k
<1>11. N \in reached
  <2> HIDE DEF reached
  <2>1. \A n \in 0 .. N : n \in reached
    BY <1>4, <1>9, <1>10, Upwards
  <2> QED BY <1>4, <2>1
<1>12. at(N) = f
  <2>1. CASE N = 0
    <3>1. m = 0
      BY <1>4, <1>b, <2>1
    <3>2. d = f
      BY <1>1, <3>1 DEF m
    <3> QED BY <2>1, <3>2
  <2>2. CASE N # 0
    <3>1. q[N][2] = m /\ at(N) = d + q[N][2]
      BY <1>4, <1>b, <2>2
    <3>2. d + m = f
      BY <1>1 DEF m
    <3> HIDE DEF at
    <3> QED BY <3>1, <3>2
  <2> QED BY <2>1, <2>2
<1> HIDE DEF at
<1>13. h[N] = H[f]
  BY <1>11, <1>12
<1> QED BY <1>8, <1>13 DEF q, t

\* A scan has read the file as far as c: state has the scan of the lines that ended and what
\* follows the last of them.
IsRowsRead(state, H, file, c) ==
    \E d \in 0 .. c : /\ state.carry = Window(file, d, c)
                      /\ \A k \in d + 1 .. c : file[k] \notin BytesEnds
                      /\ d = 0 \/ file[d] \in BytesEnds
                      /\ state.offset = d /\ state.scan = H[d]

\* What a block leaves behind, in a file without CR.
LEMMA RowsOfBlockAreRead ==
    ASSUME NEW Value, NEW file \in Seq(Value), HasNoReturns(file), NEW H, HasScans(H, file),
           NEW c \in Nat, NEW e \in Nat, c < e, e <= Len(file),
           NEW state, IsRowsRead(state, H, file, c)
    PROVE  IsRowsRead(TablesOfBlock(state, Window(file, c, e)), H, file, e)
<1>1. PICK d \in 0 .. c : /\ state.carry = Window(file, d, c)
                          /\ \A k \in d + 1 .. c : file[k] \notin BytesEnds
                          /\ d = 0 \/ file[d] \in BytesEnds
                          /\ state.offset = d /\ state.scan = H[d]
  BY DEF IsRowsRead
<1> DEFINE s == state.carry \o Window(file, c, e)
           next == TablesOfBlock(state, Window(file, c, e))
           q == Lines(s, BytesEnds)
           rest == SubSeq(s, Last(q)[1], Len(s))
<1>2. d \in Nat /\ d <= c /\ d <= e /\ d < e
  OBVIOUS
<1>3. s = Window(file, d, e)
  BY <1>1, <1>2, WindowsJoin
<1>4. s \in Seq(Value) /\ Len(s) = e - d /\ \A k \in 1 .. e - d : s[k] = file[d + k]
  <2> HIDE DEF s
  <2> QED BY <1>2, <1>3, WindowIs
<1>5. next = IF EndsLine(s)
             THEN [scan |-> ScanLines(H[d], s, q, d), offset |-> d + Len(s) - Len(<<>>),
                   carry |-> <<>>]
             ELSE [scan |-> ScanLines(H[d], s, Front(q), d), offset |-> d + Len(s) - Len(rest),
                   carry |-> rest]
  BY <1>1 DEF TablesOfBlock
<1> HIDE DEF s, next
<1>6. e - d \in 1 .. e - d /\ s # <<>> /\ s[Len(s)] = file[e] /\ e \in DOMAIN file
  <2>1. d + (e - d) = e /\ e - d \in 1 .. e - d
    BY <1>2
  <2>2. s # <<>>
    BY <1>2, <1>4
  <2> QED BY <1>2, <1>4, <2>1, <2>2
<1>7. CASE EndsLine(s)
  <2>1. file[e] \in BytesEnds
    BY <1>6, <1>7 DEF EndsLine, BytesEnds
  <2>2. IsPart(file, d, e)
    BY <1>1, <1>2, <2>1 DEF IsPart
  <2>3. SubSeq(s, 1, e - d) = Window(file, d, e) /\ e - d <= Len(s)
    <3>1. SubSeq(s, 1, Len(s)) = s
      BY <1>4
    <3> QED BY <1>2, <1>3, <1>4, <3>1
  <2>4. ScanLines(H[d], s, Lines(Window(file, d, e), BytesEnds), d) = H[e]
    <3>1. \A x \in Seq(Value) : e - d <= Len(x) /\ SubSeq(x, 1, e - d) = Window(file, d, e) =>
             ScanLines(H[d], x, Lines(Window(file, d, e), BytesEnds), d) = H[e]
      BY <1>2, <2>2, PartIsScanned
    <3> QED BY <1>4, <2>3, <3>1
  <2>5. ScanLines(H[d], s, q, d) = H[e]
    BY <1>3, <2>4
  <2> HIDE DEF q, rest
  <2>6. next.scan = H[e] /\ next.offset = d + Len(s) - Len(<<>>) /\ next.carry = <<>>
    BY <1>5, <1>7, <2>5
  <2>7. next.offset = e
    <3>1. Len(<<>>) = 0
      OBVIOUS
    <3> QED BY <1>2, <1>4, <2>6, <3>1
  <2>8. Window(file, e, e) = <<>> /\ e \in 0 .. e /\ \A k \in e + 1 .. e : file[k] \notin BytesEnds
    BY <1>2 DEF Window
  <2> QED BY <2>1, <2>6, <2>7, <2>8 DEF IsRowsRead, next
<1>8. CASE ~EndsLine(s)
  <2>1. file[e] \notin BytesEnds
    BY <1>6, <1>8 DEF EndsLine, BytesEnds
  <2>2. PICK a : IsLastLine(s, BytesEnds, a)
    BY <1>4, <1>6, LastLineIs
  <2> DEFINE f == d + a - 1
             t == SubSeq(s, 1, a - 1)
  <2>3. /\ a \in 1 .. e - d /\ (a = 1 \/ IsLineEnd(s, BytesEnds, a - 1))
        /\ \A k \in a .. e - d - 1 : ~IsLineEnd(s, BytesEnds, k)
    BY <1>4, <2>2 DEF IsLastLine
  <2>4. f \in Nat /\ f \in d .. e - 1 /\ f \in 0 .. e /\ a - 1 = f - d /\ f < e /\ d <= f
    BY <1>2, <2>3
  <2>5. t = Window(file, d, f) /\ SubSeq(s, 1, f - d) = Window(file, d, f) /\ f - d <= Len(s)
    <3>1. t = Window(file, d, f)
      BY <1>2, <1>3, <2>3 DEF Window
    <3> HIDE DEF f
    <3> QED BY <1>2, <1>4, <2>4, <3>1
  <2>6. SubSeq(s, a, e - d) = Window(file, f, e)
    BY <1>2, <1>3, <2>3 DEF Window
  <2>a. \A k \in 1 .. e - d : s[k] = file[d + k] /\ file[d + k] # "CR" /\ k \in 1 .. Len(s)
    <3> SUFFICES ASSUME NEW k \in 1 .. e - d
                 PROVE  s[k] = file[d + k] /\ file[d + k] # "CR" /\ k \in 1 .. Len(s)
      OBVIOUS
    <3>1. d + k \in DOMAIN file
      BY <1>2
    <3> QED BY <1>4, <3>1 DEF HasNoReturns
  <2>7. \A k \in f + 1 .. e : file[k] \notin BytesEnds
    <3> SUFFICES ASSUME NEW k \in f + 1 .. e PROVE file[k] \notin BytesEnds
      OBVIOUS
    <3>1. CASE k = e
      BY <2>1, <3>1
    <3>2. CASE k # e
      <4> DEFINE i == k - d
      <4>1. i \in a .. e - d - 1 /\ i \in 1 .. e - d /\ d + i = k
        BY <1>2, <2>3, <3>2
      <4> HIDE DEF i
      <4>2. ~IsLineEnd(s, BytesEnds, i) /\ s[i] = file[k] /\ file[k] # "CR" /\ i \in 1 .. Len(s)
        BY <2>3, <2>a, <4>1
      <4> QED BY <4>2 DEF IsLineEnd, BytesEnds
    <3> QED BY <3>1, <3>2
  <2>8. f = 0 \/ file[f] \in BytesEnds
    <3>1. CASE a = 1
      BY <1>1, <1>2, <3>1
    <3>2. CASE a # 1
      <4> DEFINE i == a - 1
      <4>1. i \in 1 .. e - d /\ d + i = f /\ i # e - d
        BY <1>2, <2>3, <3>2
      <4>2. IsLineEnd(s, BytesEnds, i) /\ i # Len(s)
        BY <1>4, <2>3, <3>2, <4>1
      <4>3. s[i] = file[f] /\ file[f] # "CR"
        BY <2>a, <4>1
      <4> HIDE DEF i, f
      <4> QED BY <4>2, <4>3 DEF IsLineEnd
    <3> QED BY <3>1, <3>2
  <2>9. /\ q # <<>> /\ Last(q) = <<a, Len(s)>>
        /\ Front(q) = Lines(t, BytesEnds)
    BY <1>4, <2>2, FrontOfLines
  <2> HIDE DEF q, t, f
  <2>10. rest = Window(file, f, e)
    <3>1. Last(q)[1] = a
      BY <2>9
    <3>2. rest = SubSeq(s, a, e - d)
      BY <1>4, <3>1
    <3> QED BY <2>6, <3>2
  <2>11. Len(rest) = e - f
    <3>1. f <= e
      BY <1>2, <2>4
    <3> QED BY <2>4, <2>10, <3>1, WindowIs
  <2>12. ScanLines(H[d], s, Front(q), d) = H[f]
    <3>1. IsPart(file, d, f)
      <4>1. f <= Len(file)
        BY <2>4
      <4>2. f = d \/ f # 0
        BY <1>2, <2>4
      <4> QED BY <1>1, <2>4, <2>8, <4>1, <4>2 DEF IsPart
    <3>2. ScanLines(H[d], s, Lines(Window(file, d, f), BytesEnds), d) = H[f]
      <4>1. \A x \in Seq(Value) : f - d <= Len(x) /\ SubSeq(x, 1, f - d) = Window(file, d, f) =>
               ScanLines(H[d], x, Lines(Window(file, d, f), BytesEnds), d) = H[f]
        BY <1>2, <2>4, <3>1, PartIsScanned
      <4> QED BY <1>4, <2>5, <4>1
    <3> QED BY <2>5, <2>9, <3>2
  <2> HIDE DEF rest
  <2>13. next.scan = H[f] /\ next.offset = d + Len(s) - Len(rest) /\ next.carry = Window(file, f, e)
    BY <1>5, <1>8, <2>10, <2>12
  <2>14. next.offset = f
    BY <1>2, <1>4, <2>4, <2>11, <2>13
  <2> QED BY <2>4, <2>7, <2>8, <2>13, <2>14 DEF IsRowsRead, next
<1> QED BY <1>7, <1>8

RowsStates(Value) == [scan : Scans, offset : Nat, carry : Seq(Value)]

\* A scan of lines of text ends in a state of a scan.
LEMMA ScanLinesIs ==
    ASSUME NEW Value, NEW s \in Seq(Value), NEW scan \in Scans, NEW offset \in Nat,
           NEW lines, AreTextLines(lines, Value, s)
    PROVE  ScanLines(scan, s, lines, offset) \in Scans
<1>1. PICK h : IsScanning(h, scan, s, lines, offset)
  BY LineSteps
<1>2. Len(lines) \in Nat
  BY DEF AreTextLines
<1>3. Len(lines) \in 0 .. Len(lines)
  BY <1>2
<1> QED BY <1>1, <1>3 DEF IsScanning

\* What a block leaves behind is a state of the scan.
LEMMA TablesOfBlockAre ==
    ASSUME NEW Value, NEW state \in RowsStates(Value), NEW block \in Seq(Value), block # <<>>
    PROVE  TablesOfBlock(state, block) \in RowsStates(Value)
<1> DEFINE s == state.carry \o block
           q == Lines(s, BytesEnds)
           L == Len(s)
           rest == SubSeq(s, Last(q)[1], L)
           whole == ScanLines(state.scan, s, q, state.offset)
           front == ScanLines(state.scan, s, Front(q), state.offset)
           n == state.offset + L - Len(<<>>)
           m == state.offset + L - Len(rest)
<1>1. state.scan \in Scans /\ state.offset \in Nat /\ state.carry \in Seq(Value)
  BY DEF RowsStates
<1>2. s \in Seq(Value) /\ s # <<>>
  BY <1>1
<1>3. TablesOfBlock(state, block)
         = IF EndsLine(s) THEN [scan |-> whole, offset |-> n, carry |-> <<>>]
           ELSE [scan |-> front, offset |-> m, carry |-> rest]
  BY DEF TablesOfBlock
<1> HIDE DEF s
<1>4. PICK a : IsLastLine(s, BytesEnds, a)
  BY <1>2, LastLineIs
<1>5. q \in Seq(Nat \X Nat) /\ q # <<>> /\ Last(q) = <<a, L>> /\ AreTextLines(q, Value, s)
  BY <1>2, <1>4, FrontOfLines, LinesAreText
<1>6. L \in Nat /\ a \in 1 .. L
  BY <1>2, <1>4 DEF IsLastLine
<1> HIDE DEF q
<1>7. AreTextLines(Front(q), Value, s)
  <2> DEFINE r == Front(q)
             Y == Nat \X Nat
  <2>1. q \in Seq(Y) /\ Len(q) \in Nat /\ Len(q) >= 1
    BY <1>5
  <2> HIDE DEF Y
  <2>2. r \in Seq(Y) /\ Len(r) = Len(q) - 1 /\ \A k \in 1 .. Len(q) - 1 : r[k] = q[k]
    <3> DEFINE i == Len(q) - 1
    <3>1. r = SubSeq(q, 1, i)
      BY DEF Front
    <3>2. i \in Nat /\ i <= Len(q)
      BY <2>1
    <3> HIDE DEF r, i
    <3>3. SubSeq(q, 1, i) \in Seq(Y) /\ Len(SubSeq(q, 1, i)) = i
      BY <2>1, <3>2
    <3>4. \A k \in 1 .. i : SubSeq(q, 1, i)[k] = q[k]
      BY <2>1, <3>2
    <3>5. r \in Seq(Y) /\ Len(r) = i /\ \A k \in 1 .. i : r[k] = q[k]
      BY <3>1, <3>3, <3>4
    <3> QED BY <3>5 DEF i
  <2>3. \A k \in 1 .. Len(q) - 1 : k \in 1 .. Len(q)
    BY <2>1
  <2> HIDE DEF r
  <2>4. \A k \in 1 .. Len(r) : 1 <= r[k][1] /\ LineText(s, r[k], BytesEnds) \in Seq(Value)
    BY <1>5, <2>2, <2>3 DEF AreTextLines
  <2> QED BY <2>2, <2>4 DEF AreTextLines, r, Y
<1>8. whole \in Scans /\ front \in Scans
  BY <1>1, <1>2, <1>5, <1>7, ScanLinesIs
<1>9. rest \in Seq(Value) /\ Len(rest) \in Nat /\ Len(rest) <= L
  <2>1. Last(q)[1] = a
    BY <1>5
  <2>2. rest = SubSeq(s, a, L)
    BY <2>1
  <2> HIDE DEF rest
  <2>3. SubSeq(s, a, L) \in Seq(Value) /\ Len(SubSeq(s, a, L)) = L - a + 1
    BY <1>2, <1>6
  <2> QED BY <1>6, <2>2, <2>3
<1>10. n \in Nat /\ m \in Nat
  <2>1. Len(<<>>) = 0
    OBVIOUS
  <2> HIDE DEF rest, L
  <2> QED BY <1>1, <1>6, <1>9, <2>1
<1>11. <<>> \in Seq(Value)
  OBVIOUS
<1> HIDE DEF whole, front, rest, n, m
<1> QED BY <1>3, <1>8, <1>9, <1>10, <1>11 DEF RowsStates

RowsStart == [scan |-> NoRows, offset |-> 0, carry |-> <<>>]
RowsAtEnd(file) == FoldLeft(TablesOfBlock, RowsStart, Blocks(file))

\* The blocks are read one after the other.
LEMMA RowsSteps ==
    ASSUME NEW Value, NEW file \in Seq(Value), \A n \in 1 .. Len(Blocks(file)) : Blocks(file)[n] # <<>>
    PROVE  \E h : /\ h[0] = RowsStart
                  /\ \A n \in 1 .. Len(Blocks(file)) :
                        h[n] = TablesOfBlock(h[n - 1], Blocks(file)[n])
                  /\ h[Len(Blocks(file))] = RowsAtEnd(file)
<1> DEFINE seq == Blocks(file)
           N == Len(seq)
           X == RowsStates(Value)
           E == Seq(Value)
           step == [p \in X \X (1 .. N) |-> TablesOfBlock(p[1], seq[p[2]])]
           next(f, left) == IF left = {} THEN RowsStart
                            ELSE TablesOfBlock(f[left \ {Max(left)}], seq[Max(left)])
           isFold(f) == f = [left \in SUBSET DOMAIN seq |-> next(f, left)]
           iter == CHOOSE f : isFold(f)
<1>1. seq \in Seq(E) /\ RowsStart \in X
  <2>1. <<>> \in Seq(Value) /\ NoRows \in Scans
    BY NoRowsIs
  <2>2. RowsStart \in X
    BY <2>1 DEF RowsStart, RowsStates
  <2> QED BY <2>2, BlocksAre
<1>2. \A x \in X, e \in E : e # <<>> => TablesOfBlock(x, e) \in X
  BY TablesOfBlockAre
<1>3. RowsAtEnd(file) = iter[DOMAIN seq]
  BY DEF RowsAtEnd, FoldLeft, MapThenFoldSet
<1>b. \A n \in 1 .. N : seq[n] # <<>>
  OBVIOUS
<1> HIDE DEF iter, X, E, seq
<1>4. N \in Nat /\ DOMAIN seq = 1 .. N /\ \A n \in 1 .. N : seq[n] \in E
  BY <1>1
<1> HIDE DEF N
<1>5. step \in [X \X (1 .. N) -> X]
  <2>1. \A x \in X, n \in 1 .. N : TablesOfBlock(x, seq[n]) \in X
    BY <1>2, <1>4, <1>b
  <2> QED BY <2>1
<1>6. PICK f : Folds(f, N, X, RowsStart, step)
  <2> HIDE DEF step
  <2> QED BY <1>1, <1>4, <1>5, FoldExists
<1>7. ASSUME NEW left \in SUBSET (1 .. N), left # {}
      PROVE  /\ Max(left) \in 1 .. N /\ left \ {Max(left)} \in SUBSET (1 .. N)
             /\ \A x \in X : step[<<x, Max(left)>>] = TablesOfBlock(x, seq[Max(left)])
  <2>1. left \in SUBSET (0 .. N)
    OBVIOUS
  <2>2. Max(left) \in left
    BY <1>4, <1>7, <2>1, GreatestNumber
  <2> QED BY <2>2
<1>a. \A x \in X, n \in 1 .. N : step[<<x, n>>] = TablesOfBlock(x, seq[n])
  OBVIOUS
<1> HIDE DEF step
<1>8. isFold(f)
  <2>1. f \in [SUBSET (1 .. N) -> X]
    BY <1>6 DEF Folds
  <2>2. ASSUME NEW left \in SUBSET (1 .. N) PROVE f[left] = next(f, left)
    BY <1>6, <1>7 DEF Folds
  <2> HIDE DEF next
  <2> QED BY <1>4, <2>1, <2>2
<1>9. isFold(iter)
  <2> HIDE DEF isFold
  <2> QED BY <1>8 DEF iter
<1>10. \A left \in SUBSET (1 .. N) : iter[left] = next(iter, left)
  <2> HIDE DEF next
  <2> QED BY <1>4, <1>9
<1>11. Recurs(iter, N, X, RowsStart, step)
  <2> SUFFICES ASSUME NEW left \in SUBSET (1 .. N)
               PROVE  IF left = {} THEN iter[left] = RowsStart
                      ELSE iter[left \ {Max(left)}] \in X =>
                              iter[left] = step[<<iter[left \ {Max(left)}], Max(left)>>]
    BY DEF Recurs
  <2>1. iter[left] = next(iter, left)
    BY <1>10
  <2> QED BY <1>7, <2>1
<1>12. PICK h : Steps(h, N, X, RowsStart, step, iter[1 .. N])
  BY <1>1, <1>4, <1>5, <1>11, FoldSteps
<1>13. ASSUME NEW n \in 1 .. N PROVE h[n] = TablesOfBlock(h[n - 1], seq[n])
  <2>1. h[n - 1] \in X /\ h[n] = step[<<h[n - 1], n>>]
    BY <1>4, <1>12 DEF Steps
  <2> QED BY <1>a, <2>1
<1>14. h[0] = RowsStart /\ h[N] = RowsAtEnd(file)
  BY <1>3, <1>4, <1>12 DEF Steps
<1> QED BY <1>13, <1>14 DEF N, seq

\* The blocks lose no row of a numeric table, cut none and find none twice.
LEMMA RowsDoNotDepend ==
    ASSUME NEW Value, NEW file \in Seq(Value) PROVE RowsAgree(file)
<1> SUFFICES ASSUME "CR" \notin ToSet(file) PROVE WholeRows(file) = LongRows(StreamRows(file))
  BY DEF RowsAgree, LongRows
<1> DEFINE N == Len(Blocks(file))
           L == Len(file)
           end == RowsAtEnd(file)
<1>0. HasNoReturns(file)
  BY DEF HasNoReturns, ToSet
<1>h. PICK H : HasScans(H, file) /\ WholeRows(file) = DropShort(H[Len(file)]).rows
  BY WholeIsScanned
<1>1. PICK c : AreBounds(c, file)
  BY BlocksFollow
<1>3. N \in Nat /\ L \in Nat
  <2>1. Blocks(file) \in Seq(Seq(Value))
    BY BlocksAre
  <2> QED BY <2>1
<1>a. ASSUME NEW n \in 0 .. N - 1
      PROVE  /\ n + 1 \in 1 .. N /\ n + 1 \in 0 .. N /\ n \in 0 .. N /\ (n + 1) - 1 = n
             /\ c[n] \in Nat /\ c[n + 1] \in Nat /\ c[n] < c[n + 1] /\ c[n + 1] <= L
             /\ Blocks(file)[n + 1] = Window(file, c[n], c[n + 1])
  <2>1. n + 1 \in 1 .. N /\ n + 1 \in 0 .. N /\ n \in 0 .. N /\ (n + 1) - 1 = n
    BY <1>3
  <2>2. /\ c[n] \in 0 .. L /\ c[n + 1] \in 0 .. L /\ c[n] < c[n + 1]
        /\ Blocks(file)[n + 1] = Window(file, c[n], c[n + 1])
    BY <1>1, <2>1 DEF AreBounds
  <2> QED BY <1>3, <2>1, <2>2
<1>b. \A n \in 1 .. Len(Blocks(file)) : Blocks(file)[n] # <<>>
  <2> SUFFICES ASSUME NEW n \in 1 .. N PROVE Blocks(file)[n] # <<>>
    OBVIOUS
  <2> DEFINE from == c[n - 1]
             upto == c[(n - 1) + 1]
  <2>1. n - 1 \in 0 .. N - 1 /\ (n - 1) + 1 = n
    BY <1>3
  <2>2. from \in Nat /\ upto \in Nat /\ from < upto /\ upto <= L
    BY <1>a, <2>1
  <2>3. Blocks(file)[n] = Window(file, from, upto)
    BY <1>a, <2>1
  <2> HIDE DEF from, upto
  <2>4. Len(Window(file, from, upto)) = upto - from
    BY <1>3, <2>2, WindowIs
  <2>5. Len(Window(file, from, upto)) # 0
    BY <2>2, <2>4
  <2> QED BY <2>3, <2>5
<1>2. PICK h : /\ h[0] = RowsStart
               /\ \A n \in 1 .. Len(Blocks(file)) :
                     h[n] = TablesOfBlock(h[n - 1], Blocks(file)[n])
               /\ h[Len(Blocks(file))] = RowsAtEnd(file)
  BY <1>b, RowsSteps
<1> DEFINE reached == {n \in 0 .. N : IsRowsRead(h[n], H, file, c[n])}
<1>4. 0 \in reached
  <2>1. c[0] = 0 /\ h[0] = RowsStart
    BY <1>1, <1>2 DEF AreBounds
  <2>2. Window(file, 0, 0) = <<>> /\ \A k \in 0 + 1 .. 0 : file[k] \notin BytesEnds
    BY DEF Window
  <2>4. IsRowsRead(RowsStart, H, file, 0)
    BY <1>h, <2>2 DEF IsRowsRead, RowsStart, HasScans
  <2> QED BY <1>3, <2>1, <2>4
<1>5. ASSUME NEW n \in 0 .. N - 1, n \in reached PROVE n + 1 \in reached
  <2> DEFINE from == c[n]
             upto == c[n + 1]
             state == h[n]
  <2>1. n + 1 \in 1 .. N /\ n + 1 \in 0 .. N /\ (n + 1) - 1 = n
    BY <1>a
  <2>2. /\ from \in Nat /\ upto \in Nat /\ from < upto /\ upto <= Len(file)
        /\ IsRowsRead(state, H, file, from)
    BY <1>5, <1>a
  <2>3. h[n + 1] = TablesOfBlock(state, Window(file, from, upto))
    BY <1>2, <1>a, <2>1
  <2> HIDE DEF reached, from, upto, state
  <2>4. IsRowsRead(TablesOfBlock(state, Window(file, from, upto)), H, file, upto)
    BY <1>0, <1>h, <2>2, RowsOfBlockAreRead
  <2>5. IsRowsRead(h[n + 1], H, file, c[n + 1])
    BY <2>3, <2>4 DEF upto
  <2> USE DEF reached
  <2> QED BY <2>1, <2>5
<1>6. IsRowsRead(end, H, file, L)
  <2>1. N \in reached
    <3> HIDE DEF reached, N
    <3>1. \A n \in 0 .. N : n \in reached
      BY <1>3, <1>4, <1>5, Upwards
    <3> QED BY <1>3, <3>1
  <2> QED BY <1>1, <1>2, <2>1 DEF AreBounds
<1>7. StreamRows(file) = IF end.carry = <<>> THEN end.scan.rows
                         ELSE TableLine(end.scan, end.carry, end.offset).rows
  BY DEF StreamRows, RowsAtEnd, RowsStart
<1> HIDE DEF end
<1>8. PICK d \in 0 .. L : /\ end.carry = Window(file, d, L)
                          /\ \A k \in d + 1 .. L : file[k] \notin BytesEnds
                          /\ d = 0 \/ file[d] \in BytesEnds
                          /\ end.offset = d /\ end.scan = H[d]
  BY <1>6 DEF IsRowsRead
<1>9. d \in Nat /\ d <= L /\ Len(end.carry) = L - d
  <2>1. d \in Nat /\ d <= L /\ L <= Len(file)
    BY <1>3
  <2>2. Len(Window(file, d, L)) = L - d
    BY <1>3, <2>1, WindowIs
  <2> QED BY <1>8, <2>1, <2>2
<1>10. StreamRows(file) = H[L].rows
  <2>1. CASE end.carry = <<>>
    <3>1. d = L
      BY <1>3, <1>9, <2>1
    <3> QED BY <1>7, <1>8, <2>1, <3>1
  <2>2. CASE end.carry # <<>>
    <3> DEFINE line == <<d + 1, L>>
    <3>1. d < L
      <4>1. Window(file, d, d) = <<>>
        BY <1>9 DEF Window
      <4>2. d # L
        BY <1>8, <2>2, <4>1
      <4> QED BY <1>3, <1>9, <4>2
    <3>2. IsLineOf(file, BytesEnds, line)
      <4>1. 1 <= d + 1 /\ d + 1 <= L /\ L \in 1 .. L
        BY <1>3, <1>9, <3>1
      <4>2. IsLineEnd(file, BytesEnds, L)
        BY <4>1 DEF IsLineEnd
      <4>3. ASSUME NEW k \in d + 1 .. L - 1 PROVE ~IsLineEnd(file, BytesEnds, k)
        <5>1. k \in d + 1 .. L /\ k \in 1 .. L /\ k # L
          BY <1>3, <1>9
        <5>2. file[k] \notin BytesEnds /\ file[k] # "CR"
          BY <1>0, <1>8, <5>1 DEF HasNoReturns
        <5> QED BY <5>1, <5>2 DEF IsLineEnd
      <4>4. d + 1 = 1 \/ IsLineEnd(file, BytesEnds, (d + 1) - 1)
        <5>1. CASE d = 0
          BY <5>1
        <5>2. CASE d # 0
          <6>1. d \in 1 .. L /\ (d + 1) - 1 = d
            BY <1>3, <1>9, <5>2
          <6>2. file[d] \in BytesEnds /\ file[d] # "CR"
            BY <1>0, <1>8, <5>2, <6>1 DEF HasNoReturns
          <6>3. IsLineEnd(file, BytesEnds, d)
            BY <6>1, <6>2 DEF IsLineEnd
          <6> QED BY <6>1, <6>3
        <5> QED BY <5>1, <5>2
      <4> HIDE DEF L
      <4> QED BY <4>1, <4>2, <4>3, <4>4 DEF IsLineOf
    <3>3. LineText(file, line, BytesEnds) = end.carry
      <4> DEFINE a == d + 1
      <4>1. a \in Nat /\ HoldsEnds(BytesEnds)
        BY <1>9 DEF HoldsEnds, BytesEnds
      <4>2. PICK b : IsTextOf(file, BytesEnds, <<a, L>>, b)
        <5> HIDE DEF L, a
        <5> QED BY <1>3, <3>2, <4>1, LineTextIs DEF line, a
      <4>3. /\ b \in d .. L /\ \A k \in b + 1 .. L : file[k] \in BytesEnds
            /\ LineText(file, <<a, L>>, BytesEnds) = SubSeq(file, a, b)
        <5>1. a - 1 = d
          BY <1>9
        <5> HIDE DEF L, a
        <5> QED BY <4>2, <5>1 DEF IsTextOf
      <4>4. b = L
        <5> SUFFICES ASSUME b # L PROVE FALSE
          OBVIOUS
        <5> HIDE DEF L
        <5>1. b + 1 \in b + 1 .. L /\ b + 1 \in d + 1 .. L
          BY <1>3, <1>9, <4>3
        <5> QED BY <1>8, <4>3, <5>1
      <4> QED BY <1>8, <4>3, <4>4 DEF Window
    <3>4. H[L] = LineStep(file, 0, H[(d + 1) - 1], line)
      <4>1. d + 1 \in Nat /\ L \in Nat
        BY <1>3, <1>9
      <4> HIDE DEF L
      <4> QED BY <1>h, <3>2, <4>1 DEF HasScans
    <3>5. (d + 1) - 1 = d /\ 0 + line[1] - 1 = d
      BY <1>9
    <3>6. LineStep(file, 0, H[d], line)
             = TableLine(H[d], LineText(file, line, BytesEnds), 0 + line[1] - 1)
      BY DEF LineStep
    <3> HIDE DEF L, line
    <3>7. H[L] = TableLine(end.scan, end.carry, end.offset)
      BY <1>8, <3>3, <3>4, <3>5, <3>6
    <3> QED BY <1>7, <2>2, <3>7
  <2> QED BY <2>1, <2>2
<1>11. H[L] \in Scans
  <2>1. CASE L = 0
    BY <1>h, <2>1 DEF HasScans
  <2>2. CASE L # 0
    <3>1. L \in 1 .. L
      BY <1>3, <2>2
    <3>2. IsLineEnd(file, BytesEnds, L)
      BY <3>1 DEF IsLineEnd
    <3> QED BY <1>h, <3>2 DEF HasScans
  <2> QED BY <2>1, <2>2
<1>12. DropShort(H[L]).rows = LongRows(H[L].rows)
  BY <1>11, LongRowsAre
<1> QED BY <1>h, <1>10, <1>12
------------------------------------------------------------------------------
\* The scans by blocks find the strings, the lines of text and the rows of numeric tables that
\* one look at the file finds, whatever the file is and wherever its blocks end.
THEOREM BlocksLoseNothing ==
    ASSUME NEW Value, NEW file \in Seq(Value),
           subject \in [of : {"strings", "lines", "rows"}, file : {file}]
    PROVE  BlocksScanAsWhole
<1>1. StringsAgree(file) /\ TextAgrees(file) /\ RowsAgree(file)
  BY StringsDoNotDepend, TextDoesNotDepend, RowsDoNotDepend
<1>2. subject.file = file
  OBVIOUS
<1> QED BY <1>1, <1>2 DEF BlocksScanAsWhole
==============================================================================
