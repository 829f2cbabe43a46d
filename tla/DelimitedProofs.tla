-------------------------- MODULE DelimitedProofs ---------------------------
(***************************************************************************)
(* Proofs about the frame decoder: its types, and that its frames are      *)
(* those of the whole input.                                               *)
(***************************************************************************)
EXTENDS Delimited, Induction, SequenceTheorems, FiniteSetTheorems

-----------------------------------------------------------------------------
(* Numbers and slices *)

\* Max and Min give what their names say.
LEMMA MaxIs ==
  ASSUME NEW S \in SUBSET Int, NEW m \in S, \A y \in S : y <= m
  PROVE  Max(S) = m
<1>1. m \in S /\ \A y \in S : m >= y
  OBVIOUS
<1>2. Max(S) \in S /\ \A y \in S : Max(S) >= y
  <2>1. \E x \in S : \A y \in S : x >= y
    BY <1>1
  <2> QED BY <2>1 DEF Max
<1>3. m \in Int /\ Max(S) \in Int
  BY <1>2
<1> QED BY <1>1, <1>2, <1>3

\* The same of Min.
LEMMA MinIs ==
  ASSUME NEW S \in SUBSET Int, NEW m \in S, \A y \in S : m <= y
  PROVE  Min(S) = m
<1>1. m \in S /\ \A y \in S : m =< y
  OBVIOUS
<1>2. Min(S) \in S /\ \A y \in S : Min(S) =< y
  <2>1. \E x \in S : \A y \in S : x =< y
    BY <1>1
  <2> QED BY <2>1 DEF Min
<1>3. m \in Int /\ Min(S) \in Int
  BY <1>2
<1> QED BY <1>1, <1>2, <1>3

\* A nonempty set of numbers below a bound has a largest one.
LEMMA MaxExists ==
  ASSUME NEW n \in Nat, NEW S \in SUBSET (0 .. n), S # {}
  PROVE  Max(S) \in S /\ \A y \in S : y <= Max(S)
<1> DEFINE T == {n - y : y \in S}
<1>1. T \in SUBSET Nat /\ T # {}
  <2>1. \A y \in S : n - y \in Nat
    OBVIOUS
  <2> QED BY <2>1
<1>2. PICK m \in T : \A k \in T : m <= k
  BY <1>1, LeastNumber
<1>3. PICK y \in S : m = n - y
  OBVIOUS
<1>4. ASSUME NEW z \in S
      PROVE  z <= y
  <2>1. m <= n - z
    BY <1>2
  <2> QED BY <2>1, <1>3
<1>5. Max(S) = y
  BY <1>4, MaxIs
<1> QED BY <1>4, <1>5

\* And a smallest one.
LEMMA MinExists ==
  ASSUME NEW S \in SUBSET Nat, S # {}
  PROVE  Min(S) \in S /\ \A y \in S : Min(S) <= y
<1>1. PICK m \in S : \A k \in S : m <= k
  BY LeastNumber
<1>2. Min(S) = m
  BY <1>1, MinIs
<1> QED BY <1>1, <1>2

\* What a slice is.
LEMMA SliceProperties ==
  ASSUME NEW T, NEW s \in Seq(T), NEW i \in Nat, NEW j \in Int, j <= Len(s)
  PROVE  /\ Slice(s, i, j) \in Seq(T)
         /\ Len(Slice(s, i, j)) = (IF i <= j THEN j - i ELSE 0)
         /\ \A k \in 1 .. j - i : Slice(s, i, j)[k] = s[i + k]
<1>0. Len(s) \in Nat
  BY LenProperties
<1>1. i + 1 \in Int /\ \A k \in i + 1 .. j : s[k] \in T
  <2>1. \A k \in i + 1 .. j : k \in 1 .. Len(s)
    BY <1>0
  <2> QED BY <2>1, ElementOfSeq
<1> DEFINE t == SubSeq(s, i + 1, j)
<1>2. /\ t \in Seq(T)
      /\ Len(t) = IF i + 1 <= j THEN j - (i + 1) + 1 ELSE 0
      /\ \A k \in 1 .. j - (i + 1) + 1 : t[k] = s[(i + 1) + k - 1]
  <2> HIDE DEF t
  <2> QED BY <1>1, SubSeqProperties DEF t
<1>3. t = Slice(s, i, j)
  BY DEF Slice
<1> HIDE DEF t
<1>4. Len(t) = IF i <= j THEN j - i ELSE 0
  BY <1>2, <1>0
<1>5. \A k \in 1 .. j - i : t[k] = s[i + k]
  BY <1>2, <1>0
<1> QED BY <1>2, <1>3, <1>4, <1>5

\* What follows the first k elements.
LEMMA RestProperties ==
  ASSUME NEW T, NEW s \in Seq(T), NEW k \in 0 .. Len(s)
  PROVE  /\ Slice(s, k, Len(s)) \in Seq(T)
         /\ Len(Slice(s, k, Len(s))) = Len(s) - k
         /\ \A i \in 1 .. Len(s) - k : Slice(s, k, Len(s))[i] = s[k + i]
<1>1. k \in Nat /\ Len(s) \in Int /\ k <= Len(s) /\ Len(s) <= Len(s)
  BY LenProperties
<1>2. /\ Slice(s, k, Len(s)) \in Seq(T)
      /\ Len(Slice(s, k, Len(s))) = (IF k <= Len(s) THEN Len(s) - k ELSE 0)
      /\ \A i \in 1 .. Len(s) - k : Slice(s, k, Len(s))[i] = s[k + i]
  BY ONLY <1>1, SliceProperties, s \in Seq(T)
<1> QED BY <1>1, <1>2

\* A slice of a slice.
LEMMA SliceOfSlice ==
  ASSUME NEW T, NEW s \in Seq(T), NEW n \in 0 .. Len(s), NEW i \in Nat, NEW j \in Nat,
         n + j <= Len(s)
  PROVE  Slice(Slice(s, n, Len(s)), i, j) = Slice(s, n + i, n + j)
<1> DEFINE t == Slice(s, n, Len(s))
           u == Slice(t, i, j)
           v == Slice(s, n + i, n + j)
<1>0. Len(s) \in Nat
  BY LenProperties
<1>1. /\ t \in Seq(T) /\ Len(t) = Len(s) - n
      /\ \A k \in 1 .. Len(s) - n : t[k] = s[n + k]
  BY RestProperties
<1>2. /\ v \in Seq(T) /\ Len(v) = (IF i <= j THEN j - i ELSE 0)
      /\ \A k \in 1 .. j - i : v[k] = s[n + (i + k)]
  <2>1. n + i \in Nat /\ n + j \in Int
    BY <1>0
  <2>2. /\ v \in Seq(T) /\ Len(v) = (IF n + i <= n + j THEN (n + j) - (n + i) ELSE 0)
        /\ \A k \in 1 .. (n + j) - (n + i) : v[k] = s[(n + i) + k]
    BY <2>1, SliceProperties
  <2> HIDE DEF v
  <2> QED BY <2>2, <1>0
<1> HIDE DEF t
<1>3. /\ u \in Seq(T) /\ Len(u) = (IF i <= j THEN j - i ELSE 0)
      /\ \A k \in 1 .. j - i : u[k] = t[i + k]
  <2>1. t \in Seq(T) /\ i \in Nat /\ j \in Int /\ j <= Len(t)
    BY <1>0, <1>1
  <2>2. /\ Slice(t, i, j) \in Seq(T) /\ Len(Slice(t, i, j)) = (IF i <= j THEN j - i ELSE 0)
        /\ \A k \in 1 .. j - i : Slice(t, i, j)[k] = t[i + k]
    BY ONLY <2>1, SliceProperties
  <2> QED BY <2>2
<1> HIDE DEF u, v
<1>4. ASSUME NEW k \in 1 .. Len(u)
      PROVE  u[k] = v[k]
  <2>1. k \in 1 .. j - i /\ i + k \in 1 .. Len(s) - n
    BY <1>0, <1>3
  <2> QED BY <2>1, <1>1, <1>2, <1>3
<1>5. Len(u) = Len(v)
  BY <1>2, <1>3
<1>6. u = v
  BY <1>2, <1>3, <1>4, <1>5, SeqEqual
<1> QED BY <1>6 DEF u, v, t

\* What is left of a sequence after its first elements.
LEMMA SuffixStep ==
  ASSUME NEW T, NEW s \in Seq(T), NEW k \in 0 .. Len(s), NEW x \in T, NEW t \in Seq(T),
         Slice(s, k, Len(s)) = <<x>> \o t
  PROVE  /\ k < Len(s)
         /\ s[k + 1] = x
         /\ Slice(s, k + 1, Len(s)) = t
<1> DEFINE u == Slice(s, k, Len(s))
           v == Slice(s, k + 1, Len(s))
<1>0. Len(s) \in Nat /\ Len(t) \in Nat /\ Len(s) <= Len(s) /\ k \in Nat /\ k + 1 \in Nat
  BY LenProperties
<1>1. /\ u \in Seq(T) /\ Len(u) = Len(s) - k
      /\ \A i \in 1 .. Len(s) - k : u[i] = s[k + i]
  BY RestProperties
<1>2. <<x>> \in Seq(T) /\ Len(<<x>>) = 1 /\ <<x>>[1] = x
  OBVIOUS
<1>3. /\ Len(u) = 1 + Len(t)
      /\ \A i \in 1 .. 1 + Len(t) : u[i] = IF i <= 1 THEN <<x>>[i] ELSE t[i - 1]
  <2>1. /\ Len(<<x>> \o t) = Len(<<x>>) + Len(t)
        /\ \A i \in 1 .. Len(<<x>>) + Len(t) :
             (<<x>> \o t)[i] = IF i <= Len(<<x>>) THEN <<x>>[i] ELSE t[i - Len(<<x>>)]
    BY <1>2, ConcatProperties
  <2> QED BY <1>2, <2>1
<1> HIDE DEF u
<1>4. k < Len(s) /\ s[k + 1] = x
  <2>1. 1 \in 1 .. 1 + Len(t) /\ 1 \in 1 .. Len(s) - k
    BY <1>0, <1>1, <1>3
  <2>2. u[1] = x /\ u[1] = s[k + 1]
    BY <2>1, <1>1, <1>2, <1>3
  <2> QED BY <2>1, <2>2, <1>0
<1>5. /\ v \in Seq(T) /\ Len(v) = Len(s) - (k + 1)
      /\ \A i \in 1 .. Len(s) - (k + 1) : v[i] = s[(k + 1) + i]
  <2>1. k + 1 \in 0 .. Len(s)
    BY <1>0, <1>4
  <2> QED BY ONLY <2>1, RestProperties, s \in Seq(T)
<1> HIDE DEF v
<1>6. Len(v) = Len(t)
  <2>1. Len(u) = Len(s) - k
    BY <1>1
  <2>2. Len(u) = 1 + Len(t)
    BY <1>3
  <2>3. Len(v) = Len(s) - (k + 1)
    BY <1>5
  <2> QED BY ONLY <2>1, <2>2, <2>3, <1>0
<1>7. ASSUME NEW i \in 1 .. Len(v)
      PROVE  v[i] = t[i]
  <2>1. i \in 1 .. Len(s) - (k + 1) /\ i + 1 \in 1 .. Len(s) - k /\ i + 1 \in 1 .. 1 + Len(t)
    BY <1>0, <1>5, <1>6
  <2>2. v[i] = s[(k + 1) + i]
    BY <2>1, <1>5
  <2>3. u[i + 1] = s[k + (i + 1)]
    BY <2>1, <1>1
  <2>4. u[i + 1] = t[(i + 1) - 1]
    <3>1. ~(i + 1 <= 1)
      BY <2>1
    <3> QED BY <2>1, <3>1, <1>3
  <2>5. (k + 1) + i = k + (i + 1) /\ (i + 1) - 1 = i
    BY <2>1, <1>0
  <2> QED BY <2>2, <2>3, <2>4, <2>5
<1>8. v = t
  BY <1>5, <1>6, <1>7, SeqEqual
<1> QED BY <1>4, <1>8 DEF v

\* All of a sequence, and nothing of it.
LEMMA WholeSlice ==
  ASSUME NEW T, NEW s \in Seq(T)
  PROVE  Slice(s, 0, Len(s)) = s /\ Slice(s, Len(s), Len(s)) = <<>>
<1>0. Len(s) \in Nat
  BY LenProperties
<1>1. SubSeq(s, 0 + 1, Len(s)) = s
  BY SubSeqFull
<1>2. SubSeq(s, Len(s) + 1, Len(s)) = <<>>
  BY <1>0, SubSeqEmpty
<1> QED BY <1>1, <1>2 DEF Slice

-----------------------------------------------------------------------------
(* The search for bytes *)

\* memchr gives the first of the bytes.
LEMMA FindProperties ==
  ASSUME NEW T, NEW s \in Seq(T), NEW bytes, NEW i \in 0 .. Len(s)
  PROVE  /\ Find(s, bytes, i) \in i .. Len(s)
         /\ Find(s, bytes, i) < Len(s) => s[Find(s, bytes, i) + 1] \in bytes
         /\ \A j \in i .. Find(s, bytes, i) - 1 : s[j + 1] \notin bytes
<1> DEFINE hits == {j \in i .. Len(s) - 1 : s[j + 1] \in bytes}
<1>0. Len(s) \in Nat
  BY LenProperties
<1>1. CASE hits = {}
  <2>1. Find(s, bytes, i) = IF hits = {} THEN Len(s) ELSE Min(hits)
    BY DEF Find
  <2>2. \A j \in i .. Len(s) - 1 : s[j + 1] \notin bytes
    BY <1>1
  <2> HIDE DEF hits
  <2> QED BY <1>0, <1>1, <2>1, <2>2
<1>2. CASE hits # {}
  <2>1. hits \in SUBSET Nat
    BY <1>0
  <2> HIDE DEF hits
  <2>2. Min(hits) \in hits /\ \A y \in hits : Min(hits) <= y
    BY <1>2, <2>1, MinExists
  <2> USE DEF hits
  <2>3. Find(s, bytes, i) = Min(hits)
    BY <1>2 DEF Find
  <2> DEFINE m == Min(hits)
  <2>4. m \in i .. Len(s) - 1 /\ s[m + 1] \in bytes
    BY <2>2
  <2>5. ASSUME NEW j \in i .. m - 1, s[j + 1] \in bytes
        PROVE  FALSE
    <3> HIDE DEF m
    <3>1. j \in hits
      BY <1>0, <2>4, <2>5
    <3>2. m <= j
      BY <2>2, <3>1 DEF m
    <3> QED BY <3>2, <2>4, <1>0
  <2> HIDE DEF hits, m
  <2>6. Find(s, bytes, i) = m
    BY <2>3 DEF m
  <2> QED BY <2>4, <2>5, <2>6, <1>0
<1> QED BY <1>1, <1>2

-----------------------------------------------------------------------------
(* The iterators *)

\* What the search for bytes gives from i on, when h says what it gives further on.
HitsFrom(s, bytes, step, wanted, h, i) ==
  IF i > Len(s)
    THEN <<i>>
    ELSE IF Find(s, bytes, i) = Len(s) THEN <<>>
         ELSE (IF Find(s, bytes, i) \in wanted THEN <<Find(s, bytes, i)>> ELSE <<>>)
                \o h[Find(s, bytes, i) + step]

ScansHits(s, bytes, step, wanted, h) ==
  /\ \A i \in 0 .. Len(s) + step : h[i] = HitsFrom(s, bytes, step, wanted, h, i)
  /\ \A start \in 0 .. Len(s) : Memchr(s, bytes, step, wanted, start) = h[start]

\* One hit and those behind it are positions.
LEMMA HitsAreTyped ==
  ASSUME NEW T, NEW s \in Seq(T), NEW bytes, NEW step \in Nat \ {0}, NEW wanted,
         NEW h \in [0 .. Len(s) + step -> Seq(Nat)], NEW i \in 0 .. Len(s) + step
  PROVE  /\ HitsFrom(s, bytes, step, wanted, h, i) \in Seq(Nat)
         /\ i <= Len(s) /\ Find(s, bytes, i) # Len(s) =>
              /\ Find(s, bytes, i) + step \in 0 .. Len(s) + step
              /\ i < Find(s, bytes, i) + step
<1>0. Len(s) \in Nat
  BY LenProperties
<1>1. CASE i > Len(s)
  BY <1>0, <1>1 DEF HitsFrom
<1>2. CASE i <= Len(s)
  <2>1. i \in 0 .. Len(s) /\ ~(i > Len(s))
    BY <1>0, <1>2
  <2> DEFINE f == Find(s, bytes, i)
  <2>2. f \in i .. Len(s)
    BY <2>1, FindProperties
  <2> HIDE DEF f
  <2>3. f # Len(s) => f + step \in 0 .. Len(s) + step /\ i < f + step
    BY <1>0, <2>1, <2>2
  <2>4. (IF f = Len(s) THEN <<>>
         ELSE (IF f \in wanted THEN <<f>> ELSE <<>>) \o h[f + step]) \in Seq(Nat)
    <3>1. CASE f = Len(s)
      BY <3>1, EmptySeq
    <3>2. CASE f # Len(s)
      <4>1. h[f + step] \in Seq(Nat)
        BY <2>3, <3>2
      <4>2. <<f>> \in Seq(Nat) /\ <<>> \in Seq(Nat)
        <5>1. f \in Nat
          BY <2>1, <2>2, <1>0
        <5> QED BY <5>1
      <4>3. (IF f \in wanted THEN <<f>> ELSE <<>>) \in Seq(Nat)
        BY <4>2
      <4> QED BY <3>2, <4>1, <4>3, ConcatProperties
    <3> QED BY <3>1, <3>2
  <2> QED BY <2>1, <2>3, <2>4 DEF HitsFrom, f
<1> QED BY <1>0, <1>1, <1>2

\* What is found from i on depends only on what is found behind i.
LEMMA HitsFollow ==
  ASSUME NEW T, NEW s \in Seq(T), NEW bytes, NEW step \in Nat \ {0}, NEW wanted,
         NEW i \in 0 .. Len(s) + step, NEW f, NEW g,
         \A j \in 0 .. Len(s) + step : i < j => f[j] = g[j]
  PROVE  HitsFrom(s, bytes, step, wanted, f, i) = HitsFrom(s, bytes, step, wanted, g, i)
<1> DEFINE n == Find(s, bytes, i)
<1>0. Len(s) \in Nat
  BY LenProperties
<1>1. CASE i > Len(s)
  BY <1>1 DEF HitsFrom
<1>2. CASE i <= Len(s) /\ n = Len(s)
  BY <1>2 DEF HitsFrom
<1>3. CASE i <= Len(s) /\ n # Len(s)
  <2>1. n \in i .. Len(s) /\ i \in Nat
    <3>1. i \in 0 .. Len(s)
      BY <1>0, <1>3
    <3> QED BY <3>1, FindProperties
  <2> HIDE DEF n
  <2>2. n + step \in 0 .. Len(s) + step /\ i < n + step
    BY <1>0, <2>1
  <2>3. f[n + step] = g[n + step]
    BY <2>2
  <2> QED BY <2>3 DEF HitsFrom, n
<1> QED BY <1>0, <1>1, <1>2, <1>3

\* Memchr goes on behind each hit.
LEMMA MemchrScans ==
  ASSUME NEW T, NEW s \in Seq(T), NEW bytes, NEW step \in Nat \ {0}, NEW wanted
  PROVE  \E h \in [0 .. Len(s) + step -> Seq(Nat)] : ScansHits(s, bytes, step, wanted, h)
<1> DEFINE D == 0 .. Len(s) + step
           S == Seq(Nat)
           rank == [i \in D |-> Len(s) + step - i]
           go == [p \in D \X [D -> S] |-> HitsFrom(s, bytes, step, wanted, p[2], p[1])]
<1>0. Len(s) \in Nat
  BY LenProperties
<1>1. rank \in [D -> Nat]
  BY <1>0
<1>2. go \in RankedSteps(D, S)
  <2>1. ASSUME NEW p \in D \X [D -> S]
        PROVE  HitsFrom(s, bytes, step, wanted, p[2], p[1]) \in S
    BY HitsAreTyped
  <2> QED BY <2>1 DEF RankedSteps
<1>3. \A i \in D : \A f \in [D -> S] : go[<<i, f>>] = HitsFrom(s, bytes, step, wanted, f, i)
  OBVIOUS
<1>4. FollowsRank(D, S, rank, go)
  <2> SUFFICES ASSUME NEW i \in D, NEW f \in [D -> S], NEW g \in [D -> S],
                      \A j \in D : rank[j] < rank[i] => f[j] = g[j]
               PROVE  go[<<i, f>>] = go[<<i, g>>]
    BY DEF FollowsRank
  <2>1. \A j \in D : i < j => f[j] = g[j]
    <3>1. \A j \in D : i < j => rank[j] < rank[i]
      BY <1>0
    <3> QED BY <3>1
  <2>2. HitsFrom(s, bytes, step, wanted, f, i) = HitsFrom(s, bytes, step, wanted, g, i)
    BY <2>1, HitsFollow
  <2> HIDE DEF go
  <2> QED BY <1>3, <2>2
<1>5. PICK h \in [D -> S] : \A i \in D : h[i] = go[<<i, h>>]
  <2>1. <<>> \in S
    BY EmptySeq
  <2> HIDE DEF D, S, rank, go
  <2> QED BY <1>1, <1>2, <1>4, <2>1, RecursionByRank
<1>6. \A i \in D : h[i] = HitsFrom(s, bytes, step, wanted, h, i)
  BY <1>3, <1>5
<1> DEFINE IsHits(f) ==
             f = [i \in 0 .. Len(s) + step |->
                    IF i > Len(s)
                      THEN <<i>>
                      ELSE IF Find(s, bytes, i) = Len(s) THEN <<>>
                           ELSE (IF Find(s, bytes, i) \in wanted THEN <<Find(s, bytes, i)>>
                                 ELSE <<>>) \o f[Find(s, bytes, i) + step]]
           hits == CHOOSE f : IsHits(f)
<1>7. IsHits(h)
  <2> HIDE DEF go
  <2> QED BY <1>6 DEF HitsFrom
<1>8. IsHits(hits)
  <2> HIDE DEF IsHits
  <2> QED BY <1>7
<1>9. \A start \in 0 .. Len(s) : Memchr(s, bytes, step, wanted, start) = hits[start]
  BY DEF Memchr
<1>10. \A i \in D : hits[i] = HitsFrom(s, bytes, step, wanted, hits, i)
  <2> HIDE DEF hits
  <2> QED BY <1>8 DEF HitsFrom
<1> HIDE DEF hits
<1> DEFINE E == {i \in D : hits[i] = h[i]}
<1>11. ASSUME NEW i \in D, \A j \in D : rank[j] < rank[i] => j \in E
       PROVE  i \in E
  <2>1. \A j \in D : i < j => hits[j] = h[j]
    <3>1. \A j \in D : i < j => rank[j] < rank[i]
      BY <1>0
    <3> QED BY <3>1, <1>11
  <2>2. HitsFrom(s, bytes, step, wanted, hits, i) = HitsFrom(s, bytes, step, wanted, h, i)
    BY <2>1, HitsFollow
  <2> QED BY <1>6, <1>10, <2>2
<1>12. \A i \in D : i \in E
  <2>1. E \in SUBSET D
    OBVIOUS
  <2> HIDE DEF E, D, rank
  <2> QED BY <1>1, <1>11, <2>1, InductByRank
<1>13. \A start \in 0 .. Len(s) : hits[start] = h[start]
  <2>1. \A start \in 0 .. Len(s) : start \in D
    BY <1>0
  <2> QED BY <2>1, <1>12
<1> QED BY <1>6, <1>9, <1>13 DEF ScansHits

NextOf(s, j) == [cr |-> Find(s, {CR}, j), lf |-> Find(s, {LF}, j)]

CrLen(s, cr) == IF cr + 1 < Len(s) /\ s[cr + 2] = LF THEN 2 ELSE 1

\* What the search for line endings gives for the next carriage return and the next line feed,
\* when h says what it gives further on.
EndingsFrom(s, h, x) ==
  IF x.cr < x.lf
    THEN IF IsHalfEnding(s, x.cr)
           THEN <<>>
           ELSE <<<<x.cr, CrLen(s, x.cr)>>>> \o h[NextOf(s, x.cr + CrLen(s, x.cr))]
    ELSE IF x.lf >= Len(s)
           THEN <<>>
           ELSE <<<<x.lf, 1>>>> \o h[[x EXCEPT !.lf = Find(s, {LF}, x.lf + 1)]]

Nexts(s) == [cr : 0 .. Len(s), lf : 0 .. Len(s)]

NextRank(s) == [x \in Nexts(s) |-> (Len(s) - x.cr) * (Len(s) + 1) + (Len(s) - x.lf)]

\* Of two numbers read as one, the first counts for more.
LEMMA FewerRounds ==
  ASSUME NEW n \in Nat, NEW a \in 0 .. n, NEW b \in 0 .. n, NEW p \in 0 .. n, NEW q \in 0 .. n,
         a < b
  PROVE  /\ a * (n + 1) + p \in Nat
         /\ a * (n + 1) + p < b * (n + 1) + q
<1> DEFINE d == (b - a) - 1
<1>1. d \in Nat /\ b = a + (d + 1)
  OBVIOUS
<1> HIDE DEF d
<1>2. b * (n + 1) = a * (n + 1) + d * (n + 1) + (n + 1)
  BY <1>1
<1>3. a * (n + 1) \in Nat /\ d * (n + 1) \in Nat
  BY <1>1
<1> DEFINE x == a * (n + 1)
           y == d * (n + 1)
           z == b * (n + 1)
<1>4. z = x + y + (n + 1) /\ x \in Nat /\ y \in Nat
  BY <1>2, <1>3
<1> HIDE DEF x, y, z
<1>5. x + p \in Nat /\ x + p < z + q
  BY <1>4
<1> QED BY <1>5 DEF x, z

\* The search always goes on further behind.
LEMMA NextIsBehind ==
  ASSUME NEW T, NEW s \in Seq(T)
  PROVE  /\ NextRank(s) \in [Nexts(s) -> Nat]
         /\ \A j \in 0 .. Len(s) : NextOf(s, j) \in Nexts(s)
         /\ \A x \in Nexts(s) :
              /\ x.cr < x.lf /\ ~IsHalfEnding(s, x.cr) =>
                   /\ x.cr + CrLen(s, x.cr) \in 0 .. Len(s)
                   /\ NextRank(s)[NextOf(s, x.cr + CrLen(s, x.cr))] < NextRank(s)[x]
              /\ ~(x.cr < x.lf) /\ ~(x.lf >= Len(s)) =>
                   /\ [x EXCEPT !.lf = Find(s, {LF}, x.lf + 1)] \in Nexts(s)
                   /\ NextRank(s)[[x EXCEPT !.lf = Find(s, {LF}, x.lf + 1)]] < NextRank(s)[x]
<1> DEFINE n == Len(s)
<1>0. n \in Nat
  BY LenProperties
<1>1. NextRank(s) \in [Nexts(s) -> Nat]
  <2>1. ASSUME NEW x \in Nexts(s)
        PROVE  (Len(s) - x.cr) * (Len(s) + 1) + (Len(s) - x.lf) \in Nat
    <3>1. Len(s) - x.cr \in Nat /\ Len(s) - x.lf \in Nat /\ Len(s) + 1 \in Nat
      BY <1>0 DEF Nexts
    <3>2. (Len(s) - x.cr) * (Len(s) + 1) \in Nat
      BY <3>1
    <3> QED BY <3>1, <3>2
  <2> QED BY <2>1 DEF NextRank
<1>2. ASSUME NEW j \in 0 .. n
      PROVE  NextOf(s, j) \in Nexts(s) /\ NextOf(s, j).cr >= j
  <2>1. Find(s, {CR}, j) \in j .. n /\ Find(s, {LF}, j) \in j .. n
    BY FindProperties
  <2> QED BY <1>0, <2>1 DEF NextOf, Nexts
<1>3. ASSUME NEW x \in Nexts(s), NEW y \in Nexts(s), x.cr < y.cr \/ (x.cr = y.cr /\ x.lf < y.lf)
      PROVE  NextRank(s)[y] < NextRank(s)[x]
  <2>1. x.cr \in 0 .. n /\ x.lf \in 0 .. n /\ y.cr \in 0 .. n /\ y.lf \in 0 .. n
    BY DEF Nexts
  <2>2. /\ NextRank(s)[y] = (n - y.cr) * (n + 1) + (n - y.lf)
        /\ NextRank(s)[x] = (n - x.cr) * (n + 1) + (n - x.lf)
    BY DEF NextRank
  <2> HIDE DEF n
  <2>3. CASE x.cr < y.cr
    <3>1. /\ n - y.cr \in 0 .. n /\ n - x.cr \in 0 .. n /\ n - y.lf \in 0 .. n
          /\ n - x.lf \in 0 .. n /\ n - y.cr < n - x.cr
      BY <1>0, <2>1, <2>3
    <3>2. (n - y.cr) * (n + 1) + (n - y.lf) < (n - x.cr) * (n + 1) + (n - x.lf)
      BY ONLY <1>0, <3>1, FewerRounds
    <3> QED BY <3>2, <2>2
  <2>4. CASE x.cr = y.cr /\ x.lf < y.lf
    <3> DEFINE z == (n - y.cr) * (n + 1)
    <3>1. z \in Int /\ NextRank(s)[y] = z + (n - y.lf) /\ NextRank(s)[x] = z + (n - x.lf)
      BY <1>0, <2>1, <2>2, <2>4
    <3> HIDE DEF z
    <3> QED BY <1>0, <2>1, <2>4, <3>1
  <2> QED BY <1>3, <2>3, <2>4
<1>4. ASSUME NEW x \in Nexts(s), x.cr < x.lf, ~IsHalfEnding(s, x.cr)
      PROVE  /\ x.cr + CrLen(s, x.cr) \in 0 .. n
             /\ NextRank(s)[NextOf(s, x.cr + CrLen(s, x.cr))] < NextRank(s)[x]
  <2>1. x.cr \in 0 .. n /\ x.lf \in 0 .. n
    BY DEF Nexts
  <2>2. x.cr + CrLen(s, x.cr) \in 0 .. n /\ x.cr < x.cr + CrLen(s, x.cr)
    BY <1>0, <1>4, <2>1 DEF CrLen, IsHalfEnding
  <2>3. x.cr < NextOf(s, x.cr + CrLen(s, x.cr)).cr
    <3> DEFINE j == x.cr + CrLen(s, x.cr)
    <3>1. NextOf(s, j) \in Nexts(s) /\ NextOf(s, j).cr >= j /\ x.cr < j /\ j \in 0 .. n
      BY <1>2, <2>2
    <3>2. NextOf(s, j).cr \in 0 .. n
      BY <3>1 DEF Nexts
    <3> HIDE DEF j
    <3>3. x.cr < NextOf(s, j).cr
      BY <1>0, <2>1, <3>1, <3>2
    <3> QED BY <3>3 DEF j
  <2> QED BY <1>2, <1>3, <2>2, <2>3
<1>5. ASSUME NEW x \in Nexts(s), ~(x.cr < x.lf), ~(x.lf >= Len(s))
      PROVE  /\ [x EXCEPT !.lf = Find(s, {LF}, x.lf + 1)] \in Nexts(s)
             /\ NextRank(s)[[x EXCEPT !.lf = Find(s, {LF}, x.lf + 1)]] < NextRank(s)[x]
  <2>1. x.cr \in 0 .. n /\ x.lf \in 0 .. n
    BY DEF Nexts
  <2>2. x.lf + 1 \in 0 .. n
    BY <1>0, <1>5, <2>1
  <2>3. Find(s, {LF}, x.lf + 1) \in x.lf + 1 .. n
    BY <2>2, FindProperties
  <2> DEFINE y == [x EXCEPT !.lf = Find(s, {LF}, x.lf + 1)]
  <2>4. y \in Nexts(s) /\ y.cr = x.cr /\ x.lf < y.lf
    BY <1>0, <2>1, <2>3 DEF Nexts
  <2> HIDE DEF y
  <2>5. NextRank(s)[y] < NextRank(s)[x]
    BY <1>3, <2>4
  <2> QED BY <2>4, <2>5 DEF y
<1> QED BY <1>1, <1>2, <1>4, <1>5

\* What is found from x on depends only on what is found behind x.
LEMMA EndingsFollow ==
  ASSUME NEW T, NEW s \in Seq(T), NEW x \in Nexts(s), NEW f, NEW g,
         \A y \in Nexts(s) : NextRank(s)[y] < NextRank(s)[x] => f[y] = g[y]
  PROVE  EndingsFrom(s, f, x) = EndingsFrom(s, g, x)
<1>1. CASE x.cr < x.lf /\ ~IsHalfEnding(s, x.cr)
  <2>1. f[NextOf(s, x.cr + CrLen(s, x.cr))] = g[NextOf(s, x.cr + CrLen(s, x.cr))]
    BY <1>1, NextIsBehind
  <2> QED BY <1>1, <2>1 DEF EndingsFrom
<1>2. CASE ~(x.cr < x.lf) /\ ~(x.lf >= Len(s))
  <2>1. f[[x EXCEPT !.lf = Find(s, {LF}, x.lf + 1)]] = g[[x EXCEPT !.lf = Find(s, {LF}, x.lf + 1)]]
    BY <1>2, NextIsBehind
  <2> QED BY <1>2, <2>1 DEF EndingsFrom
<1>3. CASE (x.cr < x.lf /\ IsHalfEnding(s, x.cr)) \/ (~(x.cr < x.lf) /\ x.lf >= Len(s))
  BY <1>3 DEF EndingsFrom
<1> QED BY <1>1, <1>2, <1>3

\* One line ending and those behind it are pairs of a position and a length.
LEMMA EndingsAreTyped ==
  ASSUME NEW T, NEW s \in Seq(T), NEW h \in [Nexts(s) -> Seq(Nat \X Nat)], NEW x \in Nexts(s)
  PROVE  EndingsFrom(s, h, x) \in Seq(Nat \X Nat)
<1> DEFINE S == Seq(Nat \X Nat)
<1>0. Len(s) \in Nat
  BY LenProperties
<1>1. x.cr \in Nat /\ x.lf \in Nat /\ CrLen(s, x.cr) \in Nat
  BY <1>0 DEF Nexts, CrLen
<1>2. <<>> \in S /\ <<<<x.cr, CrLen(s, x.cr)>>>> \in S /\ <<<<x.lf, 1>>>> \in S
  <2>1. <<x.cr, CrLen(s, x.cr)>> \in Nat \X Nat /\ <<x.lf, 1>> \in Nat \X Nat
    BY <1>1
  <2> QED BY <2>1, EmptySeq
<1>3. CASE x.cr < x.lf /\ ~IsHalfEnding(s, x.cr)
  <2>1. NextOf(s, x.cr + CrLen(s, x.cr)) \in Nexts(s)
    BY <1>3, NextIsBehind
  <2>2. h[NextOf(s, x.cr + CrLen(s, x.cr))] \in S
    BY <2>1
  <2>3. <<<<x.cr, CrLen(s, x.cr)>>>> \o h[NextOf(s, x.cr + CrLen(s, x.cr))] \in S
    BY <1>2, <2>2, ConcatProperties
  <2> QED BY <1>3, <2>3 DEF EndingsFrom
<1>4. CASE ~(x.cr < x.lf) /\ ~(x.lf >= Len(s))
  <2> DEFINE y == [x EXCEPT !.lf = Find(s, {LF}, x.lf + 1)]
  <2>1. y \in Nexts(s)
    BY <1>4, NextIsBehind
  <2>2. h[y] \in S
    BY <2>1
  <2>3. <<<<x.lf, 1>>>> \o h[y] \in S
    <3> HIDE DEF y
    <3> QED BY <1>2, <2>2, ConcatProperties
  <2> QED BY <1>4, <2>3 DEF EndingsFrom
<1>5. CASE (x.cr < x.lf /\ IsHalfEnding(s, x.cr)) \/ (~(x.cr < x.lf) /\ x.lf >= Len(s))
  BY <1>2, <1>5 DEF EndingsFrom
<1> QED BY <1>3, <1>4, <1>5

\* LineEndings goes on behind each line ending.
LEMMA LineEndingsRecursion ==
  ASSUME NEW T, NEW s \in Seq(T)
  PROVE  \E h \in [Nexts(s) -> Seq(Nat \X Nat)] :
           /\ \A x \in Nexts(s) : h[x] = EndingsFrom(s, h, x)
           /\ \A start \in 0 .. Len(s) : LineEndings(s, start) = h[NextOf(s, start)]
<1> DEFINE D == Nexts(s)
           S == Seq(Nat \X Nat)
           rank == NextRank(s)
           go == [p \in D \X [D -> S] |-> EndingsFrom(s, p[2], p[1])]
<1>1. rank \in [D -> Nat]
  BY NextIsBehind
<1>2. go \in RankedSteps(D, S)
  <2>1. ASSUME NEW p \in D \X [D -> S]
        PROVE  EndingsFrom(s, p[2], p[1]) \in S
    BY EndingsAreTyped
  <2> QED BY <2>1 DEF RankedSteps
<1>3. \A x \in D : \A f \in [D -> S] : go[<<x, f>>] = EndingsFrom(s, f, x)
  OBVIOUS
<1>4. FollowsRank(D, S, rank, go)
  <2> SUFFICES ASSUME NEW x \in D, NEW f \in [D -> S], NEW g \in [D -> S],
                      \A y \in D : rank[y] < rank[x] => f[y] = g[y]
               PROVE  go[<<x, f>>] = go[<<x, g>>]
    BY DEF FollowsRank
  <2>1. EndingsFrom(s, f, x) = EndingsFrom(s, g, x)
    BY EndingsFollow
  <2> HIDE DEF go
  <2> QED BY <1>3, <2>1
<1>5. PICK h \in [D -> S] : \A x \in D : h[x] = go[<<x, h>>]
  <2>1. <<>> \in S
    BY EmptySeq
  <2> HIDE DEF D, S, rank, go
  <2> QED BY <1>1, <1>2, <1>4, <2>1, RecursionByRank
<1>6. \A x \in D : h[x] = EndingsFrom(s, h, x)
  BY <1>3, <1>5
<1> DEFINE Then(f, x) ==
             IF x.cr < x.lf
               THEN IF IsHalfEnding(s, x.cr)
                      THEN <<>>
                      ELSE <<<<x.cr, CrLen(s, x.cr)>>>> \o f[NextOf(s, x.cr + CrLen(s, x.cr))]
               ELSE IF x.lf >= Len(s)
                      THEN <<>>
                      ELSE <<<<x.lf, 1>>>> \o f[[x EXCEPT !.lf = Find(s, {LF}, x.lf + 1)]]
           IsEndings(f) == f = [x \in [cr : 0 .. Len(s), lf : 0 .. Len(s)] |-> Then(f, x)]
           endings == CHOOSE f : IsEndings(f)
<1>7. IsEndings(h)
  <2> HIDE DEF go
  <2>1. \A x \in D : h[x] = Then(h, x)
    BY <1>6 DEF EndingsFrom
  <2> HIDE DEF Then
  <2> QED BY <2>1 DEF Nexts
<1>8. IsEndings(endings)
  <2> HIDE DEF IsEndings
  <2> QED BY <1>7
<1>9. \A start \in 0 .. Len(s) : LineEndings(s, start) = endings[NextOf(s, start)]
  BY DEF LineEndings, NextOf, CrLen
<1>10. \A x \in D : endings[x] = EndingsFrom(s, endings, x)
  <2> HIDE DEF endings
  <2>1. \A x \in D : endings[x] = Then(endings, x)
    <3> HIDE DEF Then
    <3> QED BY <1>8 DEF Nexts
  <2> QED BY <2>1 DEF EndingsFrom
<1> HIDE DEF endings
<1> DEFINE E == {x \in D : endings[x] = h[x]}
<1>11. ASSUME NEW x \in D, \A y \in D : rank[y] < rank[x] => y \in E
       PROVE  x \in E
  <2>1. EndingsFrom(s, endings, x) = EndingsFrom(s, h, x)
    BY <1>11, EndingsFollow
  <2> QED BY <1>6, <1>10, <2>1
<1>12. \A x \in D : x \in E
  <2>1. E \in SUBSET D
    OBVIOUS
  <2> HIDE DEF E, D, rank
  <2> QED BY <1>1, <1>11, <2>1, InductByRank
<1>13. \A start \in 0 .. Len(s) : endings[NextOf(s, start)] = h[NextOf(s, start)]
  BY <1>12, NextIsBehind
<1> QED BY <1>6, <1>9, <1>13

-----------------------------------------------------------------------------
(* decode_string: one delimiter after the other *)

Positions == [start : Nat, pos : Nat, delim : Nat]

Results == [ok : BOOLEAN, read : Nat, frames : Seq(Seq(Bytes)), glue : Positions]

\* The slice that Flush announces.
LEMMA FlushProperties ==
  ASSUME NEW from, NEW to, NEW delim
  PROVE  /\ Flush(from, to, delim) # <<>>
         /\ Flush(from, to, delim)[1].from = from
         /\ Flush(from, to, delim)[1].to = to
         /\ Flush(from, to, delim)[1].delim = delim
BY DEF Flush

\* Each turn of the loop leaves a result, whatever it is given.
LEMMA CutIsTyped ==
  ASSUME NEW c, NEW s \in Seq(Bytes), NEW r \in Results, NEW match \in Nat \X Nat
  PROVE  CutAt(c, s, r, match) \in Results
<1> DEFINE i == match[1]
           len == match[2]
           end == i + len
           u == Update(c, r.glue, s, end, len)
<1>0. Len(s) \in Nat /\ i \in Nat /\ len \in Nat /\ end \in Nat
  BY LenProperties
<1>1. r.ok \in BOOLEAN /\ r.read \in Nat /\ r.frames \in Seq(Seq(Bytes))
  BY DEF Results
<1>2. r.glue.start \in Nat /\ r.glue.pos \in Nat /\ r.glue.delim \in Nat
  BY DEF Results, Positions
<1> DEFINE stops == ~r.ok \/ (IF Glued(c) THEN i < r.glue.pos \/ end > Len(s)
                                          ELSE i < r.read \/ i > Len(s))
<1>3. CASE stops
  <2>1. CutAt(c, s, r, match) = [r EXCEPT !.ok = FALSE]
    BY <1>3 DEF CutAt
  <2> QED BY <1>1, <2>1 DEF Results
<1>4. CASE ~stops /\ ~Glued(c)
  <2>1. CutAt(c, s, r, match)
          = [r EXCEPT !.frames = Append(@, Slice(s, r.read, i)), !.read = end]
    BY <1>4 DEF CutAt
  <2>2. i \in Int /\ i <= Len(s)
    BY <1>0, <1>4
  <2>3. Slice(s, r.read, i) \in Seq(Bytes)
    BY <1>1, <2>2, SliceProperties
  <2>4. Append(r.frames, Slice(s, r.read, i)) \in Seq(Seq(Bytes))
    BY <1>1, <2>3, AppendProperties
  <2> QED BY <1>0, <2>1, <2>4 DEF Results
<1>5. CASE ~stops /\ Glued(c)
  <2>1. i >= r.glue.pos /\ end <= Len(s)
    BY <1>0, <1>2, <1>5
  <2>2. u.glue \in Positions
    BY <1>0, <1>2 DEF Update, Positions, Results
  <2>3. CASE u.flush = <<>>
    <3>1. CutAt(c, s, r, match) = [r EXCEPT !.glue = u.glue]
      BY <1>5, <2>3 DEF CutAt
    <3> QED BY <2>2, <3>1 DEF Results
  <2>4. CASE u.flush # <<>>
    <3> DEFINE f == u.flush[1]
    <3>1. CutAt(c, s, r, match)
            = [r EXCEPT !.glue = u.glue,
                        !.frames = Append(@, Slice(s, f.from, f.to - f.delim)), !.read = f.to]
      BY <1>5, <2>4 DEF CutAt
    <3>2. f.from \in Nat /\ f.to \in Nat /\ f.delim \in Nat /\ f.to <= Len(s)
      <4>1. \/ u.flush = Flush(r.glue.start, r.glue.pos, r.glue.delim)
            \/ u.flush = Flush(r.glue.start, end, len)
        BY <2>4 DEF Update
      <4>2. r.glue.pos <= Len(s)
        BY <1>0, <1>2, <2>1
      <4>3. /\ r.glue.start \in Nat /\ r.glue.pos \in Nat /\ r.glue.delim \in Nat
            /\ end \in Nat /\ len \in Nat /\ end <= Len(s)
        BY <1>0, <1>2, <2>1
      <4>4. CASE u.flush = Flush(r.glue.start, r.glue.pos, r.glue.delim)
        <5>1. f.from = r.glue.start /\ f.to = r.glue.pos /\ f.delim = r.glue.delim
          BY <4>4, FlushProperties
        <5> QED BY <4>2, <4>3, <5>1
      <4>5. CASE u.flush = Flush(r.glue.start, end, len)
        <5>1. f.from = r.glue.start /\ f.to = end /\ f.delim = len
          BY <4>5, FlushProperties
        <5> QED BY <4>3, <5>1
      <4> QED BY <4>1, <4>4, <4>5
    <3> HIDE DEF f
    <3>3. f.to - f.delim \in Int /\ f.to - f.delim <= Len(s)
      BY <1>0, <3>2
    <3>4. Slice(s, f.from, f.to - f.delim) \in Seq(Bytes)
      BY <3>2, <3>3, SliceProperties
    <3>5. Append(r.frames, Slice(s, f.from, f.to - f.delim)) \in Seq(Seq(Bytes))
      BY <1>1, <3>4, AppendProperties
    <3> HIDE DEF u
    <3> QED BY <2>2, <3>1, <3>2, <3>5 DEF Results
  <2> QED BY <2>3, <2>4
<1> QED BY <1>3, <1>4, <1>5

\* Recursion by rank, with results of decode for values.
LEMMA ResultsByRank ==
  ASSUME NEW D, NEW some \in Results, NEW rank \in [D -> Nat],
         NEW step \in RankedSteps(D, Results), FollowsRank(D, Results, rank, step)
  PROVE  \E f \in [D -> Results] : \A x \in D : f[x] = step[<<x, f>>]
BY RecursionByRank

\* The loop of decode_string.
Cuts(c, s, base, M) == FoldLeft(LAMBDA acc, match : CutAt(c, s, acc, match), base, M)

Turns(c, s, base, M, st) ==
  /\ st[0] = base
  /\ \A k \in 1 .. Len(M) : st[k] = CutAt(c, s, st[k - 1], M[k])
  /\ Cuts(c, s, base, M) = st[Len(M)]

\* The fold over the delimiters, step by step.
LEMMA FoldSteps ==
  ASSUME NEW c, NEW s \in Seq(Bytes), NEW base \in Results, NEW M \in Seq(Nat \X Nat)
  PROVE  \E st \in [0 .. Len(M) -> Results] : Turns(c, s, base, M, st)
<1> DEFINE n == Len(M)
           D == SUBSET (1 .. n)
           rank == [x \in D |-> Cardinality(x)]
           Then(f, x) == IF x = {} THEN base ELSE CutAt(c, s, f[x \ {Max(x)}], M[Max(x)])
           go == [p \in D \X [D -> Results] |-> Then(p[2], p[1])]
<1>0. n \in Nat /\ DOMAIN M = 1 .. n
  BY LenProperties
<1>1. ASSUME NEW x \in D, x # {}
      PROVE  Max(x) \in x /\ x \ {Max(x)} \in D /\ M[Max(x)] \in Nat \X Nat
  <2>1. x \in SUBSET (0 .. n)
    OBVIOUS
  <2>2. Max(x) \in x
    BY <1>0, <1>1, <2>1, MaxExists
  <2>3. Max(x) \in 1 .. n
    BY <2>2
  <2> QED BY <2>2, <2>3, ElementOfSeq
<1>2. rank \in [D -> Nat] /\ \A x \in D : x # {} => rank[x \ {Max(x)}] < rank[x]
  <2>1. ASSUME NEW x \in D
        PROVE  IsFiniteSet(x) /\ Cardinality(x) \in Nat
    <3>1. IsFiniteSet(1 .. n)
      BY <1>0, FS_Interval
    <3> QED BY <3>1, FS_Subset, FS_CardinalityType
  <2>2. ASSUME NEW x \in D, x # {}
        PROVE  Cardinality(x \ {Max(x)}) = Cardinality(x) - 1
    BY <1>1, <2>1, <2>2, FS_RemoveElement
  <2>3. rank \in [D -> Nat] /\ \A x \in D : rank[x] = Cardinality(x)
    BY <2>1
  <2>4. ASSUME NEW x \in D, x # {}
        PROVE  rank[x \ {Max(x)}] < rank[x]
    <3>1. x \ {Max(x)} \in D
      BY <1>1, <2>4
    <3>2. Cardinality(x) \in Nat /\ Cardinality(x \ {Max(x)}) = Cardinality(x) - 1
      BY <2>1, <2>2, <2>4
    <3> HIDE DEF D, rank
    <3>3. rank[x] = Cardinality(x) /\ rank[x \ {Max(x)}] = Cardinality(x \ {Max(x)})
      BY <2>3, <3>1
    <3> QED BY ONLY <3>2, <3>3
  <2> QED BY <2>3, <2>4
<1>3. go \in RankedSteps(D, Results)
  <2>1. ASSUME NEW x \in D, NEW f \in [D -> Results]
        PROVE  Then(f, x) \in Results
    <3>1. CASE x = {}
      BY <3>1
    <3>2. CASE x # {}
      <4>1. f[x \ {Max(x)}] \in Results
        BY <1>1, <3>2
      <4>2. CutAt(c, s, f[x \ {Max(x)}], M[Max(x)]) \in Results
        BY <1>1, <3>2, <4>1, CutIsTyped
      <4> QED BY <3>2, <4>2
    <3> QED BY <3>1, <3>2
  <2> HIDE DEF Then
  <2> QED BY <2>1 DEF RankedSteps
<1>4. \A x \in D : \A f \in [D -> Results] : go[<<x, f>>] = Then(f, x)
  OBVIOUS
<1>5. FollowsRank(D, Results, rank, go)
  <2> SUFFICES ASSUME NEW x \in D, NEW f \in [D -> Results], NEW g \in [D -> Results],
                      \A y \in D : rank[y] < rank[x] => f[y] = g[y]
               PROVE  go[<<x, f>>] = go[<<x, g>>]
    BY DEF FollowsRank
  <2>1. Then(f, x) = Then(g, x)
    <3>1. CASE x = {}
      BY <3>1
    <3>2. CASE x # {}
      <4>1. f[x \ {Max(x)}] = g[x \ {Max(x)}]
        <5> HIDE DEF rank
        <5> QED BY <1>1, <1>2, <3>2
      <4> QED BY <3>2, <4>1
    <3> QED BY <3>1, <3>2
  <2> HIDE DEF go, Then
  <2> QED BY <1>4, <2>1
<1>6. PICK h \in [D -> Results] : \A x \in D : h[x] = go[<<x, h>>]
  <2>1. rank \in [D -> Nat] /\ base \in Results
    BY <1>2
  <2> HIDE DEF D, rank, go
  <2> QED BY ONLY <1>3, <1>5, <2>1, ResultsByRank
<1> DEFINE IsFold(g) == g = [x \in SUBSET (1 .. n) |-> Then(g, x)]
           fold == CHOOSE g : IsFold(g)
<1>7. Cuts(c, s, base, M) = fold[1 .. n]
  BY <1>0 DEF Cuts, FoldLeft, MapThenFoldSet
<1>8. IsFold(h)
  <2>1. \A x \in D : h[x] = Then(h, x)
    <3> HIDE DEF go, Then
    <3> QED BY <1>4, <1>6
  <2> HIDE DEF Then, go
  <2> QED BY <2>1
<1>9. IsFold(fold)
  <2> HIDE DEF IsFold
  <2> QED BY <1>8
<1> HIDE DEF fold
<1>10. \A x \in D : fold[x] = Then(fold, x)
  <2> HIDE DEF Then
  <2> QED BY <1>9
<1> DEFINE st == [k \in 0 .. n |-> fold[1 .. k]]
<1>11. st[0] = base
  <2>1. 1 .. 0 = {} /\ {} \in D /\ 0 \in 0 .. n
    BY <1>0
  <2>2. fold[{}] = base
    BY <2>1, <1>10
  <2> QED BY <2>1, <2>2
<1>12. ASSUME NEW k \in 1 .. n
       PROVE  st[k] = CutAt(c, s, st[k - 1], M[k])
  <2>0. k - 1 \in 0 .. n /\ k \in 0 .. n /\ k \in 1 .. k
    BY <1>0
  <2>1. 1 .. k \in D /\ 1 .. k # {} /\ k - 1 \in 0 .. n /\ k \in 0 .. n
    <3>1. \A j \in 1 .. k : j \in 1 .. n
      BY <1>0
    <3> QED BY <2>0, <3>1
  <2>2. Max(1 .. k) = k
    <3>1. 1 .. k \in SUBSET Int /\ k \in 1 .. k /\ \A y \in 1 .. k : y <= k
      OBVIOUS
    <3> QED BY <3>1, MaxIs
  <2>3. (1 .. k) \ {k} = 1 .. k - 1
    BY <1>0
  <2>4. fold[1 .. k] = CutAt(c, s, fold[1 .. k - 1], M[k])
    BY <1>10, <2>1, <2>2, <2>3
  <2> QED BY <2>1, <2>4
<1> DEFINE U == {k \in Nat : k <= n => st[k] \in Results}
<1>13. 0 \in U
  <2> HIDE DEF st
  <2> QED BY <1>11
<1>14. ASSUME NEW k \in U
       PROVE  k + 1 \in U
  <2> HIDE DEF st
  <2> SUFFICES ASSUME k + 1 <= n PROVE st[k + 1] \in Results
    OBVIOUS
  <2>1. k + 1 \in 1 .. n /\ (k + 1) - 1 = k /\ st[k] \in Results
    BY <1>0
  <2>2. M[k + 1] \in Nat \X Nat
    BY <2>1, ElementOfSeq
  <2>3. st[k + 1] = CutAt(c, s, st[k], M[k + 1])
    BY <2>1, <1>12
  <2> QED BY <2>1, <2>2, <2>3, CutIsTyped
<1>15. \A k \in Nat : k \in U
  <2> HIDE DEF U
  <2> QED BY <1>13, <1>14, Induct DEF U
<1>16. st \in [0 .. n -> Results]
  <2>1. \A k \in 0 .. n : st[k] \in Results
    <3> HIDE DEF st
    <3> QED BY <1>0, <1>15
  <2> QED BY <2>1
<1>17. st[n] = fold[1 .. n]
  BY <1>0
<1> HIDE DEF st
<1> QED BY <1>7, <1>11, <1>12, <1>16, <1>17 DEF Turns

-----------------------------------------------------------------------------
(* Types *)

\* Configurations whose decoder keeps no positions.
KeepsNothing(c) == ~Glued(c) \/ (~AnyLine(c) /\ Delimiter(c) = <<>>)

\* What the assumption says of one configuration.
LEMMA ConfigTypes ==
  ASSUME NEW c \in Configs
  PROVE  /\ c.glue \in {"none", "previous", "next"} /\ c.on \in {"start", "end"}
         /\ ~AnyLine(c) => Delimiter(c) \in Seq(Bytes)
<1>1. /\ c.key \in {"none", "line", "string"} /\ c.line \in {"any", "dos", "unix", "mac"}
      /\ c.string \in Seq(Bytes) /\ c.glue \in {"none", "previous", "next"}
      /\ c.on \in {"start", "end"}
  BY DelimitedAssumption
<1>2. ASSUME ~AnyLine(c)
      PROVE  Delimiter(c) \in Seq(Bytes)
  <2>1. CASE c.key = "string"
    BY <1>1, <2>1 DEF Delimiter
  <2>2. CASE c.key # "string"
    <3>1. c.line \in {"dos", "unix", "mac"}
      BY <1>1, <1>2, <2>2 DEF AnyLine
    <3>2. Delimiter(c) = [dos |-> <<CR, LF>>, unix |-> <<LF>>, mac |-> <<CR>>][c.line]
      BY <2>2 DEF Delimiter
    <3>3. Delimiter(c) \in {<<CR, LF>>, <<LF>>, <<CR>>}
      BY <3>1, <3>2
    <3>4. CR \in Bytes /\ LF \in Bytes
      BY DEF Bytes
    <3>5. <<CR, LF>> \in Seq(Bytes) /\ <<LF>> \in Seq(Bytes) /\ <<CR>> \in Seq(Bytes)
      BY <3>4
    <3> QED BY <3>3, <3>5
  <2> QED BY <2>1, <2>2
<1> QED BY <1>1, <1>2

\* The search finds pairs of a position and a length.
LEMMA MatchesAreTyped ==
  ASSUME NEW c \in Configs, NEW s \in Seq(Bytes), NEW start \in 0 .. Len(s),
         AnyLine(c) \/ Delimiter(c) # <<>>
  PROVE  Matches(c, s, start) \in Seq(Nat \X Nat)
<1>0. Len(s) \in Nat
  BY LenProperties
<1>1. CASE AnyLine(c)
  <2>1. PICK h \in [Nexts(s) -> Seq(Nat \X Nat)] :
          \A i \in 0 .. Len(s) : LineEndings(s, i) = h[NextOf(s, i)]
    BY LineEndingsRecursion
  <2>2. NextOf(s, start) \in Nexts(s)
    BY NextIsBehind
  <2> QED BY <1>1, <2>1, <2>2 DEF Matches
<1>2. CASE ~AnyLine(c)
  <2> DEFINE d == Delimiter(c)
             rest == {i \in 0 .. Len(s) - Len(d) : Slice(s, i + 3, i + Len(d)) = Slice(d, 3, Len(d))}
             hits == IF Len(d) <= 3
                       THEN Memchr(s, ToSet(d), Len(d), Nat, start)
                       ELSE Memchr(s, ToSet(Slice(d, 0, 3)), 1, rest, start)
  <2>1. d \in Seq(Bytes) /\ Len(d) \in Nat \ {0}
    BY <1>2, ConfigTypes, EmptySeq
  <2>2. \A bytes, wanted : \A step \in Nat \ {0} : Memchr(s, bytes, step, wanted, start) \in Seq(Nat)
    <3> SUFFICES ASSUME NEW bytes, NEW wanted, NEW step \in Nat \ {0}
                 PROVE  Memchr(s, bytes, step, wanted, start) \in Seq(Nat)
      OBVIOUS
    <3>1. PICK h \in [0 .. Len(s) + step -> Seq(Nat)] : ScansHits(s, bytes, step, wanted, h)
      BY MemchrScans
    <3>2. start \in 0 .. Len(s) + step
      BY <1>0
    <3> QED BY <3>1, <3>2 DEF ScansHits
  <2> HIDE DEF d
  <2>3. hits \in Seq(Nat)
    <3>1. 1 \in Nat \ {0}
      OBVIOUS
    <3> HIDE DEF rest
    <3> QED BY <2>1, <2>2, <3>1
  <2>4. Matches(c, s, start) = [k \in DOMAIN hits |-> <<hits[k], Len(d)>>]
    BY <1>2 DEF Matches, d
  <2> HIDE DEF hits
  <2>5. Len(hits) \in Nat /\ DOMAIN hits = 1 .. Len(hits)
    BY <2>3, LenProperties
  <2>6. \A k \in 1 .. Len(hits) : <<hits[k], Len(d)>> \in Nat \X Nat
    BY <2>1, <2>3, ElementOfSeq
  <2>7. [k \in 1 .. Len(hits) |-> <<hits[k], Len(d)>>] \in Seq(Nat \X Nat)
    BY <2>5, <2>6, IsASeq
  <2> QED BY <2>4, <2>5, <2>7
<1> QED BY <1>1, <1>2

\* What a turn of decode_string keeps of the positions.
InOrder(c, s, r) ==
  IF Glued(c)
    THEN /\ r.glue.start = r.read
         /\ r.read <= r.glue.pos
         /\ r.glue.pos <= Len(s)
         /\ r.glue.pos > r.read => r.glue.delim <= r.glue.pos - r.read
    ELSE r.glue = NoGlue

\* One turn of decode_string keeps them in order.
LEMMA CutKeepsOrder ==
  ASSUME NEW c, NEW s \in Seq(Bytes), NEW r \in Results, NEW match \in Nat \X Nat,
         InOrder(c, s, r)
  PROVE  InOrder(c, s, CutAt(c, s, r, match))
<1> DEFINE i == match[1]
           len == match[2]
           end == i + len
           u == Update(c, r.glue, s, end, len)
           stops == ~r.ok \/ (IF Glued(c) THEN i < r.glue.pos \/ end > Len(s)
                                          ELSE i < r.read \/ i > Len(s))
<1>0. Len(s) \in Nat /\ i \in Nat /\ len \in Nat /\ end = i + len
  BY LenProperties
<1>1. /\ r.read \in Nat /\ r.glue.start \in Nat /\ r.glue.pos \in Nat /\ r.glue.delim \in Nat
      /\ r.glue = [start |-> r.glue.start, pos |-> r.glue.pos, delim |-> r.glue.delim]
      /\ r = [ok |-> r.ok, read |-> r.read, frames |-> r.frames, glue |-> r.glue]
  BY DEF Results, Positions
<1>2. CASE stops
  <2>1. CutAt(c, s, r, match) = [r EXCEPT !.ok = FALSE]
    BY <1>2 DEF CutAt
  <2> QED BY <1>1, <2>1 DEF InOrder
<1>3. CASE ~stops /\ ~Glued(c)
  <2>1. CutAt(c, s, r, match)
          = [r EXCEPT !.frames = Append(@, Slice(s, r.read, i)), !.read = end]
    BY <1>3 DEF CutAt
  <2>2. CutAt(c, s, r, match).glue = r.glue
    BY <1>1, <2>1
  <2> QED BY <1>3, <2>2 DEF InOrder
<1>4. CASE ~stops /\ Glued(c)
  <2>1. r.glue.pos <= i /\ end <= Len(s)
    BY <1>0, <1>1, <1>4
  <2>2. /\ r.glue.start = r.read /\ r.read <= r.glue.pos
        /\ r.glue.pos > r.read => r.glue.delim <= r.glue.pos - r.read
    BY <1>4 DEF InOrder
  <2> DEFINE new == CutAt(c, s, r, match)
  <2>3. /\ u.flush = <<>> => new.glue = u.glue /\ new.read = r.read
        /\ u.flush # <<>> => new.glue = u.glue /\ new.read = u.flush[1].to
    <3>1. CASE u.flush = <<>>
      <4>1. new = [r EXCEPT !.glue = u.glue]
        BY <1>4, <3>1 DEF CutAt
      <4> HIDE DEF u, new
      <4> QED BY <1>1, <3>1, <4>1
    <3>2. CASE u.flush # <<>>
      <4> DEFINE f == u.flush[1]
      <4>1. new = [r EXCEPT !.glue = u.glue,
                            !.frames = Append(@, Slice(s, f.from, f.to - f.delim)), !.read = f.to]
        BY <1>4, <3>2 DEF CutAt
      <4> HIDE DEF u, new
      <4> QED BY <1>1, <3>2, <4>1
    <3> QED BY <3>1, <3>2
  <2>4. \/ u.glue = r.glue /\ u.flush = <<>>
        \/ /\ u.glue.start = r.glue.start /\ u.glue.pos = end /\ u.glue.delim = len
           /\ u.flush = <<>>
        \/ /\ u.glue.start = r.glue.pos /\ u.glue.pos = end /\ u.glue.delim = len
           /\ u.flush = IF r.glue.pos = r.glue.start THEN <<>>
                        ELSE Flush(r.glue.start, r.glue.pos, r.glue.delim)
        \/ /\ u.glue.start = end /\ u.glue.pos = end /\ u.glue.delim = len
           /\ u.flush = Flush(r.glue.start, end, len)
    <3>1. u.glue \in {r.glue, [r.glue EXCEPT !.pos = end, !.delim = len],
                      [start |-> r.glue.pos, pos |-> end, delim |-> len],
                      [start |-> end, pos |-> end, delim |-> len]}
      BY DEF Update
    <3> QED BY <1>1 DEF Update
  <2> HIDE DEF u, new
  <2>5. Flush(r.glue.start, r.glue.pos, r.glue.delim) # <<>> /\ Flush(r.glue.start, end, len) # <<>>
    BY FlushProperties
  <2>6. /\ new.glue.start = new.read
        /\ new.read <= new.glue.pos
        /\ new.glue.pos <= Len(s)
        /\ new.glue.pos > new.read => new.glue.delim <= new.glue.pos - new.read
    <3>1. CASE u.glue = r.glue /\ u.flush = <<>>
      BY <1>0, <1>1, <2>1, <2>2, <2>3, <3>1
    <3>2. CASE /\ u.glue.start = r.glue.start /\ u.glue.pos = end /\ u.glue.delim = len
               /\ u.flush = <<>>
      BY <1>0, <1>1, <2>1, <2>2, <2>3, <3>2
    <3>3. CASE /\ u.glue.start = r.glue.pos /\ u.glue.pos = end /\ u.glue.delim = len
               /\ u.flush = IF r.glue.pos = r.glue.start THEN <<>>
                            ELSE Flush(r.glue.start, r.glue.pos, r.glue.delim)
      <4>1. new.glue.start = new.read /\ new.read = r.glue.pos /\ new.glue.pos = end /\ new.glue.delim = len
        BY <2>2, <2>3, <2>5, <3>3, FlushProperties
      <4> QED BY <1>0, <1>1, <2>1, <4>1
    <3>4. CASE /\ u.glue.start = end /\ u.glue.pos = end /\ u.glue.delim = len
               /\ u.flush = Flush(r.glue.start, end, len)
      <4>1. new.glue.start = new.read /\ new.glue.pos = end /\ new.read = end
        BY <2>3, <2>5, <3>4, FlushProperties
      <4> QED BY <1>0, <1>1, <2>1, <4>1
    <3> QED BY <2>4, <3>1, <3>2, <3>3, <3>4
  <2> QED BY <1>4, <2>6 DEF InOrder, new
<1> QED BY <1>2, <1>3, <1>4

\* The positions kept between calls, for an input of n bytes.
GlueOK(c, n, g) ==
  /\ g \in Positions
  /\ g.start = 0
  /\ g.pos <= n
  /\ g.pos > 0 => g.delim <= g.pos
  /\ KeepsNothing(c) => g = NoGlue

\* Rebase, field by field.
LEMMA RebaseIs ==
  ASSUME NEW start, NEW pos, NEW delim
  PROVE  Rebase([start |-> start, pos |-> pos, delim |-> delim])
           = [start |-> 0, pos |-> pos - start, delim |-> delim]
<1> DEFINE g == [start |-> start, pos |-> pos, delim |-> delim]
           d == pos - start
<1>1. g.start = start /\ g.pos - g.start = d
  OBVIOUS
<1>2. Rebase(g) = [g EXCEPT !.pos = d, !.start = 0]
  BY <1>1 DEF Rebase
<1> HIDE DEF d
<1>3. [g EXCEPT !.pos = d, !.start = 0] = [start |-> 0, pos |-> d, delim |-> delim]
  <2>1. [g EXCEPT !.pos = d] = [start |-> start, pos |-> d, delim |-> delim]
    OBVIOUS
  <2>2. [[start |-> start, pos |-> d, delim |-> delim] EXCEPT !.start = 0]
          = [start |-> 0, pos |-> d, delim |-> delim]
    OBVIOUS
  <2>3. [g EXCEPT !.pos = d, !.start = 0] = [[g EXCEPT !.pos = d] EXCEPT !.start = 0]
    OBVIOUS
  <2> QED BY <2>1, <2>2, <2>3
<1> QED BY <1>2, <1>3 DEF d

\* decode leaves positions that fit what it leaves of the buffer.
LEMMA DecodedTypes ==
  ASSUME NEW c \in Configs, NEW s \in Seq(Bytes), NEW g, GlueOK(c, Len(s), g)
  PROVE  /\ Decoded(c, s, g) \in Results
         /\ Slice(s, Decoded(c, s, g).read, Len(s)) \in Seq(Bytes)
         /\ GlueOK(c, Len(Slice(s, Decoded(c, s, g).read, Len(s))), Decoded(c, s, g).glue)
<1>0. Len(s) \in Nat /\ Len(s) \in Int /\ Len(s) <= Len(s)
  BY LenProperties
<1>1. /\ g \in Positions /\ g.start = 0 /\ g.start \in Nat /\ g.pos \in Nat /\ g.delim \in Nat
      /\ g = [start |-> g.start, pos |-> g.pos, delim |-> g.delim]
      /\ g.pos <= Len(s)
  BY DEF GlueOK, Positions
<1>2. CASE ~AnyLine(c) /\ Delimiter(c) = <<>>
  <2>1. Decoded(c, s, g) = [ok |-> TRUE, read |-> Len(s), frames |-> <<s>>, glue |-> g]
    BY <1>2 DEF Decoded, Undelimited
  <2>2. <<s>> \in Seq(Seq(Bytes))
    OBVIOUS
  <2>3. Decoded(c, s, g) \in Results /\ Decoded(c, s, g).read = Len(s) /\ Decoded(c, s, g).glue = g
    BY <1>0, <1>1, <2>1, <2>2 DEF Results
  <2>4. Slice(s, Len(s), Len(s)) = <<>>
    BY WholeSlice
  <2>5. g = NoGlue
    BY <1>2 DEF GlueOK, KeepsNothing
  <2>6. GlueOK(c, 0, NoGlue)
    BY DEF GlueOK, NoGlue, Positions
  <2>7. <<>> \in Seq(Bytes) /\ Len(<<>>) = 0
    BY EmptySeq
  <2> QED BY <2>3, <2>4, <2>5, <2>6, <2>7
<1>3. CASE AnyLine(c) \/ Delimiter(c) # <<>>
  <2> DEFINE base == [ok |-> g.pos <= Len(s), read |-> 0, frames |-> <<>>, glue |-> g]
             M == IF g.pos <= Len(s) THEN Matches(c, s, g.pos) ELSE <<>>
             r == Cuts(c, s, base, M)
  <2>1. M \in Seq(Nat \X Nat)
    <3>1. g.pos \in 0 .. Len(s)
      BY <1>0, <1>1
    <3>2. Matches(c, s, g.pos) \in Seq(Nat \X Nat)
      BY <1>3, <3>1, MatchesAreTyped
    <3> QED BY <1>1, <3>2
  <2>2. base \in Results
    <3>1. <<>> \in Seq(Seq(Bytes)) /\ (g.pos <= Len(s)) \in BOOLEAN
      BY <1>0, <1>1, EmptySeq
    <3> QED BY <1>1, <3>1 DEF Results
  <2>3. InOrder(c, s, base)
    <3>1. base.glue = g /\ base.read = 0
      OBVIOUS
    <3> HIDE DEF base
    <3> QED BY <1>1, <3>1 DEF InOrder, GlueOK, KeepsNothing
  <2>4. Decoded(c, s, g) = [r EXCEPT !.glue = Rebase(@)]
    BY <1>3 DEF Decoded, Cuts
  <2> HIDE DEF base, M
  <2>turns. PICK st \in [0 .. Len(M) -> Results] : Turns(c, s, base, M, st)
    BY <2>1, <2>2, FoldSteps
  <2>5. /\ st[0] = base
        /\ \A k \in 1 .. Len(M) : st[k] = CutAt(c, s, st[k - 1], M[k])
        /\ r = st[Len(M)]
    BY <2>turns DEF Turns
  <2>6. Len(M) \in Nat
    BY <2>1, LenProperties
  <2> DEFINE U == {k \in Nat : k <= Len(M) => InOrder(c, s, st[k])}
  <2>7. 0 \in U
    BY <2>3, <2>5
  <2>8. ASSUME NEW k \in U
        PROVE  k + 1 \in U
    <3> SUFFICES ASSUME k + 1 <= Len(M) PROVE InOrder(c, s, st[k + 1])
      OBVIOUS
    <3>1. k + 1 \in 1 .. Len(M) /\ (k + 1) - 1 = k /\ k \in 0 .. Len(M)
      BY <2>6
    <3>2. st[k + 1] = CutAt(c, s, st[k], M[k + 1])
      BY <2>5, <3>1
    <3>3. M[k + 1] \in Nat \X Nat
      BY <2>1, <3>1, ElementOfSeq
    <3>4. st[k] \in Results /\ InOrder(c, s, st[k])
      BY <3>1
    <3> QED BY <3>2, <3>3, <3>4, CutKeepsOrder
  <2>9. \A k \in Nat : k \in U
    <3> HIDE DEF U
    <3> QED BY <2>7, <2>8, Induct DEF U
  <2> HIDE DEF r
  <2>10. r \in Results /\ InOrder(c, s, r)
    BY <2>5, <2>6, <2>9
  <2>11. /\ r.read \in Nat /\ r.glue.start \in Nat /\ r.glue.pos \in Nat /\ r.glue.delim \in Nat
         /\ r.glue = [start |-> r.glue.start, pos |-> r.glue.pos, delim |-> r.glue.delim]
         /\ r = [ok |-> r.ok, read |-> r.read, frames |-> r.frames, glue |-> r.glue]
         /\ r.ok \in BOOLEAN /\ r.frames \in Seq(Seq(Bytes))
    BY <2>10 DEF Results, Positions
  <2>12. Rebase(r.glue) = [start |-> 0, pos |-> r.glue.pos - r.glue.start, delim |-> r.glue.delim]
    BY <2>11, RebaseIs
  <2> DEFINE new == Decoded(c, s, g)
  <2>13. new = [ok |-> r.ok, read |-> r.read, frames |-> r.frames, glue |-> Rebase(r.glue)]
    BY <2>4, <2>11
  <2> HIDE DEF new
  <2>14. Slice(s, r.read, Len(s)) \in Seq(Bytes)
         /\ Len(Slice(s, r.read, Len(s))) = IF r.read <= Len(s) THEN Len(s) - r.read ELSE 0
    BY <1>0, <2>11, SliceProperties
  <2>15. CASE Glued(c)
    <3>1. /\ r.glue.start = r.read /\ r.read <= r.glue.pos /\ r.glue.pos <= Len(s)
          /\ r.glue.pos > r.read => r.glue.delim <= r.glue.pos - r.read
      BY <2>10, <2>15 DEF InOrder
    <3>2. r.glue.pos - r.glue.start \in Nat
      BY <2>11, <3>1
    <3>3. ~KeepsNothing(c)
      BY <1>3, <2>15 DEF KeepsNothing
    <3>4. Rebase(r.glue) \in Positions
      BY <2>11, <2>12, <3>2 DEF Positions
    <3>5. GlueOK(c, Len(Slice(s, r.read, Len(s))), Rebase(r.glue))
      <4>1. Len(Slice(s, r.read, Len(s))) = Len(s) - r.read
        BY <1>0, <2>11, <2>14, <3>1
      <4>2. /\ Rebase(r.glue).start = 0 /\ Rebase(r.glue).pos = r.glue.pos - r.read
            /\ Rebase(r.glue).delim = r.glue.delim
        BY <2>12, <3>1
      <4> QED BY <1>0, <2>11, <3>1, <3>3, <3>4, <4>1, <4>2 DEF GlueOK
    <3>6. new \in Results
      BY <2>11, <2>13, <3>4 DEF Results
    <3> QED BY <2>13, <2>14, <3>5, <3>6 DEF new
  <2>16. CASE ~Glued(c)
    <3>1. r.glue = NoGlue
      BY <2>10, <2>16 DEF InOrder
    <3>2. Rebase(NoGlue) = NoGlue /\ NoGlue \in Positions
      BY RebaseIs DEF NoGlue, Positions
    <3>3. new \in Results
      BY <2>11, <2>13, <3>1, <3>2 DEF Results
    <3>4. Len(Slice(s, r.read, Len(s))) \in Nat
      BY <2>14, LenProperties
    <3>5. GlueOK(c, Len(Slice(s, r.read, Len(s))), NoGlue)
      <4>1. NoGlue.start = 0 /\ NoGlue.pos = 0
        BY DEF NoGlue
      <4> QED BY <3>2, <3>4, <4>1 DEF GlueOK
    <3> QED BY <2>13, <2>14, <3>1, <3>2, <3>3, <3>5 DEF new
  <2> QED BY <2>15, <2>16
<1> QED BY <1>2, <1>3

TypeInv ==
  /\ TypeOK
  /\ GlueOK(config, Len(buf), glue)

\* The initial positions fit any buffer.
LEMMA NoGlueIsOK ==
  ASSUME NEW c, NEW n \in Nat
  PROVE  GlueOK(c, n, NoGlue) /\ NoGlue.start = 0 /\ NoGlue.pos = 0 /\ NoGlue.delim = 0
BY DEF GlueOK, NoGlue, Positions

\* TypeOK, from what it says of everything but the positions.
LEMMA TypesFrom ==
  ASSUME config \in Configs, buf \in Seq(Bytes), fed \in Seq(Bytes),
         status \in {"filled", "decoded", "flushed", "panicked"},
         frames \in Seq(Seq(Bytes)), GlueOK(config, Len(buf), glue)
  PROVE  TypeInv
<1>1. Len(buf) \in Nat
  BY LenProperties
<1>2. /\ glue.start = 0 /\ glue.pos \in Nat /\ glue.delim \in Nat /\ glue.pos <= Len(buf)
      /\ glue.pos > 0 => glue.delim <= glue.pos
  BY DEF GlueOK, Positions
<1> QED BY <1>1, <1>2 DEF TypeInv, TypeOK

\* flush gives frames.
LEMMA FlushedIsTyped ==
  ASSUME NEW c \in Configs, NEW s \in Seq(Bytes)
  PROVE  Flushed(c, s) \in Seq(Seq(Bytes))
<1>0. Len(s) \in Nat
  BY LenProperties
<1>1. TrailingDelimiter(c, s) \in Nat
  <2>1. ~AnyLine(c) => Len(Delimiter(c)) \in Nat
    BY ConfigTypes, LenProperties
  <2> QED BY <2>1 DEF TrailingDelimiter
<1>2. Len(s) - TrailingDelimiter(c, s) \in Int /\ Len(s) - TrailingDelimiter(c, s) <= Len(s)
  BY <1>0, <1>1
<1>3. Slice(s, 0, Len(s) - TrailingDelimiter(c, s)) \in Seq(Bytes)
  BY <1>2, SliceProperties
<1> QED BY <1>3, EmptySeq DEF Flushed

\* TypeInv holds at the start.
LEMMA InitTypes == Init => TypeInv
<1> SUFFICES ASSUME Init PROVE TypeInv
  OBVIOUS
<1>1. /\ config \in Configs /\ buf = <<>> /\ glue = NoGlue /\ status = "filled" /\ fed = <<>>
      /\ frames = <<>>
  BY DEF Init
<1>2. buf \in Seq(Bytes) /\ Len(buf) = 0 /\ fed \in Seq(Bytes) /\ frames \in Seq(Seq(Bytes))
  BY <1>1, EmptySeq
<1>3. GlueOK(config, Len(buf), glue)
  BY <1>1, <1>2, NoGlueIsOK
<1> QED BY <1>1, <1>2, <1>3, TypesFrom

\* Every step keeps TypeInv.
LEMMA NextTypes == TypeInv /\ [Next]_vars => TypeInv'
<1> SUFFICES ASSUME TypeInv, [Next]_vars PROVE TypeInv'
  OBVIOUS
<1>1. /\ config \in Configs /\ buf \in Seq(Bytes) /\ fed \in Seq(Bytes)
      /\ status \in {"filled", "decoded", "flushed", "panicked"}
      /\ frames \in Seq(Seq(Bytes)) /\ GlueOK(config, Len(buf), glue)
      /\ Len(buf) \in Nat
  BY LenProperties DEF TypeInv, TypeOK
<1> SUFFICES /\ config' \in Configs /\ buf' \in Seq(Bytes) /\ fed' \in Seq(Bytes)
             /\ status' \in {"filled", "decoded", "flushed", "panicked"}
             /\ frames' \in Seq(Seq(Bytes)) /\ GlueOK(config, Len(buf'), glue')
             /\ config' = config
  <2>1. Len(buf') \in Nat
    BY LenProperties
  <2>2. /\ glue'.start = 0 /\ glue'.pos \in Nat /\ glue'.delim \in Nat /\ glue'.pos <= Len(buf')
        /\ glue'.pos > 0 => glue'.delim <= glue'.pos
    BY DEF GlueOK, Positions
  <2> QED BY <2>1, <2>2 DEF TypeInv, TypeOK
<1>2. ASSUME NEW b \in Bytes, Receive(b)
      PROVE  /\ config' \in Configs /\ buf' \in Seq(Bytes) /\ fed' \in Seq(Bytes)
             /\ status' \in {"filled", "decoded", "flushed", "panicked"}
             /\ frames' \in Seq(Seq(Bytes)) /\ GlueOK(config, Len(buf'), glue')
             /\ config' = config
  <2>1. /\ buf' = Append(buf, b) /\ status' = "filled" /\ config' = config /\ glue' = glue
        /\ fed' = (IF status = "flushed" THEN <<b>> ELSE Append(fed, b))
        /\ frames' = (IF status = "flushed" THEN <<>> ELSE frames)
    BY <1>2 DEF Receive
  <2>2. buf' \in Seq(Bytes) /\ Len(buf') = Len(buf) + 1
    BY <1>1, <2>1, AppendProperties
  <2>3. fed' \in Seq(Bytes)
    <3>1. <<b>> \in Seq(Bytes) /\ Append(fed, b) \in Seq(Bytes)
      BY <1>1, AppendProperties
    <3> QED BY <2>1, <3>1
  <2>4. frames' \in Seq(Seq(Bytes))
    BY <1>1, <2>1, EmptySeq
  <2>5. GlueOK(config, Len(buf'), glue')
    BY <1>1, <2>1, <2>2 DEF GlueOK, Positions
  <2> QED BY <1>1, <2>1, <2>2, <2>3, <2>4, <2>5
<1>3. ASSUME DecodeBuf
      PROVE  /\ config' \in Configs /\ buf' \in Seq(Bytes) /\ fed' \in Seq(Bytes)
             /\ status' \in {"filled", "decoded", "flushed", "panicked"}
             /\ frames' \in Seq(Seq(Bytes)) /\ GlueOK(config, Len(buf'), glue')
             /\ config' = config
  <2> DEFINE r == Decoded(config, buf, glue)
  <2>1. CASE r.ok
    <3>1. /\ buf' = Slice(buf, r.read, Len(buf)) /\ glue' = r.glue /\ frames' = frames \o r.frames
          /\ status' = "decoded" /\ config' = config /\ fed' = fed
      BY <1>3, <2>1 DEF DecodeBuf
    <3>2. /\ r \in Results
          /\ Slice(buf, r.read, Len(buf)) \in Seq(Bytes)
          /\ GlueOK(config, Len(Slice(buf, r.read, Len(buf))), r.glue)
      BY <1>1, DecodedTypes
    <3> HIDE DEF r
    <3>3. r.frames \in Seq(Seq(Bytes))
      BY <3>2 DEF Results
    <3>4. frames' \in Seq(Seq(Bytes))
      BY <1>1, <3>1, <3>3, ConcatProperties
    <3> QED BY <1>1, <3>1, <3>2, <3>4
  <2>2. CASE ~r.ok
    <3>1. status' = "panicked" /\ UNCHANGED <<buf, glue, frames, config, fed>>
      BY <1>3, <2>2 DEF DecodeBuf
    <3> QED BY <1>1, <3>1
  <2> QED BY <2>1, <2>2
<1>4. ASSUME FlushBuf
      PROVE  /\ config' \in Configs /\ buf' \in Seq(Bytes) /\ fed' \in Seq(Bytes)
             /\ status' \in {"filled", "decoded", "flushed", "panicked"}
             /\ frames' \in Seq(Seq(Bytes)) /\ GlueOK(config, Len(buf'), glue')
             /\ config' = config
  <2>1. /\ glue' = NoGlue /\ frames' = frames \o Flushed(config, buf) /\ buf' = <<>>
        /\ status' = "flushed" /\ config' = config /\ fed' = fed
    BY <1>4 DEF FlushBuf, Reset
  <2>2. frames' \in Seq(Seq(Bytes))
    BY <1>1, <2>1, FlushedIsTyped, ConcatProperties
  <2>3. buf' \in Seq(Bytes) /\ Len(buf') = 0
    BY <2>1, EmptySeq
  <2>4. GlueOK(config, Len(buf'), glue')
    BY <2>1, <2>3, NoGlueIsOK
  <2> QED BY <1>1, <2>1, <2>2, <2>3, <2>4
<1>5. CASE UNCHANGED vars
  BY <1>1, <1>5 DEF vars
<1> QED BY <1>2, <1>3, <1>4, <1>5 DEF Next

\* TypeInv is an invariant.
LEMMA TypesHold == Spec => []TypeInv
<1> QED BY InitTypes, NextTypes, PTL DEF Spec

\* The buffer and the history are sequences of bytes, the frames sequences of such, and the
\* positions lie in the buffer, `start` at its beginning: `rebase` and the caller, who drops
\* what was read, agree (delimited.rs:212-215, 399).  For any configuration and any chunks.
THEOREM TypeCorrect == Spec => []TypeOK
<1>1. TypeInv => TypeOK
  BY DEF TypeInv
<1> QED BY <1>1, TypesHold, PTL

-----------------------------------------------------------------------------
(* Where the delimiters are *)

\* n is the first of these positions behind e.
IsNext(positions, e, n) == n \in positions /\ e < n /\ \A q \in positions : e < q => n <= q

\* Where Sound asks for it, the delimiter is one byte.
LEMMA OneByte ==
  ASSUME NEW c \in Configs, Sound(c), ~AnyLine(c)
  PROVE  \E d \in Bytes : Delimiter(c) = <<d>>
<1>1. Delimiter(c) \in Seq(Bytes) /\ Len(Delimiter(c)) = 1
  BY ConfigTypes DEF Sound
<1>2. Delimiter(c)[1] \in Bytes
  BY <1>1, ElementOfSeq
<1>3. Delimiter(c) = <<Delimiter(c)[1]>>
  BY <1>1
<1> QED BY <1>2, <1>3

\* Ends and EndLen, of either kind of delimiter.
LEMMA EndsAre ==
  ASSUME NEW c \in Configs, Sound(c)
  PROVE  /\ AnyLine(c) =>
              \A s \in Seq(Bytes) : \A p \in 1 .. Len(s) :
                /\ p \in Ends(c, s) <=> (s[p] = LF \/ (s[p] = CR /\ p < Len(s) /\ s[p + 1] # LF))
                /\ EndLen(c, s, p) = IF p > 1 /\ s[p] = LF /\ s[p - 1] = CR THEN 2 ELSE 1
         /\ ~AnyLine(c) =>
              \E d \in Bytes : \A s \in Seq(Bytes) : \A p \in 1 .. Len(s) :
                /\ p \in Ends(c, s) <=> s[p] = d
                /\ EndLen(c, s, p) = 1
         /\ \A s \in Seq(Bytes) : Ends(c, s) \subseteq 1 .. Len(s)
<1>0. \A s \in Seq(Bytes) : DOMAIN s = 1 .. Len(s)
  BY LenProperties
<1>1. CASE AnyLine(c)
  BY <1>0, <1>1 DEF Ends, EndLen
<1>2. CASE ~AnyLine(c)
  <2>1. PICK d \in Bytes : Delimiter(c) = <<d>>
    BY <1>2, OneByte
  <2>2. \A x : <<x>> = <<d>> <=> x = d
    OBVIOUS
  <2>3. \A s \in Seq(Bytes) : Ends(c, s) = {p \in 1 .. Len(s) : s[p] = d}
    BY <1>0, <1>2, <2>1, <2>2 DEF Ends
  <2>4. \A s, p : EndLen(c, s, p) = 1
    BY <1>2 DEF EndLen
  <2> QED BY <1>2, <2>3, <2>4
<1> QED BY <1>1, <1>2

\* What a position says about line endings.
LEMMA LineEndsAre ==
  ASSUME NEW c \in Configs, Sound(c), AnyLine(c), NEW b \in Seq(Bytes), NEW p \in 1 .. Len(b)
  PROVE  /\ p \in Ends(c, b) <=> (b[p] = LF \/ (b[p] = CR /\ p < Len(b) /\ b[p + 1] # LF))
         /\ EndLen(c, b, p) = IF p > 1 /\ b[p] = LF /\ b[p - 1] = CR THEN 2 ELSE 1
BY EndsAre

\* Line endings are positions of the text, one or two bytes long.
LEMMA EndsAreInside ==
  ASSUME NEW c \in Configs, Sound(c), NEW s \in Seq(Bytes)
  PROVE  /\ Len(s) \in Nat
         /\ Ends(c, s) \in SUBSET (1 .. Len(s))
         /\ \A p : EndLen(c, s, p) \in {1, 2}
<1>1. Len(s) \in Nat
  BY LenProperties
<1>2. Ends(c, s) \subseteq 1 .. Len(s)
  BY EndsAre
<1>3. \A p : EndLen(c, s, p) \in {1, 2}
  BY DEF EndLen
<1> QED BY <1>1, <1>2, <1>3

\* The two bytes of line endings differ.
LEMMA CrIsNotLf == CR # LF
BY DelimitedAssumption

\* No line ending reaches into the one before it.
LEMMA EndsApart ==
  ASSUME NEW c \in Configs, Sound(c), NEW s \in Seq(Bytes),
         NEW e \in {0} \union Ends(c, s), NEW n \in Ends(c, s), e < n
  PROVE  e <= n - EndLen(c, s, n)
<1>0. Len(s) \in Nat /\ n \in 1 .. Len(s) /\ e \in 0 .. Len(s) /\ EndLen(c, s, n) \in {1, 2}
  BY EndsAreInside
<1>1. CASE EndLen(c, s, n) = 1
  BY <1>0, <1>1
<1>2. CASE EndLen(c, s, n) = 2
  <2>1. AnyLine(c)
    BY <1>0, <1>2, EndsAre
  <2>2. n > 1 /\ s[n] = LF /\ s[n - 1] = CR
    BY <1>0, <1>2, <2>1, EndsAre
  <2>3. e # n - 1
    <3> SUFFICES ASSUME e = n - 1 PROVE FALSE
      OBVIOUS
    <3>1. e \in 1 .. Len(s) /\ e \in Ends(c, s) /\ s[e] = CR /\ s[e + 1] = LF
      BY <1>0, <2>2
    <3>2. s[e] = LF \/ s[e + 1] # LF
      BY <2>1, <3>1, EndsAre
    <3> QED BY <3>1, <3>2, CrIsNotLf
  <2> QED BY <1>0, <1>2, <2>3
<1> QED BY <1>0, <1>1, <1>2

\* The line endings in what is left behind one of them are those of the whole.
LEMMA EndsOfRest ==
  ASSUME NEW c \in Configs, Sound(c), NEW s \in Seq(Bytes), NEW base \in {0} \union Ends(c, s)
  PROVE  LET b == Slice(s, base, Len(s))
         IN  /\ b \in Seq(Bytes) /\ Len(b) = Len(s) - base /\ base \in 0 .. Len(s)
             /\ \A p \in 1 .. Len(b) :
                  /\ p \in Ends(c, b) <=> base + p \in Ends(c, s)
                  /\ EndLen(c, b, p) = EndLen(c, s, base + p)
<1> DEFINE b == Slice(s, base, Len(s))
<1>0. Len(s) \in Nat /\ base \in 0 .. Len(s)
  BY EndsAreInside
<1>1. b \in Seq(Bytes) /\ Len(b) = Len(s) - base /\ \A i \in 1 .. Len(s) - base : b[i] = s[base + i]
  BY <1>0, RestProperties
<1> HIDE DEF b
<1>2. ASSUME NEW p \in 1 .. Len(b)
      PROVE  /\ p \in Ends(c, b) <=> base + p \in Ends(c, s)
             /\ EndLen(c, b, p) = EndLen(c, s, base + p)
  <2>1. /\ base + p \in 1 .. Len(s) /\ b[p] = s[base + p]
        /\ p < Len(b) <=> base + p < Len(s)
        /\ p < Len(b) => b[p + 1] = s[(base + p) + 1]
    <3>1. base + p \in 1 .. Len(s) /\ p \in 1 .. Len(s) - base /\ (p < Len(b) <=> base + p < Len(s))
      BY <1>0, <1>1
    <3>2. ASSUME p < Len(b)
          PROVE  b[p + 1] = s[(base + p) + 1]
      <4>1. p + 1 \in 1 .. Len(s) - base /\ base + (p + 1) = (base + p) + 1
        BY <1>0, <1>1, <3>2
      <4> QED BY <1>1, <4>1
    <3> QED BY <1>1, <3>1, <3>2
  <2>2. p > 1 => base + p > 1 /\ b[p - 1] = s[(base + p) - 1]
    <3> SUFFICES ASSUME p > 1 PROVE base + p > 1 /\ b[p - 1] = s[(base + p) - 1]
      OBVIOUS
    <3>1. p - 1 \in 1 .. Len(s) - base /\ base + (p - 1) = (base + p) - 1 /\ base + p > 1
      BY <1>0, <1>1
    <3> QED BY <1>1, <3>1
  <2>3. CASE AnyLine(c)
    <3>1. p \in Ends(c, b) <=> base + p \in Ends(c, s)
      <4>1. p \in Ends(c, b) <=> (b[p] = LF \/ (b[p] = CR /\ p < Len(b) /\ b[p + 1] # LF))
        BY <1>1, <2>3, LineEndsAre
      <4> DEFINE q == base + p
      <4>2. q \in 1 .. Len(s)
        BY <2>1
      <4> HIDE DEF q
      <4>3. q \in Ends(c, s) <=> (s[q] = LF \/ (s[q] = CR /\ q < Len(s) /\ s[q + 1] # LF))
        BY <2>3, <4>2, LineEndsAre
      <4> QED BY <2>1, <4>1, <4>3 DEF q
    <3>4. EndLen(c, b, p) = IF p > 1 /\ b[p] = LF /\ b[p - 1] = CR THEN 2 ELSE 1
      BY <1>1, <2>3, LineEndsAre
    <3>5. EndLen(c, s, base + p)
            = IF base + p > 1 /\ s[base + p] = LF /\ s[(base + p) - 1] = CR THEN 2 ELSE 1
      BY <2>1, <2>3, LineEndsAre
    <3>2. CASE p > 1
      <4>1. base + p > 1 /\ b[p - 1] = s[(base + p) - 1] /\ b[p] = s[base + p]
        BY <2>1, <2>2, <3>2
      <4> QED BY <3>1, <3>2, <3>4, <3>5, <4>1
    <3>3. CASE p = 1
      <4>1. EndLen(c, b, p) = 1
        BY <3>3, <3>4
      <4>2. CASE base = 0
        <5>1. ~(base + p > 1)
          BY <3>3, <4>2
        <5> QED BY <3>1, <3>5, <4>1, <5>1
      <4>3. CASE base # 0
        <5>1. base \in 1 .. Len(s) /\ base \in Ends(c, s) /\ (base + 1) - 1 = base
          BY <1>0, <4>3
        <5>2. s[base] = LF \/ (s[base] = CR /\ s[base + 1] # LF)
          BY <2>3, <5>1, LineEndsAre
        <5>3. ~(s[base + 1] = LF /\ s[base] = CR)
          BY <5>2, CrIsNotLf
        <5>4. EndLen(c, s, base + 1) = 1
          BY <3>3, <3>5, <5>1, <5>3
        <5> QED BY <3>1, <3>3, <4>1, <5>4
      <4> QED BY <4>2, <4>3
    <3> QED BY <3>1, <3>2, <3>3
  <2>4. CASE ~AnyLine(c)
    <3>1. PICK d \in Bytes : \A t \in Seq(Bytes) : \A q \in 1 .. Len(t) :
                (q \in Ends(c, t) <=> t[q] = d) /\ EndLen(c, t, q) = 1
      BY <2>4, EndsAre
    <3> QED BY <1>1, <2>1, <3>1
  <2> QED BY <2>3, <2>4
<1> QED BY <1>0, <1>1, <1>2 DEF b

\* What the iterator gives from j on, when E says what it gives from a later position on.
ScansFrom(c, b, E, j) ==
  \/ /\ \A q \in Ends(c, b) : q <= j
     /\ E[j] = <<>>
  \/ \E n \in Ends(c, b) :
       /\ IsNext(Ends(c, b), j, n)
       /\ E[j] = <<<<n - EndLen(c, b, n), EndLen(c, b, n)>>>> \o E[n]

\* The iterators name every line ending, in order.
Scan(c, b, E) ==
  /\ \A j \in {0} \union Ends(c, b) : ScansFrom(c, b, E, j)
  /\ \A start \in 0 .. Len(b) : Matches(c, b, start) = E[start]

\* A search that starts later, but not behind the hit, finds the same.
LEMMA FindOn ==
  ASSUME NEW T, NEW s \in Seq(T), NEW bytes, NEW i \in 0 .. Len(s),
         NEW k \in i .. Find(s, bytes, i)
  PROVE  Find(s, bytes, k) = Find(s, bytes, i)
<1> DEFINE m == Find(s, bytes, i)
           o == Find(s, bytes, k)
<1>0. Len(s) \in Nat
  BY LenProperties
<1>1. /\ m \in i .. Len(s) /\ (m < Len(s) => s[m + 1] \in bytes)
      /\ \A j \in i .. m - 1 : s[j + 1] \notin bytes
  BY FindProperties
<1>2. k \in 0 .. Len(s) /\ k \in i .. m
  BY <1>0, <1>1
<1>3. /\ o \in k .. Len(s) /\ (o < Len(s) => s[o + 1] \in bytes)
      /\ \A j \in k .. o - 1 : s[j + 1] \notin bytes
  BY <1>2, FindProperties
<1> HIDE DEF m, o
<1>4. ~(o < m)
  <2> SUFFICES ASSUME o < m PROVE FALSE
    OBVIOUS
  <2>1. o \in i .. m - 1 /\ o < Len(s)
    BY <1>0, <1>1, <1>2, <1>3
  <2> QED BY <1>1, <1>3, <2>1
<1>5. ~(m < o)
  <2> SUFFICES ASSUME m < o PROVE FALSE
    OBVIOUS
  <2>1. m \in k .. o - 1 /\ m < Len(s)
    BY <1>0, <1>1, <1>2, <1>3
  <2> QED BY <1>1, <1>3, <2>1
<1>6. m = o
  BY <1>0, <1>1, <1>2, <1>3, <1>4, <1>5
<1> QED BY <1>6 DEF m, o

\* What EndingsFrom gives from position j on.
LineFrom(b, E, j) ==
  LET cr == Find(b, {CR}, j)
      lf == Find(b, {LF}, j)
  IN  IF cr < lf
        THEN IF IsHalfEnding(b, cr) THEN <<>>
             ELSE <<<<cr, CrLen(b, cr)>>>> \o E[cr + CrLen(b, cr)]
        ELSE IF lf >= Len(b) THEN <<>> ELSE <<<<lf, 1>>>> \o E[lf + 1]

\* LineEndings, by the position it starts from.
LEMMA LinesByPosition ==
  ASSUME NEW b \in Seq(Bytes)
  PROVE  \E E \in [0 .. Len(b) -> Seq(Nat \X Nat)] :
           /\ \A j \in 0 .. Len(b) : E[j] = LineFrom(b, E, j)
           /\ \A j \in 0 .. Len(b) : LineEndings(b, j) = E[j]
<1>0. Len(b) \in Nat
  BY LenProperties
<1>1. PICK h \in [Nexts(b) -> Seq(Nat \X Nat)] :
        /\ \A x \in Nexts(b) : h[x] = EndingsFrom(b, h, x)
        /\ \A start \in 0 .. Len(b) : LineEndings(b, start) = h[NextOf(b, start)]
  BY LineEndingsRecursion
<1>2. \A j \in 0 .. Len(b) : NextOf(b, j) \in Nexts(b)
  BY NextIsBehind
<1> DEFINE E == [j \in 0 .. Len(b) |-> h[NextOf(b, j)]]
<1>3. E \in [0 .. Len(b) -> Seq(Nat \X Nat)]
  BY <1>2
<1>4. \A j \in 0 .. Len(b) : E[j] = h[NextOf(b, j)]
  OBVIOUS
<1> HIDE DEF E
<1>5. ASSUME NEW j \in 0 .. Len(b)
      PROVE  E[j] = LineFrom(b, E, j)
  <2> DEFINE x == NextOf(b, j)
             cr == Find(b, {CR}, j)
             lf == Find(b, {LF}, j)
  <2>1. x \in Nexts(b) /\ x = [cr |-> cr, lf |-> lf] /\ x.cr = cr /\ x.lf = lf
    BY <1>2 DEF NextOf
  <2>2. E[j] = EndingsFrom(b, h, x)
    BY <1>1, <1>4, <2>1
  <2>3. cr \in j .. Len(b) /\ lf \in j .. Len(b)
    BY FindProperties
  <2> HIDE DEF x
  <2>4. CASE cr < lf /\ ~IsHalfEnding(b, cr)
    <3>1. cr + CrLen(b, cr) \in 0 .. Len(b)
      BY <2>1, <2>4, NextIsBehind
    <3>2. E[cr + CrLen(b, cr)] = h[NextOf(b, cr + CrLen(b, cr))]
      BY <1>4, <3>1
    <3> HIDE DEF cr, lf
    <3>3. EndingsFrom(b, h, x) = <<<<cr, CrLen(b, cr)>>>> \o E[cr + CrLen(b, cr)]
      BY <2>1, <2>4, <3>2 DEF EndingsFrom
    <3> QED BY <2>2, <2>4, <3>3 DEF LineFrom, cr, lf
  <2>5. CASE ~(cr < lf) /\ ~(lf >= Len(b))
    <3>1. lf + 1 \in 0 .. Len(b) /\ lf + 1 \in j .. cr
      <4>1. lf # cr
        <5> SUFFICES ASSUME lf = cr PROVE FALSE
          OBVIOUS
        <5>1. lf < Len(b) /\ cr < Len(b)
          BY <1>0, <2>3, <2>5
        <5>2. b[lf + 1] \in {LF} /\ b[cr + 1] \in {CR}
          BY <5>1, FindProperties
        <5> QED BY <5>2, CrIsNotLf
      <4> HIDE DEF cr, lf
      <4> QED BY <1>0, <2>3, <2>5, <4>1
    <3>2. Find(b, {CR}, lf + 1) = cr
      BY <3>1, FindOn
    <3>3. [x EXCEPT !.lf = Find(b, {LF}, x.lf + 1)] = NextOf(b, lf + 1)
      <4> DEFINE k == Find(b, {LF}, lf + 1)
      <4>1. NextOf(b, lf + 1) = [cr |-> cr, lf |-> k]
        BY <3>2 DEF NextOf
      <4>2. Find(b, {LF}, x.lf + 1) = k
        BY <2>1
      <4> HIDE DEF k, cr, lf
      <4> QED BY <2>1, <4>1, <4>2
    <3>4. E[lf + 1] = h[NextOf(b, lf + 1)]
      BY <1>4, <3>1
    <3> HIDE DEF cr, lf
    <3>5. EndingsFrom(b, h, x) = <<<<lf, 1>>>> \o E[lf + 1]
      BY <2>1, <2>5, <3>3, <3>4 DEF EndingsFrom
    <3> QED BY <2>2, <2>5, <3>5 DEF LineFrom, cr, lf
  <2>6. CASE (cr < lf /\ IsHalfEnding(b, cr)) \/ (~(cr < lf) /\ lf >= Len(b))
    <3> HIDE DEF cr, lf
    <3>1. EndingsFrom(b, h, x) = <<>>
      BY <2>1, <2>6 DEF EndingsFrom
    <3> QED BY <2>2, <2>6, <3>1 DEF LineFrom, cr, lf
  <2> QED BY <2>4, <2>5, <2>6
<1>6. \A j \in 0 .. Len(b) : LineEndings(b, j) = E[j]
  BY <1>1, <1>4
<1> QED BY <1>3, <1>5, <1>6

\* From one line ending, LineEndings goes on to the next.
LEMMA LinesScan ==
  ASSUME NEW c \in Configs, Sound(c), AnyLine(c), NEW b \in Seq(Bytes),
         NEW E \in [0 .. Len(b) -> Seq(Nat \X Nat)], NEW j \in {0} \union Ends(c, b),
         E[j] = LineFrom(b, E, j)
  PROVE  ScansFrom(c, b, E, j)
<1> DEFINE cr == Find(b, {CR}, j)
           lf == Find(b, {LF}, j)
           len == CrLen(b, cr)
<1>0. Len(b) \in Nat /\ j \in 0 .. Len(b) /\ Ends(c, b) \in SUBSET (1 .. Len(b))
  BY EndsAreInside
<1>1. /\ cr \in j .. Len(b) /\ (cr < Len(b) => b[cr + 1] = CR)
      /\ \A k \in j .. cr - 1 : b[k + 1] # CR
  BY <1>0, FindProperties
<1>2. /\ lf \in j .. Len(b) /\ (lf < Len(b) => b[lf + 1] = LF)
      /\ \A k \in j .. lf - 1 : b[k + 1] # LF
  BY <1>0, FindProperties
<1>3. E[j] = IF cr < lf THEN IF cr + 1 >= Len(b) THEN <<>> ELSE <<<<cr, len>>>> \o E[cr + len]
             ELSE IF lf >= Len(b) THEN <<>> ELSE <<<<lf, 1>>>> \o E[lf + 1]
  BY DEF LineFrom, IsHalfEnding
<1>4. len = IF cr + 1 < Len(b) /\ b[cr + 2] = LF THEN 2 ELSE 1
  BY DEF CrLen
<1> HIDE DEF cr, lf, len
\* Before both of them nothing ends.
<1>5. ASSUME NEW q \in Ends(c, b), j < q
      PROVE  q > cr \/ q > lf
  <2> SUFFICES ASSUME q <= cr, q <= lf PROVE FALSE
    BY <1>0, <1>1, <1>2
  <2>1. q \in 1 .. Len(b) /\ q - 1 \in j .. cr - 1 /\ q - 1 \in j .. lf - 1 /\ (q - 1) + 1 = q
    BY <1>0, <1>1, <1>2, <1>5
  <2>2. b[q] # CR /\ b[q] # LF
    BY <1>1, <1>2, <2>1
  <2> QED BY <1>0, <2>1, <2>2, LineEndsAre
<1>6. CASE cr < lf /\ cr + 1 < Len(b)
  <2> DEFINE n == cr + len
  <2>1. E[j] = <<<<cr, len>>>> \o E[n]
    BY <1>0, <1>1, <1>3, <1>6
  <2>2. /\ cr + 1 \in 1 .. Len(b) /\ b[cr + 1] = CR /\ j <= cr /\ cr \in Nat
    BY <1>0, <1>1, <1>6
  <2>3. CASE b[cr + 2] = LF
    <3>1. n = cr + 2 /\ len = 2 /\ n - 1 = cr + 1 /\ n > 1 /\ n \in 1 .. Len(b)
      BY <1>0, <1>4, <1>6, <2>2, <2>3
    <3>2. n \in Ends(c, b) /\ EndLen(c, b, n) = 2
      BY <2>2, <2>3, <3>1, LineEndsAre
    <3>3. ASSUME NEW q \in Ends(c, b), j < q
          PROVE  n <= q
      <4>1. q # cr + 1
        <5> SUFFICES ASSUME q = cr + 1 PROVE FALSE
          OBVIOUS
        <5>1. b[q] = CR /\ q + 1 = cr + 2 /\ b[q + 1] = LF
          BY <2>2, <2>3
        <5> QED BY <2>2, <5>1, LineEndsAre, CrIsNotLf
      <4> QED BY <1>0, <1>1, <1>2, <1>5, <1>6, <3>1, <3>3, <4>1
    <3>4. cr = n - EndLen(c, b, n) /\ j < n
      BY <2>2, <3>1, <3>2
    <3> HIDE DEF n
    <3>5. IsNext(Ends(c, b), j, n)
      BY <3>2, <3>3, <3>4 DEF IsNext
    <3> QED BY <2>1, <3>1, <3>2, <3>4, <3>5 DEF ScansFrom
  <2>4. CASE b[cr + 2] # LF
    <3>1. n = cr + 1 /\ len = 1 /\ n + 1 = cr + 2 /\ n \in 1 .. Len(b) /\ n < Len(b)
      BY <1>0, <1>4, <1>6, <2>2, <2>4
    <3>2. n \in Ends(c, b) /\ EndLen(c, b, n) = 1
      BY <2>2, <2>4, <3>1, LineEndsAre, CrIsNotLf
    <3>3. ASSUME NEW q \in Ends(c, b), j < q
          PROVE  n <= q
      BY <1>0, <1>1, <1>2, <1>5, <1>6, <3>1, <3>3
    <3>4. cr = n - EndLen(c, b, n) /\ j < n
      BY <2>2, <3>1, <3>2
    <3> HIDE DEF n
    <3>5. IsNext(Ends(c, b), j, n)
      BY <3>2, <3>3, <3>4 DEF IsNext
    <3> QED BY <2>1, <3>1, <3>2, <3>4, <3>5 DEF ScansFrom
  <2> QED BY <2>3, <2>4
<1>7. CASE cr < lf /\ cr + 1 >= Len(b)
  <2>1. E[j] = <<>>
    BY <1>3, <1>7
  <2>2. cr + 1 = Len(b) /\ cr < Len(b) /\ b[cr + 1] = CR
    BY <1>0, <1>1, <1>2, <1>7
  <2>3. ASSUME NEW q \in Ends(c, b), ~(q <= j)
        PROVE  FALSE
    <3>1. q = Len(b) /\ q \in 1 .. Len(b)
      BY <1>0, <1>1, <1>2, <1>5, <1>7, <2>2, <2>3, SMTT(30)
    <3>2. b[q] = CR
      BY <2>2, <3>1
    <3> QED BY <3>1, <3>2, LineEndsAre, CrIsNotLf
  <2> QED BY <2>1, <2>3 DEF ScansFrom
<1>8. CASE ~(cr < lf) /\ lf < Len(b)
  <2> DEFINE n == lf + 1
  <2>1. E[j] = <<<<lf, 1>>>> \o E[n]
    BY <1>0, <1>2, <1>3, <1>8
  <2>2. /\ n \in 1 .. Len(b) /\ n \in Nat /\ n - 1 = lf /\ b[n] = LF /\ j <= lf /\ lf \in Nat /\ j < n
    BY <1>0, <1>2, <1>8
  <2>3. ~(n > 1 /\ b[n - 1] = CR)
    <3> SUFFICES ASSUME n > 1, b[lf] = CR PROVE FALSE
      BY <2>2
    <3>1. CASE lf = j
      <4>1. j \in Ends(c, b) /\ j \in 1 .. Len(b) /\ b[j] = CR /\ b[j + 1] = LF
        BY <1>0, <2>2, <3>1
      <4> QED BY <4>1, LineEndsAre, CrIsNotLf
    <3>2. CASE lf # j
      <4>1. lf - 1 \in j .. cr - 1 /\ (lf - 1) + 1 = lf
        BY <1>0, <1>1, <1>8, <2>2, <3>2
      <4> QED BY <1>1, <4>1
    <3> QED BY <3>1, <3>2
  <2> HIDE DEF n
  <2>4. n \in Ends(c, b) /\ EndLen(c, b, n) = 1
    BY <2>2, <2>3, LineEndsAre
  <2>5. ASSUME NEW q \in Ends(c, b), j < q
        PROVE  n <= q
    <3>1. q > cr \/ q > lf
      BY <1>5, <2>5
    <3> QED BY <1>0, <1>1, <1>2, <1>8, <2>2, <3>1
  <2>6. lf = n - EndLen(c, b, n)
    BY <2>2, <2>4
  <2>7. IsNext(Ends(c, b), j, n)
    BY <2>2, <2>4, <2>5 DEF IsNext
  <2> QED BY <2>1, <2>4, <2>6, <2>7 DEF ScansFrom
<1>9. CASE ~(cr < lf) /\ lf >= Len(b)
  <2>1. E[j] = <<>>
    BY <1>3, <1>9
  <2>3. ASSUME NEW q \in Ends(c, b), ~(q <= j)
        PROVE  FALSE
    <3>1. q \in 1 .. Len(b) /\ (q > cr \/ q > lf)
      BY <1>0, <1>5, <2>3
    <3> QED BY <1>0, <1>1, <1>2, <1>9, <3>1
  <2> QED BY <2>1, <2>3 DEF ScansFrom
<1> QED BY <1>0, <1>1, <1>2, <1>6, <1>7, <1>8, <1>9

\* Every hit with its length.
Paired(h, len) == [k \in DOMAIN h |-> <<h[k], len>>]

\* Hits paired with the length of the delimiter.
LEMMA PairedProperties ==
  /\ Paired(<<>>, 1) = <<>>
  /\ \A i \in Nat, t \in Seq(Nat) :
       /\ Paired(t, 1) \in Seq(Nat \X Nat)
       /\ Paired(<<i>> \o t, 1) = <<<<i, 1>>>> \o Paired(t, 1)
<1>1. Paired(<<>>, 1) = <<>>
  BY DEF Paired
<1>2. ASSUME NEW t \in Seq(Nat)
      PROVE  /\ Paired(t, 1) \in Seq(Nat \X Nat)
             /\ Len(Paired(t, 1)) = Len(t)
             /\ \A k \in 1 .. Len(t) : Paired(t, 1)[k] = <<t[k], 1>>
  <2>1. Len(t) \in Nat /\ DOMAIN t = 1 .. Len(t)
    BY LenProperties
  <2>2. Paired(t, 1) = [k \in 1 .. Len(t) |-> <<t[k], 1>>]
    BY <2>1 DEF Paired
  <2>3. \A k \in 1 .. Len(t) : <<t[k], 1>> \in Nat \X Nat
    BY ElementOfSeq
  <2>4. [k \in 1 .. Len(t) |-> <<t[k], 1>>] \in Seq(Nat \X Nat)
    BY <2>1, <2>3, IsASeq
  <2>5. Len([k \in 1 .. Len(t) |-> <<t[k], 1>>]) = Len(t)
    BY <2>1, <2>4, LenProperties
  <2> QED BY <2>2, <2>4, <2>5
<1>3. ASSUME NEW i \in Nat, NEW t \in Seq(Nat)
      PROVE  Paired(<<i>> \o t, 1) = <<<<i, 1>>>> \o Paired(t, 1)
  <2> DEFINE u == <<i>> \o t
             l == Paired(u, 1)
             r == <<<<i, 1>>>> \o Paired(t, 1)
  <2>1. <<i>> \in Seq(Nat) /\ Len(<<i>>) = 1 /\ <<<<i, 1>>>> \in Seq(Nat \X Nat) /\ Len(<<<<i, 1>>>>) = 1
    OBVIOUS
  <2>2. u \in Seq(Nat) /\ Len(u) = 1 + Len(t) /\ Len(t) \in Nat /\ u[1] = i
        /\ \A k \in 2 .. 1 + Len(t) : u[k] = t[k - 1]
    BY <2>1, ConcatProperties, LenProperties
  <2>3. /\ r \in Seq(Nat \X Nat) /\ Len(r) = 1 + Len(t) /\ r[1] = <<i, 1>>
        /\ \A k \in 2 .. 1 + Len(t) : r[k] = Paired(t, 1)[k - 1]
    BY <1>2, <2>1, ConcatProperties, LenProperties
  <2> HIDE DEF u, r
  <2>4. l \in Seq(Nat \X Nat) /\ Len(l) = Len(u) /\ \A k \in 1 .. Len(u) : l[k] = <<u[k], 1>>
    BY <1>2, <2>2
  <2>5. ASSUME NEW k \in 1 .. Len(l)
        PROVE  l[k] = r[k]
    <3>1. CASE k = 1
      BY <2>2, <2>3, <2>4, <3>1
    <3>2. CASE k # 1
      <4>1. k \in 2 .. 1 + Len(t) /\ k - 1 \in 1 .. Len(t)
        BY <2>2, <2>4, <3>2
      <4> QED BY <1>2, <2>2, <2>3, <2>4, <4>1
    <3> QED BY <3>1, <3>2
  <2> HIDE DEF l
  <2>6. l = r
    BY <2>2, <2>3, <2>4, <2>5, SeqEqual
  <2> QED BY <2>6 DEF l, r, u
<1> QED BY <1>1, <1>2, <1>3

\* From one delimiter of one byte, Memchr goes on to the next.
LEMMA BytesScan ==
  ASSUME NEW c \in Configs, Sound(c), ~AnyLine(c), NEW b \in Seq(Bytes)
  PROVE  \E E \in [0 .. Len(b) -> Seq(Nat \X Nat)] : Scan(c, b, E)
<1>0. Len(b) \in Nat /\ Ends(c, b) \in SUBSET (1 .. Len(b)) /\ 1 \in Nat \ {0}
  BY EndsAreInside
<1>1. PICK d \in Bytes : Delimiter(c) = <<d>>
  BY OneByte
<1>2. \A p \in 1 .. Len(b) : (p \in Ends(c, b) <=> b[p] = d) /\ EndLen(c, b, p) = 1
  BY <1>1, LenProperties DEF Ends, EndLen
<1>3. PICK h \in [0 .. Len(b) + 1 -> Seq(Nat)] : ScansHits(b, {d}, 1, Nat, h)
  BY <1>0, MemchrScans
<1> DEFINE E == [j \in 0 .. Len(b) |-> Paired(h[j], 1)]
<1>4. \A j \in 0 .. Len(b) : h[j] \in Seq(Nat) /\ E[j] = Paired(h[j], 1) /\ E[j] \in Seq(Nat \X Nat)
  <2>1. \A j \in 0 .. Len(b) : j \in 0 .. Len(b) + 1
    BY <1>0
  <2>2. \A j \in 0 .. Len(b) : h[j] \in Seq(Nat) /\ E[j] = Paired(h[j], 1)
    BY <2>1
  <2> HIDE DEF E
  <2> QED BY <2>2, PairedProperties
<1>5. E \in [0 .. Len(b) -> Seq(Nat \X Nat)]
  BY <1>4 DEF E
<1> HIDE DEF E
<1>6. ASSUME NEW start \in 0 .. Len(b)
      PROVE  Matches(c, b, start) = E[start]
  <2>1. ToSet(<<d>>) = {d} /\ Len(<<d>>) = 1
    BY DEF ToSet
  <2>2. Matches(c, b, start) = Paired(Memchr(b, {d}, 1, Nat, start), 1)
    <3> DEFINE e == Delimiter(c)
               rest == {i \in 0 .. Len(b) - Len(e) : Slice(b, i + 3, i + Len(e)) = Slice(e, 3, Len(e))}
               hits == IF Len(e) <= 3
                         THEN Memchr(b, ToSet(e), Len(e), Nat, start)
                         ELSE Memchr(b, ToSet(Slice(e, 0, 3)), 1, rest, start)
    <3>1. Matches(c, b, start) = Paired(hits, Len(e))
      BY DEF Matches, Paired
    <3>2. Len(e) = 1 /\ Len(e) <= 3 /\ ToSet(e) = {d}
      BY <1>1, <2>1
    <3> HIDE DEF e, rest
    <3> QED BY <3>1, <3>2
  <2>3. Memchr(b, {d}, 1, Nat, start) = h[start]
    BY <1>3 DEF ScansHits
  <2> QED BY <1>4, <2>2, <2>3
<1>7. ASSUME NEW j \in 0 .. Len(b)
      PROVE  ScansFrom(c, b, E, j)
  <2> DEFINE m == Find(b, {d}, j)
  <2>1. /\ m \in j .. Len(b) /\ (m < Len(b) => b[m + 1] = d)
        /\ \A k \in j .. m - 1 : b[k + 1] # d
    BY FindProperties
  <2>2. h[j] = IF m = Len(b) THEN <<>> ELSE (IF m \in Nat THEN <<m>> ELSE <<>>) \o h[m + 1]
    <3>1. j \in 0 .. Len(b) + 1 /\ ~(j > Len(b))
      BY <1>0
    <3> QED BY <1>3, <3>1 DEF ScansHits, HitsFrom
  <2> HIDE DEF m
  <2>3. ASSUME NEW q \in Ends(c, b), j < q
        PROVE  m < q
    <3> SUFFICES ASSUME ~(m < q) PROVE FALSE
      OBVIOUS
    <3>1. q \in 1 .. Len(b) /\ q - 1 \in j .. m - 1 /\ (q - 1) + 1 = q
      BY <1>0, <2>1, <2>3
    <3> QED BY <1>2, <2>1, <3>1
  <2>4. CASE m = Len(b)
    <3>1. E[j] = <<>>
      BY <1>4, <2>2, <2>4, PairedProperties
    <3>2. \A q \in Ends(c, b) : q <= j
      BY <1>0, <2>3, <2>4
    <3> QED BY <3>1, <3>2 DEF ScansFrom
  <2>5. CASE m # Len(b)
    <3> DEFINE n == m + 1
    <3>1. n \in 1 .. Len(b) /\ n \in 0 .. Len(b) /\ b[n] = d /\ m \in Nat /\ n - 1 = m /\ j < n
      BY <1>0, <2>1, <2>5
    <3>2. h[j] = <<m>> \o h[n]
      BY <2>2, <2>5, <3>1
    <3>4. \A q \in Ends(c, b) : j < q => n <= q
      BY <1>0, <2>3, <3>1
    <3> HIDE DEF n
    <3>3. E[j] = <<<<m, 1>>>> \o E[n]
      BY <1>4, <3>1, <3>2, PairedProperties
    <3>5. n \in Ends(c, b) /\ EndLen(c, b, n) = 1
      BY <1>2, <3>1
    <3>6. IsNext(Ends(c, b), j, n)
      BY <3>1, <3>4, <3>5 DEF IsNext
    <3> QED BY <3>1, <3>3, <3>5, <3>6 DEF ScansFrom
  <2> QED BY <2>4, <2>5
<1>8. Scan(c, b, E)
  BY <1>0, <1>6, <1>7 DEF Scan
<1> QED BY <1>5, <1>8

\* The search, whatever the delimiter, goes from each line ending to the next.
LEMMA ScanExists ==
  ASSUME NEW c \in Configs, Sound(c), NEW b \in Seq(Bytes)
  PROVE  \E E \in [0 .. Len(b) -> Seq(Nat \X Nat)] : Scan(c, b, E)
<1>1. CASE AnyLine(c)
  <2>0. Len(b) \in Nat /\ Ends(c, b) \in SUBSET (1 .. Len(b))
    BY EndsAreInside
  <2>1. PICK E \in [0 .. Len(b) -> Seq(Nat \X Nat)] :
          /\ \A j \in 0 .. Len(b) : E[j] = LineFrom(b, E, j)
          /\ \A j \in 0 .. Len(b) : LineEndings(b, j) = E[j]
    BY LinesByPosition
  <2>2. \A j \in {0} \union Ends(c, b) : j \in 0 .. Len(b)
    BY <2>0
  <2>3. \A j \in {0} \union Ends(c, b) : ScansFrom(c, b, E, j)
    BY <1>1, <2>1, <2>2, LinesScan
  <2>4. \A start \in 0 .. Len(b) : Matches(c, b, start) = E[start]
    BY <1>1, <2>1 DEF Matches
  <2> QED BY <2>3, <2>4 DEF Scan
<1>2. CASE ~AnyLine(c)
  BY <1>2, BytesScan
<1> QED BY <1>1, <1>2

-----------------------------------------------------------------------------
(* The line endings that break frames apart, as far as they are known *)

Top(S) == Max({0} \union S)

Marked(c, s, n) == IsMatch(c, Piece(c, s, Ends(c, s), n))

\* What is known when the line endings up to e have been looked at.
Decided(c, s, e) ==
  {p \in Ends(c, s) :
     \/ c.glue = "none" /\ p <= e
     \/ c.glue = "next" /\ p <= e /\ ~Marked(c, s, p)
     \/ c.glue = "previous" /\ p < e /\ \E n : IsNext(Ends(c, s), p, n) /\ ~Marked(c, s, n)}

\* Top is the largest, or 0.
LEMMA TopProperties ==
  ASSUME NEW n \in Nat, NEW S \in SUBSET (1 .. n)
  PROVE  /\ Top(S) \in {0} \union S
         /\ Top(S) \in 0 .. n
         /\ \A y \in S : y <= Top(S)
         /\ \A m \in {0} \union S : (\A y \in S : y <= m) => Top(S) = m
<1> DEFINE Z == {0} \union S
<1>1. Z \in SUBSET (0 .. n) /\ Z # {} /\ Z \in SUBSET Int
  OBVIOUS
<1>2. Max(Z) \in Z /\ \A y \in Z : y <= Max(Z)
  BY <1>1, MaxExists
<1>3. ASSUME NEW m \in Z, \A y \in S : y <= m
      PROVE  Max(Z) = m
  <2>1. m \in Int /\ 0 <= m
    OBVIOUS
  <2>2. \A y \in Z : y <= m
    BY <1>3, <2>1
  <2> QED BY <1>1, <2>2, MaxIs
<1>4. Top(S) = Max(Z)
  BY DEF Top
<1> QED BY <1>1, <1>2, <1>3, <1>4

\* Piece, with Top.
LEMMA PieceIs ==
  ASSUME NEW c, NEW s, NEW P, NEW p
  PROVE  Piece(c, s, P, p) = Slice(s, Top({q \in P : q < p}), p - EndLen(c, s, p))
BY DEF Piece, Top

\* What is decided lies before what was looked at.
LEMMA DecidedInside ==
  ASSUME NEW c \in Configs, Sound(c), NEW s \in Seq(Bytes), NEW e \in {0} \union Ends(c, s)
  PROVE  /\ Decided(c, s, e) \in SUBSET (1 .. Len(s))
         /\ \A p \in Decided(c, s, e) : p \in Ends(c, s) /\ p <= e
         /\ c.glue = "previous" => \A p \in Decided(c, s, e) : p < e
         /\ Decided(c, s, 0) = {}
<1>1. Len(s) \in Nat /\ Ends(c, s) \in SUBSET (1 .. Len(s)) /\ e \in Nat
  BY EndsAreInside
<1> QED BY <1>1 DEF Decided

\* What the next line ending decides.
LEMMA DecidedGrows ==
  ASSUME NEW c \in Configs, Sound(c), NEW s \in Seq(Bytes), NEW e \in {0} \union Ends(c, s), NEW n,
         IsNext(Ends(c, s), e, n)
  PROVE  /\ c.glue = "none" => Decided(c, s, n) = Decided(c, s, e) \union {n}
         /\ c.glue = "next" =>
              Decided(c, s, n) = IF Marked(c, s, n) THEN Decided(c, s, e)
                                 ELSE Decided(c, s, e) \union {n}
         /\ c.glue = "previous" =>
              Decided(c, s, n) = IF e = 0 \/ Marked(c, s, n) THEN Decided(c, s, e)
                                 ELSE Decided(c, s, e) \union {e}
<1> DEFINE ends == Ends(c, s)
<1>1. ends \in SUBSET Nat /\ e \in Nat /\ n \in Nat /\ 0 \notin ends
  <2>1. ends \in SUBSET (1 .. Len(s)) /\ Len(s) \in Nat
    BY EndsAreInside
  <2> QED BY <2>1 DEF IsNext
<1>2. n \in ends /\ e < n /\ \A q \in ends : e < q => n <= q
  BY DEF IsNext
<1>3. \A p \in ends : (p <= n <=> p <= e \/ p = n) /\ (p < n <=> p <= e) /\ (p <= e <=> p < e \/ p = e)
  BY <1>1, <1>2
<1>4. \A m : IsNext(ends, e, m) <=> m = n
  BY <1>1, <1>2 DEF IsNext
<1> HIDE DEF ends
<1>5. CASE c.glue = "none"
  BY <1>2, <1>3, <1>5 DEF Decided, ends
<1>6. CASE c.glue = "next"
  BY <1>2, <1>3, <1>6 DEF Decided, ends
<1>7. CASE c.glue = "previous"
  <2>1. \A p : p \in Decided(c, s, n) <=>
                 p \in ends /\ p <= e /\ \E m : IsNext(ends, p, m) /\ ~Marked(c, s, m)
    BY <1>3, <1>7 DEF Decided, ends
  <2>2. \A p : p \in Decided(c, s, e) <=>
                 p \in ends /\ p < e /\ \E m : IsNext(ends, p, m) /\ ~Marked(c, s, m)
    BY <1>7 DEF Decided, ends
  <2>3. (\E m : IsNext(ends, e, m) /\ ~Marked(c, s, m)) <=> ~Marked(c, s, n)
    BY <1>4
  <2>4. e \in ends <=> e # 0
    BY <1>1 DEF ends
  <2>5. \A p : p \in Decided(c, s, n) <=>
                 p \in Decided(c, s, e) \/ (p = e /\ e # 0 /\ ~Marked(c, s, n))
    BY <1>3, <2>1, <2>2, <2>3, <2>4
  <2> DEFINE new == Decided(c, s, n)
             old == Decided(c, s, e)
  <2> HIDE DEF new, old
  <2>6. new = IF e = 0 \/ Marked(c, s, n) THEN old ELSE old \union {e}
    <3>1. CASE e = 0 \/ Marked(c, s, n)
      <4>1. \A p : p \in new <=> p \in old
        BY <2>5, <3>1 DEF new, old
      <4>2. new = old
        BY <4>1
      <4> QED BY <3>1, <4>2
    <3>2. CASE ~(e = 0 \/ Marked(c, s, n))
      <4>1. \A p : p \in new <=> p \in old \union {e}
        BY <2>5, <3>2 DEF new, old
      <4>2. new = old \union {e}
        BY <4>1
      <4> QED BY <3>2, <4>2
    <3> QED BY <3>1, <3>2
  <2> QED BY <1>7, <2>6 DEF new, old
<1>8. c.glue \in {"none", "previous", "next"}
  BY ConfigTypes
<1> QED BY <1>5, <1>6, <1>7, <1>8

\* At the last line ending everything is decided.
LEMMA DecidedAll ==
  ASSUME NEW c \in Configs, Sound(c), NEW s \in Seq(Bytes), NEW e \in {0} \union Ends(c, s),
         \A q \in Ends(c, s) : q <= e
  PROVE  Decided(c, s, e) = Breaks(c, s)
<1> DEFINE ends == Ends(c, s)
           Following(p) == {q \in ends : q > p}
<1>0. ends \in SUBSET Nat /\ e \in Nat
  <2>1. ends \in SUBSET (1 .. Len(s)) /\ Len(s) \in Nat
    BY EndsAreInside
  <2> QED BY <2>1
<1>1. CASE c.glue = "none"
  <2>1. Breaks(c, s) = ends
    BY <1>1 DEF Breaks
  <2> QED BY <1>1, <2>1 DEF Decided
<1>2. CASE c.glue = "next"
  <2>1. Breaks(c, s) = {p \in ends : ~Marked(c, s, p)}
    BY <1>2 DEF Breaks, Marked
  <2> QED BY <1>2, <2>1 DEF Decided
<1>3. CASE c.glue = "previous"
  <2>1. Breaks(c, s) = {p \in ends : Following(p) # {} /\ ~Marked(c, s, Min(Following(p)))}
    BY <1>3 DEF Breaks, Marked
  <2>2. ASSUME NEW p \in ends
        PROVE  /\ Following(p) # {} => IsNext(ends, p, Min(Following(p))) /\ p < e
               /\ \A m : IsNext(ends, p, m) => m = Min(Following(p)) /\ Following(p) # {}
    <3>1. Following(p) \in SUBSET Nat /\ Following(p) \in SUBSET Int /\ p \in Nat
      BY <1>0
    <3>2. ASSUME Following(p) # {}
          PROVE  IsNext(ends, p, Min(Following(p))) /\ p < e
      <4> DEFINE m == Min(Following(p))
      <4>1. m \in Following(p) /\ \A y \in Following(p) : m <= y
        BY <3>1, <3>2, MinExists
      <4> HIDE DEF m
      <4>2. p < m /\ m \in ends /\ m <= e /\ m \in Nat
        BY <1>0, <3>1, <4>1
      <4>3. IsNext(ends, p, m) /\ p < e
        BY <1>0, <3>1, <4>1, <4>2 DEF IsNext
      <4> QED BY <4>3 DEF m
    <3>3. ASSUME NEW m, IsNext(ends, p, m)
          PROVE  m = Min(Following(p)) /\ Following(p) # {}
      <4>1. m \in Following(p) /\ \A y \in Following(p) : m <= y
        BY <1>0, <3>3 DEF IsNext
      <4> HIDE DEF Following
      <4> QED BY <3>1, <4>1, MinIs
    <3> QED BY <3>2, <3>3
  <2> HIDE DEF Following
  <2>3. \A p : p \in Decided(c, s, e) <=>
                 p \in ends /\ p < e /\ \E m : IsNext(ends, p, m) /\ ~Marked(c, s, m)
    BY <1>3 DEF Decided
  <2> HIDE DEF ends
  <2>4. \A p : p \in Decided(c, s, e) <=> p \in Breaks(c, s)
    BY <2>1, <2>2, <2>3
  <2> QED BY <2>4 DEF Decided, Breaks
<1>4. c.glue \in {"none", "previous", "next"}
  BY ConfigTypes
<1> QED BY <1>1, <1>2, <1>3, <1>4

-----------------------------------------------------------------------------
(* Pieces, one after the other *)

UpTo(P, p) == {q \in P : q <= p}

\* Each of the positions has its turn.
Ranked(P) == \A k \in 1 .. Cardinality(P) : {p \in P : Cardinality(UpTo(P, p)) = k} # {}

\* Nth, with UpTo.
LEMMA NthIs ==
  ASSUME NEW P, NEW k
  PROVE  Nth(P, k) = Min({p \in P : Cardinality(UpTo(P, p)) = k})
BY DEF Nth, UpTo

\* Positions of a text are finitely many.
LEMMA PositionsAreFinite ==
  ASSUME NEW n \in Nat, NEW P \in SUBSET (1 .. n)
  PROVE  IsFiniteSet(P) /\ Cardinality(P) \in Nat /\ P \in SUBSET Nat
<1>1. P \in SUBSET Nat /\ \A p \in P : p <= n
  OBVIOUS
<1> QED BY <1>1, FS_BoundedSetOfNaturals, FS_CardinalityType

\* A new last position keeps the ranks of the others.
LEMMA RanksGrow ==
  ASSUME NEW m \in Nat, NEW P \in SUBSET (1 .. m), NEW n \in Nat, \A p \in P : p < n, Ranked(P)
  PROVE  /\ Cardinality(P \union {n}) = Cardinality(P) + 1
         /\ Ranked(P \union {n})
         /\ \A k \in 1 .. Cardinality(P) : Nth(P \union {n}, k) = Nth(P, k) /\ Nth(P, k) \in P
         /\ Nth(P \union {n}, Cardinality(P) + 1) = n
<1> DEFINE Q == P \union {n}
           N == Cardinality(P)
           Rank(p) == Cardinality(UpTo(P, p))
           NewRank(p) == Cardinality(UpTo(Q, p))
<1>1. IsFiniteSet(P) /\ N \in Nat /\ P \in SUBSET Nat /\ n \notin P
  <2>1. n \notin P
    OBVIOUS
  <2> QED BY <2>1, PositionsAreFinite
<1>2. Cardinality(Q) = N + 1
  BY <1>1, FS_AddElement
<1>3. ASSUME NEW p \in P
      PROVE  NewRank(p) = Rank(p) /\ Rank(p) <= N /\ Rank(p) \in Nat
  <2>1. UpTo(Q, p) = UpTo(P, p) /\ UpTo(P, p) \in SUBSET P
    BY <1>1 DEF UpTo
  <2>2. IsFiniteSet(UpTo(P, p)) /\ Cardinality(UpTo(P, p)) <= Cardinality(P)
    BY <1>1, <2>1, FS_Subset
  <2> QED BY <2>1, <2>2, FS_CardinalityType
<1>4. NewRank(n) = N + 1
  <2>0. \A q \in Q : q <= n
    BY <1>1
  <2>1. UpTo(Q, n) = Q
    BY <2>0 DEF UpTo
  <2> QED BY <1>2, <2>1
<1>5. ASSUME NEW k \in 1 .. N
      PROVE  {p \in Q : NewRank(p) = k} = {p \in P : Rank(p) = k}
  <2>1. NewRank(n) # k
    BY <1>1, <1>4
  <2> HIDE DEF Rank, NewRank, N
  <2> QED BY <1>3, <2>1
<1>6. {p \in Q : NewRank(p) = N + 1} = {n}
  <2>1. \A p \in P : NewRank(p) # N + 1
    BY <1>1, <1>3
  <2> HIDE DEF NewRank, N
  <2> QED BY <1>4, <2>1
<1>7. \A k \in 1 .. N : {p \in P : Rank(p) = k} # {}
  BY DEF Ranked
<1>8. Ranked(Q)
  <2> SUFFICES ASSUME NEW k \in 1 .. N + 1
               PROVE  {p \in Q : NewRank(p) = k} # {}
    BY <1>2 DEF Ranked
  <2>1. CASE k = N + 1
    BY <1>6, <2>1
  <2>2. CASE k # N + 1
    <3>1. k \in 1 .. N
      BY <1>1, <2>2
    <3> HIDE DEF Rank, NewRank, N
    <3> QED BY <1>5, <1>7, <3>1
  <2> QED BY <2>1, <2>2
<1>9. ASSUME NEW k \in 1 .. N
      PROVE  Nth(Q, k) = Nth(P, k) /\ Nth(P, k) \in P
  <2> DEFINE R == {p \in P : Rank(p) = k}
  <2>1. Nth(P, k) = Min(R) /\ Nth(Q, k) = Min(R)
    <3>1. Nth(Q, k) = Min({p \in Q : NewRank(p) = k})
      BY NthIs
    <3> QED BY <1>5, <3>1, NthIs
  <2>2. R \in SUBSET Nat /\ R # {} /\ R \subseteq P
    BY <1>1, <1>7
  <2> HIDE DEF R
  <2> QED BY <2>1, <2>2, MinExists
<1>10. Nth(Q, N + 1) = n
  <2>1. Nth(Q, N + 1) = Min({n})
    BY <1>6, NthIs
  <2>2. Min({n}) = n
    BY MinIs
  <2> QED BY <2>1, <2>2
<1> QED BY <1>2, <1>8, <1>9, <1>10

\* The k-th piece ends at the k-th position.
LEMMA PiecesAreTyped ==
  ASSUME NEW c \in Configs, Sound(c), NEW s \in Seq(Bytes), NEW P \in SUBSET (1 .. Len(s)), Ranked(P)
  PROVE  /\ Pieces(c, s, P) \in Seq(Seq(Bytes))
         /\ Len(Pieces(c, s, P)) = Cardinality(P)
         /\ \A k \in 1 .. Cardinality(P) :
              Nth(P, k) \in P /\ Pieces(c, s, P)[k] = Piece(c, s, P, Nth(P, k))
<1>0. Len(s) \in Nat /\ \A p : EndLen(c, s, p) \in {1, 2}
  BY EndsAreInside
<1>1. IsFiniteSet(P) /\ Cardinality(P) \in Nat /\ P \in SUBSET Nat
  BY <1>0, PositionsAreFinite
<1>2. ASSUME NEW p \in P
      PROVE  Piece(c, s, P, p) \in Seq(Bytes)
  <2> DEFINE t == Top({q \in P : q < p})
  <2>1. t \in 0 .. Len(s)
    BY <1>0, TopProperties
  <2> HIDE DEF t
  <2>2. t \in Nat /\ p - EndLen(c, s, p) \in Int /\ p - EndLen(c, s, p) <= Len(s)
    BY <1>0, <2>1
  <2>3. Slice(s, t, p - EndLen(c, s, p)) \in Seq(Bytes)
    BY <2>2, SliceProperties
  <2> QED BY <2>3, PieceIs DEF t
<1>3. ASSUME NEW k \in 1 .. Cardinality(P)
      PROVE  Nth(P, k) \in P
  <2> DEFINE R == {p \in P : Cardinality(UpTo(P, p)) = k}
  <2>1. R \in SUBSET Nat /\ R # {} /\ R \subseteq P
    BY <1>1 DEF Ranked
  <2>2. Nth(P, k) = Min(R)
    BY NthIs
  <2> HIDE DEF R
  <2> QED BY <2>1, <2>2, MinExists
<1>4. Pieces(c, s, P) = [k \in 1 .. Cardinality(P) |-> Piece(c, s, P, Nth(P, k))]
  BY DEF Pieces
<1>5. \A k \in 1 .. Cardinality(P) : Piece(c, s, P, Nth(P, k)) \in Seq(Bytes)
  BY <1>2, <1>3
<1>6. [k \in 1 .. Cardinality(P) |-> Piece(c, s, P, Nth(P, k))] \in Seq(Seq(Bytes))
  BY <1>1, <1>5, IsASeq
<1> QED BY <1>1, <1>3, <1>4, <1>6, LenProperties

\* The piece that a new last position adds.
LEMMA PiecesAppend ==
  ASSUME NEW c \in Configs, Sound(c), NEW s \in Seq(Bytes), NEW P \in SUBSET (1 .. Len(s)), Ranked(P),
         NEW n \in 1 .. Len(s), \A p \in P : p < n
  PROVE  /\ Pieces(c, s, P \union {n})
              = Append(Pieces(c, s, P), Slice(s, Top(P), n - EndLen(c, s, n)))
         /\ Slice(s, Top(P), n - EndLen(c, s, n)) \in Seq(Bytes)
         /\ Ranked(P \union {n})
         /\ Top(P \union {n}) = n
<1> DEFINE Q == P \union {n}
           N == Cardinality(P)
           x == Slice(s, Top(P), n - EndLen(c, s, n))
<1>0. Len(s) \in Nat /\ n \in Nat /\ Q \in SUBSET (1 .. Len(s)) /\ n - EndLen(c, s, n) \in Int
      /\ n - EndLen(c, s, n) <= Len(s)
  <2>1. Len(s) \in Nat /\ EndLen(c, s, n) \in {1, 2}
    BY EndsAreInside
  <2> QED BY <2>1
<1>1. /\ Cardinality(Q) = N + 1 /\ Ranked(Q) /\ Nth(Q, N + 1) = n
      /\ \A k \in 1 .. N : Nth(Q, k) = Nth(P, k) /\ Nth(P, k) \in P
  BY <1>0, RanksGrow
<1>2. N \in Nat /\ n \notin P /\ P \in SUBSET Nat
  <2>1. n \notin P
    BY <1>0
  <2> QED BY <1>0, <2>1, PositionsAreFinite
<1>3. Top(Q) = n
  <2>1. \A y \in Q : y <= n
    BY <1>0, <1>2
  <2> QED BY <1>0, <2>1, TopProperties
<1>4. x \in Seq(Bytes)
  <2>1. Top(P) \in Nat
    BY <1>0, TopProperties
  <2> QED BY <1>0, <2>1, SliceProperties
<1>5. Piece(c, s, Q, n) = x
  <2>0. ~(n < n) /\ \A q \in P : q < n
    BY <1>0
  <2>1. {q \in Q : q < n} = P
    BY <2>0
  <2> QED BY <2>1, PieceIs
<1>6. ASSUME NEW p \in P
      PROVE  Piece(c, s, Q, p) = Piece(c, s, P, p)
  <2>1. {q \in Q : q < p} = {q \in P : q < p}
    BY <1>0, <1>2
  <2> QED BY <2>1, PieceIs
<1> DEFINE old == Pieces(c, s, P)
           new == Pieces(c, s, Q)
<1>7. old \in Seq(Seq(Bytes)) /\ Len(old) = N /\ \A k \in 1 .. N : old[k] = Piece(c, s, P, Nth(P, k))
  BY PiecesAreTyped
<1>8. /\ new \in Seq(Seq(Bytes)) /\ Len(new) = N + 1
      /\ \A k \in 1 .. N + 1 : new[k] = Piece(c, s, Q, Nth(Q, k))
  BY <1>0, <1>1, PiecesAreTyped
<1> HIDE DEF old, new, Q, N, x
<1>9. new = Append(old, x)
  <2> DEFINE a == Append(old, x)
  <2>1. /\ a \in Seq(Seq(Bytes)) /\ Len(a) = N + 1 /\ a[N + 1] = x
        /\ \A k \in 1 .. N : a[k] = old[k]
    BY <1>4, <1>7, AppendProperties
  <2> HIDE DEF a
  <2>2. ASSUME NEW k \in 1 .. Len(new)
        PROVE  new[k] = a[k]
    <3>1. CASE k = N + 1
      BY <1>1, <1>2, <1>5, <1>8, <2>1, <3>1
    <3>2. CASE k # N + 1
      <4>1. k \in 1 .. N /\ k \in 1 .. N + 1
        BY <1>2, <1>8, <3>2
      <4> QED BY <1>1, <1>6, <1>7, <1>8, <2>1, <4>1
    <3> QED BY <3>1, <3>2
  <2> QED BY <1>8, <2>1, <2>2, SeqEqual DEF a
<1> QED BY <1>1, <1>3, <1>4, <1>9 DEF old, new, Q, x

\* Without line endings there are no pieces.
LEMMA NoPieces ==
  ASSUME NEW c, NEW s
  PROVE  Pieces(c, s, {}) = <<>> /\ Ranked({}) /\ Top({}) = 0
<1>1. Cardinality({}) = 0
  BY FS_EmptySet
<1>2. Pieces(c, s, {}) = <<>> /\ Ranked({})
  BY <1>1 DEF Pieces, Ranked
<1>3. {0} \union {} = {0} /\ Max({0}) = 0
  BY MaxIs
<1> QED BY <1>2, <1>3 DEF Top

-----------------------------------------------------------------------------
(* One turn of the loop, seen from the whole text *)

\* Between e and the next line ending n there is one piece.
LEMMA PieceBehind ==
  ASSUME NEW c \in Configs, Sound(c), NEW s \in Seq(Bytes), NEW e \in {0} \union Ends(c, s), NEW n,
         IsNext(Ends(c, s), e, n)
  PROVE  /\ Piece(c, s, Ends(c, s), n) = Slice(s, e, n - EndLen(c, s, n))
         /\ e \in 0 .. Len(s) /\ n \in 1 .. Len(s) /\ e < n /\ n \in Ends(c, s)
         /\ EndLen(c, s, n) \in {1, 2} /\ Len(s) \in Nat
         /\ e <= n - EndLen(c, s, n)
<1>1. Ends(c, s) \in SUBSET (1 .. Len(s)) /\ Len(s) \in Nat /\ EndLen(c, s, n) \in {1, 2}
  BY EndsAreInside
<1>2. n \in Ends(c, s) /\ e < n /\ \A q \in Ends(c, s) : e < q => n <= q
  BY DEF IsNext
<1>3. e \in 0 .. Len(s) /\ n \in 1 .. Len(s)
  BY <1>1, <1>2
<1> DEFINE before == {q \in Ends(c, s) : q < n}
<1>4. before \in SUBSET (1 .. Len(s)) /\ e \in {0} \union before /\ \A y \in before : y <= e
  BY <1>1, <1>2, <1>3
<1> HIDE DEF before
<1>5. Top(before) = e
  BY <1>1, <1>4, TopProperties
<1>6. Piece(c, s, Ends(c, s), n) = Slice(s, e, n - EndLen(c, s, n))
  BY <1>5, PieceIs DEF before
<1>7. e <= n - EndLen(c, s, n)
  BY <1>2, EndsApart
<1> QED BY <1>1, <1>2, <1>3, <1>6, <1>7

\* Every line ending but the first follows one.
LEMMA EndBefore ==
  ASSUME NEW c \in Configs, Sound(c), NEW s \in Seq(Bytes), NEW n \in Ends(c, s)
  PROVE  \E e \in {0} \union Ends(c, s) : IsNext(Ends(c, s), e, n)
<1>1. Ends(c, s) \in SUBSET (1 .. Len(s)) /\ Len(s) \in Nat
  BY EndsAreInside
<1> DEFINE before == {q \in Ends(c, s) : q < n}
<1>2. before \in SUBSET (1 .. Len(s)) /\ n \in 1 .. Len(s)
  BY <1>1
<1>3. Top(before) \in {0} \union before /\ \A y \in before : y <= Top(before)
  BY <1>1, <1>2, TopProperties
<1>4. Top(before) \in {0} \union Ends(c, s) /\ Top(before) < n
  BY <1>2, <1>3
<1>5. ASSUME NEW q \in Ends(c, s), Top(before) < q
      PROVE  n <= q
  <2>1. q \notin before /\ q \in Nat /\ Top(before) \in Nat
    BY <1>1, <1>3, <1>4, <1>5
  <2> QED BY <1>1, <1>2, <2>1
<1> QED BY <1>4, <1>5 DEF IsNext

\* Whether a slice ends in the mark is seen from its last byte.
LEMMA MarkOfSlice ==
  ASSUME NEW c, c.on = "end", NEW s \in Seq(Bytes), NEW i \in Nat, NEW m \in Nat, i <= m, m <= Len(s)
  PROVE  IsMatch(c, Slice(s, i, m)) <=> i < m /\ s[m] = Mark
<1> DEFINE t == Slice(s, i, m)
<1>1. t \in Seq(Bytes) /\ Len(t) = m - i /\ \A k \in 1 .. m - i : t[k] = s[i + k]
  <2>1. s \in Seq(Bytes) /\ i \in Nat /\ m \in Int /\ m <= Len(s) /\ i <= m
    OBVIOUS
  <2> QED BY ONLY <2>1, SliceProperties
<1> HIDE DEF t
<1>2. IsMatch(c, t) <=> t # <<>> /\ t[Len(t)] = Mark
  BY DEF IsMatch, Last
<1>3. CASE i = m
  <2>1. t = <<>>
    BY <1>1, <1>3, EmptySeq
  <2> QED BY <1>2, <1>3, <2>1 DEF t
<1>4. CASE i < m
  <2>1. m - i \in 1 .. m - i /\ i + (m - i) = m
    BY <1>4
  <2>2. t # <<>>
    BY <1>1, <2>1, EmptySeq
  <2>3. t[Len(t)] = s[m]
    BY <1>1, <2>1
  <2> QED BY <1>2, <1>4, <2>2, <2>3 DEF t
<1> QED BY <1>3, <1>4

\* Of frames glued to the next one, the mark at the end is the same for the last piece and for
\* all of them together.
LEMMA MarkAtEnd ==
  ASSUME NEW c \in Configs, Sound(c), c.glue = "next", NEW s \in Seq(Bytes),
         NEW e \in {0} \union Ends(c, s), NEW n, IsNext(Ends(c, s), e, n)
  PROVE  IsMatch(c, Slice(s, Top(Decided(c, s, e)), n - EndLen(c, s, n))) <=> Marked(c, s, n)
<1> DEFINE t == Top(Decided(c, s, e))
           m == n - EndLen(c, s, n)
<1>0. c.on = "end"
  BY DEF Sound
<1>1. /\ Piece(c, s, Ends(c, s), n) = Slice(s, e, m) /\ e \in 0 .. Len(s) /\ n \in 1 .. Len(s)
      /\ Len(s) \in Nat /\ e <= m /\ m \in Nat /\ m <= Len(s) /\ e \in Nat
  BY PieceBehind
<1>2. Decided(c, s, e) \in SUBSET (1 .. Len(s)) /\ \A p \in Decided(c, s, e) : p <= e
  BY DecidedInside
<1>3. t \in {0} \union Decided(c, s, e) /\ t \in Nat /\ \A y \in Decided(c, s, e) : y <= t
  BY <1>1, <1>2, TopProperties
<1>4. t <= e /\ t <= m
  BY <1>1, <1>2, <1>3
<1> HIDE DEF t, m
<1>5. IsMatch(c, Slice(s, t, m)) <=> t < m /\ s[m] = Mark
  BY <1>0, <1>1, <1>3, <1>4, MarkOfSlice
<1>6. Marked(c, s, n) <=> e < m /\ s[m] = Mark
  BY <1>0, <1>1, MarkOfSlice DEF Marked
<1>7. ASSUME t < e, e = m, s[m] = Mark
      PROVE  FALSE
  <2>1. e \in Ends(c, s) /\ e \notin Decided(c, s, e) /\ e \in 1 .. Len(s)
    BY <1>1, <1>3, <1>7
  <2>2. Marked(c, s, e)
    BY <1>1, <2>1 DEF Decided
  <2>3. PICK d \in {0} \union Ends(c, s) : IsNext(Ends(c, s), d, e)
    BY <2>1, EndBefore
  <2> DEFINE k == e - EndLen(c, s, e)
  <2>4. Piece(c, s, Ends(c, s), e) = Slice(s, d, k) /\ d \in Nat /\ d <= k /\ k \in Nat /\ k <= Len(s)
    BY <2>3, PieceBehind
  <2> HIDE DEF k
  <2>5. d < k /\ s[k] = Mark
    BY <1>0, <2>2, <2>4, MarkOfSlice DEF Marked
  <2>6. CASE AnyLine(c)
    <3>1. s[e] \in {CR, LF}
      BY <2>1, <2>6, LineEndsAre
    <3>2. Mark \notin {CR, LF}
      BY DelimitedAssumption
    <3> QED BY <1>7, <3>1, <3>2
  <2>7. CASE ~AnyLine(c)
    <3>1. PICK x \in Bytes : \A p \in 1 .. Len(s) : (p \in Ends(c, s) <=> s[p] = x) /\ EndLen(c, s, p) = 1
      BY <2>7, EndsAre
    <3>2. k = e - 1 /\ k \in 1 .. Len(s) /\ k < e
      BY <1>1, <2>1, <2>4, <2>5, <3>1 DEF k
    <3>3. k \in Ends(c, s)
      BY <1>7, <2>1, <2>5, <3>1, <3>2
    <3>4. e <= k
      BY <2>3, <2>5, <3>3 DEF IsNext
    <3> QED BY <1>1, <3>2, <3>4
  <2> QED BY <2>6, <2>7
<1>8. t < m /\ s[m] = Mark <=> e < m /\ s[m] = Mark
  BY <1>1, <1>3, <1>4, <1>7
<1> QED BY <1>5, <1>6, <1>8 DEF t, m

\* The frames given out, before and now, are the pieces up to these positions.
Gives(c, s, before, given, D) == before \o given = Pieces(c, s, D) /\ Ranked(D)

\* What has been given out when the line endings up to e have been looked at, from the input
\* that begins at `base` of the text, and what has been given out before.
CutInv(c, s, base, before, r, e) ==
  /\ r.ok
  /\ base <= e
  /\ Gives(c, s, before, r.frames, Decided(c, s, e))
  /\ base + r.read = Top(Decided(c, s, e))
  /\ Glued(c) => r.glue.start = r.read
  /\ c.glue = "next" => r.glue.pos = r.read
  /\ c.glue = "previous" =>
       /\ base + r.glue.pos = e
       /\ e # 0 => r.glue.delim = EndLen(c, s, e)

\* Appending to the right part appends to the whole.
LEMMA ConcatAppend ==
  ASSUME NEW S, NEW a \in Seq(S), NEW b \in Seq(S), NEW x \in S
  PROVE  a \o Append(b, x) = Append(a \o b, x)
<1>1. <<x>> \in Seq(S) /\ a \o b \in Seq(S)
  BY ConcatProperties
<1>2. Append(b, x) = b \o <<x>> /\ Append(a \o b, x) = (a \o b) \o <<x>>
  BY <1>1, AppendIsConcat
<1>3. (a \o b) \o <<x>> = a \o (b \o <<x>>)
  BY <1>1, ConcatAssociative
<1> QED BY <1>2, <1>3

\* Giving out one more piece.
LEMMA Emit ==
  ASSUME NEW c \in Configs, Sound(c), NEW s \in Seq(Bytes), NEW D \in SUBSET (1 .. Len(s)),
         NEW before \in Seq(Seq(Bytes)), NEW given \in Seq(Seq(Bytes)),
         Gives(c, s, before, given, D), NEW n \in 1 .. Len(s), \A p \in D : p < n
  PROVE  Gives(c, s, before, Append(given, Slice(s, Top(D), n - EndLen(c, s, n))), D \union {n})
<1> DEFINE x == Slice(s, Top(D), n - EndLen(c, s, n))
<1>1. /\ Pieces(c, s, D \union {n}) = Append(Pieces(c, s, D), x) /\ x \in Seq(Bytes)
      /\ Ranked(D \union {n}) /\ Top(D \union {n}) = n
  <2>1. /\ Pieces(c, s, D \union {n}) = Append(Pieces(c, s, D), Slice(s, Top(D), n - EndLen(c, s, n)))
        /\ Slice(s, Top(D), n - EndLen(c, s, n)) \in Seq(Bytes)
        /\ Ranked(D \union {n}) /\ Top(D \union {n}) = n
    BY PiecesAppend DEF Gives
  <2> QED BY <2>1
<1> HIDE DEF x
<1>2. before \o Append(given, x) = Append(before \o given, x)
  BY <1>1, ConcatAppend
<1> QED BY <1>1, <1>2 DEF x, Gives

\* One turn of decode_string, at the next line ending.
LEMMA CutStep ==
  ASSUME NEW c \in Configs, Sound(c), NEW s \in Seq(Bytes), NEW base \in {0} \union Ends(c, s),
         NEW before \in Seq(Seq(Bytes)), NEW r \in Results, NEW e \in {0} \union Ends(c, s), NEW n,
         IsNext(Ends(c, s), e, n), CutInv(c, s, base, before, r, e)
  PROVE  CutInv(c, s, base, before,
                CutAt(c, Slice(s, base, Len(s)), r,
                      <<(n - EndLen(c, s, n)) - base, EndLen(c, s, n)>>), n)
<1> DEFINE b == Slice(s, base, Len(s))
           len == EndLen(c, s, n)
           i == (n - len) - base
           end == i + len
           g == r.glue
           D == Decided(c, s, e)
           t == Top(D)
           u == Update(c, g, b, end, len)
           new == CutAt(c, b, r, <<i, len>>)
<1>1. /\ Piece(c, s, Ends(c, s), n) = Slice(s, e, n - len) /\ e \in 0 .. Len(s) /\ n \in 1 .. Len(s)
      /\ e < n /\ n \in Ends(c, s) /\ len \in {1, 2} /\ Len(s) \in Nat /\ e <= n - len
  BY PieceBehind
<1>2. base \in 0 .. Len(s) /\ b \in Seq(Bytes) /\ Len(b) = Len(s) - base
  BY EndsOfRest
<1>3. /\ r.ok /\ base <= e /\ Gives(c, s, before, r.frames, D) /\ base + r.read = t
      /\ Glued(c) => g.start = r.read
      /\ c.glue = "next" => g.pos = r.read
      /\ c.glue = "previous" => base + g.pos = e /\ (e # 0 => g.delim = EndLen(c, s, e))
  BY DEF CutInv
<1>4. /\ r.read \in Nat /\ r.frames \in Seq(Seq(Bytes)) /\ g.start \in Nat /\ g.pos \in Nat
      /\ g.delim \in Nat
      /\ r = [ok |-> r.ok, read |-> r.read, frames |-> r.frames, glue |-> g]
      /\ g = [start |-> g.start, pos |-> g.pos, delim |-> g.delim]
  BY DEF Results, Positions
<1>5. D \in SUBSET (1 .. Len(s)) /\ (\A p \in D : p <= e) /\ (c.glue = "previous" => \A p \in D : p < e)
      /\ Decided(c, s, 0) = {}
  BY DecidedInside
<1>6. t \in {0} \union D /\ t \in 0 .. Len(s) /\ t <= e
  <2>1. t \in {0} \union D /\ t \in 0 .. Len(s)
    BY <1>1, <1>5, TopProperties
  <2> QED BY <1>1, <1>5, <2>1
<1>7. /\ i \in Nat /\ end = n - base /\ end \in Nat /\ end <= Len(b) /\ end - len = i /\ base + i = n - len
      /\ r.read <= i /\ base + end = n
  <2> DEFINE x == r.read
             m == Len(b)
  <2>1. /\ base \in Nat /\ e \in Nat /\ n \in Nat /\ len \in Nat /\ Len(s) \in Nat /\ t \in Nat /\ x \in Nat
        /\ e <= n - len /\ base <= e /\ base + x = t /\ t <= e /\ m = Len(s) - base /\ n <= Len(s)
        /\ base <= Len(s)
    <3> HIDE DEF D, t, b, len
    <3>1. base \in Nat /\ e \in Nat /\ n \in Nat /\ len \in Nat /\ Len(s) \in Nat /\ t \in Nat
      BY <1>1, <1>2, <1>6
    <3>2. x \in Nat /\ base + x = t /\ base <= e
      BY <1>3, <1>4
    <3>3. e <= n - len /\ t <= e /\ m = Len(s) - base /\ n <= Len(s) /\ base <= Len(s)
      BY <1>1, <1>2, <1>6
    <3> HIDE DEF x, m
    <3> QED BY ONLY <3>1, <3>2, <3>3
  <2> HIDE DEF D, t, b, len, x, m
  <2>2. /\ i \in Nat /\ end = n - base /\ end \in Nat /\ end <= m /\ end - len = i /\ base + i = n - len
        /\ x <= i /\ base + end = n
    BY ONLY <2>1
  <2> QED BY <2>2 DEF x, m
<1>8. ASSUME NEW j \in Nat, NEW k \in Nat, k <= Len(b)
      PROVE  Slice(b, j, k) = Slice(s, base + j, base + k)
  <2>1. base + k <= Len(s) /\ s \in Seq(Bytes) /\ base \in 0 .. Len(s) /\ j \in Nat /\ k \in Nat
    BY <1>1, <1>2, <1>8
  <2> QED BY ONLY <2>1, SliceOfSlice
\* A piece that is given out.
<1>9. ASSUME NEW p \in 1 .. Len(s), \A q \in D : q < p
      PROVE  LET x == Slice(s, t, p - EndLen(c, s, p))
             IN  Gives(c, s, before, Append(r.frames, x), D \union {p}) /\ Top(D \union {p}) = p
  <2>1. D \in SUBSET (1 .. Len(s)) /\ Gives(c, s, before, r.frames, D) /\ r.frames \in Seq(Seq(Bytes))
    BY <1>3, <1>4, <1>5
  <2> HIDE DEF D
  <2> DEFINE given == r.frames
  <2>2. \A q \in D : q < p
    BY <1>9
  <2>3. given \in Seq(Seq(Bytes)) /\ Gives(c, s, before, given, D)
    BY <2>1
  <2> HIDE DEF given
  <2>4. Gives(c, s, before, Append(given, Slice(s, Top(D), p - EndLen(c, s, p))), D \union {p})
    BY <2>1, <2>2, <2>3, Emit
  <2>5. Top(D \union {p}) = p
    <3>1. Len(s) \in Nat /\ D \union {p} \in SUBSET (1 .. Len(s)) /\ \A q \in D \union {p} : q <= p
      BY <1>1, <2>1, <2>2
    <3> QED BY <3>1, TopProperties
  <2> QED BY <2>4, <2>5 DEF given
<1>10. \A q \in D : q < n
  BY <1>1, <1>5
<1>11. n \in Ends(c, s) /\ base <= n
  BY <1>1, <1>2, <1>3
<1> HIDE DEF b, D, t, len, i, end
<1>12. CASE c.glue = "none"
  <2>1. Decided(c, s, n) = D \union {n}
    BY <1>12, DecidedGrows DEF D
  <2>2. t = e
    <3>1. e # 0 => e \in D
      BY <1>1, <1>12 DEF D, Decided
    <3> QED BY <1>1, <1>5, <1>6, <3>1, TopProperties DEF t
  <2>3. new = [r EXCEPT !.frames = Append(@, Slice(b, r.read, i)), !.read = end]
    <3>1. ~Glued(c) /\ ~(i < r.read) /\ ~(i > Len(b))
      <4>1. i <= Len(b)
        BY <1>1, <1>2, <1>7 DEF end
      <4> QED BY <1>2, <1>4, <1>7, <1>12, <4>1 DEF Glued
    <3> QED BY <1>3, <3>1 DEF CutAt, end
  <2>4. Slice(b, r.read, i) = Slice(s, t, n - len)
    <3>1. i <= Len(b)
      BY <1>1, <1>2, <1>7 DEF end
    <3> QED BY <1>3, <1>4, <1>7, <1>8, <3>1
  <2>5. /\ new.ok = r.ok /\ new.frames = Append(r.frames, Slice(s, t, n - len)) /\ new.read = end
    BY <1>4, <2>3, <2>4
  <2> HIDE DEF new
  <2>6. Gives(c, s, before, new.frames, D \union {n}) /\ Top(D \union {n}) = n
    BY <1>1, <1>9, <1>10, <2>5 DEF len
  <2>7. CutInv(c, s, base, before, new, n)
    BY <1>3, <1>7, <1>11, <1>12, <2>1, <2>5, <2>6 DEF CutInv, Glued
  <2> QED BY <2>7 DEF new, b, i, len
<1>13. CASE c.glue = "next"
  <2>1. Decided(c, s, n) = IF Marked(c, s, n) THEN D ELSE D \union {n}
    BY <1>13, DecidedGrows DEF D
  <2>2. Glued(c) /\ ~(i < g.pos) /\ ~(end > Len(b)) /\ c.glue # "previous"
    BY <1>2, <1>3, <1>4, <1>7, <1>13 DEF Glued
  <2>3. IsMatch(c, Slice(b, g.pos, end - len)) <=> Marked(c, s, n)
    <3>1. i <= Len(b)
      BY <1>1, <1>2, <1>7 DEF end
    <3>2. Slice(b, g.pos, end - len) = Slice(s, t, n - len)
      BY <1>3, <1>4, <1>7, <1>8, <1>13, <3>1
    <3>3. IsMatch(c, Slice(s, t, n - len)) <=> Marked(c, s, n)
      BY <1>13, MarkAtEnd DEF t, D, len
    <3> QED BY <3>2, <3>3
  <2>4. CASE Marked(c, s, n)
    <3>1. u.flush = <<>> /\ u.glue = g
      BY <2>2, <2>3, <2>4 DEF Update
    <3>2. new = [r EXCEPT !.glue = g]
      BY <1>3, <2>2, <3>1 DEF CutAt, end
    <3>3. new = r
      BY <1>4, <3>2
    <3> HIDE DEF new
    <3>4. CutInv(c, s, base, before, new, n)
      BY <1>3, <1>11, <1>13, <2>1, <2>4, <3>3 DEF CutInv, t
    <3> QED BY <3>4 DEF new, b, i, len
  <2>5. CASE ~Marked(c, s, n)
    <3>1. /\ u.flush = Flush(g.start, end, len)
          /\ u.glue = [start |-> end, pos |-> end, delim |-> len]
      BY <2>2, <2>3, <2>5 DEF Update
    <3> HIDE DEF u
    <3>2. /\ u.flush # <<>> /\ u.flush[1].from = g.start /\ u.flush[1].to = end
          /\ u.flush[1].delim = len
      BY <3>1, FlushProperties
    <3>3. new = [r EXCEPT !.glue = u.glue, !.frames = Append(@, Slice(b, g.start, end - len)),
                          !.read = end]
      BY <1>3, <2>2, <3>2 DEF CutAt, end, u
    <3>4. Slice(b, g.start, end - len) = Slice(s, t, n - len)
      <4>1. i <= Len(b)
        BY <1>1, <1>2, <1>7 DEF end
      <4> QED BY <1>3, <1>4, <1>7, <1>8, <2>2, <4>1
    <3>5. /\ new.ok = r.ok /\ new.frames = Append(r.frames, Slice(s, t, n - len)) /\ new.read = end
          /\ new.glue = u.glue
      BY <1>4, <3>3, <3>4
    <3> HIDE DEF new
    <3>6. Gives(c, s, before, new.frames, D \union {n}) /\ Top(D \union {n}) = n
      BY <1>1, <1>9, <1>10, <3>5 DEF len
    <3>8. Decided(c, s, n) = D \union {n} /\ new.glue.start = end /\ new.glue.pos = end /\ new.ok
      BY <1>3, <2>1, <2>5, <3>1, <3>5
    <3>7. CutInv(c, s, base, before, new, n)
      BY <1>7, <1>11, <1>13, <3>5, <3>6, <3>8 DEF CutInv
    <3> QED BY <3>7 DEF new, b, i, len
  <2> QED BY <2>4, <2>5
<1>14. CASE c.glue = "previous"
  <2>1. Decided(c, s, n) = IF e = 0 \/ Marked(c, s, n) THEN D ELSE D \union {e}
    BY <1>14, DecidedGrows DEF D
  <2> DEFINE pos == g.pos
             m == Len(b)
  <2>8. /\ Glued(c) /\ base + pos = e /\ base + g.start = t /\ g.start = r.read
        /\ e # 0 => g.delim = EndLen(c, s, e)
    BY <1>3, <1>14 DEF Glued
  <2>9. /\ base \in Nat /\ e \in Nat /\ pos \in Nat /\ i \in Nat /\ end \in Nat /\ m \in Nat
        /\ end <= m /\ base + i = n - len /\ e <= n - len /\ n \in Nat /\ len \in Nat /\ base + m = Len(s)
        /\ Len(s) \in Nat /\ base <= e /\ e <= Len(s) /\ t \in Nat /\ t <= e /\ g.start \in Nat
    <3> HIDE DEF g
    <3>1. base \in Nat /\ e \in Nat /\ pos \in Nat /\ g.start \in Nat /\ n \in Nat /\ len \in Nat
          /\ t \in Nat /\ Len(s) \in Nat
      BY <1>1, <1>2, <1>4, <1>6
    <3>2. i \in Nat /\ end \in Nat /\ end <= m /\ base + i = n - len
      BY <1>7
    <3>3. e <= n - len /\ e <= Len(s) /\ t <= e /\ base <= e
      BY <1>1, <1>3, <1>6
    <3>4. m \in Nat /\ base + m = Len(s)
      BY <1>2, <3>1
    <3> HIDE DEF pos, m
    <3> QED BY ONLY <3>1, <3>2, <3>3, <3>4
  <2>2. Glued(c) /\ ~(i < g.pos) /\ ~(end > Len(b))
    <3> HIDE DEF pos, m, g
    <3>1. ~(i < pos) /\ ~(end > m)
      BY ONLY <2>8, <2>9
    <3> QED BY <2>8, <3>1 DEF pos, m
  <2> HIDE DEF pos, m
  <2>3. IsMatch(c, Slice(b, g.pos, end - len)) <=> Marked(c, s, n)
    <3>1. i <= Len(b)
      BY <1>1, <1>2, <1>7 DEF end
    <3>2. Slice(b, g.pos, end - len) = Slice(s, e, n - len)
      BY <1>3, <1>4, <1>7, <1>8, <1>14, <3>1
    <3> QED BY <1>1, <3>2 DEF Marked
  <2>4. CASE Marked(c, s, n)
    <3>1. u.flush = <<>> /\ u.glue = [g EXCEPT !.pos = end, !.delim = len]
      BY <1>14, <2>3, <2>4 DEF Update
    <3>2. new = [r EXCEPT !.glue = u.glue]
      BY <1>3, <2>2, <3>1 DEF CutAt, end
    <3> HIDE DEF u
    <3>3. /\ new.ok = r.ok /\ new.frames = r.frames /\ new.read = r.read /\ new.glue.start = g.start
          /\ new.glue.pos = end /\ new.glue.delim = len
      BY <1>4, <3>1, <3>2
    <3> HIDE DEF new
    <3>4. CutInv(c, s, base, before, new, n)
      BY <1>3, <1>7, <1>11, <1>14, <2>1, <2>4, <3>3 DEF CutInv, len, t
    <3> QED BY <3>4 DEF new, b, i, len
  <2>5. CASE ~Marked(c, s, n) /\ e = 0
    <3>1. g.pos = 0 /\ g.start = 0 /\ base = 0 /\ r.read = 0 /\ t = 0
      <4> DEFINE start == g.start
      <4>1. base + pos = e /\ base + start = t /\ e = 0 /\ start \in Nat
        BY <2>5, <2>8, <2>9
      <4> HIDE DEF start
      <4>2. pos = 0 /\ start = 0 /\ base = 0 /\ t = 0
        BY ONLY <2>9, <4>1
      <4> QED BY <2>8, <4>2 DEF pos, start
    <3>2. u.flush = <<>> /\ u.glue = [start |-> g.pos, pos |-> end, delim |-> len]
      BY <1>14, <2>3, <2>5, <3>1 DEF Update
    <3>3. new = [r EXCEPT !.glue = u.glue]
      BY <1>3, <2>2, <3>2 DEF CutAt, end
    <3> HIDE DEF u
    <3>4. /\ new.ok = r.ok /\ new.frames = r.frames /\ new.read = r.read /\ new.glue.start = g.pos
          /\ new.glue.pos = end /\ new.glue.delim = len
      BY <1>4, <3>2, <3>3
    <3> HIDE DEF new
    <3>5. CutInv(c, s, base, before, new, n)
      <4>1. Decided(c, s, n) = D /\ new.ok /\ Gives(c, s, before, new.frames, D)
        BY <1>3, <2>1, <2>5, <3>4
      <4>2. base + new.read = Top(D) /\ new.glue.start = new.read
        BY <1>3, <3>1, <3>4 DEF t
      <4> QED BY <1>7, <1>11, <1>14, <3>4, <4>1, <4>2 DEF CutInv, len
    <3> QED BY <3>5 DEF new, b, i, len
  <2>6. CASE ~Marked(c, s, n) /\ e # 0
    <3>1. g.pos = e - base /\ g.delim = EndLen(c, s, e) /\ e \in Ends(c, s) /\ e \in 1 .. Len(s)
      <4>1. e \in Ends(c, s) /\ e \in 1 .. Len(s) /\ g.delim = EndLen(c, s, e)
        BY <1>1, <2>6, <2>8
      <4>2. pos = e - base
        BY ONLY <2>8, <2>9
      <4> QED BY <4>1, <4>2 DEF pos
    <3>2. t < e /\ \A q \in D : q < e
      BY <1>1, <1>5, <1>6, <1>14, <3>1
    <3>3. g.pos # g.start
      BY <1>1, <1>2, <1>3, <1>4, <1>6, <2>2, <3>1, <3>2
    <3>4. /\ u.flush = Flush(g.start, g.pos, g.delim)
          /\ u.glue = [start |-> g.pos, pos |-> end, delim |-> len]
      BY <1>14, <2>3, <2>6, <3>3 DEF Update
    <3> HIDE DEF u
    <3>5. /\ u.flush # <<>> /\ u.flush[1].from = g.start /\ u.flush[1].to = g.pos
          /\ u.flush[1].delim = g.delim
      BY <3>4, FlushProperties
    <3>6. new = [r EXCEPT !.glue = u.glue, !.frames = Append(@, Slice(b, g.start, g.pos - g.delim)),
                          !.read = g.pos]
      BY <1>3, <2>2, <3>5 DEF CutAt, end, u
    <3>7. Slice(b, g.start, g.pos - g.delim) = Slice(s, t, e - EndLen(c, s, e))
      <4>1. PICK d \in {0} \union Ends(c, s) : IsNext(Ends(c, s), d, e)
        BY <3>1, EndBefore
      <4>2. EndLen(c, s, e) \in {1, 2}
        BY <4>1, PieceBehind
      <4>3. base <= e - EndLen(c, s, e)
        <5>1. base < e
          BY <1>1, <1>2, <1>3, <1>4, <3>2
        <5> QED BY <3>1, <5>1, EndsApart
      <4>4. g.pos - g.delim \in Nat /\ g.pos - g.delim <= Len(b)
            /\ base + (g.pos - g.delim) = e - EndLen(c, s, e)
        <5> DEFINE l == EndLen(c, s, e)
        <5>1. l \in Nat /\ base <= e - l /\ g.delim = l
          BY <3>1, <4>2, <4>3
        <5> HIDE DEF l
        <5>2. pos - l \in Nat /\ pos - l <= m /\ base + (pos - l) = e - l
          BY ONLY <2>8, <2>9, <5>1
        <5> QED BY <5>1, <5>2 DEF pos, m, l
      <4> QED BY <1>3, <1>4, <1>8, <2>2, <4>4
    <3>8. /\ new.ok = r.ok /\ new.frames = Append(r.frames, Slice(s, t, e - EndLen(c, s, e)))
          /\ new.read = g.pos /\ new.glue = u.glue
      BY <1>4, <3>6, <3>7
    <3> HIDE DEF new
    <3>9. Gives(c, s, before, new.frames, D \union {e}) /\ Top(D \union {e}) = e
      BY <1>9, <3>1, <3>2, <3>8
    <3>10. CutInv(c, s, base, before, new, n)
      <4>1. Decided(c, s, n) = D \union {e} /\ new.ok
        BY <1>3, <2>1, <2>6, <3>8
      <4>2. base + new.read = e /\ new.glue.start = new.read /\ new.glue.pos = end /\ new.glue.delim = len
        BY <2>8, <3>4, <3>8 DEF pos
      <4> QED BY <1>7, <1>11, <1>14, <3>9, <4>1, <4>2 DEF CutInv, len
    <3> QED BY <3>10 DEF new, b, i, len
  <2> QED BY <2>4, <2>5, <2>6
<1>15. c.glue \in {"none", "previous", "next"}
  BY ConfigTypes
<1> QED BY <1>12, <1>13, <1>14, <1>15

-----------------------------------------------------------------------------
(* decode *)

\* Positions in what is left, and in the whole.
LEMMA EndsShift ==
  ASSUME NEW c \in Configs, Sound(c), NEW s \in Seq(Bytes), NEW base \in {0} \union Ends(c, s),
         NEW a \in {0} \union Ends(c, Slice(s, base, Len(s)))
  PROVE  /\ a \in Nat /\ base \in Nat /\ base + a \in {0} \union Ends(c, s)
         /\ \A q \in Ends(c, s) : base + a < q => /\ q - base \in Ends(c, Slice(s, base, Len(s)))
                                                  /\ a < q - base /\ q \in Nat
         /\ (\A q \in Ends(c, Slice(s, base, Len(s))) : q <= a) => \A q \in Ends(c, s) : q <= base + a
<1> DEFINE b == Slice(s, base, Len(s))
<1>1. /\ b \in Seq(Bytes) /\ Len(b) = Len(s) - base /\ base \in 0 .. Len(s)
      /\ \A p \in 1 .. Len(b) : /\ p \in Ends(c, b) <=> base + p \in Ends(c, s)
                                /\ EndLen(c, b, p) = EndLen(c, s, base + p)
  BY EndsOfRest
<1> HIDE DEF b
<1>2. /\ Ends(c, b) \in SUBSET (1 .. Len(b)) /\ Ends(c, s) \in SUBSET (1 .. Len(s)) /\ Len(s) \in Nat
      /\ Len(b) \in Nat
  BY <1>1, EndsAreInside
<1>3. a \in Nat /\ base \in Nat /\ base + a \in {0} \union Ends(c, s)
  <2>1. a \in {0} \union Ends(c, b)
    BY DEF b
  <2>2. CASE a = 0
    BY <1>1, <1>2, <2>2
  <2>3. CASE a # 0
    <3>1. a \in Ends(c, b) /\ a \in 1 .. Len(b)
      BY <1>2, <2>1, <2>3
    <3> QED BY <1>1, <3>1
  <2> QED BY <2>2, <2>3
<1>4. ASSUME NEW q \in Ends(c, s), base + a < q
      PROVE  q - base \in Ends(c, b) /\ a < q - base /\ q = base + (q - base) /\ q \in Nat
  <2>1. q - base \in 1 .. Len(b) /\ q = base + (q - base) /\ q \in Nat /\ a < q - base
    BY <1>1, <1>2, <1>3, <1>4
  <2> QED BY <1>1, <2>1
<1>6. ASSUME \A q \in Ends(c, b) : q <= a, NEW q \in Ends(c, s)
      PROVE  q <= base + a
  <2> SUFFICES ASSUME base + a < q PROVE FALSE
    BY <1>2, <1>3
  <2>1. q - base \in Ends(c, b) /\ a < q - base /\ q \in Nat
    BY <1>4
  <2>2. q - base <= a
    BY <1>6, <2>1
  <2> QED BY <1>3, <2>1, <2>2
<1> QED BY <1>3, <1>4, <1>6 DEF b

\* The next line ending in what is left is the next one in the whole.
LEMMA NextShift ==
  ASSUME NEW c \in Configs, Sound(c), NEW s \in Seq(Bytes), NEW base \in {0} \union Ends(c, s),
         NEW a \in {0} \union Ends(c, Slice(s, base, Len(s))), NEW n,
         IsNext(Ends(c, Slice(s, base, Len(s))), a, n)
  PROVE  /\ IsNext(Ends(c, s), base + a, base + n)
         /\ n \in Ends(c, Slice(s, base, Len(s)))
         /\ EndLen(c, Slice(s, base, Len(s)), n) = EndLen(c, s, base + n)
         /\ n - EndLen(c, s, base + n) \in Nat /\ EndLen(c, s, base + n) \in Nat
         /\ n - EndLen(c, s, base + n) = ((base + n) - EndLen(c, s, base + n)) - base
<1> DEFINE b == Slice(s, base, Len(s))
<1>11. /\ b \in Seq(Bytes) /\ Len(b) = Len(s) - base /\ base \in 0 .. Len(s)
       /\ \A p \in 1 .. Len(b) : /\ p \in Ends(c, b) <=> base + p \in Ends(c, s)
                                 /\ EndLen(c, b, p) = EndLen(c, s, base + p)
  BY EndsOfRest
<1> HIDE DEF b
<1>12. Ends(c, b) \in SUBSET (1 .. Len(b)) /\ Len(s) \in Nat /\ Len(b) \in Nat
  BY <1>11, EndsAreInside
<1>13. a \in Nat /\ base \in Nat /\ base + a \in {0} \union Ends(c, s)
  BY EndsShift
<1>14. \A q \in Ends(c, s) : base + a < q => /\ q - base \in Ends(c, b)
                                             /\ a < q - base /\ q \in Nat
  BY EndsShift DEF b
<1>1. n \in Ends(c, b) /\ a < n /\ \A q \in Ends(c, b) : a < q => n <= q
  BY DEF IsNext, b
<1>2. n \in 1 .. Len(b) /\ n \in Nat
  BY <1>12, <1>1
<1>3. base + n \in Ends(c, s) /\ EndLen(c, b, n) = EndLen(c, s, base + n) /\ base + a < base + n
  BY <1>11, <1>13, <1>1, <1>2
<1>4. ASSUME NEW q \in Ends(c, s), base + a < q
      PROVE  base + n <= q
  <2>1. n <= q - base
    BY <1>14, <1>1, <1>4
  <2> QED BY <1>13, <1>14, <1>2, <1>4, <2>1
<1>5. IsNext(Ends(c, s), base + a, base + n)
  BY <1>3, <1>4 DEF IsNext
<1> DEFINE len == EndLen(c, s, base + n)
<1>6. len \in {1, 2} /\ a <= n - len
  <2>1. a \in {0} \union Ends(c, b)
    BY DEF b
  <2>2. IsNext(Ends(c, b), a, n)
    BY DEF b
  <2>3. EndLen(c, b, n) \in {1, 2} /\ a <= n - EndLen(c, b, n)
    BY <1>11, <2>1, <2>2, PieceBehind
  <2> QED BY <1>3, <2>3
<1> HIDE DEF len
<1>7. n - len \in Nat /\ n - len = ((base + n) - len) - base /\ len \in Nat
  <2>1. n \in Nat /\ a \in Nat /\ base \in Nat
    BY <1>13, <1>2
  <2> QED BY ONLY <2>1, <1>6
<1> QED BY <1>1, <1>3, <1>5, <1>7 DEF len, b

\* What the search finds.
Match == Nat \X Nat

\* SuffixStep, for a sequence of these.
LEMMA MatchStep ==
  ASSUME NEW M \in Seq(Match), NEW k \in 0 .. Len(M), NEW x \in Match, NEW t \in Seq(Match),
         Slice(M, k, Len(M)) = <<x>> \o t
  PROVE  k < Len(M) /\ M[k + 1] = x /\ Slice(M, k + 1, Len(M)) = t
<1>1. k < Len(M)
  BY SuffixStep
<1>2. M[k + 1] = x
  BY SuffixStep
<1>3. Slice(M, k + 1, Len(M)) = t
  BY SuffixStep
<1> QED BY <1>1, <1>2, <1>3

\* The whole loop of decode_string.
LEMMA LoopGives ==
  ASSUME NEW c \in Configs, Sound(c), NEW s \in Seq(Bytes), NEW base \in {0} \union Ends(c, s),
         NEW before \in Seq(Seq(Bytes)), NEW r \in Results, NEW e \in {0} \union Ends(c, s),
         base <= e, CutInv(c, s, base, before, r, e)
  PROVE  \E z \in {0} \union Ends(c, s) :
           /\ \A q \in Ends(c, s) : q <= z
           /\ CutInv(c, s, base, before,
                     Cuts(c, Slice(s, base, Len(s)), r, Matches(c, Slice(s, base, Len(s)), e - base)), z)
           /\ Cuts(c, Slice(s, base, Len(s)), r, Matches(c, Slice(s, base, Len(s)), e - base)) \in Results
<1> DEFINE b == Slice(s, base, Len(s))
           start == e - base
           M == Matches(c, b, start)
<1>1. /\ b \in Seq(Bytes) /\ Len(b) = Len(s) - base /\ base \in 0 .. Len(s)
      /\ \A p \in 1 .. Len(b) : p \in Ends(c, b) <=> base + p \in Ends(c, s)
  BY EndsOfRest
<1>2. Len(s) \in Nat /\ e \in 0 .. Len(s)
  BY EndsAreInside
<1>3. start \in 0 .. Len(b) /\ base + start = e /\ start \in {0} \union Ends(c, b)
  <2> HIDE DEF b
  <2>1. start \in 0 .. Len(b) /\ base + start = e
    BY <1>1, <1>2
  <2>2. start # 0 => start \in Ends(c, b)
    <3> HIDE DEF start
    <3>1. start # 0 => start \in 1 .. Len(b) /\ e # 0
      BY <1>1, <2>1
    <3> QED BY <1>1, <2>1, <3>1
  <2> QED BY <2>1, <2>2
<1> HIDE DEF start, b
<1>4. PICK E \in [0 .. Len(b) -> Seq(Nat \X Nat)] : Scan(c, b, E)
  BY <1>1, ScanExists
<1>5. M = E[start] /\ M \in Seq(Nat \X Nat) /\ \A a \in {0} \union Ends(c, b) : ScansFrom(c, b, E, a)
  BY <1>3, <1>4 DEF Scan
<1> HIDE DEF M
<1>6. PICK st \in [0 .. Len(M) -> Results] : Turns(c, b, r, M, st)
  BY <1>1, <1>5, FoldSteps
<1>7. Len(M) \in Nat
  BY <1>5, LenProperties
<1> DEFINE At(k, a) == Slice(M, k, Len(M)) = E[a] /\ CutInv(c, s, base, before, st[k], base + a)
           U == {k \in Nat : k <= Len(M) => \E a \in {0} \union Ends(c, b) : At(k, a)}
<1>8. 0 \in U
  <2>1. Slice(M, 0, Len(M)) = M /\ st[0] = r
    BY <1>5, <1>6, WholeSlice DEF Turns
  <2>2. At(0, start)
    BY <1>3, <1>5, <2>1
  <2> HIDE DEF At
  <2> QED BY <1>3, <2>2
<1>9. ASSUME NEW k \in U
      PROVE  k + 1 \in U
  <2> SUFFICES ASSUME k + 1 <= Len(M) PROVE \E a \in {0} \union Ends(c, b) : At(k + 1, a)
    OBVIOUS
  <2>1. k \in 0 .. Len(M) /\ k \in Nat /\ k < Len(M) /\ k + 1 \in 1 .. Len(M) /\ (k + 1) - 1 = k
    BY <1>7
  <2>2. PICK a \in {0} \union Ends(c, b) : At(k, a)
    BY <2>1
  <2>3. E[a] # <<>>
    <3>1. Len(Slice(M, k, Len(M))) = Len(M) - k
      BY <1>5, <2>1, RestProperties
    <3>2. Len(Slice(M, k, Len(M))) # 0
      BY <1>7, <2>1, <3>1
    <3> QED BY <2>2, <3>2, EmptySeq
  <2>4. PICK n \in Ends(c, b) :
          /\ IsNext(Ends(c, b), a, n)
          /\ E[a] = <<<<n - EndLen(c, b, n), EndLen(c, b, n)>>>> \o E[n]
    BY <1>5, <2>3 DEF ScansFrom
  <2> DEFINE len == EndLen(c, s, base + n)
             x == <<((base + n) - len) - base, len>>
  <2>5. /\ IsNext(Ends(c, s), base + a, base + n) /\ base + a \in {0} \union Ends(c, s)
        /\ x = <<n - EndLen(c, b, n), EndLen(c, b, n)>> /\ x \in Nat \X Nat
    <3>1. /\ IsNext(Ends(c, s), base + a, base + n) /\ base + a \in {0} \union Ends(c, s)
          /\ EndLen(c, b, n) = len /\ n - len \in Nat /\ len \in Nat
          /\ n - len = ((base + n) - len) - base
      BY <2>4, EndsShift, NextShift DEF b
    <3> QED BY <3>1
  <2>6. n \in 0 .. Len(b)
    BY <1>1, EndsAreInside
  <2>7. M[k + 1] = x /\ Slice(M, k + 1, Len(M)) = E[n]
    <3>1. Slice(M, k, Len(M)) = <<x>> \o E[n] /\ E[n] \in Seq(Nat \X Nat)
      BY <2>2, <2>4, <2>5, <2>6
    <3> HIDE DEF x
    <3>2. M \in Seq(Nat \X Nat) /\ k \in 0 .. Len(M) /\ x \in Nat \X Nat /\ E[n] \in Seq(Nat \X Nat)
      BY <1>5, <2>1, <2>5, <3>1
    <3> DEFINE t == E[n]
    <3>3. /\ M \in Seq(Match) /\ k \in 0 .. Len(M) /\ x \in Match /\ t \in Seq(Match)
          /\ Slice(M, k, Len(M)) = <<x>> \o t
      BY <3>1, <3>2 DEF Match
    <3> HIDE DEF t
    <3>4. M[k + 1] = x
      BY ONLY <3>3, MatchStep, ZenonT(60)
    <3>5. Slice(M, k + 1, Len(M)) = t
      BY ONLY <3>3, MatchStep, ZenonT(60)
    <3> QED BY <3>4, <3>5 DEF t
  <2>8. st[k] \in Results /\ st[k + 1] = CutAt(c, b, st[k], x)
    BY <1>6, <2>1, <2>7 DEF Turns
  <2>9. CutInv(c, s, base, before, st[k + 1], base + n)
    <3>1. CutInv(c, s, base, before, st[k], base + a)
      BY <2>2
    <3> QED BY <2>5, <2>8, <3>1, CutStep DEF b
  <2> QED BY <2>7, <2>9
<1>10. \A k \in Nat : k \in U
  <2> HIDE DEF U
  <2> QED BY <1>8, <1>9, Induct DEF U
<1>11. PICK a \in {0} \union Ends(c, b) : At(Len(M), a)
  <2>1. Len(M) \in U
    BY <1>7, <1>10
  <2> QED BY <1>7, <2>1
<1>12. E[a] = <<>>
  <2>1. Slice(M, Len(M), Len(M)) = <<>>
    BY <1>5, WholeSlice
  <2> QED BY <1>11, <2>1
<1>13. \A q \in Ends(c, b) : q <= a
  <2>1. ASSUME NEW n \in Ends(c, b), IsNext(Ends(c, b), a, n),
               E[a] = <<<<n - EndLen(c, b, n), EndLen(c, b, n)>>>> \o E[n]
        PROVE  FALSE
    <3> DEFINE x == <<n - EndLen(c, b, n), EndLen(c, b, n)>>
    <3>1. n \in 0 .. Len(b)
      BY <1>1, EndsAreInside
    <3>2. n - EndLen(c, b, n) \in Nat /\ EndLen(c, b, n) \in Nat
      BY <2>1, NextShift DEF b
    <3> DEFINE T == Nat \X Nat
               t == E[n]
    <3>3. M \in Seq(T) /\ x \in T
      BY <1>5, <3>2
    <3>4. Slice(M, Len(M), Len(M)) = E[a]
      BY <1>11
    <3>5. t \in Seq(T) /\ Slice(M, Len(M), Len(M)) = <<x>> \o t
      BY <2>1, <3>1, <3>4
    <3>6. Len(M) \in 0 .. Len(M)
      BY <1>7
    <3> HIDE DEF x, T, t
    <3>7. Len(M) < Len(M)
      BY ONLY <3>3, <3>5, <3>6, SuffixStep
    <3> QED BY <1>7, <3>7
  <2> QED BY <1>5, <2>1 DEF ScansFrom
<1>14. base + a \in {0} \union Ends(c, s) /\ \A q \in Ends(c, s) : q <= base + a
  BY <1>13, EndsShift DEF b
<1>15. Cuts(c, b, r, M) = st[Len(M)] /\ st[Len(M)] \in Results
  BY <1>6, <1>7 DEF Turns
<1>16. CutInv(c, s, base, before, Cuts(c, b, r, M), base + a)
  BY <1>11, <1>15
<1> QED BY <1>14, <1>15, <1>16 DEF b, M, start

\* What the decoder knows of the text so far, when the line endings up to e have been looked at.
Live(c, s, b, g, given, e) ==
  /\ e \in {0} \union Ends(c, s)
  /\ b = Slice(s, Top(Decided(c, s, e)), Len(s))
  /\ given = Pieces(c, s, Decided(c, s, e)) /\ Ranked(Decided(c, s, e))
  /\ Top(Decided(c, s, e)) + g.pos = e
  /\ c.glue # "previous" => g.pos = 0
  /\ c.glue = "previous" /\ e # 0 => g.delim = EndLen(c, s, e)

\* The last frame boundary is where the buffer begins.
LEMMA TopIsInside ==
  ASSUME NEW c \in Configs, Sound(c), NEW s \in Seq(Bytes), NEW e \in {0} \union Ends(c, s)
  PROVE  /\ Top(Decided(c, s, e)) \in {0} \union Ends(c, s) /\ Top(Decided(c, s, e)) \in 0 .. Len(s)
         /\ Top(Decided(c, s, e)) <= e /\ e \in 0 .. Len(s) /\ Len(s) \in Nat
         /\ \A p \in Decided(c, s, e) : p <= Top(Decided(c, s, e))
<1> DEFINE D == Decided(c, s, e)
<1>1. Len(s) \in Nat /\ Ends(c, s) \in SUBSET (1 .. Len(s))
  BY EndsAreInside
<1>2. e \in 0 .. Len(s)
  BY <1>1
<1>3. D \in SUBSET (1 .. Len(s)) /\ \A p \in D : p \in Ends(c, s) /\ p <= e
  BY DecidedInside
<1> HIDE DEF D
<1>4. Top(D) \in {0} \union D /\ Top(D) \in 0 .. Len(s) /\ \A p \in D : p <= Top(D)
  BY <1>1, <1>3, TopProperties
<1>5. Top(D) \in {0} \union Ends(c, s) /\ Top(D) <= e
  BY <1>2, <1>3, <1>4
<1> QED BY <1>1, <1>2, <1>4, <1>5 DEF D

\* Unless frames are glued to the previous one, nothing is known beyond the last boundary.
LEMMA DecidedAtTop ==
  ASSUME NEW c \in Configs, Sound(c), c.glue # "previous", NEW s \in Seq(Bytes),
         NEW e \in {0} \union Ends(c, s)
  PROVE  Decided(c, s, Top(Decided(c, s, e))) = Decided(c, s, e)
<1> DEFINE D == Decided(c, s, e)
           t == Top(D)
<1>1. /\ t \in {0} \union Ends(c, s) /\ t \in 0 .. Len(s) /\ t <= e /\ e \in 0 .. Len(s) /\ Len(s) \in Nat
      /\ \A p \in D : p <= t
  BY TopIsInside
<1>2. Ends(c, s) \in SUBSET (1 .. Len(s))
  BY EndsAreInside
<1> HIDE DEF t
<1>3. \A p \in Ends(c, s) : p <= t => p <= e
  BY <1>1, <1>2
<1>4. CASE c.glue = "none"
  <2>1. D = {p \in Ends(c, s) : p <= e} /\ Decided(c, s, t) = {p \in Ends(c, s) : p <= t}
    BY <1>4 DEF Decided
  <2> HIDE DEF D
  <2> QED BY <1>1, <1>3, <2>1 DEF t, D
<1>5. CASE c.glue = "next"
  <2>1. /\ D = {p \in Ends(c, s) : p <= e /\ ~Marked(c, s, p)}
        /\ Decided(c, s, t) = {p \in Ends(c, s) : p <= t /\ ~Marked(c, s, p)}
    BY <1>5 DEF Decided
  <2> HIDE DEF D
  <2> QED BY <1>1, <1>3, <2>1 DEF t, D
<1>6. c.glue \in {"none", "next"}
  BY ConfigTypes
<1> QED BY <1>4, <1>5, <1>6

\* decode looks at all line endings of what it has.
LEMMA DecodedLive ==
  ASSUME NEW c \in Configs, Sound(c), NEW s \in Seq(Bytes), NEW b \in Seq(Bytes), NEW g,
         GlueOK(c, Len(b), g), NEW given \in Seq(Seq(Bytes)), NEW e, Live(c, s, b, g, given, e)
  PROVE  LET r == Decoded(c, b, g)
         IN  /\ r.ok
             /\ \E z : /\ Live(c, s, Slice(b, r.read, Len(b)), r.glue, given \o r.frames, z)
                       /\ Decided(c, s, z) = Breaks(c, s)
<1> DEFINE base == Top(Decided(c, s, e))
           r0 == [ok |-> TRUE, read |-> 0, frames |-> <<>>, glue |-> g]
           M == Matches(c, b, g.pos)
           r1 == Cuts(c, b, r0, M)
           r == Decoded(c, b, g)
<1>1. /\ e \in {0} \union Ends(c, s) /\ b = Slice(s, base, Len(s))
      /\ given = Pieces(c, s, Decided(c, s, e)) /\ Ranked(Decided(c, s, e))
      /\ base + g.pos = e /\ (c.glue # "previous" => g.pos = 0)
      /\ (c.glue = "previous" /\ e # 0 => g.delim = EndLen(c, s, e))
  BY DEF Live
<1>2. /\ base \in {0} \union Ends(c, s) /\ base \in 0 .. Len(s) /\ base <= e /\ e \in 0 .. Len(s)
      /\ Len(s) \in Nat
  BY <1>1, TopIsInside
<1>3. /\ g \in Positions /\ g.start = 0 /\ g.start \in Nat /\ g.pos \in Nat /\ g.delim \in Nat
      /\ g.pos <= Len(b) /\ (KeepsNothing(c) => g = NoGlue)
  BY DEF GlueOK, Positions
<1>4. r0 \in Results /\ r0.ok /\ r0.read = 0 /\ r0.frames = <<>> /\ r0.glue = g
  <2>1. <<>> \in Seq(Seq(Bytes))
    BY EmptySeq
  <2> QED BY <1>3, <2>1 DEF Results
<1>5. ~(~AnyLine(c) /\ Delimiter(c) = <<>>)
  <2> SUFFICES ASSUME ~AnyLine(c), Delimiter(c) = <<>> PROVE FALSE
    OBVIOUS
  <2>1. Len(Delimiter(c)) = 1
    BY DEF Sound
  <2>2. Delimiter(c) \in Seq(Bytes)
    BY ConfigTypes
  <2> DEFINE d == Delimiter(c)
  <2>3. d = <<>> /\ Len(d) = 1
    BY <2>1
  <2> HIDE DEF d
  <2>4. Len(d) = 0
    BY <2>3, EmptySeq
  <2> QED BY <2>3, <2>4
<1>6. r = [r1 EXCEPT !.glue = Rebase(@)]
  <2>1. g.pos <= Len(b)
    BY <1>3
  <2> QED BY <1>5, <2>1 DEF Decoded, Cuts
<1> HIDE DEF r0, M, r1, r
<1>7. CutInv(c, s, base, given, r0, e)
  <2>1. given \o <<>> = given
    BY ConcatProperties, ConcatEmptySeq
  <2>2. Gives(c, s, given, r0.frames, Decided(c, s, e))
    BY <1>1, <1>4, <2>1 DEF Gives
  <2>3. base + r0.read = Top(Decided(c, s, e))
    BY <1>2, <1>4
  <2>4. c.glue = "next" => g.pos = r0.read
    BY <1>1, <1>4
  <2>5. Glued(c) => g.start = r0.read
    BY <1>3, <1>4
  <2> QED BY <1>1, <1>2, <1>4, <2>2, <2>3, <2>4, <2>5 DEF CutInv
<1>8. PICK z \in {0} \union Ends(c, s) :
        (\A q \in Ends(c, s) : q <= z) /\ CutInv(c, s, base, given, r1, z) /\ r1 \in Results
  <2>1. e - base = g.pos
    BY <1>1, <1>2, <1>3
  <2>2. M = Matches(c, Slice(s, base, Len(s)), e - base)
    BY <1>1, <2>1 DEF M
  <2>3. r1 = Cuts(c, Slice(s, base, Len(s)), r0, Matches(c, Slice(s, base, Len(s)), e - base))
    BY <1>1, <2>2 DEF r1
  <2> HIDE DEF base
  <2> QED BY <1>1, <1>2, <1>4, <1>7, <2>3, LoopGives
<1> DEFINE D == Decided(c, s, z)
<1>9. /\ r1.ok /\ Gives(c, s, given, r1.frames, D) /\ base + r1.read = Top(D)
      /\ (Glued(c) => r1.glue.start = r1.read) /\ (c.glue = "next" => r1.glue.pos = r1.read)
      /\ (c.glue = "previous" =>
            base + r1.glue.pos = z /\ (z # 0 => r1.glue.delim = EndLen(c, s, z)))
  BY <1>8 DEF CutInv
<1>10. /\ r1.read \in Nat /\ r1.glue.start \in Nat /\ r1.glue.pos \in Nat /\ r1.glue.delim \in Nat
       /\ r1.glue = [start |-> r1.glue.start, pos |-> r1.glue.pos, delim |-> r1.glue.delim]
       /\ r1 = [ok |-> r1.ok, read |-> r1.read, frames |-> r1.frames, glue |-> r1.glue]
  BY <1>8 DEF Results, Positions
<1>11. /\ r.ok = r1.ok /\ r.read = r1.read /\ r.frames = r1.frames /\ r.glue = Rebase(r1.glue)
       /\ r.glue = [start |-> 0, pos |-> r1.glue.pos - r1.glue.start, delim |-> r1.glue.delim]
  <2>1. r = [ok |-> r1.ok, read |-> r1.read, frames |-> r1.frames, glue |-> Rebase(r1.glue)]
    BY <1>6, <1>10
  <2>2. Rebase(r1.glue)
          = [start |-> 0, pos |-> r1.glue.pos - r1.glue.start, delim |-> r1.glue.delim]
    BY <1>10, RebaseIs
  <2> QED BY <2>1, <2>2
<1>12. D = Breaks(c, s)
  BY <1>8, DecidedAll
<1>13. /\ Top(D) \in {0} \union Ends(c, s) /\ Top(D) \in 0 .. Len(s) /\ Top(D) <= z /\ z \in 0 .. Len(s)
  BY <1>8, TopIsInside
<1>14. Slice(b, r1.read, Len(b)) = Slice(s, Top(D), Len(s))
  <2>1. Len(b) = Len(s) - base /\ Len(b) \in Nat
    BY <1>1, <1>2, RestProperties, LenProperties
  <2> HIDE DEF base, D
  <2>2. base + Len(b) = Len(s) /\ base + Len(b) <= Len(s)
    BY <1>2, <2>1
  <2>3. Slice(Slice(s, base, Len(s)), r1.read, Len(b)) = Slice(s, base + r1.read, base + Len(b))
    BY <1>2, <1>10, <2>1, <2>2, SliceOfSlice
  <2> QED BY <1>1, <1>9, <2>2, <2>3
<1>15. given \o r.frames = Pieces(c, s, D) /\ Ranked(D)
  BY <1>9, <1>11 DEF Gives
<1>16. c.glue = "previous" => /\ Top(D) + r.glue.pos = z
                              /\ (z # 0 => r.glue.delim = EndLen(c, s, z))
  <2> SUFFICES ASSUME c.glue = "previous"
               PROVE  Top(D) + r.glue.pos = z /\ (z # 0 => r.glue.delim = EndLen(c, s, z))
    OBVIOUS
  <2>1. r.glue.pos = r1.glue.pos - r1.glue.start /\ r.glue.delim = r1.glue.delim
    BY <1>11
  <2>2. Glued(c)
    BY DEF Glued
  <2>3. base + r1.glue.pos = z /\ base + r1.read = Top(D) /\ r1.glue.start = r1.read
    BY <1>9, <2>2
  <2> HIDE DEF base, D
  <2>4. Top(D) + r.glue.pos = z
    BY <1>2, <1>10, <1>13, <2>1, <2>3
  <2> QED BY <1>9, <2>1, <2>4
<1>17. c.glue # "previous" => r.glue.pos = 0
  <2>1. CASE c.glue = "next"
    <3>1. Glued(c)
      BY <2>1 DEF Glued
    <3>2. r.glue.pos = r1.glue.pos - r1.glue.start /\ r1.glue.pos = r1.glue.start
      BY <1>9, <1>11, <2>1, <3>1
    <3> QED BY <1>10, <3>2
  <2>2. CASE c.glue = "none"
    <3>1. GlueOK(c, Len(Slice(b, r.read, Len(b))), r.glue)
      BY DecodedTypes DEF r
    <3>2. r.glue = NoGlue
      BY <2>2, <3>1 DEF GlueOK, KeepsNothing, Glued
    <3> QED BY <3>2 DEF NoGlue
  <2> QED BY <2>1, <2>2, ConfigTypes
<1>18. \E y : /\ Live(c, s, Slice(b, r.read, Len(b)), r.glue, given \o r.frames, y)
              /\ Decided(c, s, y) = Breaks(c, s)
  <2>1. CASE c.glue = "previous"
    <3>1. Live(c, s, Slice(b, r.read, Len(b)), r.glue, given \o r.frames, z)
      BY <1>8, <1>11, <1>14, <1>15, <1>16, <2>1 DEF Live
    <3> QED BY <1>12, <3>1
  <2>2. CASE c.glue # "previous"
    <3> DEFINE y == Top(D)
    <3>1. Decided(c, s, y) = D
      BY <2>2, DecidedAtTop
    <3>2. Top(Decided(c, s, y)) + r.glue.pos = y
      BY <1>13, <1>17, <2>2, <3>1
    <3> HIDE DEF y
    <3>3. Live(c, s, Slice(b, r.read, Len(b)), r.glue, given \o r.frames, y)
      BY <1>11, <1>13, <1>14, <1>15, <1>17, <2>2, <3>1, <3>2 DEF Live, y
    <3> QED BY <1>12, <3>1, <3>3
  <2> QED BY <2>1, <2>2
<1> QED BY <1>9, <1>11, <1>18 DEF r

-----------------------------------------------------------------------------
(* One more byte *)

\* Slices, when one byte is appended.
LEMMA SliceOfMore ==
  ASSUME NEW T, NEW s \in Seq(T), NEW x \in T, NEW i \in Nat, NEW j \in Int, j <= Len(s)
  PROVE  /\ Slice(Append(s, x), i, j) = Slice(s, i, j)
         /\ i <= Len(s) => Append(Slice(s, i, Len(s)), x) = Slice(Append(s, x), i, Len(Append(s, x)))
<1> DEFINE t == Append(s, x)
<1>0. Len(s) \in Nat
  BY LenProperties
<1>1. t \in Seq(T) /\ Len(t) = Len(s) + 1 /\ (\A k \in 1 .. Len(s) : t[k] = s[k]) /\ t[Len(s) + 1] = x
  BY AppendProperties
<1> HIDE DEF t
<1>2. Slice(t, i, j) = Slice(s, i, j)
  <2> DEFINE u == Slice(t, i, j)
             v == Slice(s, i, j)
  <2>1. /\ v \in Seq(T) /\ Len(v) = (IF i <= j THEN j - i ELSE 0)
        /\ \A k \in 1 .. j - i : v[k] = s[i + k]
    BY SliceProperties
  <2>2. /\ u \in Seq(T) /\ Len(u) = (IF i <= j THEN j - i ELSE 0)
        /\ \A k \in 1 .. j - i : u[k] = t[i + k]
    <3>1. j <= Len(t) /\ t \in Seq(T) /\ i \in Nat /\ j \in Int
      BY <1>0, <1>1
    <3> QED BY ONLY <3>1, SliceProperties
  <2> HIDE DEF u, v
  <2>3. \A k \in 1 .. Len(u) : u[k] = v[k]
    <3> SUFFICES ASSUME NEW k \in 1 .. Len(u) PROVE u[k] = v[k]
      OBVIOUS
    <3>1. k \in 1 .. j - i /\ i + k \in 1 .. Len(s)
      BY <1>0, <2>2
    <3> QED BY <1>1, <2>1, <2>2, <3>1
  <2>4. u = v
    BY <2>1, <2>2, <2>3, SeqEqual
  <2> QED BY <2>4 DEF u, v
<1>3. ASSUME i <= Len(s)
      PROVE  Append(Slice(s, i, Len(s)), x) = Slice(t, i, Len(t))
  <2> DEFINE w == Slice(s, i, Len(s))
             u == Append(w, x)
             v == Slice(t, i, Len(t))
  <2>1. w \in Seq(T) /\ Len(w) = Len(s) - i /\ \A k \in 1 .. Len(s) - i : w[k] = s[i + k]
    <3>1. i \in 0 .. Len(s)
      BY <1>0, <1>3
    <3> QED BY <3>1, RestProperties
  <2>2. /\ v \in Seq(T) /\ Len(v) = Len(s) + 1 - i
        /\ \A k \in 1 .. Len(s) + 1 - i : v[k] = t[i + k]
    <3>1. i \in 0 .. Len(t) /\ t \in Seq(T)
      BY <1>0, <1>1, <1>3
    <3>2. /\ v \in Seq(T) /\ Len(v) = Len(t) - i
          /\ \A k \in 1 .. Len(t) - i : v[k] = t[i + k]
      BY ONLY <3>1, RestProperties
    <3> QED BY <1>1, <3>2
  <2> HIDE DEF v, w
  <2>3. u \in Seq(T) /\ Len(u) = Len(w) + 1 /\ (\A k \in 1 .. Len(w) : u[k] = w[k]) /\ u[Len(w) + 1] = x
    BY <2>1, AppendProperties
  <2> HIDE DEF u
  <2>4. \A k \in 1 .. Len(u) : u[k] = v[k]
    <3> SUFFICES ASSUME NEW k \in 1 .. Len(u) PROVE u[k] = v[k]
      OBVIOUS
    <3>1. k \in 1 .. Len(s) + 1 - i /\ v[k] = t[i + k]
      BY <1>0, <1>3, <2>1, <2>2, <2>3
    <3>2. CASE k <= Len(s) - i
      <4>1. k \in 1 .. Len(s) - i /\ k \in 1 .. Len(w) /\ i + k \in 1 .. Len(s)
        BY <1>0, <1>3, <2>1, <3>1, <3>2
      <4> QED BY <1>1, <2>1, <2>3, <3>1, <4>1
    <3>3. CASE k > Len(s) - i
      <4>1. k = Len(w) + 1 /\ i + k = Len(s) + 1
        <5> DEFINE m == Len(s)
                   n == Len(w)
        <5>1. /\ m \in Nat /\ i \in Nat /\ n = m - i /\ k \in 1 .. m + 1 - i /\ k > m - i
              /\ i <= m
          BY <1>0, <1>3, <2>1, <3>1, <3>3
        <5> HIDE DEF m, n
        <5>2. k = n + 1 /\ i + k = m + 1
          BY ONLY <5>1
        <5> QED BY <5>2 DEF m, n
      <4> QED BY <1>1, <2>3, <3>1, <4>1
    <3> QED BY <1>0, <3>1, <3>2, <3>3
  <2>5. Len(u) = Len(v)
    BY <1>0, <1>3, <2>1, <2>2, <2>3
  <2>6. u = v
    BY <2>2, <2>3, <2>4, <2>5, SeqEqual
  <2> QED BY <2>6 DEF u, v, w
<1> QED BY <1>2, <1>3 DEF t

\* A byte to come takes no line ending back and puts none before the last one.
LEMMA EndsOfMore ==
  ASSUME NEW c \in Configs, Sound(c), NEW s \in Seq(Bytes), NEW x \in Bytes,
         NEW e \in {0} \union Ends(c, s)
  PROVE  /\ e \in {0} \union Ends(c, Append(s, x))
         /\ \A p \in Nat : p <= e => (p \in Ends(c, Append(s, x)) <=> p \in Ends(c, s))
         /\ \A p \in 1 .. Len(s) : EndLen(c, Append(s, x), p) = EndLen(c, s, p)
<1> DEFINE t == Append(s, x)
<1>0. Len(s) \in Nat /\ Ends(c, s) \in SUBSET (1 .. Len(s))
  BY EndsAreInside
<1>1. t \in Seq(Bytes) /\ Len(t) = Len(s) + 1 /\ \A k \in 1 .. Len(s) : t[k] = s[k]
  BY AppendProperties
<1> HIDE DEF t
<1>2. Ends(c, t) \in SUBSET (1 .. Len(t))
  BY <1>1, EndsAreInside
<1>3. ASSUME NEW p \in 1 .. Len(s)
      PROVE  /\ EndLen(c, t, p) = EndLen(c, s, p)
             /\ p \in Ends(c, s) => p \in Ends(c, t)
             /\ p < Len(s) => (p \in Ends(c, t) => p \in Ends(c, s))
  <2>1. p \in 1 .. Len(t) /\ t[p] = s[p]
    BY <1>0, <1>1
  <2>2. CASE AnyLine(c)
    <3>1. /\ p \in Ends(c, s) <=> (s[p] = LF \/ (s[p] = CR /\ p < Len(s) /\ s[p + 1] # LF))
          /\ EndLen(c, s, p) = IF p > 1 /\ s[p] = LF /\ s[p - 1] = CR THEN 2 ELSE 1
      BY <2>2, LineEndsAre
    <3>2. /\ p \in Ends(c, t) <=> (t[p] = LF \/ (t[p] = CR /\ p < Len(t) /\ t[p + 1] # LF))
          /\ EndLen(c, t, p) = IF p > 1 /\ t[p] = LF /\ t[p - 1] = CR THEN 2 ELSE 1
      BY <1>1, <2>1, <2>2, LineEndsAre
    <3>3. p > 1 => t[p - 1] = s[p - 1]
      <4>1. p > 1 => p - 1 \in 1 .. Len(s)
        BY <1>0
      <4> QED BY <1>1, <4>1
    <3>4. p < Len(s) => p < Len(t) /\ t[p + 1] = s[p + 1]
      <4>1. p < Len(s) => p + 1 \in 1 .. Len(s) /\ p < Len(t)
        BY <1>0, <1>1
      <4> QED BY <1>1, <4>1
    <3> QED BY <2>1, <3>1, <3>2, <3>3, <3>4
  <2>3. CASE ~AnyLine(c)
    <3>1. PICK d \in Bytes : \A b \in Seq(Bytes) : \A q \in 1 .. Len(b) :
            (q \in Ends(c, b) <=> b[q] = d) /\ EndLen(c, b, q) = 1
      BY <2>3, EndsAre
    <3>2. (p \in Ends(c, s) <=> s[p] = d) /\ EndLen(c, s, p) = 1
      BY <3>1
    <3>3. (p \in Ends(c, t) <=> t[p] = d) /\ EndLen(c, t, p) = 1
      BY <1>1, <2>1, <3>1
    <3> QED BY <2>1, <3>2, <3>3
  <2> QED BY <2>2, <2>3
<1>4. e \in {0} \union Ends(c, t)
  BY <1>0, <1>3
<1>5. ASSUME NEW p \in Nat, p <= e
      PROVE  p \in Ends(c, t) <=> p \in Ends(c, s)
  <2>1. e \in 0 .. Len(s)
    BY <1>0
  <2>2. CASE p = 0
    BY <1>0, <1>2, <2>2
  <2>3. CASE p # 0 /\ p < Len(s)
    <3>1. p \in 1 .. Len(s)
      BY <1>0, <2>3
    <3> QED BY <1>3, <2>3, <3>1
  <2>4. CASE p # 0 /\ p = Len(s)
    <3>1. p = e /\ p \in 1 .. Len(s)
      BY <1>0, <1>5, <2>1, <2>4
    <3>2. p \in Ends(c, s)
      BY <2>4, <3>1
    <3> QED BY <1>3, <3>1, <3>2
  <2> QED BY <1>0, <1>5, <2>1, <2>2, <2>3, <2>4
<1> QED BY <1>3, <1>4, <1>5 DEF t

\* What is a piece does not change.
LEMMA PieceOfMore ==
  ASSUME NEW c \in Configs, Sound(c), NEW s \in Seq(Bytes), NEW x \in Bytes,
         NEW P \in SUBSET (1 .. Len(s)), NEW p \in 1 .. Len(s)
  PROVE  Piece(c, Append(s, x), P, p) = Piece(c, s, P, p)
<1> DEFINE Q == {q \in P : q < p}
           j == p - EndLen(c, s, p)
<1>0. Len(s) \in Nat /\ EndLen(c, s, p) \in {1, 2}
  BY EndsAreInside
<1>1. EndLen(c, Append(s, x), p) = EndLen(c, s, p)
  <2>1. 0 \in {0} \union Ends(c, s)
    OBVIOUS
  <2> QED BY <2>1, EndsOfMore
<1>2. Q \in SUBSET (1 .. Len(s))
  OBVIOUS
<1>3. j \in Int /\ j <= Len(s)
  BY <1>0
<1> HIDE DEF Q, j
<1>4. Top(Q) \in Nat
  <2>1. Top(Q) \in 0 .. Len(s)
    BY <1>0, <1>2, TopProperties
  <2> QED BY <1>0, <2>1
<1>5. Slice(Append(s, x), Top(Q), j) = Slice(s, Top(Q), j)
  BY <1>3, <1>4, SliceOfMore
<1>6. Piece(c, s, P, p) = Slice(s, Top(Q), j)
  BY PieceIs DEF Q, j
<1>7. Piece(c, Append(s, x), P, p) = Slice(Append(s, x), Top(Q), j)
  BY <1>1, PieceIs DEF Q, j
<1> QED BY <1>5, <1>6, <1>7

\* Whether a piece is marked does not change.
LEMMA MarkedOfMore ==
  ASSUME NEW c \in Configs, Sound(c), NEW s \in Seq(Bytes), NEW x \in Bytes,
         NEW e \in {0} \union Ends(c, s), NEW p \in Ends(c, s), p <= e
  PROVE  Marked(c, Append(s, x), p) <=> Marked(c, s, p)
<1> DEFINE t == Append(s, x)
           Q == {q \in Ends(c, s) : q < p}
           R == {q \in Ends(c, t) : q < p}
<1>0. /\ Len(s) \in Nat /\ Ends(c, s) \in SUBSET (1 .. Len(s))
  BY EndsAreInside
<1>1. t \in Seq(Bytes)
  BY AppendProperties
<1>2. Ends(c, t) \in SUBSET (1 .. Len(t)) /\ Len(t) \in Nat
  BY <1>1, EndsAreInside
<1>3. \A q \in Nat : q <= e => (q \in Ends(c, t) <=> q \in Ends(c, s))
  BY EndsOfMore
<1> HIDE DEF t
<1>4. p \in 1 .. Len(s) /\ e \in 0 .. Len(s)
  BY <1>0
<1>5. Q = R
  <2>1. ASSUME NEW q \in Nat, q < p
        PROVE  q \in Ends(c, t) <=> q \in Ends(c, s)
    <3>1. q <= e
      BY <1>0, <1>4, <2>1
    <3> QED BY <1>3, <3>1
  <2> QED BY <1>0, <1>2, <2>1
<1>6. Piece(c, t, Ends(c, t), p) = Piece(c, t, Ends(c, s), p)
  <2>1. Piece(c, t, Ends(c, t), p) = Slice(t, Top(R), p - EndLen(c, t, p))
    BY PieceIs
  <2>2. Piece(c, t, Ends(c, s), p) = Slice(t, Top(Q), p - EndLen(c, t, p))
    BY PieceIs
  <2> HIDE DEF Q, R
  <2> QED BY <1>5, <2>1, <2>2
<1>7. Piece(c, t, Ends(c, s), p) = Piece(c, s, Ends(c, s), p)
  BY <1>0, <1>4, PieceOfMore DEF t
<1> QED BY <1>6, <1>7 DEF Marked, t

\* Which line ending is next does not change before the last one.
LEMMA NextOfMore ==
  ASSUME NEW c \in Configs, Sound(c), NEW s \in Seq(Bytes), NEW x \in Bytes,
         NEW e \in {0} \union Ends(c, s), NEW p \in Ends(c, s), p < e, NEW n
  PROVE  /\ IsNext(Ends(c, Append(s, x)), p, n) <=> IsNext(Ends(c, s), p, n)
         /\ IsNext(Ends(c, s), p, n) => n \in Ends(c, s) /\ n <= e
<1> DEFINE t == Append(s, x)
<1>0. /\ Len(s) \in Nat /\ Ends(c, s) \in SUBSET (1 .. Len(s))
  BY EndsAreInside
<1>1. t \in Seq(Bytes)
  BY AppendProperties
<1>2. Ends(c, t) \in SUBSET (1 .. Len(t)) /\ Len(t) \in Nat
  BY <1>1, EndsAreInside
<1>3. /\ \A q \in Nat : q <= e => (q \in Ends(c, t) <=> q \in Ends(c, s))
      /\ e \in {0} \union Ends(c, t)
  BY EndsOfMore
<1> HIDE DEF t
<1>4. p \in 1 .. Len(s) /\ e \in 0 .. Len(s) /\ e \in Ends(c, s) /\ e \in Ends(c, t) /\ e \in Nat
  BY <1>0, <1>3
<1>5. ASSUME IsNext(Ends(c, s), p, n)
      PROVE  n \in Ends(c, s) /\ n <= e /\ n \in Nat /\ IsNext(Ends(c, t), p, n)
  <2>1. n \in Ends(c, s) /\ p < n /\ \A q \in Ends(c, s) : p < q => n <= q
    BY <1>5 DEF IsNext
  <2>2. n <= e /\ n \in Nat
    BY <1>0, <1>4, <2>1
  <2>3. ASSUME NEW q \in Ends(c, t), p < q
        PROVE  n <= q
    <3>1. q \in Nat
      BY <1>2
    <3>2. CASE q <= e
      BY <1>3, <2>1, <2>3, <3>1, <3>2
    <3>3. CASE q > e
      BY <1>4, <2>2, <3>1, <3>3
    <3> QED BY <1>4, <3>1, <3>2, <3>3
  <2>4. n \in Ends(c, t)
    BY <1>3, <2>1, <2>2
  <2> QED BY <2>1, <2>2, <2>3, <2>4 DEF IsNext
<1>6. ASSUME IsNext(Ends(c, t), p, n)
      PROVE  IsNext(Ends(c, s), p, n)
  <2>1. n \in Ends(c, t) /\ p < n /\ \A q \in Ends(c, t) : p < q => n <= q
    BY <1>6 DEF IsNext
  <2>2. n <= e /\ n \in Nat
    BY <1>2, <1>4, <2>1
  <2>3. ASSUME NEW q \in Ends(c, s), p < q
        PROVE  n <= q
    <3>1. q \in Nat
      BY <1>0
    <3>2. CASE q <= e
      BY <1>3, <2>1, <2>3, <3>1, <3>2
    <3>3. CASE q > e
      BY <1>4, <2>2, <3>1, <3>3
    <3> QED BY <1>4, <3>1, <3>2, <3>3
  <2>4. n \in Ends(c, s)
    BY <1>3, <2>1, <2>2
  <2> QED BY <2>1, <2>3, <2>4 DEF IsNext
<1> QED BY <1>5, <1>6 DEF t

\* What is decided stays decided.
LEMMA DecidedOfMore ==
  ASSUME NEW c \in Configs, Sound(c), NEW s \in Seq(Bytes), NEW x \in Bytes,
         NEW e \in {0} \union Ends(c, s)
  PROVE  Decided(c, Append(s, x), e) = Decided(c, s, e)
<1> DEFINE t == Append(s, x)
<1>0. /\ Len(s) \in Nat /\ Ends(c, s) \in SUBSET (1 .. Len(s))
  BY EndsAreInside
<1>1. t \in Seq(Bytes)
  BY AppendProperties
<1>2. Ends(c, t) \in SUBSET (1 .. Len(t)) /\ Len(t) \in Nat
  BY <1>1, EndsAreInside
<1>3. \A q \in Nat : q <= e => (q \in Ends(c, t) <=> q \in Ends(c, s))
  BY EndsOfMore
<1>4. \A p \in Ends(c, s) : p <= e => (Marked(c, t, p) <=> Marked(c, s, p))
  BY MarkedOfMore
<1>5. \A p \in Ends(c, s) : \A n : p < e =>
        /\ IsNext(Ends(c, t), p, n) <=> IsNext(Ends(c, s), p, n)
        /\ IsNext(Ends(c, s), p, n) => n \in Ends(c, s) /\ n <= e
  BY NextOfMore
<1> HIDE DEF t
<1>6. e \in 0 .. Len(s) /\ e \in Nat
  BY <1>0
<1>7. CASE c.glue = "none"
  <2>1. /\ Decided(c, s, e) = {p \in Ends(c, s) : p <= e}
        /\ Decided(c, t, e) = {p \in Ends(c, t) : p <= e}
    BY <1>7 DEF Decided
  <2> QED BY <1>0, <1>2, <1>3, <2>1 DEF t
<1>8. CASE c.glue = "next"
  <2>1. /\ Decided(c, s, e) = {p \in Ends(c, s) : p <= e /\ ~Marked(c, s, p)}
        /\ Decided(c, t, e) = {p \in Ends(c, t) : p <= e /\ ~Marked(c, t, p)}
    BY <1>8 DEF Decided
  <2> QED BY <1>0, <1>2, <1>3, <1>4, <2>1 DEF t
<1>9. CASE c.glue = "previous"
  <2> DEFINE Broken(b, p) == \E n : IsNext(Ends(c, b), p, n) /\ ~Marked(c, b, n)
  <2>1. /\ Decided(c, s, e) = {p \in Ends(c, s) : p < e /\ Broken(s, p)}
        /\ Decided(c, t, e) = {p \in Ends(c, t) : p < e /\ Broken(t, p)}
    BY <1>9 DEF Decided
  <2>2. ASSUME NEW p \in Ends(c, s), p < e
        PROVE  Broken(s, p) <=> Broken(t, p)
    <3>1. ASSUME NEW n, IsNext(Ends(c, s), p, n), ~Marked(c, s, n)
          PROVE  IsNext(Ends(c, t), p, n) /\ ~Marked(c, t, n)
      BY <1>4, <1>5, <2>2, <3>1
    <3>2. ASSUME NEW n, IsNext(Ends(c, t), p, n), ~Marked(c, t, n)
          PROVE  IsNext(Ends(c, s), p, n) /\ ~Marked(c, s, n)
      BY <1>4, <1>5, <2>2, <3>2
    <3> QED BY <3>1, <3>2
  <2> HIDE DEF Broken
  <2> QED BY <1>0, <1>2, <1>3, <1>6, <2>1, <2>2 DEF t
<1> QED BY <1>7, <1>8, <1>9, ConfigTypes DEF t

\* The pieces stay the same.
LEMMA PiecesOfMore ==
  ASSUME NEW c \in Configs, Sound(c), NEW s \in Seq(Bytes), NEW x \in Bytes,
         NEW P \in SUBSET (1 .. Len(s)), Ranked(P)
  PROVE  Pieces(c, Append(s, x), P) = Pieces(c, s, P)
<1> DEFINE t == Append(s, x)
<1>0. Len(s) \in Nat
  BY LenProperties
<1>1. t \in Seq(Bytes) /\ Len(t) = Len(s) + 1
  BY AppendProperties
<1> HIDE DEF t
<1>2. /\ Pieces(c, s, P) \in Seq(Seq(Bytes)) /\ Len(Pieces(c, s, P)) = Cardinality(P)
      /\ \A k \in 1 .. Cardinality(P) :
           Nth(P, k) \in P /\ Pieces(c, s, P)[k] = Piece(c, s, P, Nth(P, k))
  BY PiecesAreTyped
<1>3. /\ Pieces(c, t, P) \in Seq(Seq(Bytes)) /\ Len(Pieces(c, t, P)) = Cardinality(P)
      /\ \A k \in 1 .. Cardinality(P) : Pieces(c, t, P)[k] = Piece(c, t, P, Nth(P, k))
  <2>1. P \in SUBSET (1 .. Len(t))
    BY <1>0, <1>1
  <2> QED BY <1>1, <2>1, PiecesAreTyped
<1>4. ASSUME NEW k \in 1 .. Cardinality(P)
      PROVE  Pieces(c, t, P)[k] = Pieces(c, s, P)[k]
  <2>1. Nth(P, k) \in 1 .. Len(s)
    BY <1>2
  <2>2. Piece(c, t, P, Nth(P, k)) = Piece(c, s, P, Nth(P, k))
    BY <2>1, PieceOfMore DEF t
  <2> QED BY <1>2, <1>3, <2>2
<1> DEFINE u == Pieces(c, t, P)
           v == Pieces(c, s, P)
           m == Cardinality(P)
<1>5. /\ u \in Seq(Seq(Bytes)) /\ v \in Seq(Seq(Bytes)) /\ Len(u) = m /\ Len(v) = m
      /\ \A k \in 1 .. m : u[k] = v[k]
  BY <1>2, <1>3, <1>4
<1> HIDE DEF u, v, m
<1>6. u = v
  BY <1>5, SeqEqual
<1> QED BY <1>6 DEF u, v, t

\* A byte more in the buffer is all that changes.
LEMMA ReceiveLive ==
  ASSUME NEW c \in Configs, Sound(c), NEW s \in Seq(Bytes), NEW x \in Bytes, NEW b, NEW g,
         NEW given, NEW e, Live(c, s, b, g, given, e)
  PROVE  Live(c, Append(s, x), Append(b, x), g, given, e)
<1> DEFINE D == Decided(c, s, e)
           t == Append(s, x)
<1>1. /\ e \in {0} \union Ends(c, s) /\ b = Slice(s, Top(D), Len(s))
      /\ given = Pieces(c, s, D) /\ Ranked(D)
      /\ Top(D) + g.pos = e /\ (c.glue # "previous" => g.pos = 0)
      /\ (c.glue = "previous" /\ e # 0 => g.delim = EndLen(c, s, e))
  BY DEF Live
<1>2. Decided(c, t, e) = D
  BY <1>1, DecidedOfMore
<1>3. /\ Top(D) \in 0 .. Len(s) /\ e \in 0 .. Len(s) /\ Len(s) \in Nat
  BY <1>1, TopIsInside
<1>4. e \in {0} \union Ends(c, t) /\ \A p \in 1 .. Len(s) : EndLen(c, t, p) = EndLen(c, s, p)
  BY <1>1, EndsOfMore
<1>5. Pieces(c, t, D) = Pieces(c, s, D)
  <2>1. D \in SUBSET (1 .. Len(s))
    BY <1>1, DecidedInside
  <2> HIDE DEF D
  <2> QED BY <1>1, <2>1, PiecesOfMore
<1> HIDE DEF D
<1>6. Append(b, x) = Slice(t, Top(D), Len(t))
  <2>1. Len(s) \in Int /\ Len(s) <= Len(s) /\ Top(D) \in Nat /\ Top(D) <= Len(s)
    BY <1>3
  <2> QED BY <1>1, <2>1, SliceOfMore
<1>7. c.glue = "previous" /\ e # 0 => g.delim = EndLen(c, t, e)
  <2>1. e # 0 => e \in 1 .. Len(s)
    BY <1>3
  <2> QED BY <1>1, <1>4, <2>1
<1> HIDE DEF t
<1> QED BY <1>1, <1>2, <1>4, <1>5, <1>6, <1>7 DEF Live, t

\* The start, and what is left after a flush.
LEMMA StartLive ==
  ASSUME NEW c \in Configs, Sound(c)
  PROVE  Live(c, <<>>, <<>>, NoGlue, <<>>, 0)
<1>1. <<>> \in Seq(Bytes) /\ Len(<<>>) = 0
  BY EmptySeq
<1>2. Decided(c, <<>>, 0) = {}
  BY <1>1, DecidedInside
<1>3. Slice(<<>>, 0, Len(<<>>)) = <<>>
  BY <1>1, WholeSlice
<1>4. NoGlue.pos = 0
  BY DEF NoGlue
<1>5. Pieces(c, <<>>, {}) = <<>> /\ Ranked({}) /\ Top({}) = 0
  BY NoPieces
<1>6. <<>> = Slice(<<>>, Top(Decided(c, <<>>, 0)), Len(<<>>))
  BY <1>2, <1>3, <1>5
<1>7. <<>> = Pieces(c, <<>>, Decided(c, <<>>, 0)) /\ Ranked(Decided(c, <<>>, 0))
  BY <1>2, <1>5
<1>8. Top(Decided(c, <<>>, 0)) + NoGlue.pos = 0
  BY <1>2, <1>4, <1>5
<1> QED BY <1>4, <1>6, <1>7, <1>8 DEF Live

-----------------------------------------------------------------------------
(* flush *)

\* IsPrefix, element by element.
LEMMA PrefixIs ==
  ASSUME NEW T, NEW u \in Seq(T), NEW v \in Seq(T)
  PROVE  IsPrefix(u, v) <=> Len(u) <= Len(v) /\ \A i \in 1 .. Len(u) : u[i] = v[i]
<1>0. Len(u) \in Nat /\ Len(v) \in Nat
  BY LenProperties
<1>1. IsPrefix(u, v) <=> Len(u) <= Len(v) /\ u = Slice(v, 0, Len(u))
  <2>1. Slice(u, 0, Len(u)) = u
    BY WholeSlice
  <2>2. Slice(u, 0, Len(u)) = SubSeq(u, 1, Len(u)) /\ Slice(v, 0, Len(u)) = SubSeq(v, 1, Len(u))
    BY DEF Slice
  <2>3. IsPrefix(u, v) <=> Len(u) <= Len(v) /\ SubSeq(u, 1, Len(u)) = SubSeq(v, 1, Len(u))
    BY DEF IsPrefix
  <2> QED BY <2>1, <2>2, <2>3
<1>2. ASSUME Len(u) <= Len(v)
      PROVE  u = Slice(v, 0, Len(u)) <=> \A i \in 1 .. Len(u) : u[i] = v[i]
  <2> DEFINE w == Slice(v, 0, Len(u))
             m == Len(u)
  <2>1. w \in Seq(T) /\ Len(w) = m /\ \A i \in 1 .. m : w[i] = v[i]
    <3>1. 0 \in Nat /\ m \in Int /\ m <= Len(v)
      BY <1>0, <1>2
    <3>2. /\ w \in Seq(T) /\ Len(w) = (IF 0 <= m THEN m - 0 ELSE 0)
          /\ \A k \in 1 .. m - 0 : w[k] = v[0 + k]
      BY <3>1, SliceProperties
    <3> HIDE DEF w, m
    <3> QED BY <1>0, <3>1, <3>2 DEF m
  <2> HIDE DEF w
  <2>2. (\A i \in 1 .. m : u[i] = w[i]) => u = w
    BY <1>0, <2>1, SeqEqual
  <2> QED BY <2>1, <2>2 DEF w
<1> QED BY <1>1, <1>2

\* Reverse, element by element.
LEMMA ReverseIs ==
  ASSUME NEW T, NEW u \in Seq(T)
  PROVE  /\ Reverse(u) \in Seq(T) /\ Len(Reverse(u)) = Len(u)
         /\ \A i \in 1 .. Len(u) : Reverse(u)[i] = u[Len(u) - i + 1]
<1>0. Len(u) \in Nat
  BY LenProperties
<1>1. \A i \in 1 .. Len(u) : u[(Len(u) - i) + 1] \in T
  <2>1. \A i \in 1 .. Len(u) : (Len(u) - i) + 1 \in 1 .. Len(u)
    BY <1>0
  <2> QED BY <2>1, ElementOfSeq
<1>2. Reverse(u) = [i \in 1 .. Len(u) |-> u[(Len(u) - i) + 1]]
  BY DEF Reverse
<1> QED BY <1>0, <1>1, <1>2, IsASeq

\* The last element of one is that of the other, and so on.
SameEnd(u, v) ==
  /\ Len(u) <= Len(v)
  /\ \A i \in 1 .. Len(u) : u[Len(u) - i + 1] = v[Len(v) - i + 1]

\* IsSuffix, element by element.
LEMMA SuffixIs ==
  ASSUME NEW T, NEW u \in Seq(T), NEW v \in Seq(T)
  PROVE  IsSuffix(u, v) <=> SameEnd(u, v)
<1> DEFINE ru == Reverse(u)
           rv == Reverse(v)
<1>0. Len(u) \in Nat /\ Len(v) \in Nat
  BY LenProperties
<1>1. /\ ru \in Seq(T) /\ Len(ru) = Len(u) /\ \A i \in 1 .. Len(u) : ru[i] = u[Len(u) - i + 1]
      /\ rv \in Seq(T) /\ Len(rv) = Len(v) /\ \A i \in 1 .. Len(v) : rv[i] = v[Len(v) - i + 1]
  BY ReverseIs
<1>2. IsSuffix(u, v) <=> IsPrefix(ru, rv)
  BY DEF IsSuffix
<1> HIDE DEF ru, rv
<1>3. IsPrefix(ru, rv) <=> Len(ru) <= Len(rv) /\ \A i \in 1 .. Len(ru) : ru[i] = rv[i]
  BY <1>1, PrefixIs
<1>4. ASSUME Len(u) <= Len(v), NEW i \in 1 .. Len(u)
      PROVE  ru[i] = rv[i] <=> u[Len(u) - i + 1] = v[Len(v) - i + 1]
  <2>1. i \in 1 .. Len(v)
    BY <1>0, <1>4
  <2> QED BY <1>1, <2>1
<1> QED BY <1>1, <1>2, <1>3, <1>4 DEF SameEnd

\* A suffix of one byte is the last one.
LEMMA EndsWithByte ==
  ASSUME NEW v \in Seq(Bytes), v # <<>>, NEW x \in Bytes
  PROVE  IsSuffix(<<x>>, v) <=> v[Len(v)] = x
<1> DEFINE u == <<x>>
<1>1. u \in Seq(Bytes) /\ Len(u) = 1 /\ u[1] = x
  OBVIOUS
<1>2. Len(v) \in Nat /\ Len(v) >= 1
  BY LenProperties, EmptySeq
<1> HIDE DEF u
<1>3. IsSuffix(u, v) <=> SameEnd(u, v)
  BY <1>1, SuffixIs
<1>4. Len(u) - 1 + 1 = 1 /\ Len(v) - 1 + 1 = Len(v) /\ 1 .. Len(u) = {1} /\ Len(u) <= Len(v)
  BY <1>1, <1>2
<1> QED BY <1>1, <1>3, <1>4 DEF SameEnd, u

\* A suffix of two bytes is the last two.
LEMMA EndsWithTwo ==
  ASSUME NEW v \in Seq(Bytes), NEW x \in Bytes, NEW y \in Bytes
  PROVE  IsSuffix(<<x, y>>, v) <=> Len(v) > 1 /\ v[Len(v) - 1] = x /\ v[Len(v)] = y
<1> DEFINE u == <<x, y>>
<1>1. u \in Seq(Bytes) /\ Len(u) = 2 /\ u[1] = x /\ u[2] = y
  OBVIOUS
<1>2. Len(v) \in Nat
  BY LenProperties
<1> HIDE DEF u
<1>3. IsSuffix(u, v) <=> SameEnd(u, v)
  BY <1>1, SuffixIs
<1>4. /\ Len(u) - 1 + 1 = 2 /\ Len(u) - 2 + 1 = 1 /\ Len(v) - 1 + 1 = Len(v)
      /\ Len(v) - 2 + 1 = Len(v) - 1 /\ 1 .. Len(u) = {1, 2} /\ (Len(u) <= Len(v) <=> Len(v) > 1)
  BY <1>1, <1>2
<1> QED BY <1>1, <1>3, <1>4 DEF SameEnd, u

\* The line ending that flush takes off.
LEMMA TrailingIs ==
  ASSUME NEW c \in Configs, Sound(c), NEW b \in Seq(Bytes), b # <<>>
  PROVE  TrailingDelimiter(c, b) =
           IF AnyLine(c) /\ IsSuffix(<<CR>>, b) THEN 1
           ELSE IF Len(b) \in Ends(c, b) THEN EndLen(c, b, Len(b)) ELSE 0
<1> DEFINE n == Len(b)
<1>0. n \in Nat /\ n \in 1 .. n
  BY LenProperties, EmptySeq
<1>1. CASE AnyLine(c)
  <2>1. /\ n \in Ends(c, b) <=> b[n] = LF
        /\ EndLen(c, b, n) = IF n > 1 /\ b[n] = LF /\ b[n - 1] = CR THEN 2 ELSE 1
    <3>1. /\ n \in Ends(c, b) <=> (b[n] = LF \/ (b[n] = CR /\ n < Len(b) /\ b[n + 1] # LF))
          /\ EndLen(c, b, n) = IF n > 1 /\ b[n] = LF /\ b[n - 1] = CR THEN 2 ELSE 1
      BY <1>0, <1>1, LineEndsAre
    <3>2. ~(n < Len(b))
      BY <1>0
    <3> QED BY <3>1, <3>2
  <2>2. CR \in Bytes /\ LF \in Bytes /\ CR # LF
    BY CrIsNotLf DEF Bytes
  <2>3. /\ IsSuffix(<<CR>>, b) <=> b[n] = CR
        /\ IsSuffix(<<CR, LF>>, b) <=> n > 1 /\ b[n - 1] = CR /\ b[n] = LF
    BY <2>2, EndsWithByte, EndsWithTwo
  <2>4. Last(b) = b[n]
    BY DEF Last
  <2>5. TrailingDelimiter(c, b) =
          IF IsSuffix(<<CR, LF>>, b) THEN 2 ELSE IF Last(b) \in {CR, LF} THEN 1 ELSE 0
    BY <1>1 DEF TrailingDelimiter
  <2> HIDE DEF n
  <2> QED BY <1>1, <2>1, <2>2, <2>3, <2>4, <2>5 DEF n
<1>2. CASE ~AnyLine(c)
  <2>1. PICK d \in Bytes : Delimiter(c) = <<d>>
    BY <1>2, OneByte
  <2>2. Ends(c, b) = {p \in DOMAIN b : <<b[p]>> = <<d>>}
    BY <1>2, <2>1 DEF Ends
  <2>3. n \in Ends(c, b) <=> b[n] = d
    <3>1. <<b[n]>> = <<d>> <=> b[n] = d
      OBVIOUS
    <3>2. n \in DOMAIN b
      BY <1>0, LenProperties
    <3> QED BY <2>2, <3>1, <3>2
  <2>4. EndLen(c, b, n) = 1
    BY <1>2 DEF EndLen
  <2>5. TrailingDelimiter(c, b) = IF IsSuffix(<<d>>, b) THEN 1 ELSE 0
    <3>1. TrailingDelimiter(c, b) = IF IsSuffix(<<d>>, b) THEN Len(<<d>>) ELSE 0
      BY <1>2, <2>1 DEF TrailingDelimiter
    <3>2. Len(<<d>>) = 1
      OBVIOUS
    <3> QED BY <3>1, <3>2
  <2>6. IsSuffix(<<d>>, b) <=> b[n] = d
    BY EndsWithByte
  <2> QED BY <1>2, <2>3, <2>4, <2>5, <2>6
<1> QED BY <1>1, <1>2

\* flush gives out the rest as FlushedInFull says.
LEMMA FlushedRest ==
  ASSUME NEW c \in Configs, Sound(c), NEW s \in Seq(Bytes), NEW base \in {0} \union Ends(c, s)
  PROVE  LET rest == Slice(s, base, Len(s))
             half == AnyLine(c) /\ IsSuffix(<<CR>>, rest)
             cut  == IF half THEN 1
                     ELSE IF Len(s) \in Ends(c, s) /\ rest # <<>> THEN EndLen(c, s, Len(s)) ELSE 0
         IN  Flushed(c, rest) = IF rest = <<>> THEN <<>> ELSE <<Slice(rest, 0, Len(rest) - cut)>>
<1> DEFINE b == Slice(s, base, Len(s))
           cut == IF AnyLine(c) /\ IsSuffix(<<CR>>, b) THEN 1
                  ELSE IF Len(s) \in Ends(c, s) /\ b # <<>> THEN EndLen(c, s, Len(s)) ELSE 0
<1>1. /\ b \in Seq(Bytes) /\ Len(b) = Len(s) - base /\ base \in 0 .. Len(s)
      /\ \A p \in 1 .. Len(b) : /\ p \in Ends(c, b) <=> base + p \in Ends(c, s)
                                /\ EndLen(c, b, p) = EndLen(c, s, base + p)
  BY EndsOfRest
<1>2. Len(s) \in Nat /\ Len(b) \in Nat
  BY <1>1, LenProperties
<1> HIDE DEF b
<1>3. CASE b = <<>>
  BY <1>3 DEF Flushed, b
<1>4. CASE b # <<>>
  <2>1. Len(b) \in 1 .. Len(b) /\ base + Len(b) = Len(s)
    BY <1>1, <1>2, <1>4, EmptySeq
  <2>2. (Len(b) \in Ends(c, b) <=> Len(s) \in Ends(c, s)) /\ EndLen(c, b, Len(b)) = EndLen(c, s, Len(s))
    BY <1>1, <2>1
  <2>3. TrailingDelimiter(c, b) = cut
    <3>1. TrailingDelimiter(c, b) =
           IF AnyLine(c) /\ IsSuffix(<<CR>>, b) THEN 1
           ELSE IF Len(b) \in Ends(c, b) THEN EndLen(c, b, Len(b)) ELSE 0
      BY <1>1, <1>4, TrailingIs
    <3> QED BY <1>4, <2>2, <3>1
  <2>4. Flushed(c, b) = <<Slice(b, 0, Len(b) - cut)>>
    BY <1>4, <2>3 DEF Flushed
  <2> QED BY <1>4, <2>4 DEF b
<1> QED BY <1>3, <1>4

-----------------------------------------------------------------------------
(* The frames, whatever the chunks *)

Follows ==
  /\ status # "panicked"
  /\ status \in {"filled", "decoded"} =>
       \E e : /\ Live(config, fed, buf, glue, frames, e)
              /\ status = "decoded" => Decided(config, fed, e) = Breaks(config, fed)
  /\ status = "flushed" => buf = <<>> /\ glue = NoGlue

\* Together with TypeInv this is inductive.
LiveInv ==
  /\ Sound(config) => Follows
  /\ FlushedInFull

\* After a decode the history says what FramesOfWholeInput and flush need.
LEMMA DecodedGives ==
  ASSUME TypeInv, LiveInv, Sound(config), status = "decoded"
  PROVE  /\ frames = Expected(config, fed) /\ buf = Rest(config, fed)
         /\ \E base \in {0} \union Ends(config, fed) : buf = Slice(fed, base, Len(fed))
<1>1. PICK e : Live(config, fed, buf, glue, frames, e) /\ Decided(config, fed, e) = Breaks(config, fed)
  BY DEF LiveInv, Follows
<1>2. /\ e \in {0} \union Ends(config, fed)
      /\ buf = Slice(fed, Top(Decided(config, fed, e)), Len(fed))
      /\ frames = Pieces(config, fed, Decided(config, fed, e))
  BY <1>1 DEF Live
<1>3. frames = Expected(config, fed) /\ buf = Rest(config, fed)
  BY <1>1, <1>2 DEF Expected, Rest, Top
<1>4. Top(Decided(config, fed, e)) \in {0} \union Ends(config, fed)
  <2>1. config \in Configs /\ fed \in Seq(Bytes)
    BY DEF TypeInv, TypeOK
  <2> QED BY <1>2, <2>1, TopIsInside
<1> QED BY <1>2, <1>3, <1>4

\* LiveInv holds at the start.
LEMMA InitLive == Init => LiveInv
<1> SUFFICES ASSUME Init PROVE LiveInv
  OBVIOUS
<1>1. /\ config \in Configs /\ buf = <<>> /\ glue = NoGlue /\ status = "filled" /\ fed = <<>>
      /\ frames = <<>>
  BY DEF Init
<1>2. Sound(config) => Live(config, fed, buf, glue, frames, 0)
  BY <1>1, StartLive
<1> QED BY <1>1, <1>2 DEF LiveInv, Follows, FlushedInFull

\* Every step keeps it.
LEMMA NextLive == TypeInv /\ LiveInv /\ [Next]_vars => LiveInv'
<1> SUFFICES ASSUME TypeInv, LiveInv, [Next]_vars PROVE LiveInv'
  OBVIOUS
<1>1. /\ config \in Configs /\ buf \in Seq(Bytes) /\ fed \in Seq(Bytes)
      /\ status \in {"filled", "decoded", "flushed", "panicked"}
      /\ frames \in Seq(Seq(Bytes)) /\ GlueOK(config, Len(buf), glue)
  BY DEF TypeInv, TypeOK
<1>2. ASSUME NEW b \in Bytes, Receive(b)
      PROVE  LiveInv'
  <2>1. /\ buf' = Append(buf, b) /\ status' = "filled" /\ config' = config /\ glue' = glue
        /\ fed' = (IF status = "flushed" THEN <<b>> ELSE Append(fed, b))
        /\ frames' = (IF status = "flushed" THEN <<>> ELSE frames)
    BY <1>2 DEF Receive
  <2>2. FlushedInFull'
    BY <2>1 DEF FlushedInFull
  <2>3. ASSUME Sound(config)
        PROVE  \E e : Live(config, fed', buf', glue', frames', e)
    <3>1. Follows
      BY <2>3 DEF LiveInv
    <3>2. CASE status = "flushed"
      <4>1. Live(config, <<>>, <<>>, NoGlue, <<>>, 0)
        BY <1>1, <2>3, StartLive
      <4>2. <<>> \in Seq(Bytes) /\ Append(<<>>, b) = <<b>>
        OBVIOUS
      <4>3. Live(config, Append(<<>>, b), Append(<<>>, b), NoGlue, <<>>, 0)
        BY <1>1, <2>3, <4>1, <4>2, ReceiveLive
      <4>4. buf = <<>> /\ glue = NoGlue
        BY <3>1, <3>2 DEF Follows
      <4> QED BY <2>1, <3>2, <4>2, <4>3, <4>4
    <3>3. CASE status # "flushed"
      <4>1. PICK e : Live(config, fed, buf, glue, frames, e)
        BY <1>1, <3>1, <3>3 DEF Follows
      <4>2. Live(config, Append(fed, b), Append(buf, b), glue, frames, e)
        BY <1>1, <2>3, <4>1, ReceiveLive
      <4> QED BY <2>1, <3>3, <4>2
    <3> QED BY <3>2, <3>3
  <2>4. Sound(config') => Follows'
    BY <2>1, <2>3 DEF Follows
  <2> QED BY <2>2, <2>4 DEF LiveInv
<1>3. ASSUME DecodeBuf
      PROVE  LiveInv'
  <2> DEFINE r == Decoded(config, buf, glue)
  <2>1. /\ config' = config /\ fed' = fed /\ status = "filled"
        /\ r.ok => /\ buf' = Slice(buf, r.read, Len(buf)) /\ glue' = r.glue
                   /\ frames' = frames \o r.frames /\ status' = "decoded"
        /\ status' \in {"decoded", "panicked"}
    BY <1>3 DEF DecodeBuf
  <2>2. FlushedInFull'
    BY <2>1 DEF FlushedInFull
  <2>3. ASSUME Sound(config)
        PROVE  Follows'
    <3>1. PICK e : Live(config, fed, buf, glue, frames, e)
      BY <2>1, <2>3 DEF LiveInv, Follows
    <3>2. /\ r.ok
          /\ \E z : /\ Live(config, fed, Slice(buf, r.read, Len(buf)), r.glue, frames \o r.frames, z)
                    /\ Decided(config, fed, z) = Breaks(config, fed)
      BY <1>1, <2>3, <3>1, DecodedLive
    <3> HIDE DEF r
    <3> QED BY <2>1, <3>2 DEF Follows
  <2> HIDE DEF r
  <2>4. Sound(config') => Follows'
    BY <2>1, <2>3
  <2> QED BY <2>2, <2>4 DEF LiveInv
<1>4. ASSUME FlushBuf
      PROVE  LiveInv'
  <2>1. /\ glue' = NoGlue /\ frames' = frames \o Flushed(config, buf) /\ buf' = <<>>
        /\ status' = "flushed" /\ config' = config /\ fed' = fed /\ status = "decoded"
    BY <1>4 DEF FlushBuf, Reset
  <2>2. Follows'
    BY <2>1 DEF Follows
  <2>3. FlushedInFull'
    <3> SUFFICES ASSUME Sound(config) PROVE FlushedInFull'
      BY <2>1 DEF FlushedInFull
    <3>1. frames = Expected(config, fed) /\ buf = Rest(config, fed)
      BY <2>1, DecodedGives
    <3>2. PICK base \in {0} \union Ends(config, fed) : buf = Slice(fed, base, Len(fed))
      BY <2>1, DecodedGives
    <3> DEFINE half == AnyLine(config) /\ IsSuffix(<<CR>>, buf)
               cut  == IF half THEN 1
                       ELSE IF Len(fed) \in Ends(config, fed) /\ buf # <<>>
                              THEN EndLen(config, fed, Len(fed)) ELSE 0
    <3>3. Flushed(config, buf) = IF buf = <<>> THEN <<>> ELSE <<Slice(buf, 0, Len(buf) - cut)>>
      BY <1>1, <3>2, FlushedRest
    <3>4. frames' = Expected(config, fed)
                      \o (IF buf = <<>> THEN <<>> ELSE <<Slice(buf, 0, Len(buf) - cut)>>)
      BY <2>1, <3>1, <3>3
    <3> QED BY <2>1, <3>1, <3>4 DEF FlushedInFull
  <2> QED BY <2>2, <2>3 DEF LiveInv
<1>5. CASE UNCHANGED vars
  BY <1>5 DEF vars, LiveInv, Follows, FlushedInFull
<1> QED BY <1>2, <1>3, <1>4, <1>5 DEF Next

\* Both are invariants.
LEMMA LiveHolds == Spec => [](TypeInv /\ LiveInv)
<1> QED BY InitTypes, NextTypes, InitLive, NextLive, PTL DEF Spec

\* However the input was cut into chunks, with a line ending or a glued frame across the cuts, the
\* frames are those of the whole input and the buffer keeps what follows them
\* (delimited.rs:139-216, 281-407): for every input, and every configuration that is Sound.
THEOREM FramesAreThoseOfWholeInput == Spec => []FramesOfWholeInput
<1>1. TypeInv /\ LiveInv => FramesOfWholeInput
  BY DecodedGives DEF FramesOfWholeInput
<1> QED BY <1>1, LiveHolds, PTL

\* A flush gives out what is left as one frame, glued lines and all, without the line ending it may
\* have, and the decoder starts afresh (delimited.rs:262-270, 348-370).
THEOREM FlushGivesTheRest == Spec => []FlushedInFull
<1>1. TypeInv /\ LiveInv => FlushedInFull
  BY DEF LiveInv
<1> QED BY <1>1, LiveHolds, PTL

\* No sequence of calls trips the assertion on the glue position (delimited.rs:381) or slices the
\* input where it is not, also after a flush in the middle of glued frames.
THEOREM NoCallPanics == Spec => []NeverPanics
<1>1. TypeInv /\ LiveInv => NeverPanics
  BY DEF LiveInv, Follows, NeverPanics
<1> QED BY <1>1, LiveHolds, PTL
=============================================================================
