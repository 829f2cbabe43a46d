----------------------------- MODULE Induction ------------------------------
(***************************************************************************)
(* Induction over the natural numbers, and definition by recursion, stated *)
(* with sets and functions instead of operators.                           *)
(***************************************************************************)
EXTENDS Integers, WellFoundedInduction, TLAPS

\* A set of natural numbers has a least one.
LEMMA LeastNumber ==
  ASSUME NEW T \in SUBSET Nat, T # {}
  PROVE  \E m \in T : \A k \in T : m <= k
<1>1. PICK m \in T : \A k \in T : <<k, m>> \notin OpToRel(<, Nat)
  BY NatLessThanWellFounded, WFMin
<1>2. ASSUME NEW k \in T
      PROVE  m <= k
  <2>1. k \in Nat /\ m \in Nat
    OBVIOUS
  <2>2. ~ (k < m)
    BY <1>1, <2>1 DEF OpToRel
  <2> QED BY <2>1, <2>2
<1> QED BY <1>2

\* What holds for 0, and for n + 1 when it does for n, holds for all numbers.
LEMMA Induct ==
  ASSUME NEW T \in SUBSET Nat, 0 \in T, \A n \in T : n + 1 \in T
  PROVE  \A n \in Nat : n \in T
<1> SUFFICES ASSUME Nat \ T # {} PROVE FALSE
  OBVIOUS
<1>1. PICK m \in Nat \ T : \A k \in Nat \ T : m <= k
  BY LeastNumber
<1>2. m # 0 /\ m - 1 \in Nat /\ ~ (m <= m - 1) /\ (m - 1) + 1 = m
  BY <1>1
<1>3. m - 1 \in T
  BY <1>1, <1>2
<1> QED BY <1>1, <1>2, <1>3

Steps(S) == [Nat \X S -> S]

IsDefinedBy(f, c, step) == f[0] = c /\ \A n \in Nat : f[n + 1] = step[<<n, f[n]>>]

\* A function can be defined by its value for 0 and a step from n to n + 1.
LEMMA Recursion ==
  ASSUME NEW S, NEW c \in S, NEW step \in Steps(S)
  PROVE  \E f \in [Nat -> S] : IsDefinedBy(f, c, step)
<1> USE DEF Steps
<1> DEFINE Approx(n) == {g \in [0 .. n -> S] :
                           g[0] = c /\ \A i \in 0 .. n - 1 : g[i + 1] = step[<<i, g[i]>>]}
           T == {n \in Nat : Approx(n) # {}}
<1>1. \A n \in Nat : n \in T
  <2>1. 0 \in T
    <3>1. [i \in 0 .. 0 |-> c] \in Approx(0)
      OBVIOUS
    <3> QED BY <3>1
  <2>2. ASSUME NEW n \in T
        PROVE  n + 1 \in T
    <3>1. PICK g \in [0 .. n -> S] : g[0] = c /\ \A i \in 0 .. n - 1 : g[i + 1] = step[<<i, g[i]>>]
      OBVIOUS
    <3> DEFINE h == [i \in 0 .. n + 1 |-> IF i = n + 1 THEN step[<<n, g[n]>>] ELSE g[i]]
    <3>2. n \in Nat /\ g[n] \in S /\ step[<<n, g[n]>>] \in S
      BY <3>1
    <3>3. h \in [0 .. n + 1 -> S] /\ h[0] = c
      BY <3>1, <3>2
    <3>4. ASSUME NEW i \in 0 .. (n + 1) - 1
          PROVE  h[i + 1] = step[<<i, h[i]>>]
      <4>1. CASE i = n
        <5>1. h[n + 1] = step[<<n, g[n]>>] /\ h[n] = g[n]
          BY <3>2
        <5> QED BY <4>1, <5>1
      <4>2. CASE i \in 0 .. n - 1
        BY <4>2, <3>1, <3>2
      <4> QED BY <4>1, <4>2, <3>2
    <3> HIDE DEF h
    <3>5. h \in Approx(n + 1)
      BY <3>3, <3>4
    <3> QED BY <3>2, <3>5
  <2> HIDE DEF T
  <2> QED BY <2>1, <2>2, Induct DEF T
<1> DEFINE G == [n \in Nat |-> CHOOSE g \in Approx(n) : TRUE]
           f == [n \in Nat |-> G[n][n]]
<1>2. ASSUME NEW n \in Nat
      PROVE  /\ G[n] \in [0 .. n -> S]
             /\ G[n][0] = c
             /\ \A i \in 0 .. n - 1 : G[n][i + 1] = step[<<i, G[n][i]>>]
  <2>1. Approx(n) # {}
    BY <1>1
  <2>2. G[n] \in Approx(n)
    BY <2>1
  <2> HIDE DEF G
  <2> QED BY <2>2
<1> HIDE DEF G
<1>3. ASSUME NEW n \in Nat
      PROVE  \A i \in 0 .. n : G[n][i] = G[n + 1][i]
  <2> DEFINE U == {i \in Nat : i <= n => G[n][i] = G[n + 1][i]}
  <2>1. 0 \in U
    BY <1>2
  <2>2. ASSUME NEW i \in U
        PROVE  i + 1 \in U
    <3> SUFFICES ASSUME i + 1 <= n PROVE G[n][i + 1] = G[n + 1][i + 1]
      OBVIOUS
    <3>1. i \in 0 .. n - 1 /\ i \in 0 .. (n + 1) - 1
      OBVIOUS
    <3>2. G[n][i] = G[n + 1][i]
      OBVIOUS
    <3>3. n + 1 \in Nat
      OBVIOUS
    <3>4. G[n][i + 1] = step[<<i, G[n][i]>>]
      BY <3>1, <1>2
    <3>5. G[n + 1][i + 1] = step[<<i, G[n + 1][i]>>]
      BY <3>1, <3>3, <1>2
    <3> QED BY <3>2, <3>4, <3>5
  <2> HIDE DEF U
  <2>3. \A i \in Nat : i \in U
    BY <2>1, <2>2, Induct DEF U
  <2> QED BY <2>3 DEF U
<1>4. f \in [Nat -> S] /\ f[0] = c
  BY <1>2
<1>5. ASSUME NEW n \in Nat
      PROVE  f[n + 1] = step[<<n, f[n]>>]
  <2>1. G[n + 1][n + 1] = step[<<n, G[n + 1][n]>>]
    BY <1>2
  <2>2. G[n + 1][n] = G[n][n]
    BY <1>3
  <2> QED BY <2>1, <2>2
<1> HIDE DEF f
<1> QED BY <1>4, <1>5 DEF IsDefinedBy

RankedSteps(D, S) == [D \X [D -> S] -> S]

\* What a step makes of an element depends only on elements of a lower rank.
FollowsRank(D, S, rank, step) ==
  \A x \in D : \A f, g \in [D -> S] :
    (\A y \in D : rank[y] < rank[x] => f[y] = g[y]) => step[<<x, f>>] = step[<<x, g>>]

\* A function can be defined by recursion along a rank.
LEMMA RecursionByRank ==
  ASSUME NEW D, NEW S, NEW some \in S, NEW rank \in [D -> Nat], NEW step \in RankedSteps(D, S),
         FollowsRank(D, S, rank, step)
  PROVE  \E f \in [D -> S] : \A x \in D : f[x] = step[<<x, f>>]
<1> DEFINE P == [D -> S]
           first == [x \in D |-> some]
           Better(f) == [x \in D |-> step[<<x, f>>]]
           better == [p \in Nat \X P |-> Better(p[2])]
<1>1. first \in P /\ \A f \in P : Better(f) \in P
  BY DEF RankedSteps
<1>2. better \in Steps(P)
  BY <1>1 DEF Steps
<1>3. \A n \in Nat, f \in P : better[<<n, f>>] = Better(f)
  OBVIOUS
<1> HIDE DEF better
<1>4. PICK F \in [Nat -> P] : IsDefinedBy(F, first, better)
  <2> HIDE DEF P, first
  <2> QED BY <1>1, <1>2, Recursion
<1>5. ASSUME NEW n \in Nat, NEW x \in D
      PROVE  F[n + 1][x] = step[<<x, F[n]>>]
  <2> HIDE DEF P, first, Better
  <2>1. F[n] \in P /\ F[n + 1] = better[<<n, F[n]>>]
    BY <1>4 DEF IsDefinedBy
  <2>2. F[n + 1] = Better(F[n])
    BY <1>3, <2>1
  <2> QED BY <2>2 DEF Better
<1>6. \A n \in Nat : F[n] \in P /\ n + 1 \in Nat
  BY <1>4
<1> DEFINE T == {n \in Nat : \A x \in D : rank[x] < n => F[n][x] = F[n + 1][x]}
<1>7. \A n \in Nat : n \in T
  <2>1. 0 \in T
    OBVIOUS
  <2>2. ASSUME NEW n \in T
        PROVE  n + 1 \in T
    <3> SUFFICES ASSUME NEW x \in D, rank[x] < n + 1
                 PROVE  F[n + 1][x] = F[(n + 1) + 1][x]
      BY <1>6
    <3>1. \A y \in D : rank[y] < rank[x] => F[n][y] = F[n + 1][y]
      OBVIOUS
    <3>2. step[<<x, F[n]>>] = step[<<x, F[n + 1]>>]
      BY <1>6, <3>1 DEF FollowsRank
    <3> QED BY <1>5, <1>6, <3>2
  <2> HIDE DEF T
  <2> QED BY <2>1, <2>2, Induct DEF T
<1> DEFINE f == [x \in D |-> F[rank[x] + 1][x]]
<1>8. ASSUME NEW y \in D
      PROVE  \A n \in Nat : rank[y] < n => F[n][y] = f[y]
  <2> DEFINE U == {n \in Nat : rank[y] < n => F[n][y] = f[y]}
  <2>1. 0 \in U
    OBVIOUS
  <2>2. ASSUME NEW n \in U
        PROVE  n + 1 \in U
    <3>1. CASE rank[y] < n
      BY <1>7, <3>1
    <3>2. CASE rank[y] = n
      BY <3>2
    <3> QED BY <3>1, <3>2
  <2> HIDE DEF U
  <2>3. \A n \in Nat : n \in U
    BY <2>1, <2>2, Induct DEF U
  <2> QED BY <2>3 DEF U
<1>9. f \in [D -> S]
  BY <1>6
<1>10. ASSUME NEW x \in D
       PROVE  f[x] = step[<<x, f>>]
  <2>1. f[x] = step[<<x, F[rank[x]]>>]
    BY <1>5
  <2>2. \A y \in D : rank[y] < rank[x] => F[rank[x]][y] = f[y]
    BY <1>8
  <2> HIDE DEF f
  <2>3. step[<<x, F[rank[x]]>>] = step[<<x, f>>]
    BY <1>6, <1>9, <2>2, SMTT(30) DEF FollowsRank
  <2> QED BY <2>1, <2>3
<1> HIDE DEF f
<1> QED BY <1>9, <1>10

\* What holds of an element when it does of all of a lower rank, holds of all elements.
LEMMA InductByRank ==
  ASSUME NEW D, NEW rank \in [D -> Nat], NEW T \in SUBSET D,
         \A x \in D : (\A y \in D : rank[y] < rank[x] => y \in T) => x \in T
  PROVE  \A x \in D : x \in T
<1> DEFINE U == {n \in Nat : \A x \in D : rank[x] < n => x \in T}
<1>1. 0 \in U
  OBVIOUS
<1>2. ASSUME NEW n \in U
      PROVE  n + 1 \in U
  <2> SUFFICES ASSUME NEW x \in D, rank[x] < n + 1
               PROVE  x \in T
    OBVIOUS
  <2>1. \A y \in D : rank[y] < rank[x] => rank[y] < n
    OBVIOUS
  <2> QED BY <2>1
<1> HIDE DEF U
<1>3. \A n \in Nat : n \in U
  BY <1>1, <1>2, Induct DEF U
<1>4. ASSUME NEW x \in D
      PROVE  x \in T
  <2>1. rank[x] + 1 \in U /\ rank[x] < rank[x] + 1
    BY <1>3
  <2> QED BY <2>1 DEF U
<1> QED BY <1>4
=============================================================================
