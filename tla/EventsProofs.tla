---------------------------- MODULE EventsProofs ----------------------------
(***************************************************************************)
(* Proofs about Events.tla: for any configuration of the filter and any    *)
(* frame, adding the captures one after the other does what the filter is  *)
(* configured for.                                                         *)
(***************************************************************************)
EXTENDS Events, Induction, SequenceTheorems, FiniteSetTheorems

\* The first of the captures numbered by s that gives the field a value.
FirstFor(captures, s, name) ==
  CHOOSE i \in s :
    captures[i][1] = name /\ \A j \in s : captures[j][1] = name => i <= j

\* The fields when the captures numbered by s have been added.
Gained(fields, captures, s) ==
  [name \in DOMAIN fields \union {captures[i][1] : i \in s} |->
     IF name \in DOMAIN fields THEN fields[name]
     ELSE captures[FirstFor(captures, s, name)][2]]

-----------------------------------------------------------------------------
(* Numbers *)

LEMMA MaxOfNumbers ==
  ASSUME NEW n \in Nat, NEW s \in SUBSET (1 .. n), s # {}
  PROVE  Max(s) \in s /\ \A j \in s : j <= Max(s)
<1> DEFINE T == {n - j : j \in s}
<1>1. T \in SUBSET Nat /\ T # {}
  <2>1. \A j \in s : n - j \in Nat
    OBVIOUS
  <2> QED BY <2>1
<1>2. PICK m \in T : \A k \in T : m <= k
  BY <1>1, LeastNumber
<1>3. PICK i \in s : m = n - i
  BY <1>2
<1>4. ASSUME NEW j \in s
      PROVE  i >= j
  <2>1. n - i <= n - j /\ i \in Nat /\ j \in Nat
    BY <1>2, <1>3
  <2> QED BY <2>1
<1>5. \E x \in s : \A y \in s : x >= y
  BY <1>4
<1>6. Max(s) \in s /\ \A y \in s : Max(s) >= y
  BY <1>5 DEF Max
<1> QED BY <1>6

LEMMA FirstForIsFirst ==
  ASSUME NEW captures, NEW s \in SUBSET Nat, NEW name, \E i \in s : captures[i][1] = name
  PROVE  /\ FirstFor(captures, s, name) \in s
         /\ captures[FirstFor(captures, s, name)][1] = name
         /\ \A j \in s : captures[j][1] = name => FirstFor(captures, s, name) <= j
<1> DEFINE T == {i \in s : captures[i][1] = name}
<1>1. \E m \in T : \A k \in T : m <= k
  BY LeastNumber
<1>2. \E i \in s : captures[i][1] = name /\ \A j \in s : captures[j][1] = name => i <= j
  BY <1>1
<1> QED BY <1>2 DEF FirstFor

-----------------------------------------------------------------------------
(* One capture after the other *)

LEMMA GainOne ==
  ASSUME NEW fields, NEW captures, NEW n \in Nat, NEW s \in SUBSET (1 .. n), s # {}
  PROVE  Gained(fields, captures, s)
           = OrInsert(Gained(fields, captures, s \ {Max(s)}), captures[Max(s)])
<1> DEFINE m == Max(s)
           r == s \ {m}
           before == Gained(fields, captures, r)
<1>1. m \in s /\ \A j \in s : j <= m
  BY MaxOfNumbers
<1>2. s \in SUBSET Nat /\ r \in SUBSET Nat /\ s = r \union {m}
  <2>1. 1 .. n \subseteq Nat
    OBVIOUS
  <2>2. s \in SUBSET Nat
    BY <2>1
  <2> HIDE DEF m
  <2>3. r \in SUBSET Nat /\ s = r \union {m}
    BY <1>1, <2>2
  <2> QED BY <2>2, <2>3
<1> HIDE DEF m, r
<1>3. /\ before = [name \in DOMAIN fields \union {captures[i][1] : i \in r} |->
                     IF name \in DOMAIN fields THEN fields[name]
                     ELSE captures[FirstFor(captures, r, name)][2]]
      /\ DOMAIN before = DOMAIN fields \union {captures[i][1] : i \in r}
  BY DEF Gained
<1> HIDE DEF before
<1>4. OrInsert(before, captures[m])
        = [name \in DOMAIN before \union {captures[m][1]} |->
             IF name \in DOMAIN before THEN before[name] ELSE captures[m][2]]
  BY DEF OrInsert
<1>5. DOMAIN fields \union {captures[i][1] : i \in s} = DOMAIN before \union {captures[m][1]}
  BY <1>2, <1>3
<1>6. ASSUME NEW name \in DOMAIN before \union {captures[m][1]}
      PROVE  (IF name \in DOMAIN fields THEN fields[name]
                ELSE captures[FirstFor(captures, s, name)][2])
               = IF name \in DOMAIN before THEN before[name] ELSE captures[m][2]
  <2>1. CASE name \in DOMAIN fields
    BY <2>1, <1>3
  <2>2. CASE name \notin DOMAIN fields
    <3>1. \E j \in s : captures[j][1] = name
      BY <1>2, <1>3, <2>2
    <3>0. s \in SUBSET Nat
      BY <1>2
    <3>5. /\ FirstFor(captures, s, name) \in s
          /\ captures[FirstFor(captures, s, name)][1] = name
          /\ \A j \in s : captures[j][1] = name => FirstFor(captures, s, name) <= j
      BY ONLY <3>0, <3>1, FirstForIsFirst
    <3> DEFINE i == FirstFor(captures, s, name)
    <3>2. /\ i \in s
          /\ captures[i][1] = name
          /\ \A j \in s : captures[j][1] = name => i <= j
      BY <3>5
    <3> HIDE DEF i
    <3>3. CASE name \in DOMAIN before
      <4> DEFINE k == FirstFor(captures, r, name)
      <4>1. \E j \in r : captures[j][1] = name
        BY <3>3, <2>2, <1>3
      <4>2. /\ k \in r
            /\ captures[k][1] = name
            /\ \A j \in r : captures[j][1] = name => k <= j
        BY <1>2, <4>1, FirstForIsFirst
      <4> HIDE DEF k
      <4>3. k <= m /\ k \in s /\ m \in Nat /\ k \in Nat /\ i \in Nat
        BY <4>2, <1>1, <1>2, <3>2
      <4>4. i <= k /\ k <= i
        BY <4>2, <4>3, <3>2, <1>1, <1>2
      <4>5. i = k
        BY <4>3, <4>4
      <4>6. before[name] = captures[FirstFor(captures, r, name)][2]
        BY <3>3, <2>2, <1>3
      <4> QED BY <2>2, <3>3, <4>5, <4>6 DEF i, k
    <3>4. CASE name \notin DOMAIN before
      <4>1. \A j \in r : captures[j][1] # name
        BY <3>4, <1>3
      <4>2. i = m
        BY <4>1, <3>2, <1>2
      <4> QED BY <2>2, <3>4, <4>2 DEF i
    <3> QED BY <3>3, <3>4
  <2> QED BY <2>1, <2>2
<1>7. Gained(fields, captures, s)
        = [name \in DOMAIN fields \union {captures[j][1] : j \in s} |->
             IF name \in DOMAIN fields THEN fields[name]
             ELSE captures[FirstFor(captures, s, name)][2]]
  BY DEF Gained
<1> QED BY <1>4, <1>5, <1>6, <1>7 DEF before, r, m

\* The fold over the captures, in a form without recursion.
LEMMA AllGained ==
  ASSUME NEW fields, fields = [name \in DOMAIN fields |-> fields[name]],
         NEW S, NEW captures \in Seq(S)
  PROVE  FoldLeft(OrInsert, fields, captures) = Gained(fields, captures, DOMAIN captures)
<1> DEFINE D == DOMAIN captures
           IsFold(g) == g = [s \in SUBSET D |->
                               IF s = {} THEN fields
                               ELSE OrInsert(g[s \ {Max(s)}], captures[Max(s)])]
           fold == CHOOSE g : IsFold(g)
           closed == [s \in SUBSET D |-> Gained(fields, captures, s)]
<1>1. FoldLeft(OrInsert, fields, captures) = fold[D]
  BY DEF FoldLeft, MapThenFoldSet
<1>2. Len(captures) \in Nat /\ D = 1 .. Len(captures)
  BY LenProperties
<1> HIDE DEF D
<1>3. Gained(fields, captures, {}) = fields
  BY DEF Gained
<1>4. \A s \in SUBSET D : s # {} =>
        Gained(fields, captures, s)
          = OrInsert(Gained(fields, captures, s \ {Max(s)}), captures[Max(s)])
  BY <1>2, GainOne
<1>5. IsFold(closed)
  BY <1>3, <1>4
<1> HIDE DEF closed
<1>6. IsFold(fold)
  BY <1>5
<1>7. fold = [s \in SUBSET D |->
                IF s = {} THEN fields ELSE OrInsert(fold[s \ {Max(s)}], captures[Max(s)])]
  BY <1>6
<1> HIDE DEF fold
<1> DEFINE T == {n \in Nat : \A s \in SUBSET D :
                               s \subseteq 1 .. n => fold[s] = Gained(fields, captures, s)}
<1>8. 0 \in T
  <2>1. ASSUME NEW s \in SUBSET D, s \subseteq 1 .. 0
        PROVE  fold[s] = Gained(fields, captures, s)
    <3>1. s = {}
      BY <2>1
    <3> QED BY <3>1, <1>3, <1>7
  <2> QED BY <2>1
<1>9. ASSUME NEW n \in T
      PROVE  n + 1 \in T
  <2>1. ASSUME NEW s \in SUBSET D, s \subseteq 1 .. n + 1
        PROVE  fold[s] = Gained(fields, captures, s)
    <3>1. CASE s = {}
      BY <3>1, <1>3, <1>7
    <3>2. CASE s # {}
      <4>1. Max(s) \in s /\ \A j \in s : j <= Max(s)
        BY <2>1, <3>2, MaxOfNumbers
      <4>2. s \ {Max(s)} \subseteq 1 .. n /\ s \ {Max(s)} \in SUBSET D
        BY <2>1, <4>1
      <4>3. fold[s \ {Max(s)}] = Gained(fields, captures, s \ {Max(s)})
        BY <4>2
      <4>4. fold[s] = OrInsert(fold[s \ {Max(s)}], captures[Max(s)])
        BY <3>2, <1>7
      <4> QED BY <4>3, <4>4, <3>2, <1>4
    <3> QED BY <3>1, <3>2
  <2> QED BY <2>1
<1>10. \A n \in Nat : n \in T
  <2> HIDE DEF T
  <2> QED BY <1>8, <1>9, Induct DEF T
<1>11. fold[D] = Gained(fields, captures, D)
  BY <1>2, <1>10
<1> QED BY <1>1, <1>11 DEF D

-----------------------------------------------------------------------------
(* One sequence after the other *)

\* FlattenSeq adds one sequence after the other.
LEMMA FlattenSteps ==
  ASSUME NEW T, NEW n \in Nat, NEW seqs \in [1 .. n -> Seq(T)]
  PROVE  \E f \in [0 .. n -> Seq(T)] :
           /\ f[0] = <<>>
           /\ \A i \in 1 .. n : f[i] = f[i - 1] \o seqs[i]
           /\ FlattenSeq(seqs) = f[n]
<1>1. seqs \in Seq(Seq(T)) /\ Len(seqs) = n
  BY IsASeq
<1>2. CASE n = 0
  <2>1. seqs = <<>> /\ FlattenSeq(seqs) = seqs
    BY <1>1, <1>2, EmptySeq DEF FlattenSeq
  <2> DEFINE f == [i \in 0 .. n |-> <<>>]
  <2>2. f \in [0 .. n -> Seq(T)] /\ f[0] = <<>> /\ f[n] = <<>>
    BY <1>2, EmptySeq
  <2>3. \A i \in 1 .. n : FALSE
    BY <1>2
  <2> HIDE DEF f
  <2> QED BY <2>1, <2>2, <2>3
<1>3. CASE n # 0
  <2> DEFINE step == [x \in Nat \X Seq(T) |->
                        IF x[1] + 1 \in 1 .. n THEN x[2] \o seqs[x[1] + 1] ELSE x[2]]
  <2>1. step \in [Nat \X Seq(T) -> Seq(T)]
    <3>1. ASSUME NEW x \in Nat \X Seq(T)
          PROVE  (IF x[1] + 1 \in 1 .. n THEN x[2] \o seqs[x[1] + 1] ELSE x[2]) \in Seq(T)
      BY ConcatProperties
    <3> QED BY <3>1
  <2> HIDE DEF step
  <2>0. <<>> \in Seq(T)
    BY EmptySeq
  <2>2. PICK h \in [Nat -> Seq(T)] :
          h[0] = <<>> /\ \A i \in Nat : h[i + 1] = step[<<i, h[i]>>]
    <3>1. step \in Steps(Seq(T))
      BY <2>1 DEF Steps
    <3>2. \E h \in [Nat -> Seq(T)] : IsDefinedBy(h, <<>>, step)
      BY <2>0, <3>1, Recursion
    <3> QED BY <3>2 DEF IsDefinedBy
  <2>3. ASSUME NEW i \in 1 .. n
        PROVE  h[i] = h[i - 1] \o seqs[i]
    <3>1. i - 1 \in Nat /\ (i - 1) + 1 = i /\ h[i - 1] \in Seq(T)
      OBVIOUS
    <3>2. h[i] = step[<<i - 1, h[i - 1]>>]
      BY <2>2, <3>1
    <3> QED BY <3>1, <3>2 DEF step
  <2>first. h[1] = seqs[1]
    <3>1. 1 \in 1 .. n /\ 1 - 1 = 0 /\ seqs[1] \in Seq(T)
      BY <1>3
    <3>2. h[1] = h[0] \o seqs[1]
      BY <3>1, <2>3
    <3> QED BY <3>1, <3>2, <2>2, ConcatEmptySeq
  <2> DEFINE IsFlat(g) == g = [i \in 1 .. n |-> IF i = 1 THEN seqs[i] ELSE g[i - 1] \o seqs[i]]
             flat == CHOOSE g : IsFlat(g)
             closed == [i \in 1 .. n |-> h[i]]
  <2>4. FlattenSeq(seqs) = flat[n]
    BY <1>1, <1>3 DEF FlattenSeq
  <2>5. IsFlat(closed)
    <3>1. ASSUME NEW i \in 1 .. n
          PROVE  h[i] = IF i = 1 THEN seqs[i] ELSE closed[i - 1] \o seqs[i]
      <4>1. CASE i = 1
        BY <4>1, <2>first
      <4>2. CASE i # 1
        <5>1. i - 1 \in 1 .. n
          BY <4>2
        <5>2. closed[i - 1] = h[i - 1]
          BY <5>1
        <5> HIDE DEF closed
        <5> QED BY <4>2, <5>2, <2>3
      <4> QED BY <4>1, <4>2
    <3> QED BY <3>1
  <2> HIDE DEF closed
  <2>6. IsFlat(flat)
    BY <2>5
  <2>7. flat = [i \in 1 .. n |-> IF i = 1 THEN seqs[i] ELSE flat[i - 1] \o seqs[i]]
    BY <2>6
  <2> HIDE DEF flat, IsFlat
  <2> DEFINE U == {i \in Nat : i + 1 <= n => flat[i + 1] = h[i + 1]}
  <2>8. 0 \in U
    <3>1. flat[1] = seqs[1]
      BY <1>3, <2>7
    <3> QED BY <2>first, <3>1
  <2>9. ASSUME NEW i \in U
        PROVE  i + 1 \in U
    <3> SUFFICES ASSUME (i + 1) + 1 <= n PROVE flat[(i + 1) + 1] = h[(i + 1) + 1]
      OBVIOUS
    <3> DEFINE j == (i + 1) + 1
    <3>1. j \in 1 .. n /\ j # 1 /\ j - 1 = i + 1
      OBVIOUS
    <3>2. flat[i + 1] = h[i + 1]
      OBVIOUS
    <3> HIDE DEF j
    <3>3. flat[j] = flat[j - 1] \o seqs[j] /\ h[j] = h[j - 1] \o seqs[j]
      BY <2>3, <2>7, <3>1
    <3> QED BY <3>1, <3>2, <3>3 DEF j
  <2>10. \A i \in Nat : i \in U
    <3> HIDE DEF U
    <3> QED BY <2>8, <2>9, Induct DEF U
  <2>11. flat[n] = h[n]
    <3>1. n - 1 \in Nat /\ (n - 1) + 1 = n
      BY <1>3
    <3>2. n - 1 \in U
      BY <3>1, <2>10
    <3> QED BY <3>1, <3>2
  <2> DEFINE f == [i \in 0 .. n |-> h[i]]
  <2>12. /\ f \in [0 .. n -> Seq(T)] /\ f[0] = <<>> /\ f[n] = h[n]
         /\ \A i \in 1 .. n : f[i] = f[i - 1] \o seqs[i]
    <3>1. \A i \in 1 .. n : f[i] = h[i] /\ f[i - 1] = h[i - 1]
      OBVIOUS
    <3>2. f \in [0 .. n -> Seq(T)] /\ f[0] = h[0] /\ f[n] = h[n]
      OBVIOUS
    <3> HIDE DEF f
    <3> QED BY <3>1, <3>2, <2>2, <2>3
  <2> HIDE DEF f
  <2> QED BY <2>4, <2>11, <2>12
<1> QED BY <1>2, <1>3

\* In the result each sequence has a stretch of its own, in order.
LEMMA FlattenOrder ==
  ASSUME NEW T, NEW n \in Nat, NEW seqs \in [1 .. n -> Seq(T)]
  PROVE  /\ FlattenSeq(seqs) \in Seq(T)
         /\ \E start \in [1 .. n -> Nat] :
              /\ \A p \in 1 .. n : \A q \in DOMAIN seqs[p] :
                   /\ start[p] + q \in DOMAIN FlattenSeq(seqs)
                   /\ FlattenSeq(seqs)[start[p] + q] = seqs[p][q]
              /\ \A i \in DOMAIN FlattenSeq(seqs) :
                   \E p \in 1 .. n : \E q \in DOMAIN seqs[p] : i = start[p] + q
              /\ \A p, r \in 1 .. n : p < r => start[p] + Len(seqs[p]) <= start[r]
<1>1. PICK f \in [0 .. n -> Seq(T)] :
        /\ f[0] = <<>>
        /\ \A i \in 1 .. n : f[i] = f[i - 1] \o seqs[i]
        /\ FlattenSeq(seqs) = f[n]
  BY FlattenSteps
<1> DEFINE start == [p \in 1 .. n |-> Len(f[p - 1])]
<1>2. \A i \in 0 .. n : Len(f[i]) \in Nat /\ DOMAIN f[i] = 1 .. Len(f[i])
  BY LenProperties
<1>3. \A p \in 1 .. n : Len(seqs[p]) \in Nat /\ DOMAIN seqs[p] = 1 .. Len(seqs[p])
  BY LenProperties
<1>4. ASSUME NEW p \in 1 .. n
      PROVE  /\ start[p] = Len(f[p - 1]) /\ start[p] \in Nat
             /\ Len(f[p]) = start[p] + Len(seqs[p])
             /\ \A i \in 1 .. start[p] : f[p][i] = f[p - 1][i]
             /\ \A q \in 1 .. Len(seqs[p]) : f[p][start[p] + q] = seqs[p][q]
  <2>1. p - 1 \in 0 .. n /\ f[p - 1] \in Seq(T) /\ seqs[p] \in Seq(T)
    OBVIOUS
  <2>2. f[p] = f[p - 1] \o seqs[p]
    BY <1>1
  <2>3. Len(f[p - 1]) \in Nat /\ Len(seqs[p]) \in Nat
    BY <2>1, <1>2, <1>3
  <2>4. /\ Len(f[p]) = Len(f[p - 1]) + Len(seqs[p])
        /\ \A i \in 1 .. Len(f[p - 1]) + Len(seqs[p]) :
             f[p][i] = IF i <= Len(f[p - 1]) THEN f[p - 1][i] ELSE seqs[p][i - Len(f[p - 1])]
    BY <2>1, <2>2, ConcatProperties
  <2>5. start[p] = Len(f[p - 1])
    OBVIOUS
  <2> HIDE DEF start
  <2>6. ASSUME NEW i \in 1 .. start[p]
        PROVE  f[p][i] = f[p - 1][i]
    <3>1. i \in 1 .. Len(f[p - 1]) + Len(seqs[p]) /\ i <= Len(f[p - 1])
      BY <2>3, <2>5
    <3> QED BY <3>1, <2>4
  <2>7. ASSUME NEW q \in 1 .. Len(seqs[p])
        PROVE  f[p][start[p] + q] = seqs[p][q]
    <3> DEFINE i == start[p] + q
    <3>1. /\ i \in 1 .. Len(f[p - 1]) + Len(seqs[p]) /\ ~(i <= Len(f[p - 1]))
          /\ i - Len(f[p - 1]) = q
      BY <2>3, <2>5
    <3> HIDE DEF i
    <3>2. f[p][i] = seqs[p][q]
      BY <3>1, <2>4
    <3> QED BY <3>2 DEF i
  <2> QED BY <2>3, <2>4, <2>5, <2>6, <2>7
<1> HIDE DEF start
<1> DEFINE Done(m) ==
             /\ \A p \in 1 .. m :
                  /\ start[p] + Len(seqs[p]) <= Len(f[m])
                  /\ \A q \in 1 .. Len(seqs[p]) : f[m][start[p] + q] = seqs[p][q]
             /\ \A i \in 1 .. Len(f[m]) :
                  \E p \in 1 .. m : \E q \in 1 .. Len(seqs[p]) : i = start[p] + q
           U == {m \in Nat : m <= n => Done(m)}
<1>5. 0 \in U
  BY <1>1, EmptySeq
<1>6. ASSUME NEW m \in U
      PROVE  m + 1 \in U
  <2> SUFFICES ASSUME m + 1 <= n PROVE Done(m + 1)
    OBVIOUS
  <2> DEFINE k == m + 1
  <2>1. k \in 1 .. n /\ k - 1 = m /\ m \in 0 .. n /\ m \in Nat
    OBVIOUS
  <2>2. Done(m)
    OBVIOUS
  <2> HIDE DEF k
  <2>3. /\ start[k] = Len(f[m]) /\ start[k] \in Nat
        /\ Len(f[k]) = start[k] + Len(seqs[k])
        /\ \A i \in 1 .. start[k] : f[k][i] = f[m][i]
        /\ \A q \in 1 .. Len(seqs[k]) : f[k][start[k] + q] = seqs[k][q]
        /\ Len(seqs[k]) \in Nat
    BY <2>1, <1>4, <1>3
  <2>4. ASSUME NEW p \in 1 .. k
        PROVE  /\ start[p] + Len(seqs[p]) <= Len(f[k])
               /\ \A q \in 1 .. Len(seqs[p]) : f[k][start[p] + q] = seqs[p][q]
    <3>1. CASE p = k
      BY <3>1, <2>3
    <3>2. CASE p # k
      <4>1. p \in 1 .. m /\ p \in 1 .. n
        BY <3>2, <2>1
      <4>2. start[p] \in Nat /\ Len(seqs[p]) \in Nat
        BY <4>1, <1>4, <1>3
      <4>3. /\ start[p] + Len(seqs[p]) <= Len(f[m])
            /\ \A q \in 1 .. Len(seqs[p]) : f[m][start[p] + q] = seqs[p][q]
        BY <4>1, <2>2
      <4> HIDE DEF Done, U
      <4>4. start[p] + Len(seqs[p]) <= start[k]
        BY <4>3, <2>3
      <4>5. ASSUME NEW q \in 1 .. Len(seqs[p])
            PROVE  f[k][start[p] + q] = seqs[p][q]
        <5>1. q \in Nat /\ 1 <= q /\ q <= Len(seqs[p])
          BY <4>2
        <5>2. start[k] \in Nat /\ \A i \in 1 .. start[k] : f[k][i] = f[m][i]
          BY <2>3
        <5>3. start[p] + q \in 1 .. start[k]
          BY ONLY <4>2, <4>4, <5>1, <5>2
        <5>4. f[k][start[p] + q] = f[m][start[p] + q]
          BY <5>2, <5>3
        <5> QED BY <5>4, <4>3
      <4>6. start[p] + Len(seqs[p]) <= Len(f[k])
        <5>1. /\ Len(f[k]) = start[k] + Len(seqs[k])
              /\ start[k] \in Nat /\ Len(seqs[k]) \in Nat
          BY <2>3
        <5> QED BY ONLY <4>2, <4>4, <5>1, SMTT(30)
      <4> QED BY <4>5, <4>6
    <3> QED BY <3>1, <3>2
  <2>5. ASSUME NEW i \in 1 .. Len(f[k])
        PROVE  \E p \in 1 .. k : \E q \in 1 .. Len(seqs[p]) : i = start[p] + q
    <3>1. CASE i <= start[k]
      <4>1. i \in 1 .. Len(f[m])
        BY <3>1, <2>3
      <4>2. \E p \in 1 .. m : \E q \in 1 .. Len(seqs[p]) : i = start[p] + q
        BY <4>1, <2>2
      <4>3. 1 .. m \subseteq 1 .. k
        BY <2>1
      <4> QED BY <4>2, <4>3
    <3>2. CASE i > start[k]
      <4>1. i - start[k] \in 1 .. Len(seqs[k]) /\ i = start[k] + (i - start[k]) /\ k \in 1 .. k
        BY <3>2, <2>1, <2>3
      <4> QED BY <4>1
    <3> QED BY <3>1, <3>2, <2>3
  <2>6. Done(k)
    BY <2>4, <2>5
  <2> QED BY <2>6 DEF k
<1>7. \A m \in 0 .. n : Done(m)
  <2>1. \A m \in Nat : m \in U
    <3> HIDE DEF U
    <3> QED BY <1>5, <1>6, Induct DEF U
  <2>2. ASSUME NEW m \in 0 .. n
        PROVE  Done(m)
    <3>1. m \in Nat /\ m <= n
      OBVIOUS
    <3> HIDE DEF U
    <3>2. m \in U
      BY <2>1, <3>1
    <3> HIDE DEF Done
    <3> QED BY <3>1, <3>2 DEF U
  <2> QED BY <2>2
<1>8. start \in [1 .. n -> Nat]
  BY <1>4 DEF start
<1>9. ASSUME NEW p \in 1 .. n, NEW r \in 1 .. n, p < r
      PROVE  start[p] + Len(seqs[p]) <= start[r]
  <2>1. r - 1 \in 0 .. n /\ p \in 1 .. r - 1
    BY <1>9
  <2>2. start[p] + Len(seqs[p]) <= Len(f[r - 1])
    BY <2>1, <1>7
  <2> QED BY <2>2, <1>4
<1>10. Done(n)
  BY <1>7
<1>11. /\ f[n] \in Seq(T) /\ DOMAIN f[n] = 1 .. Len(f[n]) /\ Len(f[n]) \in Nat
  BY <1>2
<1>12. \A p \in 1 .. n : \A q \in DOMAIN seqs[p] :
         start[p] + q \in DOMAIN f[n] /\ f[n][start[p] + q] = seqs[p][q]
  <2> SUFFICES ASSUME NEW p \in 1 .. n, NEW q \in 1 .. Len(seqs[p])
               PROVE  start[p] + q \in DOMAIN f[n] /\ f[n][start[p] + q] = seqs[p][q]
    BY <1>3
  <2>1. start[p] \in Nat /\ Len(seqs[p]) \in Nat
    BY <1>3, <1>4
  <2>2. start[p] + Len(seqs[p]) <= Len(f[n]) /\ f[n][start[p] + q] = seqs[p][q]
    BY <1>10
  <2> QED BY <1>11, <2>1, <2>2
<1>13. \A i \in DOMAIN f[n] : \E p \in 1 .. n : \E q \in DOMAIN seqs[p] : i = start[p] + q
  BY <1>3, <1>10, <1>11, ZenonT(60)
<1> HIDE DEF Done
<1> DEFINE flat == f[n]
<1>14. flat = FlattenSeq(seqs)
  BY <1>1
<1>15. /\ flat \in Seq(T)
       /\ \A p \in 1 .. n : \A q \in DOMAIN seqs[p] :
            start[p] + q \in DOMAIN flat /\ flat[start[p] + q] = seqs[p][q]
       /\ \A i \in DOMAIN flat : \E p \in 1 .. n : \E q \in DOMAIN seqs[p] : i = start[p] + q
  BY <1>11, <1>12, <1>13
<1> HIDE DEF flat
<1> QED BY <1>8, <1>9, <1>14, <1>15

\* What is in the sequences is in the result, and whatever comes from an earlier sequence, or
\* an earlier place of the same one, is there already.
KeepsAll(flat, seqs, n) ==
  /\ \A p \in 1 .. n : \A c \in ToSet(seqs[p]) : \E i \in DOMAIN flat : flat[i] = c
  /\ \A i \in DOMAIN flat :
       \E p \in 1 .. n : \E q \in DOMAIN seqs[p] :
         /\ flat[i] = seqs[p][q]
         /\ \A r \in 1 .. n : \A c \in ToSet(seqs[r]) :
              r < p => \E j \in DOMAIN flat : j < i /\ flat[j] = c
         /\ \A u \in DOMAIN seqs[p] :
              u < q => \E j \in DOMAIN flat : j < i /\ flat[j] = seqs[p][u]

LEMMA FlattenKeepsAll ==
  ASSUME NEW T, NEW n \in Nat, NEW seqs \in [1 .. n -> Seq(T)]
  PROVE  FlattenSeq(seqs) \in Seq(T) /\ KeepsAll(FlattenSeq(seqs), seqs, n)
<1> DEFINE flat == FlattenSeq(seqs)
<1>1. flat \in Seq(T)
  BY FlattenOrder
<1>2. PICK start \in [1 .. n -> Nat] :
        /\ \A p \in 1 .. n : \A q \in DOMAIN seqs[p] :
             start[p] + q \in DOMAIN flat /\ flat[start[p] + q] = seqs[p][q]
        /\ \A i \in DOMAIN flat : \E p \in 1 .. n : \E q \in DOMAIN seqs[p] : i = start[p] + q
        /\ \A p, r \in 1 .. n : p < r => start[p] + Len(seqs[p]) <= start[r]
  BY FlattenOrder
<1> HIDE DEF flat
<1>3. \A p \in 1 .. n : Len(seqs[p]) \in Nat /\ DOMAIN seqs[p] = 1 .. Len(seqs[p])
  BY LenProperties
<1>4. ASSUME NEW p \in 1 .. n, NEW c \in ToSet(seqs[p])
      PROVE  \E q \in DOMAIN seqs[p] :
               /\ c = seqs[p][q]
               /\ start[p] + q \in DOMAIN flat
               /\ flat[start[p] + q] = c
  <2>1. PICK q \in DOMAIN seqs[p] : c = seqs[p][q]
    BY DEF ToSet
  <2> QED BY <2>1, <1>2
<1>5. ASSUME NEW i \in DOMAIN flat
      PROVE  \E p \in 1 .. n : \E q \in DOMAIN seqs[p] :
                /\ flat[i] = seqs[p][q]
                /\ \A r \in 1 .. n : \A c \in ToSet(seqs[r]) :
                     r < p => \E j \in DOMAIN flat : j < i /\ flat[j] = c
                /\ \A u \in DOMAIN seqs[p] :
                     u < q => \E j \in DOMAIN flat : j < i /\ flat[j] = seqs[p][u]
  <2>0. PICK p \in 1 .. n : \E q \in DOMAIN seqs[p] : i = start[p] + q
    BY <1>2
  <2>1. PICK q \in DOMAIN seqs[p] : i = start[p] + q
    BY <2>0
  <2>2. flat[i] = seqs[p][q] /\ start[p] \in Nat /\ q \in Nat /\ q >= 1
    BY <2>1, <1>2, <1>3
  <2>3. ASSUME NEW r \in 1 .. n, NEW c \in ToSet(seqs[r]), r < p
        PROVE  \E j \in DOMAIN flat : j < i /\ flat[j] = c
    <3>1. PICK u \in DOMAIN seqs[r] :
            c = seqs[r][u] /\ start[r] + u \in DOMAIN flat /\ flat[start[r] + u] = c
      BY <1>4
    <3>2. u \in Nat /\ u <= Len(seqs[r]) /\ Len(seqs[r]) \in Nat /\ start[r] \in Nat
      BY <1>3
    <3>3. start[r] + Len(seqs[r]) <= start[p]
      BY <1>2, <2>3
    <3>4. start[r] + u < i
      BY ONLY <2>1, <2>2, <3>2, <3>3
    <3> QED BY <3>1, <3>4
  <2>4. ASSUME NEW u \in DOMAIN seqs[p], u < q
        PROVE  \E j \in DOMAIN flat : j < i /\ flat[j] = seqs[p][u]
    <3>1. start[p] + u \in DOMAIN flat /\ flat[start[p] + u] = seqs[p][u]
      BY <1>2
    <3>2. u \in Nat
      BY <1>3
    <3>3. start[p] + u < i
      BY <2>1, <2>2, <2>4, <3>2
    <3> QED BY <3>1, <3>3
  <2> QED BY <2>2, <2>3, <2>4
<1>6. \A p \in 1 .. n : \A c \in ToSet(seqs[p]) : \E i \in DOMAIN flat : flat[i] = c
  BY <1>4
<1>7. KeepsAll(flat, seqs, n)
  BY <1>5, <1>6 DEF KeepsAll
<1> QED BY <1>1, <1>7 DEF flat

-----------------------------------------------------------------------------
(* What a filter captures *)

AllCaptures ==
  UNION {Range(regex[text]) :
           regex \in UNION {Range(p.regexes) : p \in Patterns}, text \in Texts}

\* The texts of an event as it comes are texts of frames and names of files.
Readable(fields) == \A name \in DOMAIN fields : fields[name] \in Texts

LEMMA RegexFacts ==
  ASSUME NEW p \in Patterns, NEW r \in DOMAIN p.regexes, NEW text \in Texts
  PROVE  p.regexes[r][text] \in Seq(AllCaptures)
<1>1. p.regexes[r] \in Range(p.regexes)
  BY DEF Range
<1>2. p.regexes[r][text] \in Seq(Range(p.regexes[r][text]))
  BY <1>1, CapturesAssumption
<1>3. Range(p.regexes[r][text]) \subseteq AllCaptures
  BY <1>1 DEF AllCaptures
<1> QED BY <1>2, <1>3, SeqMonotonic

LEMMA CapturesArePairs ==
  ASSUME NEW c \in AllCaptures
  PROVE  c = <<c[1], c[2]>>
<1>1. PICK p \in Patterns : \E regex \in Range(p.regexes), text \in Texts :
        c \in Range(regex[text])
  BY DEF AllCaptures
<1> QED BY <1>1, CapturesAssumption

\* The captures for one field, expression by expression.
CapturesOf(caps, regexes, text) ==
  /\ \A r \in DOMAIN regexes : \A c \in ToSet(regexes[r][text]) :
       \E i \in DOMAIN caps : caps[i] = c
  /\ \A i \in DOMAIN caps :
       \E r \in DOMAIN regexes :
         /\ caps[i] \in ToSet(regexes[r][text])
         /\ \A o \in DOMAIN regexes : \A c \in ToSet(regexes[o][text]) :
              o < r => \E j \in DOMAIN caps : j < i /\ caps[j] = c

LEMMA CapturesInOrder ==
  ASSUME NEW p \in Patterns, NEW fields, Readable(fields)
  PROVE  /\ Captures(fields, p) \in Seq(AllCaptures)
         /\ p.field \in DOMAIN fields =>
              CapturesOf(Captures(fields, p), p.regexes, fields[p.field])
         /\ p.field \notin DOMAIN fields => DOMAIN Captures(fields, p) = {}
<1>1. CASE p.field \notin DOMAIN fields
  BY <1>1, EmptySeq DEF Captures
<1>2. CASE p.field \in DOMAIN fields
  <2> DEFINE text == fields[p.field]
             n == Len(p.regexes)
             seqs == [r \in DOMAIN p.regexes |-> p.regexes[r][text]]
             caps == FlattenSeq(seqs)
  <2>1. text \in Texts
    BY <1>2 DEF Readable
  <2>2. n \in Nat /\ DOMAIN p.regexes = 1 .. n
    BY EventsAssumption, LenProperties
  <2>3. Captures(fields, p) = caps
    BY <1>2 DEF Captures
  <2> HIDE DEF text, n
  <2>4. seqs \in [1 .. n -> Seq(AllCaptures)] /\ \A r \in 1 .. n : seqs[r] = p.regexes[r][text]
    BY <2>1, <2>2, RegexFacts
  <2> HIDE DEF seqs
  <2>5. caps \in Seq(AllCaptures) /\ KeepsAll(caps, seqs, n)
    BY <2>2, <2>4, FlattenKeepsAll
  <2> HIDE DEF caps
  <2>6. ASSUME NEW i \in DOMAIN caps
        PROVE  \E r \in 1 .. n :
                 /\ caps[i] \in ToSet(seqs[r])
                 /\ \A o \in 1 .. n : \A c \in ToSet(seqs[o]) :
                      o < r => \E j \in DOMAIN caps : j < i /\ caps[j] = c
    <3>1. PICK r \in 1 .. n :
               /\ \E q \in DOMAIN seqs[r] : caps[i] = seqs[r][q]
               /\ \A o \in 1 .. n : \A c \in ToSet(seqs[o]) :
                    o < r => \E j \in DOMAIN caps : j < i /\ caps[j] = c
      BY <2>5 DEF KeepsAll
    <3>2. caps[i] \in ToSet(seqs[r])
      BY <3>1 DEF ToSet
    <3> QED BY <3>1, <3>2
  <2>7. \A r \in 1 .. n : ToSet(seqs[r]) = ToSet(p.regexes[r][text])
    BY <2>4
  <2>8. \A r \in 1 .. n : \A c \in ToSet(p.regexes[r][text]) : \E i \in DOMAIN caps : caps[i] = c
    BY <2>5, <2>7 DEF KeepsAll
  <2>9. ASSUME NEW i \in DOMAIN caps
        PROVE  \E r \in 1 .. n :
                 /\ caps[i] \in ToSet(p.regexes[r][text])
                 /\ \A o \in 1 .. n : \A c \in ToSet(p.regexes[o][text]) :
                      o < r => \E j \in DOMAIN caps : j < i /\ caps[j] = c
    <3>1. PICK r \in 1 .. n :
                 /\ caps[i] \in ToSet(seqs[r])
                 /\ \A o \in 1 .. n : \A c \in ToSet(seqs[o]) :
                      o < r => \E j \in DOMAIN caps : j < i /\ caps[j] = c
      BY <2>6
    <3>2. ASSUME NEW o \in 1 .. n, NEW c \in ToSet(p.regexes[o][text]), o < r
          PROVE  \E j \in DOMAIN caps : j < i /\ caps[j] = c
      <4>1. c \in ToSet(seqs[o])
        BY <2>7
      <4> QED BY <4>1, <3>1, <3>2
    <3>3. caps[i] \in ToSet(p.regexes[r][text])
      BY <3>1, <2>7
    <3> QED BY <3>2, <3>3
  <2>10. CapturesOf(caps, p.regexes, text)
    BY <2>2, <2>8, <2>9 DEF CapturesOf
  <2> QED BY <1>2, <2>3, <2>5, <2>10 DEF text
<1> QED BY <1>1, <1>2

LEMMA OrderFacts ==
  ASSUME NEW patterns \in PatternOrders
  PROVE  /\ Cardinality(Patterns) \in Nat
         /\ DOMAIN patterns = 1 .. Cardinality(Patterns)
         /\ \A p \in DOMAIN patterns : patterns[p] \in Patterns
BY EventsAssumption, FS_CardinalityType DEF PatternOrders, SetToSeqs

\* All captures, in the order of the patterns and their expressions.
InOrder(all, patterns, fields) ==
  /\ \A place \in Tried(patterns, fields) :
     \A c \in CapturedAt(patterns, fields, place) : \E i \in DOMAIN all : all[i] = c
  /\ \A i \in DOMAIN all :
       \E place \in Tried(patterns, fields) :
         /\ all[i] \in CapturedAt(patterns, fields, place)
         /\ \A other \in Tried(patterns, fields) :
            \A c \in CapturedAt(patterns, fields, other) :
              Before(other, place) => \E j \in DOMAIN all : j < i /\ all[j] = c

LEMMA AllCapturesInOrder ==
  ASSUME NEW patterns \in PatternOrders, NEW fields, Readable(fields), NEW all,
         all = FlattenSeq([p \in DOMAIN patterns |-> Captures(fields, patterns[p])])
  PROVE  all \in Seq(AllCaptures) /\ InOrder(all, patterns, fields)
<1> DEFINE n == Cardinality(Patterns)
           seqs == [p \in DOMAIN patterns |-> Captures(fields, patterns[p])]
           Reads(p) == patterns[p].field \in DOMAIN fields
           At(p, r) == ToSet(patterns[p].regexes[r][fields[patterns[p].field]])
<1>1. n \in Nat /\ DOMAIN patterns = 1 .. n /\ \A p \in 1 .. n : patterns[p] \in Patterns
  BY OrderFacts
<1> HIDE DEF n
<1>2. seqs \in [1 .. n -> Seq(AllCaptures)]
  BY <1>1, CapturesInOrder
<1>3. ASSUME NEW p \in 1 .. n
      PROVE  /\ Reads(p) =>
                  CapturesOf(seqs[p], patterns[p].regexes, fields[patterns[p].field])
             /\ ~Reads(p) => DOMAIN seqs[p] = {}
  <2>1. seqs[p] = Captures(fields, patterns[p]) /\ patterns[p] \in Patterns
    BY <1>1
  <2> HIDE DEF seqs
  <2> QED BY <2>1, CapturesInOrder
<1>4. \A place : place \in Tried(patterns, fields) <=>
        \E p \in 1 .. n : \E r \in DOMAIN patterns[p].regexes : Reads(p) /\ place = <<p, r>>
  BY <1>1 DEF Tried
<1>5. \A p, r : CapturedAt(patterns, fields, <<p, r>>) = At(p, r)
  BY DEF CapturedAt
<1>6. all = FlattenSeq(seqs)
  OBVIOUS
<1> HIDE DEF seqs
<1>7. all \in Seq(AllCaptures) /\ KeepsAll(all, seqs, n)
  BY <1>1, <1>2, <1>6, FlattenKeepsAll
<1> HIDE DEF Reads, At
<1>8. ASSUME NEW p \in 1 .. n, NEW r \in DOMAIN patterns[p].regexes, Reads(p), NEW c \in At(p, r)
      PROVE  c \in ToSet(seqs[p])
  <2>1. \E i \in DOMAIN seqs[p] : seqs[p][i] = c
    BY <1>3, <1>8 DEF CapturesOf, At
  <2> QED BY <2>1 DEF ToSet
<1>9. ASSUME NEW place \in Tried(patterns, fields),
             NEW c \in CapturedAt(patterns, fields, place)
      PROVE  \E i \in DOMAIN all : all[i] = c
  <2>1. PICK p \in 1 .. n : \E r \in DOMAIN patterns[p].regexes : Reads(p) /\ place = <<p, r>>
    BY <1>4
  <2>2. PICK r \in DOMAIN patterns[p].regexes : Reads(p) /\ place = <<p, r>>
    BY <2>1
  <2>3. c \in At(p, r)
    BY <2>2, <1>5
  <2>4. c \in ToSet(seqs[p])
    BY <2>2, <2>3, <1>8
  <2> QED BY <2>4, <1>7 DEF KeepsAll
<1>10. ASSUME NEW i \in DOMAIN all
       PROVE  \E place \in Tried(patterns, fields) :
                /\ all[i] \in CapturedAt(patterns, fields, place)
                /\ \A other \in Tried(patterns, fields) :
                   \A c \in CapturedAt(patterns, fields, other) :
                     Before(other, place) => \E j \in DOMAIN all : j < i /\ all[j] = c
  <2>0. PICK p \in 1 .. n : \E q \in DOMAIN seqs[p] :
             /\ all[i] = seqs[p][q]
             /\ \A r \in 1 .. n : \A c \in ToSet(seqs[r]) :
                  r < p => \E j \in DOMAIN all : j < i /\ all[j] = c
             /\ \A u \in DOMAIN seqs[p] :
                  u < q => \E j \in DOMAIN all : j < i /\ all[j] = seqs[p][u]
    BY <1>7 DEF KeepsAll
  <2>1. PICK q \in DOMAIN seqs[p] :
             /\ all[i] = seqs[p][q]
             /\ \A r \in 1 .. n : \A c \in ToSet(seqs[r]) :
                  r < p => \E j \in DOMAIN all : j < i /\ all[j] = c
             /\ \A u \in DOMAIN seqs[p] :
                  u < q => \E j \in DOMAIN all : j < i /\ all[j] = seqs[p][u]
    BY <2>0
  <2>2. Reads(p)
    BY <1>3
  <2>3. PICK r \in DOMAIN patterns[p].regexes :
          /\ seqs[p][q] \in At(p, r)
          /\ \A o \in DOMAIN patterns[p].regexes : \A c \in At(p, o) :
               o < r => \E j \in DOMAIN seqs[p] : j < q /\ seqs[p][j] = c
    BY <2>2, <1>3 DEF CapturesOf, At
  <2>4. <<p, r>> \in Tried(patterns, fields)
    BY <2>2, <1>4
  <2>5. all[i] \in CapturedAt(patterns, fields, <<p, r>>)
    BY <2>1, <2>3, <1>5
  <2>6. ASSUME NEW other \in Tried(patterns, fields),
               NEW c \in CapturedAt(patterns, fields, other), Before(other, <<p, r>>)
        PROVE  \E j \in DOMAIN all : j < i /\ all[j] = c
    <3>0. PICK b \in 1 .. n : \E o \in DOMAIN patterns[b].regexes : Reads(b) /\ other = <<b, o>>
      BY <1>4
    <3>1. PICK o \in DOMAIN patterns[b].regexes : Reads(b) /\ other = <<b, o>>
      BY <3>0
    <3>2. c \in At(b, o)
      BY <3>1, <1>5
    <3>3. b < p \/ (b = p /\ o < r)
      BY <2>6, <3>1 DEF Before
    <3>4. CASE b < p
      BY <3>1, <3>2, <3>4, <1>8, <2>1
    <3>5. CASE b = p /\ o < r
      <4>1. PICK u \in DOMAIN seqs[p] : u < q /\ seqs[p][u] = c
        BY <3>1, <3>2, <3>5, <2>3
      <4> QED BY <4>1, <2>1
    <3> QED BY <3>3, <3>4, <3>5
  <2> QED BY <2>4, <2>5, <2>6
<1> QED BY <1>7, <1>9, <1>10 DEF InOrder

-----------------------------------------------------------------------------
(* The filter *)

\* For every configuration, every order of its patterns and every line of a file, the
\* filter leaves the fields that are there alone, adds a field for everything captured, and
\* gives it what the first expression to capture it captured (regex.rs:80-112).
THEOREM FilterAsConfigured ==
  ASSUME NEW patterns \in PatternOrders, NEW line \in Lines
  PROVE  AsConfigured(patterns, FileFields(line), Filtered(patterns, FileFields(line)))
<1> DEFINE fields == FileFields(line)
           all == FlattenSeq([p \in DOMAIN patterns |-> Captures(fields, patterns[p])])
           after == Filtered(patterns, fields)
<1>1. Readable(fields) /\ fields = [name \in DOMAIN fields |-> fields[name]]
  BY DEF Readable, FileFields, TextFields, Lines, Texts, Range
<1> HIDE DEF fields
<1>2. all \in Seq(AllCaptures) /\ InOrder(all, patterns, fields)
  BY <1>1, AllCapturesInOrder
<1>3. after = FoldLeft(OrInsert, fields, all)
  BY DEF Filtered
<1> HIDE DEF all, after
<1>4. after = Gained(fields, all, DOMAIN all)
  BY <1>1, <1>2, <1>3, AllGained
<1>5. /\ DOMAIN after = DOMAIN fields \union {all[i][1] : i \in DOMAIN all}
      /\ \A name \in DOMAIN fields : after[name] = fields[name]
      /\ \A name \in DOMAIN after \ DOMAIN fields :
           after[name] = all[FirstFor(all, DOMAIN all, name)][2]
  BY <1>4 DEF Gained
<1>6. DOMAIN all \subseteq Nat
  BY <1>2, LenProperties
<1>7. \A name \in DOMAIN fields : name \in DOMAIN after /\ after[name] = fields[name]
  BY <1>5
<1>8. \A place \in Tried(patterns, fields) :
      \A c \in CapturedAt(patterns, fields, place) : c[1] \in DOMAIN after
  BY <1>2, <1>5 DEF InOrder
<1>9. ASSUME NEW name \in DOMAIN after \ DOMAIN fields
      PROVE  \E place \in Tried(patterns, fields) :
               /\ <<name, after[name]>> \in CapturedAt(patterns, fields, place)
               /\ \A other \in Tried(patterns, fields) :
                    Before(other, place) =>
                      ~ \E c \in CapturedAt(patterns, fields, other) : c[1] = name
  <2> DEFINE i == FirstFor(all, DOMAIN all, name)
  <2>1. \E j \in DOMAIN all : all[j][1] = name
    BY <1>5
  <2>2. /\ i \in DOMAIN all
        /\ all[i][1] = name
        /\ \A j \in DOMAIN all : all[j][1] = name => i <= j
    BY <1>6, <2>1, FirstForIsFirst
  <2>3. after[name] = all[i][2]
    BY <1>5
  <2> HIDE DEF i
  <2>4. all[i] \in AllCaptures
    BY <1>2, <2>2, ElementOfSeq, LenProperties
  <2>5. <<name, after[name]>> = all[i]
    BY <2>2, <2>3, <2>4, CapturesArePairs
  <2>6. PICK place \in Tried(patterns, fields) :
          /\ all[i] \in CapturedAt(patterns, fields, place)
          /\ \A other \in Tried(patterns, fields) :
             \A c \in CapturedAt(patterns, fields, other) :
               Before(other, place) => \E j \in DOMAIN all : j < i /\ all[j] = c
    BY <1>2, <2>2 DEF InOrder
  <2>7. ASSUME NEW other \in Tried(patterns, fields), Before(other, place),
               NEW c \in CapturedAt(patterns, fields, other), c[1] = name
        PROVE  FALSE
    <3>1. PICK j \in DOMAIN all : j < i /\ all[j] = c
      BY <2>6, <2>7
    <3>2. i <= j /\ i \in Nat /\ j \in Nat
      BY <3>1, <2>2, <2>7, <1>6
    <3> QED BY <3>1, <3>2
  <2> QED BY <2>5, <2>6, <2>7
<1> QED BY <1>7, <1>8, <1>9 DEF AsConfigured, fields, after
=============================================================================
