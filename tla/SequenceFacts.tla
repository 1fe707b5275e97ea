---------------------------- MODULE SequenceFacts ---------------------------
(***************************************************************************)
(* Facts about sequences that the proofs share.  Induction is over the set *)
(* of the lengths for which a fact holds, so it needs no operator as a     *)
(* parameter; FlattenSeq, a fold, is unrolled with it.                     *)
(***************************************************************************)
EXTENDS Integers, Sequences, SequencesExt, FiniteSetTheorems, SequenceTheorems,
    WellFoundedInduction, TLAPS

\* A finite set of integers that is not empty has a greatest element
LEMMA LastIndex ==
    ASSUME NEW I \in SUBSET Int, IsFiniteSet(I), I # {}
    PROVE  \E i \in I : \A j \in I : j <= i
<1> DEFINE Above(i) == {j \in I : i < j}
           F == {Above(i) : i \in I}
<1>1. IsWellFoundedOn(StrictSubsetOrdering(I), FiniteSubsetsOf(I))
  BY FS_StrictSubsetOrderingWellFounded
<1>2. F \subseteq FiniteSubsetsOf(I) /\ F # {}
  <2>1. \A i \in I : Above(i) \in SUBSET I /\ IsFiniteSet(Above(i))
    BY FS_Subset
  <2> QED BY <2>1 DEF FiniteSubsetsOf
<1>3. PICK U \in F : \A V \in F : ~(<<V, U>> \in StrictSubsetOrdering(I))
  <2> HIDE DEF F
  <2> QED BY <1>1, <1>2, WFMin
<1>4. PICK m \in I : U = Above(m)
  OBVIOUS
<1>5. ASSUME NEW k \in I, m < k PROVE FALSE
  <2>1. Above(k) \subseteq Above(m) /\ k \in Above(m) /\ k \notin Above(k)
    <3>1. \A j \in I : k < j => m < j
      BY <1>5
    <3>2. ~(k < k)
      OBVIOUS
    <3> QED BY <1>5, <3>1, <3>2
  <2>2. Above(k) # Above(m)
    BY <2>1
  <2>3. <<Above(k), Above(m)>> \in StrictSubsetOrdering(I)
    BY <2>1, <2>2 DEF StrictSubsetOrdering
  <2> QED BY <1>3, <1>4, <2>3
<1> QED BY <1>5

\* What Max makes of a finite set of numbers that has one
LEMMA MaxFacts ==
    ASSUME NEW I \in SUBSET Int, IsFiniteSet(I), I # {}
    PROVE  Max(I) \in I /\ \A j \in I : j <= Max(I)
<1> DEFINE Tops(i) == \A j \in I : i >= j
<1>1. \E i \in I : Tops(i)
  BY LastIndex
<1> DEFINE m == CHOOSE i \in I : Tops(i)
<1>2. m \in I /\ Tops(m)
  <2> HIDE DEF Tops
  <2> QED BY <1>1
<1> HIDE DEF m
<1>3. \A j \in I : j <= m
  BY <1>2
<1> QED BY <1>2, <1>3 DEF Max, m

\* What Min makes of a set of numbers that has one
LEMMA MinFacts ==
    ASSUME NEW n \in Nat, NEW I \in SUBSET (0 .. n), I # {}
    PROVE  Min(I) \in I /\ \A j \in I : Min(I) <= j
<1> DEFINE J == {i \in 0 .. n : \A j \in I : i <= j}
<1>1. J \in SUBSET Int /\ IsFiniteSet(J) /\ J # {}
  <2>1. IsFiniteSet(0 .. n)
    BY FS_Interval
  <2>2. 0 \in J /\ J \subseteq 0 .. n /\ 0 .. n \subseteq Int
    OBVIOUS
  <2> HIDE DEF J
  <2> QED BY <2>1, <2>2, FS_Subset
<1>2. PICK m \in J : \A j \in J : j <= m
  <2> HIDE DEF J
  <2> QED BY <1>1, LastIndex
<1>3. m \in I
  <2> SUFFICES ASSUME m \notin I PROVE FALSE
    OBVIOUS
  <2>1. m \in 0 .. n /\ \A j \in I : j \in 0 .. n /\ m <= j /\ m # j
    BY <1>2
  <2>2. \A j \in I : m + 1 <= j
    BY <2>1
  <2>3. m + 1 \in J
    <3>0. PICK e \in I : m + 1 <= e /\ e \in 0 .. n
      BY <2>1, <2>2
    <3>1. m + 1 \in 0 .. n
      BY <2>1, <3>0
    <3> QED BY <2>2, <3>1
  <2> QED BY <1>2, <2>1, <2>3
<1> DEFINE Least(i) == \A j \in I : i <= j
<1>4. Least(m)
  BY <1>2
<1>5. (CHOOSE i \in I : Least(i)) \in I /\ Least(CHOOSE i \in I : Least(i))
  <2> HIDE DEF Least
  <2> QED BY <1>3, <1>4
<1> QED BY <1>5 DEF Min

\* A set of numbers that has zero and the successor of each of its members
\* below n has them all up to n
LEMMA Induction ==
    ASSUME NEW n \in Nat, NEW S, 0 \in S, \A i \in 0 .. n - 1 : i \in S => i + 1 \in S
    PROVE  \A i \in 0 .. n : i \in S
<1> SUFFICES ASSUME NEW k \in 0 .. n, k \notin S PROVE FALSE
    OBVIOUS
<1> DEFINE I == {i \in 0 .. k : \A j \in 0 .. i : j \in S}
<1>1. I \in SUBSET Int /\ IsFiniteSet(I) /\ I # {}
  <2>1. IsFiniteSet(0 .. k)
    BY FS_Interval
  <2>2. 0 \in I
    OBVIOUS
  <2>3. I \subseteq 0 .. k /\ 0 .. k \subseteq Int
    OBVIOUS
  <2> HIDE DEF I
  <2> QED BY <2>1, <2>2, <2>3, FS_Subset
<1>2. PICK m \in I : \A j \in I : j <= m
  <2> HIDE DEF I
  <2> QED BY <1>1, LastIndex
<1>3. m \in S /\ m < k /\ m \in Nat
  BY <1>2
<1>4. m + 1 \in I
  BY <1>2, <1>3
<1> QED BY <1>2, <1>3, <1>4

\* Concatenation is associative, and nothing on either side changes nothing
LEMMA Joined ==
    ASSUME NEW S, NEW x \in Seq(S), NEW y \in Seq(S), NEW z \in Seq(S)
    PROVE  /\ (x \o y) \o z = x \o (y \o z)
           /\ x \o <<>> = x /\ <<>> \o x = x /\ x \o y \in Seq(S)
<1>1. (x \o y) \o z = x \o (y \o z)
  OBVIOUS
<1>2. x \o <<>> = x /\ <<>> \o x = x
  BY ConcatEmptySeq
<1> QED BY <1>1, <1>2

\* The running concatenations of the sequences in s
Runs(S, s, g) ==
    /\ g \in [0 .. Len(s) -> Seq(S)]
    /\ g[0] = <<>>
    /\ \A i \in 1 .. Len(s) : g[i] = g[i - 1] \o s[i]

\* They exist
LEMMA RunsExist ==
    ASSUME NEW S, NEW s \in Seq(Seq(S))
    PROVE  \E g : Runs(S, s, g)
<1> DEFINE R(n, g) == /\ g \in [0 .. n -> Seq(S)] /\ g[0] = <<>>
                      /\ \A i \in 1 .. n : g[i] = g[i - 1] \o s[i]
           T == {n \in 0 .. Len(s) : \E g : R(n, g)}
<1>1. 0 \in T
  <2>1. R(0, [i \in 0 .. 0 |-> <<>>])
    OBVIOUS
  <2>2. 0 \in 0 .. Len(s)
    OBVIOUS
  <2> HIDE DEF R
  <2> QED BY <2>1, <2>2
<1>2. ASSUME NEW n \in 0 .. Len(s) - 1, n \in T PROVE n + 1 \in T
  <2>1. PICK g : R(n, g)
    BY <1>2
  <2> DEFINE f == [i \in 0 .. n + 1 |-> IF i = n + 1 THEN g[n] \o s[n + 1] ELSE g[i]]
  <2>2. s[n + 1] \in Seq(S) /\ g[n] \in Seq(S)
    BY <2>1
  <2>3. f \in [0 .. n + 1 -> Seq(S)] /\ f[0] = <<>>
    BY <2>1, <2>2
  <2>4. ASSUME NEW i \in 1 .. n + 1 PROVE f[i] = f[i - 1] \o s[i]
    <3>1. CASE i = n + 1
      <4>1. f[n + 1] = g[n] \o s[n + 1] /\ f[n] = g[n] /\ (n + 1) - 1 = n
        <5>1. n \in 0 .. n + 1 /\ n + 1 \in 0 .. n + 1 /\ n # n + 1 /\ (n + 1) - 1 = n
          OBVIOUS
        <5> QED BY <5>1
      <4> HIDE DEF f
      <4> QED BY <3>1, <4>1
    <3>2. CASE i # n + 1
      <4>1. i \in 1 .. n /\ f[i] = g[i] /\ f[i - 1] = g[i - 1]
        BY <3>2
      <4> QED BY <2>1, <4>1
    <3> QED BY <3>1, <3>2
  <2>5. R(n + 1, f)
    BY <2>3, <2>4
  <2>6. n + 1 \in 0 .. Len(s)
    OBVIOUS
  <2> HIDE DEF R, f
  <2> QED BY <2>5, <2>6
<1>3. Len(s) \in Nat
  OBVIOUS
<1>4. \A n \in 0 .. Len(s) : n \in T
  <2> HIDE DEF T
  <2> QED BY <1>1, <1>2, <1>3, Induction
<1>5. PICK g : R(Len(s), g)
  <2>1. Len(s) \in T
    <3> HIDE DEF T
    <3> QED BY <1>3, <1>4
  <2> HIDE DEF R
  <2> QED BY <2>1
<1> QED BY <1>5 DEF Runs

\* FlattenSeq is the last of them
LEMMA FlattenIs ==
    ASSUME NEW S, NEW s \in Seq(Seq(S)), NEW g, Runs(S, s, g)
    PROVE  FlattenSeq(s) = g[Len(s)]
<1> DEFINE Eq(f) == f = [i \in 1 .. Len(s) |-> IF i = 1 THEN s[i] ELSE f[i - 1] \o s[i]]
           h == [i \in 1 .. Len(s) |-> g[i]]
<1>1. CASE Len(s) = 0
  <2>1. s = <<>> /\ Len(<<>>) = 0
    BY <1>1
  <2> QED BY <2>1 DEF FlattenSeq, Runs
<1>2. CASE Len(s) # 0
  <2>1. Eq(h)
    <3>1. ASSUME NEW i \in 1 .. Len(s) PROVE h[i] = IF i = 1 THEN s[i] ELSE h[i - 1] \o s[i]
      <4>1. CASE i = 1
        <5>1. s[1] \in Seq(S) /\ 1 \in 1 .. Len(s)
          BY <4>1
        <5>2. <<>> \o s[1] = s[1]
          BY <5>1, ConcatEmptySeq
        <5>3. g[1] = g[1 - 1] \o s[1] /\ g[0] = <<>>
          BY <5>1 DEF Runs
        <5>4. h[1] = g[1] /\ 1 - 1 = 0
          BY <5>1
        <5> HIDE DEF h
        <5> QED BY <4>1, <5>2, <5>3, <5>4
      <4>2. CASE i # 1
        <5>1. i - 1 \in 1 .. Len(s) /\ h[i] = g[i] /\ h[i - 1] = g[i - 1]
          BY <4>2
        <5>2. g[i] = g[i - 1] \o s[i]
          BY DEF Runs
        <5> QED BY <4>2, <5>1, <5>2
      <4> QED BY <4>1, <4>2
    <3> QED BY <3>1
  <2>2. ASSUME NEW f, Eq(f) PROVE f[Len(s)] = h[Len(s)]
    <3> DEFINE T == {i \in 0 .. Len(s) : i = 0 \/ f[i] = h[i]}
    <3>1. 0 \in T
      OBVIOUS
    <3>2. ASSUME NEW i \in 0 .. Len(s) - 1, i \in T PROVE i + 1 \in T
      <4>1. f[i + 1] = IF i + 1 = 1 THEN s[i + 1] ELSE f[i] \o s[i + 1]
        <5>1. i + 1 \in 1 .. Len(s) /\ (i + 1) - 1 = i
          OBVIOUS
        <5> QED BY <2>2, <5>1
      <4>2. h[i + 1] = IF i + 1 = 1 THEN s[i + 1] ELSE h[i] \o s[i + 1]
        <5>1. i + 1 \in 1 .. Len(s) /\ (i + 1) - 1 = i
          OBVIOUS
        <5> HIDE DEF h
        <5> QED BY <2>1, <5>1
      <4> HIDE DEF h
      <4> QED BY <3>2, <4>1, <4>2
    <3>3. Len(s) \in Nat
      OBVIOUS
    <3>4. \A i \in 0 .. Len(s) : i \in T
      <4> HIDE DEF T
      <4> QED BY <3>1, <3>2, <3>3, Induction
    <3>5. Len(s) \in T
      <4> HIDE DEF T
      <4> QED BY <3>3, <3>4
    <3> QED BY <1>2, <3>5
  <2>3. FlattenSeq(s) = (CHOOSE f : Eq(f))[Len(s)]
    BY <1>2 DEF FlattenSeq
  <2>4. Eq(CHOOSE f : Eq(f))
    BY <2>1
  <2>5. h[Len(s)] = g[Len(s)]
    BY <1>2
  <2> HIDE DEF Eq
  <2> QED BY <2>2, <2>3, <2>4, <2>5
<1> QED BY <1>1, <1>2

\* Flattening nothing, and what one more sequence adds at the end
LEMMA FlattenAppend ==
    ASSUME NEW S, NEW s \in Seq(Seq(S)), NEW x \in Seq(S)
    PROVE  /\ FlattenSeq(s) \in Seq(S)
           /\ s = <<>> => FlattenSeq(s) = <<>>
           /\ Append(s, x) \in Seq(Seq(S))
           /\ FlattenSeq(Append(s, x)) = FlattenSeq(s) \o x
<1> DEFINE n == Len(s)
           t == Append(s, x)
<1>1. n \in Nat /\ t \in Seq(Seq(S)) /\ Len(t) = n + 1 /\ t[n + 1] = x
      /\ \A i \in 1 .. n : t[i] = s[i]
  OBVIOUS
<1>2. PICK g : Runs(S, s, g)
  BY RunsExist
<1>3. FlattenSeq(s) = g[n] /\ g[n] \in Seq(S) /\ g[0] = <<>>
  <2>1. FlattenSeq(s) = g[n]
    BY <1>2, FlattenIs
  <2>2. n \in 0 .. n
    BY <1>1
  <2> QED BY <1>2, <2>1, <2>2 DEF Runs
<1>4. PICK h : Runs(S, t, h)
  BY <1>1, RunsExist
<1>5. FlattenSeq(t) = h[n + 1]
  BY <1>1, <1>4, FlattenIs
<1> HIDE DEF t, n
<1>6. \A i \in 0 .. n : h[i] = g[i]
  <2> DEFINE T == {i \in 0 .. n : h[i] = g[i]}
  <2>1. 0 \in T
    BY <1>1, <1>2, <1>4 DEF Runs
  <2>2. ASSUME NEW i \in 0 .. n - 1, i \in T PROVE i + 1 \in T
    <3>1. i + 1 \in 1 .. n /\ i + 1 \in 1 .. n + 1 /\ (i + 1) - 1 = i /\ i + 1 \in 0 .. n
      BY <1>1
    <3>2. h[i + 1] = h[i] \o t[i + 1] /\ g[i + 1] = g[i] \o s[i + 1]
      BY <1>1, <1>2, <1>4, <3>1 DEF Runs, n
    <3> QED BY <1>1, <2>2, <3>1, <3>2
  <2>3. \A i \in 0 .. n : i \in T
    <3> HIDE DEF T
    <3> QED BY <1>1, <2>1, <2>2, Induction
  <2> QED BY <2>3
<1>7. h[n + 1] = h[n] \o x
  <2>1. n + 1 \in 1 .. Len(t) /\ (n + 1) - 1 = n
    BY <1>1
  <2> QED BY <1>1, <1>4, <2>1 DEF Runs
<1>8. n \in 0 .. n
  BY <1>1
<1>9. s = <<>> => n = 0
  BY DEF n
<1> QED BY <1>1, <1>3, <1>5, <1>6, <1>7, <1>8, <1>9 DEF t

\* The first of the sequences comes first
LEMMA FlattenTail ==
    ASSUME NEW S, NEW s \in Seq(Seq(S)), s # <<>>
    PROVE  /\ Tail(s) \in Seq(Seq(S)) /\ Head(s) \in Seq(S)
           /\ FlattenSeq(s) = Head(s) \o FlattenSeq(Tail(s))
<1> DEFINE n == Len(s) - 1
           t == Tail(s)
<1>0. \A x, y, z \in Seq(S) : (x \o y) \o z = x \o (y \o z)
  BY SMTT(30), Joined
<1>1. /\ n \in Nat /\ t \in Seq(Seq(S)) /\ Len(t) = n /\ Head(s) = s[1] /\ s[1] \in Seq(S)
      /\ Len(s) = n + 1
      /\ \A i \in 1 .. n : t[i] = s[i + 1] /\ t[i] \in Seq(S)
  OBVIOUS
<1>2. PICK g : Runs(S, s, g)
  BY RunsExist
<1>3. PICK h : Runs(S, t, h)
  BY <1>1, RunsExist
<1>4. FlattenSeq(s) = g[n + 1] /\ FlattenSeq(t) = h[n]
  BY <1>1, <1>2, <1>3, FlattenIs
<1> HIDE DEF t, n
<1>5. \A i \in 0 .. n : h[i] \in Seq(S)
  BY <1>1, <1>3 DEF Runs
<1>6. \A i \in 0 .. n : g[i + 1] = s[1] \o h[i]
  <2> DEFINE T == {i \in 0 .. n : g[i + 1] = s[1] \o h[i]}
  <2>1. 0 \in T
    <3>1. 1 \in 1 .. Len(s) /\ 0 + 1 = 1 /\ 1 - 1 = 0 /\ 0 \in 0 .. n
      BY <1>1
    <3>2. g[1] = <<>> \o s[1] /\ h[0] = <<>>
      BY <1>2, <1>3, <3>1 DEF Runs
    <3>3. s[1] \o <<>> = s[1] /\ <<>> \o s[1] = s[1]
      BY <1>1, ConcatEmptySeq
    <3> QED BY <3>1, <3>2, <3>3
  <2>2. ASSUME NEW i \in 0 .. n - 1, i \in T PROVE i + 1 \in T
    <3>1. /\ i + 1 \in 1 .. n /\ (i + 1) - 1 = i /\ i + 1 \in 0 .. n /\ i \in 0 .. n
          /\ (i + 1) + 1 \in 1 .. Len(s) /\ ((i + 1) + 1) - 1 = i + 1
      BY <1>1
    <3>2. g[(i + 1) + 1] = g[i + 1] \o s[(i + 1) + 1]
      BY <1>2, <3>1 DEF Runs
    <3>3. h[i + 1] = h[i] \o t[i + 1]
      BY <1>1, <1>3, <3>1 DEF Runs
    <3>4. s[(i + 1) + 1] = t[i + 1] /\ t[i + 1] \in Seq(S) /\ h[i] \in Seq(S)
      BY <1>1, <1>5, <3>1
    <3>5. (s[1] \o h[i]) \o t[i + 1] = s[1] \o (h[i] \o t[i + 1])
      <4>1. s[1] \in Seq(S)
        BY <1>1
      <4> QED BY <1>0, <3>4, <4>1, Zenon
    <3> QED BY <2>2, <3>1, <3>2, <3>3, <3>4, <3>5
  <2>3. \A i \in 0 .. n : i \in T
    <3> HIDE DEF T
    <3> QED BY <1>1, <2>1, <2>2, Induction
  <2> QED BY <2>3
<1>7. n \in 0 .. n
  BY <1>1
<1> QED BY <1>1, <1>4, <1>6, <1>7 DEF t

\* Where each of the sequences ends up: the i-th is the piece behind b[i - 1] up
\* to b[i], and every position is of some piece
LEMMA FlattenPieces ==
    ASSUME NEW S, NEW s \in Seq(Seq(S))
    PROVE  \E b \in [0 .. Len(s) -> Nat] :
             /\ b[0] = 0 /\ b[Len(s)] = Len(FlattenSeq(s))
             /\ \A i \in 1 .. Len(s) : b[i] = b[i - 1] + Len(s[i])
             /\ \A i, j \in 0 .. Len(s) : i <= j => b[i] <= b[j]
             /\ \A i \in 1 .. Len(s) : \A j \in 1 .. Len(s[i]) :
                  FlattenSeq(s)[b[i - 1] + j] = s[i][j]
             /\ \A k \in 1 .. Len(FlattenSeq(s)) :
                  \E i \in 1 .. Len(s) : b[i - 1] < k /\ k <= b[i]
<1> DEFINE n == Len(s)
<1>0. n \in Nat /\ \A i \in 1 .. n : s[i] \in Seq(S) /\ Len(s[i]) \in Nat
  OBVIOUS
<1>1. PICK g : Runs(S, s, g)
  BY RunsExist
<1>2. FlattenSeq(s) = g[n]
  BY <1>1, FlattenIs
<1> DEFINE b == [i \in 0 .. n |-> Len(g[i])]
<1>3. g \in [0 .. n -> Seq(S)] /\ g[0] = <<>> /\ \A i \in 1 .. n : g[i] = g[i - 1] \o s[i]
  BY <1>1 DEF Runs
<1> HIDE DEF n
<1>4. /\ b \in [0 .. n -> Nat] /\ b[0] = 0 /\ b[n] = Len(g[n])
      /\ \A i \in 0 .. n : b[i] = Len(g[i]) /\ b[i] \in Nat /\ g[i] \in Seq(S)
  BY <1>0, <1>3
<1> HIDE DEF b
<1>5. ASSUME NEW i \in 1 .. n
      PROVE  /\ b[i] = b[i - 1] + Len(s[i])
             /\ \A k \in 1 .. b[i - 1] : g[i][k] = g[i - 1][k]
             /\ \A j \in 1 .. Len(s[i]) : g[i][b[i - 1] + j] = s[i][j]
  <2>1. i - 1 \in 0 .. n /\ i \in 0 .. n
    BY <1>0
  <2>2. /\ g[i - 1] \in Seq(S) /\ s[i] \in Seq(S) /\ g[i] = g[i - 1] \o s[i]
        /\ b[i - 1] = Len(g[i - 1]) /\ b[i] = Len(g[i]) /\ Len(s[i]) \in Nat
        /\ b[i - 1] \in Nat
    BY <1>0, <1>3, <1>4, <2>1
  <2>3. Len(g[i]) = Len(g[i - 1]) + Len(s[i])
    BY <2>2, ConcatProperties
  <2>4. \A k \in 1 .. Len(g[i - 1]) + Len(s[i]) :
          g[i][k] = IF k <= Len(g[i - 1]) THEN g[i - 1][k] ELSE s[i][k - Len(g[i - 1])]
    BY <2>2, ConcatProperties
  <2>5. ASSUME NEW j \in 1 .. Len(s[i]) PROVE g[i][b[i - 1] + j] = s[i][j]
    <3> DEFINE l == Len(g[i - 1])
               e == Len(s[i])
    <3>0. l \in Nat /\ e \in Nat /\ b[i - 1] = l /\ j \in 1 .. e
      BY <2>2
    <3> HIDE DEF l, e
    <3>1. /\ b[i - 1] + j \in 1 .. l + e
          /\ ~(b[i - 1] + j <= l) /\ (b[i - 1] + j) - l = j
      BY <3>0
    <3> USE DEF l, e
    <3> QED BY <2>4, <3>1
  <2>6. ASSUME NEW k \in 1 .. b[i - 1] PROVE g[i][k] = g[i - 1][k]
    <3> DEFINE l == Len(g[i - 1])
               e == Len(s[i])
    <3>0. l \in Nat /\ e \in Nat /\ b[i - 1] = l
      BY <2>2
    <3> HIDE DEF l, e
    <3>1. k \in 1 .. l + e /\ k <= l
      BY <3>0
    <3> USE DEF l, e
    <3> QED BY <2>4, <3>1
  <2> QED BY <2>2, <2>3, <2>5, <2>6
<1>6. \A m \in 0 .. n : /\ \A i \in 0 .. m : b[i] <= b[m]
                        /\ \A i \in 1 .. m : \A j \in 1 .. Len(s[i]) : g[m][b[i - 1] + j] = s[i][j]
                        /\ \A k \in 1 .. b[m] : \E i \in 1 .. m : b[i - 1] < k /\ k <= b[i]
  <2> DEFINE P(m) == /\ \A i \in 0 .. m : b[i] <= b[m]
                     /\ \A i \in 1 .. m : \A j \in 1 .. Len(s[i]) : g[m][b[i - 1] + j] = s[i][j]
                     /\ \A k \in 1 .. b[m] : \E i \in 1 .. m : b[i - 1] < k /\ k <= b[i]
             T == {m \in 0 .. n : P(m)}
  <2>1. 0 \in T
    BY <1>0, <1>4
  <2>2. ASSUME NEW m \in 0 .. n - 1, m \in T PROVE m + 1 \in T
    <3>0. m \in Nat /\ m + 1 \in 1 .. n /\ m + 1 \in 0 .. n /\ (m + 1) - 1 = m /\ m \in 0 .. n
      BY <1>0
    <3>1. /\ b[m + 1] = b[m] + Len(s[m + 1]) /\ Len(s[m + 1]) \in Nat
          /\ b[m] \in Nat /\ b[m + 1] \in Nat
          /\ \A k \in 1 .. b[m] : g[m + 1][k] = g[m][k]
          /\ \A j \in 1 .. Len(s[m + 1]) : g[m + 1][b[m] + j] = s[m + 1][j]
      <4>1. /\ b[m + 1] = b[(m + 1) - 1] + Len(s[m + 1])
            /\ \A k \in 1 .. b[(m + 1) - 1] : g[m + 1][k] = g[(m + 1) - 1][k]
            /\ \A j \in 1 .. Len(s[m + 1]) : g[m + 1][b[(m + 1) - 1] + j] = s[m + 1][j]
        BY <1>5, <3>0
      <4>2. Len(s[m + 1]) \in Nat /\ b[m] \in Nat /\ b[m + 1] \in Nat
        BY <1>0, <1>4, <3>0
      <4> QED BY <3>0, <4>1, <4>2
    <3>2. P(m)
      BY <2>2
    <3>3. ASSUME NEW i \in 0 .. m + 1 PROVE b[i] <= b[m + 1]
      <4>1. CASE i = m + 1
        BY <3>1, <4>1
      <4>2. CASE i # m + 1
        <5>0. i \in 0 .. m /\ i \in 0 .. n
          BY <1>0, <3>0, <4>2
        <5>1. i \in 0 .. m /\ i \in 0 .. n /\ b[i] \in Nat
          BY <1>4, <5>0
        <5>2. b[i] <= b[m]
          BY <3>2, <5>1
        <5> QED BY <3>1, <5>1, <5>2
      <4> QED BY <4>1, <4>2
    <3>4. ASSUME NEW i \in 1 .. m + 1, NEW j \in 1 .. Len(s[i])
          PROVE  g[m + 1][b[i - 1] + j] = s[i][j]
      <4>1. CASE i = m + 1
        BY <3>0, <3>1, <4>1
      <4>2. CASE i # m + 1
        <5>1. i \in 1 .. m /\ i \in 1 .. n /\ i \in 0 .. m /\ i - 1 \in 0 .. n
              /\ i \in 0 .. n
          BY <1>0, <3>0, <4>2
        <5>2. b[i] = b[i - 1] + Len(s[i]) /\ b[i] <= b[m] /\ b[i - 1] \in Nat /\ b[i] \in Nat
              /\ Len(s[i]) \in Nat
          BY <1>0, <1>4, <1>5, <3>0, <3>2, <5>1
        <5>3. b[i - 1] + j \in 1 .. b[m]
          <6>1. j \in 1 .. Len(s[i]) /\ b[m] \in Nat
            BY <3>1
          <6> QED BY SMTT(30), <5>2, <6>1
        <5>4. g[m][b[i - 1] + j] = s[i][j]
          BY <3>2, <5>1
        <5> QED BY <3>1, <5>3, <5>4
      <4> QED BY <4>1, <4>2
    <3>5. ASSUME NEW k \in 1 .. b[m + 1]
          PROVE  \E i \in 1 .. m + 1 : b[i - 1] < k /\ k <= b[i]
      <4>1. CASE k <= b[m]
        <5>1. PICK i \in 1 .. m : b[i - 1] < k /\ k <= b[i]
          BY <3>1, <3>2, <4>1
        <5> QED BY <3>0, <5>1
      <4>2. CASE ~(k <= b[m])
        <5>1. m + 1 \in 1 .. m + 1 /\ b[m] < k /\ k <= b[m + 1]
          BY <3>0, <3>1, <4>2
        <5> QED BY <3>0, <5>1
      <4> QED BY <4>1, <4>2
    <3>6. P(m + 1)
      BY <3>3, <3>4, <3>5
    <3> HIDE DEF P
    <3> QED BY <3>0, <3>6
  <2>3. \A m \in 0 .. n : m \in T
    <3> HIDE DEF T
    <3> QED BY <1>0, <2>1, <2>2, Induction
  <2> QED BY <2>3
<1>7. n \in 0 .. n
  BY <1>0
<1>8. \A i, j \in 0 .. n : i <= j => b[i] <= b[j]
  <2> SUFFICES ASSUME NEW i \in 0 .. n, NEW j \in 0 .. n, i <= j PROVE b[i] <= b[j]
    OBVIOUS
  <2>1. i \in 0 .. j
    BY <1>0
  <2> QED BY <1>6, <2>1
<1>9. /\ \A i \in 1 .. n : b[i] = b[i - 1] + Len(s[i])
      /\ \A i \in 1 .. n : \A j \in 1 .. Len(s[i]) : g[n][b[i - 1] + j] = s[i][j]
      /\ \A k \in 1 .. b[n] : \E i \in 1 .. n : b[i - 1] < k /\ k <= b[i]
  BY <1>5, <1>6, <1>7
<1>10. /\ b[0] = 0 /\ b[n] = Len(FlattenSeq(s))
       /\ \A i \in 1 .. n : \A j \in 1 .. Len(s[i]) : FlattenSeq(s)[b[i - 1] + j] = s[i][j]
       /\ \A k \in 1 .. Len(FlattenSeq(s)) : \E i \in 1 .. n : b[i - 1] < k /\ k <= b[i]
  BY <1>2, <1>4, <1>9
<1> QED BY <1>4, <1>8, <1>9, <1>10 DEF n

\* Empty sequences, and behind them nothing but sequences of one
LEMMA FlattenRest ==
    ASSUME NEW S, NEW x \in Seq(S), NEW s \in Seq(Seq(S)), NEW e \in 0 .. Len(s),
           Len(x) = Len(s) - e,
           \A i \in 1 .. Len(s) : i <= e => s[i] = <<>>,
           \A i \in 1 .. Len(s) : i > e => s[i] = <<x[i - e]>>
    PROVE  FlattenSeq(s) = x
<1> DEFINE n == Len(s)
           f == FlattenSeq(s)
<1>0. n \in Nat /\ e \in Nat /\ e <= n /\ Len(x) = n - e
  OBVIOUS
<1>1. PICK b \in [0 .. n -> Nat] :
          /\ b[0] = 0 /\ b[n] = Len(f)
          /\ \A i \in 1 .. n : b[i] = b[i - 1] + Len(s[i])
          /\ \A i, j \in 0 .. n : i <= j => b[i] <= b[j]
          /\ \A i \in 1 .. n : \A j \in 1 .. Len(s[i]) : f[b[i - 1] + j] = s[i][j]
          /\ \A k \in 1 .. Len(f) : \E i \in 1 .. n : b[i - 1] < k /\ k <= b[i]
  BY FlattenPieces, Zenon
<1>2. f \in Seq(S)
  <2>1. <<>> \in Seq(S)
    OBVIOUS
  <2> QED BY <2>1, FlattenAppend
<1>3. ASSUME NEW i \in 1 .. n
      PROVE  /\ i <= e => Len(s[i]) = 0
             /\ i > e => Len(s[i]) = 1 /\ s[i][1] = x[i - e]
  <2>1. \A y : Len(<<y>>) = 1 /\ <<y>>[1] = y
    OBVIOUS
  <2>2. Len(<<>>) = 0
    OBVIOUS
  <2>3. (i <= e => s[i] = <<>>) /\ (i > e => s[i] = <<x[i - e]>>)
    OBVIOUS
  <2> QED BY <2>1, <2>2, <2>3, Zenon
<1> HIDE DEF n, f
<1>4. \A i \in 0 .. n : b[i] = IF i <= e THEN 0 ELSE i - e
  <2> DEFINE T == {i \in 0 .. n : b[i] = IF i <= e THEN 0 ELSE i - e}
  <2>1. 0 \in T
    BY <1>0, <1>1
  <2>2. ASSUME NEW i \in 0 .. n - 1, i \in T PROVE i + 1 \in T
    <3>1. i + 1 \in 1 .. n /\ (i + 1) - 1 = i /\ i + 1 \in 0 .. n
      BY <1>0
    <3>2. b[i + 1] = b[i] + Len(s[i + 1])
      BY <1>1, <3>1
    <3>3. CASE i + 1 <= e
      <4>1. Len(s[i + 1]) = 0 /\ b[i] = 0
        BY <1>0, <1>3, <2>2, <3>1, <3>3
      <4> QED BY <3>1, <3>2, <3>3, <4>1
    <3>4. CASE ~(i + 1 <= e)
      <4>1. Len(s[i + 1]) = 1
        BY <1>0, <1>3, <3>1, <3>4
      <4>2. b[i] = i - e
        BY <1>0, <2>2, <3>4
      <4> QED BY <1>0, <3>1, <3>2, <3>4, <4>1, <4>2
    <3> QED BY <3>3, <3>4
  <2>3. \A i \in 0 .. n : i \in T
    <3> HIDE DEF T
    <3> QED BY <1>0, <2>1, <2>2, Induction
  <2> QED BY <2>3
<1>5. Len(f) = n - e
  <2>1. n \in 0 .. n
    BY <1>0
  <2>2. Len(f) = IF n <= e THEN 0 ELSE n - e
    BY <1>1, <1>4, <2>1
  <2> QED BY <1>0, <2>2
<1>6. ASSUME NEW i \in 1 .. n - e PROVE f[i] = x[i]
  <2>1. /\ i + e \in 1 .. n /\ i + e > e /\ (i + e) - 1 \in 0 .. n /\ (i + e) - e = i
        /\ (i - 1) + 1 = i /\ ((i + e) - 1 <= e => i = 1) /\ ((i + e) - 1) - e = i - 1
    BY <1>0
  <2>2. Len(s[i + e]) = 1 /\ s[i + e][1] = x[i]
    BY <1>3, <2>1
  <2>3. f[b[(i + e) - 1] + 1] = s[i + e][1]
    <3>1. 1 \in 1 .. Len(s[i + e])
      BY <2>2
    <3>2. \A j \in 1 .. Len(s[i + e]) : f[b[(i + e) - 1] + j] = s[i + e][j]
      BY <1>1, <2>1
    <3> QED BY <3>1, <3>2
  <2>4. b[(i + e) - 1] = i - 1
    BY <1>0, <1>4, <2>1
  <2> QED BY <2>1, <2>2, <2>3, <2>4
<1> QED BY <1>0, <1>2, <1>5, <1>6, SeqEqual DEF f
==============================================================================
