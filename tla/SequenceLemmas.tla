---------------------------- MODULE SequenceLemmas -----------------------------
(***************************************************************************)
(* Facts about numbers and sequences on which the proofs of several        *)
(* modules rest.  Induction is over a set, not over an operator.           *)
(***************************************************************************)
EXTENDS Lists, SequencesExt, FiniteSetTheorems, SequenceTheorems,
        WellFoundedInduction, TLAPS

LEMMA Minimum ==
  ASSUME NEW S \in SUBSET Nat, S # {}
  PROVE \E x \in S : \A y \in S : x <= y
<1> DEFINE R == OpToRel(<, Nat)
<1>1. IsWellFoundedOn(R, Nat)
  BY NatLessThanWellFounded
<1>2. \A m, n \in Nat : m < n => <<m, n>> \in R
  BY DEF OpToRel
<1> HIDE DEF R
<1>3. PICK x \in S : \A y \in S : ~ (<<y, x>> \in R)
  BY <1>1, WFMin, Zenon
<1>4. \A y \in S : ~ (y < x)
  BY <1>2, <1>3
<1> QED  BY <1>4

LEMMA NatSetInduction ==
  ASSUME NEW S, 0 \in S, \A n \in Nat : n \in S => n + 1 \in S
  PROVE Nat \subseteq S
<1> SUFFICES ASSUME Nat \ S # {} PROVE FALSE
  OBVIOUS
<1>1. PICK x \in Nat \ S : \A y \in Nat \ S : x <= y
  BY Minimum
<1>2. x # 0
  OBVIOUS
<1>3. x - 1 \in Nat /\ ~ (x <= x - 1) /\ x = (x - 1) + 1
  BY <1>2
<1> QED  BY <1>1, <1>3

(* From 0 to a bound.                                                          *)
LEMMA UpTo ==
  ASSUME NEW N \in Nat, NEW S, 0 \in S, \A n \in 1 .. N : n - 1 \in S => n \in S
  PROVE \A n \in 0 .. N : n \in S
<1> DEFINE T == {n \in Nat : n <= N => n \in S}
<1>1. 0 \in T
  OBVIOUS
<1>2. ASSUME NEW n \in Nat, n \in T PROVE n + 1 \in T
  <2> SUFFICES ASSUME n + 1 <= N PROVE n + 1 \in S
    OBVIOUS
  <2>1. n + 1 \in 1 .. N /\ (n + 1) - 1 = n /\ n <= N
    OBVIOUS
  <2>2. n \in S
    BY <1>2, <2>1
  <2> QED  BY <2>1, <2>2
<1>3. Nat \subseteq T
  <2> HIDE DEF T
  <2> QED  BY <1>1, <1>2, NatSetInduction
<1> QED  BY <1>3

--------------------------------------------------------------------------------
(* A finite set as a sequence.                                                 *)

LEMMA SetAsSeq ==
  ASSUME NEW S, IsFiniteSet(S)
  PROVE LET q == SetToSeq(S) IN
        /\ q \in Seq(S) /\ DOMAIN q = 1 .. Len(q) /\ Len(q) \in Nat
        /\ \A j, k \in 1 .. Len(q) : q[j] = q[k] => j = k
        /\ S = {q[j] : j \in 1 .. Len(q)}
<1> DEFINE m == Cardinality(S)  q == SetToSeq(S)
<1>1. m \in Nat /\ ExistsBijection(1 .. m, S)
  BY FS_CardinalityType
<1>2. PICK f : f \in Bijection(1 .. m, S)
  BY <1>1 DEF ExistsBijection
<1>3. f \in [1 .. m -> S] /\ IsInjective(f)
  BY <1>2 DEF Bijection, Injection, IsInjective
<1>4. q \in [1 .. m -> S] /\ IsInjective(q)
  BY <1>3 DEF SetToSeq
<1> HIDE DEF q
<1>5. q \in Seq(S) /\ Len(q) = m /\ DOMAIN q = 1 .. m
  BY <1>1, <1>4
<1>6. q \in Injection(1 .. m, S)
  BY <1>4 DEF Injection, IsInjective
<1>7. q \in Surjection(1 .. m, S)
  <2>1. IsFiniteSet(1 .. m) /\ Cardinality(1 .. m) = m
    BY <1>1, FS_Interval
  <2> QED  BY <1>6, <2>1, FS_Injection
<1>8. S = {q[j] : j \in 1 .. m}
  BY <1>4, <1>7 DEF Surjection
<1> QED  BY <1>1, <1>4, <1>5, <1>8 DEF q, IsInjective

--------------------------------------------------------------------------------
(* FlattenSeq, sequence by sequence.                                           *)

LEMMA Flattening ==
  ASSUME NEW S, NEW qs \in Seq(Seq(S))
  PROVE \E flat : /\ flat \in [0 .. Len(qs) -> Seq(S)]
                  /\ flat[0] = <<>>
                  /\ \A n \in 1 .. Len(qs) : flat[n] = flat[n - 1] \o qs[n]
                  /\ FlattenSeq(qs) = flat[Len(qs)]
<1> DEFINE N == Len(qs)
           Said(g, n) == IF n = 1 THEN qs[n] ELSE g[n - 1] \o qs[n]
           IsWalk(g, m) == g = [n \in 1 .. m |-> Said(g, n)]
           Walked == {m \in Nat : \E g : IsWalk(g, m)}
<1>1. N \in Nat /\ DOMAIN qs = 1 .. N /\ \A n \in 1 .. N : qs[n] \in Seq(S)
  BY LenProperties, ElementOfSeq
<1>2. ASSUME NEW g, NEW h, NEW n \in Nat, \A m \in 1 .. n - 1 : g[m] = h[m], n # 0
      PROVE Said(g, n) = Said(h, n)
  <2>1. CASE n = 1
    BY <2>1
  <2>2. CASE n # 1
    <3>1. n - 1 \in 1 .. n - 1
      BY <1>2, <2>2
    <3>2. g[n - 1] = h[n - 1]
      BY <3>1, <1>2
    <3> QED  BY <3>2
  <2> QED  BY <2>1, <2>2
<1>3. 0 \in Walked
  <2>1. IsWalk(<<>>, 0)
    <3> HIDE DEF Said
    <3> QED  OBVIOUS
  <2> HIDE DEF IsWalk
  <2> QED  BY <2>1
<1>4. ASSUME NEW m \in Nat, m \in Walked PROVE m + 1 \in Walked
  <2>1. PICK g : IsWalk(g, m)
    <3> HIDE DEF IsWalk
    <3> QED  BY <1>4
  <2> DEFINE h == [n \in 1 .. m + 1 |-> Said(g, n)]
  <2>2. \A n \in 1 .. m : h[n] = g[n]
    <3> HIDE DEF Said
    <3> QED  BY <2>1
  <2>3. ASSUME NEW n \in 1 .. m + 1 PROVE Said(g, n) = Said(h, n)
    <3>1. \A j \in 1 .. n - 1 : g[j] = h[j]
      <4> HIDE DEF h, Said
      <4> QED  BY <2>2
    <3> HIDE DEF h, Said
    <3> QED  BY <3>1, <1>2
  <2>4. h = [n \in 1 .. m + 1 |-> Said(h, n)]
    <3> HIDE DEF Said
    <3> QED  BY <2>3
  <2> HIDE DEF h
  <2>5. \E k : IsWalk(k, m + 1)
    BY <2>4
  <2> HIDE DEF IsWalk
  <2> QED  BY <2>5
<1>5. N \in Walked
  <2> HIDE DEF Walked
  <2> QED  BY <1>1, <1>3, <1>4, NatSetInduction
<1>6. PICK g : IsWalk(g, N)
  <2> HIDE DEF IsWalk
  <2> QED  BY <1>5
<1> DEFINE flatten == CHOOSE h : h = [n \in 1 .. N |-> Said(h, n)]
           flat == [n \in 0 .. N |-> IF n = 0 THEN <<>> ELSE flatten[n]]
<1>7. FlattenSeq(qs) = IF N = 0 THEN qs ELSE flatten[N]
  BY DEF FlattenSeq
<1>8. flatten = [n \in 1 .. N |-> Said(flatten, n)]
  <2>1. g = [n \in 1 .. N |-> Said(g, n)]
    BY <1>6
  <2> HIDE DEF Said
  <2> QED  BY <2>1
<1> HIDE DEF flatten
<1>9. \A n \in 1 .. N : flatten[n] = Said(flatten, n)
  <2> HIDE DEF Said
  <2> QED  BY <1>8
<1>10. ASSUME NEW n \in 1 .. N PROVE flat[n] = flat[n - 1] \o qs[n]
  <2>1. flat[n] = flatten[n] /\ n - 1 \in 0 .. N
    BY <1>1
  <2>2. CASE n = 1
    <3>1. flat[n] = qs[n] /\ flat[n - 1] = <<>>
      BY <1>1, <1>9, <2>2
    <3> QED  BY <3>1, <1>1, ConcatEmptySeq
  <2>3. CASE n # 1
    <3>1. flat[n - 1] = flatten[n - 1]
      BY <1>1, <2>1, <2>3
    <3> QED  BY <1>9, <2>1, <2>3, <3>1
  <2> QED  BY <2>2, <2>3
<1>11. flat[0] = <<>> /\ DOMAIN flat = 0 .. N
  BY <1>1
<1>12. FlattenSeq(qs) = flat[N]
  <2>1. N = 0 => qs = <<>>
    BY <1>1, EmptySeq
  <2> QED  BY <1>1, <1>7, <2>1
<1> DEFINE Typed == {n \in 0 .. N : flat[n] \in Seq(S)}
<1>13. flat \in [0 .. N -> Seq(S)]
  <2>1. \A n \in 0 .. N : n \in Typed
    <3>1. 0 \in Typed
      BY <1>1, <1>11, EmptySeq
    <3>2. ASSUME NEW n \in 1 .. N, n - 1 \in Typed PROVE n \in Typed
      <4>1. flat[n - 1] \in Seq(S)
        BY <3>2
      <4> HIDE DEF flat
      <4>2. flat[n] \in Seq(S)
        BY <1>1, <1>10, <4>1, ConcatProperties
      <4> QED  BY <1>1, <4>2
    <3> HIDE DEF Typed
    <3> QED  BY <1>1, <3>1, <3>2, UpTo
  <2> HIDE DEF flat
  <2>2. \A n \in 0 .. N : flat[n] \in Seq(S)
    BY <2>1
  <2> QED  BY <2>2 DEF flat
<1> HIDE DEF flat
<1> QED  BY <1>10, <1>11, <1>12, <1>13

LEMMA FlattenConcat ==
  ASSUME NEW S, NEW p \in Seq(Seq(S)), NEW q \in Seq(Seq(S))
  PROVE FlattenSeq(p \o q) = FlattenSeq(p) \o FlattenSeq(q)
<1> DEFINE M == Len(p)  N == Len(q)  pq == p \o q
<1>1. /\ M \in Nat /\ N \in Nat /\ pq \in Seq(Seq(S)) /\ Len(pq) = M + N
      /\ \A n \in 1 .. M + N : pq[n] = IF n <= M THEN p[n] ELSE q[n - M]
  BY LenProperties, ConcatProperties
<1>2. \A n \in 1 .. N : q[n] \in Seq(S)
  BY ElementOfSeq
<1>3. PICK first : /\ first \in [0 .. M -> Seq(S)] /\ first[0] = <<>>
                   /\ \A n \in 1 .. M : first[n] = first[n - 1] \o p[n]
                   /\ FlattenSeq(p) = first[M]
  BY Flattening
<1>4. PICK second : /\ second \in [0 .. N -> Seq(S)] /\ second[0] = <<>>
                    /\ \A n \in 1 .. N : second[n] = second[n - 1] \o q[n]
                    /\ FlattenSeq(q) = second[N]
  BY Flattening
<1> HIDE DEF pq
<1>5. PICK whole : /\ whole \in [0 .. Len(pq) -> Seq(S)] /\ whole[0] = <<>>
                   /\ \A n \in 1 .. Len(pq) : whole[n] = whole[n - 1] \o pq[n]
                   /\ FlattenSeq(pq) = whole[Len(pq)]
  BY <1>1, Flattening
<1> HIDE DEF M, N
<1> DEFINE A == {n \in 0 .. M : whole[n] = first[n]}
           B == {n \in 0 .. N : whole[M + n] = first[M] \o second[n]}
<1>6. \A n \in 0 .. M : n \in A
  <2>1. 0 \in A
    BY <1>1, <1>3, <1>5
  <2>2. ASSUME NEW n \in 1 .. M, n - 1 \in A PROVE n \in A
    <3>1. n \in 1 .. M + N /\ n \in 0 .. M /\ n <= M
      BY <1>1
    <3>2. whole[n] = whole[n - 1] \o p[n]
      BY <1>1, <1>5, <3>1
    <3> QED  BY <1>3, <2>2, <3>1, <3>2
  <2> HIDE DEF A
  <2> QED  BY <1>1, <2>1, <2>2, UpTo
<1>7. first[M] \in Seq(S) /\ whole[M] = first[M]
  BY <1>1, <1>3, <1>6
<1>8. \A n \in 0 .. N : n \in B
  <2>1. 0 \in B
    <3>1. first[M] \o second[0] = first[M]
      BY <1>4, <1>7, ConcatEmptySeq
    <3>2. M + 0 = M /\ 0 \in 0 .. N
      BY <1>1
    <3>3. whole[M + 0] = first[M] \o second[0]
      BY <1>7, <3>1, <3>2
    <3> QED  BY <3>2, <3>3
  <2>2. ASSUME NEW n \in 1 .. N, n - 1 \in B PROVE n \in B
    <3>1. /\ M + n \in 1 .. M + N /\ n \in 0 .. N /\ ~ (M + n <= M) /\ n - 1 \in 0 .. N
          /\ (M + n) - M = n /\ (M + n) - 1 = M + (n - 1)
      BY <1>1
    <3>2. whole[M + n] = whole[M + (n - 1)] \o q[n]
      BY <1>1, <1>5, <3>1
    <3>3. whole[M + (n - 1)] = first[M] \o second[n - 1]
      BY <2>2
    <3>4. second[n - 1] \in Seq(S) /\ q[n] \in Seq(S)
      BY <1>2, <1>4, <3>1
    <3> DEFINE x == first[M]  y == second[n - 1]  z == q[n]
    <3>5. (x \o y) \o z = x \o (y \o z)
      <4>1. x \in Seq(S) /\ y \in Seq(S) /\ z \in Seq(S)
        BY <1>7, <3>4
      <4> HIDE DEF x, y, z
      <4> QED  BY <4>1, ConcatAssociative
    <3>6. second[n] = y \o z
      BY <1>4
    <3>7. whole[M + n] = first[M] \o second[n]
      BY <3>2, <3>3, <3>5, <3>6
    <3> QED  BY <3>1, <3>7
  <2> HIDE DEF B
  <2> QED  BY <1>1, <2>1, <2>2, UpTo
<1>9. whole[M + N] = first[M] \o second[N]
  <2>1. N \in 0 .. N
    BY <1>1
  <2>2. N \in B
    BY <1>8, <2>1
  <2> QED  BY <2>2
<1> QED  BY <1>1, <1>3, <1>4, <1>5, <1>9 DEF pq

LEMMA FlattenFew ==
  /\ FlattenSeq(<<>>) = <<>>
  /\ \A S : \A a \in Seq(S) : FlattenSeq(<<a>>) = a
<1>1. FlattenSeq(<<>>) = <<>>
  BY DEF FlattenSeq
<1>2. ASSUME NEW S, NEW a \in Seq(S) PROVE FlattenSeq(<<a>>) = a
  <2> DEFINE q == <<a>>
  <2>1. q \in Seq(Seq(S)) /\ Len(q) = 1 /\ q[1] = a
    OBVIOUS
  <2> HIDE DEF q
  <2>2. PICK flat : /\ flat[0] = <<>>
                    /\ \A n \in 1 .. Len(q) : flat[n] = flat[n - 1] \o q[n]
                    /\ FlattenSeq(q) = flat[Len(q)]
    BY <2>1, Flattening
  <2>3. 1 \in 1 .. Len(q) /\ 1 - 1 = 0
    BY <2>1
  <2>4. FlattenSeq(q) = <<>> \o a
    BY <2>1, <2>2, <2>3
  <2> QED  BY <2>4, ConcatEmptySeq DEF q
<1> QED  BY <1>1, <1>2

LEMMA ReverseIsSeq ==
  ASSUME NEW S, NEW q \in Seq(S)
  PROVE /\ Reverse(q) \in Seq(S) /\ Len(Reverse(q)) = Len(q)
        /\ \A i \in 1 .. Len(q) : Reverse(q)[i] = q[(Len(q) - i) + 1]
<1> DEFINE N == Len(q)
<1>1. N \in Nat /\ \A i \in 1 .. N : q[i] \in S
  BY LenProperties, ElementOfSeq
<1>2. Reverse(q) = [i \in 1 .. N |-> q[(N - i) + 1]]
  BY DEF Reverse
<1> HIDE DEF N
<1>3. \A i \in 1 .. N : (N - i) + 1 \in 1 .. N
  BY <1>1
<1> QED  BY <1>1, <1>2, <1>3 DEF N

LEMMA ReverseConcat ==
  ASSUME NEW S, NEW p \in Seq(S), NEW q \in Seq(S)
  PROVE Reverse(p \o q) = Reverse(q) \o Reverse(p)
<1> DEFINE M == Len(p)  N == Len(q)  pq == p \o q
           left == Reverse(pq)  right == Reverse(q) \o Reverse(p)
<1>1. /\ M \in Nat /\ N \in Nat /\ pq \in Seq(S) /\ Len(pq) = M + N
      /\ \A n \in 1 .. M + N : pq[n] = IF n <= M THEN p[n] ELSE q[n - M]
  BY LenProperties, ConcatProperties
<1>2. /\ Reverse(p) \in Seq(S) /\ Len(Reverse(p)) = M
      /\ \A i \in 1 .. M : Reverse(p)[i] = p[(M - i) + 1]
  BY ReverseIsSeq
<1>3. /\ Reverse(q) \in Seq(S) /\ Len(Reverse(q)) = N
      /\ \A i \in 1 .. N : Reverse(q)[i] = q[(N - i) + 1]
  BY ReverseIsSeq
<1> HIDE DEF pq
<1>4. /\ left \in Seq(S) /\ Len(left) = Len(pq)
      /\ \A i \in 1 .. Len(pq) : left[i] = pq[(Len(pq) - i) + 1]
  BY <1>1, ReverseIsSeq
<1> HIDE DEF M, N, left
<1>5. /\ right \in Seq(S) /\ Len(right) = N + M
      /\ \A i \in 1 .. N + M : right[i] = IF i <= N THEN Reverse(q)[i] ELSE Reverse(p)[i - N]
  BY <1>2, <1>3, ConcatProperties
<1> HIDE DEF right
<1>6. ASSUME NEW i \in 1 .. M + N PROVE left[i] = right[i]
  <2>1. /\ i \in 1 .. N + M /\ ((M + N) - i) + 1 \in 1 .. M + N
        /\ i <= N => i \in 1 .. N /\ ~ (((M + N) - i) + 1 <= M)
             /\ (((M + N) - i) + 1) - M = (N - i) + 1
        /\ ~ (i <= N) => i - N \in 1 .. M /\ ((M + N) - i) + 1 <= M
             /\ ((M + N) - i) + 1 = (M - (i - N)) + 1
    BY <1>1
  <2>2. left[i] = pq[((M + N) - i) + 1]
    BY <1>1, <1>4
  <2>3. CASE i <= N
    <3>1. left[i] = q[(N - i) + 1]
      BY <1>1, <2>1, <2>2, <2>3
    <3> QED  BY <1>3, <1>5, <2>1, <2>3, <3>1
  <2>4. CASE ~ (i <= N)
    <3>1. left[i] = p[(M - (i - N)) + 1]
      BY <1>1, <2>1, <2>2, <2>4
    <3> QED  BY <1>2, <1>5, <2>1, <2>4, <3>1
  <2> QED  BY <2>3, <2>4
<1>7. Len(left) = M + N /\ Len(right) = M + N
  BY <1>1, <1>4, <1>5
<1>8. left = right
  BY <1>4, <1>5, <1>6, <1>7, SeqEqual
<1> QED  BY <1>8 DEF left, right, pq

--------------------------------------------------------------------------------
(* The elements of a sequence.                                                 *)

LEMMA ToSetConcat ==
  ASSUME NEW S, NEW p \in Seq(S), NEW q \in Seq(S)
  PROVE ToSet(p \o q) = ToSet(p) \cup ToSet(q)
<1> DEFINE M == Len(p)  N == Len(q)  pq == p \o q
<1>1. /\ M \in Nat /\ N \in Nat /\ pq \in Seq(S) /\ Len(pq) = M + N
      /\ \A n \in 1 .. M + N : pq[n] = IF n <= M THEN p[n] ELSE q[n - M]
  BY LenProperties, ConcatProperties
<1>2. DOMAIN p = 1 .. M /\ DOMAIN q = 1 .. N
  BY LenProperties
<1>3. DOMAIN pq = 1 .. M + N
  <2> HIDE DEF pq
  <2> QED  BY <1>1, LenProperties
<1> HIDE DEF M, N, pq
<1>4. ToSet(pq) \subseteq ToSet(p) \cup ToSet(q)
  <2> SUFFICES ASSUME NEW n \in 1 .. M + N PROVE pq[n] \in ToSet(p) \cup ToSet(q)
    BY <1>3 DEF ToSet
  <2>1. n <= M => n \in 1 .. M
    BY <1>1
  <2>2. ~ (n <= M) => n - M \in 1 .. N
    BY <1>1
  <2> QED  BY <1>1, <1>2, <2>1, <2>2 DEF ToSet
<1>5. ToSet(p) \subseteq ToSet(pq)
  <2> SUFFICES ASSUME NEW n \in 1 .. M PROVE p[n] \in ToSet(pq)
    BY <1>2 DEF ToSet
  <2>1. n \in 1 .. M + N /\ n <= M
    BY <1>1
  <2>2. pq[n] = p[n]
    BY <1>1, <2>1
  <2> QED  BY <1>3, <2>1, <2>2 DEF ToSet
<1>6. ToSet(q) \subseteq ToSet(pq)
  <2> SUFFICES ASSUME NEW n \in 1 .. N PROVE q[n] \in ToSet(pq)
    BY <1>2 DEF ToSet
  <2>1. M + n \in 1 .. M + N /\ ~ (M + n <= M) /\ (M + n) - M = n
    BY <1>1
  <2>2. pq[M + n] = q[n]
    BY <1>1, <2>1
  <2> QED  BY <1>3, <2>1, <2>2 DEF ToSet
<1> QED  BY <1>4, <1>5, <1>6 DEF pq

LEMMA ToSetFew ==
  /\ ToSet(<<>>) = {}
  /\ \A x : ToSet(<<x>>) = {x}
  /\ \A x, y : ToSet(<<x, y>>) = {x, y}
<1>1. ToSet(<<>>) = {}
  BY DEF ToSet
<1>2. ASSUME NEW x PROVE ToSet(<<x>>) = {x}
  BY DEF ToSet
<1>3. ASSUME NEW x, NEW y PROVE ToSet(<<x, y>>) = {x, y}
  <2>1. DOMAIN <<x, y>> = {1, 2}
    OBVIOUS
  <2> QED  BY <2>1 DEF ToSet
<1> QED  BY <1>1, <1>2, <1>3

LEMMA ToSetFlatten ==
  ASSUME NEW S, NEW qs \in Seq(Seq(S))
  PROVE ToSet(FlattenSeq(qs)) = UNION {ToSet(qs[j]) : j \in 1 .. Len(qs)}
<1> DEFINE N == Len(qs)
<1>1. N \in Nat /\ \A n \in 1 .. N : qs[n] \in Seq(S)
  BY LenProperties, ElementOfSeq
<1>2. PICK flat : /\ flat \in [0 .. N -> Seq(S)] /\ flat[0] = <<>>
                  /\ \A n \in 1 .. N : flat[n] = flat[n - 1] \o qs[n]
                  /\ FlattenSeq(qs) = flat[N]
  BY Flattening
<1> HIDE DEF N
<1> DEFINE U(n) == UNION {ToSet(qs[j]) : j \in 1 .. n}
           A == {n \in 0 .. N : ToSet(flat[n]) = U(n)}
<1>3. U(0) = {} /\ \A n \in 1 .. N : U(n) = U(n - 1) \cup ToSet(qs[n])
  <2>1. U(0) = {}
    OBVIOUS
  <2>2. ASSUME NEW n \in 1 .. N PROVE U(n) = U(n - 1) \cup ToSet(qs[n])
    <3>1. \A j : j \in 1 .. n <=> j \in 1 .. (n - 1) \/ j = n
      BY <1>1
    <3>2. \A x : x \in U(n) <=> \E j \in 1 .. n : x \in ToSet(qs[j])
      BY Zenon
    <3>3. \A x : x \in U(n - 1) <=> \E j \in 1 .. (n - 1) : x \in ToSet(qs[j])
      BY Zenon
    <3> HIDE DEF U
    <3>4. \A x : x \in U(n) <=> x \in U(n - 1) \/ x \in ToSet(qs[n])
      BY <3>1, <3>2, <3>3, Zenon
    <3> QED  BY <3>4
  <2> QED  BY <2>1, <2>2
<1> HIDE DEF U
<1>4. 0 \in A
  <2>1. ToSet(flat[0]) = {}
    BY <1>2, ToSetFew, Zenon
  <2>2. 0 \in 0 .. N
    BY <1>1
  <2> QED  BY <1>3, <2>1, <2>2
<1>5. ASSUME NEW n \in 1 .. N, n - 1 \in A PROVE n \in A
  <2>1. n \in 0 .. N /\ n - 1 \in 0 .. N
    BY <1>1
  <2>2. flat[n - 1] \in Seq(S) /\ qs[n] \in Seq(S)
    BY <1>1, <1>2, <2>1
  <2>3. ToSet(flat[n - 1] \o qs[n]) = ToSet(flat[n - 1]) \cup ToSet(qs[n])
    BY <2>2, ToSetConcat
  <2>4. ToSet(flat[n]) = ToSet(flat[n - 1]) \cup ToSet(qs[n])
    BY <1>2, <2>3
  <2> QED  BY <1>3, <1>5, <2>1, <2>4
<1>6. N \in A
  <2>1. \A n \in 0 .. N : n \in A
    <3> HIDE DEF A
    <3> QED  BY <1>1, <1>4, <1>5, UpTo
  <2> HIDE DEF A
  <2> QED  BY <1>1, <2>1
<1> QED  BY <1>2, <1>6 DEF N, U

--------------------------------------------------------------------------------
(* Sequences built step by step.                                               *)

LEMMA ListFacts ==
  ASSUME NEW W, NEW q \in Seq(W)
  PROVE /\ Len(q) \in Nat /\ DOMAIN q = 1 .. Len(q) /\ \A j \in 1 .. Len(q) : q[j] \in W
        /\ Range(q) = {q[j] : j \in 1 .. Len(q)}
<1>1. Len(q) \in Nat /\ DOMAIN q = 1 .. Len(q)
  BY LenProperties
<1> QED  BY <1>1, ElementOfSeq DEF Range

LEMMA Appended ==
  ASSUME NEW W, NEW q \in Seq(W), NEW w \in W
  PROVE LET p == Append(q, w) IN
        /\ p \in Seq(W) /\ Len(p) = Len(q) + 1 /\ p[Len(q) + 1] = w
        /\ \A j \in 1 .. Len(q) : p[j] = q[j]
<1> QED  BY AppendProperties, ListFacts

(* A function on 0 .. N that is given by its first value and its steps exists. *)
Walks(f, N, base, step) ==
  f[0] = base /\ \A n \in 1 .. N : f[n] = step[<<n, f[n - 1]>>]

LEMMA WalkExists ==
  ASSUME NEW N \in Nat, NEW V, NEW base \in V, NEW step \in [(1 .. N) \X V -> V]
  PROVE \E f \in [0 .. N -> V] : Walks(f, N, base, step)
<1> DEFINE IsWalk(f, m) ==
             /\ f \in [0 .. m -> V] /\ f[0] = base
             /\ \A n \in 1 .. m : f[n] = step[<<n, f[n - 1]>>]
           Walked == {m \in 0 .. N : \E f : IsWalk(f, m)}
<1>1. 0 \in Walked
  <2> DEFINE f == [n \in 0 .. 0 |-> base]
  <2>1. IsWalk(f, 0)
    OBVIOUS
  <2> HIDE DEF IsWalk, f
  <2> QED  BY <2>1
<1>2. ASSUME NEW m \in 1 .. N, m - 1 \in Walked PROVE m \in Walked
  <2>1. PICK f : IsWalk(f, m - 1)
    <3> HIDE DEF IsWalk
    <3> QED  BY <1>2
  <2>2. m - 1 \in Nat /\ m \in Nat /\ m - 1 \in 0 .. m - 1
    OBVIOUS
  <2>3. f[m - 1] \in V
    BY <2>1, <2>2
  <2>4. step[<<m, f[m - 1]>>] \in V
    BY <2>3
  <2> DEFINE g == [n \in 0 .. m |-> IF n = m THEN step[<<m, f[m - 1]>>] ELSE f[n]]
  <2>5. g \in [0 .. m -> V]
    <3>1. ASSUME NEW n \in 0 .. m, n # m PROVE f[n] \in V
      <4>1. n \in 0 .. m - 1
        BY <3>1
      <4> QED  BY <2>1, <4>1
    <3> QED  BY <2>4, <3>1
  <2>6. g[0] = base
    <3>1. 0 \in 0 .. m /\ 0 # m
      OBVIOUS
    <3> QED  BY <2>1, <3>1
  <2>7. ASSUME NEW n \in 1 .. m PROVE g[n] = step[<<n, g[n - 1]>>]
    <3>1. n \in 0 .. m /\ n - 1 \in 0 .. m /\ n - 1 # m
      OBVIOUS
    <3>2. g[n - 1] = f[n - 1]
      BY <3>1
    <3>3. CASE n = m
      BY <3>1, <3>2, <3>3
    <3>4. CASE n # m
      <4>1. n \in 1 .. m - 1
        BY <3>4
      <4>2. f[n] = step[<<n, f[n - 1]>>]
        BY <2>1, <4>1
      <4>3. g[n] = f[n]
        BY <3>1, <3>4
      <4> QED  BY <3>2, <4>2, <4>3
    <3> QED  BY <3>3, <3>4
  <2> HIDE DEF g
  <2>8. IsWalk(g, m)
    BY <2>5, <2>6, <2>7
  <2> HIDE DEF IsWalk
  <2> QED  BY <2>8
<1>3. N \in Walked
  <2>1. N \in 0 .. N
    OBVIOUS
  <2> HIDE DEF Walked
  <2> QED  BY <1>1, <1>2, <2>1, UpTo
<1> QED  BY <1>3 DEF Walks

(* The words of a set, in their order.  Among the first n words are q.         *)
AreAmong(q, words, set, n) ==
  /\ Len(q) <= n
  /\ \A j \in 1 .. Len(q) : q[j] \in set /\ \E i \in 1 .. n : q[j] = words[i]
  /\ n > 0 /\ words[1] \in set => Len(q) > 0 /\ q[1] = words[1]
  /\ \A j, k \in 1 .. Len(q) : j < k =>
       \E y \in 1 .. n : q[k] = words[y] /\ \E x \in 1 .. y - 1 : q[j] = words[x]
  /\ \A i \in 1 .. n : words[i] \in set => \E j \in 1 .. Len(q) : q[j] = words[i]

LEMMA AmongWords ==
  ASSUME NEW W, NEW words \in Seq(W), NEW set
  PROVE Among(words, set) \in Seq(W) /\ AreAmong(Among(words, set), words, set, Len(words))
  <1> DEFINE N == Len(words)
             Find(q, n) == IF words[n] \in set THEN Append(q, words[n]) ELSE q
             step == [p \in (1 .. N) \X Seq(W) |-> Find(p[2], p[1])]
             found == CHOOSE f : f = [n \in 0 .. N |-> IF n = 0 THEN <<>> ELSE Find(f[n - 1], n)]
  <1>1. N \in Nat /\ \A n \in 1 .. N : words[n] \in W
    BY ListFacts
  <1>2. ASSUME NEW n \in 1 .. N, NEW q \in Seq(W) PROVE Find(q, n) \in Seq(W)
    BY <1>1, <1>2, Appended
  <1>3. step \in [(1 .. N) \X Seq(W) -> Seq(W)]
    <2> HIDE DEF Find
    <2> QED  BY <1>2
  <1>4. \A n \in 1 .. N, q \in Seq(W) : step[<<n, q>>] = Find(q, n)
    <2> HIDE DEF Find
    <2> QED  OBVIOUS
  <1>5. PICK f \in [0 .. N -> Seq(W)] :
          f[0] = <<>> /\ \A n \in 1 .. N : f[n] = step[<<n, f[n - 1]>>]
    <2>1. <<>> \in Seq(W)
      OBVIOUS
    <2> DEFINE V == Seq(W)  base == <<>>
    <2>2. base \in V /\ step \in [(1 .. N) \X V -> V] /\ N \in Nat
      BY <1>1, <1>3, <2>1
    <2> HIDE DEF step, V, N, base
    <2>3. \E f \in [0 .. N -> V] : Walks(f, N, base, step)
      BY <2>2, WalkExists
    <2> QED  BY <2>3 DEF V, base, Walks
  <1>6. \A n \in 1 .. N : n - 1 \in 0 .. N /\ n \in 0 .. N
    BY <1>1
  <1>7. \A n \in 1 .. N : f[n] = Find(f[n - 1], n)
    <2> HIDE DEF step, Find
    <2> QED  BY <1>4, <1>5, <1>6
  <1>8. f = [n \in 0 .. N |-> IF n = 0 THEN <<>> ELSE Find(f[n - 1], n)]
    <2> HIDE DEF Find
    <2>1. \A n \in 0 .. N : f[n] = IF n = 0 THEN <<>> ELSE Find(f[n - 1], n)
      <3>1. ASSUME NEW n \in 0 .. N PROVE n = 0 \/ n \in 1 .. N
        BY <1>1
      <3>2. \A n \in 1 .. N : n # 0
        OBVIOUS
      <3> QED  BY <1>5, <1>7, <3>1, <3>2
    <2> QED  BY <1>5, <2>1
  <1>9. found = [n \in 0 .. N |-> IF n = 0 THEN <<>> ELSE Find(found[n - 1], n)]
    <2> HIDE DEF Find
    <2> QED  BY <1>8
  <1>10. Among(words, set) = found[N]
    BY DEF Among
  <1>11. found[0] = <<>> /\ \A n \in 1 .. N : found[n] = Find(found[n - 1], n)
    <2> HIDE DEF Find, found
    <2>1. 0 \in 0 .. N
      BY <1>1
    <2>2. \A n \in 1 .. N : n # 0
      OBVIOUS
    <2> QED  BY <1>6, <1>9, <2>1, <2>2, Zenon
  <1> HIDE DEF found, step
  <1> DEFINE Good == {n \in 0 .. N : found[n] \in Seq(W) /\ AreAmong(found[n], words, set, n)}
  <1>12. 0 \in Good
    <2>1. <<>> \in Seq(W) /\ Len(<<>>) = 0
      OBVIOUS
    <2>2. AreAmong(<<>>, words, set, 0)
      BY <2>1 DEF AreAmong
    <2>3. found[0] \in Seq(W) /\ AreAmong(found[0], words, set, 0)
      BY <1>11, <2>1, <2>2, Zenon
    <2>4. 0 \in 0 .. N
      BY <1>1
    <2> QED  BY <2>3, <2>4, Zenon
  <1>13. ASSUME NEW n \in 1 .. N, n - 1 \in Good PROVE n \in Good
    <2> DEFINE q == found[n - 1]  M == Len(q)  w == words[n]
    <2>1. q \in Seq(W) /\ AreAmong(q, words, set, n - 1) /\ w \in W
      BY <1>1, <1>13
    <2>2. found[n] = Find(q, n)
      BY <1>11
    <2> HIDE DEF q
    <2>3. M \in Nat /\ n \in Nat
      BY <1>1, <2>1, ListFacts
    <2>4. \A i \in 1 .. n - 1 : i \in 1 .. n
      BY <2>3
    <2>5. CASE w \notin set
      <3>1. found[n] = q
        BY <2>2, <2>5
      <3>2. M <= n
        BY <2>1, <2>3 DEF AreAmong
      <3>3. \A j \in 1 .. M : q[j] \in set /\ \E i \in 1 .. n : q[j] = words[i]
        BY <2>1, <2>4 DEF AreAmong
      <3>4. n > 0 /\ words[1] \in set => M > 0 /\ q[1] = words[1]
        <4>1. CASE n = 1
          BY <2>5, <4>1
        <4>2. CASE n # 1
          <5>1. n - 1 > 0
            BY <2>3, <4>2
          <5> QED  BY <2>1, <5>1 DEF AreAmong
        <4> QED  BY <4>1, <4>2
      <3>5. \A j, k \in 1 .. M : j < k =>
              \E y \in 1 .. n : q[k] = words[y] /\ \E x \in 1 .. y - 1 : q[j] = words[x]
        BY <2>1, <2>4 DEF AreAmong
      <3>6. ASSUME NEW i \in 1 .. n, words[i] \in set PROVE \E j \in 1 .. M : q[j] = words[i]
        <4>1. i \in 1 .. n - 1
          BY <2>3, <2>5, <3>6
        <4> QED  BY <2>1, <3>6, <4>1 DEF AreAmong
      <3>7. AreAmong(q, words, set, n)
        BY <3>2, <3>3, <3>4, <3>5, <3>6 DEF AreAmong
      <3> QED  BY <2>1, <2>3, <3>1, <3>7
    <2>6. CASE w \in set
      <3> DEFINE p == Append(q, w)
      <3>1. found[n] = p
        BY <2>2, <2>6
      <3>2. /\ p \in Seq(W) /\ Len(p) = M + 1 /\ p[M + 1] = w
            /\ \A j \in 1 .. M : p[j] = q[j]
        BY <2>1, Appended
      <3> HIDE DEF p
      <3>3. \A j \in 1 .. M + 1 : j = M + 1 \/ j \in 1 .. M
        BY <2>3
      <3>4. n \in 1 .. n
        BY <2>3
      <3>5. Len(p) <= n
        <4>1. M <= n - 1
          BY <2>1 DEF AreAmong
        <4> QED  BY <2>3, <3>2, <4>1
      <3>6. \A j \in 1 .. M + 1 : p[j] \in set /\ \E i \in 1 .. n : p[j] = words[i]
        <4>1. ASSUME NEW j \in 1 .. M PROVE p[j] \in set /\ \E i \in 1 .. n : p[j] = words[i]
          <5>1. p[j] = q[j]
            BY <3>2
          <5>2. q[j] \in set
            BY <2>1 DEF AreAmong
          <5>3. PICK i \in 1 .. n - 1 : q[j] = words[i]
            BY <2>1 DEF AreAmong
          <5> QED  BY <2>4, <5>1, <5>2, <5>3
        <4> QED  BY <2>6, <3>2, <3>3, <3>4, <4>1
      <3>7. words[1] \in set => M + 1 > 0 /\ p[1] = words[1]
        <4>1. CASE n = 1
          <5>1. M = 0
            <6>1. M <= n - 1
              BY <2>1 DEF AreAmong
            <6> QED  BY <2>3, <4>1, <6>1
          <5> QED  BY <3>2, <4>1, <5>1
        <4>2. CASE n # 1
          <5> SUFFICES ASSUME words[1] \in set PROVE M + 1 > 0 /\ p[1] = words[1]
            OBVIOUS
          <5>1. n - 1 > 0
            BY <2>3, <4>2
          <5>2. M > 0 /\ q[1] = words[1]
            BY <2>1, <5>1 DEF AreAmong
          <5>3. 1 \in 1 .. M
            BY <2>3, <5>2
          <5> QED  BY <2>3, <3>2, <5>2, <5>3
        <4> QED  BY <4>1, <4>2
      <3>8. ASSUME NEW j \in 1 .. M + 1, NEW k \in 1 .. M + 1, j < k
            PROVE \E y \in 1 .. n : p[k] = words[y] /\ \E x \in 1 .. y - 1 : p[j] = words[x]
        <4>1. j \in 1 .. M
          BY <2>3, <3>8
        <4>2. p[j] = q[j]
          BY <3>2, <4>1
        <4>3. CASE k \in 1 .. M
          <5>1. p[k] = q[k]
            BY <3>2, <4>3
          <5>2. PICK y \in 1 .. n - 1 : q[k] = words[y] /\ \E x \in 1 .. y - 1 : q[j] = words[x]
            BY <2>1, <3>8, <4>1, <4>3 DEF AreAmong
          <5> QED  BY <2>4, <4>2, <5>1, <5>2
        <4>4. CASE k = M + 1
          BY <2>1, <3>2, <3>4, <4>1, <4>2, <4>4 DEF AreAmong
        <4> QED  BY <3>3, <4>3, <4>4
      <3>9. ASSUME NEW i \in 1 .. n, words[i] \in set
            PROVE \E j \in 1 .. M + 1 : p[j] = words[i]
        <4>1. CASE i = n
          BY <2>3, <3>2, <4>1
        <4>2. CASE i # n
          <5>1. i \in 1 .. n - 1
            BY <2>3, <4>2
          <5>2. PICK j \in 1 .. M : q[j] = words[i]
            BY <2>1, <3>9, <5>1 DEF AreAmong
          <5>3. j \in 1 .. M + 1
            BY <2>3
          <5> QED  BY <3>2, <5>2, <5>3
        <4> QED  BY <4>1, <4>2
      <3>10. AreAmong(p, words, set, n)
        BY <3>2, <3>5, <3>6, <3>7, <3>8, <3>9 DEF AreAmong
      <3> QED  BY <2>3, <3>1, <3>2, <3>10
    <2> QED  BY <2>5, <2>6
  <1>14. N \in Good
    <2>1. N \in 0 .. N
      BY <1>1
    <2> HIDE DEF Good
    <2> QED  BY <1>1, <1>12, <1>13, <2>1, UpTo
  <1> QED  BY <1>10, <1>14

LEMMA AmongRange ==
  ASSUME NEW W, NEW words \in Seq(W), NEW set
  PROVE Range(Among(words, set)) = Range(words) \cap set
<1> DEFINE q == Among(words, set)
<1>1. q \in Seq(W) /\ AreAmong(q, words, set, Len(words))
  BY AmongWords
<1>2. /\ Range(words) = {words[j] : j \in 1 .. Len(words)}
      /\ Range(q) = {q[j] : j \in 1 .. Len(q)}
  <2> HIDE DEF q
  <2> QED  BY <1>1, ListFacts
<1> HIDE DEF q
<1>3. /\ \A j \in 1 .. Len(q) : q[j] \in set /\ \E i \in 1 .. Len(words) : q[j] = words[i]
      /\ \A i \in 1 .. Len(words) : words[i] \in set => \E j \in 1 .. Len(q) : q[j] = words[i]
  BY <1>1, Zenon DEF AreAmong
<1> QED  BY <1>2, <1>3, Zenon DEF q
================================================================================
