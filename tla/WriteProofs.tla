----------------------------- MODULE WriteProofs -----------------------------
(***************************************************************************)
(* What is proved of inserts, updates and tables of values (Write.tla) and *)
(* of the fragments their statements are built of (SqlString.tla).         *)
(*                                                                         *)
(* Through any nesting of fragments, each value reaches the place it was   *)
(* given.  So the statement that is out is known token by token: its       *)
(* clauses, the items of its lists and the value of each cell are those of *)
(* the builder that printed it.  An insert is then followed tuple by tuple *)
(* and an update row by row, to the table the objects mean, which the      *)
(* database accepts unless the objects themselves ask for what it refuses. *)
(***************************************************************************)
EXTENDS Write, SequenceLemmas

(* A fragment over a set of tokens, with a parameter for each of its holes.    *)
Fragments(T) == [parts : Seq(T), params : Seq(T)]
Balanced(f) == HoleNumber(f.parts, Len(f.parts)) = Len(f.params)

--------------------------------------------------------------------------------
(* Holes, counted along a text and along two texts one after the other.        *)

LEMMA HoleCount ==
  ASSUME NEW p, NEW n \in Nat
  PROVE  /\ HoleNumber(p, n) \in Nat
         /\ \A i \in 0 .. n : HoleNumber(p, i) \in Nat /\ HoleNumber(p, i) <= HoleNumber(p, n)
         /\ n > 0 /\ p[n] = Hole => HoleNumber(p, n) > 0
  <1> DEFINE H(i) == {j \in 1 .. i : p[j] = Hole}
  <1>1. \A i \in Nat : IsFiniteSet(1 .. i)
    BY FS_Interval
  <1>2. ASSUME NEW i \in Nat PROVE IsFiniteSet(H(i)) /\ Cardinality(H(i)) \in Nat
    <2>1. H(i) \in SUBSET (1 .. i)
      OBVIOUS
    <2> HIDE DEF H
    <2>2. IsFiniteSet(H(i))
      BY <1>1, <2>1, FS_Subset
    <2> QED
      BY <2>2, FS_CardinalityType
  <1>3. ASSUME NEW i \in 0 .. n PROVE Cardinality(H(i)) <= Cardinality(H(n))
    <2>1. H(i) \in SUBSET H(n)
      OBVIOUS
    <2> HIDE DEF H
    <2> QED
      BY <1>2, <2>1, FS_Subset
  <1>4. ASSUME n > 0, p[n] = Hole PROVE Cardinality(H(n)) > 0
    <2>1. n \in H(n)
      BY <1>4
    <2> DEFINE h == Cardinality(H(n))
    <2>2. H(n) # {}
      BY <2>1
    <2>3. h # 0 /\ h \in Nat
      <3> HIDE DEF H
      <3> QED
        BY <1>2, <2>2, FS_EmptySet
    <2> HIDE DEF h
    <2>4. h > 0
      BY <2>3
    <2> QED
      BY <2>4 DEF h
  <1>5. \A i : HoleNumber(p, i) = Cardinality(H(i))
    BY DEF HoleNumber
  <1>6. \A i \in 0 .. n : i \in Nat
    OBVIOUS
  <1> HIDE DEF H
  <1> QED
    BY <1>2, <1>3, <1>4, <1>5, <1>6

LEMMA HolesBeside ==
  ASSUME NEW T, NEW p \in Seq(T), NEW q \in Seq(T)
  PROVE  /\ \A i \in 0 .. Len(p) : HoleNumber(p \o q, i) = HoleNumber(p, i)
         /\ \A k \in 0 .. Len(q) :
              HoleNumber(p \o q, Len(p) + k) = HoleNumber(p, Len(p)) + HoleNumber(q, k)
  <1> DEFINE m == Len(p)  pq == p \o q
  <1>1. /\ m \in Nat /\ Len(q) \in Nat
        /\ \A j \in 1 .. m : pq[j] = p[j]
        /\ \A j \in 1 .. Len(q) : pq[m + j] = q[j]
    BY ListFacts, ConcatProperties
  <1> HIDE DEF pq
  <1>2. ASSUME NEW i \in 0 .. m PROVE HoleNumber(pq, i) = HoleNumber(p, i)
    <2>1. \A j \in 1 .. i : j \in 1 .. m
      BY <1>1
    <2>2. {j \in 1 .. i : pq[j] = Hole} = {j \in 1 .. i : p[j] = Hole}
      BY <1>1, <2>1
    <2> QED
      BY <2>2 DEF HoleNumber
  <1>3. ASSUME NEW k \in 0 .. Len(q)
        PROVE HoleNumber(pq, m + k) = HoleNumber(p, m) + HoleNumber(q, k)
    <2> DEFINE A == {j \in 1 .. m : p[j] = Hole}
               B == {j \in 1 .. k : q[j] = Hole}
               C == {j \in m + 1 .. m + k : pq[j] = Hole}
               f == [j \in B |-> m + j]
    <2>1. {j \in 1 .. m + k : pq[j] = Hole} = A \cup C
      <3>1. \A j : j \in 1 .. m + k <=> j \in 1 .. m \/ j \in m + 1 .. m + k
        BY <1>1
      <3> QED
        BY <1>1, <3>1
    <2>2. A \cap C = {}
      BY <1>1
    <2>3. \A j \in 1 .. k : j \in 1 .. Len(q) /\ m + j \in m + 1 .. m + k
      BY <1>1
    <2>4. f \in [B -> C]
      <3>1. \A j \in B : m + j \in C
        BY <1>1, <2>3
      <3> HIDE DEF B, C
      <3> QED
        BY <3>1
    <2>5. \A i, j \in B : f[i] = f[j] => i = j
      <3>1. \A i, j \in 1 .. k : m + i = m + j => i = j
        BY <1>1
      <3> QED
        BY <3>1
    <2>6. \A c \in C : \E j \in B : f[j] = c
      <3>1. ASSUME NEW c \in m + 1 .. m + k PROVE c - m \in 1 .. k /\ m + (c - m) = c
        BY <1>1
      <3>2. ASSUME NEW c \in C PROVE \E j \in B : f[j] = c
        <4>1. c - m \in 1 .. k /\ m + (c - m) = c
          BY <3>1
        <4>2. q[c - m] = Hole
          <5>1. pq[m + (c - m)] = q[c - m]
            BY <1>1, <2>3, <4>1
          <5> QED
            BY <4>1, <5>1
        <4>3. c - m \in B
          BY <4>1, <4>2
        <4>4. f[c - m] = c
          BY <4>1, <4>3
        <4> QED
          BY <4>3, <4>4
      <3> QED
        BY <3>2
    <2>7. IsFiniteSet(A) /\ IsFiniteSet(B)
      <3>1. IsFiniteSet(1 .. m) /\ IsFiniteSet(1 .. k)
        BY <1>1, FS_Interval
      <3>2. A \in SUBSET (1 .. m) /\ B \in SUBSET (1 .. k)
        OBVIOUS
      <3> HIDE DEF A, B
      <3> QED
        BY <3>1, <3>2, FS_Subset
    <2> HIDE DEF A, B, C, f
    <2>8. ExistsBijection(B, C)
      <3>1. f \in Bijection(B, C)
        BY <2>4, <2>5, <2>6 DEF Bijection, Injection, Surjection, IsInjective
      <3> QED
        BY <3>1 DEF ExistsBijection
    <2>9. IsFiniteSet(C) /\ Cardinality(C) = Cardinality(B)
      BY <2>7, <2>8, FS_Bijection
    <2>10. Cardinality(A \cup C) = Cardinality(A) + Cardinality(C) - Cardinality(A \cap C)
      BY <2>7, <2>9, FS_Union
    <2>11. Cardinality(A \cap C) = 0
      BY <2>2, FS_EmptySet
    <2>12. Cardinality(A) \in Nat /\ Cardinality(C) \in Nat
      BY <2>7, <2>9, FS_CardinalityType
    <2>13. Cardinality(A \cup C) = Cardinality(A) + Cardinality(B)
      <3> DEFINE a == Cardinality(A)  c == Cardinality(C)  x == Cardinality(A \cap C)
      <3>1. a \in Nat /\ c \in Nat /\ x = 0
        BY <2>11, <2>12
      <3> HIDE DEF a, c, x
      <3>2. a + c - x = a + c
        BY <3>1
      <3> QED
        BY <2>9, <2>10, <3>2 DEF a, c, x
    <2> QED
      BY <2>1, <2>13 DEF HoleNumber, A, B
  <1> QED
    BY <1>2, <1>3 DEF pq

--------------------------------------------------------------------------------
(* What the server reads of a fragment, and of two side by side.               *)

LEMMA BoundType ==
  ASSUME NEW T, NEW f \in Fragments(T), Balanced(f)
  PROVE  /\ Bound(f) \in Seq(T) /\ Len(Bound(f)) = Len(f.parts)
         /\ \A i \in 1 .. Len(f.parts) : f.parts[i] = Hole =>
              HoleNumber(f.parts, i) \in 1 .. Len(f.params)
  <1> DEFINE n == Len(f.parts)
  <1>1. f.parts \in Seq(T) /\ f.params \in Seq(T)
    BY DEF Fragments
  <1>2. n \in Nat /\ Len(f.params) \in Nat
    BY <1>1, ListFacts
  <1>3. ASSUME NEW i \in 1 .. n, f.parts[i] = Hole
        PROVE  HoleNumber(f.parts, i) \in 1 .. Len(f.params)
    <2>1. i \in Nat /\ i > 0 /\ i \in 0 .. n
      BY <1>2
    <2> DEFINE h == HoleNumber(f.parts, i)
    <2>2. h \in Nat /\ h > 0
      BY <1>3, <2>1, HoleCount
    <2>3. h <= HoleNumber(f.parts, n)
      BY <1>2, <2>1, HoleCount
    <2>4. h <= Len(f.params)
      BY <2>3 DEF Balanced
    <2> HIDE DEF h
    <2>5. h \in 1 .. Len(f.params)
      BY <1>2, <2>2, <2>4
    <2> QED
      BY <2>5 DEF h
  <1>4. ASSUME NEW i \in 1 .. n PROVE Bound(f)[i] \in T
    <2>1. f.parts[i] \in T
      BY <1>1, ListFacts
    <2>2. CASE f.parts[i] = Hole
      <3>1. f.params[HoleNumber(f.parts, i)] \in T
        BY <1>1, <1>3, <2>2, ListFacts
      <3> QED
        BY <2>2, <3>1 DEF Bound
    <2>3. CASE f.parts[i] # Hole
      BY <2>1, <2>3 DEF Bound
    <2> QED
      BY <2>2, <2>3
  <1>5. Bound(f) \in [1 .. n -> T]
    BY <1>4 DEF Bound
  <1>6. Bound(f) \in Seq(T) /\ Len(Bound(f)) = n
    <2> DEFINE b == Bound(f)
    <2> HIDE DEF b, n
    <2>1. b \in [1 .. n -> T]
      BY <1>5 DEF b
    <2>2. b \in Seq(T) /\ Len(b) = n
      BY <1>2, <2>1
    <2> QED
      BY <2>2 DEF b
  <1> QED
    BY <1>3, <1>6

Beside(f, g) == [parts |-> f.parts \o g.parts, params |-> f.params \o g.params]

LEMMA ConcatFacts ==
  ASSUME NEW T, NEW p \in Seq(T), NEW q \in Seq(T)
  PROVE  /\ Len(p) \in Nat /\ Len(q) \in Nat
         /\ p \o q \in Seq(T) /\ Len(p \o q) = Len(p) + Len(q)
         /\ \A i \in 1 .. Len(p) : (p \o q)[i] = p[i]
         /\ \A i \in 1 .. Len(q) : (p \o q)[Len(p) + i] = q[i]
  BY ListFacts, ConcatProperties

LEMMA ConcatPlaces ==
  ASSUME NEW m \in Nat, NEW n \in Nat
  PROVE  /\ \A i \in 1 .. m : i \in 0 .. m /\ i \in 1 .. m + n
         /\ \A i \in 1 .. n : i \in 0 .. n /\ m + i \in 1 .. m + n
         /\ \A i \in 1 .. m + n : i \in 1 .. m \/ \E k \in 1 .. n : i = m + k
  <1>1. ASSUME NEW i \in 1 .. m + n, i \notin 1 .. m
        PROVE  i - m \in 1 .. n /\ i = m + (i - m)
    BY <1>1
  <1>2. \A i \in 1 .. m : i \in 0 .. m /\ i \in 1 .. m + n
    OBVIOUS
  <1>3. \A i \in 1 .. n : i \in 0 .. n /\ m + i \in 1 .. m + n
    OBVIOUS
  <1> QED
    BY <1>1, <1>2, <1>3

LEMMA BoundBeside ==
  ASSUME NEW T, NEW f \in Fragments(T), NEW g \in Fragments(T), Balanced(f), Balanced(g)
  PROVE  /\ Beside(f, g) \in Fragments(T) /\ Balanced(Beside(f, g))
         /\ Bound(Beside(f, g)) = Bound(f) \o Bound(g)
  <1> DEFINE p == f.parts  q == g.parts  a == f.params  b == g.params  fg == Beside(f, g)
             m == Len(p)  n == Len(q)
  <1>1. p \in Seq(T) /\ q \in Seq(T) /\ a \in Seq(T) /\ b \in Seq(T)
    BY DEF Fragments
  <1>2. HoleNumber(p, m) = Len(a) /\ HoleNumber(q, n) = Len(b)
    BY DEF Balanced
  <1>3. fg = [parts |-> p \o q, params |-> a \o b]
    BY DEF Beside
  <1>4. /\ Bound(f) \in Seq(T) /\ Len(Bound(f)) = m
        /\ Bound(g) \in Seq(T) /\ Len(Bound(g)) = n
        /\ \A i \in 1 .. m : p[i] = Hole => HoleNumber(p, i) \in 1 .. Len(a)
        /\ \A i \in 1 .. n : q[i] = Hole => HoleNumber(q, i) \in 1 .. Len(b)
    BY BoundType
  <1>5. /\ \A i \in 1 .. m : Bound(f)[i] = IF p[i] = Hole THEN a[HoleNumber(p, i)] ELSE p[i]
        /\ \A i \in 1 .. n : Bound(g)[i] = IF q[i] = Hole THEN b[HoleNumber(q, i)] ELSE q[i]
    BY DEF Bound
  <1> HIDE DEF p, q, a, b
  <1>6. /\ m \in Nat /\ n \in Nat /\ p \o q \in Seq(T) /\ Len(p \o q) = m + n
        /\ \A i \in 1 .. m : (p \o q)[i] = p[i]
        /\ \A i \in 1 .. n : (p \o q)[m + i] = q[i]
    BY <1>1, ConcatFacts
  <1>7. /\ a \o b \in Seq(T) /\ Len(a \o b) = Len(a) + Len(b)
        /\ \A i \in 1 .. Len(a) : (a \o b)[i] = a[i]
        /\ \A i \in 1 .. Len(b) : (a \o b)[Len(a) + i] = b[i]
    BY <1>1, ConcatFacts
  <1>8. /\ \A i \in 0 .. m : HoleNumber(p \o q, i) = HoleNumber(p, i)
        /\ \A k \in 0 .. n : HoleNumber(p \o q, m + k) = Len(a) + HoleNumber(q, k)
    BY <1>1, <1>2, HolesBeside
  <1>9. fg \in Fragments(T)
    BY <1>3, <1>6, <1>7 DEF Fragments
  <1>10. Balanced(fg)
    <2>1. n \in 0 .. n
      BY <1>6
    <2>2. HoleNumber(p \o q, m + n) = Len(a) + Len(b)
      BY <1>2, <1>8, <2>1
    <2>3. fg.parts = p \o q /\ fg.params = a \o b
      BY <1>3
    <2> QED
      BY <1>6, <1>7, <2>2, <2>3, Zenon DEF Balanced
  <1>11. Bound(fg) \in Seq(T) /\ Len(Bound(fg)) = m + n
    <2>1. fg.parts = p \o q
      BY <1>3
    <2> QED
      BY <1>6, <1>9, <1>10, <2>1, BoundType
  <1>12. /\ Bound(f) \o Bound(g) \in Seq(T) /\ Len(Bound(f) \o Bound(g)) = m + n
         /\ \A i \in 1 .. m : (Bound(f) \o Bound(g))[i] = Bound(f)[i]
         /\ \A i \in 1 .. n : (Bound(f) \o Bound(g))[m + i] = Bound(g)[i]
    <2> DEFINE x == Bound(f)  y == Bound(g)
    <2>1. x \in Seq(T) /\ y \in Seq(T) /\ Len(x) = m /\ Len(y) = n
      BY <1>4
    <2> HIDE DEF x, y, m, n
    <2>2. /\ x \o y \in Seq(T) /\ Len(x \o y) = Len(x) + Len(y)
          /\ \A i \in 1 .. Len(x) : (x \o y)[i] = x[i]
          /\ \A i \in 1 .. Len(y) : (x \o y)[Len(x) + i] = y[i]
      <3> DEFINE V == Seq(T)
      <3>1. x \in V /\ y \in V
        BY <2>1
      <3>2. \A u, v \in V :
              /\ u \o v \in V /\ Len(u \o v) = Len(u) + Len(v)
              /\ \A i \in 1 .. Len(u) : (u \o v)[i] = u[i]
              /\ \A i \in 1 .. Len(v) : (u \o v)[Len(u) + i] = v[i]
        BY ConcatFacts
      <3> HIDE DEF V
      <3>3. /\ x \o y \in V /\ Len(x \o y) = Len(x) + Len(y)
            /\ \A i \in 1 .. Len(x) : (x \o y)[i] = x[i]
            /\ \A i \in 1 .. Len(y) : (x \o y)[Len(x) + i] = y[i]
        BY <3>1, <3>2
      <3> QED
        BY <3>3 DEF V
    <2> QED
      BY <2>1, <2>2 DEF x, y
  <1>13. \A i \in 1 .. m + n : Bound(fg)[i] =
           IF (p \o q)[i] = Hole THEN (a \o b)[HoleNumber(p \o q, i)] ELSE (p \o q)[i]
    <2>1. fg.parts = p \o q /\ fg.params = a \o b
      BY <1>3
    <2> QED
      BY <1>6, <2>1 DEF Bound
  <1> HIDE DEF fg, m, n
  <1>14. /\ \A i \in 1 .. m : i \in 0 .. m /\ i \in 1 .. m + n
         /\ \A i \in 1 .. n : i \in 0 .. n /\ m + i \in 1 .. m + n
         /\ \A i \in 1 .. m + n : i \in 1 .. m \/ \E k \in 1 .. n : i = m + k
    BY <1>6, ConcatPlaces
  <1>15. ASSUME NEW i \in 1 .. m PROVE Bound(fg)[i] = (Bound(f) \o Bound(g))[i]
    <2>1. HoleNumber(p \o q, i) = HoleNumber(p, i)
      BY <1>8, <1>14
    <2>2. p[i] = Hole => (a \o b)[HoleNumber(p, i)] = a[HoleNumber(p, i)]
      BY <1>4, <1>7
    <2>3. (p \o q)[i] = p[i] /\ i \in 1 .. m + n
      BY <1>6, <1>14
    <2>4. Bound(fg)[i] = Bound(f)[i]
      BY <1>5, <1>13, <2>1, <2>2, <2>3, Zenon
    <2> QED
      BY <1>12, <2>4
  <1>16. ASSUME NEW k \in 1 .. n
         PROVE Bound(fg)[m + k] = (Bound(f) \o Bound(g))[m + k]
    <2>1. HoleNumber(p \o q, m + k) = Len(a) + HoleNumber(q, k)
      BY <1>8, <1>14
    <2>2. q[k] = Hole => (a \o b)[Len(a) + HoleNumber(q, k)] = b[HoleNumber(q, k)]
      BY <1>4, <1>7
    <2>3. (p \o q)[m + k] = q[k] /\ m + k \in 1 .. m + n
      BY <1>6, <1>14
    <2>4. Bound(fg)[m + k] = Bound(g)[k]
      BY <1>5, <1>13, <2>1, <2>2, <2>3, Zenon
    <2> QED
      BY <1>12, <2>4
  <1>17. Bound(fg) = Bound(f) \o Bound(g)
    <2>1. \A i \in 1 .. m + n : Bound(fg)[i] = (Bound(f) \o Bound(g))[i]
      BY <1>14, <1>15, <1>16
    <2> QED
      BY <1>11, <1>12, <2>1, SeqEqual
  <1> QED
    BY <1>9, <1>10, <1>17 DEF fg

(* A template: its pieces of text, each with the value that follows it.        *)
(* However deep the values are nested themselves, what the server reads of the *)
(* whole is the pieces and what it reads of the values, in turn.               *)
Token(s) == IF s = "" THEN <<>> ELSE <<s>>

AreTemplate(T, strings, values) ==
  /\ strings \in Seq(T \ {Hole}) /\ values \in Seq(Fragments(T))
  /\ Len(strings) = Len(values) + 1
  /\ \A i \in 1 .. Len(values) : Balanced(values[i])

LEMMA EmptyList ==
  ASSUME NEW T
  PROVE  <<>> \in Seq(T) /\ Len(<<>>) = 0 /\ \A i \in 1 .. Len(<<>>) : FALSE
  OBVIOUS

LEMMA OneItem ==
  ASSUME NEW T, NEW s \in T
  PROVE  <<s>> \in Seq(T) /\ Len(<<s>>) = 1 /\ \A i \in 1 .. 1 : <<s>>[i] = s
  OBVIOUS

(* A text without a hole, the empty one included, is what it reads.            *)
LEMMA PlainFragment ==
  ASSUME NEW T, NEW p \in Seq(T), \A i \in 1 .. Len(p) : p[i] # Hole
  PROVE  LET f == [parts |-> p, params |-> <<>>] IN
         f \in Fragments(T) /\ Balanced(f) /\ Bound(f) = p
  <1> DEFINE f == [parts |-> p, params |-> <<>>]
  <1>1. f \in Fragments(T)
    BY EmptyList DEF Fragments
  <1>2. Balanced(f)
    <2>1. {j \in 1 .. Len(p) : p[j] = Hole} = {}
      OBVIOUS
    <2>2. HoleNumber(p, Len(p)) = 0
      BY <2>1, FS_EmptySet DEF HoleNumber
    <2> QED
      BY <2>2, EmptyList DEF Balanced
  <1>3. Bound(f) = p
    <2>1. Bound(f) = [i \in 1 .. Len(p) |-> p[i]]
      BY DEF Bound
    <2>2. p = [i \in 1 .. Len(p) |-> p[i]]
      OBVIOUS
    <2> QED
      BY <2>1, <2>2
  <1> QED
    BY <1>1, <1>2, <1>3

LEMMA TokenFragment ==
  ASSUME NEW T, NEW s, s = "" \/ s \in T \ {Hole}
  PROVE  LET f == [parts |-> Token(s), params |-> <<>>] IN
         /\ f \in Fragments(T) /\ Balanced(f) /\ Bound(f) = Token(s) /\ Token(s) \in Seq(T)
  <1>1. Token(s) \in Seq(T) /\ \A i \in 1 .. Len(Token(s)) : Token(s)[i] # Hole
    <2>1. CASE s = ""
      <3>1. Token(s) = <<>>
        BY <2>1, Zenon DEF Token
      <3> QED
        BY <3>1, EmptyList, Zenon
    <2>2. CASE s # ""
      <3>1. Token(s) = <<s>> /\ s \in T /\ s # Hole
        BY <2>2, Zenon DEF Token
      <3> QED
        BY <3>1, OneItem, Zenon
    <2> QED
      BY <2>1, <2>2
  <1> QED
    BY <1>1, PlainFragment, Zenon

(* What is read of the i-th piece and its value.                               *)
PieceRead(strings, values, i) ==
  IF i = Len(strings) THEN Token(strings[i]) ELSE Token(strings[i]) \o Bound(values[i])

THEOREM ConstructBinds ==
  ASSUME NEW T, NEW strings, NEW values, AreTemplate(T, strings, values)
  PROVE  /\ Construct(strings, values) \in Fragments(T) /\ Balanced(Construct(strings, values))
         /\ Bound(Construct(strings, values))
              = FlattenSeq([i \in 1 .. Len(strings) |-> PieceRead(strings, values, i)])
  <1> DEFINE n == Len(values)
             piece == [i \in 1 .. Len(strings) |->
                         Token(strings[i])
                         \o (IF i = Len(strings) THEN <<>> ELSE values[i].parts)]
             param == [i \in 1 .. n |-> values[i].params]
             read == [i \in 1 .. Len(strings) |-> PieceRead(strings, values, i)]
             head(i) == [parts |-> Token(strings[i]), params |-> <<>>]
             whole(i) == Beside(head(i), values[i])
  <1>1. /\ n \in Nat /\ Len(strings) = n + 1
        /\ \A i \in 1 .. n : values[i] \in Fragments(T) /\ Balanced(values[i])
        /\ \A i \in 1 .. n + 1 : strings[i] \in T \ {Hole}
    BY ListFacts DEF AreTemplate
  <1>2. /\ \A i \in 1 .. n : i # n + 1 /\ i \in 1 .. n + 1
        /\ n + 1 \in 1 .. n + 1 /\ n + 1 \in Nat
        /\ \A i \in 1 .. n + 1 : i = n + 1 \/ i \in 1 .. n
    BY <1>1
  <1>3. ASSUME NEW i \in 1 .. n + 1
        PROVE  /\ head(i) \in Fragments(T) /\ Balanced(head(i)) /\ Bound(head(i)) = Token(strings[i])
               /\ Token(strings[i]) \in Seq(T)
    BY <1>1, TokenFragment
  <1>4. ASSUME NEW i \in 1 .. n
        PROVE  /\ whole(i) \in Fragments(T) /\ Balanced(whole(i))
               /\ Bound(whole(i)) = Token(strings[i]) \o Bound(values[i])
               /\ whole(i).parts = piece[i] /\ whole(i).params = param[i]
               /\ read[i] = Bound(whole(i))
    <2>1. /\ values[i] \in Fragments(T) /\ Balanced(values[i])
          /\ head(i) \in Fragments(T) /\ Balanced(head(i)) /\ Bound(head(i)) = Token(strings[i])
      BY <1>1, <1>2, <1>3
    <2>2. /\ whole(i) \in Fragments(T) /\ Balanced(whole(i))
          /\ Bound(whole(i)) = Bound(head(i)) \o Bound(values[i])
      <3> HIDE DEF head
      <3> QED
        BY <2>1, BoundBeside
    <2>3. i \in 1 .. Len(strings) /\ i # Len(strings)
      BY <1>1, <1>2
    <2>4. whole(i).parts = Token(strings[i]) \o values[i].parts
      BY DEF Beside
    <2>5. whole(i).params = values[i].params
      <3>1. whole(i).params = <<>> \o values[i].params
        BY DEF Beside
      <3>2. values[i].params \in Seq(T)
        BY <2>1 DEF Fragments
      <3> QED
        BY <3>1, <3>2
    <2>6. piece[i] = Token(strings[i]) \o values[i].parts
      BY <2>3
    <2>7. read[i] = Token(strings[i]) \o Bound(values[i])
      BY <2>3 DEF PieceRead
    <2> HIDE DEF whole, piece, read, head
    <2> QED
      BY <2>1, <2>2, <2>4, <2>5, <2>6, <2>7
  <1>5. piece[n + 1] = Token(strings[n + 1]) /\ read[n + 1] = Token(strings[n + 1])
    <2>1. piece[n + 1] = Token(strings[n + 1]) \o <<>>
      BY <1>1, <1>2
    <2>2. Token(strings[n + 1]) \in Seq(T)
      BY <1>2, <1>3
    <2>3. Token(strings[n + 1]) \o <<>> = Token(strings[n + 1])
      BY <2>2
    <2>4. read[n + 1] = Token(strings[n + 1])
      BY <1>1, <1>2 DEF PieceRead
    <2> QED
      BY <2>1, <2>3, <2>4
  <1>6. /\ \A i \in 1 .. n + 1 : piece[i] \in Seq(T) /\ read[i] \in Seq(T)
        /\ \A i \in 1 .. n : param[i] \in Seq(T)
    <2>1. ASSUME NEW i \in 1 .. n
          PROVE  piece[i] \in Seq(T) /\ read[i] \in Seq(T) /\ param[i] \in Seq(T)
      <3>1. whole(i) \in Fragments(T) /\ Balanced(whole(i))
        BY <1>4
      <3>2. whole(i).parts \in Seq(T) /\ whole(i).params \in Seq(T) /\ Bound(whole(i)) \in Seq(T)
        <4> HIDE DEF whole
        <4>1. whole(i).parts \in Seq(T) /\ whole(i).params \in Seq(T)
          BY <3>1 DEF Fragments
        <4> QED
          BY <3>1, <4>1, BoundType
      <3> HIDE DEF whole, piece, read, param
      <3> QED
        BY <1>4, <3>2
    <2>2. Token(strings[n + 1]) \in Seq(T)
      BY <1>2, <1>3
    <2> HIDE DEF piece, read, param
    <2> QED
      BY <1>2, <1>5, <2>1, <2>2
  <1>7. /\ piece \in Seq(Seq(T)) /\ Len(piece) = n + 1
        /\ read \in Seq(Seq(T)) /\ Len(read) = n + 1
        /\ param \in Seq(Seq(T)) /\ Len(param) = n
    <2> DEFINE V == Seq(T)
    <2>1. piece \in [1 .. n + 1 -> V] /\ read \in [1 .. n + 1 -> V] /\ param \in [1 .. n -> V]
      <3>1. DOMAIN piece = 1 .. n + 1 /\ DOMAIN read = 1 .. n + 1 /\ DOMAIN param = 1 .. n
        BY <1>1
      <3>2. /\ piece = [i \in 1 .. n + 1 |-> piece[i]] /\ read = [i \in 1 .. n + 1 |-> read[i]]
            /\ param = [i \in 1 .. n |-> param[i]]
        BY <1>1
      <3> HIDE DEF piece, read, param, V
      <3> QED
        BY <1>6, <3>2 DEF V
    <2> HIDE DEF piece, read, param, V, n
    <2>2. n \in Nat /\ n + 1 \in Nat
      BY <1>1
    <2> DEFINE m == n + 1
    <2>3. m \in Nat /\ piece \in [1 .. m -> V] /\ read \in [1 .. m -> V]
      BY <2>1, <2>2
    <2>4. piece \in Seq(V) /\ Len(piece) = m /\ read \in Seq(V) /\ Len(read) = m
      <3> HIDE DEF m
      <3> QED
        BY <2>3
    <2>5. param \in Seq(V) /\ Len(param) = n
      BY <2>1, <2>2
    <2> QED
      BY <2>4, <2>5 DEF V
  <1>8. Construct(strings, values) = [parts |-> FlattenSeq(piece), params |-> FlattenSeq(param)]
    BY DEF Construct, Token
  <1> HIDE DEF piece, param, read
  <1>9. PICK flat : /\ flat \in [0 .. Len(piece) -> Seq(T)] /\ flat[0] = <<>>
                    /\ \A k \in 1 .. Len(piece) : flat[k] = flat[k - 1] \o piece[k]
                    /\ FlattenSeq(piece) = flat[Len(piece)]
    BY <1>7, Flattening
  <1>10. PICK given : /\ given \in [0 .. Len(param) -> Seq(T)] /\ given[0] = <<>>
                      /\ \A k \in 1 .. Len(param) : given[k] = given[k - 1] \o param[k]
                      /\ FlattenSeq(param) = given[Len(param)]
    BY <1>7, Flattening
  <1>11. PICK seen : /\ seen \in [0 .. Len(read) -> Seq(T)] /\ seen[0] = <<>>
                     /\ \A k \in 1 .. Len(read) : seen[k] = seen[k - 1] \o read[k]
                     /\ FlattenSeq(read) = seen[Len(read)]
    BY <1>7, Flattening
  <1> DEFINE F(k) == [parts |-> flat[k], params |-> given[k]]
             Good == {k \in 0 .. n : F(k) \in Fragments(T) /\ Balanced(F(k)) /\ Bound(F(k)) = seen[k]}
  <1>12. 0 \in Good
    <2>1. F(0) = [parts |-> <<>>, params |-> <<>>] /\ seen[0] = <<>>
      BY <1>9, <1>10, <1>11
    <2>2. Token("") = <<>>
      BY DEF Token
    <2>4. F(0) = [parts |-> Token(""), params |-> <<>>]
      BY <2>1, <2>2
    <2>5. F(0) \in Fragments(T) /\ Balanced(F(0)) /\ Bound(F(0)) = Token("")
      <3> HIDE DEF F
      <3> QED
        BY <2>4, TokenFragment
    <2>6. 0 \in 0 .. n
      BY <1>1
    <2> HIDE DEF F
    <2> QED
      BY <2>1, <2>2, <2>5, <2>6
  <1>13. ASSUME NEW k \in 1 .. n, k - 1 \in Good PROVE k \in Good
    <2>1. F(k - 1) \in Fragments(T) /\ Balanced(F(k - 1)) /\ Bound(F(k - 1)) = seen[k - 1]
      BY <1>13
    <2>2. /\ whole(k) \in Fragments(T) /\ Balanced(whole(k))
          /\ whole(k).parts = piece[k] /\ whole(k).params = param[k] /\ read[k] = Bound(whole(k))
      <3> HIDE DEF whole
      <3> QED
        BY <1>4
    <2>3. /\ flat[k] = flat[k - 1] \o piece[k] /\ given[k] = given[k - 1] \o param[k]
          /\ seen[k] = seen[k - 1] \o read[k]
      BY <1>2, <1>7, <1>9, <1>10, <1>11
    <2>4. F(k) = Beside(F(k - 1), whole(k))
      <3> HIDE DEF whole
      <3> QED
        BY <2>2, <2>3 DEF Beside
    <2> HIDE DEF whole, F
    <2>5. F(k) \in Fragments(T) /\ Balanced(F(k)) /\ Bound(F(k)) = Bound(F(k - 1)) \o Bound(whole(k))
      BY <2>1, <2>2, <2>4, BoundBeside
    <2>6. Bound(F(k)) = seen[k]
      BY <2>1, <2>2, <2>3, <2>5
    <2>7. k \in 0 .. n
      BY <1>1
    <2> QED
      BY <2>5, <2>6, <2>7
  <1>14. n \in Good
    <2>1. n \in 0 .. n
      BY <1>1
    <2> HIDE DEF Good
    <2> QED
      BY <1>1, <1>12, <1>13, <2>1, UpTo
  <1>15. Construct(strings, values) = Beside(F(n), head(n + 1))
    <2>1. FlattenSeq(piece) = flat[n] \o piece[n + 1]
      <3>1. (n + 1) - 1 = n
        BY <1>1
      <3> QED
        BY <1>2, <1>7, <1>9, <3>1
    <2>2. FlattenSeq(param) = given[n] \o <<>>
      <3>1. given[n] \in Seq(T)
        <4>1. n \in 0 .. n /\ Len(param) = n
          BY <1>1, <1>7
        <4> HIDE DEF n
        <4> QED
          BY <1>10, <4>1
      <3>2. given[n] \o <<>> = given[n]
        BY <3>1
      <3> QED
        BY <1>7, <1>10, <3>2
    <2> QED
      BY <1>5, <1>8, <2>1, <2>2 DEF Beside
  <1>16. FlattenSeq(read) = seen[n] \o Token(strings[n + 1])
    <2>1. (n + 1) - 1 = n
      BY <1>1
    <2> QED
      BY <1>2, <1>5, <1>7, <1>11, <2>1
  <1>17. F(n) \in Fragments(T) /\ Balanced(F(n)) /\ Bound(F(n)) = seen[n]
    BY <1>14
  <1>18. /\ head(n + 1) \in Fragments(T) /\ Balanced(head(n + 1))
         /\ Bound(head(n + 1)) = Token(strings[n + 1])
    BY <1>2, <1>3
  <1> HIDE DEF F, head
  <1> QED
    BY <1>15, <1>16, <1>17, <1>18, BoundBeside DEF read

(* A bound value: one hole, which is read as the value.  With ConstructBinds,  *)
(* this is every fragment the builders write: Raw, Parens and JoinedBy are     *)
(* templates too.                                                              *)
THEOREM ParameterBinds ==
  ASSUME NEW T, Hole \in T, NEW value \in T
  PROVE  P(value) \in Fragments(T) /\ Balanced(P(value)) /\ Bound(P(value)) = <<value>>
  <1>1. /\ <<Hole>> \in Seq(T) /\ Len(<<Hole>>) = 1 /\ \A i \in 1 .. 1 : <<Hole>>[i] = Hole
        /\ <<value>> \in Seq(T) /\ Len(<<value>>) = 1 /\ \A i \in 1 .. 1 : <<value>>[i] = value
    BY OneItem
  <1>2. HoleNumber(<<Hole>>, 1) = 1
    <2>1. {j \in 1 .. 1 : <<Hole>>[j] = Hole} = {1}
      BY <1>1
    <2> QED
      BY <2>1, FS_Singleton DEF HoleNumber
  <1>3. P(value).parts = <<Hole>> /\ P(value).params = <<value>>
    BY DEF P
  <1>4. P(value) \in Fragments(T)
    BY <1>1 DEF Fragments, P
  <1>5. Balanced(P(value))
    BY <1>1, <1>2, <1>3 DEF Balanced
  <1>6. Bound(P(value)) = <<value>>
    <2>1. Bound(P(value)) = [i \in 1 .. 1 |->
             IF <<Hole>>[i] = Hole THEN <<value>>[HoleNumber(<<Hole>>, i)] ELSE <<Hole>>[i]]
      BY <1>1, <1>3 DEF Bound
    <2>2. Bound(P(value)) = [i \in 1 .. 1 |-> <<value>>[i]]
      BY <1>1, <1>2, <2>1
    <2>3. <<value>> = [i \in 1 .. 1 |-> <<value>>[i]]
      BY <1>1
    <2> QED
      BY <2>2, <2>3
  <1> QED
    BY <1>4, <1>5, <1>6

--------------------------------------------------------------------------------
(* Templates of a few pieces, over any tokens.                                 *)

\* Every word there may be in a statement.
Tokens == STRING \cup Keywords \cup Words

IsFragment(f) == f \in Fragments(Tokens) /\ Balanced(f)

\* The text of a template, piece by piece, and what is read of it.
IsAssembly(flat, strings, values) ==
  /\ flat[0] = <<>>
  /\ \A n \in 1 .. Len(values) :
       flat[n] = flat[n - 1] \o (Token(strings[n]) \o Bound(values[n]))
  /\ Bound(Construct(strings, values)) = flat[Len(values)] \o Token(strings[Len(values) + 1])

LEMMA Assembly ==
  ASSUME NEW strings, NEW values, AreTemplate(Tokens, strings, values)
  PROVE  /\ IsFragment(Construct(strings, values))
         /\ \E flat \in [0 .. Len(values) -> Seq(Tokens)] : IsAssembly(flat, strings, values)
         /\ \A n \in 1 .. Len(values) : Bound(values[n]) \in Seq(Tokens)
         /\ \A n \in 1 .. Len(values) + 1 : Token(strings[n]) \in Seq(Tokens)
  <1> DEFINE N == Len(values)
             reads == [i \in 1 .. Len(strings) |-> PieceRead(strings, values, i)]
  <1>1. /\ N \in Nat /\ Len(strings) = N + 1
        /\ \A i \in 1 .. N : values[i] \in Fragments(Tokens) /\ Balanced(values[i])
        /\ \A i \in 1 .. N + 1 : strings[i] \in Tokens \ {Hole}
    BY ListFacts DEF AreTemplate
  <1>2. /\ \A i \in 1 .. N : i # N + 1 /\ i \in 1 .. N + 1 /\ i - 1 \in 0 .. N /\ i \in 0 .. N
        /\ N + 1 \in 1 .. N + 1 /\ (N + 1) - 1 = N /\ N \in 0 .. N /\ N + 1 \in Nat
        /\ \A i \in 1 .. N + 1 : i = N + 1 \/ i \in 1 .. N
        /\ \A i \in 0 .. N : i \in 0 .. N + 1
    BY <1>1
  <1>3. \A i \in 1 .. N + 1 : Token(strings[i]) \in Seq(Tokens)
    BY <1>1, TokenFragment
  <1>4. \A i \in 1 .. N : Bound(values[i]) \in Seq(Tokens)
    BY <1>1, BoundType
  <1>5. /\ \A i \in 1 .. N : reads[i] = Token(strings[i]) \o Bound(values[i])
        /\ reads[N + 1] = Token(strings[N + 1])
    <2> HIDE DEF N
    <2> QED
      BY <1>1, <1>2 DEF PieceRead
  <1>6. reads \in Seq(Seq(Tokens)) /\ Len(reads) = N + 1
    <2> DEFINE V == Seq(Tokens)
    <2>1. \A i \in 1 .. N + 1 : reads[i] \in V
      <3> HIDE DEF reads, N
      <3>1. \A i \in 1 .. N : reads[i] \in V
        <4> SUFFICES ASSUME NEW i \in 1 .. N PROVE reads[i] \in V
          OBVIOUS
        <4>1. Token(strings[i]) \in V /\ Bound(values[i]) \in V
          BY <1>2, <1>3, <1>4, Zenon
        <4>2. Token(strings[i]) \o Bound(values[i]) \in V
          BY <4>1, ConcatProperties, Zenon
        <4> QED
          BY <1>5, <4>2, Zenon
      <3>2. reads[N + 1] \in V
        BY <1>2, <1>3, <1>5, Zenon
      <3> QED
        BY <1>2, <3>1, <3>2, Zenon
    <2>2. reads = [i \in 1 .. N + 1 |-> reads[i]]
      BY <1>1
    <2> HIDE DEF reads, N, V
    <2>3. reads \in [1 .. N + 1 -> V]
      BY <2>1, <2>2
    <2>4. reads \in Seq(V) /\ Len(reads) = N + 1
      BY <1>2, <2>3, SeqDef, LenProperties
    <2> QED
      BY <2>4 DEF V
  <1>7. /\ Construct(strings, values) \in Fragments(Tokens)
        /\ Balanced(Construct(strings, values))
        /\ Bound(Construct(strings, values)) = FlattenSeq(reads)
    BY ConstructBinds
  <1> HIDE DEF reads
  <1>8. PICK whole : /\ whole \in [0 .. Len(reads) -> Seq(Tokens)]
                     /\ whole[0] = <<>>
                     /\ \A n \in 1 .. Len(reads) : whole[n] = whole[n - 1] \o reads[n]
                     /\ FlattenSeq(reads) = whole[Len(reads)]
    BY <1>6, Flattening
  <1> DEFINE flat == [n \in 0 .. N |-> whole[n]]
  <1> HIDE DEF N
  <1>9. whole \in [0 .. N + 1 -> Seq(Tokens)]
    BY <1>6, <1>8
  <1>10. /\ \A n \in 0 .. N : flat[n] = whole[n] /\ whole[n] \in Seq(Tokens)
         /\ flat \in [0 .. N -> Seq(Tokens)]
    BY <1>2, <1>9
  <1>11. \A n \in 1 .. N : whole[n] = whole[n - 1] \o reads[n]
    BY <1>2, <1>6, <1>8
  <1>12. FlattenSeq(reads) = whole[N] \o reads[N + 1]
    BY <1>2, <1>6, <1>8
  <1>13. flat[0] = <<>>
    <2>1. 0 \in 0 .. N
      BY <1>1
    <2> QED
      BY <1>8, <1>10, <2>1
  <1> HIDE DEF flat
  <1>14. \A n \in 1 .. N : flat[n] = flat[n - 1] \o (Token(strings[n]) \o Bound(values[n]))
    BY <1>2, <1>5, <1>10, <1>11
  <1>15. Bound(Construct(strings, values)) = flat[N] \o Token(strings[N + 1])
    BY <1>2, <1>5, <1>7, <1>10, <1>12
  <1>16. IsAssembly(flat, strings, values)
    BY <1>13, <1>14, <1>15 DEF IsAssembly, N
  <1> QED
    BY <1>3, <1>4, <1>7, <1>10, <1>16 DEF IsFragment, N

(* Lists of one to six items.                                                  *)
LEMMA Listed ==
  ASSUME NEW S, NEW a \in S, NEW b \in S, NEW c \in S, NEW d \in S, NEW e \in S, NEW f \in S
  PROVE  /\ <<a>> \in Seq(S) /\ <<a, b>> \in Seq(S) /\ <<a, b, c>> \in Seq(S)
         /\ <<a, b, c, d>> \in Seq(S) /\ <<a, b, c, d, e>> \in Seq(S)
         /\ <<a, b, c, d, e, f>> \in Seq(S)
         /\ Len(<<a>>) = 1 /\ Len(<<a, b>>) = 2 /\ Len(<<a, b, c>>) = 3
         /\ Len(<<a, b, c, d>>) = 4 /\ Len(<<a, b, c, d, e>>) = 5
         /\ Len(<<a, b, c, d, e, f>>) = 6
  OBVIOUS

LEMMA Template1 ==
  ASSUME NEW s \in Tokens \ {Hole}
  PROVE  /\ IsFragment(Construct(<<s>>, <<>>))
         /\ Bound(Construct(<<s>>, <<>>)) = Token(s)
  <1> DEFINE S == Tokens \ {Hole}  F == Fragments(Tokens)  strings == <<s>>  values == <<>>
  <1>1. strings \in Seq(S) /\ Len(strings) = 1 /\ strings[1] = s
    <2>1. s \in S
      OBVIOUS
    <2> HIDE DEF S
    <2> QED
      BY <2>1, Listed
  <1>2. values \in Seq(F) /\ Len(values) = 0
    <2> HIDE DEF F
    <2> QED
      BY EmptyList
  <1> HIDE DEF strings, values
  <1>3. AreTemplate(Tokens, strings, values)
    BY <1>1, <1>2 DEF AreTemplate
  <1>4. PICK flat : IsAssembly(flat, strings, values)
    BY <1>3, Assembly
  <1>5. /\ flat[0] = <<>>
        /\ Bound(Construct(strings, values)) = flat[0] \o Token(s)
    <2>1. 0 + 1 = 1
      OBVIOUS
    <2> QED
      BY <1>1, <1>2, <1>4, <2>1 DEF IsAssembly
  <1>6. Token(s) \in Seq(Tokens)
    BY TokenFragment
  <1>7. Bound(Construct(strings, values)) = Token(s)
    BY <1>5, <1>6, ConcatEmptySeq
  <1>8. IsFragment(Construct(strings, values))
    BY <1>3, Assembly
  <1> QED
    BY <1>7, <1>8 DEF strings, values

LEMMA Template2 ==
  ASSUME NEW s \in Tokens \ {Hole}, NEW t \in Tokens \ {Hole}, NEW a,
         IsFragment(a)
  PROVE  /\ IsFragment(Construct(<<s, t>>, <<a>>))
         /\ Bound(Construct(<<s, t>>, <<a>>))
              = (Token(s) \o Bound(a)) \o Token(t)
  <1> DEFINE S == Tokens \ {Hole}  F == Fragments(Tokens)
             strings == <<s, t>>  values == <<a>>
  <1>1. /\ strings \in Seq(S) /\ Len(strings) = 2
        /\ strings[1] = s /\ strings[2] = t
    <2>1. s \in S /\ t \in S
      OBVIOUS
    <2> HIDE DEF S
    <2> QED
      BY <2>1, Listed
  <1>2. /\ values \in Seq(F) /\ Len(values) = 1
        /\ values[1] = a
    <2>1. a \in F
      BY DEF IsFragment
    <2> HIDE DEF F
    <2> QED
      BY <2>1, Listed
  <1> HIDE DEF strings, values
  <1>3. \A n \in 1 .. 1 : n = 1
    OBVIOUS
  <1>4. AreTemplate(Tokens, strings, values)
    <2>1. 2 = 1 + 1
      OBVIOUS
    <2>2. \A n \in 1 .. Len(values) : Balanced(values[n])
      BY <1>2, <1>3 DEF IsFragment
    <2> QED
      BY <1>1, <1>2, <2>1, <2>2 DEF AreTemplate
  <1>5. PICK flat : IsAssembly(flat, strings, values)
    BY <1>4, Assembly
  <1>6. /\ 1 + 1 = 2
        /\ 1 - 1 = 0 /\ 1 \in 1 .. 1
    OBVIOUS
  <1>7. /\ flat[0] = <<>>
        /\ flat[1] = flat[0] \o (Token(s) \o Bound(a))
        /\ Bound(Construct(strings, values)) = flat[1] \o Token(t)
    BY <1>1, <1>2, <1>5, <1>6 DEF IsAssembly
  <1>8. Token(s) \o Bound(a) \in Seq(Tokens)
    BY TokenFragment, BoundType, ConcatProperties DEF IsFragment
  <1>9. <<>> \o (Token(s) \o Bound(a)) = Token(s) \o Bound(a)
    BY <1>8, ConcatEmptySeq
  <1>10. Bound(Construct(strings, values)) = (Token(s) \o Bound(a)) \o Token(t)
    BY <1>7, <1>9, Zenon
  <1>11. IsFragment(Construct(strings, values))
    BY <1>4, Assembly
  <1> QED
    BY <1>10, <1>11 DEF strings, values

Text3(s, t, u, a, b) ==
  (Token(s) \o Bound(a)) \o (Token(t) \o Bound(b)) \o Token(u)

LEMMA Template3 ==
  ASSUME NEW s \in Tokens \ {Hole}, NEW t \in Tokens \ {Hole},
         NEW u \in Tokens \ {Hole}, NEW a, NEW b, IsFragment(a), IsFragment(b)
  PROVE  /\ IsFragment(Construct(<<s, t, u>>, <<a, b>>))
         /\ Bound(Construct(<<s, t, u>>, <<a, b>>))
              = Text3(s, t, u, a, b)
  <1> DEFINE S == Tokens \ {Hole}  F == Fragments(Tokens)
             strings == <<s, t, u>>  values == <<a, b>>
  <1>1. /\ strings \in Seq(S) /\ Len(strings) = 3
        /\ strings[1] = s /\ strings[2] = t /\ strings[3] = u
    <2>1. s \in S /\ t \in S /\ u \in S
      OBVIOUS
    <2> HIDE DEF S
    <2> QED
      BY <2>1, Listed
  <1>2. /\ values \in Seq(F) /\ Len(values) = 2
        /\ values[1] = a /\ values[2] = b
    <2>1. a \in F /\ b \in F
      BY DEF IsFragment
    <2> HIDE DEF F
    <2> QED
      BY <2>1, Listed
  <1> HIDE DEF strings, values
  <1>3. \A n \in 1 .. 2 : n = 1 \/ n = 2
    OBVIOUS
  <1>4. AreTemplate(Tokens, strings, values)
    <2>1. 3 = 2 + 1
      OBVIOUS
    <2>2. \A n \in 1 .. Len(values) : Balanced(values[n])
      BY <1>2, <1>3 DEF IsFragment
    <2> QED
      BY <1>1, <1>2, <2>1, <2>2 DEF AreTemplate
  <1>5. PICK flat : IsAssembly(flat, strings, values)
    BY <1>4, Assembly
  <1>6. /\ 2 + 1 = 3
        /\ 1 - 1 = 0 /\ 1 \in 1 .. 2
        /\ 2 - 1 = 1 /\ 2 \in 1 .. 2
    OBVIOUS
  <1>7. /\ flat[0] = <<>>
        /\ flat[1] = flat[0] \o (Token(s) \o Bound(a))
        /\ flat[2] = flat[1] \o (Token(t) \o Bound(b))
        /\ Bound(Construct(strings, values)) = flat[2] \o Token(u)
    BY <1>1, <1>2, <1>5, <1>6 DEF IsAssembly
  <1>8. Token(s) \o Bound(a) \in Seq(Tokens)
    BY TokenFragment, BoundType, ConcatProperties DEF IsFragment
  <1>9. <<>> \o (Token(s) \o Bound(a)) = Token(s) \o Bound(a)
    BY <1>8, ConcatEmptySeq
  <1>10. Bound(Construct(strings, values)) = (Token(s) \o Bound(a)) \o (Token(t) \o Bound(b)) \o Token(u)
    BY <1>7, <1>9, Zenon
  <1>11. IsFragment(Construct(strings, values))
    BY <1>4, Assembly
  <1>12. Bound(Construct(strings, values)) = Text3(s, t, u, a, b)
    BY <1>10, Zenon DEF Text3
  <1> QED
    BY <1>11, <1>12 DEF strings, values

Text4(s, t, u, w, a, b, c) ==
  (Token(s) \o Bound(a)) \o (Token(t) \o Bound(b)) \o (Token(u) \o Bound(c))
  \o Token(w)

LEMMA Template4 ==
  ASSUME NEW s \in Tokens \ {Hole}, NEW t \in Tokens \ {Hole},
         NEW u \in Tokens \ {Hole}, NEW w \in Tokens \ {Hole}, NEW a, NEW b,
         NEW c, IsFragment(a), IsFragment(b), IsFragment(c)
  PROVE  /\ IsFragment(Construct(<<s, t, u, w>>, <<a, b, c>>))
         /\ Bound(Construct(<<s, t, u, w>>, <<a, b, c>>))
              = Text4(s, t, u, w, a, b, c)
  <1> DEFINE S == Tokens \ {Hole}  F == Fragments(Tokens)
             strings == <<s, t, u, w>>  values == <<a, b, c>>
  <1>1. /\ strings \in Seq(S) /\ Len(strings) = 4
        /\ strings[1] = s /\ strings[2] = t /\ strings[3] = u /\ strings[4] = w
    <2>1. s \in S /\ t \in S /\ u \in S /\ w \in S
      OBVIOUS
    <2> HIDE DEF S
    <2> QED
      BY <2>1, Listed
  <1>2. /\ values \in Seq(F) /\ Len(values) = 3
        /\ values[1] = a /\ values[2] = b /\ values[3] = c
    <2>1. a \in F /\ b \in F /\ c \in F
      BY DEF IsFragment
    <2> HIDE DEF F
    <2> QED
      BY <2>1, Listed
  <1> HIDE DEF strings, values
  <1>3. \A n \in 1 .. 3 : n = 1 \/ n = 2 \/ n = 3
    OBVIOUS
  <1>4. AreTemplate(Tokens, strings, values)
    <2>1. 4 = 3 + 1
      OBVIOUS
    <2>2. \A n \in 1 .. Len(values) : Balanced(values[n])
      BY <1>2, <1>3 DEF IsFragment
    <2> QED
      BY <1>1, <1>2, <2>1, <2>2 DEF AreTemplate
  <1>5. PICK flat : IsAssembly(flat, strings, values)
    BY <1>4, Assembly
  <1>6. /\ 3 + 1 = 4
        /\ 1 - 1 = 0 /\ 1 \in 1 .. 3
        /\ 2 - 1 = 1 /\ 2 \in 1 .. 3
        /\ 3 - 1 = 2 /\ 3 \in 1 .. 3
    OBVIOUS
  <1>7. /\ flat[0] = <<>>
        /\ flat[1] = flat[0] \o (Token(s) \o Bound(a))
        /\ flat[2] = flat[1] \o (Token(t) \o Bound(b))
        /\ flat[3] = flat[2] \o (Token(u) \o Bound(c))
        /\ Bound(Construct(strings, values)) = flat[3] \o Token(w)
    BY <1>1, <1>2, <1>5, <1>6 DEF IsAssembly
  <1>8. Token(s) \o Bound(a) \in Seq(Tokens)
    BY TokenFragment, BoundType, ConcatProperties DEF IsFragment
  <1>9. <<>> \o (Token(s) \o Bound(a)) = Token(s) \o Bound(a)
    BY <1>8, ConcatEmptySeq
  <1>10. Bound(Construct(strings, values)) = 
           (Token(s) \o Bound(a)) \o (Token(t) \o Bound(b)) \o (Token(u) \o Bound(c))
           \o Token(w)
    BY <1>7, <1>9, Zenon
  <1>11. IsFragment(Construct(strings, values))
    BY <1>4, Assembly
  <1>12. Bound(Construct(strings, values)) = Text4(s, t, u, w, a, b, c)
    BY <1>10, Zenon DEF Text4
  <1> QED
    BY <1>11, <1>12 DEF strings, values

Text6(s, t, u, w, x, y, a, b, c, d, e) ==
  (Token(s) \o Bound(a)) \o (Token(t) \o Bound(b)) \o (Token(u) \o Bound(c))
  \o (Token(w) \o Bound(d)) \o (Token(x) \o Bound(e)) \o Token(y)

LEMMA Template6 ==
  ASSUME NEW s \in Tokens \ {Hole}, NEW t \in Tokens \ {Hole},
         NEW u \in Tokens \ {Hole}, NEW w \in Tokens \ {Hole},
         NEW x \in Tokens \ {Hole}, NEW y \in Tokens \ {Hole}, NEW a, NEW b,
         NEW c, NEW d, NEW e, IsFragment(a), IsFragment(b), IsFragment(c),
         IsFragment(d), IsFragment(e)
  PROVE  /\ IsFragment(Construct(<<s, t, u, w, x, y>>, <<a, b, c, d, e>>))
         /\ Bound(Construct(<<s, t, u, w, x, y>>, <<a, b, c, d, e>>))
              = Text6(s, t, u, w, x, y, a, b, c, d, e)
  <1> DEFINE S == Tokens \ {Hole}  F == Fragments(Tokens)
             strings == <<s, t, u, w, x, y>>  values == <<a, b, c, d, e>>
  <1>1. /\ strings \in Seq(S) /\ Len(strings) = 6
        /\ strings[1] = s /\ strings[2] = t /\ strings[3] = u /\
         strings[4] = w /\ strings[5] = x /\ strings[6] = y
    <2>1. s \in S /\ t \in S /\ u \in S /\ w \in S /\ x \in S /\ y \in S
      OBVIOUS
    <2> HIDE DEF S
    <2> QED
      BY <2>1, Listed
  <1>2. /\ values \in Seq(F) /\ Len(values) = 5
        /\ values[1] = a /\ values[2] = b /\ values[3] = c /\ values[4] = d /\
         values[5] = e
    <2>1. a \in F /\ b \in F /\ c \in F /\ d \in F /\ e \in F
      BY DEF IsFragment
    <2> HIDE DEF F
    <2> QED
      BY <2>1, Listed
  <1> HIDE DEF strings, values
  <1>3. \A n \in 1 .. 5 : n = 1 \/ n = 2 \/ n = 3 \/ n = 4 \/ n = 5
    OBVIOUS
  <1>4. AreTemplate(Tokens, strings, values)
    <2>1. 6 = 5 + 1
      OBVIOUS
    <2>2. \A n \in 1 .. Len(values) : Balanced(values[n])
      BY <1>2, <1>3 DEF IsFragment
    <2> QED
      BY <1>1, <1>2, <2>1, <2>2 DEF AreTemplate
  <1>5. PICK flat : IsAssembly(flat, strings, values)
    BY <1>4, Assembly
  <1>6. /\ 5 + 1 = 6
        /\ 1 - 1 = 0 /\ 1 \in 1 .. 5
        /\ 2 - 1 = 1 /\ 2 \in 1 .. 5
        /\ 3 - 1 = 2 /\ 3 \in 1 .. 5
        /\ 4 - 1 = 3 /\ 4 \in 1 .. 5
        /\ 5 - 1 = 4 /\ 5 \in 1 .. 5
    OBVIOUS
  <1>7. /\ flat[0] = <<>>
        /\ flat[1] = flat[0] \o (Token(s) \o Bound(a))
        /\ flat[2] = flat[1] \o (Token(t) \o Bound(b))
        /\ flat[3] = flat[2] \o (Token(u) \o Bound(c))
        /\ flat[4] = flat[3] \o (Token(w) \o Bound(d))
        /\ flat[5] = flat[4] \o (Token(x) \o Bound(e))
        /\ Bound(Construct(strings, values)) = flat[5] \o Token(y)
    BY <1>1, <1>2, <1>5, <1>6 DEF IsAssembly
  <1>8. Token(s) \o Bound(a) \in Seq(Tokens)
    BY TokenFragment, BoundType, ConcatProperties DEF IsFragment
  <1>9. <<>> \o (Token(s) \o Bound(a)) = Token(s) \o Bound(a)
    BY <1>8, ConcatEmptySeq
  <1>10. Bound(Construct(strings, values)) = 
           (Token(s) \o Bound(a)) \o (Token(t) \o Bound(b)) \o (Token(u) \o Bound(c))
           \o (Token(w) \o Bound(d)) \o (Token(x) \o Bound(e)) \o Token(y)
    BY <1>7, <1>9, Zenon
  <1>11. IsFragment(Construct(strings, values))
    BY <1>4, Assembly
  <1>12. Bound(Construct(strings, values)) = Text6(s, t, u, w, x, y, a, b, c, d, e)
    BY <1>10, Zenon DEF Text6
  <1> QED
    BY <1>11, <1>12 DEF strings, values

--------------------------------------------------------------------------------
(* The tokens of a statement, told apart.                                      *)
Blank == ""
Comma == ","

LEMMA TokensApart ==
  /\ Plain \subseteq Tokens /\ Keywords \subseteq Tokens /\ Words \subseteq Tokens
  /\ \A s \in Keywords : s \in Tokens \ {Hole} /\ Token(s) = <<s>>
  /\ \A s \in Words \ {Hole, Blank} : s \in Tokens \ {Hole} /\ Token(s) = <<s>>
  /\ \A s \in Plain : /\ s \in Tokens \ {Hole} /\ Token(s) = <<s>>
                      /\ s \notin Keywords /\ s \notin Words
  /\ \A s \in Words : s \notin Keywords
  /\ Blank \in Tokens \ {Hole} /\ Token(Blank) = <<>>
  /\ Comma \in Words \ {Hole, Blank}
  <1>1. /\ Plain \subseteq Tokens /\ Keywords \subseteq Tokens /\ Words \subseteq Tokens
    BY Zenon DEF Tokens, Plain
  <1>2. \A s \in Keywords : s # Hole /\ s # ""
    BY Zenon DEF Keywords, Hole
  <1>3. \A s \in Words : s \notin Keywords
    BY Zenon DEF Keywords, Words, Hole
  <1>4. "" # Hole
    BY Zenon DEF Hole
  <1>5. "" \in Words /\ Hole \in Words
    BY Zenon DEF Words
  <1>6. Comma \in Words /\ Comma # Hole /\ Comma # ""
    BY Zenon DEF Words, Comma, Hole
  <1>7. \A s : s # "" => Token(s) = <<s>>
    BY Zenon DEF Token
  <1>8. Token("") = <<>>
    BY Zenon DEF Token
  <1>9. \A s \in Plain : s \notin Keywords /\ s \notin Words
    BY Zenon DEF Plain
  <1>10. \A s \in Plain : s # "" /\ s # Hole
    BY <1>5, <1>9, Zenon
  <1> QED
    BY <1>1, <1>2, <1>3, <1>4, <1>5, <1>6, <1>7, <1>8, <1>9, <1>10, Zenon DEF Blank

LEMMA RawBinds ==
  /\ \A s \in Tokens \ {Hole} : IsFragment(Raw(s)) /\ Bound(Raw(s)) = Token(s)
  /\ \A s \in Plain \cup (Words \ {Hole, Blank}) :
       IsFragment(Raw(s)) /\ Bound(Raw(s)) = <<s>>
  /\ IsFragment(Raw("")) /\ Bound(Raw("")) = <<>>
  <1>1. \A s \in Tokens \ {Hole} : IsFragment(Raw(s)) /\ Bound(Raw(s)) = Token(s)
    BY Template1, Zenon DEF Raw
  <1> QED
    BY <1>1, TokensApart, Zenon DEF Blank

LEMMA HoleBinds ==
  ASSUME NEW s \in Tokens
  PROVE  IsFragment(P(s)) /\ Bound(P(s)) = <<s>>
  <1>1. Hole \in Tokens
    BY Zenon DEF Tokens, Words
  <1> QED
    BY <1>1, ParameterBinds DEF IsFragment

(* The text of a list: its items with a comma before all but the first.        *)
ItemText(items, n) == (IF n = 1 THEN <<>> ELSE <<",">>) \o items[n]

IsListWalk(flat, items) ==
  /\ flat \in [0 .. Len(items) -> Seq(Tokens)] /\ flat[0] = <<>>
  /\ \A n \in 1 .. Len(items) : flat[n] = flat[n - 1] \o ItemText(items, n)

IsListText(text, items) == \E flat : IsListWalk(flat, items) /\ text = flat[Len(items)]

LEMMA Framed ==
  ASSUME NEW S, NEW b \in S, NEW c \in S, NEW N \in Nat, N # 0
  PROVE  LET strings == <<b>> \o [i \in 1 .. N - 1 |-> c] \o <<b>> IN
         /\ strings \in Seq(S) /\ Len(strings) = N + 1
         /\ strings[1] = b /\ strings[N + 1] = b
         /\ \A n \in 2 .. N : strings[n] = c
  <1> DEFINE one == <<b>>  many == [i \in 1 .. N - 1 |-> c]
             start == one \o many  all == start \o one
  <1>1. one \in Seq(S) /\ Len(one) = 1 /\ one[1] = b
    BY Listed
  <1>2. N - 1 \in Nat
    OBVIOUS
  <1>3. many \in [1 .. N - 1 -> S] /\ \A i \in 1 .. N - 1 : many[i] = c
    OBVIOUS
  <1> HIDE DEF one, many
  <1>4. many \in Seq(S) /\ Len(many) = N - 1
    BY <1>2, <1>3, SeqDef, LenProperties
  <1>5. one \in Seq(S) /\ many \in Seq(S)
    BY <1>1, <1>4
  <1>6. /\ start \in Seq(S) /\ Len(start) = Len(one) + Len(many)
        /\ \A i \in 1 .. Len(one) : start[i] = one[i]
        /\ \A i \in 1 .. Len(many) : start[Len(one) + i] = many[i]
    <2>1. start \in Seq(S) /\ Len(start) = Len(one) + Len(many)
      BY <1>5, ConcatFacts
    <2>2. \A i \in 1 .. Len(one) : start[i] = one[i]
      BY <1>5, ConcatFacts
    <2>3. \A i \in 1 .. Len(many) : start[Len(one) + i] = many[i]
      BY <1>5, ConcatFacts
    <2> QED
      BY <2>1, <2>2, <2>3
  <1> HIDE DEF start
  <1>7. start \in Seq(S) /\ one \in Seq(S)
    BY <1>1, <1>6
  <1>8. /\ all \in Seq(S) /\ Len(all) = Len(start) + Len(one)
        /\ \A i \in 1 .. Len(start) : all[i] = start[i]
        /\ \A i \in 1 .. Len(one) : all[Len(start) + i] = one[i]
    <2>1. all \in Seq(S) /\ Len(all) = Len(start) + Len(one)
      BY <1>7, ConcatFacts
    <2>2. \A i \in 1 .. Len(start) : all[i] = start[i]
      BY <1>7, ConcatFacts
    <2>3. \A i \in 1 .. Len(one) : all[Len(start) + i] = one[i]
      BY <1>7, ConcatFacts
    <2> QED
      BY <2>1, <2>2, <2>3
  <1> HIDE DEF all
  <1>9. Len(start) = N
    BY <1>1, <1>4, <1>6
  <1>10. 1 \in 1 .. 1 /\ 1 \in 1 .. N
    OBVIOUS
  <1>11. start[1] = b /\ all[N + 1] = b /\ Len(all) = N + 1
    BY <1>1, <1>6, <1>8, <1>9, <1>10
  <1>12. ASSUME NEW n \in 2 .. N PROVE all[n] = c
    <2>1. n \in 1 .. N /\ n - 1 \in 1 .. N - 1 /\ 1 + (n - 1) = n
      OBVIOUS
    <2>2. all[n] = start[n]
      BY <1>8, <1>9, <2>1
    <2>3. start[1 + (n - 1)] = many[n - 1]
      BY <1>1, <1>4, <1>6, <2>1
    <2> QED
      BY <1>3, <2>1, <2>2, <2>3
  <1>13. all[1] = b
    BY <1>8, <1>9, <1>10, <1>11
  <1> QED
    BY <1>8, <1>11, <1>12, <1>13 DEF all, start, one, many

LEMMA JoinReads ==
  ASSUME NEW N \in Nat, NEW fs \in [1 .. N -> Fragments(Tokens)],
         \A i \in 1 .. N : IsFragment(fs[i])
  PROVE  LET items == [i \in 1 .. N |-> Bound(fs[i])] IN
         /\ IsFragment(JoinedBy(fs, ","))
         /\ items \in Seq(Seq(Tokens)) /\ Len(items) = N
         /\ IsListText(Bound(JoinedBy(fs, ",")), items)
  <1> DEFINE F == Fragments(Tokens)  S == Tokens \ {Hole}
             items == [i \in 1 .. N |-> Bound(fs[i])]
             strings == <<Blank>> \o [i \in 1 .. N - 1 |-> Comma] \o <<Blank>>
  <1>1. fs \in Seq(F) /\ Len(fs) = N
    <2> HIDE DEF F
    <2> QED
      BY SeqDef, LenProperties DEF F
  <1>2. items \in Seq(Seq(Tokens)) /\ Len(items) = N
    <2> DEFINE V == Seq(Tokens)
    <2>1. \A i \in 1 .. N : Bound(fs[i]) \in V
      BY BoundType DEF IsFragment
    <2> HIDE DEF V
    <2>2. items \in [1 .. N -> V]
      BY <2>1
    <2> HIDE DEF items
    <2>3. items \in Seq(V) /\ Len(items) = N
      BY <2>2, SeqDef, LenProperties
    <2> QED
      BY <2>3 DEF V
  <1>3. CASE N = 0
    <2>1. fs = <<>>
      BY <1>1, <1>3, EmptySeq
    <2>2. JoinedBy(fs, ",") = Raw("")
      BY <2>1, Zenon DEF JoinedBy
    <2>3. IsFragment(JoinedBy(fs, ",")) /\ Bound(JoinedBy(fs, ",")) = <<>>
      BY <2>2, RawBinds, Zenon
    <2> DEFINE flat == [n \in 0 .. 0 |-> <<>>]
    <2>4. flat \in [0 .. 0 -> Seq(Tokens)] /\ flat[0] = <<>>
      OBVIOUS
    <2> HIDE DEF items
    <2>5. IsListWalk(flat, items) /\ flat[Len(items)] = <<>>
      BY <1>2, <1>3, <2>4 DEF IsListWalk
    <2>6. IsListText(<<>>, items)
      BY <2>5, Zenon DEF IsListText
    <2> QED
      BY <1>2, <2>3, <2>6, Zenon DEF items
  <1>4. CASE N # 0
    <2>1. /\ JoinedBy(fs, ",") = Construct(strings, fs)
      <3>1. fs # <<>>
        BY <1>1, <1>4
      <3>2. Len(fs) - 1 = N - 1
        BY <1>1
      <3> QED
        BY <3>1, <3>2, Zenon DEF JoinedBy, Blank, Comma
    <2>2. /\ Blank \in S /\ Comma \in S /\ Token(Blank) = <<>> /\ Token(Comma) = <<Comma>>
      BY TokensApart, Zenon
    <2>3. /\ strings \in Seq(S) /\ Len(strings) = N + 1
          /\ strings[1] = Blank /\ strings[N + 1] = Blank
          /\ \A n \in 2 .. N : strings[n] = Comma
      <3> HIDE DEF S
      <3> QED
        BY <1>4, <2>2, Framed
    <2> HIDE DEF strings
    <2>4. AreTemplate(Tokens, strings, fs)
      BY <1>1, <2>3 DEF AreTemplate, IsFragment
    <2>5. IsFragment(Construct(strings, fs))
      BY <2>4, Assembly
    <2>6. PICK flat \in [0 .. Len(fs) -> Seq(Tokens)] : IsAssembly(flat, strings, fs)
      BY <2>4, Assembly
    <2>7. /\ \A n \in 1 .. N : n = 1 \/ n \in 2 .. N
          /\ \A n \in 2 .. N : n # 1
      OBVIOUS
    <2> HIDE DEF items
    <2>8. ASSUME NEW n \in 1 .. N
          PROVE Token(strings[n]) \o Bound(fs[n]) = ItemText(items, n)
      <3>1. items[n] = Bound(fs[n])
        BY DEF items
      <3>2. Token(strings[n]) = IF n = 1 THEN <<>> ELSE <<",">>
        BY <2>2, <2>3, <2>7, Zenon DEF Comma
      <3> QED
        BY <3>1, <3>2 DEF ItemText
    <2>9. IsListWalk(flat, items)
      BY <1>1, <1>2, <2>6, <2>8 DEF IsAssembly, IsListWalk
    <2>10. Bound(Construct(strings, fs)) = flat[N]
      <3>1. flat[N] \in Seq(Tokens)
        BY <1>1, <2>6
      <3>2. Bound(Construct(strings, fs)) = flat[N] \o <<>>
        BY <1>1, <2>2, <2>3, <2>6 DEF IsAssembly
      <3> QED
        BY <3>1, <3>2, ConcatEmptySeq
    <2>11. IsListText(Bound(JoinedBy(fs, ",")), items)
      BY <1>2, <2>1, <2>9, <2>10 DEF IsListText
    <2> QED
      BY <1>2, <2>1, <2>5, <2>11 DEF items
  <1> QED
    BY <1>3, <1>4

--------------------------------------------------------------------------------
(* Reading a text token by token: from the tokens of one text to those of the  *)
(* next.                                                                       *)

IsHearing(heard, start, word, text) ==
  /\ heard[0] = start
  /\ \A i \in 1 .. Len(text) : heard[i] = Hear(heard[i - 1], word, text[i])
  /\ Hearing(start, word, text) = heard[Len(text)]

LEMMA HearingSteps ==
  ASSUME NEW start, NEW word, NEW text, Len(text) \in Nat
  PROVE  \E heard : IsHearing(heard, start, word, text)
  <1> DEFINE N == Len(text)
             Said(g, n) == IF n = 0 THEN start ELSE Hear(g[n - 1], word, text[n])
             IsWalk(g, m) == g = [n \in 0 .. m |-> Said(g, n)]
             Walked == {m \in Nat : \E g : IsWalk(g, m)}
             heard == CHOOSE g : g = [i \in 0 .. N |-> Said(g, i)]
  <1>1. ASSUME NEW g, NEW h, NEW n \in Nat, \A m \in 0 .. n - 1 : g[m] = h[m]
        PROVE Said(g, n) = Said(h, n)
    <2>1. CASE n = 0
      BY <2>1
    <2>2. CASE n # 0
      <3>1. n - 1 \in 0 .. n - 1
        BY <2>2
      <3>2. g[n - 1] = h[n - 1]
        BY <1>1, <3>1
      <3> QED
        BY <3>2
    <2> QED
      BY <2>1, <2>2
  <1>2. 0 \in Walked
    <2> DEFINE g == [n \in 0 .. 0 |-> start]
    <2>1. IsWalk(g, 0)
      <3>1. \A n \in 0 .. 0 : Said(g, n) = start
        OBVIOUS
      <3> HIDE DEF Said
      <3> QED
        BY <3>1
    <2> HIDE DEF IsWalk, g
    <2> QED
      BY <2>1
  <1>3. ASSUME NEW m \in Nat, m \in Walked PROVE m + 1 \in Walked
    <2>1. PICK g : IsWalk(g, m)
      <3> HIDE DEF IsWalk
      <3> QED
        BY <1>3
    <2> DEFINE h == [n \in 0 .. m + 1 |-> Said(g, n)]
    <2>2. \A n \in 0 .. m : h[n] = g[n]
      <3> HIDE DEF Said
      <3> QED
        BY <2>1
    <2>3. ASSUME NEW n \in 0 .. m + 1 PROVE Said(g, n) = Said(h, n)
      <3>1. \A j \in 0 .. n - 1 : g[j] = h[j]
        <4> HIDE DEF h, Said
        <4> QED
          BY <2>2
      <3> HIDE DEF h, Said
      <3> QED
        BY <3>1, <1>1
    <2>4. h = [n \in 0 .. m + 1 |-> Said(h, n)]
      <3> HIDE DEF Said
      <3> QED
        BY <2>3
    <2> HIDE DEF h
    <2>5. \E k : IsWalk(k, m + 1)
      BY <2>4
    <2> HIDE DEF IsWalk
    <2> QED
      BY <2>5
  <1>4. N \in Walked
    <2> HIDE DEF Walked
    <2> QED
      BY <1>2, <1>3, NatSetInduction
  <1>5. PICK g : IsWalk(g, N)
    <2> HIDE DEF IsWalk
    <2> QED
      BY <1>4
  <1>6. heard = [i \in 0 .. N |-> Said(heard, i)]
    <2>1. g = [i \in 0 .. N |-> Said(g, i)]
      BY <1>5
    <2> HIDE DEF Said
    <2> QED
      BY <2>1
  <1>7. Hearing(start, word, text) = heard[N]
    BY DEF Hearing
  <1> HIDE DEF heard
  <1>8. /\ 0 \in 0 .. N
        /\ \A i \in 1 .. N : i \in 0 .. N /\ i # 0
    OBVIOUS
  <1>9. heard[0] = start
    BY <1>6, <1>8
  <1>10. \A i \in 1 .. N : heard[i] = Hear(heard[i - 1], word, text[i])
    BY <1>6, <1>8
  <1>11. IsHearing(heard, start, word, text)
    BY <1>7, <1>9, <1>10 DEF IsHearing
  <1> QED
    BY <1>11

LEMMA HearingConcat ==
  ASSUME NEW start, NEW word, NEW S, NEW p \in Seq(S), NEW q \in Seq(S)
  PROVE  Hearing(start, word, p \o q)
           = Hearing(Hearing(start, word, p), word, q)
  <1> DEFINE M == Len(p)  N == Len(q)  pq == p \o q  middle == Hearing(start, word, p)
  <1>1. M \in Nat /\ N \in Nat
    BY LenProperties
  <1>2. /\ Len(pq) = M + N
        /\ \A i \in 1 .. M : pq[i] = p[i]
        /\ \A i \in 1 .. N : pq[M + i] = q[i]
    <2>1. Len(pq) = M + N
      BY ConcatFacts
    <2>2. \A i \in 1 .. M : pq[i] = p[i]
      BY ConcatFacts
    <2>3. \A i \in 1 .. N : pq[M + i] = q[i]
      BY ConcatFacts
    <2> QED
      BY <2>1, <2>2, <2>3
  <1> HIDE DEF pq, middle
  <1>3. PICK f : IsHearing(f, start, word, p)
    BY <1>1, HearingSteps
  <1>4. PICK g : IsHearing(g, middle, word, q)
    BY <1>1, HearingSteps
  <1>5. Len(pq) \in Nat
    BY <1>1, <1>2
  <1>6. PICK h : IsHearing(h, start, word, pq)
    BY <1>5, HearingSteps
  <1> HIDE DEF M, N
  <1>7. /\ \A i \in 1 .. M : i \in 1 .. M + N /\ i \in 0 .. M /\ i - 1 \in 0 .. M
        /\ \A i \in 1 .. N : M + i \in 1 .. M + N /\ (M + i) - 1 = M + (i - 1)
        /\ M + 0 = M /\ M \in 0 .. M /\ N \in 0 .. N /\ 0 \in 0 .. M /\ 0 \in 0 .. N
        /\ \A i \in 1 .. N : i \in 0 .. N /\ i - 1 \in 0 .. N
    BY <1>1
  <1> DEFINE Leading == {i \in 0 .. M : h[i] = f[i]}
  <1>8. M \in Leading
    <2>1. 0 \in Leading
      BY <1>3, <1>6, <1>7 DEF IsHearing
    <2>2. ASSUME NEW i \in 1 .. M, i - 1 \in Leading PROVE i \in Leading
      <3>1. h[i] = Hear(h[i - 1], word, p[i])
        BY <1>2, <1>6, <1>7 DEF IsHearing
      <3>2. f[i] = Hear(f[i - 1], word, p[i])
        BY <1>3 DEF IsHearing, M
      <3>3. h[i - 1] = f[i - 1]
        BY <2>2
      <3> QED
        BY <1>7, <3>1, <3>2, <3>3
    <2> HIDE DEF Leading
    <2> QED
      BY <1>1, <1>7, <2>1, <2>2, UpTo
  <1>9. h[M] = middle
    <2>1. middle = f[M]
      BY <1>3 DEF IsHearing, M, middle
    <2> QED
      BY <1>8, <2>1
  <1> DEFINE Second == {i \in 0 .. N : h[M + i] = g[i]}
  <1>10. N \in Second
    <2>1. 0 \in Second
      <3>1. g[0] = middle
        BY <1>4 DEF IsHearing
      <3> QED
        BY <1>7, <1>9, <3>1
    <2>2. ASSUME NEW i \in 1 .. N, i - 1 \in Second PROVE i \in Second
      <3>1. h[M + i] = Hear(h[M + (i - 1)], word, q[i])
        BY <1>2, <1>6, <1>7 DEF IsHearing
      <3>2. g[i] = Hear(g[i - 1], word, q[i])
        BY <1>4 DEF IsHearing, N
      <3>3. h[M + (i - 1)] = g[i - 1]
        BY <2>2
      <3> QED
        BY <1>7, <3>1, <3>2, <3>3
    <2> HIDE DEF Second
    <2> QED
      BY <1>1, <1>7, <2>1, <2>2, UpTo
  <1>11. Hearing(start, word, pq) = h[M + N]
    BY <1>2, <1>6 DEF IsHearing
  <1>12. Hearing(middle, word, q) = g[N]
    BY <1>4 DEF IsHearing, N
  <1> QED
    BY <1>10, <1>11, <1>12 DEF pq, middle

LEMMA HearingFew ==
  ASSUME NEW start, NEW word
  PROVE  /\ Hearing(start, word, <<>>) = start
         /\ \A t : Hearing(start, word, <<t>>) = Hear(start, word, t)
  <1>1. Hearing(start, word, <<>>) = start
    <2>1. Len(<<>>) = 0 /\ Len(<<>>) \in Nat
      OBVIOUS
    <2> DEFINE e == <<>>
    <2> HIDE DEF e
    <2>2. Len(e) = 0 /\ Len(e) \in Nat
      BY <2>1 DEF e
    <2>3. PICK f : IsHearing(f, start, word, e)
      BY <2>2, HearingSteps
    <2>4. Hearing(start, word, e) = start
      BY <2>2, <2>3 DEF IsHearing
    <2> QED
      BY <2>4 DEF e
  <1>2. ASSUME NEW t PROVE Hearing(start, word, <<t>>) = Hear(start, word, t)
    <2> DEFINE e == <<t>>
    <2>1. Len(e) = 1 /\ e[1] = t
      OBVIOUS
    <2> HIDE DEF e
    <2>2. PICK f : IsHearing(f, start, word, e)
      BY <2>1, HearingSteps
    <2>3. 1 \in 1 .. 1 /\ 1 - 1 = 0
      OBVIOUS
    <2>4. f[0] = start /\ f[1] = Hear(f[1 - 1], word, t)
      BY <2>1, <2>2, <2>3 DEF IsHearing
    <2>5. f[1] = Hear(start, word, t)
      BY <2>3, <2>4
    <2>6. Hearing(start, word, e) = Hear(start, word, t)
      BY <2>1, <2>2, <2>5 DEF IsHearing
    <2> QED
      BY <2>6 DEF e
  <1> QED
    BY <1>1, <1>2

IsReading(read, start, text) ==
  /\ read[0] = start
  /\ \A i \in 1 .. Len(text) : read[i] = ReadToken(read[i - 1], text[i])
  /\ Reading(start, text) = read[Len(text)]

LEMMA ReadingSteps ==
  ASSUME NEW start, NEW text, Len(text) \in Nat
  PROVE  \E read : IsReading(read, start, text)
  <1> DEFINE N == Len(text)
             Said(g, n) == IF n = 0 THEN start ELSE ReadToken(g[n - 1], text[n])
             IsWalk(g, m) == g = [n \in 0 .. m |-> Said(g, n)]
             Walked == {m \in Nat : \E g : IsWalk(g, m)}
             read == CHOOSE g : g = [i \in 0 .. N |-> Said(g, i)]
  <1>1. ASSUME NEW g, NEW h, NEW n \in Nat, \A m \in 0 .. n - 1 : g[m] = h[m]
        PROVE Said(g, n) = Said(h, n)
    <2>1. CASE n = 0
      BY <2>1
    <2>2. CASE n # 0
      <3>1. n - 1 \in 0 .. n - 1
        BY <2>2
      <3>2. g[n - 1] = h[n - 1]
        BY <1>1, <3>1
      <3> QED
        BY <3>2
    <2> QED
      BY <2>1, <2>2
  <1>2. 0 \in Walked
    <2> DEFINE g == [n \in 0 .. 0 |-> start]
    <2>1. IsWalk(g, 0)
      <3>1. \A n \in 0 .. 0 : Said(g, n) = start
        OBVIOUS
      <3> HIDE DEF Said
      <3> QED
        BY <3>1
    <2> HIDE DEF IsWalk, g
    <2> QED
      BY <2>1
  <1>3. ASSUME NEW m \in Nat, m \in Walked PROVE m + 1 \in Walked
    <2>1. PICK g : IsWalk(g, m)
      <3> HIDE DEF IsWalk
      <3> QED
        BY <1>3
    <2> DEFINE h == [n \in 0 .. m + 1 |-> Said(g, n)]
    <2>2. \A n \in 0 .. m : h[n] = g[n]
      <3> HIDE DEF Said
      <3> QED
        BY <2>1
    <2>3. ASSUME NEW n \in 0 .. m + 1 PROVE Said(g, n) = Said(h, n)
      <3>1. \A j \in 0 .. n - 1 : g[j] = h[j]
        <4> HIDE DEF h, Said
        <4> QED
          BY <2>2
      <3> HIDE DEF h, Said
      <3> QED
        BY <3>1, <1>1
    <2>4. h = [n \in 0 .. m + 1 |-> Said(h, n)]
      <3> HIDE DEF Said
      <3> QED
        BY <2>3
    <2> HIDE DEF h
    <2>5. \E k : IsWalk(k, m + 1)
      BY <2>4
    <2> HIDE DEF IsWalk
    <2> QED
      BY <2>5
  <1>4. N \in Walked
    <2> HIDE DEF Walked
    <2> QED
      BY <1>2, <1>3, NatSetInduction
  <1>5. PICK g : IsWalk(g, N)
    <2> HIDE DEF IsWalk
    <2> QED
      BY <1>4
  <1>6. read = [i \in 0 .. N |-> Said(read, i)]
    <2>1. g = [i \in 0 .. N |-> Said(g, i)]
      BY <1>5
    <2> HIDE DEF Said
    <2> QED
      BY <2>1
  <1>7. Reading(start, text) = read[N]
    BY DEF Reading
  <1> HIDE DEF read
  <1>8. /\ 0 \in 0 .. N
        /\ \A i \in 1 .. N : i \in 0 .. N /\ i # 0
    OBVIOUS
  <1>9. read[0] = start
    BY <1>6, <1>8
  <1>10. \A i \in 1 .. N : read[i] = ReadToken(read[i - 1], text[i])
    BY <1>6, <1>8
  <1>11. IsReading(read, start, text)
    BY <1>7, <1>9, <1>10 DEF IsReading
  <1> QED
    BY <1>11

LEMMA ReadingConcat ==
  ASSUME NEW start, NEW S, NEW p \in Seq(S), NEW q \in Seq(S)
  PROVE  Reading(start, p \o q)
           = Reading(Reading(start, p), q)
  <1> DEFINE M == Len(p)  N == Len(q)  pq == p \o q  middle == Reading(start, p)
  <1>1. M \in Nat /\ N \in Nat
    BY LenProperties
  <1>2. /\ Len(pq) = M + N
        /\ \A i \in 1 .. M : pq[i] = p[i]
        /\ \A i \in 1 .. N : pq[M + i] = q[i]
    <2>1. Len(pq) = M + N
      BY ConcatFacts
    <2>2. \A i \in 1 .. M : pq[i] = p[i]
      BY ConcatFacts
    <2>3. \A i \in 1 .. N : pq[M + i] = q[i]
      BY ConcatFacts
    <2> QED
      BY <2>1, <2>2, <2>3
  <1> HIDE DEF pq, middle
  <1>3. PICK f : IsReading(f, start, p)
    BY <1>1, ReadingSteps
  <1>4. PICK g : IsReading(g, middle, q)
    BY <1>1, ReadingSteps
  <1>5. Len(pq) \in Nat
    BY <1>1, <1>2
  <1>6. PICK h : IsReading(h, start, pq)
    BY <1>5, ReadingSteps
  <1> HIDE DEF M, N
  <1>7. /\ \A i \in 1 .. M : i \in 1 .. M + N /\ i \in 0 .. M /\ i - 1 \in 0 .. M
        /\ \A i \in 1 .. N : M + i \in 1 .. M + N /\ (M + i) - 1 = M + (i - 1)
        /\ M + 0 = M /\ M \in 0 .. M /\ N \in 0 .. N /\ 0 \in 0 .. M /\ 0 \in 0 .. N
        /\ \A i \in 1 .. N : i \in 0 .. N /\ i - 1 \in 0 .. N
    BY <1>1
  <1> DEFINE Leading == {i \in 0 .. M : h[i] = f[i]}
  <1>8. M \in Leading
    <2>1. 0 \in Leading
      BY <1>3, <1>6, <1>7 DEF IsReading
    <2>2. ASSUME NEW i \in 1 .. M, i - 1 \in Leading PROVE i \in Leading
      <3>1. h[i] = ReadToken(h[i - 1], p[i])
        BY <1>2, <1>6, <1>7 DEF IsReading
      <3>2. f[i] = ReadToken(f[i - 1], p[i])
        BY <1>3 DEF IsReading, M
      <3>3. h[i - 1] = f[i - 1]
        BY <2>2
      <3> QED
        BY <1>7, <3>1, <3>2, <3>3
    <2> HIDE DEF Leading
    <2> QED
      BY <1>1, <1>7, <2>1, <2>2, UpTo
  <1>9. h[M] = middle
    <2>1. middle = f[M]
      BY <1>3 DEF IsReading, M, middle
    <2> QED
      BY <1>8, <2>1
  <1> DEFINE Second == {i \in 0 .. N : h[M + i] = g[i]}
  <1>10. N \in Second
    <2>1. 0 \in Second
      <3>1. g[0] = middle
        BY <1>4 DEF IsReading
      <3> QED
        BY <1>7, <1>9, <3>1
    <2>2. ASSUME NEW i \in 1 .. N, i - 1 \in Second PROVE i \in Second
      <3>1. h[M + i] = ReadToken(h[M + (i - 1)], q[i])
        BY <1>2, <1>6, <1>7 DEF IsReading
      <3>2. g[i] = ReadToken(g[i - 1], q[i])
        BY <1>4 DEF IsReading, N
      <3>3. h[M + (i - 1)] = g[i - 1]
        BY <2>2
      <3> QED
        BY <1>7, <3>1, <3>2, <3>3
    <2> HIDE DEF Second
    <2> QED
      BY <1>1, <1>7, <2>1, <2>2, UpTo
  <1>11. Reading(start, pq) = h[M + N]
    BY <1>2, <1>6 DEF IsReading
  <1>12. Reading(middle, q) = g[N]
    BY <1>4 DEF IsReading, N
  <1> QED
    BY <1>10, <1>11, <1>12 DEF pq, middle

LEMMA ReadingFew ==
  ASSUME NEW start
  PROVE  /\ Reading(start, <<>>) = start
         /\ \A t : Reading(start, <<t>>) = ReadToken(start, t)
  <1>1. Reading(start, <<>>) = start
    <2>1. Len(<<>>) = 0 /\ Len(<<>>) \in Nat
      OBVIOUS
    <2> DEFINE e == <<>>
    <2> HIDE DEF e
    <2>2. Len(e) = 0 /\ Len(e) \in Nat
      BY <2>1 DEF e
    <2>3. PICK f : IsReading(f, start, e)
      BY <2>2, ReadingSteps
    <2>4. Reading(start, e) = start
      BY <2>2, <2>3 DEF IsReading
    <2> QED
      BY <2>4 DEF e
  <1>2. ASSUME NEW t PROVE Reading(start, <<t>>) = ReadToken(start, t)
    <2> DEFINE e == <<t>>
    <2>1. Len(e) = 1 /\ e[1] = t
      OBVIOUS
    <2> HIDE DEF e
    <2>2. PICK f : IsReading(f, start, e)
      BY <2>1, ReadingSteps
    <2>3. 1 \in 1 .. 1 /\ 1 - 1 = 0
      OBVIOUS
    <2>4. f[0] = start /\ f[1] = ReadToken(f[1 - 1], t)
      BY <2>1, <2>2, <2>3 DEF IsReading
    <2>5. f[1] = ReadToken(start, t)
      BY <2>3, <2>4
    <2>6. Reading(start, e) = ReadToken(start, t)
      BY <2>1, <2>2, <2>5 DEF IsReading
    <2> QED
      BY <2>6 DEF e
  <1> QED
    BY <1>1, <1>2

(* Induction over the lists of a set.                                          *)
LEMMA ListInduction ==
  ASSUME NEW S, NEW G, <<>> \in G,
         \A q \in Seq(S) : \A e \in S : q \in G => q \o <<e>> \in G
  PROVE  Seq(S) \subseteq G
  <1> DEFINE Good == {n \in Nat : \A q \in Seq(S) : Len(q) = n => q \in G}
  <1>1. 0 \in Good
    <2>1. \A q \in Seq(S) : Len(q) = 0 => q = <<>>
      BY EmptySeq
    <2> QED
      BY <2>1
  <1>2. ASSUME NEW n \in Nat, n \in Good PROVE n + 1 \in Good
    <2>1. ASSUME NEW q \in Seq(S), Len(q) = n + 1 PROVE q \in G
      <3>1. q # <<>>
        BY <2>1, EmptySeq
      <3>2. PICK p \in Seq(S), e \in S : q = Append(p, e)
        BY <3>1, SequenceEmptyOrAppend
      <3>3. Len(q) = Len(p) + 1 /\ Len(p) \in Nat
        BY <3>2, AppendProperties, LenProperties
      <3>4. Len(p) = n
        BY <2>1, <3>3
      <3>5. p \in G
        BY <1>2, <3>4
      <3>6. q = p \o <<e>>
        BY <3>2, AppendIsConcat
      <3> QED
        BY <3>5, <3>6
    <2> QED
      BY <2>1
  <1>3. ASSUME NEW q \in Seq(S) PROVE q \in G
    <2>1. Len(q) \in Nat
      BY LenProperties
    <2>2. Nat \subseteq Good
      <3> HIDE DEF Good
      <3> QED
        BY <1>1, <1>2, NatSetInduction
    <2> QED
      BY <2>1, <2>2
  <1> QED
    BY <1>3

--------------------------------------------------------------------------------
(* The clauses of a statement: what stands between its keywords.               *)
Body == Tokens \ Keywords

Heard(isOn, said) == [isOn |-> isOn, said |-> said]

LEMMA BodyHeard ==
  ASSUME NEW said \in Seq(Tokens), NEW word, NEW b \in Seq(Body)
  PROVE  /\ Hearing(Heard(TRUE, said), word, b) = Heard(TRUE, said \o b)
         /\ Hearing(Heard(FALSE, said), word, b) = Heard(FALSE, said)
  <1> DEFINE on == Heard(TRUE, said)  off == Heard(FALSE, said)
             G == {q \in Seq(Body) : /\ Hearing(on, word, q) = Heard(TRUE, said \o q)
                                     /\ Hearing(off, word, q) = off}
  <1>1. Body \subseteq Tokens /\ \A t \in Body : t \notin Keywords
    BY DEF Body
  <1>2. Seq(Body) \subseteq Seq(Tokens)
    BY <1>1, SeqMonotonic
  <1>3. <<>> \in G
    <2>1. said \o <<>> = said
      BY ConcatEmptySeq
    <2>2. Hearing(on, word, <<>>) = on /\ Hearing(off, word, <<>>) = off
      BY HearingFew
    <2>3. on = Heard(TRUE, said \o <<>>)
      BY <2>1
    <2> HIDE DEF on, off
    <2> QED
      BY <2>2, <2>3, EmptySeq
  <1>4. ASSUME NEW q \in Seq(Body), NEW e \in Body, q \in G PROVE q \o <<e>> \in G
    <2> DEFINE one == <<e>>  more == said \o q
    <2>1. one \in Seq(Body) /\ q \o one \in Seq(Body) /\ q \in Seq(Body)
      BY Listed, ConcatProperties
    <2>2. Hearing(on, word, q) = Heard(TRUE, more) /\ Hearing(off, word, q) = off
      BY <1>4
    <2>3. \A s : Hearing(s, word, one) = Hear(s, word, e)
      BY HearingFew
    <2>4. q \in Seq(Tokens) /\ one \in Seq(Tokens) /\ e \in Tokens
      BY <1>1, <1>2, <2>1
    <2> HIDE DEF one, on, off
    <2>5. /\ Hearing(on, word, q \o one) = Hearing(Hearing(on, word, q), word, one)
          /\ Hearing(off, word, q \o one) = Hearing(Hearing(off, word, q), word, one)
      BY <2>1, HearingConcat
    <2>6. more \in Seq(Tokens)
      BY <2>4, ConcatProperties
    <2>7. Append(more, e) = said \o (q \o one)
      <3>1. Append(more, e) = more \o one
        <4> HIDE DEF more
        <4> QED
          BY <2>4, <2>6, AppendIsConcat DEF one
      <3> QED
        BY <2>4, <3>1, ConcatAssociative
    <2> HIDE DEF more
    <2>8. /\ Hear(Heard(TRUE, more), word, e) = Heard(TRUE, Append(more, e))
          /\ Hear(off, word, e) = off
      <3>1. e \notin Keywords
        BY <1>1
      <3> QED
        BY <3>1, Zenon DEF Hear, Heard, off
    <2>9. /\ Hearing(on, word, q \o one) = Heard(TRUE, said \o (q \o one))
          /\ Hearing(off, word, q \o one) = off
      BY <2>2, <2>3, <2>5, <2>7, <2>8
    <2> QED
      BY <2>1, <2>9 DEF one
  <1>5. Seq(Body) \subseteq G
    <2> HIDE DEF G
    <2> QED
      BY <1>3, <1>4, ListInduction
  <1> QED
    BY <1>5

\* What a text says under a keyword, and whether it has it.
IsHeard(text) ==
  /\ text \in Seq(Tokens)
  /\ \A word \in Keywords :
       \E isOn \in BOOLEAN : \E said \in Seq(Tokens) :
         Hearing(Heard(FALSE, <<>>), word, text) = Heard(isOn, said)

LEMMA SectionType ==
  ASSUME NEW text, IsHeard(text), NEW word \in Keywords
  PROVE  /\ Section(text, word) \in Seq(Tokens)
         /\ \E isOn \in BOOLEAN :
              Hearing(Heard(FALSE, <<>>), word, text) = Heard(isOn, Section(text, word))
  <1>1. PICK isOn \in BOOLEAN, said \in Seq(Tokens) :
          Hearing(Heard(FALSE, <<>>), word, text) = Heard(isOn, said)
    BY DEF IsHeard
  <1>2. Section(text, word) = Hearing(Heard(FALSE, <<>>), word, text).said
    BY DEF Section, Heard
  <1>3. Heard(isOn, said).said = said
    BY DEF Heard
  <1> QED
    BY <1>1, <1>2, <1>3

LEMMA NothingHeard ==
  /\ IsHeard(<<>>)
  /\ \A word \in Keywords : Section(<<>>, word) = <<>> /\ ~Has(<<>>, word)
  <1>1. \A word : Hearing(Heard(FALSE, <<>>), word, <<>>) = Heard(FALSE, <<>>)
    BY HearingFew
  <1>2. IsHeard(<<>>)
    <2>1. <<>> \in Seq(Tokens) /\ FALSE \in BOOLEAN
      OBVIOUS
    <2> QED
      BY <1>1, <2>1 DEF IsHeard
  <1>3. \A word : Section(<<>>, word) = <<>>
    BY <1>1 DEF Section, Heard
  <1>4. \A word : ~Has(<<>>, word)
    BY DEF Has
  <1> QED
    BY <1>2, <1>3, <1>4

LEMMA HasBeside ==
  ASSUME NEW S, NEW p \in Seq(S), NEW q \in Seq(S), NEW word
  PROVE  Has(p \o q, word) <=> Has(p, word) \/ Has(q, word)
  <1>1. Range(p \o q) = Range(p) \cup Range(q)
    BY RangeConcatenation
  <1>2. \A r \in Seq(S) : Has(r, word) <=> word \in Range(r)
    BY RangeEquality DEF Has
  <1>3. p \o q \in Seq(S)
    BY ConcatProperties
  <1> QED
    BY <1>1, <1>2, <1>3

\* A clause after a text.
LEMMA ClauseHeard ==
  ASSUME NEW text, IsHeard(text), NEW k \in Keywords, NEW b \in Seq(Body)
  PROVE  LET next == text \o (<<k>> \o b) IN
         /\ IsHeard(next)
         /\ \A word \in Keywords : word # k => Section(next, word) = Section(text, word)
         /\ Section(next, k) = Section(text, k) \o b
         /\ \A word \in Keywords : Has(next, word) <=> Has(text, word) \/ word = k
  <1> DEFINE clause == <<k>> \o b  next == text \o clause
  <1>1. /\ k \in Tokens /\ Seq(Body) \subseteq Seq(Tokens)
    <2>1. Body \subseteq Tokens /\ k \in Tokens
      BY DEF Body, Tokens
    <2> QED
      BY <2>1, SeqMonotonic
  <1>2. /\ <<k>> \in Seq(Tokens) /\ b \in Seq(Tokens) /\ text \in Seq(Tokens)
    BY <1>1, Listed DEF IsHeard
  <1>3. clause \in Seq(Tokens)
    BY <1>2, ConcatProperties
  <1>4. next \in Seq(Tokens)
    <2> HIDE DEF clause
    <2> QED
      BY <1>2, <1>3, ConcatProperties
  <1>5. ASSUME NEW word \in Keywords
        PROVE  LET said == Section(text, word)
                   more == IF word = k THEN said \o b ELSE said IN
               /\ said \in Seq(Tokens) /\ more \in Seq(Tokens)
               /\ Hearing(Heard(FALSE, <<>>), word, next) = Heard(k = word, more)
    <2> DEFINE said == Section(text, word)  more == IF word = k THEN said \o b ELSE said
    <2>1. said \in Seq(Tokens)
      BY SectionType
    <2>2. PICK isOn \in BOOLEAN : Hearing(Heard(FALSE, <<>>), word, text) = Heard(isOn, said)
      BY SectionType
    <2> HIDE DEF said
    <2>3. Hear(Heard(isOn, said), word, k) = Heard(k = word, said)
      BY Zenon DEF Hear, Heard
    <2>4. Hearing(Heard(k = word, said), word, b) = Heard(k = word, more)
      <3>1. CASE k = word
        <4>1. (k = word) = TRUE /\ more = said \o b
          BY <3>1
        <4> HIDE DEF more
        <4>2. Hearing(Heard(TRUE, said), word, b) = Heard(TRUE, more)
          BY <2>1, <4>1, BodyHeard
        <4> QED
          BY <4>1, <4>2
      <3>2. CASE k # word
        <4>1. (k = word) = FALSE /\ more = said
          BY <3>2
        <4> HIDE DEF more
        <4>2. Hearing(Heard(FALSE, said), word, b) = Heard(FALSE, more)
          BY <2>1, <4>1, BodyHeard
        <4> QED
          BY <4>1, <4>2
      <3> QED
        BY <3>1, <3>2
    <2>5. Hearing(Heard(isOn, said), word, clause) = Heard(k = word, more)
      <3> DEFINE one == <<k>>  start == Heard(isOn, said)
      <3>1. Hearing(start, word, one) = Hear(start, word, k)
        BY HearingFew
      <3> HIDE DEF one, start, more
      <3>2. one \in Seq(Tokens) /\ clause = one \o b
        BY <1>2 DEF one
      <3>3. Hearing(start, word, one \o b) = Hearing(Hearing(start, word, one), word, b)
        BY <1>2, <3>2, HearingConcat
      <3>4. Hear(start, word, k) = Heard(k = word, said)
        BY <2>3 DEF start
      <3>5. Hearing(start, word, clause) = Heard(k = word, more)
        BY <2>4, <3>1, <3>2, <3>3, <3>4, Zenon
      <3> QED
        BY <3>5 DEF start
    <2>6. Hearing(Heard(FALSE, <<>>), word, next)
            = Hearing(Hearing(Heard(FALSE, <<>>), word, text), word, clause)
      <3> DEFINE start == Heard(FALSE, <<>>)
      <3> HIDE DEF clause, start
      <3>1. Hearing(start, word, text \o clause)
              = Hearing(Hearing(start, word, text), word, clause)
        BY <1>2, <1>3, HearingConcat
      <3> QED
        BY <3>1 DEF start
    <2>7. more \in Seq(Tokens)
      BY <1>2, <2>1, ConcatProperties
    <2> QED
      BY <2>1, <2>2, <2>5, <2>6, <2>7 DEF said
  <1> HIDE DEF next
  <1>6. IsHeard(next)
    BY <1>4, <1>5 DEF IsHeard
  <1>7. ASSUME NEW word \in Keywords
        PROVE Section(next, word) = IF word = k THEN Section(text, word) \o b
                                    ELSE Section(text, word)
    <2> DEFINE X == IF word = k THEN Section(text, word) \o b ELSE Section(text, word)
    <2>1. Hearing(Heard(FALSE, <<>>), word, next) = Heard(k = word, X)
      BY <1>5
    <2>2. Section(next, word) = Hearing(Heard(FALSE, <<>>), word, next).said
      BY DEF Section, Heard
    <2> HIDE DEF X
    <2>3. \A o : Heard(o, X).said = X
      BY DEF Heard
    <2>4. Section(next, word) = X
      BY <2>1, <2>2, <2>3
    <2> QED
      BY <2>4 DEF X
  <1>8. ASSUME NEW word \in Keywords
        PROVE Has(next, word) <=> Has(text, word) \/ word = k
    <2>1. Has(next, word) <=> Has(text, word) \/ Has(clause, word)
      <3> HIDE DEF clause
      <3> QED
        BY <1>2, <1>3, HasBeside DEF next
    <2>2. Has(clause, word) <=> Has(<<k>>, word) \/ Has(b, word)
      BY <1>2, HasBeside
    <2>3. Has(<<k>>, word) <=> word = k
      BY DEF Has
    <2>4. ~Has(b, word)
      <3>1. \A i \in 1 .. Len(b) : b[i] \in Body
        BY ElementOfSeq
      <3> QED
        BY <3>1 DEF Has, Body
    <2> QED
      BY <2>1, <2>2, <2>3, <2>4
  <1> QED
    BY <1>6, <1>7, <1>8 DEF next

--------------------------------------------------------------------------------
(* Lists: a text that keeps to its depth is read as a part of one item.        *)
Listing(depth, items, item) == [depth |-> depth, items |-> items, item |-> item]

KeepsAt(least, text) ==
  \A depth \in Nat : \A items \in Seq(Seq(Tokens)) : \A item \in Seq(Tokens) :
    depth >= least =>
      Reading(Listing(depth, items, item), text) = Listing(depth, items, item \o text)

Spoken == Body \ {"sameKey"}

AtDepth(text, least) ==
  text \in Seq(Tokens) /\ text \in Seq(Spoken) /\ KeepsAt(least, text)

Brackets == {"(", "ARRAY[", ")", "]"}

LEMMA TokenRead ==
  ASSUME NEW depth \in Nat, NEW items, NEW item \in Seq(Tokens), NEW t \in Tokens
  PROVE  /\ t \notin Brackets /\ (t # "," \/ depth # 0) =>
              ReadToken(Listing(depth, items, item), t) = Listing(depth, items, item \o <<t>>)
         /\ t \in {"(", "ARRAY["} =>
              ReadToken(Listing(depth, items, item), t) = Listing(depth + 1, items, item \o <<t>>)
         /\ t \in {")", "]"} /\ depth # 0 =>
              ReadToken(Listing(depth, items, item), t) = Listing(depth - 1, items, item \o <<t>>)
  <1>1. Append(item, t) = item \o <<t>>
    BY AppendIsConcat
  <1>2. ASSUME NEW n \in Int, Nesting(t) = n, t # "," \/ depth # 0
        PROVE ReadToken(Listing(depth, items, item), t)
                = Listing(depth + n, items, Append(item, t))
    <2>1. Listing(depth, items, item).depth = depth
      BY DEF Listing
    <2>2. ~(t = "," /\ Listing(depth, items, item).depth = 0)
      BY <1>2, <2>1
    <2>3. ReadToken(Listing(depth, items, item), t)
            = [Listing(depth, items, item) EXCEPT !.depth = @ + n, !.item = Append(@, t)]
      BY <1>2, <2>2, Zenon DEF ReadToken
    <2>4. [Listing(depth, items, item) EXCEPT !.depth = @ + n, !.item = Append(@, t)]
            = Listing(depth + n, items, Append(item, t))
      <3> DEFINE rec == [depth |-> depth, items |-> items, item |-> item]
                 x == depth + n  y == Append(item, t)
      <3>1. rec.depth = depth /\ rec.item = item
        OBVIOUS
      <3>2. [rec EXCEPT !.depth = @ + n, !.item = Append(@, t)]
              = [[rec EXCEPT !.depth = x] EXCEPT !.item = y]
        BY <3>1
      <3> HIDE DEF x, y
      <3>3. [rec EXCEPT !.depth = x] = [depth |-> x, items |-> items, item |-> item]
        OBVIOUS
      <3>4. [[depth |-> x, items |-> items, item |-> item] EXCEPT !.item = y]
              = [depth |-> x, items |-> items, item |-> y]
        OBVIOUS
      <3> QED
        BY <3>2, <3>3, <3>4, Zenon DEF x, y, Listing
    <2> QED
      BY <2>3, <2>4
  <1>3. t \notin Brackets => Nesting(t) = 0
    BY Zenon DEF Nesting, Brackets
  <1>4. t \in {"(", "ARRAY["} => Nesting(t) = 1 /\ t # ","
    BY DEF Nesting
  <1>5. t \in {")", "]"} => Nesting(t) = -1 /\ t # ","
    BY DEF Nesting
  <1>6. depth + 0 = depth /\ depth + -1 = depth - 1 /\ 0 \in Int /\ 1 \in Int /\ -1 \in Int
    OBVIOUS
  <1>7. ASSUME t \notin Brackets, t # "," \/ depth # 0
        PROVE ReadToken(Listing(depth, items, item), t) = Listing(depth, items, item \o <<t>>)
    <2>1. ReadToken(Listing(depth, items, item), t)
            = Listing(depth + 0, items, Append(item, t))
      BY <1>2, <1>3, <1>6, <1>7
    <2> QED
      BY <1>1, <1>6, <2>1
  <1>8. ASSUME t \in {"(", "ARRAY["}
        PROVE ReadToken(Listing(depth, items, item), t)
                = Listing(depth + 1, items, item \o <<t>>)
    <2>1. ReadToken(Listing(depth, items, item), t)
            = Listing(depth + 1, items, Append(item, t))
      BY <1>2, <1>4, <1>6, <1>8
    <2> QED
      BY <1>1, <2>1
  <1>9. ASSUME t \in {")", "]"}, depth # 0
        PROVE ReadToken(Listing(depth, items, item), t)
                = Listing(depth - 1, items, item \o <<t>>)
    <2>1. ReadToken(Listing(depth, items, item), t)
            = Listing(depth + -1, items, Append(item, t))
      BY <1>2, <1>5, <1>6, <1>9
    <2> QED
      BY <1>1, <1>6, <2>1
  <1> QED
    BY <1>7, <1>8, <1>9

LEMMA CommaRead ==
  ASSUME NEW items \in Seq(Seq(Tokens)), NEW item \in Seq(Tokens)
  PROVE  ReadToken(Listing(0, items, item), ",") = Listing(0, items \o <<item>>, <<>>)
  <1>1. Append(items, item) = items \o <<item>>
    BY AppendIsConcat
  <1>2. ReadToken(Listing(0, items, item), ",") = Listing(0, Append(items, item), <<>>)
    BY Zenon DEF ReadToken, Listing
  <1> QED
    BY <1>1, <1>2

LEMMA WordAtDepth ==
  ASSUME NEW t \in Tokens, t \in Spoken, t \notin Brackets
  PROVE  AtDepth(<<t>>, 1) /\ (t # "," => AtDepth(<<t>>, 0))
  <1> DEFINE one == <<t>>
  <1>1. one \in Seq(Tokens) /\ one \in Seq(Spoken)
    BY Listed
  <1>2. \A start : Reading(start, one) = ReadToken(start, t)
    BY ReadingFew
  <1> HIDE DEF one
  <1>3. ASSUME NEW depth \in Nat, NEW items, NEW item \in Seq(Tokens), t # "," \/ depth # 0
        PROVE Reading(Listing(depth, items, item), one) = Listing(depth, items, item \o one)
    <2>1. ReadToken(Listing(depth, items, item), t) = Listing(depth, items, item \o one)
      BY <1>3, TokenRead DEF one
    <2> QED
      BY <1>2, <2>1
  <1>4. \A depth \in Nat : depth >= 1 => depth # 0
    OBVIOUS
  <1>5. KeepsAt(1, one)
    BY <1>3, <1>4 DEF KeepsAt
  <1>6. t # "," => KeepsAt(0, one)
    BY <1>3 DEF KeepsAt
  <1> QED
    BY <1>1, <1>5, <1>6 DEF AtDepth, one

LEMMA DepthBeside ==
  ASSUME NEW least \in Nat, NEW p, NEW q, AtDepth(p, least), AtDepth(q, least)
  PROVE  AtDepth(p \o q, least)
  <1>1. p \in Seq(Tokens) /\ q \in Seq(Tokens) /\ KeepsAt(least, p) /\ KeepsAt(least, q)
    BY DEF AtDepth
  <1>2. p \o q \in Seq(Tokens)
    BY <1>1, ConcatProperties
  <1>5. p \o q \in Seq(Spoken)
    <2>1. p \in Seq(Spoken) /\ q \in Seq(Spoken)
      BY DEF AtDepth
    <2> QED
      BY <2>1, ConcatProperties
  <1>3. ASSUME NEW depth \in Nat, NEW items \in Seq(Seq(Tokens)), NEW item \in Seq(Tokens),
               depth >= least
        PROVE Reading(Listing(depth, items, item), p \o q)
                = Listing(depth, items, item \o (p \o q))
    <2> DEFINE start == Listing(depth, items, item)
    <2>1. Reading(start, p) = Listing(depth, items, item \o p)
      BY <1>1, <1>3 DEF KeepsAt
    <2>2. item \o p \in Seq(Tokens)
      BY <1>1, ConcatProperties
    <2>3. Reading(Listing(depth, items, item \o p), q)
            = Listing(depth, items, (item \o p) \o q)
      BY <1>1, <1>3, <2>2 DEF KeepsAt
    <2> HIDE DEF start
    <2>4. Reading(start, p \o q) = Reading(Reading(start, p), q)
      BY <1>1, ReadingConcat
    <2>5. (item \o p) \o q = item \o (p \o q)
      BY <1>1, ConcatAssociative
    <2> QED
      BY <2>1, <2>3, <2>4, <2>5 DEF start
  <1>4. KeepsAt(least, p \o q)
    BY <1>3 DEF KeepsAt
  <1> QED
    BY <1>2, <1>4, <1>5 DEF AtDepth

LEMMA DepthUp ==
  ASSUME NEW p, AtDepth(p, 0)
  PROVE  AtDepth(p, 1)
  <1>1. \A depth \in Nat : depth >= 0
    OBVIOUS
  <1> QED
    BY <1>1 DEF AtDepth, KeepsAt

LEMMA EmptyAtDepth == AtDepth(<<>>, 0) /\ AtDepth(<<>>, 1)
  <1>1. \A item \in Seq(Tokens) : item \o <<>> = item
    BY ConcatEmptySeq
  <1>2. \A start : Reading(start, <<>>) = start
    BY ReadingFew
  <1>3. <<>> \in Seq(Tokens) /\ <<>> \in Seq(Spoken)
    OBVIOUS
  <1>4. KeepsAt(0, <<>>) /\ KeepsAt(1, <<>>)
    BY <1>1, <1>2 DEF KeepsAt
  <1> QED
    BY <1>3, <1>4 DEF AtDepth

\* A text within brackets.
Within(open, text, close) == <<open>> \o text \o <<close>>

LEMMA Bracketed ==
  ASSUME NEW open \in {"(", "ARRAY["}, NEW close \in {")", "]"}, NEW text, AtDepth(text, 1)
  PROVE  LET whole == Within(open, text, close) IN
         /\ AtDepth(whole, 0) /\ whole # <<>> /\ whole[1] = open
         /\ Inside(whole) = text
  <1> DEFINE one == <<open>>  last == <<close>>  start == one \o text  whole == start \o last
  <1>1. open \in Tokens /\ close \in Tokens /\ open \in Words /\ close \in Words
    BY Zenon DEF Tokens, Words
  <1>12. open \in Spoken /\ close \in Spoken
    <2>1. open # "sameKey" /\ close # "sameKey"
      OBVIOUS
    <2>2. open \in Body /\ close \in Body
      BY <1>1, TokensApart, Zenon DEF Body
    <2> QED
      BY <2>1, <2>2, Zenon DEF Spoken
  <1>13. one \in Seq(Spoken) /\ last \in Seq(Spoken) /\ text \in Seq(Spoken)
    BY <1>12, Listed DEF AtDepth
  <1>2. /\ one \in Seq(Tokens) /\ last \in Seq(Tokens) /\ text \in Seq(Tokens)
        /\ Len(one) = 1 /\ Len(last) = 1 /\ one[1] = open /\ last[1] = close
    BY <1>1, Listed DEF AtDepth
  <1>3. /\ \A s : Reading(s, one) = ReadToken(s, open)
        /\ \A s : Reading(s, last) = ReadToken(s, close)
    BY ReadingFew
  <1>4. Within(open, text, close) = whole
    BY DEF Within
  <1>5. /\ \A depth \in Nat : \A items : \A item \in Seq(Tokens) :
             ReadToken(Listing(depth, items, item), open) = Listing(depth + 1, items, item \o one)
        /\ \A depth \in Nat : \A items : \A item \in Seq(Tokens) : depth # 0 =>
             ReadToken(Listing(depth, items, item), close) = Listing(depth - 1, items, item \o last)
    BY <1>1, TokenRead
  <1> HIDE DEF one, last
  <1>6. start \in Seq(Tokens) /\ Len(start) = 1 + Len(text) /\ start[1] = open
    <2>1. start \in Seq(Tokens) /\ Len(start) = Len(one) + Len(text)
      BY <1>2, ConcatFacts
    <2>2. \A i \in 1 .. Len(one) : start[i] = one[i]
      BY <1>2, ConcatFacts
    <2>3. 1 \in 1 .. 1
      OBVIOUS
    <2> QED
      BY <1>2, <2>1, <2>2, <2>3
  <1>7. ASSUME NEW depth \in Nat, NEW items \in Seq(Seq(Tokens)), NEW item \in Seq(Tokens)
        PROVE Reading(Listing(depth, items, item), whole) = Listing(depth, items, item \o whole)
    <2> DEFINE from == Listing(depth, items, item)
    <2>1. depth + 1 \in Nat /\ depth + 1 >= 1 /\ depth + 1 # 0 /\ (depth + 1) - 1 = depth
      OBVIOUS
    <2>2. Reading(from, one) = Listing(depth + 1, items, item \o one)
      BY <1>3, <1>5
    <2>3. item \o one \in Seq(Tokens)
      BY <1>2, ConcatProperties
    <2>4. Reading(Listing(depth + 1, items, item \o one), text)
            = Listing(depth + 1, items, (item \o one) \o text)
      BY <2>1, <2>3 DEF AtDepth, KeepsAt
    <2>5. (item \o one) \o text = item \o start
      BY <1>2, ConcatAssociative
    <2>6. item \o start \in Seq(Tokens)
      BY <1>6, ConcatProperties
    <2> HIDE DEF start
    <2>7. Reading(Listing(depth + 1, items, item \o start), last)
            = Listing(depth, items, (item \o start) \o last)
      BY <1>3, <1>5, <2>1, <2>6
    <2>8. (item \o start) \o last = item \o whole
      <3>1. start \in Seq(Tokens) /\ last \in Seq(Tokens)
        BY <1>2, <1>6
      <3> QED
        BY <3>1, ConcatAssociative
    <2> HIDE DEF from
    <2>9. Reading(from, start) = Reading(Reading(from, one), text)
      BY <1>2, ReadingConcat DEF start
    <2>10. Reading(from, whole) = Reading(Reading(from, start), last)
      BY <1>2, <1>6, ReadingConcat
    <2> HIDE DEF whole
    <2> QED
      BY <2>2, <2>4, <2>5, <2>7, <2>8, <2>9, <2>10 DEF from
  <1>14. start \in Seq(Spoken)
    BY <1>13, ConcatProperties
  <1> HIDE DEF start
  <1>15. whole \in Seq(Spoken)
    BY <1>13, <1>14, ConcatProperties
  <1>8. /\ whole \in Seq(Tokens) /\ Len(whole) = Len(text) + 2 /\ whole[1] = open
        /\ \A i \in 1 .. Len(text) : whole[1 + i] = text[i]
    <2>1. whole \in Seq(Tokens) /\ Len(whole) = Len(start) + Len(last)
      BY <1>2, <1>6, ConcatFacts
    <2>2. \A i \in 1 .. Len(start) : whole[i] = start[i]
      BY <1>2, <1>6, ConcatFacts
    <2>3. Len(text) \in Nat
      BY <1>2, LenProperties
    <2>4. \A i \in 1 .. Len(text) : start[Len(one) + i] = text[i]
      <3> HIDE DEF whole
      <3>1. one \in Seq(Tokens) /\ text \in Seq(Tokens)
        BY <1>2, Zenon
      <3>2. \A i \in 1 .. Len(text) : (one \o text)[Len(one) + i] = text[i]
        BY <3>1, ConcatFacts
      <3> QED
        BY <3>2, Zenon DEF start
    <2> HIDE DEF whole
    <2>5. /\ 1 \in 1 .. 1 + Len(text) /\ \A i \in 1 .. Len(text) : 1 + i \in 1 .. 1 + Len(text)
          /\ (1 + Len(text)) + 1 = Len(text) + 2
      BY <2>3
    <2>6. Len(whole) = Len(text) + 2
      BY <1>2, <1>6, <2>1, <2>5
    <2>7. whole[1] = open
      BY <1>6, <2>2, <2>5
    <2>8. \A i \in 1 .. Len(text) : whole[1 + i] = text[i]
      BY <1>2, <1>6, <2>2, <2>4, <2>5
    <2> QED
      BY <2>1, <2>6, <2>7, <2>8
  <1> HIDE DEF whole
  <1>9. AtDepth(whole, 0)
    BY <1>7, <1>8, <1>15 DEF AtDepth, KeepsAt
  <1>10. Inside(whole) = text
    <2> DEFINE inner == SubSeq(whole, 2, Len(text) + 1)
    <2>1. Len(text) \in Nat
      BY <1>2, LenProperties
    <2>2. (Len(text) + 2) - 1 = Len(text) + 1 /\ Len(text) + 1 \in Int /\ 2 \in Int
      BY <2>1
    <2>3. Inside(whole) = inner
      BY <1>8, <2>2 DEF Inside
    <2>4. \A i \in 2 .. Len(text) + 1 : whole[i] \in Tokens
      <3>1. \A i \in 2 .. Len(text) + 1 : i \in 1 .. Len(whole)
        BY <1>8, <2>1
      <3> QED
        BY <1>8, <3>1, ElementOfSeq
    <2>5. /\ inner \in Seq(Tokens)
          /\ Len(inner) = IF 2 <= Len(text) + 1 THEN (Len(text) + 1) - 2 + 1 ELSE 0
          /\ \A i \in 1 .. (Len(text) + 1) - 2 + 1 : inner[i] = whole[2 + i - 1]
      BY <2>2, <2>4, SubSeqProperties
    <2>6. /\ (Len(text) + 1) - 2 + 1 = Len(text)
          /\ (IF 2 <= Len(text) + 1 THEN (Len(text) + 1) - 2 + 1 ELSE 0) = Len(text)
          /\ \A i \in 1 .. Len(text) : 2 + i - 1 = 1 + i
      BY <2>1
    <2> HIDE DEF inner
    <2>7. Len(inner) = Len(text) /\ \A i \in 1 .. Len(text) : inner[i] = text[i]
      BY <1>8, <2>5, <2>6
    <2>8. inner = text
      BY <1>2, <2>5, <2>7, SeqEqual
    <2> QED
      BY <2>3, <2>8
  <1>11. whole # <<>>
    <2>1. Len(text) \in Nat
      BY <1>2, LenProperties
    <2>2. Len(whole) # 0
      BY <1>8, <2>1
    <2> QED
      BY <2>2, EmptySeq
  <1> QED
    BY <1>4, <1>8, <1>9, <1>10, <1>11

LEMMA ListAtDepth ==
  ASSUME NEW items \in Seq(Seq(Tokens)), NEW text, IsListText(text, items),
         \A n \in 1 .. Len(items) : AtDepth(items[n], 1)
  PROVE  AtDepth(text, 1)
  <1> DEFINE N == Len(items)
  <1>1. N \in Nat
    BY LenProperties
  <1>2. PICK flat : IsListWalk(flat, items) /\ text = flat[N]
    BY DEF IsListText
  <1>3. /\ flat[0] = <<>>
        /\ \A n \in 1 .. N : flat[n] = flat[n - 1] \o ItemText(items, n)
    BY <1>2 DEF IsListWalk
  <1>4. ASSUME NEW n \in 1 .. N PROVE AtDepth(ItemText(items, n), 1)
    <2>1. AtDepth(items[n], 1)
      OBVIOUS
    <2>2. AtDepth(<<",">>, 1)
      <3>1. "," \in Tokens /\ "," \notin Brackets /\ "," \in Spoken
        BY Zenon, TokensApart DEF Tokens, Words, Brackets, Spoken, Body
      <3> QED
        BY <3>1, WordAtDepth
    <2>3. 1 \in Nat
      OBVIOUS
    <2> DEFINE one == IF n = 1 THEN <<>> ELSE <<",">>
    <2>4. AtDepth(one, 1)
      BY <2>2, EmptyAtDepth
    <2>5. ItemText(items, n) = one \o items[n]
      BY DEF ItemText
    <2> HIDE DEF one
    <2> QED
      BY <2>1, <2>3, <2>4, <2>5, DepthBeside
  <1> DEFINE Good == {n \in 0 .. N : AtDepth(flat[n], 1)}
  <1>5. 0 \in Good
    BY <1>1, <1>3, EmptyAtDepth
  <1>6. ASSUME NEW n \in 1 .. N, n - 1 \in Good PROVE n \in Good
    <2>1. AtDepth(flat[n - 1], 1) /\ AtDepth(ItemText(items, n), 1) /\ 1 \in Nat
      BY <1>4, <1>6
    <2>2. AtDepth(flat[n - 1] \o ItemText(items, n), 1)
      BY <2>1, DepthBeside
    <2>3. n \in 0 .. N
      BY <1>1
    <2> QED
      BY <1>3, <2>2, <2>3
  <1>7. N \in Good
    <2>1. N \in 0 .. N
      BY <1>1
    <2> HIDE DEF Good, N
    <2> QED
      BY <1>1, <1>5, <1>6, <2>1, UpTo
  <1> QED
    BY <1>2, <1>7

\* A list is read back as its items.
LEMMA SplitList ==
  ASSUME NEW items \in Seq(Seq(Tokens)), NEW text, IsListText(text, items),
         \A n \in 1 .. Len(items) : AtDepth(items[n], 0) /\ items[n] # <<>>
  PROVE  Split(text) = items
  <1> DEFINE N == Len(items)  start == Listing(0, <<>>, <<>>)
  <1>1. N \in Nat /\ \A n \in 1 .. N : items[n] \in Seq(Tokens)
    BY LenProperties, ElementOfSeq
  <1>2. PICK flat : IsListWalk(flat, items) /\ text = flat[N]
    BY DEF IsListText
  <1>3. /\ flat[0] = <<>>
        /\ \A n \in 0 .. N : flat[n] \in Seq(Tokens)
        /\ \A n \in 1 .. N : flat[n] = flat[n - 1] \o ItemText(items, n)
    BY <1>2 DEF IsListWalk
  <1>4. Split(text) = IF text = <<>> THEN <<>>
                      ELSE Append(Reading(start, text).items, Reading(start, text).item)
    BY DEF Split, Listing
  <1>5. CASE N = 0
    <2>1. text = <<>> /\ items = <<>>
      BY <1>2, <1>3, <1>5, EmptySeq
    <2> QED
      BY <1>4, <2>1
  <1>6. CASE N # 0
    <2> DEFINE Good == {n \in 0 .. N : n > 0 =>
                          Reading(start, flat[n])
                            = Listing(0, SubSeq(items, 1, n - 1), items[n])}
    <2> HIDE DEF N
    <2>1. \A n \in 0 .. N : SubSeq(items, 1, n) \in Seq(Seq(Tokens))
      <3> DEFINE V == Seq(Tokens)
      <3>1. ASSUME NEW n \in 0 .. N PROVE SubSeq(items, 1, n) \in Seq(V)
        <4>1. n \in Int /\ 1 \in Int /\ \A i \in 1 .. n : i \in 1 .. N
          BY <1>1
        <4>2. \A i \in 1 .. n : items[i] \in V
          BY <1>1, <4>1
        <4> HIDE DEF V
        <4> QED
          BY <4>1, <4>2, SubSeqProperties
      <3> QED
        BY <3>1
    <2>2. SubSeq(items, 1, 0) = <<>>
      BY SubSeqEmpty
    <2>3. ASSUME NEW n \in 1 .. N
          PROVE SubSeq(items, 1, n) = SubSeq(items, 1, n - 1) \o <<items[n]>>
      <3>1. 1 \in 1 .. N /\ n \in 1 .. N
        BY <1>1
      <3> QED
        BY <3>1, SubSeqRecursiveSecond DEF N
    <2>4. ASSUME NEW n \in 1 .. N, n - 1 \in Good PROVE n \in Good
      <3>1. n - 1 \in 0 .. N /\ n \in 0 .. N
        BY <1>1
      <3>2. CASE n = 1
        <4>1. flat[1] = <<>> \o (<<>> \o items[1])
          <5>1. 1 \in 1 .. N /\ 1 - 1 = 0
            BY <3>2
          <5>2. flat[1] = flat[0] \o ItemText(items, 1)
            BY <1>3, <5>1
          <5>3. ItemText(items, 1) = <<>> \o items[1]
            BY Zenon DEF ItemText
          <5> QED
            BY <1>3, <5>2, <5>3
        <4>2. flat[1] = items[1]
          <5>1. <<>> \o items[1] = items[1]
            BY <1>1, <3>2, ConcatEmptySeq
          <5> QED
            BY <4>1, <5>1
        <4>3. Reading(start, items[1]) = Listing(0, <<>>, <<>> \o items[1])
          <5>1. KeepsAt(0, items[1])
            BY <3>2 DEF AtDepth, N
          <5>2. 0 \in Nat /\ <<>> \in Seq(Seq(Tokens)) /\ <<>> \in Seq(Tokens) /\ 0 >= 0
            OBVIOUS
          <5> QED
            BY <5>1, <5>2, Zenon DEF KeepsAt
        <4>4. <<>> \o items[1] = items[1] /\ 1 - 1 = 0
          BY <1>1, <3>2, ConcatEmptySeq
        <4>5. Reading(start, flat[n]) = Listing(0, SubSeq(items, 1, n - 1), items[n])
          BY <2>2, <3>2, <4>2, <4>3, <4>4
        <4> QED
          BY <3>1, <4>5
      <3>3. CASE n # 1
        <4> DEFINE m == n - 1  before == SubSeq(items, 1, m - 1)  rest == items[n]
                   after == SubSeq(items, 1, m)
        <4>1. m \in 1 .. N /\ m - 1 \in 0 .. N /\ m > 0 /\ m \in 0 .. N
          BY <1>1, <3>3
        <4>2. Reading(start, flat[m]) = Listing(0, before, items[m])
          BY <2>4, <4>1
        <4> HIDE DEF m, Good
        <4>3. /\ before \in Seq(Seq(Tokens)) /\ items[m] \in Seq(Tokens) /\ rest \in Seq(Tokens)
              /\ flat[m] \in Seq(Tokens) /\ after \in Seq(Seq(Tokens))
          BY <1>1, <1>3, <2>1, <4>1
        <4>4. after = before \o <<items[m]>>
          BY <2>3, <4>1
        <4> HIDE DEF before, after
        <4> DEFINE one == <<",">>
        <4>5. Reading(Listing(0, before, items[m]), one) = Listing(0, after, <<>>)
          <5>1. Reading(Listing(0, before, items[m]), one)
                  = ReadToken(Listing(0, before, items[m]), ",")
            BY ReadingFew
          <5>2. ReadToken(Listing(0, before, items[m]), ",")
                  = Listing(0, before \o <<items[m]>>, <<>>)
            BY <4>3, CommaRead
          <5> QED
            BY <4>4, <5>1, <5>2
        <4>6. Reading(Listing(0, after, <<>>), rest) = Listing(0, after, <<>> \o rest)
          <5>1. KeepsAt(0, rest)
            BY DEF AtDepth, N
          <5>2. 0 \in Nat /\ <<>> \in Seq(Tokens) /\ 0 >= 0
            OBVIOUS
          <5> HIDE DEF rest
          <5> QED
            BY <4>3, <5>1, <5>2, Zenon DEF KeepsAt
        <4>7. <<>> \o rest = rest
          BY <4>3, ConcatEmptySeq
        <4>8. one \in Seq(Tokens)
          <5>1. "," \in Tokens
            BY Zenon DEF Tokens, Words
          <5> QED
            BY <5>1, Listed
        <4>9. flat[n] = flat[m] \o (one \o rest)
          BY <1>3, <3>3 DEF ItemText, m
        <4> HIDE DEF one, rest, start
        <4>10. one \o rest \in Seq(Tokens)
          BY <4>3, <4>8, ConcatProperties
        <4> DEFINE next == one \o rest
        <4>11. Reading(Listing(0, before, items[m]), next)
                 = Reading(Reading(Listing(0, before, items[m]), one), rest)
          BY <4>3, <4>8, ReadingConcat
        <4>14. next \in Seq(Tokens)
          BY <4>10
        <4> HIDE DEF next
        <4>12. Reading(start, flat[m] \o next) = Reading(Reading(start, flat[m]), next)
          BY <4>3, <4>14, ReadingConcat
        <4>13. Reading(start, flat[n]) = Listing(0, after, rest)
          BY <4>2, <4>5, <4>6, <4>7, <4>9, <4>11, <4>12 DEF next
        <4> QED
          BY <3>1, <4>13 DEF Good, after, rest, m
      <3> QED
        BY <3>2, <3>3
    <2>5. 0 \in Good
      BY <1>1
    <2>6. N \in Good
      <3>1. N \in 0 .. N
        BY <1>1
      <3> HIDE DEF Good
      <3> QED
        BY <1>1, <2>4, <2>5, <3>1, UpTo
    <2>7. N \in 1 .. N /\ N > 0
      BY <1>1, <1>6
    <2>8. Reading(start, text) = Listing(0, SubSeq(items, 1, N - 1), items[N])
      BY <1>2, <2>6, <2>7 DEF N
    <2>9. text # <<>>
      <3> DEFINE head == flat[N - 1]  mark == IF N = 1 THEN <<>> ELSE <<",">>
      <3>1. items[N] # <<>> /\ items[N] \in Seq(Tokens)
        BY <1>1, <2>7 DEF N
      <3>2. head \in Seq(Tokens) /\ text = head \o (mark \o items[N])
        <4>1. N - 1 \in 0 .. N
          BY <1>1, <2>7
        <4> QED
          BY <1>2, <1>3, <2>7, <4>1 DEF ItemText, N
      <3>3. mark \in Seq(Tokens)
        <4>1. "," \in Tokens
          BY Zenon DEF Tokens, Words
        <4>2. <<",">> \in Seq(Tokens)
          BY <4>1, Listed
        <4>3. <<>> \in Seq(Tokens)
          OBVIOUS
        <4> QED
          BY <4>2, <4>3
      <3> HIDE DEF head, mark
      <3>4. mark \o items[N] \in Seq(Tokens) /\ mark \o items[N] # <<>>
        BY <3>1, <3>3, ConcatProperties, ConcatEqualIffEmpty
      <3> DEFINE more == mark \o items[N]
      <3> HIDE DEF more
      <3>5. head \o more # <<>>
        BY <3>2, <3>4, ConcatEqualIffEmpty DEF more
      <3> QED
        BY <3>2, <3>5 DEF more
    <2>10. Split(text) = Append(SubSeq(items, 1, N - 1), items[N])
      <3>1. \A a, b, c : Listing(a, b, c).items = b /\ Listing(a, b, c).item = c
        BY DEF Listing
      <3> DEFINE head == SubSeq(items, 1, N - 1)  last == items[N]
      <3> HIDE DEF head, last
      <3>2. Reading(start, text) = Listing(0, head, last)
        BY <2>8 DEF head, last
      <3>3. Split(text) = Append(Reading(start, text).items, Reading(start, text).item)
        BY <1>4, <2>9
      <3>4. Split(text) = Append(head, last)
        BY <3>1, <3>2, <3>3
      <3> QED
        BY <3>4 DEF head, last
    <2>11. Append(SubSeq(items, 1, N - 1), items[N]) = SubSeq(items, 1, N)
      <3>1. N - 1 \in 0 .. N
        BY <1>1, <2>7
      <3>2. SubSeq(items, 1, N - 1) \in Seq(Seq(Tokens)) /\ items[N] \in Seq(Tokens)
        BY <1>1, <2>1, <2>7, <3>1
      <3> QED
        BY <2>3, <2>7, <3>2, AppendIsConcat
    <2>12. SubSeq(items, 1, N) = items
      BY SubSeqFull DEF N
    <2> QED
      BY <2>10, <2>11, <2>12
  <1> QED
    BY <1>5, <1>6

--------------------------------------------------------------------------------
(* Cells: what a value is printed as is read back as that value.               *)

\* The fragment of an item of a list.
IsItem(f) == IsFragment(f) /\ AtDepth(Bound(f), 0) /\ Bound(f) # <<>>

LEMMA ListReads ==
  ASSUME NEW N \in Nat, NEW fs \in [1 .. N -> Fragments(Tokens)],
         \A i \in 1 .. N : IsItem(fs[i])
  PROVE  LET f == JoinedBy(fs, ",") IN
         /\ IsFragment(f) /\ AtDepth(Bound(f), 1)
         /\ Split(Bound(f)) = [i \in 1 .. N |-> Bound(fs[i])]
  <1> DEFINE f == JoinedBy(fs, ",")  items == [i \in 1 .. N |-> Bound(fs[i])]
  <1>1. \A i \in 1 .. N : IsFragment(fs[i])
    BY DEF IsItem
  <1>2. /\ IsFragment(f) /\ items \in Seq(Seq(Tokens)) /\ Len(items) = N
        /\ IsListText(Bound(f), items)
    BY <1>1, JoinReads
  <1>3. \A n \in 1 .. N : items[n] = Bound(fs[n])
    OBVIOUS
  <1>4. \A n \in 1 .. Len(items) : AtDepth(items[n], 0) /\ items[n] # <<>>
    BY <1>2, <1>3 DEF IsItem
  <1> HIDE DEF items, f
  <1>5. \A n \in 1 .. Len(items) : AtDepth(items[n], 1)
    BY <1>4, DepthUp
  <1>6. AtDepth(Bound(f), 1)
    BY <1>2, <1>5, ListAtDepth
  <1>7. Split(Bound(f)) = items
    BY <1>2, <1>4, SplitList
  <1> QED
    BY <1>2, <1>6, <1>7 DEF f, items

LEMMA PlainItem ==
  ASSUME NEW s, s \in Plain \cup (Words \ ({Hole, Blank, ",", "sameKey"} \cup Brackets))
  PROVE  /\ s \in Tokens /\ <<s>> \in Seq(Tokens) /\ AtDepth(<<s>>, 0) /\ <<s>> # <<>>
         /\ Len(<<s>>) = 1
  <1>1. s \in Tokens /\ s \notin Brackets /\ s \in Spoken /\ s # ","
    <2>1. CASE s \in Plain
      <3>1. s \notin Keywords /\ s \notin Words /\ s \in Tokens
        BY <2>1, TokensApart
      <3>2. Brackets \subseteq Words /\ "," \in Words /\ "sameKey" \in Words
        BY Zenon DEF Brackets, Words
      <3> QED
        BY <3>1, <3>2, Zenon DEF Spoken, Body
    <2>2. CASE s \in Words \ ({Hole, Blank, ",", "sameKey"} \cup Brackets)
      <3>1. s \notin Keywords /\ s \in Tokens
        BY <2>2, TokensApart, Zenon
      <3> QED
        BY <2>2, <3>1, Zenon DEF Spoken, Body
    <2> QED
      BY <2>1, <2>2, Zenon
  <1>2. AtDepth(<<s>>, 0)
    BY <1>1, WordAtDepth
  <1>3. <<s>> \in Seq(Tokens) /\ Len(<<s>>) = 1
    BY <1>1, Listed
  <1>4. <<s>> # <<>>
    OBVIOUS
  <1> QED
    BY <1>1, <1>2, <1>3, <1>4

LEMMA ScalarItem ==
  ASSUME NEW c, NEW s \in Plain
  PROVE  IsItem(Scalar(c, s)) /\ Bound(Scalar(c, s)) = <<s>>
  <1>1. s \in Tokens /\ AtDepth(<<s>>, 0) /\ <<s>> # <<>>
    BY PlainItem, Zenon
  <1>2. IsFragment(Raw(s)) /\ Bound(Raw(s)) = <<s>>
    BY RawBinds, Zenon
  <1>3. IsFragment(P(s)) /\ Bound(P(s)) = <<s>>
    BY <1>1, HoleBinds, Zenon
  <1>4. Scalar(c, s) = Raw(s) \/ Scalar(c, s) = P(s)
    BY DEF Scalar
  <1>5. IsFragment(Scalar(c, s)) /\ Bound(Scalar(c, s)) = <<s>>
    BY <1>2, <1>3, <1>4, Zenon
  <1> QED
    BY <1>1, <1>5, Zenon DEF IsItem

\* A value that fits its column.
IsFit(c, v) == (v = Undefined \/ IsValue(c, v)) /\ ~IsUnfit(c, v)

LEMMA FitPlain ==
  ASSUME WriteAssumption, NEW c \in ColumnSet, NEW v, IsFit(c, v), v # Undefined
  PROVE  /\ v \in Seq(Plain) /\ Len(v) \in Nat /\ \A i \in 1 .. Len(v) : v[i] \in Plain
         /\ c \notin Arrays => Len(v) = 1 /\ v = <<v[1]>> /\ v[1] \in Plain
  <1>1. v \in Seq(STRING) /\ (c \notin Arrays => Len(v) = 1)
    BY DEF IsFit, IsValue
  <1>2. Fitting[c] \subseteq Plain
    BY DEF WriteAssumption
  <1>3. \A i \in 1 .. Len(v) : v[i] \in Plain
    BY <1>2 DEF IsFit, IsUnfit
  <1>4. Len(v) \in Nat
    BY <1>1, LenProperties
  <1>5. v \in Seq(Plain)
    BY <1>1, <1>3, ListFacts, SeqDef
  <1>6. ASSUME c \notin Arrays PROVE Len(v) = 1 /\ v = <<v[1]>> /\ v[1] \in Plain
    <2>1. Len(v) = 1
      BY <1>1, <1>6
    <2>2. v[1] \in Plain
      BY <1>3, <2>1
    <2> DEFINE one == <<v[1]>>
    <2>3. one \in Seq(Plain) /\ Len(one) = 1 /\ one[1] = v[1]
      BY <2>2, Listed
    <2> HIDE DEF one
    <2>4. v = one
      BY <1>5, <2>1, <2>3, SeqEqual
    <2> QED
      BY <2>1, <2>2, <2>4 DEF one
  <1> QED
    BY <1>3, <1>4, <1>5, <1>6

ReadsAs(c, f, v) == IsItem(f) /\ ReadCell(c, Bound(f)) = v

(* What is read of a cell, by its first token.                                 *)
LEMMA ExpressionsApart ==
  ASSUME WriteAssumption
  PROVE  \A s \in Expressions : s \in STRING /\ s \notin Keywords /\ s \notin Words
  BY Zenon DEF WriteAssumption

LEMMA ExpressionItem ==
  ASSUME WriteAssumption, NEW s \in Expressions
  PROVE  IsItem(Raw(s)) /\ Bound(Raw(s)) = <<s>>
  <1>1. s \in STRING /\ s \notin Keywords /\ s \notin Words
    BY ExpressionsApart
  <1>2. Hole \in Words /\ Blank \in Words /\ "," \in Words /\ "sameKey" \in Words
        /\ Brackets \subseteq Words
    BY Zenon DEF Words, Blank, Brackets
  <1>3. s \in Tokens /\ s # Hole /\ s # "" /\ s # "," /\ s \in Spoken /\ s \notin Brackets
    BY <1>1, <1>2, Zenon DEF Tokens, Blank, Spoken, Body
  <1>4. Token(s) = <<s>>
    BY <1>3, Zenon DEF Token
  <1>5. IsFragment(Raw(s)) /\ Bound(Raw(s)) = <<s>>
    BY <1>3, <1>4, RawBinds, Zenon
  <1>6. AtDepth(<<s>>, 0)
    BY <1>3, WordAtDepth
  <1>7. <<s>> # <<>>
    OBVIOUS
  <1> QED
    BY <1>5, <1>6, <1>7, Zenon DEF IsItem

\* A cell that is an expression of doUpdateSet.
IsDelta(text) == text[1] \in Expressions

LEMMA PlainCell ==
  ASSUME WriteAssumption, NEW c, NEW s \in Plain \cup {"NULL"}
  PROVE  ReadCell(c, <<s>>) = <<s>> /\ ~IsDelta(<<s>>) /\ <<s>> # <<"missing">>
  <1>1. s # "DEFAULT" /\ s # "ARRAY[" /\ s # "missing" /\ s \notin Expressions
    <2>1. CASE s \in Plain
      <3>1. s \notin Words
        BY <2>1, TokensApart
      <3>2. s \notin Expressions
        BY <2>1, Zenon DEF Plain
      <3> QED
        BY <3>1, <3>2, Zenon DEF Words
    <2>2. CASE s = "NULL"
      <3>1. "NULL" \in Words
        BY Zenon DEF Words
      <3>2. s \notin Expressions
        BY <2>2, <3>1, ExpressionsApart, Zenon
      <3> QED
        BY <2>2, <3>2
    <2> QED
      BY <2>1, <2>2, Zenon
  <1> DEFINE one == <<s>>
  <1>2. one[1] = s
    OBVIOUS
  <1>3. one # <<"DEFAULT">> /\ one # <<"missing">>
    BY <1>1, <1>2
  <1> HIDE DEF one
  <1>4. one[1] # "ARRAY[" /\ one[1] \notin Expressions
    BY <1>1, <1>2
  <1>5. ReadCell(c, one) = one
    BY <1>3, <1>4, Zenon DEF ReadCell
  <1> QED
    BY <1>3, <1>4, <1>5, Zenon DEF one, IsDelta

LEMMA BracketCell ==
  ASSUME WriteAssumption, NEW c, NEW text, AtDepth(text, 1)
  PROVE  LET whole == Within("ARRAY[", text, "]")
             items == Split(text)
         IN  /\ ReadCell(c, whole) = [n \in 1 .. Len(items) |-> items[n][1]]
             /\ ~IsDelta(whole) /\ whole # <<"missing">>
  <1> DEFINE whole == Within("ARRAY[", text, "]")
  <1>1. whole[1] = "ARRAY[" /\ Inside(whole) = text
    BY Bracketed
  <1> HIDE DEF whole
  <1>2. whole # <<"DEFAULT">> /\ whole # <<"missing">>
    BY <1>1
  <1>6. "ARRAY[" \in Words
    BY Zenon DEF Words
  <1>7. ~IsDelta(whole)
    BY <1>1, <1>6, ExpressionsApart DEF IsDelta
  <1> DEFINE items == Split(text)  read == [n \in 1 .. Len(items) |-> items[n][1]]
  <1>3. Split(Inside(whole)) = items
    BY <1>1
  <1>4. ReadCell(c, whole)
          = [n \in 1 .. Len(Split(Inside(whole))) |-> Split(Inside(whole))[n][1]]
    BY <1>1, <1>2, Zenon DEF ReadCell
  <1> HIDE DEF items
  <1>5. ReadCell(c, whole) = read
    BY <1>3, <1>4
  <1> QED
    BY <1>2, <1>5, <1>7, Zenon DEF whole, items

LEMMA ArrayItem ==
  ASSUME WriteAssumption, NEW c, NEW v \in Seq(Plain)
  PROVE  LET f == Construct(<<"ARRAY[", "]">>,
                            <<JoinedBy([i \in 1 .. Len(v) |-> Scalar(c, v[i])], ",")>>)
         IN  ReadsAs(c, f, v) /\ ~IsDelta(Bound(f)) /\ Bound(f) # <<"missing">>
  <1> DEFINE N == Len(v)  fs == [i \in 1 .. N |-> Scalar(c, v[i])]  list == JoinedBy(fs, ",")
             f == Construct(<<"ARRAY[", "]">>, <<list>>)
  <1>1. N \in Nat /\ \A i \in 1 .. N : v[i] \in Plain
    BY LenProperties, ElementOfSeq
  <1>2. \A i \in 1 .. N : fs[i] = Scalar(c, v[i])
    OBVIOUS
  <1>3. \A i \in 1 .. N : IsItem(fs[i]) /\ Bound(fs[i]) = <<v[i]>>
    BY <1>1, <1>2, ScalarItem
  <1>4. fs \in [1 .. N -> Fragments(Tokens)]
    BY <1>1, <1>2, <1>3 DEF IsItem, IsFragment
  <1> HIDE DEF fs, N
  <1>5. /\ IsFragment(list) /\ AtDepth(Bound(list), 1)
        /\ Split(Bound(list)) = [i \in 1 .. N |-> Bound(fs[i])]
    BY <1>1, <1>3, <1>4, ListReads
  <1> HIDE DEF list
  <1> DEFINE text == Bound(list)  whole == Within("ARRAY[", text, "]")
             items == [i \in 1 .. N |-> Bound(fs[i])]
  <1>6. "ARRAY[" \in Tokens \ {Hole} /\ "]" \in Tokens \ {Hole}
        /\ Token("ARRAY[") = <<"ARRAY[">> /\ Token("]") = <<"]">>
    <2>1. "ARRAY[" \in Words \ {Hole, Blank} /\ "]" \in Words \ {Hole, Blank}
      BY Zenon DEF Words, Hole, Blank
    <2> QED
      BY <2>1, TokensApart, Zenon
  <1>7. IsFragment(f) /\ Bound(f) = (Token("ARRAY[") \o Bound(list)) \o Token("]")
    BY <1>5, <1>6, Template2
  <1>8. <<"ARRAY[">> \in Seq(Tokens) /\ <<"]">> \in Seq(Tokens) /\ text \in Seq(Tokens)
    BY <1>5, <1>6, Listed DEF AtDepth
  <1>9. Bound(f) = whole
    <2> DEFINE one == <<"ARRAY[">>  last == <<"]">>
    <2>1. Bound(f) = (one \o text) \o last
      BY <1>6, <1>7
    <2>2. one \in Seq(Tokens) /\ last \in Seq(Tokens)
      BY <1>8
    <2>4. whole = one \o text \o last
      BY DEF Within
    <2> HIDE DEF one, last, text, whole
    <2> QED
      BY <2>1, <2>4
  <1>14. AtDepth(text, 1)
    BY <1>5
  <1> HIDE DEF text
  <1>10. AtDepth(whole, 0) /\ whole # <<>>
    BY <1>14, Bracketed
  <1>11. /\ ReadCell(c, whole) = [n \in 1 .. Len(Split(text)) |-> Split(text)[n][1]]
         /\ ~IsDelta(whole) /\ whole # <<"missing">>
    BY <1>14, BracketCell
  <1> HIDE DEF f, whole
  <1>12. ReadCell(c, whole) = v
    <2>1. Split(text) = items
      BY <1>5 DEF text
    <2>2. Len(items) = N
      BY <1>1
    <2>3. \A n \in 1 .. N : items[n][1] = v[n]
      <3>1. \A n \in 1 .. N : items[n] = <<v[n]>>
        BY <1>3
      <3> HIDE DEF items
      <3> QED
        BY <3>1
    <2>4. ReadCell(c, whole) = [n \in 1 .. N |-> items[n][1]]
      BY <1>11, <2>1, <2>2
    <2> HIDE DEF items
    <2>5. v = [n \in 1 .. N |-> v[n]]
      BY LenProperties DEF N
    <2> QED
      BY <2>3, <2>4, <2>5
  <1>13. IsItem(f)
    BY <1>7, <1>9, <1>10 DEF IsItem
  <1> QED
    BY <1>9, <1>11, <1>12, <1>13 DEF ReadsAs, f, list, fs, N

LEMMA MissingRead == Bound(Missing) = <<"missing">>
  <1>1. "missing" \in Words
    BY Zenon DEF Words
  <1>2. "missing" \in Tokens /\ "missing" # Hole
    BY <1>1, TokensApart, Zenon DEF Hole
  <1> DEFINE one == <<"missing">>
  <1>3. one \in Seq(Tokens) /\ \A i \in 1 .. Len(one) : one[i] # Hole
    BY <1>2, Listed
  <1> HIDE DEF one
  <1>4. Bound([parts |-> one, params |-> <<>>]) = one
    BY <1>3, PlainFragment
  <1> QED
    BY <1>4, Zenon DEF one, Missing

LEMMA NullItem ==
  ASSUME WriteAssumption, NEW c
  PROVE  ReadsAs(c, Raw("NULL"), Null) /\ ~IsDelta(Bound(Raw("NULL")))
  <1>1. "NULL" \in Words \ {Hole, Blank} /\ "NULL" \notin Brackets
        /\ "NULL" # "," /\ "NULL" # "sameKey"
    BY Zenon DEF Words, Hole, Blank, Brackets
  <1>2. IsFragment(Raw("NULL")) /\ Bound(Raw("NULL")) = <<"NULL">>
    BY <1>1, RawBinds, Zenon
  <1>3. AtDepth(<<"NULL">>, 0) /\ <<"NULL">> # <<>>
    BY <1>1, PlainItem, Zenon
  <1>4. ReadCell(c, <<"NULL">>) = <<"NULL">> /\ ~IsDelta(<<"NULL">>)
    BY PlainCell
  <1> QED
    BY <1>2, <1>3, <1>4, Zenon DEF ReadsAs, IsItem, Null

LEMMA DefaultItem ==
  ASSUME NEW c
  PROVE  ReadsAs(c, Raw("DEFAULT"), Undefined) /\ Raw("DEFAULT") # Missing
  <1>1. "DEFAULT" \in Words \ {Hole, Blank} /\ "DEFAULT" \notin Brackets
        /\ "DEFAULT" # "," /\ "DEFAULT" # "sameKey"
    BY Zenon DEF Words, Hole, Blank, Brackets
  <1>2. IsFragment(Raw("DEFAULT")) /\ Bound(Raw("DEFAULT")) = <<"DEFAULT">>
    BY <1>1, RawBinds, Zenon
  <1>3. AtDepth(<<"DEFAULT">>, 0) /\ <<"DEFAULT">> # <<>>
    BY <1>1, PlainItem, Zenon
  <1>4. ReadCell(c, <<"DEFAULT">>) = Undefined
    BY Zenon DEF ReadCell
  <1>5. <<"missing">> # <<"DEFAULT">>
    OBVIOUS
  <1>6. Raw("DEFAULT") # Missing
    BY <1>2, <1>5, MissingRead
  <1> QED
    BY <1>2, <1>3, <1>4, <1>6, Zenon DEF ReadsAs, IsItem

LEMMA ValueItem ==
  ASSUME WriteAssumption, NEW c \in ColumnSet, NEW v, IsFit(c, v)
  PROVE  LET f == SerializeValueForDataType(c, v) IN
         /\ f = Missing <=> v = Undefined
         /\ ReadsAs(c, OrNull(f), OrNone(v)) /\ ~IsDelta(Bound(OrNull(f)))
  <1> DEFINE f == SerializeValueForDataType(c, v)
  <1>1. CASE v = Undefined
    <2>1. f = Missing
      BY <1>1, Zenon DEF SerializeValueForDataType
    <2>2. OrNull(f) = Raw("NULL") /\ OrNone(v) = Null
      BY <1>1, <2>1, Zenon DEF OrNull, OrNone
    <2> HIDE DEF f
    <2>3. ReadsAs(c, OrNull(f), OrNone(v)) /\ ~IsDelta(Bound(OrNull(f)))
      BY <2>2, NullItem
    <2> QED
      BY <1>1, <2>1, <2>3 DEF f
  <1>2. CASE v # Undefined
    <2>1. /\ v \in Seq(Plain)
          /\ c \notin Arrays => Len(v) = 1 /\ v = <<v[1]>> /\ v[1] \in Plain
      BY <1>2, FitPlain
    <2>2. ReadsAs(c, f, v) /\ ~IsDelta(Bound(f)) /\ Bound(f) # <<"missing">>
      <3>1. CASE c \in Arrays
        <4>1. f = Construct(<<"ARRAY[", "]">>,
                            <<JoinedBy([i \in 1 .. Len(v) |-> Scalar(c, v[i])], ",")>>)
          BY <1>2, <3>1, Zenon DEF SerializeValueForDataType
        <4> HIDE DEF f
        <4> QED
          BY <2>1, <4>1, ArrayItem
      <3>2. CASE c \notin Arrays
        <4>1. f = Scalar(c, v[1])
          BY <1>2, <3>2, Zenon DEF SerializeValueForDataType
        <4> HIDE DEF f
        <4> DEFINE s == v[1]
        <4>2. s \in Plain /\ v = <<s>>
          BY <2>1, <3>2
        <4> HIDE DEF s
        <4>3. IsItem(Scalar(c, s)) /\ Bound(Scalar(c, s)) = <<s>>
          BY <4>2, ScalarItem
        <4>4. ReadCell(c, <<s>>) = <<s>> /\ ~IsDelta(<<s>>) /\ <<s>> # <<"missing">>
          BY <4>2, PlainCell
        <4>5. f = Scalar(c, s)
          BY <4>1 DEF s
        <4> QED
          BY <4>2, <4>3, <4>4, <4>5, Zenon DEF ReadsAs
      <3> QED
        BY <3>1, <3>2
    <2> HIDE DEF f
    <2>3. f # Missing
      BY <2>2, MissingRead
    <2>4. OrNull(f) = f /\ OrNone(v) = v
      BY <1>2, <2>3, Zenon DEF OrNull, OrNone
    <2> QED
      BY <1>2, <2>2, <2>3, <2>4 DEF f
  <1> QED
    BY <1>1, <1>2

\* What an object's cell says of a stored column: nothing where it is DEFAULT.
Given(object, c) ==
  IF c \in DOMAIN DefaultsOf /\ At(object, c) = Undefined THEN Undefined
  ELSE OrNone(At(object, c))

\* The value the i-th object stands for in a stored column.
Stands(i, c) ==
  IF At(builder.batch[i], c) # Undefined THEN At(builder.batch[i], c) ELSE Default(i, c)

IsObject(object) ==
  /\ DOMAIN object \subseteq ColumnSet
  /\ \A c \in DOMAIN object : IsValue(c, object[c])

CellFits(object, c) ==
  (c \in DOMAIN DefaultsOf /\ At(object, c) = Undefined) \/ IsFit(c, At(object, c))

LEMMA CellItem ==
  ASSUME WriteAssumption, NEW c \in ColumnSet, NEW object, CellFits(object, c)
  PROVE  LET f == Cell(object, c) IN
         /\ f = Missing <=> At(object, c) = Undefined /\ c \notin DOMAIN DefaultsOf
         /\ ReadsAs(c, OrNull(f), Given(object, c))
  <1> DEFINE f == Cell(object, c)  v == At(object, c)
  <1>1. CASE c \in DOMAIN DefaultsOf /\ v = Undefined
    <2>1. f = Raw("DEFAULT")
      BY <1>1, Zenon DEF Cell
    <2>2. f # Missing /\ ReadsAs(c, f, Undefined)
      BY <2>1, DefaultItem
    <2>3. OrNull(f) = f /\ Given(object, c) = Undefined
      BY <1>1, <2>2, Zenon DEF OrNull, Given
    <2> QED
      BY <1>1, <2>2, <2>3
  <1>2. CASE ~(c \in DOMAIN DefaultsOf /\ v = Undefined)
    <2>1. f = SerializeValueForDataType(c, v)
      BY <1>2, Zenon DEF Cell
    <2>2. IsFit(c, v)
      BY <1>2 DEF CellFits
    <2>4. OrNone(v) = Given(object, c)
      BY <1>2, Zenon DEF Given
    <2> HIDE DEF f, v
    <2>3. /\ f = Missing <=> v = Undefined
          /\ ReadsAs(c, OrNull(f), OrNone(v))
      BY <2>1, <2>2, ValueItem
    <2>5. v = Undefined => c \notin DOMAIN DefaultsOf
      BY <1>2
    <2> QED
      BY <2>3, <2>4, <2>5 DEF f, v
  <1> QED
    BY <1>1, <1>2

FirstOfEach(items) == [n \in 1 .. Len(items) |-> items[n][1]]

--------------------------------------------------------------------------------
(* Lists of names and of tuples, and what a clause says of them.               *)

LEMMA NamesRead ==
  ASSUME WriteAssumption, NEW cs \in Seq(ColumnSet)
  PROVE  /\ IsFragment(Names(cs)) /\ AtDepth(Bound(Names(cs)), 1)
         /\ FirstOfEach(Split(Bound(Names(cs)))) = cs
         /\ Len(Split(Bound(Names(cs)))) = Len(cs)
  <1> DEFINE N == Len(cs)  fs == [i \in 1 .. N |-> Raw(cs[i])]
             items == [i \in 1 .. N |-> Bound(fs[i])]  f == JoinedBy(fs, ",")
  <1>1. ColumnSet \subseteq Plain
    BY ListFacts DEF WriteAssumption, ColumnSet
  <1>2. N \in Nat /\ cs \in [1 .. N -> ColumnSet] /\ \A i \in 1 .. N : cs[i] \in Plain
    BY <1>1, LenProperties
  <1>3. \A i \in 1 .. N : fs[i] = Raw(cs[i])
    OBVIOUS
  <1>4. ASSUME NEW i \in 1 .. N PROVE IsItem(fs[i]) /\ Bound(fs[i]) = <<cs[i]>>
    <2> DEFINE s == cs[i]
    <2>1. s \in Plain
      BY <1>2
    <2>2. fs[i] = Raw(s)
      BY <1>3
    <2> HIDE DEF s, fs
    <2>3. IsFragment(Raw(s)) /\ Bound(Raw(s)) = <<s>>
      BY <2>1, RawBinds, Zenon
    <2>4. AtDepth(<<s>>, 0) /\ <<s>> # <<>>
      BY <2>1, PlainItem, Zenon
    <2>5. IsItem(Raw(s))
      BY <2>3, <2>4, Zenon DEF IsItem
    <2> QED
      BY <2>2, <2>3, <2>5 DEF s
  <1>5. fs \in [1 .. N -> Fragments(Tokens)]
    BY <1>2, <1>3, <1>4 DEF IsItem, IsFragment
  <1>6. Names(cs) = f
    BY DEF Names
  <1> HIDE DEF fs
  <1>7. IsFragment(f) /\ AtDepth(Bound(f), 1) /\ Split(Bound(f)) = items
    BY <1>2, <1>4, <1>5, ListReads
  <1>8. Len(items) = N /\ \A i \in 1 .. N : items[i][1] = cs[i]
    <2>1. Len(items) = N
      BY <1>2
    <2>2. \A i \in 1 .. N : items[i] = <<cs[i]>>
      BY <1>4
    <2> HIDE DEF items
    <2> QED
      BY <2>1, <2>2
  <1> HIDE DEF items, N
  <1>9. FirstOfEach(items) = cs
    BY <1>2, <1>8 DEF FirstOfEach
  <1> QED
    BY <1>6, <1>7, <1>8, <1>9 DEF N

\* The rows of a VALUES clause: W cells each.
AreRows(rows, N, W) ==
  /\ N \in Nat /\ W \in Nat /\ DOMAIN rows = 1 .. N /\ Len(rows) = N
  /\ \A i \in 1 .. N : /\ rows[i] \in [1 .. W -> Fragments(Tokens)]
                       /\ \A n \in 1 .. W : IsItem(rows[i][n])

LEMMA TupleItem ==
  ASSUME NEW W \in Nat, NEW fs \in [1 .. W -> Fragments(Tokens)],
         \A n \in 1 .. W : IsItem(fs[n])
  PROVE  LET f == Parens(JoinedBy(fs, ",")) IN
         IsItem(f) /\ Split(Inside(Bound(f))) = [n \in 1 .. W |-> Bound(fs[n])]
  <1> DEFINE list == JoinedBy(fs, ",")  f == Parens(list)
  <1>1. /\ IsFragment(list) /\ AtDepth(Bound(list), 1)
        /\ Split(Bound(list)) = [n \in 1 .. W |-> Bound(fs[n])]
    BY ListReads
  <1> HIDE DEF list
  <1>2. /\ "(" \in Tokens \ {Hole} /\ ")" \in Tokens \ {Hole}
        /\ Token("(") = <<"(">> /\ Token(")") = <<")">>
    <2>1. "(" \in Words \ {Hole, Blank} /\ ")" \in Words \ {Hole, Blank}
      BY Zenon DEF Words, Hole, Blank
    <2> QED
      BY <2>1, TokensApart, Zenon
  <1>3. f = Construct(<<"(", ")">>, <<list>>)
    BY Zenon DEF Parens
  <1> HIDE DEF f
  <1>4. IsFragment(f) /\ Bound(f) = (Token("(") \o Bound(list)) \o Token(")")
    BY <1>1, <1>2, <1>3, Template2
  <1> DEFINE text == Bound(list)  whole == Within("(", text, ")")
  <1>5. Bound(f) = whole
    <2> DEFINE one == <<"(">>  last == <<")">>
    <2>1. Bound(f) = (one \o text) \o last
      BY <1>2, <1>4
    <2>2. whole = one \o text \o last
      BY DEF Within
    <2> HIDE DEF one, last, text, whole
    <2> QED
      BY <2>1, <2>2
  <1>6. AtDepth(text, 1)
    BY <1>1
  <1> HIDE DEF text
  <1>7. AtDepth(whole, 0) /\ whole # <<>> /\ Inside(whole) = text
    BY <1>6, Bracketed
  <1> HIDE DEF whole
  <1>8. IsItem(f)
    BY <1>4, <1>5, <1>7 DEF IsItem
  <1> QED
    BY <1>1, <1>5, <1>7, <1>8 DEF f, list, text

LEMMA TuplesRead ==
  ASSUME NEW rows, NEW N, NEW W, AreRows(rows, N, W)
  PROVE  LET tuples == Split(Bound(Tuples(rows))) IN
         /\ IsFragment(Tuples(rows)) /\ AtDepth(Bound(Tuples(rows)), 1)
         /\ Len(tuples) = N
         /\ \A i \in 1 .. N :
              Split(Inside(tuples[i])) = [n \in 1 .. W |-> Bound(rows[i][n])]
  <1> DEFINE fs == [i \in 1 .. N |-> Parens(JoinedBy(rows[i], ","))]
             f == JoinedBy(fs, ",")  items == [i \in 1 .. N |-> Bound(fs[i])]
  <1>1. N \in Nat /\ W \in Nat /\ Len(rows) = N
    BY DEF AreRows
  <1>2. \A i \in 1 .. N : fs[i] = Parens(JoinedBy(rows[i], ","))
    OBVIOUS
  <1>3. ASSUME NEW i \in 1 .. N
        PROVE  /\ IsItem(fs[i])
               /\ Split(Inside(Bound(fs[i]))) = [n \in 1 .. W |-> Bound(rows[i][n])]
    <2> DEFINE row == rows[i]
    <2>1. row \in [1 .. W -> Fragments(Tokens)] /\ \A n \in 1 .. W : IsItem(row[n])
      BY DEF AreRows
    <2>2. fs[i] = Parens(JoinedBy(row, ","))
      BY <1>2
    <2> HIDE DEF fs, row
    <2>3. /\ IsItem(Parens(JoinedBy(row, ",")))
          /\ Split(Inside(Bound(Parens(JoinedBy(row, ",")))))
               = [n \in 1 .. W |-> Bound(row[n])]
      BY <1>1, <2>1, TupleItem
    <2> QED
      BY <2>2, <2>3 DEF row
  <1>4. fs \in [1 .. N -> Fragments(Tokens)]
    BY <1>3 DEF IsItem, IsFragment
  <1>5. Tuples(rows) = f
    BY <1>1 DEF Tuples
  <1> HIDE DEF fs
  <1>6. IsFragment(f) /\ AtDepth(Bound(f), 1) /\ Split(Bound(f)) = items
    BY <1>1, <1>3, <1>4, ListReads
  <1>7. Len(items) = N /\ \A i \in 1 .. N : items[i] = Bound(fs[i])
    BY <1>1
  <1> HIDE DEF items, f
  <1> QED
    BY <1>3, <1>5, <1>6, <1>7

(* A statement: one clause after another.                                      *)
LEMMA WordHas ==
  \A word, k : Has(<<k>>, word) <=> word = k
  BY DEF Has

LEMMA ClauseSays ==
  ASSUME NEW text, IsHeard(text), NEW k \in Keywords, Section(text, k) = <<>>,
         NEW b \in Seq(Body)
  PROVE  LET next == text \o (<<k>> \o b) IN
         /\ IsHeard(next)
         /\ \A word \in Keywords : word # k => Section(next, word) = Section(text, word)
         /\ Section(next, k) = b
         /\ \A word \in Keywords : Has(next, word) <=> Has(text, word) \/ word = k
         /\ Has(next, "sameKey") <=> Has(text, "sameKey") \/ Has(b, "sameKey")
  <1> DEFINE one == <<k>>  clause == one \o b  next == text \o clause
  <1>1. <<>> \o b = b
    BY ConcatEmptySeq
  <1>2. k \in Tokens /\ k # "sameKey" /\ Body \subseteq Tokens
    <2>1. "sameKey" \in Words
      BY Zenon DEF Words
    <2> QED
      BY <2>1, TokensApart, Zenon DEF Body
  <1>3. one \in Seq(Tokens)
    BY <1>2, Listed
  <1>4. b \in Seq(Tokens)
    BY <1>2, SeqMonotonic
  <1>5. ~Has(one, "sameKey")
    BY <1>2, WordHas
  <1>6. text \in Seq(Tokens)
    BY DEF IsHeard
  <1>7. /\ IsHeard(next)
        /\ \A word \in Keywords : word # k => Section(next, word) = Section(text, word)
        /\ Section(next, k) = Section(text, k) \o b
        /\ \A word \in Keywords : Has(next, word) <=> Has(text, word) \/ word = k
    BY ClauseHeard
  <1> HIDE DEF one
  <1>8. clause \in Seq(Tokens)
    BY <1>3, <1>4, ConcatProperties
  <1>9. Has(clause, "sameKey") <=> Has(b, "sameKey")
    BY <1>3, <1>4, <1>5, HasBeside
  <1> HIDE DEF clause
  <1>10. Has(next, "sameKey") <=> Has(text, "sameKey") \/ Has(clause, "sameKey")
    BY <1>6, <1>8, HasBeside
  <1> HIDE DEF next
  <1> QED
    BY <1>1, <1>7, <1>9, <1>10 DEF next, clause, one

LEMMA SpokenBody ==
  ASSUME NEW least, NEW text, AtDepth(text, least)
  PROVE  text \in Seq(Body) /\ ~Has(text, "sameKey")
  <1>1. text \in Seq(Spoken)
    BY DEF AtDepth
  <1>2. Spoken \subseteq Body
    BY DEF Spoken
  <1>3. \A i \in 1 .. Len(text) : text[i] # "sameKey"
    <2>1. \A i \in 1 .. Len(text) : text[i] \in Spoken
      BY <1>1, ElementOfSeq
    <2> QED
      BY <2>1 DEF Spoken
  <1> QED
    BY <1>1, <1>2, <1>3, SeqMonotonic DEF Has

LEMMA ConditionReads ==
  ASSUME NEW where, IsCondition(where)
  PROVE  /\ IsFragment(where) /\ Bound(where) \in Seq(Body)
         /\ Has(Bound(where), "sameKey") <=> Has(where.parts, "sameKey")
  <1> DEFINE W == {"sameKey", "unset", "is", Hole}
  <1>1. where \in [parts : Seq(W), params : Seq(Plain)] /\ Balanced(where)
    BY DEF IsCondition, Balanced
  <1>2. W \subseteq Words /\ Plain \subseteq Tokens /\ Words \subseteq Tokens
    BY TokensApart, Zenon DEF Words
  <1> HIDE DEF W
  <1>3. W \subseteq Tokens
    BY <1>2
  <1> DEFINE p == where.parts  q == where.params
  <1>4. p \in Seq(W) /\ q \in Seq(Plain) /\ where = [parts |-> p, params |-> q]
    BY <1>1
  <1>5. p \in Seq(Tokens) /\ q \in Seq(Tokens)
    BY <1>2, <1>3, <1>4, SeqMonotonic
  <1>6. where \in Fragments(Tokens)
    BY <1>4, <1>5 DEF Fragments
  <1>7. /\ Bound(where) \in Seq(Tokens) /\ Len(Bound(where)) = Len(p)
        /\ \A i \in 1 .. Len(p) : p[i] = Hole => HoleNumber(p, i) \in 1 .. Len(q)
    BY <1>1, <1>6, BoundType
  <1> DEFINE read == Bound(where)
  <1>8. \A i \in 1 .. Len(p) :
          read[i] = IF p[i] = Hole THEN q[HoleNumber(p, i)] ELSE p[i]
    BY DEF Bound
  <1> HIDE DEF read
  <1>9. ASSUME NEW i \in 1 .. Len(p)
        PROVE read[i] \in Body /\ (read[i] = "sameKey" <=> p[i] = "sameKey")
    <2>1. "sameKey" \in Words /\ "sameKey" # Hole
      BY Zenon DEF Words, Hole
    <2>2. CASE p[i] = Hole
      <3>1. read[i] \in Plain
        BY <1>4, <1>7, <1>8, <2>2, ElementOfSeq
      <3>2. read[i] \in Body /\ read[i] # "sameKey"
        BY <2>1, <3>1, TokensApart, Zenon DEF Body
      <3> QED
        BY <2>1, <2>2, <3>2, Zenon
    <2>3. CASE p[i] # Hole
      <3>1. read[i] = p[i] /\ p[i] \in W
        BY <1>4, <1>8, <2>3, ElementOfSeq
      <3>2. p[i] \in Words
        BY <1>2, <3>1
      <3>3. p[i] \in Body
        BY <3>2, TokensApart, Zenon DEF Body
      <3> QED
        BY <3>1, <3>3
    <2> QED
      BY <2>2, <2>3
  <1>10. read \in Seq(Body)
    <2>1. read \in Seq(Tokens) /\ \A i \in 1 .. Len(read) : read[i] \in Body
      BY <1>7, <1>9 DEF read
    <2> QED
      BY <2>1, ListFacts, SeqDef
  <1>11. Has(read, "sameKey") <=> Has(p, "sameKey")
    <2>1. Len(read) = Len(p)
      BY <1>7 DEF read
    <2> QED
      BY <1>9, <2>1 DEF Has
  <1> QED
    BY <1>1, <1>6, <1>10, <1>11 DEF read, IsFragment

LEMMA TwoClauses ==
  ASSUME NEW j \in Keywords, NEW k \in Keywords, j # k,
         NEW a \in Seq(Body), NEW b \in Seq(Body), ~Has(a, "sameKey"), ~Has(b, "sameKey")
  PROVE  LET text == (<<j>> \o a) \o (<<k>> \o b) IN
         /\ IsHeard(text) /\ Section(text, j) = a /\ Section(text, k) = b
         /\ \A word \in Keywords \ {j, k} : Section(text, word) = <<>>
         /\ \A word \in Keywords : Has(text, word) <=> word \in {j, k}
         /\ ~Has(text, "sameKey")
  <1> DEFINE one == <<j>>  two == <<k>>  head == one \o a  none == <<>> \o head
             text == head \o (two \o b)
  <1>1. ~Has(<<>>, "sameKey") /\ <<>> \in Seq(Body)
    BY DEF Has
  <1>2. /\ IsHeard(none)
        /\ \A word \in Keywords : word # j => Section(none, word) = <<>>
        /\ Section(none, j) = a
        /\ \A word \in Keywords : Has(none, word) <=> word = j
        /\ ~Has(none, "sameKey")
    <2>1. Section(<<>>, j) = <<>> /\ IsHeard(<<>>)
          /\ \A word \in Keywords : Section(<<>>, word) = <<>> /\ ~Has(<<>>, word)
      BY NothingHeard
    <2>2. /\ IsHeard(none)
          /\ \A word \in Keywords : word # j => Section(none, word) = Section(<<>>, word)
          /\ Section(none, j) = a
          /\ \A word \in Keywords : Has(none, word) <=> Has(<<>>, word) \/ word = j
          /\ Has(none, "sameKey") <=> Has(<<>>, "sameKey") \/ Has(a, "sameKey")
      BY <2>1, ClauseSays
    <2> HIDE DEF none
    <2> QED
      BY <1>1, <2>1, <2>2
  <1>3. none = head
    <2>1. one \in Seq(Keywords)
      BY Listed
    <2>2. a \in Seq(Tokens) /\ one \in Seq(Tokens)
      <3>1. Body \subseteq Tokens /\ Keywords \subseteq Tokens
        BY TokensApart, Zenon DEF Body
      <3> HIDE DEF one
      <3> QED
        BY <2>1, <3>1, SeqMonotonic
    <2> HIDE DEF one
    <2>3. head \in Seq(Tokens)
      BY <2>2, ConcatProperties
    <2> HIDE DEF head
    <2> QED
      BY <2>3, ConcatEmptySeq
  <1> HIDE DEF none, head
  <1>4. Section(head, k) = <<>> /\ IsHeard(head)
    BY <1>2, <1>3
  <1>5. /\ IsHeard(text)
        /\ \A word \in Keywords : word # k => Section(text, word) = Section(head, word)
        /\ Section(text, k) = b
        /\ \A word \in Keywords : Has(text, word) <=> Has(head, word) \/ word = k
        /\ Has(text, "sameKey") <=> Has(head, "sameKey") \/ Has(b, "sameKey")
    BY <1>4, ClauseSays
  <1> HIDE DEF text
  <1> QED
    BY <1>2, <1>3, <1>5 DEF text, head, one, two

SetFits(a) ==
  /\ a.column \in ColumnSet /\ a.expression \in {"constant"} \cup Expressions
  /\ a.expression = "constant" => IsFit(a.column, a.value)

LEMMA SetItem ==
  ASSUME WriteAssumption, NEW a, SetFits(a)
  PROVE  /\ IsItem(SetCell(a))
         /\ a.expression # "constant" => Bound(SetCell(a)) = <<a.expression>>
         /\ a.expression = "constant" =>
              /\ ReadCell(a.column, Bound(SetCell(a))) = OrNone(a.value)
              /\ ~IsDelta(Bound(SetCell(a)))
  <1>1. CASE a.expression # "constant"
    <2> DEFINE s == a.expression
    <2>1. s \in Expressions
      BY <1>1 DEF SetFits
    <2>2. SetCell(a) = Raw(s)
      BY <1>1 DEF SetCell
    <2> HIDE DEF s
    <2>3. IsItem(Raw(s)) /\ Bound(Raw(s)) = <<s>>
      BY <2>1, ExpressionItem
    <2> QED
      BY <1>1, <2>2, <2>3 DEF s
  <1>2. CASE a.expression = "constant"
    <2> DEFINE c == a.column  v == a.value  f == OrNull(SerializeValueForDataType(c, v))
    <2>1. c \in ColumnSet /\ IsFit(c, v)
      BY <1>2 DEF SetFits
    <2>2. SetCell(a) = f
      BY <1>2 DEF SetCell
    <2> HIDE DEF c, v
    <2>3. ReadsAs(c, f, OrNone(v)) /\ ~IsDelta(Bound(f))
      BY <2>1, ValueItem
    <2> HIDE DEF f
    <2> QED
      BY <1>2, <2>2, <2>3 DEF ReadsAs, c, v
  <1> QED
    BY <1>1, <1>2

\* The lists after SET and TO.
SetNames(b) == Names([i \in 1 .. Len(b.set) |-> b.set[i].column])
SetCells(b) == JoinedBy([i \in 1 .. Len(b.set) |-> SetCell(b.set[i])], ",")

LEMMA SetReads ==
  ASSUME WriteAssumption, NEW b, b.set \in Seq(Range(b.set)),
         \A n \in 1 .. Len(b.set) : SetFits(b.set[n])
  PROVE  /\ IsFragment(SetNames(b)) /\ AtDepth(Bound(SetNames(b)), 1)
         /\ FirstOfEach(Split(Bound(SetNames(b))))
              = [n \in 1 .. Len(b.set) |-> b.set[n].column]
         /\ IsFragment(SetCells(b)) /\ AtDepth(Bound(SetCells(b)), 1)
         /\ Split(Bound(SetCells(b))) = [n \in 1 .. Len(b.set) |-> Bound(SetCell(b.set[n]))]
  <1> DEFINE N == Len(b.set)  cs == [n \in 1 .. N |-> b.set[n].column]
             fs == [n \in 1 .. N |-> SetCell(b.set[n])]
  <1>1. N \in Nat
    BY LenProperties
  <1>2. cs \in Seq(ColumnSet)
    <2>1. \A n \in 1 .. N : b.set[n].column \in ColumnSet
      BY DEF SetFits
    <2>2. cs \in [1 .. N -> ColumnSet]
      BY <2>1
    <2> HIDE DEF cs, N
    <2> QED
      BY <1>1, <2>2, SeqDef
  <1>3. SetNames(b) = Names(cs) /\ SetCells(b) = JoinedBy(fs, ",")
    BY DEF SetNames, SetCells
  <1>4. \A n \in 1 .. N : IsItem(SetCell(b.set[n]))
    BY SetItem
  <1>5. \A n \in 1 .. N : fs[n] = SetCell(b.set[n])
    OBVIOUS
  <1>6. fs \in [1 .. N -> Fragments(Tokens)] /\ \A n \in 1 .. N : IsItem(fs[n])
    BY <1>4, <1>5 DEF IsItem, IsFragment
  <1>7. /\ IsFragment(Names(cs)) /\ AtDepth(Bound(Names(cs)), 1)
        /\ FirstOfEach(Split(Bound(Names(cs)))) = cs
    <2> HIDE DEF cs
    <2> QED
      BY <1>2, NamesRead
  <1>8. /\ IsFragment(JoinedBy(fs, ",")) /\ AtDepth(Bound(JoinedBy(fs, ",")), 1)
        /\ Split(Bound(JoinedBy(fs, ","))) = [n \in 1 .. N |-> Bound(fs[n])]
    <2> HIDE DEF fs, N
    <2> QED
      BY <1>1, <1>6, ListReads
  <1>9. [n \in 1 .. N |-> Bound(fs[n])] = [n \in 1 .. N |-> Bound(SetCell(b.set[n]))]
    BY <1>5
  <1> QED
    BY <1>3, <1>7, <1>8, <1>9

--------------------------------------------------------------------------------
(* The text of each clause, as a fragment of its own.                          *)

LEMMA BlankToken ==
  "" \in Tokens \ {Hole} /\ Token("") = <<>> /\ \A p \in Seq(Tokens) : <<>> \o p = p /\ p \o <<>> = p
  <1>1. \A p \in Seq(Tokens) : <<>> \o p = p /\ p \o <<>> = p
    BY ConcatEmptySeq
  <1> QED
    BY <1>1, TokensApart, Zenon DEF Blank

LEMMA KeywordTokens ==
  ASSUME NEW k \in Keywords
  PROVE  k \in Tokens \ {Hole} /\ Token(k) = <<k>> /\ <<k>> \in Seq(Tokens)
  <1>1. k \in Tokens \ {Hole} /\ Token(k) = <<k>>
    BY TokensApart, Zenon
  <1>2. <<k>> \in Seq(Tokens)
    BY <1>1, Listed
  <1> QED
    BY <1>1, <1>2

Clause(k, text) == <<k>> \o text

LEMMA ClauseType ==
  ASSUME NEW k \in Keywords, NEW text \in Seq(Tokens)
  PROVE  Clause(k, text) \in Seq(Tokens)
  <1> DEFINE one == <<k>>
  <1>1. one \in Seq(Tokens)
    BY KeywordTokens
  <1> HIDE DEF one
  <1>2. one \o text \in Seq(Tokens)
    BY <1>1, ConcatProperties
  <1> QED
    BY <1>2 DEF one, Clause

LEMMA FragmentType ==
  ASSUME NEW f, IsFragment(f)
  PROVE  Bound(f) \in Seq(Tokens)
  BY BoundType DEF IsFragment

LEMMA AssignedText ==
  ASSUME NEW f, NEW g, IsFragment(f), IsFragment(g)
  PROVE  LET h == Construct(<<"SET", "TO", "">>, <<f, g>>) IN
         IsFragment(h) /\ Bound(h) = Clause("SET", Bound(f)) \o Clause("TO", Bound(g))
  <1> DEFINE s == "SET"  t == "TO"  e == ""
             h == Construct(<<s, t, e>>, <<f, g>>)  p == Bound(f)  q == Bound(g)
             one == Token(s) \o p  two == Token(t) \o q
  <1>1. s \in Keywords /\ t \in Keywords
    BY Zenon DEF Keywords
  <1>2. /\ s \in Tokens \ {Hole} /\ t \in Tokens \ {Hole} /\ e \in Tokens \ {Hole}
        /\ Token(e) = <<>> /\ Token(s) = <<s>> /\ Token(t) = <<t>>
    BY <1>1, KeywordTokens, BlankToken
  <1> HIDE DEF s, t, e
  <1>3. IsFragment(h) /\ Bound(h) = one \o two \o Token(e)
    <2>1. IsFragment(h) /\ Bound(h) = Text3(s, t, e, f, g)
      BY <1>2, Template3
    <2> QED
      BY <2>1, Zenon DEF Text3
  <1>4. one = Clause(s, p) /\ two = Clause(t, q)
    BY <1>2 DEF Clause
  <1>5. p \in Seq(Tokens) /\ q \in Seq(Tokens)
    BY FragmentType
  <1> HIDE DEF p, q, one, two, h
  <1>6. one \in Seq(Tokens) /\ two \in Seq(Tokens)
    BY <1>1, <1>4, <1>5, ClauseType
  <1>7. one \o two \in Seq(Tokens)
    BY <1>6, ConcatProperties
  <1> DEFINE both == one \o two
  <1>8. both \in Seq(Tokens) /\ Bound(h) = both \o Token(e)
    BY <1>3, <1>7
  <1> HIDE DEF both
  <1>9. Bound(h) = both
    BY <1>2, <1>8, BlankToken
  <1> QED
    BY <1>3, <1>4, <1>9 DEF both, p, q, h, s, t, e

LEMMA GuardedText ==
  ASSUME NEW f, NEW g, IsFragment(f), IsFragment(g)
  PROVE  LET h == Construct(<<"", "WHERE", "">>, <<f, g>>) IN
         IsFragment(h) /\ Bound(h) = Bound(f) \o Clause("WHERE", Bound(g))
  <1> DEFINE t == "WHERE"  e == ""
             h == Construct(<<e, t, e>>, <<f, g>>)  p == Bound(f)  q == Bound(g)
             one == Token(e) \o p  two == Token(t) \o q
  <1>1. t \in Keywords
    BY Zenon DEF Keywords
  <1>2. /\ t \in Tokens \ {Hole} /\ e \in Tokens \ {Hole}
        /\ Token(e) = <<>> /\ Token(t) = <<t>>
    BY <1>1, KeywordTokens, BlankToken
  <1> HIDE DEF t, e
  <1>3. IsFragment(h) /\ Bound(h) = one \o two \o Token(e)
    <2>1. IsFragment(h) /\ Bound(h) = Text3(e, t, e, f, g)
      BY <1>2, Template3
    <2> QED
      BY <2>1, Zenon DEF Text3
  <1>4. p \in Seq(Tokens) /\ q \in Seq(Tokens)
    BY FragmentType
  <1> HIDE DEF p, q
  <1>5. one = p /\ two = Clause(t, q)
    BY <1>2, <1>4, BlankToken DEF Clause
  <1> HIDE DEF one, two, h
  <1>6. one \in Seq(Tokens) /\ two \in Seq(Tokens)
    BY <1>1, <1>4, <1>5, ClauseType
  <1>7. one \o two \in Seq(Tokens)
    BY <1>6, ConcatProperties
  <1> DEFINE both == one \o two
  <1>8. both \in Seq(Tokens) /\ Bound(h) = both \o Token(e)
    BY <1>3, <1>7
  <1> HIDE DEF both
  <1>9. Bound(h) = both
    BY <1>2, <1>8, BlankToken
  <1> QED
    BY <1>3, <1>5, <1>9 DEF both, p, q, h, t, e

Opening(p, q, rest) == (Clause("INSERT", p) \o Clause("VALUES", q)) \o rest

LEMMA InsertedText ==
  ASSUME NEW f, NEW g, NEW k, IsFragment(f), IsFragment(g), IsFragment(k)
  PROVE  LET h == Construct(<<"INSERT", "VALUES", "", "">>, <<f, g, k>>) IN
         IsFragment(h) /\ Bound(h) = Opening(Bound(f), Bound(g), Bound(k))
  <1> DEFINE s == "INSERT"  t == "VALUES"  e == ""
             h == Construct(<<s, t, e, e>>, <<f, g, k>>)
             p == Bound(f)  q == Bound(g)  r == Bound(k)
             one == Token(s) \o p  two == Token(t) \o q  three == Token(e) \o r
  <1>1. s \in Keywords /\ t \in Keywords
    BY Zenon DEF Keywords
  <1>2. /\ s \in Tokens \ {Hole} /\ t \in Tokens \ {Hole} /\ e \in Tokens \ {Hole}
        /\ Token(e) = <<>> /\ Token(s) = <<s>> /\ Token(t) = <<t>>
    BY <1>1, KeywordTokens, BlankToken
  <1> HIDE DEF s, t, e
  <1>3. IsFragment(h) /\ Bound(h) = one \o two \o three \o Token(e)
    <2>1. IsFragment(h) /\ Bound(h) = Text4(s, t, e, e, f, g, k)
      BY <1>2, Template4
    <2> QED
      BY <2>1, Zenon DEF Text4
  <1>4. p \in Seq(Tokens) /\ q \in Seq(Tokens) /\ r \in Seq(Tokens)
    BY FragmentType
  <1> HIDE DEF p, q, r
  <1>5. one = Clause(s, p) /\ two = Clause(t, q) /\ three = r
    BY <1>2, <1>4, BlankToken DEF Clause
  <1> HIDE DEF one, two, three, h
  <1>6. one \in Seq(Tokens) /\ two \in Seq(Tokens) /\ three \in Seq(Tokens)
    BY <1>1, <1>4, <1>5, ClauseType
  <1>7. one \o two \in Seq(Tokens)
    BY <1>6, ConcatProperties
  <1> DEFINE both == one \o two
  <1>8. both \in Seq(Tokens) /\ Bound(h) = both \o three \o Token(e)
    BY <1>3, <1>7
  <1> HIDE DEF both
  <1>9. both \o three \in Seq(Tokens)
    BY <1>6, <1>8, ConcatProperties
  <1> DEFINE all == both \o three
  <1>10. all \in Seq(Tokens) /\ Bound(h) = all \o Token(e)
    BY <1>8, <1>9
  <1> HIDE DEF all
  <1>11. Bound(h) = all
    BY <1>2, <1>10, BlankToken
  <1> QED
    BY <1>3, <1>5, <1>11 DEF all, both, p, q, r, h, s, t, e, Opening

LEMMA ListedText ==
  ASSUME NEW f, NEW g, IsFragment(f), IsFragment(g)
  PROVE  LET h == Construct(<<"NAMES", "VALUES", "">>, <<f, g>>) IN
         IsFragment(h) /\ Bound(h) = Clause("NAMES", Bound(f)) \o Clause("VALUES", Bound(g))
  <1> DEFINE s == "NAMES"  t == "VALUES"  e == ""
             h == Construct(<<s, t, e>>, <<f, g>>)  p == Bound(f)  q == Bound(g)
             one == Token(s) \o p  two == Token(t) \o q
  <1>1. s \in Keywords /\ t \in Keywords
    BY Zenon DEF Keywords
  <1>2. /\ s \in Tokens \ {Hole} /\ t \in Tokens \ {Hole} /\ e \in Tokens \ {Hole}
        /\ Token(e) = <<>> /\ Token(s) = <<s>> /\ Token(t) = <<t>>
    BY <1>1, KeywordTokens, BlankToken
  <1> HIDE DEF s, t, e
  <1>3. IsFragment(h) /\ Bound(h) = one \o two \o Token(e)
    <2>1. IsFragment(h) /\ Bound(h) = Text3(s, t, e, f, g)
      BY <1>2, Template3
    <2> QED
      BY <2>1, Zenon DEF Text3
  <1>4. one = Clause(s, p) /\ two = Clause(t, q)
    BY <1>2 DEF Clause
  <1>5. p \in Seq(Tokens) /\ q \in Seq(Tokens)
    BY FragmentType
  <1> HIDE DEF p, q, one, two, h
  <1>6. one \in Seq(Tokens) /\ two \in Seq(Tokens)
    BY <1>1, <1>4, <1>5, ClauseType
  <1>7. one \o two \in Seq(Tokens)
    BY <1>6, ConcatProperties
  <1> DEFINE both == one \o two
  <1>8. both \in Seq(Tokens) /\ Bound(h) = both \o Token(e)
    BY <1>3, <1>7
  <1> HIDE DEF both
  <1>9. Bound(h) = both
    BY <1>2, <1>8, BlankToken
  <1> QED
    BY <1>3, <1>4, <1>9 DEF both, p, q, h, s, t, e

Revision(p, q, r) ==
  Clause("UPDATE", p) \o Clause("TO", p) \o Clause("NAMES", p) \o Clause("VALUES", q)
  \o Clause("WHERE", r)

LEMMA UpdatedText ==
  ASSUME NEW f, NEW g, NEW i, IsFragment(f), IsFragment(g), IsFragment(i)
  PROVE  LET h == Construct(<<"UPDATE", "TO", "NAMES", "VALUES", "WHERE", "">>,
                            <<f, f, f, g, i>>)
         IN  IsFragment(h) /\ Bound(h) = Revision(Bound(f), Bound(g), Bound(i))
  <1> DEFINE s == "UPDATE"  t == "TO"  u == "NAMES"  v == "VALUES"  w == "WHERE"  e == ""
             h == Construct(<<s, t, u, v, w, e>>, <<f, f, f, g, i>>)
             p == Bound(f)  q == Bound(g)  r == Bound(i)
             c1 == Token(s) \o p  c2 == Token(t) \o p  c3 == Token(u) \o p
             c4 == Token(v) \o q  c5 == Token(w) \o r
  <1>1. s \in Keywords /\ t \in Keywords /\ u \in Keywords /\ v \in Keywords /\ w \in Keywords
    BY Zenon DEF Keywords
  <1>2. /\ s \in Tokens \ {Hole} /\ t \in Tokens \ {Hole} /\ u \in Tokens \ {Hole}
        /\ v \in Tokens \ {Hole} /\ w \in Tokens \ {Hole} /\ e \in Tokens \ {Hole}
        /\ Token(e) = <<>> /\ Token(s) = <<s>> /\ Token(t) = <<t>> /\ Token(u) = <<u>>
        /\ Token(v) = <<v>> /\ Token(w) = <<w>>
    BY <1>1, KeywordTokens, BlankToken
  <1> HIDE DEF s, t, u, v, w, e
  <1>3. IsFragment(h) /\ Bound(h) = c1 \o c2 \o c3 \o c4 \o c5 \o Token(e)
    <2>1. IsFragment(h) /\ Bound(h) = Text6(s, t, u, v, w, e, f, f, f, g, i)
      BY <1>2, Template6
    <2> QED
      BY <2>1, Zenon DEF Text6
  <1>4. /\ c1 = Clause(s, p) /\ c2 = Clause(t, p) /\ c3 = Clause(u, p)
        /\ c4 = Clause(v, q) /\ c5 = Clause(w, r)
    BY <1>2 DEF Clause
  <1>5. p \in Seq(Tokens) /\ q \in Seq(Tokens) /\ r \in Seq(Tokens)
    BY FragmentType
  <1> HIDE DEF p, q, r, c1, c2, c3, c4, c5, h
  <1>6. /\ c1 \in Seq(Tokens) /\ c2 \in Seq(Tokens) /\ c3 \in Seq(Tokens)
        /\ c4 \in Seq(Tokens) /\ c5 \in Seq(Tokens)
    BY <1>1, <1>4, <1>5, ClauseType
  <1> DEFINE d2 == c1 \o c2  d3 == d2 \o c3  d4 == d3 \o c4  d5 == d4 \o c5
  <1>7. d2 \in Seq(Tokens)
    BY <1>6, ConcatProperties
  <1>8. Bound(h) = d5 \o Token(e)
    BY <1>3, Zenon
  <1> HIDE DEF d2
  <1>9. d3 \in Seq(Tokens)
    BY <1>6, <1>7, ConcatProperties
  <1> HIDE DEF d3
  <1>10. d4 \in Seq(Tokens)
    BY <1>6, <1>9, ConcatProperties
  <1> HIDE DEF d4
  <1>11. d5 \in Seq(Tokens)
    BY <1>6, <1>10, ConcatProperties
  <1> HIDE DEF d5
  <1>12. Bound(h) = d5
    BY <1>2, <1>8, <1>11, BlankToken
  <1>13. d5 = c1 \o c2 \o c3 \o c4 \o c5
    BY Zenon DEF d2, d3, d4, d5
  <1> QED
    BY <1>3, <1>4, <1>12, <1>13, Zenon DEF p, q, r, h, s, t, u, v, w, e, Revision

--------------------------------------------------------------------------------
(* A text that holds some of the keywords, once each.                          *)
Hears(text, words) ==
  /\ IsHeard(text)
  /\ \A word \in Keywords : /\ Has(text, word) <=> word \in words
                            /\ word \notin words => Section(text, word) = <<>>

LEMMA NextClause ==
  ASSUME NEW text, NEW words, Hears(text, words), NEW k \in Keywords, k \notin words,
         NEW b \in Seq(Body)
  PROVE  LET next == text \o Clause(k, b) IN
         /\ Hears(next, words \cup {k})
         /\ \A word \in words : word \in Keywords => Section(next, word) = Section(text, word)
         /\ Section(next, k) = b
         /\ Has(next, "sameKey") <=> Has(text, "sameKey") \/ Has(b, "sameKey")
  <1> DEFINE next == text \o Clause(k, b)
  <1>1. IsHeard(text) /\ Section(text, k) = <<>>
    BY DEF Hears
  <1>2. next = text \o (<<k>> \o b)
    BY DEF Clause
  <1>3. /\ IsHeard(next)
        /\ \A word \in Keywords : word # k => Section(next, word) = Section(text, word)
        /\ Section(next, k) = b
        /\ \A word \in Keywords : Has(next, word) <=> Has(text, word) \/ word = k
        /\ Has(next, "sameKey") <=> Has(text, "sameKey") \/ Has(b, "sameKey")
    BY <1>1, <1>2, ClauseSays
  <1> HIDE DEF next
  <1>4. \A word \in Keywords : Has(next, word) <=> word \in words \cup {k}
    BY <1>3 DEF Hears
  <1>5. \A word \in Keywords : word \notin words \cup {k} => Section(next, word) = <<>>
    BY <1>3 DEF Hears
  <1>6. Hears(next, words \cup {k})
    BY <1>3, <1>4, <1>5 DEF Hears
  <1> QED
    BY <1>3, <1>6 DEF next

LEMMA FirstClauses ==
  ASSUME NEW j \in Keywords, NEW k \in Keywords, j # k,
         NEW a \in Seq(Body), NEW b \in Seq(Body), ~Has(a, "sameKey"), ~Has(b, "sameKey")
  PROVE  LET text == Clause(j, a) \o Clause(k, b) IN
         /\ Hears(text, {j, k}) /\ Section(text, j) = a /\ Section(text, k) = b
         /\ ~Has(text, "sameKey")
  <1> DEFINE text == (<<j>> \o a) \o (<<k>> \o b)
  <1>1. /\ IsHeard(text) /\ Section(text, j) = a /\ Section(text, k) = b
        /\ \A word \in Keywords \ {j, k} : Section(text, word) = <<>>
        /\ \A word \in Keywords : Has(text, word) <=> word \in {j, k}
        /\ ~Has(text, "sameKey")
    BY TwoClauses
  <1>2. text = Clause(j, a) \o Clause(k, b)
    BY Zenon DEF Clause
  <1> HIDE DEF text
  <1>3. Hears(text, {j, k})
    BY <1>1 DEF Hears
  <1> QED
    BY <1>1, <1>2, <1>3

LEMMA UpdateClauses ==
  ASSUME NEW p \in Seq(Body), NEW q \in Seq(Body), NEW w \in Seq(Body),
         ~Has(p, "sameKey"), ~Has(q, "sameKey")
  PROVE  LET text == Clause("UPDATE", p) \o Clause("TO", p) \o Clause("NAMES", p)
                     \o Clause("VALUES", q) \o Clause("WHERE", w)
         IN  /\ Hears(text, {"UPDATE", "TO", "NAMES", "VALUES", "WHERE"})
             /\ Section(text, "UPDATE") = p /\ Section(text, "TO") = p
             /\ Section(text, "NAMES") = p /\ Section(text, "VALUES") = q
             /\ Section(text, "WHERE") = w
             /\ Has(text, "sameKey") <=> Has(w, "sameKey")
  <1> DEFINE t2 == Clause("UPDATE", p) \o Clause("TO", p)
             t3 == t2 \o Clause("NAMES", p)
             t4 == t3 \o Clause("VALUES", q)
             t5 == t4 \o Clause("WHERE", w)
  <1>1. /\ "UPDATE" \in Keywords /\ "TO" \in Keywords /\ "NAMES" \in Keywords
        /\ "VALUES" \in Keywords /\ "WHERE" \in Keywords
    BY Zenon DEF Keywords
  <1>2. /\ Hears(t2, {"UPDATE", "TO"}) /\ Section(t2, "UPDATE") = p /\ Section(t2, "TO") = p
        /\ ~Has(t2, "sameKey")
    BY <1>1, FirstClauses
  <1> HIDE DEF t2
  <1>3. /\ Hears(t3, {"UPDATE", "TO"} \cup {"NAMES"})
        /\ \A word \in {"UPDATE", "TO"} : word \in Keywords =>
             Section(t3, word) = Section(t2, word)
        /\ Section(t3, "NAMES") = p
        /\ Has(t3, "sameKey") <=> Has(t2, "sameKey") \/ Has(p, "sameKey")
    <2>1. "NAMES" \notin {"UPDATE", "TO"}
      OBVIOUS
    <2> QED
      BY <1>1, <1>2, <2>1, NextClause
  <1> DEFINE three == {"UPDATE", "TO"} \cup {"NAMES"}
  <1> HIDE DEF t3
  <1>4. /\ Hears(t4, three \cup {"VALUES"})
        /\ \A word \in three : word \in Keywords => Section(t4, word) = Section(t3, word)
        /\ Section(t4, "VALUES") = q
        /\ Has(t4, "sameKey") <=> Has(t3, "sameKey") \/ Has(q, "sameKey")
    <2>1. "VALUES" \notin three /\ Hears(t3, three)
      BY <1>3
    <2> HIDE DEF three
    <2> QED
      BY <1>1, <2>1, NextClause
  <1> DEFINE four == three \cup {"VALUES"}
  <1> HIDE DEF t4
  <1>5. /\ Hears(t5, four \cup {"WHERE"})
        /\ \A word \in four : word \in Keywords => Section(t5, word) = Section(t4, word)
        /\ Section(t5, "WHERE") = w
        /\ Has(t5, "sameKey") <=> Has(t4, "sameKey") \/ Has(w, "sameKey")
    <2>1. "WHERE" \notin four /\ Hears(t4, four)
      BY <1>4
    <2> HIDE DEF four
    <2> QED
      BY <1>1, <2>1, NextClause
  <1> HIDE DEF t5
  <1>6. four \cup {"WHERE"} = {"UPDATE", "TO", "NAMES", "VALUES", "WHERE"}
    OBVIOUS
  <1>7. /\ Section(t5, "UPDATE") = p /\ Section(t5, "TO") = p
        /\ Section(t5, "NAMES") = p /\ Section(t5, "VALUES") = q
    BY <1>1, <1>2, <1>3, <1>4, <1>5
  <1>8. Has(t5, "sameKey") <=> Has(w, "sameKey")
    BY <1>2, <1>3, <1>4, <1>5
  <1>9. t5 = Clause("UPDATE", p) \o Clause("TO", p) \o Clause("NAMES", p)
             \o Clause("VALUES", q) \o Clause("WHERE", w)
    BY Zenon DEF t2, t3, t4, t5
  <1>10. Hears(t5, {"UPDATE", "TO", "NAMES", "VALUES", "WHERE"})
    BY <1>5, <1>6
  <1>11. /\ Hears(t5, {"UPDATE", "TO", "NAMES", "VALUES", "WHERE"})
         /\ Section(t5, "UPDATE") = p /\ Section(t5, "TO") = p
         /\ Section(t5, "NAMES") = p /\ Section(t5, "VALUES") = q
         /\ Section(t5, "WHERE") = w
         /\ Has(t5, "sameKey") <=> Has(w, "sameKey")
    BY <1>5, <1>7, <1>8, <1>10
  <1> QED
    BY <1>9, <1>11, Zenon

\* What an insert says, by the conflict it is to handle.
InsertSays(text, p, q, conflict, s, c, w) ==
  /\ Section(text, "INSERT") = p /\ Section(text, "VALUES") = q
  /\ Section(text, "UPDATE") = <<>>
  /\ Has(text, "INSERT") /\ ~Has(text, "UPDATE")
  /\ Has(text, "NOTHING") <=> conflict = "nothing"
  /\ Has(text, "SET") <=> conflict = "update"
  /\ conflict = "update" => /\ Section(text, "SET") = s /\ Section(text, "TO") = c
                            /\ Section(text, "WHERE") = w
  /\ conflict # "update" => Section(text, "SET") = <<>> /\ Section(text, "TO") = <<>>

LEMMA InsertClauses ==
  ASSUME NEW p \in Seq(Body), NEW q \in Seq(Body), NEW s \in Seq(Body), NEW c \in Seq(Body),
         NEW w \in Seq(Body), ~Has(p, "sameKey"), ~Has(q, "sameKey")
  PROVE  LET t2 == Clause("INSERT", p) \o Clause("VALUES", q)
             t4 == t2 \o Clause("SET", s) \o Clause("TO", c)
         IN  /\ InsertSays(t2, p, q, "none", s, c, w)
             /\ InsertSays(t2 \o Clause("NOTHING", <<>>), p, q, "nothing", s, c, w)
             /\ InsertSays(t4, p, q, "update", s, c, <<>>)
             /\ InsertSays(t4 \o Clause("WHERE", w), p, q, "update", s, c, w)
  <1> DEFINE t2 == Clause("INSERT", p) \o Clause("VALUES", q)
             n3 == t2 \o Clause("NOTHING", <<>>)
             t3 == t2 \o Clause("SET", s)
             t4 == t3 \o Clause("TO", c)
             t5 == t4 \o Clause("WHERE", w)
             two == {"INSERT", "VALUES"}
  <1>1. /\ "INSERT" \in Keywords /\ "TO" \in Keywords /\ "SET" \in Keywords
        /\ "VALUES" \in Keywords /\ "WHERE" \in Keywords /\ "NOTHING" \in Keywords
        /\ "UPDATE" \in Keywords
    BY Zenon DEF Keywords
  <1>2. /\ Hears(t2, two) /\ Section(t2, "INSERT") = p /\ Section(t2, "VALUES") = q
        /\ ~Has(t2, "sameKey")
    BY <1>1, FirstClauses
  <1>3. "NOTHING" \notin two /\ "SET" \notin two /\ "UPDATE" \notin two /\ "TO" \notin two
    OBVIOUS
  <1>4. InsertSays(t2, p, q, "none", s, c, w)
    <2> HIDE DEF t2
    <2>1. /\ Section(t2, "UPDATE") = <<>> /\ Section(t2, "SET") = <<>>
          /\ Section(t2, "TO") = <<>>
          /\ Has(t2, "INSERT") /\ ~Has(t2, "UPDATE") /\ ~Has(t2, "NOTHING") /\ ~Has(t2, "SET")
      BY <1>1, <1>2, <1>3 DEF Hears
    <2> QED
      BY <1>2, <2>1 DEF InsertSays
  <1> HIDE DEF t2, two
  <1>5. /\ Hears(n3, two \cup {"NOTHING"})
        /\ \A word \in two : word \in Keywords => Section(n3, word) = Section(t2, word)
    <2> DEFINE k == "NOTHING"  b == <<>>
    <2>1. k \in Keywords /\ k \notin two /\ Hears(t2, two) /\ b \in Seq(Body)
      BY <1>1, <1>2, <1>3
    <2> HIDE DEF k, b
    <2>3. /\ Hears(t2 \o Clause(k, b), two \cup {k})
          /\ \A word \in two : word \in Keywords =>
               Section(t2 \o Clause(k, b), word) = Section(t2, word)
          /\ Section(t2 \o Clause(k, b), k) = b
          /\ Has(t2 \o Clause(k, b), "sameKey")
               <=> Has(t2, "sameKey") \/ Has(b, "sameKey")
      BY <2>1, NextClause
    <2> QED
      BY <2>3 DEF k, b
  <1>6. InsertSays(n3, p, q, "nothing", s, c, w)
    <2> HIDE DEF n3
    <2>1. /\ Section(n3, "UPDATE") = <<>> /\ Section(n3, "SET") = <<>>
          /\ Section(n3, "TO") = <<>>
          /\ Has(n3, "INSERT") /\ ~Has(n3, "UPDATE") /\ Has(n3, "NOTHING") /\ ~Has(n3, "SET")
          /\ Section(n3, "INSERT") = p /\ Section(n3, "VALUES") = q
      BY <1>1, <1>2, <1>5 DEF Hears, two
    <2> QED
      BY <2>1 DEF InsertSays
  <1>7. /\ Hears(t3, two \cup {"SET"})
        /\ \A word \in two : word \in Keywords => Section(t3, word) = Section(t2, word)
        /\ Section(t3, "SET") = s
    <2> DEFINE k == "SET"
    <2>1. k \in Keywords /\ k \notin two /\ Hears(t2, two)
      BY <1>1, <1>2, <1>3
    <2> HIDE DEF k, two
    <2>3. /\ Hears(t2 \o Clause(k, s), two \cup {k})
          /\ \A word \in two : word \in Keywords => Section(t2 \o Clause(k, s), word) = Section(t2, word)
          /\ Section(t2 \o Clause(k, s), k) = s
          /\ Has(t2 \o Clause(k, s), "sameKey")
               <=> Has(t2, "sameKey") \/ Has(s, "sameKey")
      BY <2>1, NextClause
    <2> QED
      BY <2>3 DEF k
  <1> HIDE DEF t3
  <1> DEFINE three == two \cup {"SET"}
  <1>8. /\ Hears(t4, three \cup {"TO"})
        /\ \A word \in three : word \in Keywords => Section(t4, word) = Section(t3, word)
        /\ Section(t4, "TO") = c
    <2> DEFINE k == "TO"
    <2>1. k \in Keywords /\ k \notin three /\ Hears(t3, three)
      BY <1>1, <1>3, <1>7
    <2> HIDE DEF k, three
    <2>3. /\ Hears(t3 \o Clause(k, c), three \cup {k})
          /\ \A word \in three : word \in Keywords => Section(t3 \o Clause(k, c), word) = Section(t3, word)
          /\ Section(t3 \o Clause(k, c), k) = c
          /\ Has(t3 \o Clause(k, c), "sameKey")
               <=> Has(t3, "sameKey") \/ Has(c, "sameKey")
      BY <2>1, NextClause
    <2> QED
      BY <2>3 DEF k
  <1> HIDE DEF t4
  <1> DEFINE four == three \cup {"TO"}
  <1>9. /\ Hears(t5, four \cup {"WHERE"})
        /\ \A word \in four : word \in Keywords => Section(t5, word) = Section(t4, word)
        /\ Section(t5, "WHERE") = w
    <2> DEFINE k == "WHERE"
    <2>1. k \in Keywords /\ k \notin four /\ Hears(t4, four)
      BY <1>1, <1>8 DEF two
    <2> HIDE DEF k, four
    <2>3. /\ Hears(t4 \o Clause(k, w), four \cup {k})
          /\ \A word \in four : word \in Keywords => Section(t4 \o Clause(k, w), word) = Section(t4, word)
          /\ Section(t4 \o Clause(k, w), k) = w
          /\ Has(t4 \o Clause(k, w), "sameKey")
               <=> Has(t4, "sameKey") \/ Has(w, "sameKey")
      BY <2>1, NextClause
    <2> QED
      BY <2>3 DEF k
  <1> HIDE DEF t5
  <1>10. four = {"INSERT", "VALUES", "SET", "TO"}
    BY DEF two
  <1>11. InsertSays(t4, p, q, "update", s, c, <<>>)
    <2>1. /\ Section(t4, "UPDATE") = <<>> /\ Section(t4, "WHERE") = <<>>
          /\ Has(t4, "INSERT") /\ ~Has(t4, "UPDATE") /\ ~Has(t4, "NOTHING") /\ Has(t4, "SET")
      BY <1>1, <1>8, <1>10 DEF Hears
    <2>2. Section(t4, "INSERT") = p /\ Section(t4, "VALUES") = q /\ Section(t4, "SET") = s
      BY <1>1, <1>2, <1>7, <1>8 DEF two
    <2> QED
      BY <1>8, <2>1, <2>2 DEF InsertSays
  <1>12. InsertSays(t5, p, q, "update", s, c, w)
    <2>1. /\ Section(t5, "UPDATE") = <<>>
          /\ Has(t5, "INSERT") /\ ~Has(t5, "UPDATE") /\ ~Has(t5, "NOTHING") /\ Has(t5, "SET")
      BY <1>1, <1>9, <1>10 DEF Hears
    <2>2. /\ Section(t5, "INSERT") = p /\ Section(t5, "VALUES") = q /\ Section(t5, "SET") = s
          /\ Section(t5, "TO") = c
      BY <1>1, <1>2, <1>7, <1>8, <1>9, <1>10 DEF two
    <2> QED
      BY <1>9, <2>1, <2>2 DEF InsertSays
  <1>13. t4 = t2 \o Clause("SET", s) \o Clause("TO", c) /\ t5 = t4 \o Clause("WHERE", w)
    BY Zenon DEF t3, t4, t5
  <1> QED
    BY <1>4, <1>6, <1>11, <1>12, <1>13, Zenon DEF n3, t2

--------------------------------------------------------------------------------
(* The columns, rows and cells a builder prints, and its whole statement.      *)

(* What an insert that does not throw prints.                                  *)
LEMMA StoredColumns ==
  ASSUME WriteAssumption
  PROVE  /\ Insertable \in Seq(ColumnSet) /\ Range(Insertable) = Stored
         /\ Stored \subseteq ColumnSet /\ Key \in Stored /\ Key \notin Nullable
         /\ Other \in Stored /\ ColumnSet \subseteq Plain
         /\ \A c \in DOMAIN ComputedFrom : ComputedFrom[c] \in Stored
  <1>1. Columns \in Seq(Plain) /\ ColumnSet = Range(Columns)
    BY DEF WriteAssumption, ColumnSet
  <1>2. Range(Insertable) = ColumnSet \cap (ColumnSet \ DOMAIN ComputedFrom)
    BY <1>1, AmongRange DEF Insertable
  <1>3. Range(Insertable) = Stored
    BY <1>2 DEF Stored
  <1>4. Insertable \in Seq(Plain)
    BY <1>1, AmongWords DEF Insertable
  <1>5. Insertable \in Seq(ColumnSet)
    <2>1. \A j \in 1 .. Len(Insertable) : Insertable[j] \in ColumnSet
      BY <1>3, <1>4, ListFacts DEF Stored
    <2> QED
      BY <1>4, <2>1, ListFacts, SeqDef
  <1>6. ColumnSet \subseteq Plain
    BY <1>1, ListFacts
  <1>7. /\ Key \in Stored /\ Key \notin Nullable /\ Other \in Stored
        /\ \A c \in DOMAIN ComputedFrom : ComputedFrom[c] \in Stored
    BY DEF WriteAssumption
  <1> QED
    BY <1>3, <1>5, <1>6, <1>7 DEF Stored

LEMMA ColumnsOfInsert ==
  ASSUME WriteAssumption, NEW batch
  PROVE  /\ InsertColumns(batch) \in Seq(ColumnSet)
         /\ Range(InsertColumns(batch)) = Stored \ AllNullColumns(batch)
  <1> DEFINE cs == InsertColumns(batch)
  <1>1. Insertable \in Seq(ColumnSet) /\ Range(Insertable) = Stored /\ Stored \subseteq ColumnSet
    BY StoredColumns
  <1>2. cs \in Seq(ColumnSet)
    BY <1>1, AmongWords DEF InsertColumns
  <1>3. Range(cs) = Stored \cap (ColumnSet \ AllNullColumns(batch))
    BY <1>1, AmongRange DEF InsertColumns
  <1> QED
    BY <1>1, <1>2, <1>3

InsertFits(b) ==
  /\ \A i \in 1 .. Len(b.batch) : \A c \in Stored : CellFits(b.batch[i], c)
  /\ \A n \in 1 .. Len(b.set) : SetFits(b.set[n])
  /\ b.conflict = "update" => b.set # <<>>

LEMMA SetFitting ==
  ASSUME NEW b, IsSet(b.set), ~Throws(b)
  PROVE  /\ \A n \in 1 .. Len(b.set) : SetFits(b.set[n])
         /\ b.conflict = "update" => b.set # <<>>
  <1>1. ~(b.conflict = "update" /\ b.set = <<>>)
    BY Zenon DEF Throws
  <1>2. \A n \in 1 .. Len(b.set) :
          ~(b.set[n].expression = "constant" /\ IsUnfit(b.set[n].column, b.set[n].value))
    BY Zenon DEF Throws
  <1>3. \A n \in 1 .. Len(b.set) : SetFits(b.set[n])
    BY <1>2 DEF IsSet, SetFits, IsFit
  <1> QED
    BY <1>1, <1>3

LEMMA InsertFitting ==
  ASSUME WriteAssumption, NEW b, b.kind = "insert", IsBatch(b.batch), IsSet(b.set), ~Throws(b)
  PROVE  InsertFits(b)
  <1>1. ASSUME NEW i \in 1 .. Len(b.batch), NEW c \in Stored PROVE CellFits(b.batch[i], c)
    <2> DEFINE o == b.batch[i]  v == At(o, c)
    <2>1. c \in Range(Insertable)
      BY StoredColumns
    <2>2. ~(~(/\ b.kind = "insert" /\ c \in DOMAIN DefaultsOf
              /\ v = Undefined) /\ IsUnfit(c, v))
      <3>1. c \in (IF b.kind = "insert" THEN Range(Insertable) ELSE Range(b.fields))
        BY <2>1
      <3> QED
        BY <3>1, Zenon DEF Throws
    <2>3. v = Undefined \/ IsValue(c, v)
      BY DEF At, IsBatch
    <2> HIDE DEF v
    <2> QED
      BY <2>2, <2>3 DEF CellFits, IsFit, v
  <1>2. /\ \A n \in 1 .. Len(b.set) : SetFits(b.set[n])
        /\ b.conflict = "update" => b.set # <<>>
    BY SetFitting
  <1> QED
    BY <1>1, <1>2 DEF InsertFits

InsertRows(b) == [i \in 1 .. Len(b.batch) |-> RowCells(b.batch, i)]

LEMMA InsertRowCells ==
  ASSUME WriteAssumption, NEW b, IsBatch(b.batch), InsertFits(b)
  PROVE  LET cs == InsertColumns(b.batch) IN
         /\ AreRows(InsertRows(b), Len(b.batch), Len(cs))
         /\ \A i \in 1 .. Len(b.batch) : \A n \in 1 .. Len(cs) :
              /\ cs[n] \in Stored
              /\ ReadCell(cs[n], Bound(InsertRows(b)[i][n])) = Given(b.batch[i], cs[n])
  <1> DEFINE cs == InsertColumns(b.batch)  N == Len(b.batch)  W == Len(cs)
             rows == InsertRows(b)
             cell(i, n) == OrNull(Cell(b.batch[i], cs[n]))
  <1>1. N \in Nat
    BY LenProperties DEF IsBatch
  <1>2. /\ W \in Nat /\ \A n \in 1 .. W : cs[n] \in Stored
    <2>1. cs \in Seq(ColumnSet) /\ Range(cs) = Stored \ AllNullColumns(b.batch)
      BY ColumnsOfInsert
    <2> HIDE DEF cs
    <2> QED
      BY <2>1, ListFacts
  <1>3. ASSUME NEW i \in 1 .. N, NEW n \in 1 .. W
        PROVE ReadsAs(cs[n], cell(i, n), Given(b.batch[i], cs[n]))
    <2> DEFINE o == b.batch[i]  c == cs[n]
    <2>1. c \in Stored /\ c \in ColumnSet
      BY <1>2 DEF Stored
    <2>2. CellFits(o, c)
      BY <2>1 DEF InsertFits
    <2> HIDE DEF o, c
    <2>3. ReadsAs(c, OrNull(Cell(o, c)), Given(o, c))
      BY <2>1, <2>2, CellItem
    <2> QED
      BY <2>3 DEF o, c
  <1>4. \A i \in 1 .. N : rows[i] = [n \in 1 .. W |-> cell(i, n)]
    BY DEF InsertRows, RowCells
  <1>5. DOMAIN rows = 1 .. N /\ Len(rows) = N
    BY <1>1 DEF InsertRows
  <1> HIDE DEF cs, rows, N
  <1>6. \A i \in 1 .. N, n \in 1 .. W : rows[i][n] = cell(i, n)
    BY <1>4
  <1>7. \A i \in 1 .. N, n \in 1 .. W :
          IsItem(rows[i][n]) /\ ReadCell(cs[n], Bound(rows[i][n])) = Given(b.batch[i], cs[n])
    BY <1>3, <1>6 DEF ReadsAs
  <1>8. \A i \in 1 .. N : rows[i] \in [1 .. W -> Fragments(Tokens)]
    BY <1>4, <1>7 DEF IsItem, IsFragment
  <1>9. AreRows(rows, N, W)
    BY <1>1, <1>2, <1>5, <1>7, <1>8 DEF AreRows
  <1> QED
    BY <1>2, <1>7, <1>9 DEF cs, rows, N

LEMMA ConflictText ==
  ASSUME WriteAssumption, NEW b, IsFragment(b.where), b.set \in Seq(Range(b.set)),
         \A n \in 1 .. Len(b.set) : SetFits(b.set[n])
  PROVE  LET k == OnConflictText(b)
             both == Clause("SET", Bound(SetNames(b))) \o Clause("TO", Bound(SetCells(b)))
         IN  /\ b.conflict = "none" => IsFragment(k) /\ Bound(k) = <<>>
             /\ b.conflict = "nothing" => IsFragment(k) /\ Bound(k) = Clause("NOTHING", <<>>)
             /\ b.conflict = "update" /\ "where" \notin b.calls =>
                  IsFragment(k) /\ Bound(k) = both
             /\ b.conflict = "update" /\ "where" \in b.calls =>
                  IsFragment(k) /\ Bound(k) = both \o Clause("WHERE", Bound(b.where))
  <1> DEFINE k == OnConflictText(b)  f == SetNames(b)  g == SetCells(b)
             h == Construct(<<"SET", "TO", "">>, <<f, g>>)
             both == Clause("SET", Bound(f)) \o Clause("TO", Bound(g))
             whole == Construct(<<"", "WHERE", "">>, <<h, b.where>>)
  <1>1. ASSUME b.conflict = "none" PROVE IsFragment(k) /\ Bound(k) = <<>>
    <2>1. k = Raw("")
      BY <1>1, Zenon DEF OnConflictText
    <2> QED
      BY <2>1, RawBinds
  <1>2. ASSUME b.conflict = "nothing"
        PROVE IsFragment(k) /\ Bound(k) = Clause("NOTHING", <<>>)
    <2> DEFINE w == "NOTHING"  one == <<w>>
    <2>1. k = Raw(w)
      BY <1>2, Zenon DEF OnConflictText
    <2>2. w \in Keywords
      BY Zenon DEF Keywords
    <2> HIDE DEF w, k
    <2>3. w \in Tokens \ {Hole} /\ Token(w) = one /\ one \in Seq(Tokens)
      BY <2>2, KeywordTokens
    <2>4. IsFragment(Raw(w)) /\ Bound(Raw(w)) = Token(w)
      BY <2>3, RawBinds
    <2> HIDE DEF one
    <2>5. one \o <<>> = one
      BY <2>3, BlankToken
    <2>6. Clause(w, <<>>) = one
      BY <2>5 DEF Clause, one
    <2> QED
      BY <2>1, <2>3, <2>4, <2>6 DEF w
  <1>3. IsFragment(f) /\ IsFragment(g)
    BY SetReads
  <1>4. IsFragment(h) /\ Bound(h) = both
    <2> HIDE DEF f, g
    <2> QED
      BY <1>3, AssignedText
  <1>5. ASSUME b.conflict = "update", "where" \notin b.calls
        PROVE IsFragment(k) /\ Bound(k) = both
    <2>1. k = h
      BY <1>5, Zenon DEF OnConflictText, SetNames, SetCells
    <2> QED
      BY <1>4, <2>1
  <1>6. ASSUME b.conflict = "update", "where" \in b.calls
        PROVE IsFragment(k) /\ Bound(k) = both \o Clause("WHERE", Bound(b.where))
    <2>1. k = whole
      BY <1>6, Zenon DEF OnConflictText, SetNames, SetCells
    <2> HIDE DEF h, both
    <2>2. IsFragment(whole) /\ Bound(whole) = Bound(h) \o Clause("WHERE", Bound(b.where))
      BY <1>4, GuardedText
    <2> HIDE DEF whole, k
    <2> QED
      BY <1>4, <2>1, <2>2
  <1> QED
    BY <1>1, <1>2, <1>5, <1>6

LEMMA ConcatThree ==
  ASSUME NEW a \in Seq(Tokens), NEW b \in Seq(Tokens), NEW c \in Seq(Tokens)
  PROVE  a \o (b \o c) = (a \o b) \o c /\ b \o c \in Seq(Tokens) /\ a \o b \in Seq(Tokens)
  <1>1. (a \o b) \o c = a \o (b \o c)
    BY ConcatAssociative
  <1>2. b \o c \in Seq(Tokens)
    BY ConcatProperties
  <1>3. a \o b \in Seq(Tokens)
    BY ConcatProperties
  <1> QED
    BY <1>1, <1>2, <1>3

LEMMA InsertPrinted ==
  ASSUME WriteAssumption, NEW b, IsBuilder(b), b.kind = "insert", ~Throws(b)
  PROVE  InsertSays(Printed(b), Bound(Names(InsertColumns(b.batch))),
                    Bound(Tuples(InsertRows(b))), b.conflict,
                    Bound(SetNames(b)), Bound(SetCells(b)), Bound(b.where))
  <1> DEFINE f == Names(InsertColumns(b.batch))  g == Tuples(InsertRows(b))
             k == OnConflictText(b)  p == Bound(f)  q == Bound(g)
             s == Bound(SetNames(b))  c == Bound(SetCells(b))  w == Bound(b.where)
             h == Construct(<<"INSERT", "VALUES", "", "">>, <<f, g, k>>)
             t2 == Clause("INSERT", p) \o Clause("VALUES", q)
             cs1 == Clause("SET", s)  cs2 == Clause("TO", c)  cs3 == Clause("WHERE", w)
  <1>1. IsBatch(b.batch) /\ IsSet(b.set) /\ IsCondition(b.where)
    BY DEF IsBuilder
  <1>2. InsertFits(b)
    BY <1>1, InsertFitting
  <1>3. IsFragment(f) /\ AtDepth(p, 1)
    BY NamesRead, ColumnsOfInsert
  <1>4. IsFragment(g) /\ AtDepth(q, 1)
    BY <1>1, <1>2, InsertRowCells, TuplesRead
  <1>5. AtDepth(s, 1) /\ AtDepth(c, 1)
    BY <1>1, <1>2, SetReads DEF InsertFits, IsSet
  <1>6. IsFragment(b.where) /\ w \in Seq(Body)
    BY <1>1, ConditionReads
  <1>7. /\ p \in Seq(Body) /\ q \in Seq(Body) /\ s \in Seq(Body) /\ c \in Seq(Body)
        /\ ~Has(p, "sameKey") /\ ~Has(q, "sameKey")
    BY <1>3, <1>4, <1>5, SpokenBody
  <1>8. InsertText(b) = h
    BY Zenon DEF InsertText, InsertRows
  <1>9. Printed(b) = Bound(h)
    BY <1>8, Zenon DEF Printed
  <1>10. /\ b.conflict = "none" => IsFragment(k) /\ Bound(k) = <<>>
         /\ b.conflict = "nothing" => IsFragment(k) /\ Bound(k) = Clause("NOTHING", <<>>)
         /\ b.conflict = "update" /\ "where" \notin b.calls =>
              IsFragment(k) /\ Bound(k) = cs1 \o cs2
         /\ b.conflict = "update" /\ "where" \in b.calls =>
              IsFragment(k) /\ Bound(k) = (cs1 \o cs2) \o cs3
    BY <1>1, <1>2, <1>6, ConflictText, Zenon DEF InsertFits, IsSet
  <1>11. /\ b.conflict \in {"none", "nothing", "update"}
         /\ "where" \notin b.calls => w = <<>>
    BY RawBinds DEF IsBuilder
  <1> HIDE DEF f, g, k
  <1>12. ASSUME IsFragment(k) PROVE IsFragment(h) /\ Bound(h) = t2 \o Bound(k)
    <2>1. IsFragment(f) /\ IsFragment(g)
      BY <1>3, <1>4
    <2> QED
      <3>1. IsFragment(h) /\ Bound(h) = Opening(p, q, Bound(k))
        BY <1>12, <2>1, InsertedText
      <3> QED
        BY <3>1, Zenon DEF Opening
  <1> HIDE DEF h, p, q, s, c, w
  <1>13. /\ InsertSays(t2, p, q, "none", s, c, w)
         /\ InsertSays(t2 \o Clause("NOTHING", <<>>), p, q, "nothing", s, c, w)
         /\ InsertSays(t2 \o cs1 \o cs2, p, q, "update", s, c, <<>>)
         /\ InsertSays(t2 \o cs1 \o cs2 \o cs3, p, q, "update", s, c, w)
    BY <1>6, <1>7, InsertClauses, Zenon
  <1>14. /\ t2 \in Seq(Tokens) /\ cs1 \in Seq(Tokens) /\ cs2 \in Seq(Tokens)
         /\ cs3 \in Seq(Tokens)
    <2>1. /\ "INSERT" \in Keywords /\ "TO" \in Keywords /\ "SET" \in Keywords
          /\ "VALUES" \in Keywords /\ "WHERE" \in Keywords
      BY Zenon DEF Keywords
    <2>2. Body \subseteq Tokens
      BY DEF Body
    <2>3. /\ p \in Seq(Tokens) /\ q \in Seq(Tokens) /\ s \in Seq(Tokens)
          /\ c \in Seq(Tokens) /\ w \in Seq(Tokens)
      BY <1>6, <1>7, <2>2, SeqMonotonic
    <2>4. Clause("INSERT", p) \in Seq(Tokens) /\ Clause("VALUES", q) \in Seq(Tokens)
      BY <2>1, <2>3, ClauseType
    <2>5. cs1 \in Seq(Tokens) /\ cs2 \in Seq(Tokens) /\ cs3 \in Seq(Tokens)
      BY <2>1, <2>3, ClauseType
    <2>6. t2 \in Seq(Tokens)
      BY <2>4, ConcatProperties
    <2> QED
      BY <2>5, <2>6
  <1> HIDE DEF t2, cs1, cs2, cs3
  <1>15. InsertSays(Printed(b), p, q, b.conflict, s, c, w)
    <2>1. CASE b.conflict = "none"
      <3>1. Bound(h) = t2 \o <<>>
        BY <1>10, <1>12, <2>1
      <3>2. t2 \o <<>> = t2
        BY <1>14, BlankToken
      <3> QED
        BY <1>9, <1>13, <2>1, <3>1, <3>2
    <2>2. CASE b.conflict = "nothing"
      <3>1. Bound(h) = t2 \o Clause("NOTHING", <<>>)
        BY <1>10, <1>12, <2>2
      <3> QED
        BY <1>9, <1>13, <2>2, <3>1
    <2>3. CASE b.conflict = "update" /\ "where" \notin b.calls
      <3>1. Bound(h) = t2 \o (cs1 \o cs2)
        BY <1>10, <1>12, <2>3
      <3>2. t2 \o (cs1 \o cs2) = t2 \o cs1 \o cs2
        BY <1>14, ConcatThree
      <3> QED
        BY <1>9, <1>11, <1>13, <2>3, <3>1, <3>2
    <2>4. CASE b.conflict = "update" /\ "where" \in b.calls
      <3> DEFINE cs == cs1 \o cs2
      <3>1. Bound(h) = t2 \o (cs \o cs3)
        BY <1>10, <1>12, <2>4
      <3>2. cs \in Seq(Tokens) /\ t2 \o cs = t2 \o cs1 \o cs2
        BY <1>14, ConcatThree
      <3> HIDE DEF cs
      <3>3. /\ t2 \o (cs \o cs3) = (t2 \o cs) \o cs3
            /\ cs \o cs3 \in Seq(Tokens) /\ t2 \o cs \in Seq(Tokens)
        <4>1. t2 \in Seq(Tokens) /\ cs \in Seq(Tokens) /\ cs3 \in Seq(Tokens)
          BY <1>14, <3>2
        <4> QED
          BY <4>1, ConcatThree
      <3>4. Bound(h) = t2 \o cs1 \o cs2 \o cs3
        BY <3>1, <3>2, <3>3, Zenon
      <3> QED
        BY <1>9, <1>13, <2>4, <3>4
    <2> QED
      BY <1>11, <2>1, <2>2, <2>3, <2>4
  <1> QED
    BY <1>15 DEF f, g, p, q, s, c, w

(* What an update and a table of values print.                                 *)
FieldsFit(b) ==
  \A i \in 1 .. Len(b.batch) : \A c \in Range(b.fields) : IsFit(c, At(b.batch[i], c))

LEMMA FieldsFitting ==
  ASSUME NEW b, b.kind \in {"update", "values"}, IsBatch(b.batch), ~Throws(b)
  PROVE  FieldsFit(b) /\ (b.kind = "update" => b.fields # <<>>)
  <1>1. ASSUME NEW i \in 1 .. Len(b.batch), NEW c \in Range(b.fields)
        PROVE IsFit(c, At(b.batch[i], c))
    <2> DEFINE o == b.batch[i]  v == At(o, c)
    <2>1. b.kind # "insert"
      OBVIOUS
    <2>2. ~(~(/\ b.kind = "insert" /\ c \in DOMAIN DefaultsOf
              /\ v = Undefined) /\ IsUnfit(c, v))
      <3>1. c \in (IF b.kind = "insert" THEN Range(Insertable) ELSE Range(b.fields))
        BY <2>1
      <3> QED
        BY <3>1, Zenon DEF Throws
    <2>3. v = Undefined \/ IsValue(c, v)
      BY DEF At, IsBatch
    <2> HIDE DEF v
    <2> QED
      BY <2>1, <2>2, <2>3 DEF IsFit, v
  <1>2. ~(b.kind = "update" /\ b.fields = <<>>)
    BY Zenon DEF Throws
  <1> QED
    BY <1>1, <1>2 DEF FieldsFit

FieldRows(b) == [i \in 1 .. Len(b.batch) |-> FieldCells(b, i)]

LEMMA FieldRowCells ==
  ASSUME WriteAssumption, NEW b, IsBatch(b.batch), b.fields \in Seq(ColumnSet), FieldsFit(b)
  PROVE  /\ AreRows(FieldRows(b), Len(b.batch), Len(b.fields))
         /\ \A i \in 1 .. Len(b.batch) : \A n \in 1 .. Len(b.fields) :
              ReadCell(b.fields[n], Bound(FieldRows(b)[i][n]))
                = OrNone(At(b.batch[i], b.fields[n]))
  <1> DEFINE cs == b.fields  N == Len(b.batch)  W == Len(cs)
             rows == FieldRows(b)
             cell(i, n) == OrNull(SerializeValueForDataType(cs[n], At(b.batch[i], cs[n])))
  <1>1. N \in Nat
    BY LenProperties DEF IsBatch
  <1>2. W \in Nat /\ \A n \in 1 .. W : cs[n] \in ColumnSet /\ cs[n] \in Range(cs)
    BY ListFacts
  <1>3. ASSUME NEW i \in 1 .. N, NEW n \in 1 .. W
        PROVE ReadsAs(cs[n], cell(i, n), OrNone(At(b.batch[i], cs[n])))
    <2> DEFINE c == cs[n]  v == At(b.batch[i], c)
    <2>1. c \in ColumnSet /\ c \in Range(cs)
      BY <1>2
    <2>2. IsFit(c, v)
      BY <2>1 DEF FieldsFit
    <2> HIDE DEF v, c
    <2>3. ReadsAs(c, OrNull(SerializeValueForDataType(c, v)), OrNone(v))
      BY <2>1, <2>2, ValueItem
    <2> QED
      BY <2>3 DEF v, c
  <1>4. \A i \in 1 .. N : rows[i] = [n \in 1 .. W |-> cell(i, n)]
    BY DEF FieldRows, FieldCells
  <1>5. DOMAIN rows = 1 .. N /\ Len(rows) = N
    BY <1>1 DEF FieldRows
  <1> HIDE DEF cs, rows, N
  <1>6. \A i \in 1 .. N, n \in 1 .. W : rows[i][n] = cell(i, n)
    BY <1>4
  <1>7. \A i \in 1 .. N, n \in 1 .. W :
          /\ IsItem(rows[i][n])
          /\ ReadCell(cs[n], Bound(rows[i][n])) = OrNone(At(b.batch[i], cs[n]))
    BY <1>3, <1>6 DEF ReadsAs
  <1>8. \A i \in 1 .. N : rows[i] \in [1 .. W -> Fragments(Tokens)]
    BY <1>4, <1>7 DEF IsItem, IsFragment
  <1>9. AreRows(rows, N, W)
    BY <1>1, <1>2, <1>5, <1>7, <1>8 DEF AreRows
  <1> QED
    BY <1>7, <1>9 DEF cs, rows, N

\* What an update says.
UpdateSays(text, p, q, w, where) ==
  /\ Section(text, "UPDATE") = p /\ Section(text, "TO") = p
  /\ Section(text, "NAMES") = p /\ Section(text, "VALUES") = q
  /\ Section(text, "WHERE") = w /\ Section(text, "SET") = <<>>
  /\ ~Has(text, "INSERT") /\ Has(text, "UPDATE")
  /\ Has(text, "sameKey") <=> Has(where.parts, "sameKey")

LEMMA UpdatePrinted ==
  ASSUME WriteAssumption, NEW b, IsBuilder(b), b.kind = "update", ~Throws(b)
  PROVE  UpdateSays(Printed(b), Bound(Names(b.fields)), Bound(Tuples(FieldRows(b))),
                    Bound(b.where), b.where)
  <1> DEFINE f == Names(b.fields)  g == Tuples(FieldRows(b))  i == b.where
             p == Bound(f)  q == Bound(g)  w == Bound(i)
             h == Construct(<<"UPDATE", "TO", "NAMES", "VALUES", "WHERE", "">>, <<f, f, f, g, i>>)
             text == Clause("UPDATE", p) \o Clause("TO", p) \o Clause("NAMES", p)
                     \o Clause("VALUES", q) \o Clause("WHERE", w)
  <1>1. IsBatch(b.batch) /\ b.fields \in Seq(ColumnSet) /\ IsCondition(i)
    BY DEF IsBuilder
  <1>2. FieldsFit(b)
    BY <1>1, FieldsFitting
  <1>3. IsFragment(f) /\ AtDepth(p, 1)
    BY <1>1, NamesRead
  <1>4. IsFragment(g) /\ AtDepth(q, 1)
    BY <1>1, <1>2, FieldRowCells, TuplesRead
  <1>5. /\ IsFragment(i) /\ w \in Seq(Body)
        /\ Has(w, "sameKey") <=> Has(i.parts, "sameKey")
    BY <1>1, ConditionReads
  <1>6. /\ p \in Seq(Body) /\ q \in Seq(Body)
        /\ ~Has(p, "sameKey") /\ ~Has(q, "sameKey")
    BY <1>3, <1>4, SpokenBody
  <1>7. UpdateText(b) = h
    BY Zenon DEF UpdateText, FieldRows
  <1>8. Printed(b) = Bound(h)
    BY <1>7, Zenon DEF Printed
  <1> HIDE DEF f, g, i
  <1>9. IsFragment(h) /\ Bound(h) = text
    <2>1. IsFragment(f) /\ IsFragment(g) /\ IsFragment(i)
      BY <1>3, <1>4, <1>5
    <2> QED
      <3>1. IsFragment(h) /\ Bound(h) = Revision(p, q, w)
        BY <2>1, UpdatedText
      <3> QED
        BY <3>1, Zenon DEF Revision
  <1> HIDE DEF p, q, w, h
  <1>10. /\ Hears(text, {"UPDATE", "TO", "NAMES", "VALUES", "WHERE"})
         /\ Section(text, "UPDATE") = p /\ Section(text, "TO") = p
         /\ Section(text, "NAMES") = p /\ Section(text, "VALUES") = q
         /\ Section(text, "WHERE") = w
         /\ Has(text, "sameKey") <=> Has(w, "sameKey")
    BY <1>5, <1>6, UpdateClauses, Zenon
  <1> HIDE DEF text
  <1>11. Section(text, "SET") = <<>> /\ ~Has(text, "INSERT") /\ Has(text, "UPDATE")
    <2>1. "SET" \in Keywords /\ "INSERT" \in Keywords /\ "UPDATE" \in Keywords
      BY Zenon DEF Keywords
    <2> QED
      BY <1>10, <2>1 DEF Hears
  <1>12. Has(text, "sameKey") <=> Has(i.parts, "sameKey")
    BY <1>5, <1>10, Zenon
  <1>13. UpdateSays(text, p, q, w, i)
    BY <1>10, <1>11, <1>12, Zenon DEF UpdateSays
  <1>14. Printed(b) = text
    BY <1>8, <1>9
  <1> QED
    BY <1>13, <1>14, Zenon DEF f, g, i, p, q, w

\* What a table of values says.
ValuesSay(text, p, q) ==
  /\ Section(text, "NAMES") = p /\ Section(text, "VALUES") = q
  /\ Section(text, "SET") = <<>> /\ Section(text, "UPDATE") = <<>>
  /\ Section(text, "TO") = <<>>
  /\ ~Has(text, "INSERT") /\ ~Has(text, "UPDATE")

LEMMA ValuesPrinted ==
  ASSUME WriteAssumption, NEW b, IsBuilder(b), b.kind = "values", ~Throws(b)
  PROVE  ValuesSay(Printed(b), Bound(Names(b.fields)), Bound(Tuples(FieldRows(b))))
  <1> DEFINE f == Names(b.fields)  g == Tuples(FieldRows(b))
             p == Bound(f)  q == Bound(g)
             h == Construct(<<"NAMES", "VALUES", "">>, <<f, g>>)
             text == Clause("NAMES", p) \o Clause("VALUES", q)
  <1>1. IsBatch(b.batch) /\ b.fields \in Seq(ColumnSet)
    BY DEF IsBuilder
  <1>2. FieldsFit(b)
    BY <1>1, FieldsFitting
  <1>3. IsFragment(f) /\ AtDepth(p, 1)
    BY <1>1, NamesRead
  <1>4. IsFragment(g) /\ AtDepth(q, 1)
    BY <1>1, <1>2, FieldRowCells, TuplesRead
  <1>6. /\ p \in Seq(Body) /\ q \in Seq(Body)
        /\ ~Has(p, "sameKey") /\ ~Has(q, "sameKey")
    BY <1>3, <1>4, SpokenBody
  <1>7. ValuesText(b) = h
    BY Zenon DEF ValuesText, FieldRows
  <1>8. Printed(b) = Bound(h)
    BY <1>7, Zenon DEF Printed
  <1> HIDE DEF f, g
  <1>9. IsFragment(h) /\ Bound(h) = text
    <2>1. IsFragment(f) /\ IsFragment(g)
      BY <1>3, <1>4
    <2> QED
      BY <2>1, ListedText, Zenon
  <1> HIDE DEF p, q, h
  <1>5. /\ "NAMES" \in Keywords /\ "VALUES" \in Keywords /\ "SET" \in Keywords
        /\ "UPDATE" \in Keywords /\ "TO" \in Keywords /\ "INSERT" \in Keywords
    BY Zenon DEF Keywords
  <1>10. /\ Hears(text, {"NAMES", "VALUES"})
         /\ Section(text, "NAMES") = p /\ Section(text, "VALUES") = q
         /\ ~Has(text, "sameKey")
    BY <1>5, <1>6, FirstClauses
  <1> HIDE DEF text
  <1>11. /\ Section(text, "SET") = <<>> /\ ~Has(text, "INSERT") /\ ~Has(text, "UPDATE")
         /\ Section(text, "UPDATE") = <<>> /\ Section(text, "TO") = <<>>
    BY <1>5, <1>10 DEF Hears
  <1>13. ValuesSay(text, p, q)
    BY <1>10, <1>11, Zenon DEF ValuesSay
  <1>14. Printed(b) = text
    BY <1>8, <1>9
  <1> QED
    BY <1>13, <1>14, Zenon DEF f, g, p, q

--------------------------------------------------------------------------------
(* The same, read back: the rows an insert proposes and the cells it assigns.  *)

(* Lists of names, tuples and named tuples, read back.                         *)
LEMMA NamesListed ==
  ASSUME WriteAssumption, NEW text, NEW word, NEW cs \in Seq(ColumnSet),
         Section(text, word) = Bound(Names(cs))
  PROVE  ListOf(text, word) = cs
  <1> DEFINE items == Split(Section(text, word))
  <1>1. ListOf(text, word) = FirstOfEach(items)
    BY Zenon DEF ListOf, FirstOfEach
  <1>2. FirstOfEach(Split(Bound(Names(cs)))) = cs
    BY NamesRead
  <1> QED
    BY <1>1, <1>2

LEMMA NothingListed ==
  ASSUME NEW text, NEW word, Section(text, word) = <<>>
  PROVE  Split(Section(text, word)) = <<>> /\ ListOf(text, word) = <<>>
  <1>1. Split(<<>>) = <<>>
    BY Zenon DEF Split
  <1>2. Split(Section(text, word)) = <<>>
    BY <1>1
  <1>3. ListOf(text, word) = [n \in 1 .. Len(Split(Section(text, word))) |->
                                Split(Section(text, word))[n][1]]
    BY Zenon DEF ListOf
  <1>4. ListOf(text, word) = [n \in 1 .. 0 |-> <<>>[n][1]]
    BY <1>2, <1>3
  <1>5. [n \in 1 .. 0 |-> <<>>[n][1]] = <<>>
    OBVIOUS
  <1> QED
    BY <1>2, <1>4, <1>5

LEMMA TuplesListed ==
  ASSUME NEW text, NEW rows, NEW N, NEW W, AreRows(rows, N, W),
         Section(text, "VALUES") = Bound(Tuples(rows))
  PROVE  /\ Len(TuplesOf(text)) = N /\ N \in Nat /\ W \in Nat
         /\ TuplesOf(text) = <<>> <=> N = 0
         /\ \A i \in 1 .. N : /\ Len(TuplesOf(text)[i]) = W
                              /\ \A n \in 1 .. W : TuplesOf(text)[i][n] = Bound(rows[i][n])
  <1> DEFINE tuples == Split(Bound(Tuples(rows)))
             all == [i \in 1 .. N |-> Split(Inside(tuples[i]))]
             tuple(i) == [n \in 1 .. W |-> Bound(rows[i][n])]
  <1>1. Len(tuples) = N /\ \A i \in 1 .. N : Split(Inside(tuples[i])) = tuple(i)
    BY TuplesRead
  <1>2. N \in Nat /\ W \in Nat
    BY DEF AreRows
  <1>3. TuplesOf(text) = [i \in 1 .. Len(Split(Section(text, "VALUES"))) |->
                            Split(Inside(Split(Section(text, "VALUES"))[i]))]
    BY Zenon DEF TuplesOf
  <1> HIDE DEF tuples
  <1>4. Split(Section(text, "VALUES")) = tuples
    BY DEF tuples
  <1>5. TuplesOf(text) = all
    BY <1>1, <1>3, <1>4
  <1>6. \A i \in 1 .. N : all[i] = tuple(i)
    BY <1>1
  <1>7. Len(all) = N
    BY <1>2
  <1>8. all = <<>> <=> N = 0
    <2>1. DOMAIN all = 1 .. N
      OBVIOUS
    <2>2. ASSUME all = <<>> PROVE N = 0
      BY <1>7, <2>2
    <2>3. ASSUME N = 0 PROVE all = <<>>
      BY <2>3
    <2> QED
      BY <2>2, <2>3
  <1> HIDE DEF all
  <1>9. \A i \in 1 .. N : /\ Len(all[i]) = W
                          /\ \A n \in 1 .. W : all[i][n] = Bound(rows[i][n])
    <2> TAKE i \in 1 .. N
    <2>1. all[i] = tuple(i)
      BY <1>6
    <2>2. Len(tuple(i)) = W /\ \A n \in 1 .. W : tuple(i)[n] = Bound(rows[i][n])
      BY <1>2
    <2> QED
      BY <2>1, <2>2
  <1> QED
    BY <1>2, <1>5, <1>7, <1>8, <1>9

LEMMA NamedReads ==
  ASSUME NEW S, NEW cs \in Seq(S), NEW tuple, NEW given,
         \A n \in 1 .. Len(cs) : ReadCell(cs[n], tuple[n]) = given[cs[n]]
  PROVE  /\ DOMAIN Named(cs, tuple) = Range(cs)
         /\ \A c \in Range(cs) : Named(cs, tuple)[c] = given[c]
         /\ Named(cs, tuple) = [c \in Range(cs) |-> Named(cs, tuple)[c]]
  <1> DEFINE At2(c) == CHOOSE n \in 1 .. Len(cs) : cs[n] = c
  <1>1. Range(cs) = {cs[j] : j \in 1 .. Len(cs)}
    BY ListFacts
  <1>2. ASSUME NEW c \in Range(cs) PROVE ReadCell(c, tuple[At2(c)]) = given[c]
    <2>1. \E n \in 1 .. Len(cs) : cs[n] = c
      BY <1>1
    <2>2. At2(c) \in 1 .. Len(cs) /\ cs[At2(c)] = c
      BY <2>1
    <2> HIDE DEF At2
    <2> QED
      BY <2>2
  <1>3. Named(cs, tuple) = [c \in Range(cs) |-> ReadCell(c, tuple[At2(c)])]
    BY Zenon DEF Named
  <1> HIDE DEF At2
  <1> QED
    BY <1>2, <1>3

(* An insert's rows.                                                           *)
LEMMA RowSame ==
  ASSUME NEW f, NEW g, \A c \in Stored : f[c] = g[c], WriteAssumption
  PROVE  Row(f) = Row(g)
  <1>1. \A c \in ColumnSet : c \notin Stored => ComputedFrom[c] \in Stored
    BY StoredColumns DEF Stored
  <1>2. \A c \in ColumnSet :
          (IF c \in Stored THEN f[c] ELSE f[ComputedFrom[c]])
            = (IF c \in Stored THEN g[c] ELSE g[ComputedFrom[c]])
    BY <1>1
  <1> QED
    BY <1>2 DEF Row

LEMMA ProposedIsMeant ==
  ASSUME WriteAssumption, NEW b, b = builder, IsBatch(b.batch), InsertFits(b), NEW text,
         Section(text, "INSERT") = Bound(Names(InsertColumns(b.batch))),
         Section(text, "VALUES") = Bound(Tuples(InsertRows(b))),
         NEW i \in 1 .. Len(b.batch)
  PROVE  Proposed(text, i) = Meant(i)
  <1> DEFINE cs == InsertColumns(b.batch)  W == Len(cs)  rows == InsertRows(b)
             o == b.batch[i]  tuple == TuplesOf(text)[i]
             says == [c \in Stored |-> Given(o, c)]
             value == [c \in Stored |-> Stands(i, c)]
             given == Named(cs, tuple)
  <1>1. cs \in Seq(ColumnSet) /\ Range(cs) = Stored \ AllNullColumns(b.batch)
    BY ColumnsOfInsert
  <1>2. ListOf(text, "INSERT") = cs
    BY <1>1, NamesListed
  <1>3. /\ AreRows(rows, Len(b.batch), W)
        /\ \A n \in 1 .. W : /\ cs[n] \in Stored
                             /\ ReadCell(cs[n], Bound(rows[i][n])) = Given(o, cs[n])
    BY InsertRowCells
  <1>4. \A n \in 1 .. W : tuple[n] = Bound(rows[i][n])
    <2> HIDE DEF rows, W
    <2> QED
      BY <1>3, TuplesListed DEF rows
  <1>5. \A c \in Stored : Stands(i, c) = IF At(o, c) # Undefined THEN At(o, c)
                                         ELSE Default(i, c)
    BY DEF Stands
  <1> HIDE DEF cs, rows, tuple, o
  <1>6. DOMAIN given = Range(cs) /\ \A c \in Range(cs) : given[c] = says[c]
    <2>1. \A n \in 1 .. W : ReadCell(cs[n], tuple[n]) = says[cs[n]]
      BY <1>3, <1>4
    <2> HIDE DEF says, W
    <2>2. \A n \in 1 .. Len(cs) : ReadCell(cs[n], tuple[n]) = says[cs[n]]
      BY <2>1 DEF W
    <2>3. cs \in Seq(ColumnSet)
      BY <1>1
    <2>4. DOMAIN Named(cs, tuple) = Range(cs)
      BY <2>2, <2>3, NamedReads
    <2>5. \A c \in Range(cs) : Named(cs, tuple)[c] = says[c]
      BY <2>2, <2>3, NamedReads
    <2> QED
      BY <2>4, <2>5
  <1>7. ASSUME NEW c \in Stored, c \notin Range(cs) PROVE At(o, c) = Undefined
    <2>1. c \in AllNullColumns(b.batch)
      BY <1>1, <1>7
    <2>2. Cell(o, c) = Missing
      BY <2>1 DEF AllNullColumns, o
    <2>3. CellFits(o, c) /\ c \in ColumnSet
      BY DEF InsertFits, o, Stored
    <2> QED
      BY <2>2, <2>3, CellItem
  <1> DEFINE cells == [c \in Stored |-> IF At(given, c) # Undefined THEN given[c]
                                       ELSE Default(i, c)]
  <1>8. Proposed(text, i) = Row(cells)
    BY <1>2, Zenon DEF Proposed, tuple
  <1>9. Meant(i) = Row(value)
    BY Zenon DEF Meant, Stands
  <1>10. \A c \in Stored : cells[c] = value[c]
    <2> TAKE c \in Stored
    <2>1. DOMAIN given = Range(cs)
      BY <1>6
    <2>2. cells[c] = IF At(given, c) # Undefined THEN given[c] ELSE Default(i, c)
      OBVIOUS
    <2>3. value[c] = IF At(o, c) # Undefined THEN At(o, c) ELSE Default(i, c)
      BY <1>5
    <2>4. c \in Range(cs) => given[c] = Given(o, c)
      BY <1>6
    <2> HIDE DEF given, cells, value
    <2>5. CASE c \notin Range(cs)
      <3>1. At(given, c) = Undefined
        BY <2>1, <2>5, Zenon DEF At
      <3>2. At(o, c) = Undefined
        BY <1>7, <2>5
      <3> QED
        BY <2>2, <2>3, <3>1, <3>2
    <2>6. CASE c \in Range(cs)
      <3>1. At(given, c) = Given(o, c) /\ given[c] = Given(o, c)
        BY <2>1, <2>4, <2>6, Zenon DEF At
      <3>2. CASE At(o, c) # Undefined
        <4>1. Given(o, c) = At(o, c)
          BY <3>2, Zenon DEF Given, OrNone
        <4> QED
          BY <2>2, <2>3, <3>1, <3>2, <4>1
      <3>3. CASE At(o, c) = Undefined /\ c \in DOMAIN DefaultsOf
        <4>1. Given(o, c) = Undefined
          BY <3>3, Zenon DEF Given
        <4> QED
          BY <2>2, <2>3, <3>1, <3>3, <4>1
      <3>4. CASE At(o, c) = Undefined /\ c \notin DOMAIN DefaultsOf
        <4>1. Given(o, c) = Null /\ Default(i, c) = Null
          BY <3>4, Zenon DEF Given, OrNone, Default
        <4>2. Null # Undefined
          BY DEF Null, Undefined
        <4> QED
          BY <2>2, <2>3, <3>1, <3>4, <4>1, <4>2
      <3> QED
        BY <3>2, <3>3, <3>4
    <2> QED
      BY <2>5, <2>6
  <1> HIDE DEF cells, value
  <1>11. Row(cells) = Row(value)
    BY <1>10, RowSame
  <1> QED
    BY <1>8, <1>9, <1>11

(* The assignments of a conflict.                                              *)
LEMMA AssignmentsListed ==
  ASSUME WriteAssumption, NEW b, b.set \in Seq(Range(b.set)),
         \A n \in 1 .. Len(b.set) : SetFits(b.set[n]), NEW text,
         Section(text, "SET") = Bound(SetNames(b)), Section(text, "TO") = Bound(SetCells(b))
  PROVE  /\ ListOf(text, "SET") = [n \in 1 .. Len(b.set) |-> b.set[n].column]
         /\ Split(Section(text, "TO")) = [n \in 1 .. Len(b.set) |-> Bound(SetCell(b.set[n]))]
  <1>1. ListOf(text, "SET") = FirstOfEach(Split(Section(text, "SET")))
    BY Zenon DEF ListOf, FirstOfEach
  <1>2. FirstOfEach(Split(Bound(SetNames(b)))) = [n \in 1 .. Len(b.set) |-> b.set[n].column]
    BY SetReads
  <1>3. Split(Bound(SetCells(b))) = [n \in 1 .. Len(b.set) |-> Bound(SetCell(b.set[n]))]
    BY SetReads
  <1> QED
    BY <1>1, <1>2, <1>3

\* The value an assignment gives a row that stands against another.
AssignedValue(a, row, excluded) ==
  IF a.expression # "constant" THEN ValueOf(a.expression, a.column, row, excluded)
  ELSE OrNone(a.value)

LEMMA ReadAssignment ==
  ASSUME WriteAssumption, NEW a, SetFits(a), NEW row, NEW excluded, NEW c, NEW cell,
         a.column = c, cell = Bound(SetCell(a))
  PROVE  (IF cell[1] \in Expressions THEN ValueOf(cell[1], c, row, excluded)
          ELSE ReadCell(c, cell))
           = AssignedValue(a, row, excluded)
  <1>1. CASE a.expression # "constant"
    <2>1. cell = <<a.expression>> /\ a.expression \in Expressions
      BY <1>1, SetItem DEF SetFits
    <2>2. cell[1] = a.expression
      BY <2>1
    <2> QED
      BY <1>1, <2>1, <2>2, Zenon DEF AssignedValue
  <1>2. CASE a.expression = "constant"
    <2>1. ReadCell(c, cell) = OrNone(a.value) /\ ~IsDelta(cell)
      BY <1>2, SetItem
    <2> QED
      BY <1>2, <2>1, Zenon DEF AssignedValue, IsDelta
  <1> QED
    BY <1>1, <1>2

LEMMA MeantAssignment ==
  ASSUME NEW a, NEW row, NEW excluded
  PROVE  (CASE a.expression # "constant" -> ValueOf(a.expression, a.column, row, excluded)
            [] a.expression = "constant" /\ a.value = Undefined -> Null
            [] OTHER -> a.value)
           = AssignedValue(a, row, excluded)
  <1>1. CASE a.expression # "constant"
    BY <1>1, Zenon DEF AssignedValue
  <1>2. CASE a.expression = "constant" /\ a.value = Undefined
    BY <1>2, Zenon DEF AssignedValue, OrNone
  <1>3. CASE a.expression = "constant" /\ a.value # Undefined
    BY <1>3, Zenon DEF AssignedValue, OrNone
  <1> QED
    BY <1>1, <1>2, <1>3

\* The assignments of a column: none, or the only one.
AssignmentsOf(c) == {n \in 1 .. Len(builder.set) : builder.set[n].column = c}

LEMMA OneAssignment ==
  ASSUME IsSet(builder.set), NEW c, NEW n \in AssignmentsOf(c)
  PROVE  AssignmentsOf(c) = {n} /\ Min(AssignmentsOf(c)) = n
  <1>1. Len(builder.set) \in Nat
    BY LenProperties DEF IsSet
  <1>2. AssignmentsOf(c) = {n}
    BY DEF AssignmentsOf, IsSet
  <1>3. n \in Int
    BY <1>1 DEF AssignmentsOf
  <1>4. Min({n}) = n
    BY <1>3 DEF Min
  <1> QED
    BY <1>2, <1>4

\* What an assignment to a column, if any, leaves in a row.
LeftIn(c, row, excluded) ==
  IF AssignmentsOf(c) = {} THEN row[c]
  ELSE AssignedValue(builder.set[Min(AssignmentsOf(c))], row, excluded)

\* AfterConflict, of any builder and any excluded row.
ConflictOf(b, row, excluded) ==
  LET ValueBy(a) == CASE a.expression # "constant" ->
                           ValueOf(a.expression, a.column, row, excluded)
                      [] a.expression = "constant" /\ a.value = Undefined -> Null
                      [] OTHER -> a.value
      Of(c) == {n \in 1 .. Len(b.set) : b.set[n].column = c}
  IN  Row([c \in Stored |-> IF Of(c) = {} THEN row[c] ELSE ValueBy(b.set[Min(Of(c))])])

LEMMA ConflictLeft ==
  ASSUME IsSet(builder.set), \A n \in 1 .. Len(builder.set) : SetFits(builder.set[n]),
         NEW row, NEW e
  PROVE  ConflictOf(builder, row, e) = Row([c \in Stored |-> LeftIn(c, row, e)])
  <1> DEFINE ValueBy(a) == CASE a.expression # "constant" ->
                                  ValueOf(a.expression, a.column, row, e)
                             [] a.expression = "constant" /\ a.value = Undefined -> Null
                             [] OTHER -> a.value
             Value(c) == IF AssignmentsOf(c) = {} THEN row[c]
                         ELSE ValueBy(builder.set[Min(AssignmentsOf(c))])
  <1>1. ConflictOf(builder, row, e) = Row([c \in Stored |-> Value(c)])
    BY Zenon DEF ConflictOf, AssignmentsOf
  <1>2. ASSUME NEW c \in Stored PROVE Value(c) = LeftIn(c, row, e)
    <2>1. CASE AssignmentsOf(c) = {}
      BY <2>1 DEF LeftIn
    <2>2. CASE AssignmentsOf(c) # {}
      <3>1. PICK n \in AssignmentsOf(c) : TRUE
        BY <2>2
      <3>2. Min(AssignmentsOf(c)) = n /\ n \in 1 .. Len(builder.set)
        BY <3>1, OneAssignment DEF AssignmentsOf
      <3> DEFINE a == builder.set[n]
      <3>3. SetFits(a)
        BY <3>2
      <3> HIDE DEF a
      <3>4. ValueBy(a) = AssignedValue(a, row, e)
        BY <3>3, MeantAssignment
      <3> HIDE DEF ValueBy
      <3>5. Value(c) = ValueBy(a) /\ LeftIn(c, row, e) = AssignedValue(a, row, e)
        BY <2>2, <3>2 DEF LeftIn, a
      <3> QED
        BY <3>4, <3>5
    <2> QED
      BY <2>1, <2>2
  <1> HIDE DEF Value
  <1>3. [c \in Stored |-> Value(c)] = [c \in Stored |-> LeftIn(c, row, e)]
    BY <1>2
  <1> QED
    BY <1>1, <1>3

LEMMA ConflictLeaves ==
  ASSUME IsSet(builder.set), \A n \in 1 .. Len(builder.set) : SetFits(builder.set[n]),
         NEW row, NEW i
  PROVE  AfterConflict(row, i) = Row([c \in Stored |-> LeftIn(c, row, Meant(i))])
  <1>1. AfterConflict(row, i) = ConflictOf(builder, row, Meant(i))
    BY Zenon DEF AfterConflict, ConflictOf
  <1> QED
    BY <1>1, ConflictLeft

LEMMA AssignedIsMeant ==
  ASSUME WriteAssumption, IsSet(builder.set),
         \A n \in 1 .. Len(builder.set) : SetFits(builder.set[n]), NEW text,
         ListOf(text, "SET") = [n \in 1 .. Len(builder.set) |-> builder.set[n].column],
         Split(Section(text, "TO"))
           = [n \in 1 .. Len(builder.set) |-> Bound(SetCell(builder.set[n]))],
         NEW row, NEW i
  PROVE  Assigned(text, row, Meant(i)) = AfterConflict(row, i)
  <1> DEFINE e == Meant(i)  set == builder.set
             names == ListOf(text, "SET")  cells == Split(Section(text, "TO"))
             ValueBy(n) == IF cells[n][1] \in Expressions
                           THEN ValueOf(cells[n][1], names[n], row, e)
                           ELSE ReadCell(names[n], cells[n])
             Place(c) == CHOOSE n \in 1 .. Len(names) : names[n] = c
             Value(c) == IF c \in Range(names) THEN ValueBy(Place(c)) ELSE row[c]
  <1>1. Assigned(text, row, e) = Row([c \in Stored |-> Value(c)])
    BY Zenon DEF Assigned
  <1>2. /\ Len(set) \in Nat /\ Len(names) = Len(set)
        /\ \A n \in 1 .. Len(set) : names[n] = set[n].column /\ cells[n] = Bound(SetCell(set[n]))
    BY LenProperties DEF IsSet
  <1>3. Range(names) = {set[n].column : n \in 1 .. Len(set)}
    <2>1. DOMAIN names = 1 .. Len(set)
      OBVIOUS
    <2>2. Range(names) = {names[n] : n \in 1 .. Len(set)}
      BY <2>1 DEF Range
    <2> HIDE DEF names
    <2> QED
      BY <1>2, <2>2
  <1> HIDE DEF e, names, cells
  <1>4. ASSUME NEW c \in Stored PROVE Value(c) = LeftIn(c, row, e)
    <2>1. CASE AssignmentsOf(c) = {}
      <3>1. c \notin Range(names)
        BY <1>3, <2>1 DEF AssignmentsOf
      <3> QED
        BY <2>1, <3>1 DEF LeftIn
    <2>2. CASE AssignmentsOf(c) # {}
      <3>1. PICK n \in AssignmentsOf(c) : TRUE
        BY <2>2
      <3>2. Min(AssignmentsOf(c)) = n /\ AssignmentsOf(c) = {n}
        BY <3>1, OneAssignment
      <3>3. n \in 1 .. Len(set) /\ set[n].column = c
        BY <3>1 DEF AssignmentsOf
      <3>4. c \in Range(names) /\ Place(c) = n
        <4>1. \A m \in 1 .. Len(names) : names[m] = c <=> m = n
          BY <1>2, <3>2 DEF AssignmentsOf
        <4> QED
          BY <1>2, <1>3, <3>3, <4>1
      <3> HIDE DEF Place
      <3> DEFINE a == set[n]  cell == cells[n]
      <3>5. SetFits(a) /\ a.column = c /\ cell = Bound(SetCell(a)) /\ names[n] = c
        BY <1>2, <3>3
      <3>6. LeftIn(c, row, e) = AssignedValue(a, row, e)
        BY <2>2, <3>2 DEF LeftIn
      <3>7. Value(c) = (IF cell[1] \in Expressions THEN ValueOf(cell[1], c, row, e)
                            ELSE ReadCell(c, cell))
        BY <3>4, <3>5
      <3> HIDE DEF a, cell, Value
      <3>8. (IF cell[1] \in Expressions THEN ValueOf(cell[1], c, row, e)
                            ELSE ReadCell(c, cell)) = AssignedValue(a, row, e)
        BY <3>5, ReadAssignment
      <3> QED
        BY <3>6, <3>7, <3>8
    <2> QED
      BY <2>1, <2>2
  <1> HIDE DEF Value
  <1>5. [c \in Stored |-> Value(c)] = [c \in Stored |-> LeftIn(c, row, e)]
    BY <1>4
  <1>6. AfterConflict(row, i) = Row([c \in Stored |-> LeftIn(c, row, e)])
    BY ConflictLeaves DEF e
  <1> QED
    BY <1>1, <1>5, <1>6 DEF e

(* What the database reads of the builder's insert.                            *)
InsertReads(text) ==
  LET batch == builder.batch IN
  /\ Len(TuplesOf(text)) = Len(batch) /\ Len(batch) \in Nat
  /\ \A i \in 1 .. Len(batch) : Proposed(text, i) = Meant(i)
  /\ Has(text, "INSERT")
  /\ Has(text, "NOTHING") <=> builder.conflict = "nothing"
  /\ Has(text, "SET") <=> builder.conflict = "update"
  /\ builder.conflict = "update" =>
       \A row, i :
         /\ Holds(Section(text, "WHERE"), row, Meant(i)) = Matches(row, Meant(i))
         /\ Assigned(text, row, Meant(i)) = AfterConflict(row, i)
  /\ batch # <<>> => IsWellFormed(text)
  /\ WritesComputed(text) =>
       \E n \in 1 .. Len(builder.set) : builder.set[n].column \in DOMAIN ComputedFrom

LEMMA NamesKey ==
  ASSUME WriteAssumption, NEW b, IsBatch(b.batch), InsertFits(b), b.batch # <<>>
  PROVE  Key \in Range(InsertColumns(b.batch))
  <1>1. Len(b.batch) \in Nat /\ Len(b.batch) # 0
    BY EmptySeq, LenProperties DEF IsBatch
  <1>2. 1 \in 1 .. Len(b.batch)
    BY <1>1
  <1> DEFINE o == b.batch[1]
  <1>3. Key \in Stored /\ Key \notin Nullable /\ Key \in ColumnSet
    BY StoredColumns
  <1>4. CellFits(o, Key)
    BY <1>2, <1>3 DEF InsertFits
  <1> HIDE DEF o
  <1>5. At(o, Key) = Undefined => Key \in DOMAIN DefaultsOf
    BY <1>3, <1>4 DEF CellFits, IsFit, IsUnfit
  <1>6. Cell(o, Key) # Missing
    BY <1>3, <1>4, <1>5, CellItem
  <1>7. Key \notin AllNullColumns(b.batch)
    BY <1>2, <1>6 DEF AllNullColumns, o
  <1> QED
    BY <1>3, <1>7, ColumnsOfInsert

LEMMA InsertRead ==
  ASSUME WriteAssumption, IsBuilder(builder), builder.kind = "insert", ~Throws(builder)
  PROVE  InsertReads(Printed(builder))
  <1> DEFINE b == builder  text == Printed(b)  cs == InsertColumns(b.batch)
             N == Len(b.batch)  W == Len(cs)
  <1>1. /\ IsBatch(b.batch) /\ IsSet(b.set) /\ b.set \in Seq(Range(b.set))
        /\ b.conflict # "update" => b.set = <<>>
    BY DEF IsBuilder, IsSet
  <1>2. InsertFits(b)
    BY <1>1, InsertFitting
  <1>3. \A n \in 1 .. Len(b.set) : SetFits(b.set[n])
    BY <1>2 DEF InsertFits
  <1>4. InsertSays(text, Bound(Names(cs)), Bound(Tuples(InsertRows(b))), b.conflict,
                   Bound(SetNames(b)), Bound(SetCells(b)), Bound(b.where))
    BY InsertPrinted
  <1>5. cs \in Seq(ColumnSet)
    BY ColumnsOfInsert
  <1> HIDE DEF text, cs
  <1>6. /\ Section(text, "INSERT") = Bound(Names(cs))
        /\ Section(text, "VALUES") = Bound(Tuples(InsertRows(b)))
        /\ Section(text, "UPDATE") = <<>>
        /\ Has(text, "INSERT") /\ ~Has(text, "UPDATE")
        /\ Has(text, "NOTHING") <=> b.conflict = "nothing"
        /\ Has(text, "SET") <=> b.conflict = "update"
    BY <1>4, Zenon DEF InsertSays
  <1>7. AreRows(InsertRows(b), N, W)
    BY <1>1, <1>2, InsertRowCells DEF cs
  <1>8. /\ Len(TuplesOf(text)) = N /\ N \in Nat /\ W \in Nat
        /\ TuplesOf(text) = <<>> <=> N = 0
        /\ \A i \in 1 .. N : Len(TuplesOf(text)[i]) = W
    <2> HIDE DEF N, W
    <2> QED
      BY <1>6, <1>7, TuplesListed
  <1>9. \A i \in 1 .. N : Proposed(text, i) = Meant(i)
    BY <1>1, <1>2, <1>6, ProposedIsMeant DEF cs
  <1>10. ListOf(text, "INSERT") = cs
    BY <1>5, <1>6, NamesListed
  <1>11. ListOf(text, "UPDATE") = <<>>
    BY <1>6, NothingListed
  <1>12. /\ ListOf(text, "SET") = [n \in 1 .. Len(b.set) |-> b.set[n].column]
         /\ Split(Section(text, "TO")) = [n \in 1 .. Len(b.set) |-> Bound(SetCell(b.set[n]))]
    <2>1. CASE b.conflict = "update"
      <3>1. Section(text, "SET") = Bound(SetNames(b)) /\ Section(text, "TO") = Bound(SetCells(b))
        BY <1>4, <2>1, Zenon DEF InsertSays
      <3> QED
        BY <1>1, <1>3, <3>1, AssignmentsListed
    <2>2. CASE b.conflict # "update"
      <3>1. Section(text, "SET") = <<>> /\ Section(text, "TO") = <<>>
        BY <1>4, <2>2, Zenon DEF InsertSays
      <3>2. ListOf(text, "SET") = <<>> /\ Split(Section(text, "TO")) = <<>>
        BY <3>1, NothingListed
      <3>3. Len(b.set) = 0
        BY <1>1, <2>2
      <3> QED
        BY <3>2, <3>3
    <2> QED
      BY <2>1, <2>2
  <1>13. Len(b.set) \in Nat
    BY <1>1, LenProperties
  <1>14. ListOf(text, "SET") \in Seq(ColumnSet) /\ Len(ListOf(text, "SET")) = Len(b.set)
    BY <1>3, <1>12, <1>13 DEF SetFits
  <1>15. ListOf(text, "SET") \o ListOf(text, "UPDATE") = ListOf(text, "SET")
    BY <1>11, <1>14, ConcatEmptySeq
  <1>16. b.batch # <<>> => IsWellFormed(text)
    <2> SUFFICES ASSUME b.batch # <<>> PROVE IsWellFormed(text)
      OBVIOUS
    <2>1. Key \in Range(cs)
      BY <1>1, <1>2, NamesKey DEF cs
    <2>2. cs # <<>>
      BY <1>5, <2>1, ListFacts, LenProperties
    <2>3. N # 0
      BY <1>1, EmptySeq, LenProperties DEF IsBatch
    <2>4. TuplesOf(text) # <<>>
      BY <1>8, <2>3
    <2>5. \A i \in 1 .. Len(TuplesOf(text)) : Len(TuplesOf(text)[i]) = Len(cs)
      BY <1>8
    <2>6. Len(ListOf(text, "SET") \o ListOf(text, "UPDATE")) = Len(Split(Section(text, "TO")))
      BY <1>12, <1>13, <1>14, <1>15
    <2> QED
      BY <1>6, <1>10, <2>2, <2>4, <2>5, <2>6 DEF IsWellFormed
  <1>17. WritesComputed(text) =>
           \E n \in 1 .. Len(b.set) : b.set[n].column \in DOMAIN ComputedFrom
    <2> SUFFICES ASSUME WritesComputed(text)
                 PROVE  \E n \in 1 .. Len(b.set) : b.set[n].column \in DOMAIN ComputedFrom
      OBVIOUS
    <2> DEFINE names == ListOf(text, "SET")
    <2>1. PICK c \in DOMAIN ComputedFrom : c \in Range(names)
      BY <1>15, Zenon DEF WritesComputed
    <2>2. names \in Seq(ColumnSet) /\ Len(names) = Len(b.set)
          /\ \A n \in 1 .. Len(b.set) : names[n] = b.set[n].column
      BY <1>12, <1>14
    <2> HIDE DEF names
    <2>3. PICK n \in 1 .. Len(b.set) : names[n] = c
      BY <2>1, <2>2, ListFacts
    <2> QED
      BY <2>1, <2>2, <2>3
  <1>18. b.conflict = "update" =>
           \A row, i :
             /\ Holds(Section(text, "WHERE"), row, Meant(i)) = Matches(row, Meant(i))
             /\ Assigned(text, row, Meant(i)) = AfterConflict(row, i)
    <2> SUFFICES ASSUME b.conflict = "update", NEW row, NEW i
                 PROVE /\ Holds(Section(text, "WHERE"), row, Meant(i))
                            = Matches(row, Meant(i))
                       /\ Assigned(text, row, Meant(i)) = AfterConflict(row, i)
      OBVIOUS
    <2>1. Section(text, "WHERE") = Bound(b.where)
      BY <1>4, Zenon DEF InsertSays
    <2>2. Assigned(text, row, Meant(i)) = AfterConflict(row, i)
      BY <1>1, <1>3, <1>12, AssignedIsMeant
    <2> QED
      BY <2>1, <2>2, Zenon DEF Matches
  <1>19. InsertReads(text)
    BY <1>6, <1>8, <1>9, <1>16, <1>17, <1>18, Zenon DEF InsertReads
  <1> QED
    BY <1>19 DEF text

(* What the database reads of an update and of a table of values.              *)
FieldsOf(b, i) == [c \in Range(b.fields) |-> OrNone(At(b.batch[i], c))]

LEMMA FieldTuples ==
  ASSUME WriteAssumption, NEW b, IsBatch(b.batch), b.fields \in Seq(ColumnSet), FieldsFit(b),
         NEW text, Section(text, "NAMES") = Bound(Names(b.fields)),
         Section(text, "VALUES") = Bound(Tuples(FieldRows(b)))
  PROVE  /\ Len(TuplesOf(text)) = Len(b.batch) /\ Len(b.batch) \in Nat
         /\ TuplesOf(text) = <<>> <=> b.batch = <<>>
         /\ \A i \in 1 .. Len(b.batch) : Len(TuplesOf(text)[i]) = Len(b.fields)
         /\ ListOf(text, "NAMES") = b.fields
         /\ \A i \in 1 .. Len(b.batch) :
              Named(b.fields, TuplesOf(text)[i]) = FieldsOf(b, i)
  <1> DEFINE cs == b.fields  N == Len(b.batch)  W == Len(cs)
  <1>1. ListOf(text, "NAMES") = cs
    BY NamesListed
  <1>2. AreRows(FieldRows(b), N, W)
    BY FieldRowCells
  <1>3. /\ Len(TuplesOf(text)) = N /\ N \in Nat
        /\ TuplesOf(text) = <<>> <=> N = 0
        /\ \A i \in 1 .. N : /\ Len(TuplesOf(text)[i]) = W
                             /\ \A n \in 1 .. W : TuplesOf(text)[i][n] = Bound(FieldRows(b)[i][n])
    <2> HIDE DEF N, W
    <2> QED
      BY <1>2, TuplesListed
  <1>4. N = 0 <=> b.batch = <<>>
    BY EmptySeq, LenProperties DEF IsBatch
  <1>5. \A i \in 1 .. N : \A n \in 1 .. W :
          ReadCell(cs[n], Bound(FieldRows(b)[i][n])) = OrNone(At(b.batch[i], cs[n]))
    BY FieldRowCells
  <1>6. ASSUME NEW i \in 1 .. N PROVE Named(cs, TuplesOf(text)[i]) = FieldsOf(b, i)
    <2> DEFINE tuple == TuplesOf(text)[i]  value == FieldsOf(b, i)
    <2>1. \A n \in 1 .. W : cs[n] \in Range(cs)
      BY ListFacts
    <2>2. \A n \in 1 .. W : ReadCell(cs[n], tuple[n]) = value[cs[n]]
      BY <1>3, <1>5, <2>1 DEF FieldsOf
    <2>3. value = [c \in Range(cs) |-> value[c]]
      BY DEF FieldsOf
    <2>4. cs \in Seq(ColumnSet)
      OBVIOUS
    <2> HIDE DEF tuple, value, cs
    <2>5. \A n \in 1 .. Len(cs) : ReadCell(cs[n], tuple[n]) = value[cs[n]]
      BY <2>2
    <2>6. \A c \in Range(cs) : Named(cs, tuple)[c] = value[c]
      BY <2>4, <2>5, NamedReads
    <2>7. Named(cs, tuple) = [c \in Range(cs) |-> Named(cs, tuple)[c]]
      BY <2>4, <2>5, NamedReads
    <2>8. Named(cs, tuple) = value
      BY <2>3, <2>6, <2>7
    <2> QED
      BY <2>8 DEF tuple, value
  <1> QED
    BY <1>1, <1>3, <1>4, <1>6

LEMMA FieldsConcat ==
  ASSUME NEW fields \in Seq(ColumnSet)
  PROVE  <<>> \o fields = fields
  BY ConcatEmptySeq

\* The ways an update may leave a row.
WaysOf(r) ==
  IF ObjectsFor(r) = {} THEN {r} ELSE {With(r, builder.batch[i]) : i \in ObjectsFor(r)}

\* One way for each row.
Picked(ways) ==
  {{pick[r] : r \in table} :
     pick \in {f \in [table -> UNION {ways[r] : r \in table}] :
                 \A r \in table : f[r] \in ways[r]}}

UpdateReads(text) ==
  /\ ~Has(text, "INSERT")
  /\ /\ builder.batch # <<>>
     /\ Has(builder.where.parts, "sameKey") => Key \in Range(builder.fields)
     => IsWellFormed(text)
  /\ IsWellFormed(text) => UpdateOutcomes(text) = Picked([r \in table |-> WaysOf(r)])
  /\ WritesComputed(text) => Range(builder.fields) \cap DOMAIN ComputedFrom # {}

LEMMA MatchesTuple ==
  ASSUME WriteAssumption, IsCondition(builder.where), FieldsFit(builder),
         Has(builder.where.parts, "sameKey") => Key \in Range(builder.fields),
         NEW r, NEW i \in 1 .. Len(builder.batch)
  PROVE  Holds(Bound(builder.where), r, FieldsOf(builder, i)) <=> i \in ObjectsFor(r)
  <1> DEFINE w == Bound(builder.where)  o == builder.batch[i]
             t == FieldsOf(builder, i)  whole == [c \in ColumnSet |-> At(o, c)]
  <1>1. Has(w, "sameKey") => t[Key] = whole[Key]
    <2> SUFFICES ASSUME Has(w, "sameKey") PROVE t[Key] = whole[Key]
      OBVIOUS
    <2>1. Has(builder.where.parts, "sameKey")
      BY ConditionReads
    <2>2. Key \in Range(builder.fields) /\ Key \in ColumnSet /\ Key \notin Nullable
      BY <2>1, StoredColumns
    <2>3. IsFit(Key, At(o, Key))
      BY <2>2 DEF FieldsFit
    <2>4. At(o, Key) # Undefined
      BY <2>2, <2>3 DEF IsFit, IsUnfit
    <2>5. t[Key] = OrNone(At(o, Key)) /\ whole[Key] = At(o, Key)
      BY <2>2 DEF FieldsOf
    <2> QED
      BY <2>4, <2>5 DEF OrNone
  <1>2. i \in ObjectsFor(r) <=> Holds(w, r, whole)
    BY Zenon DEF ObjectsFor, Matches
  <1> HIDE DEF w, t, whole
  <1>3. Holds(w, r, t) <=> Holds(w, r, whole)
    BY <1>1 DEF Holds
  <1> QED
    BY <1>2, <1>3 DEF w, t

\* The tables an update may leave, by its lists and its condition.
OutcomesBy(names, targets, sources, tuplesRead, where) ==
  LET tuples  == {Named(names, tuplesRead[i]) : i \in 1..Len(tuplesRead)}
      MatchesOf(r) == {t \in tuples : Holds(where, r, t)}
      Updated(r, t) ==
        Row([c \in Stored |->
               IF c \in Range(targets)
               THEN t[sources[CHOOSE n \in 1..Len(targets) : targets[n] = c]]
               ELSE r[c]])
      Ways(r) == IF MatchesOf(r) = {} THEN {r} ELSE {Updated(r, t) : t \in MatchesOf(r)}
  IN  {{pick[r] : r \in table} :
         pick \in {f \in [table -> UNION {Ways(r) : r \in table}] :
                     \A r \in table : f[r] \in Ways(r)}}

LEMMA UpdateRead ==
  ASSUME WriteAssumption, IsBuilder(builder), builder.kind = "update", ~Throws(builder)
  PROVE  UpdateReads(Printed(builder))
  <1> DEFINE b == builder  text == Printed(b)  cs == b.fields  w == Bound(b.where)
             N == Len(b.batch)
  <1>1. IsBatch(b.batch) /\ cs \in Seq(ColumnSet) /\ IsCondition(b.where)
    BY DEF IsBuilder
  <1>2. FieldsFit(b) /\ cs # <<>>
    BY <1>1, FieldsFitting
  <1>3. UpdateSays(text, Bound(Names(cs)), Bound(Tuples(FieldRows(b))), w, b.where)
    BY UpdatePrinted
  <1> HIDE DEF text
  <1>4. /\ Section(text, "UPDATE") = Bound(Names(cs)) /\ Section(text, "TO") = Bound(Names(cs))
        /\ Section(text, "NAMES") = Bound(Names(cs))
        /\ Section(text, "VALUES") = Bound(Tuples(FieldRows(b)))
        /\ Section(text, "WHERE") = w /\ Section(text, "SET") = <<>>
        /\ ~Has(text, "INSERT") /\ Has(text, "UPDATE")
        /\ Has(text, "sameKey") <=> Has(b.where.parts, "sameKey")
    BY <1>3, Zenon DEF UpdateSays
  <1>5. /\ Len(TuplesOf(text)) = N /\ N \in Nat
        /\ TuplesOf(text) = <<>> <=> b.batch = <<>>
        /\ \A i \in 1 .. N : Len(TuplesOf(text)[i]) = Len(cs)
        /\ ListOf(text, "NAMES") = cs
        /\ \A i \in 1 .. N : Named(cs, TuplesOf(text)[i]) = FieldsOf(b, i)
    BY <1>1, <1>2, <1>4, FieldTuples
  <1>6. ListOf(text, "UPDATE") = cs /\ ListOf(text, "TO") = cs /\ ListOf(text, "SET") = <<>>
    <2>1. ListOf(text, "UPDATE") = cs
      BY <1>1, <1>4, NamesListed
    <2>2. ListOf(text, "TO") = cs
      BY <1>1, <1>4, NamesListed
    <2>3. ListOf(text, "SET") = <<>>
      BY <1>4, NothingListed
    <2> QED
      BY <2>1, <2>2, <2>3
  <1>7. ListOf(text, "SET") \o ListOf(text, "UPDATE") = cs
    BY <1>1, <1>6, FieldsConcat
  <1>8. Len(Split(Section(text, "TO"))) = Len(cs)
    BY <1>1, <1>4, NamesRead
  <1>9. /\ b.batch # <<>> /\ (Has(b.where.parts, "sameKey") => Key \in Range(cs))
        => IsWellFormed(text)
    <2> SUFFICES ASSUME b.batch # <<>>, Has(b.where.parts, "sameKey") => Key \in Range(cs)
                 PROVE  IsWellFormed(text)
      OBVIOUS
    <2>1. TuplesOf(text) # <<>> /\ cs # <<>>
      BY <1>2, <1>5
    <2>2. \A i \in 1 .. Len(TuplesOf(text)) : Len(TuplesOf(text)[i]) = Len(cs)
      BY <1>5
    <2> QED
      BY <1>4, <1>5, <1>7, <1>8, <2>1, <2>2 DEF IsWellFormed
  <1>10. WritesComputed(text) => Range(cs) \cap DOMAIN ComputedFrom # {}
    BY <1>7 DEF WritesComputed
  <1>11. ASSUME IsWellFormed(text)
         PROVE  UpdateOutcomes(text) = Picked([r \in table |-> WaysOf(r)])
    <2> DEFINE tuple(i) == Named(cs, TuplesOf(text)[i])
               tuples == {tuple(i) : i \in 1 .. Len(TuplesOf(text))}
               MatchesOf(r) == {t \in tuples : Holds(w, r, t)}
               Updated(r, t) ==
                 Row([c \in Stored |->
                        IF c \in Range(cs)
                        THEN t[cs[CHOOSE n \in 1 .. Len(cs) : cs[n] = c]]
                        ELSE r[c]])
               Ways(r) == IF MatchesOf(r) = {} THEN {r}
                          ELSE {Updated(r, t) : t \in MatchesOf(r)}
    <2>1. UpdateOutcomes(text) =
            {{pick[r] : r \in table} :
               pick \in {f \in [table -> UNION {Ways(r) : r \in table}] :
                           \A r \in table : f[r] \in Ways(r)}}
      <3>1. UpdateOutcomes(text)
              = OutcomesBy(ListOf(text, "NAMES"), ListOf(text, "UPDATE"), ListOf(text, "TO"),
                           TuplesOf(text), Section(text, "WHERE"))
        BY Zenon DEF UpdateOutcomes, OutcomesBy
      <3>2. UpdateOutcomes(text) = OutcomesBy(cs, cs, cs, TuplesOf(text), w)
        BY <1>4, <1>5, <1>6, <3>1
      <3> QED
        BY <3>2, Zenon DEF OutcomesBy
    <2>2. Has(b.where.parts, "sameKey") => Key \in Range(cs)
      BY <1>4, <1>5, <1>11 DEF IsWellFormed
    <2>3. \A i \in 1 .. N : tuple(i) = FieldsOf(b, i)
      BY <1>5
    <2>4. tuples = {FieldsOf(b, i) : i \in 1 .. N}
      BY <1>5, <2>3
    <2>5. ASSUME NEW r PROVE MatchesOf(r) = {FieldsOf(b, i) : i \in ObjectsFor(r)}
      <3>1. \A i \in 1 .. N : Holds(w, r, FieldsOf(b, i)) <=> i \in ObjectsFor(r)
        BY <1>1, <1>2, <2>2, MatchesTuple
      <3>2. ObjectsFor(r) \subseteq 1 .. N
        BY DEF ObjectsFor
      <3> HIDE DEF tuples, w
      <3> QED
        BY <2>4, <3>1, <3>2
    <2>6. ASSUME NEW r, NEW i \in 1 .. N
          PROVE Updated(r, FieldsOf(b, i)) = With(r, b.batch[i])
      <3> DEFINE t == FieldsOf(b, i)  o == b.batch[i]
                 new(c) == IF c \in Range(cs) THEN t[cs[CHOOSE n \in 1 .. Len(cs) : cs[n] = c]]
                           ELSE r[c]
                 meant(c) == IF c \in Range(cs) THEN OrNone(At(o, c)) ELSE r[c]
      <3>1. ASSUME NEW c \in Stored PROVE new(c) = meant(c)
        <4>1. CASE c \in Range(cs)
          <5>1. \E n \in 1 .. Len(cs) : cs[n] = c
            BY <1>1, <4>1, ListFacts
          <5>2. cs[CHOOSE n \in 1 .. Len(cs) : cs[n] = c] = c
            BY <5>1
          <5>3. t[c] = OrNone(At(o, c))
            BY <4>1 DEF FieldsOf
          <5>4. new(c) = t[c]
            BY <4>1, <5>2
          <5> QED
            BY <4>1, <5>3, <5>4
        <4>2. CASE c \notin Range(cs)
          BY <4>2
        <4> QED
          BY <4>1, <4>2
      <3>2. Updated(r, t) = Row([c \in Stored |-> new(c)])
        OBVIOUS
      <3>3. With(r, o) = Row([c \in Stored |-> meant(c)])
        BY Zenon DEF With
      <3> HIDE DEF new, meant, Updated, t, o
      <3>4. [c \in Stored |-> new(c)] = [c \in Stored |-> meant(c)]
        BY <3>1
      <3>5. Updated(r, t) = With(r, o)
        BY <3>2, <3>3, <3>4
      <3> QED
        BY <3>5 DEF t, o
    <2> HIDE DEF MatchesOf, Updated
    <2>7. ASSUME NEW r \in table PROVE Ways(r) = WaysOf(r)
      <3>1. ObjectsFor(r) \subseteq 1 .. N
        BY DEF ObjectsFor
      <3>2. MatchesOf(r) = {} <=> ObjectsFor(r) = {}
        BY <2>5
      <3>3. {Updated(r, t) : t \in MatchesOf(r)} = {Updated(r, FieldsOf(b, i)) : i \in ObjectsFor(r)}
        BY <2>5
      <3>4. {Updated(r, FieldsOf(b, i)) : i \in ObjectsFor(r)}
              = {With(r, b.batch[i]) : i \in ObjectsFor(r)}
        BY <2>6, <3>1
      <3> QED
        BY <3>2, <3>3, <3>4 DEF WaysOf
    <2> DEFINE ways == [r \in table |-> WaysOf(r)]
    <2>8. \A r \in table : Ways(r) = ways[r]
      BY <2>7
    <2> HIDE DEF Ways, ways
    <2>9. UNION {Ways(r) : r \in table} = UNION {ways[r] : r \in table}
      BY <2>8
    <2>10. {f \in [table -> UNION {Ways(r) : r \in table}] : \A r \in table : f[r] \in Ways(r)}
             = {f \in [table -> UNION {ways[r] : r \in table}] : \A r \in table : f[r] \in ways[r]}
      BY <2>8, <2>9
    <2>11. UpdateOutcomes(text) = Picked(ways)
      BY <2>1, <2>10, Zenon DEF Picked
    <2> QED
      BY <2>11 DEF ways
  <1>12. UpdateReads(text)
    BY <1>4, <1>9, <1>10, <1>11, Zenon DEF UpdateReads
  <1> QED
    BY <1>12 DEF text

LEMMA ValuesRead ==
  ASSUME WriteAssumption, IsBuilder(builder), builder.kind = "values", ~Throws(builder)
  PROVE  LET text == Printed(builder) IN
         /\ builder.batch # <<>> /\ builder.fields # <<>> => IsRunnable(text)
         /\ [i \in 1 .. Len(TuplesOf(text)) |-> Named(ListOf(text, "NAMES"), TuplesOf(text)[i])]
              = [i \in 1 .. Len(builder.batch) |->
                   [c \in Range(builder.fields) |-> OrNone(At(builder.batch[i], c))]]
  <1> DEFINE b == builder  text == Printed(b)  cs == b.fields  N == Len(b.batch)
  <1>1. IsBatch(b.batch) /\ cs \in Seq(ColumnSet)
    BY DEF IsBuilder
  <1>2. FieldsFit(b)
    BY <1>1, FieldsFitting
  <1>3. ValuesSay(text, Bound(Names(cs)), Bound(Tuples(FieldRows(b))))
    BY ValuesPrinted
  <1> HIDE DEF text
  <1>4. /\ Section(text, "NAMES") = Bound(Names(cs))
        /\ Section(text, "VALUES") = Bound(Tuples(FieldRows(b)))
        /\ Section(text, "SET") = <<>> /\ Section(text, "UPDATE") = <<>>
        /\ Section(text, "TO") = <<>>
        /\ ~Has(text, "INSERT") /\ ~Has(text, "UPDATE")
    BY <1>3, Zenon DEF ValuesSay
  <1>5. /\ Len(TuplesOf(text)) = N /\ N \in Nat
        /\ TuplesOf(text) = <<>> <=> b.batch = <<>>
        /\ \A i \in 1 .. N : Len(TuplesOf(text)[i]) = Len(cs)
        /\ ListOf(text, "NAMES") = cs
        /\ \A i \in 1 .. N : Named(cs, TuplesOf(text)[i]) = FieldsOf(b, i)
    BY <1>1, <1>2, <1>4, FieldTuples
  <1>6. /\ ListOf(text, "SET") = <<>> /\ ListOf(text, "UPDATE") = <<>>
        /\ Split(Section(text, "TO")) = <<>>
    BY <1>4, NothingListed
  <1>7. b.batch # <<>> /\ cs # <<>> => IsWellFormed(text)
    <2>1. Len(ListOf(text, "SET") \o ListOf(text, "UPDATE")) = Len(Split(Section(text, "TO")))
      BY <1>6
    <2>2. \A i \in 1 .. Len(TuplesOf(text)) : Len(TuplesOf(text)[i]) = Len(cs)
      BY <1>5
    <2> QED
      BY <1>4, <1>5, <2>1, <2>2 DEF IsWellFormed
  <1>8. [i \in 1 .. Len(TuplesOf(text)) |-> Named(ListOf(text, "NAMES"), TuplesOf(text)[i])]
          = [i \in 1 .. N |-> FieldsOf(b, i)]
    BY <1>5
  <1>9. ~WritesComputed(text)
    <2>1. Range(ListOf(text, "SET") \o ListOf(text, "UPDATE")) = {}
      BY <1>6 DEF Range
    <2> QED
      BY <2>1 DEF WritesComputed
  <1> QED
    BY <1>7, <1>8, <1>9 DEF text, FieldsOf, IsRunnable

--------------------------------------------------------------------------------
(* An insert, tuple by tuple.                                                  *)
IsInserting(done, text) ==
  /\ done[0] = [table |-> table, touched |-> {}, ok |-> TRUE]
  /\ \A i \in 1 .. Len(TuplesOf(text)) :
       done[i] = InsertRow(text, done[i - 1], Proposed(text, i))
  /\ InsertOutcomes(text)
       = IF done[Len(TuplesOf(text))].ok THEN {done[Len(TuplesOf(text))].table} ELSE {}

LEMMA InsertingSteps ==
  ASSUME NEW text, Len(TuplesOf(text)) \in Nat
  PROVE  \E done : IsInserting(done, text)
  <1> DEFINE N == Len(TuplesOf(text))
             start == [table |-> table, touched |-> {}, ok |-> TRUE]
             Said(g, n) == IF n = 0 THEN start ELSE InsertRow(text, g[n - 1], Proposed(text, n))
             IsWalk(g, m) == g = [n \in 0 .. m |-> Said(g, n)]
             Walked == {m \in Nat : \E g : IsWalk(g, m)}
             done == CHOOSE g : g = [i \in 0 .. N |-> Said(g, i)]
  <1>1. ASSUME NEW g, NEW h, NEW n \in Nat, \A m \in 0 .. n - 1 : g[m] = h[m]
        PROVE Said(g, n) = Said(h, n)
    <2>1. CASE n = 0
      BY <2>1
    <2>2. CASE n # 0
      <3>1. n - 1 \in 0 .. n - 1
        BY <2>2
      <3>2. g[n - 1] = h[n - 1]
        BY <1>1, <3>1
      <3> QED
        BY <3>2
    <2> QED
      BY <2>1, <2>2
  <1>2. 0 \in Walked
    <2> DEFINE g == [n \in 0 .. 0 |-> start]
    <2>1. IsWalk(g, 0)
      <3>1. \A n \in 0 .. 0 : Said(g, n) = start
        OBVIOUS
      <3> HIDE DEF Said
      <3> QED
        BY <3>1
    <2> HIDE DEF IsWalk, g
    <2> QED
      BY <2>1
  <1>3. ASSUME NEW m \in Nat, m \in Walked PROVE m + 1 \in Walked
    <2>1. PICK g : IsWalk(g, m)
      <3> HIDE DEF IsWalk
      <3> QED
        BY <1>3
    <2> DEFINE h == [n \in 0 .. m + 1 |-> Said(g, n)]
    <2>2. \A n \in 0 .. m : h[n] = g[n]
      <3> HIDE DEF Said
      <3> QED
        BY <2>1
    <2>3. ASSUME NEW n \in 0 .. m + 1 PROVE Said(g, n) = Said(h, n)
      <3>1. \A j \in 0 .. n - 1 : g[j] = h[j]
        <4> HIDE DEF h, Said
        <4> QED
          BY <2>2
      <3> HIDE DEF h, Said
      <3> QED
        BY <3>1, <1>1
    <2>4. h = [n \in 0 .. m + 1 |-> Said(h, n)]
      <3> HIDE DEF Said
      <3> QED
        BY <2>3
    <2> HIDE DEF h
    <2>5. \E k : IsWalk(k, m + 1)
      BY <2>4
    <2> HIDE DEF IsWalk
    <2> QED
      BY <2>5
  <1>4. N \in Walked
    <2> HIDE DEF Walked
    <2> QED
      BY <1>2, <1>3, NatSetInduction
  <1>5. PICK g : IsWalk(g, N)
    <2> HIDE DEF IsWalk
    <2> QED
      BY <1>4
  <1>6. done = [i \in 0 .. N |-> Said(done, i)]
    <2>1. g = [i \in 0 .. N |-> Said(g, i)]
      BY <1>5
    <2> HIDE DEF Said
    <2> QED
      BY <2>1
  <1>7. InsertOutcomes(text) = IF done[N].ok THEN {done[N].table} ELSE {}
    BY Zenon DEF InsertOutcomes
  <1> HIDE DEF done
  <1>8. /\ 0 \in 0 .. N
        /\ \A i \in 1 .. N : i \in 0 .. N /\ i # 0
    OBVIOUS
  <1>9. done[0] = start
    BY <1>6, <1>8
  <1>10. \A i \in 1 .. N : done[i] = InsertRow(text, done[i - 1], Proposed(text, i))
    BY <1>6, <1>8
  <1>11. IsInserting(done, text)
    BY <1>7, <1>9, <1>10 DEF IsInserting
  <1> QED
    BY <1>11

\* The rows whose key an object has.
Taken(rows, i) == {r \in rows : r[Key] = KeyOf(i)}

\* What an i does to the rows and to the keys that were touched.
InsertLeads(text, rows, touched, ok, i) ==
  LET next   == InsertRow(text, [table |-> rows, touched |-> touched, ok |-> ok], Meant(i))
      failed == [table |-> rows, touched |-> touched, ok |-> FALSE]
      taken  == Taken(rows, i)
      old    == CHOOSE r \in taken : TRUE
      new    == AfterConflict(old, i)
  IN  /\ ~ok => next = failed
      /\ ok /\ taken = {} =>
           next = [table |-> rows \cup {Meant(i)},
                   touched |-> touched \cup {KeyOf(i)}, ok |-> TRUE]
      /\ ok /\ taken # {} /\ builder.conflict = "none" => next = failed
      /\ ok /\ taken # {} /\ builder.conflict = "nothing" =>
           next = [table |-> rows, touched |-> touched, ok |-> TRUE]
      /\ ok /\ taken # {} /\ builder.conflict = "update" /\ KeyOf(i) \in touched =>
           next = failed
      /\ ok /\ taken # {} /\ builder.conflict = "update" /\ KeyOf(i) \notin touched =>
           next = IF Matches(old, Meant(i))
                  THEN [table |-> (rows \ {old}) \cup {new},
                        touched |-> touched \cup {new[Key]}, ok |-> TRUE]
                  ELSE [table |-> rows, touched |-> touched, ok |-> TRUE]

LEMMA InsertStep ==
  ASSUME NEW text, InsertReads(text), NEW rows, NEW touched, NEW ok \in BOOLEAN, NEW i,
         builder.conflict \in {"none", "nothing", "update"}
  PROVE  InsertLeads(text, rows, touched, ok, i)
  <1> DEFINE row == Meant(i)
             done   == [table |-> rows, touched |-> touched, ok |-> ok]
             next   == InsertRow(text, done, row)
             failed == [table |-> rows, touched |-> touched, ok |-> FALSE]
             taken  == Taken(rows, i)
             old    == CHOOSE r \in taken : TRUE
             new    == AfterConflict(old, i)
  <1>1. /\ row[Key] = KeyOf(i) /\ taken = {r \in done.table : r[Key] = row[Key]}
        /\ done.table = rows /\ done.touched = touched /\ done.ok = ok
    BY DEF KeyOf, Taken
  <1>2. /\ Has(text, "NOTHING") <=> builder.conflict = "nothing"
        /\ Has(text, "SET") <=> builder.conflict = "update"
        /\ builder.conflict = "update" =>
             /\ Holds(Section(text, "WHERE"), old, row) = Matches(old, row)
             /\ Assigned(text, old, row) = new
    BY Zenon DEF InsertReads
  <1>3. next = CASE ~done.ok -> done
        [] done.ok /\ taken = {} ->
             [done EXCEPT !.table = @ \cup {row}, !.touched = @ \cup {row[Key]}]
        [] done.ok /\ taken # {} /\ Has(text, "NOTHING") -> done
        [] done.ok /\ taken # {} /\ Has(text, "SET") /\ row[Key] \notin done.touched ->
             IF Holds(Section(text, "WHERE"), old, row)
             THEN [done EXCEPT !.table = (@ \ {old}) \cup {Assigned(text, old, row)},
                               !.touched = @ \cup {Assigned(text, old, row)[Key]}]
             ELSE done
        [] OTHER -> [done EXCEPT !.ok = FALSE]
    BY Zenon DEF InsertRow, Taken, KeyOf
  <1>4. [done EXCEPT !.ok = FALSE] = failed /\ (~ok => done = failed)
    <2> DEFINE no == FALSE
    <2>1. [done EXCEPT !.ok = FALSE] = failed
      <3>1. [done EXCEPT !.ok = no] = [table |-> rows, touched |-> touched, ok |-> no]
        <4> HIDE DEF no
        <4> QED
          OBVIOUS
      <3> QED
        BY <3>1, Zenon DEF no
    <2>2. ok = FALSE => done = failed
      OBVIOUS
    <2> QED
      BY <2>1, <2>2
  <1>5. ASSUME ok
        PROVE [done EXCEPT !.table = @ \cup {row}, !.touched = @ \cup {row[Key]}]
               = [table |-> rows \cup {row}, touched |-> touched \cup {row[Key]}, ok |-> TRUE]
    <2>1. ok = TRUE
      BY <1>5
    <2> DEFINE r == rows \cup {row}  t == touched \cup {row[Key]}
    <2>2. [done EXCEPT !.table = r, !.touched = t] = [table |-> r, touched |-> t, ok |-> ok]
      <3> HIDE DEF r, t
      <3>1. [done EXCEPT !.table = r] = [table |-> r, touched |-> touched, ok |-> ok]
        OBVIOUS
      <3>2. [[table |-> r, touched |-> touched, ok |-> ok] EXCEPT !.touched = t]
              = [table |-> r, touched |-> t, ok |-> ok]
        OBVIOUS
      <3>3. [done EXCEPT !.table = r, !.touched = t]
              = [[done EXCEPT !.table = r] EXCEPT !.touched = t]
        OBVIOUS
      <3> QED
        BY <3>1, <3>2, <3>3
    <2>3. [done EXCEPT !.table = @ \cup {row}, !.touched = @ \cup {row[Key]}]
            = [done EXCEPT !.table = r, !.touched = t]
      BY <1>1
    <2> QED
      BY <2>1, <2>2, <2>3
  <1>6. ASSUME ok, NEW e
        PROVE [done EXCEPT !.table = (@ \ {old}) \cup {e}, !.touched = @ \cup {e[Key]}]
               = [table |-> (rows \ {old}) \cup {e}, touched |-> touched \cup {e[Key]}, ok |-> TRUE]
    <2>1. ok = TRUE
      BY <1>6
    <2> DEFINE r == (rows \ {old}) \cup {e}  t == touched \cup {e[Key]}
    <2>2. [done EXCEPT !.table = r, !.touched = t] = [table |-> r, touched |-> t, ok |-> ok]
      <3> HIDE DEF r, t
      <3>1. [done EXCEPT !.table = r] = [table |-> r, touched |-> touched, ok |-> ok]
        OBVIOUS
      <3>2. [[table |-> r, touched |-> touched, ok |-> ok] EXCEPT !.touched = t]
              = [table |-> r, touched |-> t, ok |-> ok]
        OBVIOUS
      <3>3. [done EXCEPT !.table = r, !.touched = t]
              = [[done EXCEPT !.table = r] EXCEPT !.touched = t]
        OBVIOUS
      <3> QED
        BY <3>1, <3>2, <3>3
    <2>3. [done EXCEPT !.table = (@ \ {old}) \cup {e}, !.touched = @ \cup {e[Key]}]
            = [done EXCEPT !.table = r, !.touched = t]
      BY <1>1
    <2> QED
      BY <2>1, <2>2, <2>3
  <1>7. ok => done = [table |-> rows, touched |-> touched, ok |-> TRUE]
    <2>1. ok = TRUE => done = [table |-> rows, touched |-> touched, ok |-> TRUE]
      OBVIOUS
    <2> QED
      BY <2>1
  <1>8. /\ ~ok => next = failed
        /\ ok /\ taken = {} =>
             next = [table |-> rows \cup {row}, touched |-> touched \cup {row[Key]}, ok |-> TRUE]
        /\ ok /\ taken # {} /\ builder.conflict = "none" => next = failed
        /\ ok /\ taken # {} /\ builder.conflict = "nothing" => next = done
        /\ ok /\ taken # {} /\ builder.conflict = "update" /\ row[Key] \in touched => next = failed
        /\ ok /\ taken # {} /\ builder.conflict = "update" /\ row[Key] \notin touched =>
             next = IF Matches(old, row)
                    THEN [table |-> (rows \ {old}) \cup {new},
                          touched |-> touched \cup {new[Key]}, ok |-> TRUE]
                    ELSE done
    BY <1>1, <1>2, <1>3, <1>4, <1>5, <1>6
  <1>9. row[Key] = KeyOf(i)
    BY <1>1
  <1> DEFINE plain == [table |-> rows, touched |-> touched, ok |-> TRUE]
  <1> HIDE DEF row, done, next, failed, taken, old, new, plain
  <1>10. /\ ~ok => next = failed
         /\ ok /\ taken = {} =>
              next = [table |-> rows \cup {row}, touched |-> touched \cup {KeyOf(i)}, ok |-> TRUE]
         /\ ok /\ taken # {} /\ builder.conflict = "none" => next = failed
         /\ ok /\ taken # {} /\ builder.conflict = "nothing" => next = plain
         /\ ok /\ taken # {} /\ builder.conflict = "update" /\ KeyOf(i) \in touched =>
              next = failed
         /\ ok /\ taken # {} /\ builder.conflict = "update" /\ KeyOf(i) \notin touched =>
              next = IF Matches(old, row)
                     THEN [table |-> (rows \ {old}) \cup {new},
                           touched |-> touched \cup {new[Key]}, ok |-> TRUE]
                     ELSE plain
    BY <1>7, <1>8, <1>9 DEF plain
  <1> QED
    BY <1>10, Zenon DEF InsertLeads, row, done, next, failed, taken, old, new, plain

\* What an insert has done to the table after its first i objects.
Seen(i) == {KeyOf(j) : j \in 1 .. i}
Found   == {r[Key] : r \in table}

Left(seen, r) == IF r[Key] \in seen THEN Kept(r) ELSE r

Expected(seen) ==
  {Left(seen, r) : r \in table} \cup {Meant(First(k)) : k \in seen \ Found}

--------------------------------------------------------------------------------
(* The objects of an insert, by key, and the table they leave.                 *)

LEMMA FirstObject ==
  ASSUME Len(builder.batch) \in Nat, NEW i \in 1 .. Len(builder.batch)
  PROVE  LET k == KeyOf(i) IN
         /\ ObjectsOf(k) # {} /\ KeyOf(First(k)) = k
         /\ \E m \in 1 .. i : First(k) = m /\ KeyOf(m) = k
         /\ k \notin Seen(i - 1) => First(k) = i
  <1> DEFINE k == KeyOf(i)  S == ObjectsOf(k)
  <1>1. S \in SUBSET Nat /\ i \in S /\ S \subseteq 1 .. Len(builder.batch)
    BY DEF ObjectsOf
  <1>2. PICK x \in S : \A y \in S : x <= y
    BY <1>1, Minimum
  <1>3. Min(S) \in S /\ \A y \in S : Min(S) <= y
    BY <1>2 DEF Min
  <1> DEFINE m == Min(S)
  <1>4. m \in 1 .. i /\ KeyOf(m) = k
    BY <1>1, <1>3 DEF ObjectsOf
  <1>5. First(k) = m
    BY DEF First
  <1> HIDE DEF m, S, k
  <1>6. ASSUME k \notin Seen(i - 1) PROVE m = i
    <2>1. m \notin 1 .. i - 1
      BY <1>4, <1>6 DEF Seen
    <2> QED
      BY <1>4, <2>1
  <1>7. S # {}
    BY <1>1
  <1> QED
    BY <1>4, <1>5, <1>6, <1>7 DEF k, S

LEMMA FirstOfKey ==
  ASSUME Len(builder.batch) \in Nat, NEW k, ObjectsOf(k) # {}
  PROVE  /\ KeyOf(First(k)) = k
         /\ \E m \in 1 .. Len(builder.batch) :
              First(k) = m /\ KeyOf(m) = k
  <1>1. PICK i \in 1 .. Len(builder.batch) : KeyOf(i) = k
    BY DEF ObjectsOf
  <1>2. KeyOf(First(k)) = k
    BY <1>1, FirstObject
  <1>3. \E m \in 1 .. i : First(k) = m /\ KeyOf(m) = k
    BY <1>1, FirstObject
  <1> QED
    BY <1>2, <1>3

LEMMA RowAt ==
  ASSUME NEW f, NEW c \in Stored
  PROVE  Row(f)[c] = f[c]
  BY DEF Row, Stored

LEMMA KeptKey ==
  ASSUME WriteAssumption, Len(builder.batch) \in Nat, IsSet(builder.set),
         \A n \in 1 .. Len(builder.set) : SetFits(builder.set[n]), ~MovesKeys, NEW r
  PROVE  Kept(r)[Key] = r[Key]
  <1> DEFINE k == r[Key]  o == First(k)  e == Meant(o)
  <1>1. CASE Kept(r) = r
    BY <1>1
  <1>2. CASE Kept(r) # r
    <2>1. Kept(r) = AfterConflict(r, o) /\ ObjectsOf(k) # {}
      BY <1>2 DEF Kept
    <2>2. e[Key] = k
      BY <2>1, FirstOfKey DEF KeyOf
    <2>3. AfterConflict(r, o) = Row([c \in Stored |-> LeftIn(c, r, e)])
      BY ConflictLeaves
    <2>4. Key \in Stored
      BY StoredColumns
    <2> HIDE DEF e, o
    <2>5. Kept(r)[Key] = LeftIn(Key, r, e)
      BY <2>1, <2>3, <2>4, RowAt
    <2>6. LeftIn(Key, r, e) = k
      <3>1. CASE AssignmentsOf(Key) = {}
        BY <3>1 DEF LeftIn
      <3>2. CASE AssignmentsOf(Key) # {}
        <4>1. PICK n \in AssignmentsOf(Key) : TRUE
          BY <3>2
        <4> DEFINE a == builder.set[n]
        <4>2. Min(AssignmentsOf(Key)) = n /\ n \in 1 .. Len(builder.set) /\ a.column = Key
          BY <4>1, OneAssignment DEF AssignmentsOf
        <4>3. LeftIn(Key, r, e) = AssignedValue(a, r, e)
          BY <3>2, <4>2 DEF LeftIn
        <4>4. a.expression = "excluded" \/ a.expression = "orExcluded"
          BY <4>2 DEF MovesKeys, SameColumn
        <4> HIDE DEF a
        <4>5. CASE a.expression = "excluded"
          BY <2>2, <4>2, <4>3, <4>5 DEF AssignedValue, ValueOf
        <4>6. CASE a.expression = "orExcluded"
          BY <2>2, <4>2, <4>3, <4>6 DEF AssignedValue, ValueOf
        <4> QED
          BY <4>4, <4>5, <4>6
      <3> QED
        BY <3>1, <3>2
    <2> QED
      BY <2>5, <2>6
  <1> QED
    BY <1>1, <1>2

\* The rows that have the key of an object.
LEMMA TakenRows ==
  ASSUME IsTable(table), \A r \in table : Kept(r)[Key] = r[Key], NEW seen,
         \A k \in seen : KeyOf(First(k)) = k, NEW i
  PROVE  LET k == KeyOf(i)  taken == Taken(Expected(seen), i) IN
         /\ k \notin Found /\ k \notin seen => taken = {}
         /\ k \in seen => taken # {}
         /\ \A r \in table : r[Key] = k => taken = {Left(seen, r)}
  <1> DEFINE k == KeyOf(i)  taken == Taken(Expected(seen), i)
  <1>1. \A r \in table : Left(seen, r)[Key] = r[Key]
    BY DEF Left
  <1>2. \A j \in seen : Meant(First(j))[Key] = j
    BY DEF KeyOf
  <1> HIDE DEF k
  <1>3. taken = {x \in Expected(seen) : x[Key] = k}
    BY DEF Taken, k
  <1> HIDE DEF taken
  <1>4. \A x \in Expected(seen) : \/ \E r \in table : x = Left(seen, r) /\ x[Key] = r[Key]
                                 \/ \E j \in seen \ Found : x = Meant(First(j)) /\ x[Key] = j
    BY <1>1, <1>2 DEF Expected
  <1>5. k \notin Found /\ k \notin seen => taken = {}
    BY <1>3, <1>4 DEF Found
  <1>6. ASSUME NEW r \in table, r[Key] = k PROVE taken = {Left(seen, r)}
    <2>1. Left(seen, r) \in taken
      BY <1>1, <1>3, <1>6 DEF Expected
    <2>2. k \in Found
      BY <1>6 DEF Found
    <2>3. ASSUME NEW x \in taken PROVE x = Left(seen, r)
      <3>1. PICK s \in table : x = Left(seen, s) /\ x[Key] = s[Key]
        BY <1>3, <1>4, <2>2
      <3>2. s = r
        BY <1>3, <1>6, <3>1 DEF IsTable
      <3> QED
        BY <3>1, <3>2
    <2> QED
      BY <2>1, <2>3
  <1>7. ASSUME k \in seen PROVE taken # {}
    <2>1. CASE k \in Found
      BY <1>6, <2>1 DEF Found
    <2>2. CASE k \notin Found
      <3>1. Meant(First(k)) \in Expected(seen)
        BY <1>7, <2>2 DEF Expected
      <3> QED
        BY <1>2, <1>3, <1>7, <3>1
    <2> QED
      BY <2>1, <2>2
  <1> QED
    BY <1>5, <1>6, <1>7 DEF k, taken

LEMMA SeenStep ==
  ASSUME NEW i \in Nat, i # 0
  PROVE  Seen(i) = Seen(i - 1) \cup {KeyOf(i)} /\ Seen(0) = {}
  <1>1. 1 .. i = (1 .. i - 1) \cup {i} /\ 1 .. 0 = {}
    OBVIOUS
  <1> QED
    BY <1>1 DEF Seen

LEMMA ExpectNew ==
  ASSUME NEW seen, NEW k, k \notin Found
  PROVE  Expected(seen \cup {k}) = Expected(seen) \cup {Meant(First(k))}
  <1>1. \A r \in table : Left(seen \cup {k}, r) = Left(seen, r)
    BY DEF Left, Found
  <1>2. (seen \cup {k}) \ Found = (seen \ Found) \cup {k}
    OBVIOUS
  <1> QED
    BY <1>1, <1>2 DEF Expected

LEMMA ExpectFound ==
  ASSUME IsTable(table), \A r \in table : Kept(r)[Key] = r[Key], NEW seen,
         \A k \in seen : KeyOf(First(k)) = k, NEW r \in table, r[Key] \notin seen
  PROVE  Expected(seen \cup {r[Key]}) = (Expected(seen) \ {r}) \cup {Kept(r)}
  <1> DEFINE k == r[Key]  all == seen \cup {k}
  <1>1. Left(seen, r) = r /\ Left(all, r) = Kept(r)
    BY DEF Left
  <1>2. \A s \in table : s # r => /\ s[Key] # k /\ Left(all, s) = Left(seen, s)
                                  /\ Left(seen, s)[Key] = s[Key]
    BY DEF Left, IsTable
  <1>3. \A j \in seen : Meant(First(j))[Key] = j /\ j # k
    BY DEF KeyOf
  <1>4. all \ Found = seen \ Found
    BY DEF Found
  <1> HIDE DEF all
  <1>5. Expected(all) \subseteq (Expected(seen) \ {r}) \cup {Kept(r)}
    <2> SUFFICES ASSUME NEW x \in Expected(all), x # Kept(r)
                 PROVE  x \in Expected(seen) /\ x # r
      OBVIOUS
    <2>1. CASE \E s \in table : x = Left(all, s)
      BY <1>1, <1>2, <2>1 DEF Expected
    <2>2. CASE \E j \in all \ Found : x = Meant(First(j))
      BY <1>3, <1>4, <2>2 DEF Expected
    <2> QED
      BY <2>1, <2>2 DEF Expected
  <1>6. (Expected(seen) \ {r}) \cup {Kept(r)} \subseteq Expected(all)
    <2>1. Kept(r) \in Expected(all)
      BY <1>1 DEF Expected
    <2>2. ASSUME NEW x \in Expected(seen), x # r PROVE x \in Expected(all)
      BY <1>1, <1>2, <1>4, <2>2 DEF Expected
    <2> QED
      BY <2>1, <2>2
  <1> QED
    BY <1>5, <1>6 DEF all

\* What the objects alone make an insert fail for.
Repeats  == \E i, j \in 1 .. Len(builder.batch) :
              i # j /\ KeyOf(i) = KeyOf(j)
Takes    == \E i \in 1 .. Len(builder.batch), r \in table : KeyOf(i) = r[Key]
IsBarred == \/ builder.conflict = "none" /\ (Repeats \/ Takes)
            \/ builder.conflict = "update" /\ Repeats

InsertedSoFar(rows, touched, ok, i) ==
  /\ ok \in BOOLEAN
  /\ ok => /\ rows = Expected(Seen(i))
           /\ touched \subseteq Seen(i) /\ Seen(i) \ Found \subseteq touched
           /\ \A r \in table :
                /\ builder.conflict = "update" /\ r[Key] \in Seen(i)
                /\ Matches(r, Meant(First(r[Key])))
                => r[Key] \in touched
  /\ ~IsBarred => ok

\* An insert of objects that keeps the keys of rows, its conditions read.
IsPlainInsert ==
  /\ builder.conflict \in {"none", "nothing", "update"}
  /\ Len(builder.batch) \in Nat
  /\ IsTable(table) /\ \A r \in table : Kept(r)[Key] = r[Key]
  /\ \A r, x, y : Matches(r, x) <=> Matches(r, y)

LEMMA SeenKeys ==
  ASSUME Len(builder.batch) \in Nat, NEW i \in 0 .. Len(builder.batch)
  PROVE  \A k \in Seen(i) : KeyOf(First(k)) = k /\ ObjectsOf(k) # {}
  <1> TAKE k \in Seen(i)
  <1>1. PICK j \in 1 .. i : k = KeyOf(j)
    BY DEF Seen
  <1>2. j \in 1 .. Len(builder.batch)
    OBVIOUS
  <1> QED
    BY <1>1, <1>2, FirstObject

Continues(text, rows, touched, ok, i) ==
  \E rows2, touched2, ok2 :
    /\ InsertRow(text, [table |-> rows, touched |-> touched, ok |-> ok], Meant(i))
         = [table |-> rows2, touched |-> touched2, ok |-> ok2]
    /\ InsertedSoFar(rows2, touched2, ok2, i)

LEMMA InsertedNext ==
  ASSUME NEW text, InsertReads(text), IsPlainInsert, NEW i \in 1 .. Len(builder.batch),
         NEW rows, NEW touched, NEW ok, InsertedSoFar(rows, touched, ok, i - 1)
  PROVE  Continues(text, rows, touched, ok, i)
  <1> SUFFICES \E rows2, touched2, ok2 :
                 /\ InsertRow(text, [table |-> rows, touched |-> touched, ok |-> ok],
                              Meant(i))
                      = [table |-> rows2, touched |-> touched2, ok |-> ok2]
                 /\ InsertedSoFar(rows2, touched2, ok2, i)
    BY DEF Continues
  <1> DEFINE k == KeyOf(i)  seen == Seen(i - 1)
             done   == [table |-> rows, touched |-> touched, ok |-> ok]
             next   == InsertRow(text, done, Meant(i))
             plain  == [table |-> rows, touched |-> touched, ok |-> TRUE]
             failed == [table |-> rows, touched |-> touched, ok |-> FALSE]
             taken  == Taken(rows, i)
             old    == CHOOSE r \in taken : TRUE
             new    == AfterConflict(old, i)
  <1>1. /\ builder.conflict \in {"none", "nothing", "update"}
        /\ Len(builder.batch) \in Nat /\ IsTable(table)
        /\ \A r \in table : Kept(r)[Key] = r[Key]
        /\ \A r, x, y : Matches(r, x) <=> Matches(r, y)
    BY DEF IsPlainInsert
  <1>2. /\ i - 1 \in 0 .. Len(builder.batch) /\ i \in Nat /\ i # 0
        /\ i \in 0 .. Len(builder.batch)
    BY <1>1
  <1>3. Seen(i) = seen \cup {k}
    BY <1>2, SeenStep
  <1>4. \A j \in seen : KeyOf(First(j)) = j
    BY <1>1, <1>2, SeenKeys
  <1>5. k \notin seen => First(k) = i
    BY <1>1, FirstObject
  <1>6. /\ ok \in BOOLEAN
        /\ ok => /\ rows = Expected(seen)
                 /\ touched \subseteq seen /\ seen \ Found \subseteq touched
                 /\ \A r \in table :
                      /\ builder.conflict = "update" /\ r[Key] \in seen
                      /\ Matches(r, Meant(First(r[Key])))
                      => r[Key] \in touched
        /\ ~IsBarred => ok
    BY DEF InsertedSoFar
  <1>7. /\ ~ok => next = failed
        /\ ok /\ taken = {} =>
             next = [table |-> rows \cup {Meant(i)}, touched |-> touched \cup {k}, ok |-> TRUE]
        /\ ok /\ taken # {} /\ builder.conflict = "none" => next = failed
        /\ ok /\ taken # {} /\ builder.conflict = "nothing" => next = plain
        /\ ok /\ taken # {} /\ builder.conflict = "update" /\ k \in touched => next = failed
        /\ ok /\ taken # {} /\ builder.conflict = "update" /\ k \notin touched =>
             next = IF Matches(old, Meant(i))
                    THEN [table |-> (rows \ {old}) \cup {new},
                          touched |-> touched \cup {new[Key]}, ok |-> TRUE]
                    ELSE plain
    <2>1. builder.conflict \in {"none", "nothing", "update"} /\ ok \in BOOLEAN
      BY <1>1, <1>6
    <2>2. InsertLeads(text, rows, touched, ok, i)
      BY <2>1, InsertStep
    <2> QED
      BY <2>2, Zenon DEF InsertLeads
  <1>8. ok => /\ k \notin Found /\ k \notin seen => taken = {}
              /\ k \in seen => taken # {}
              /\ \A r \in table : r[Key] = k => taken = {Left(seen, r)}
    BY <1>1, <1>4, <1>6, TakenRows
  <1>9. ASSUME IsBarred PROVE InsertedSoFar(rows, touched, FALSE, i)
    BY <1>9, Zenon DEF InsertedSoFar
  <1>10. k \in seen => Repeats
    <2> SUFFICES ASSUME k \in seen PROVE Repeats
      OBVIOUS
    <2>1. PICK j \in 1 .. i - 1 : KeyOf(j) = k
      BY DEF Seen
    <2>2. j \in 1 .. Len(builder.batch) /\ j # i
      BY <1>1
    <2> QED
      BY <2>1, <2>2 DEF Repeats
  <1>11. k \in Found => Takes
    BY DEF Found, Takes
  <1> HIDE DEF k, seen, next, taken, failed, plain, done, old, new
  <1>12. CASE ~ok
    <2>1. IsBarred
      BY <1>6, <1>12
    <2>2. next = failed
      BY <1>7, <1>12
    <2> QED
      BY <1>9, <2>1, <2>2, Zenon DEF next, failed, done
  <1>13. CASE ok /\ k \notin Found /\ k \notin seen
    <2>1. next = [table |-> rows \cup {Meant(i)}, touched |-> touched \cup {k}, ok |-> TRUE]
      BY <1>7, <1>8, <1>13
    <2>2. rows \cup {Meant(i)} = Expected(Seen(i))
      BY <1>3, <1>5, <1>6, <1>13, ExpectNew
    <2>3. /\ touched \cup {k} \subseteq Seen(i) /\ Seen(i) \ Found \subseteq touched \cup {k}
          /\ \A r \in table :
                /\ builder.conflict = "update" /\ r[Key] \in Seen(i)
                /\ Matches(r, Meant(First(r[Key])))
                => r[Key] \in touched \cup {k}
      BY <1>3, <1>6, <1>13
    <2>4. InsertedSoFar(rows \cup {Meant(i)}, touched \cup {k}, TRUE, i)
      BY <2>2, <2>3, Zenon DEF InsertedSoFar
    <2> QED
      BY <2>1, <2>4, Zenon DEF next, done
  <1>14. CASE ok /\ taken # {} /\ builder.conflict = "none"
    <2>1. next = failed
      BY <1>7, <1>14
    <2>2. k \in Found \/ k \in seen
      BY <1>8, <1>14
    <2>3. IsBarred
      BY <1>10, <1>11, <1>14, <2>2 DEF IsBarred
    <2> QED
      BY <1>9, <2>1, <2>3, Zenon DEF next, failed, done
  <1>15. \A r : builder.conflict # "update" => Kept(r) = r
    BY DEF Kept
  <1>16. ASSUME ok, k \in seen \/ (k \in Found /\ \A r \in table : r[Key] = k => Kept(r) = r),
                \A r \in table : r[Key] = k /\ builder.conflict = "update" =>
                                   k \in touched \/ ~Matches(r, Meant(First(k)))
         PROVE  InsertedSoFar(rows, touched, TRUE, i)
    <2>1. rows = Expected(Seen(i))
      <3>1. CASE k \in seen
        BY <1>3, <1>6, <1>16, <3>1
      <3>2. CASE k \notin seen
        <4>1. PICK r \in table : r[Key] = k /\ Kept(r) = r
          BY <1>16, <3>2 DEF Found
        <4>2. Expected(Seen(i)) = (Expected(seen) \ {r}) \cup {r}
          BY <1>1, <1>3, <1>4, <3>2, <4>1, ExpectFound
        <4>3. r \in Expected(seen)
          BY <3>2, <4>1 DEF Expected, Left
        <4> QED
          BY <1>6, <1>16, <4>2, <4>3
      <3> QED
        BY <3>1, <3>2
    <2>2. touched \subseteq Seen(i) /\ Seen(i) \ Found \subseteq touched
      BY <1>3, <1>6, <1>16
    <2>3. \A r \in table :
                /\ builder.conflict = "update" /\ r[Key] \in Seen(i)
                /\ Matches(r, Meant(First(r[Key])))
                => r[Key] \in touched
      BY <1>3, <1>6, <1>16
    <2> QED
      BY <2>1, <2>2, <2>3, Zenon DEF InsertedSoFar
  <1>17. plain = [table |-> rows, touched |-> touched, ok |-> TRUE]
    BY DEF plain
  <1>18. CASE ok /\ taken # {} /\ builder.conflict = "nothing"
    <2>1. next = [table |-> rows, touched |-> touched, ok |-> TRUE]
      BY <1>7, <1>17, <1>18
    <2>2. k \in seen \/ k \in Found
      BY <1>8, <1>18
    <2>3. InsertedSoFar(rows, touched, TRUE, i)
      BY <1>15, <1>16, <1>18, <2>2
    <2> QED
      BY <2>1, <2>3, Zenon DEF next, done
  <1>19. CASE ok /\ taken # {} /\ builder.conflict = "update" /\ k \in touched
    <2>1. next = failed
      BY <1>7, <1>19
    <2>2. IsBarred
      BY <1>6, <1>10, <1>19 DEF IsBarred
    <2> QED
      BY <1>9, <2>1, <2>2, Zenon DEF next, failed, done
  <1>20. CASE ok /\ taken # {} /\ builder.conflict = "update" /\ k \notin touched
    <2>1. PICK r \in table : r[Key] = k
      BY <1>6, <1>8, <1>20 DEF Found
    <2>2. taken = {Left(seen, r)} /\ old = Left(seen, r)
      BY <1>8, <1>20, <2>1 DEF old
    <2>3. \A s \in table : s[Key] = k => s = r
      BY <1>1, <2>1 DEF IsTable
    <2>4. k \in seen => ~Matches(r, Meant(First(k)))
      BY <1>6, <1>20, <2>1
    <2>5. ~Matches(r, Meant(First(k))) => Kept(r) = r
      BY <2>1 DEF Kept
    <2>6. old = r
      BY <2>1, <2>2, <2>4, <2>5 DEF Left
    <2>7. CASE ~Matches(r, Meant(i))
      <3>1. next = [table |-> rows, touched |-> touched, ok |-> TRUE]
        BY <1>7, <1>17, <1>20, <2>6, <2>7
      <3>2. ~Matches(r, Meant(First(k))) /\ k \in Found
        BY <1>1, <2>1, <2>7 DEF Found
      <3>3. InsertedSoFar(rows, touched, TRUE, i)
        BY <1>16, <1>20, <2>3, <2>5, <3>2
      <3> QED
        BY <3>1, <3>3, Zenon DEF next, done
    <2>8. CASE Matches(r, Meant(i))
      <3> DEFINE rows2 == (rows \ {r}) \cup {AfterConflict(r, i)}
                 touched2 == touched \cup {AfterConflict(r, i)[Key]}
      <3>1. next = [table |-> rows2, touched |-> touched2, ok |-> TRUE]
        BY <1>7, <1>20, <2>6, <2>8 DEF new
      <3>2. k \notin seen /\ First(k) = i
        BY <1>1, <1>5, <2>4, <2>8
      <3>3. ObjectsOf(k) # {}
        BY <1>1, FirstObject DEF k
      <3>4. Kept(r) = AfterConflict(r, i)
        BY <1>20, <2>1, <2>8, <3>2, <3>3 DEF Kept
      <3>5. AfterConflict(r, i)[Key] = k
        BY <1>1, <2>1, <3>4
      <3>6. rows2 = Expected(Seen(i))
        BY <1>1, <1>3, <1>4, <1>6, <1>20, <2>1, <3>2, <3>4, ExpectFound
      <3>7. /\ touched2 \subseteq Seen(i) /\ Seen(i) \ Found \subseteq touched2
            /\ \A s \in table :
                /\ builder.conflict = "update" /\ s[Key] \in Seen(i)
                /\ Matches(s, Meant(First(s[Key])))
                => s[Key] \in touched2
        BY <1>3, <1>6, <1>20, <3>5
      <3> HIDE DEF rows2, touched2
      <3>8. InsertedSoFar(rows2, touched2, TRUE, i)
        BY <3>6, <3>7, Zenon DEF InsertedSoFar
      <3> QED
        BY <3>1, <3>8, Zenon DEF next, done
    <2> QED
      BY <2>7, <2>8
  <1>21. ok => \/ k \notin Found /\ k \notin seen
               \/ taken # {}
    BY <1>8 DEF Found
  <1> QED
    BY <1>1, <1>12, <1>13, <1>14, <1>18, <1>19, <1>20, <1>21

LEMMA PlainInsert ==
  ASSUME WriteAssumption, IsBuilder(builder), builder.kind = "insert", ~Throws(builder),
         IsTable(table), ~MovesKeys
  PROVE  IsPlainInsert
  <1>1. /\ IsBatch(builder.batch) /\ IsSet(builder.set) /\ IsCondition(builder.where)
        /\ builder.conflict \in {"none", "nothing", "update"}
        /\ ~Has(builder.where.parts, "sameKey")
    BY DEF IsBuilder
  <1>2. Len(builder.batch) \in Nat
    BY <1>1, LenProperties DEF IsBatch
  <1>3. \A n \in 1 .. Len(builder.set) : SetFits(builder.set[n])
    BY <1>1, InsertFitting DEF InsertFits
  <1>4. \A r \in table : Kept(r)[Key] = r[Key]
    BY <1>1, <1>2, <1>3, KeptKey
  <1>5. ~Has(Bound(builder.where), "sameKey")
    BY <1>1, ConditionReads
  <1> DEFINE w == Bound(builder.where)
  <1>6. \A r, x, y : Holds(w, r, x) <=> Holds(w, r, y)
    <2> HIDE DEF w
    <2> QED
      BY <1>5 DEF Holds, w
  <1>7. \A r, x, y : Matches(r, x) <=> Matches(r, y)
    BY <1>6, Zenon DEF Matches
  <1> QED
    BY <1>1, <1>2, <1>4, <1>7, Zenon DEF IsPlainInsert

LEMMA InsertedAll ==
  ASSUME NEW text, InsertReads(text), IsPlainInsert
  PROVE  LET all == Expected(Seen(Len(builder.batch))) IN
         /\ \A rows \in InsertOutcomes(text) : rows = all
         /\ ~IsBarred => InsertOutcomes(text) = {all}
  <1> DEFINE N == Len(builder.batch)
  <1>1. /\ N \in Nat /\ Len(TuplesOf(text)) = N
        /\ \A i \in 1 .. N : Proposed(text, i) = Meant(i)
    BY DEF InsertReads
  <1>2. PICK done : IsInserting(done, text)
    BY <1>1, InsertingSteps
  <1>3. /\ done[0] = [table |-> table, touched |-> {}, ok |-> TRUE]
        /\ \A i \in 1 .. N : done[i] = InsertRow(text, done[i - 1], Meant(i))
        /\ InsertOutcomes(text) = IF done[N].ok THEN {done[N].table} ELSE {}
    BY <1>1, <1>2 DEF IsInserting
  <1> DEFINE Reached(i) == \E rows, touched, ok :
               /\ done[i] = [table |-> rows, touched |-> touched, ok |-> ok]
               /\ InsertedSoFar(rows, touched, ok, i)
             S == {i \in 0 .. N : Reached(i)}
  <1>4. 0 \in S
    <2>1. Seen(0) = {}
      BY DEF Seen
    <2>2. Expected({}) = table
      BY DEF Expected, Left
    <2>3. InsertedSoFar(table, {}, TRUE, 0)
      BY <2>1, <2>2 DEF InsertedSoFar
    <2>4. Reached(0)
      BY <1>3, <2>3, Zenon
    <2> HIDE DEF Reached
    <2> QED
      BY <1>1, <2>4
  <1>5. ASSUME NEW i \in 1 .. N, i - 1 \in S PROVE i \in S
    <2>1. Reached(i - 1)
      <3> HIDE DEF Reached
      <3> QED
        BY <1>5
    <2>2. PICK rows, touched, ok :
            /\ done[i - 1] = [table |-> rows, touched |-> touched, ok |-> ok]
            /\ InsertedSoFar(rows, touched, ok, i - 1)
      BY <2>1
    <2>3. PICK rows2, touched2, ok2 :
            /\ InsertRow(text, [table |-> rows, touched |-> touched, ok |-> ok],
                         Meant(i))
                 = [table |-> rows2, touched |-> touched2, ok |-> ok2]
            /\ InsertedSoFar(rows2, touched2, ok2, i)
      <3>1. Continues(text, rows, touched, ok, i)
        BY <2>2, InsertedNext
      <3> QED
        BY <3>1 DEF Continues
    <2>4. done[i] = [table |-> rows2, touched |-> touched2, ok |-> ok2]
      BY <1>3, <2>2, <2>3
    <2>5. Reached(i)
      BY <2>3, <2>4
    <2> HIDE DEF Reached
    <2> QED
      BY <1>1, <2>5
  <1>6. N \in S
    <2> HIDE DEF S, N
    <2>1. N \in Nat /\ 0 \in S
      BY <1>1, <1>4
    <2>2. \A i \in 1 .. N : i - 1 \in S => i \in S
      BY <1>5
    <2>3. \A i \in 0 .. N : i \in S
      BY <2>1, <2>2, UpTo
    <2>4. N \in 0 .. N
      BY <2>1
    <2> QED
      BY <2>3, <2>4
  <1>7. Reached(N)
    <2> HIDE DEF Reached
    <2> QED
      BY <1>6
  <1>8. PICK rows, touched, ok :
          /\ done[N] = [table |-> rows, touched |-> touched, ok |-> ok]
          /\ InsertedSoFar(rows, touched, ok, N)
    BY <1>7
  <1>9. done[N].ok = ok /\ done[N].table = rows
    BY <1>8
  <1>10. (ok => rows = Expected(Seen(N))) /\ (~IsBarred => ok)
    BY <1>8, Zenon DEF InsertedSoFar
  <1> QED
    BY <1>3, <1>9, <1>10

LEMMA InsertFinite ==
  ASSUME NEW text, InsertReads(text), builder.conflict \in {"none", "nothing", "update"},
         IsFiniteSet(table)
  PROVE  \A rows \in InsertOutcomes(text) : IsFiniteSet(rows)
  <1> DEFINE N == Len(builder.batch)
  <1>1. /\ N \in Nat /\ Len(TuplesOf(text)) = N
        /\ \A i \in 1 .. N : Proposed(text, i) = Meant(i)
    BY DEF InsertReads
  <1>2. PICK done : IsInserting(done, text)
    BY <1>1, InsertingSteps
  <1>3. /\ done[0] = [table |-> table, touched |-> {}, ok |-> TRUE]
        /\ \A i \in 1 .. N : done[i] = InsertRow(text, done[i - 1], Meant(i))
        /\ InsertOutcomes(text) = IF done[N].ok THEN {done[N].table} ELSE {}
    BY <1>1, <1>2 DEF IsInserting
  <1> DEFINE Reached(i) == \E rows, touched, ok :
               /\ done[i] = [table |-> rows, touched |-> touched, ok |-> ok]
               /\ ok \in BOOLEAN /\ IsFiniteSet(rows)
             S == {i \in 0 .. N : Reached(i)}
  <1>4. 0 \in S
    <2>1. Reached(0)
      BY <1>3, Zenon
    <2> HIDE DEF Reached
    <2> QED
      BY <1>1, <2>1
  <1>5. ASSUME NEW i \in 1 .. N, i - 1 \in S PROVE i \in S
    <2>1. Reached(i - 1)
      <3> HIDE DEF Reached
      <3> QED
        BY <1>5
    <2>2. PICK rows, touched, ok :
            /\ done[i - 1] = [table |-> rows, touched |-> touched, ok |-> ok]
            /\ ok \in BOOLEAN /\ IsFiniteSet(rows)
      BY <2>1
    <2>3. InsertLeads(text, rows, touched, ok, i)
      BY <2>2, InsertStep
    <2>4. done[i] = InsertRow(text, [table |-> rows, touched |-> touched, ok |-> ok], Meant(i))
      BY <1>3, <2>2
    <2>5. \E rows2, touched2, ok2 :
            /\ InsertRow(text, [table |-> rows, touched |-> touched, ok |-> ok], Meant(i))
                 = [table |-> rows2, touched |-> touched2, ok |-> ok2]
            /\ ok2 \in BOOLEAN /\ IsFiniteSet(rows2)
      <3> DEFINE next == InsertRow(text, [table |-> rows, touched |-> touched, ok |-> ok], Meant(i))
                 taken  == Taken(rows, i)
                 old    == CHOOSE r \in taken : TRUE
                 new    == AfterConflict(old, i)
                 IsNext(r, t, k) == next = [table |-> r, touched |-> t, ok |-> k]
      <3>1. \/ IsNext(rows, touched, FALSE) \/ IsNext(rows, touched, TRUE)
            \/ IsNext(rows \cup {Meant(i)}, touched \cup {KeyOf(i)}, TRUE)
            \/ IsNext((rows \ {old}) \cup {new}, touched \cup {new[Key]}, TRUE)
        <4>1. /\ ~ok => IsNext(rows, touched, FALSE)
              /\ ok /\ taken = {} =>
                   IsNext(rows \cup {Meant(i)}, touched \cup {KeyOf(i)}, TRUE)
              /\ ok /\ taken # {} /\ builder.conflict = "none" => IsNext(rows, touched, FALSE)
              /\ ok /\ taken # {} /\ builder.conflict = "nothing" => IsNext(rows, touched, TRUE)
              /\ ok /\ taken # {} /\ builder.conflict = "update" /\ KeyOf(i) \in touched =>
                   IsNext(rows, touched, FALSE)
              /\ ok /\ taken # {} /\ builder.conflict = "update" /\ KeyOf(i) \notin touched =>
                   next = IF Matches(old, Meant(i))
                          THEN [table |-> (rows \ {old}) \cup {new},
                                touched |-> touched \cup {new[Key]}, ok |-> TRUE]
                          ELSE [table |-> rows, touched |-> touched, ok |-> TRUE]
          BY <2>3, Zenon DEF InsertLeads
        <4>2. \/ builder.conflict = "none" \/ builder.conflict = "nothing"
              \/ builder.conflict = "update"
          OBVIOUS
        <4> DEFINE n1 == [table |-> (rows \ {old}) \cup {new},
                          touched |-> touched \cup {new[Key]}, ok |-> TRUE]
                   n2 == [table |-> rows, touched |-> touched, ok |-> TRUE]
        <4>3. next = (IF Matches(old, Meant(i)) THEN n1 ELSE n2) => next = n1 \/ next = n2
          <5> HIDE DEF next, n1, n2, old
          <5> QED
            OBVIOUS
        <4> QED
          BY <4>1, <4>2, <4>3, Zenon
      <3>2. IsFiniteSet(rows \cup {Meant(i)})
        BY <2>2, FS_AddElement
      <3>3. IsFiniteSet((rows \ {old}) \cup {new})
        <4> HIDE DEF old, new
        <4>1. IsFiniteSet(rows \ {old})
          BY <2>2, FS_RemoveElement
        <4> QED
          BY <4>1, FS_AddElement
      <3>4. TRUE \in BOOLEAN /\ FALSE \in BOOLEAN
        OBVIOUS
      <3> QED
        BY <2>2, <3>1, <3>2, <3>3, <3>4, Zenon
    <2>6. Reached(i)
      BY <2>4, <2>5
    <2> HIDE DEF Reached
    <2> QED
      BY <1>1, <2>6
  <1>6. N \in S
    <2> HIDE DEF S, N
    <2>1. N \in Nat /\ 0 \in S
      BY <1>1, <1>4
    <2>2. \A i \in 1 .. N : i - 1 \in S => i \in S
      BY <1>5
    <2>3. \A i \in 0 .. N : i \in S
      BY <2>1, <2>2, UpTo
    <2>4. N \in 0 .. N
      BY <2>1
    <2> QED
      BY <2>3, <2>4
  <1>7. Reached(N)
    <2> HIDE DEF Reached
    <2> QED
      BY <1>6
  <1>8. PICK rows, touched, ok :
          /\ done[N] = [table |-> rows, touched |-> touched, ok |-> ok]
          /\ ok \in BOOLEAN /\ IsFiniteSet(rows)
    BY <1>7
  <1>9. done[N].ok = ok /\ done[N].table = rows
    BY <1>8
  <1> QED
    BY <1>3, <1>8, <1>9

(* What an insert leaves is what the objects mean, and a table.                *)
LEMMA InsertMeant ==
  ASSUME IsPlainInsert
  PROVE  InsertIsMeant(table, Expected(Seen(Len(builder.batch))))
  <1> DEFINE seen == Seen(Len(builder.batch))
  <1>1. seen = {KeyOf(i) : i \in 1 .. Len(builder.batch)}
    BY DEF Seen
  <1>2. \A r \in table : Left(seen, r) = Kept(r)
    <2> TAKE r \in table
    <2>1. CASE r[Key] \in seen
      BY <2>1 DEF Left
    <2>2. CASE r[Key] \notin seen
      <3>1. ObjectsOf(r[Key]) = {}
        BY <1>1, <2>2 DEF ObjectsOf
      <3>2. Kept(r) = r
        BY <3>1 DEF Kept
      <3> QED
        BY <2>2, <3>2 DEF Left
    <2> QED
      BY <2>1, <2>2
  <1> HIDE DEF seen
  <1>3. Expected(seen) = {Kept(r) : r \in table}
          \cup {Meant(First(k)) : k \in seen \ {r[Key] : r \in table}}
    BY <1>2 DEF Expected, Found
  <1>4. InsertIsMeant(table, Expected(seen))
    BY <1>1, <1>3 DEF InsertIsMeant
  <1> QED
    BY <1>4 DEF seen

--------------------------------------------------------------------------------
(* The tables meant are accepted, and are what a second execution leaves.      *)

LEMMA PlainNotNull ==
  ASSUME NEW v, \A i \in 1 .. Len(v) : v[i] \in Plain
  PROVE  v # Null
  <1> SUFFICES ASSUME v = Null PROVE FALSE
    OBVIOUS
  <1>1. "NULL" \notin Plain
    BY Zenon DEF Plain, Words
  <1>2. Len(v) = 1 /\ v[1] = "NULL"
    BY DEF Null
  <1> QED
    BY <1>1, <1>2

LEMMA DrawnDefault ==
  ASSUME NEW b, NEW d \in Draws(b), b.kind = "insert", NEW i \in 1 .. Len(b.batch),
         NEW c \in DOMAIN DefaultsOf, At(b.batch[i], c) = Undefined
  PROVE  d[i][c] \in DefaultsOf[c]
  <1> DEFINE LeftTo(n) == {x \in DOMAIN DefaultsOf : At(b.batch[n], x) = Undefined}
             Values == UNION Range(DefaultsOf)
             Answers == [1 .. Len(b.batch) -> UNION {[cs -> Values] : cs \in SUBSET DOMAIN DefaultsOf}]
  <1>1. Draws(b) = {f \in Answers : \A n \in 1 .. Len(b.batch) :
                      DOMAIN f[n] = LeftTo(n) /\ \A x \in LeftTo(n) : f[n][x] \in DefaultsOf[x]}
    BY Zenon DEF Draws
  <1>2. c \in LeftTo(i)
    OBVIOUS
  <1> HIDE DEF LeftTo, Answers
  <1> QED
    BY <1>1, <1>2

LEMMA MeantAt ==
  ASSUME NEW i, NEW c \in Stored
  PROVE  Meant(i)[c] = Stands(i, c)
  <1> DEFINE f == [d \in Stored |-> Stands(i, d)]
  <1>1. Meant(i) = Row(f)
    BY Zenon DEF Meant, Stands
  <1>2. f[c] = Stands(i, c)
    OBVIOUS
  <1> HIDE DEF f
  <1> QED
    BY <1>1, <1>2, RowAt

LEMMA MeantFits ==
  ASSUME WriteAssumption, builder.kind = "insert", drawn \in Draws(builder),
         NEW i \in 1 .. Len(builder.batch), \A c \in Stored : CellFits(builder.batch[i], c),
         NEW c \in Stored \ Nullable
  PROVE  Meant(i)[c] # Null
  <1> DEFINE v == At(builder.batch[i], c)
  <1>1. Meant(i)[c] = IF v # Undefined THEN v ELSE Default(i, c)
    BY MeantAt DEF Stands
  <1>2. CellFits(builder.batch[i], c) /\ c \in ColumnSet
    BY DEF Stored
  <1>3. CASE v # Undefined
    <2>1. IsFit(c, v)
      BY <1>2, <1>3 DEF CellFits
    <2> HIDE DEF v
    <2>2. \A n \in 1 .. Len(v) : v[n] \in Plain
      BY <1>2, <1>3, <2>1, FitPlain
    <2> QED
      BY <1>1, <1>3, <2>2, PlainNotNull
  <1>4. CASE v = Undefined
    <2>1. c \in DOMAIN DefaultsOf
      BY <1>2, <1>4 DEF CellFits, IsFit, IsUnfit
    <2> DEFINE d == drawn[i][c]
    <2>2. Default(i, c) = d
      BY <2>1, Zenon DEF Default
    <2>3. d \in DefaultsOf[c]
      BY <1>4, <2>1, DrawnDefault
    <2> HIDE DEF d, v
    <2>4. d \in Seq(Fitting[c]) /\ Fitting[c] \subseteq Plain
      BY <1>2, <2>1, <2>3 DEF WriteAssumption
    <2>5. \A n \in 1 .. Len(d) : d[n] \in Plain
      BY <2>4, ElementOfSeq
    <2>6. d # Null
      BY <2>5, PlainNotNull
    <2> QED
      BY <1>1, <1>4, <2>2, <2>6
  <1> QED
    BY <1>3, <1>4

LEMMA FittingNotNull ==
  ASSUME WriteAssumption, NEW c \in ColumnSet \ Nullable, NEW v, IsFit(c, v)
  PROVE  OrNone(v) # Null
  <1>1. v # Undefined
    BY DEF IsFit, IsUnfit
  <1>2. \A i \in 1 .. Len(v) : v[i] \in Plain
    BY <1>1, FitPlain
  <1> QED
    BY <1>1, <1>2, PlainNotNull DEF OrNone

LEMMA ExpectedIsTable ==
  ASSUME WriteAssumption, IsPlainInsert, InsertFits(builder), builder.kind = "insert",
         drawn \in Draws(builder), \A r \in table, c \in Stored \ Nullable : Kept(r)[c] # Null
  PROVE  IsTable(Expected(Seen(Len(builder.batch))))
  <1> DEFINE N == Len(builder.batch)  seen == Seen(N)
  <1>1. N \in Nat /\ IsTable(table) /\ \A r \in table : Kept(r)[Key] = r[Key]
    BY DEF IsPlainInsert
  <1>2. \A k \in seen : KeyOf(First(k)) = k /\ ObjectsOf(k) # {}
    BY <1>1, SeenKeys
  <1> HIDE DEF seen
  <1>3. \A x \in Expected(seen) :
          \/ \E r \in table : x = Left(seen, r) /\ x[Key] = r[Key]
          \/ \E k \in seen \ Found : x = Meant(First(k)) /\ x[Key] = k
    BY <1>1, <1>2 DEF Expected, Left, KeyOf
  <1>4. \A x \in Expected(seen), y \in Expected(seen) : x[Key] = y[Key] => x = y
    <2> SUFFICES ASSUME NEW x \in Expected(seen), NEW y \in Expected(seen), x[Key] = y[Key]
                 PROVE  x = y
      OBVIOUS
    <2>1. CASE x[Key] \in Found
      <3>1. PICK r \in table : x = Left(seen, r) /\ x[Key] = r[Key]
        BY <1>3, <2>1
      <3>2. PICK s \in table : y = Left(seen, s) /\ y[Key] = s[Key]
        BY <1>3, <2>1
      <3>3. r = s
        BY <1>1, <3>1, <3>2 DEF IsTable
      <3> QED
        BY <3>1, <3>2, <3>3
    <2>2. CASE x[Key] \notin Found
      <3>1. x = Meant(First(x[Key]))
        BY <1>3, <2>2 DEF Found
      <3>2. y = Meant(First(y[Key]))
        BY <1>3, <2>2 DEF Found
      <3> QED
        BY <3>1, <3>2
    <2> QED
      BY <2>1, <2>2
  <1>5. ASSUME NEW x \in Expected(seen), NEW c \in Stored \ Nullable PROVE x[c] # Null
    <2>1. CASE \E r \in table : x = Left(seen, r)
      <3>1. PICK r \in table : x = Left(seen, r)
        BY <2>1
      <3>2. r[c] # Null
        BY <1>1 DEF IsTable
      <3>3. Kept(r)[c] # Null
        OBVIOUS
      <3> QED
        BY <3>1, <3>2, <3>3 DEF Left
    <2>2. CASE \E k \in seen \ Found : x = Meant(First(k))
      <3>1. PICK k \in seen \ Found : x = Meant(First(k))
        BY <2>2
      <3> DEFINE m == First(k)
      <3>2. m \in 1 .. Len(builder.batch)
        BY <1>1, <1>2, FirstOfKey
      <3> HIDE DEF m
      <3>3. \A d \in Stored : CellFits(builder.batch[m], d)
        BY <3>2 DEF InsertFits
      <3>4. Meant(m)[c] # Null
        BY <3>2, <3>3, MeantFits
      <3> QED
        BY <3>1, <3>4 DEF m
    <2> QED
      BY <2>1, <2>2 DEF Expected
  <1>6. IsTable(Expected(seen))
    BY <1>4, <1>5 DEF IsTable
  <1> QED
    BY <1>6 DEF seen

LEMMA ExpectedAccepted ==
  ASSUME WriteAssumption, IsPlainInsert, InsertFits(builder), builder.kind = "insert",
         drawn \in Draws(builder), \A r \in table, c \in Stored \ Nullable : Kept(r)[c] # Null,
         IsFiniteSet(Expected(Seen(Len(builder.batch))))
  PROVE  Accepts(Expected(Seen(Len(builder.batch))))
  <1> DEFINE seen == Seen(Len(builder.batch))  all == Expected(seen)
             f == [r \in table |-> Left(seen, r)]
  <1>1. IsTable(all)
    BY ExpectedIsTable
  <1>2. IsTable(table) /\ \A r \in table : Kept(r)[Key] = r[Key]
    BY DEF IsPlainInsert
  <1> HIDE DEF seen
  <1>3. \A r \in table : Left(seen, r) \in all /\ Left(seen, r)[Key] = r[Key]
    BY <1>2 DEF Expected, Left
  <1>4. \A r \in table, s \in table : Left(seen, r) = Left(seen, s) => r = s
    BY <1>2, <1>3 DEF IsTable
  <1>5. IsFiniteSet(all)
    BY DEF seen
  <1> HIDE DEF all
  <1>6. f \in Injection(table, all)
    BY <1>3, <1>4 DEF Injection, IsInjective
  <1>7. IsFiniteSet(table) /\ Cardinality(table) <= Cardinality(all)
    BY <1>5, <1>6, FS_Injection
  <1>8. Cardinality(table) \in Nat /\ Cardinality(all) \in Nat
    BY <1>5, <1>7, FS_CardinalityType
  <1> QED
    BY <1>1, <1>7, <1>8 DEF Accepts, all, seen

(* What an update leaves.                                                      *)
Ways == [r \in table |-> WaysOf(r)]

LEMMA PickedRows ==
  ASSUME NEW rows \in Picked(Ways)
  PROVE  \E pick : /\ DOMAIN pick = table /\ rows = {pick[r] : r \in table}
                   /\ \A r \in table : pick[r] \in WaysOf(r)
  <1> DEFINE ways == Ways
  <1>1. \A r \in table : ways[r] = WaysOf(r)
    BY DEF Ways
  <1> HIDE DEF ways
  <1>2. PICK pick \in {f \in [table -> UNION {ways[r] : r \in table}] :
                          \A r \in table : f[r] \in ways[r]} : rows = {pick[r] : r \in table}
    BY DEF Picked, ways
  <1> QED
    BY <1>1, <1>2

LEMMA PickedSome == Picked(Ways) # {}
  <1> DEFINE ways == Ways  U == UNION {ways[r] : r \in table}
             pick == [r \in table |-> CHOOSE x \in ways[r] : TRUE]
  <1>1. \A r : WaysOf(r) # {}
    BY DEF WaysOf
  <1>2. \A r \in table : ways[r] # {}
    BY <1>1 DEF Ways
  <1> HIDE DEF ways
  <1>3. pick \in [table -> U] /\ \A r \in table : pick[r] \in ways[r]
    BY <1>2
  <1> HIDE DEF pick
  <1>4. {pick[r] : r \in table} \in Picked(ways)
    BY <1>3 DEF Picked
  <1> QED
    BY <1>4 DEF ways

LEMMA PickedMeant ==
  ASSUME NEW rows \in Picked(Ways)
  PROVE  /\ UpdateIsMeant(table, rows)
         /\ IsFiniteSet(table) => IsFiniteSet(rows)
  <1>1. PICK pick : /\ DOMAIN pick = table /\ rows = {pick[r] : r \in table}
                    /\ \A r \in table : pick[r] \in WaysOf(r)
    BY PickedRows
  <1> DEFINE IsLeft(r, s) == IF ObjectsFor(r) = {}
                      THEN s = r
                      ELSE \E i \in ObjectsFor(r) : s = With(r, builder.batch[i])
  <1>2. \A r, s : s \in WaysOf(r) => IsLeft(r, s)
    BY DEF WaysOf
  <1> HIDE DEF IsLeft
  <1>3. \A r \in table : \E s \in rows : IsLeft(r, s)
    BY <1>1, <1>2
  <1>4. \A s \in rows : \E r \in table : IsLeft(r, s)
    BY <1>1, <1>2
  <1>5. UpdateIsMeant(table, rows)
    BY <1>3, <1>4, Zenon DEF UpdateIsMeant, IsLeft
  <1>6. ASSUME IsFiniteSet(table) PROVE IsFiniteSet(rows)
    <2> DEFINE f == [r \in table |-> pick[r]]
    <2>1. f \in Surjection(table, rows)
      BY <1>1 DEF Surjection
    <2> HIDE DEF f
    <2> QED
      BY <1>6, <2>1, FS_Surjection
  <1> QED
    BY <1>5, <1>6

LEMMA WithAt ==
  ASSUME NEW r, NEW object, NEW c \in Stored
  PROVE  With(r, object)[c] = IF c \in Range(builder.fields) THEN OrNone(At(object, c)) ELSE r[c]
  <1> DEFINE f == [d \in Stored |->
                     IF d \in Range(builder.fields) THEN OrNone(At(object, d)) ELSE r[d]]
  <1>1. With(r, object) = Row(f)
    BY Zenon DEF With
  <1>2. f[c] = IF c \in Range(builder.fields) THEN OrNone(At(object, c)) ELSE r[c]
    OBVIOUS
  <1> HIDE DEF f
  <1> QED
    BY <1>1, <1>2, RowAt

\* What it takes for an object to match a row: the row's part, and the keys.
LEMMA MatchesParts ==
  ASSUME NEW r, NEW s, s[Other] = r[Other], NEW i, NEW j, i \in ObjectsFor(r),
         j \in 1 .. Len(builder.batch),
         Has(Bound(builder.where), "sameKey") =>
           s[Key] = [c \in ColumnSet |-> At(builder.batch[j], c)][Key]
  PROVE  j \in ObjectsFor(s)
  <1> DEFINE w == Bound(builder.where)  x == [c \in ColumnSet |-> At(builder.batch[i], c)]
             y == [c \in ColumnSet |-> At(builder.batch[j], c)]
  <1>1. Holds(w, r, x)
    BY Zenon DEF ObjectsFor, Matches
  <1> HIDE DEF w, x, y
  <1>2. Holds(w, s, y)
    BY <1>1 DEF Holds, w, y
  <1> QED
    BY <1>2, Zenon DEF ObjectsFor, Matches, w, y

LEMMA MatchedKey ==
  ASSUME WriteAssumption, FieldsFit(builder), Key \in Range(builder.fields),
         NEW r, NEW i \in ObjectsFor(r)
  PROVE  LET o == builder.batch[i] IN
         /\ [c \in ColumnSet |-> At(o, c)][Key] = OrNone(At(o, Key))
         /\ With(r, o)[Key] = OrNone(At(o, Key))
         /\ Has(Bound(builder.where), "sameKey") => r[Key] = OrNone(At(o, Key))
  <1> DEFINE w == Bound(builder.where)  o == builder.batch[i]
             x == [c \in ColumnSet |-> At(o, c)]
  <1>1. Key \in Stored /\ Key \in ColumnSet /\ Key \notin Nullable
    BY StoredColumns
  <1>2. i \in 1 .. Len(builder.batch) /\ Holds(w, r, x)
    BY Zenon DEF ObjectsFor, Matches
  <1>3. IsFit(Key, At(o, Key))
    BY <1>2 DEF FieldsFit
  <1>4. At(o, Key) # Undefined
    BY <1>1, <1>3 DEF IsFit, IsUnfit
  <1>5. x[Key] = OrNone(At(o, Key))
    BY <1>1, <1>4 DEF OrNone
  <1>6. With(r, o)[Key] = OrNone(At(o, Key))
    BY <1>1, WithAt
  <1> HIDE DEF x, w
  <1>7. Has(w, "sameKey") => r[Key] = OrNone(At(o, Key))
    BY <1>2, <1>5 DEF Holds
  <1> QED
    BY <1>5, <1>6, <1>7 DEF x, w

LEMMA PickedAccepted ==
  ASSUME WriteAssumption, IsFiniteSet(table), IsTable(table), FieldsFit(builder),
         IsCondition(builder.where),
         Key \in Range(builder.fields) => Has(builder.where.parts, "sameKey"),
         NEW rows \in Picked(Ways)
  PROVE  Accepts(rows)
  <1>1. PICK pick : /\ DOMAIN pick = table /\ rows = {pick[r] : r \in table}
                    /\ \A r \in table : pick[r] \in WaysOf(r)
    BY PickedRows
  <1>2. ASSUME NEW r \in table PROVE pick[r][Key] = r[Key]
    <2>1. CASE pick[r] = r
      BY <2>1
    <2>2. CASE \E i \in ObjectsFor(r) : pick[r] = With(r, builder.batch[i])
      <3>1. PICK i \in ObjectsFor(r) : pick[r] = With(r, builder.batch[i])
        BY <2>2
      <3>2. CASE Key \in Range(builder.fields)
        <4>1. Has(Bound(builder.where), "sameKey")
          BY <3>2, ConditionReads
        <4> QED
          BY <3>1, <3>2, <4>1, MatchedKey
      <3>3. CASE Key \notin Range(builder.fields)
        BY <3>1, <3>3, WithAt, StoredColumns
      <3> QED
        BY <3>2, <3>3
    <2> QED
      BY <1>1, <2>1, <2>2 DEF WaysOf
  <1>3. ASSUME NEW r \in table, NEW c \in Stored \ Nullable PROVE pick[r][c] # Null
    <2>1. r[c] # Null
      BY DEF IsTable
    <2>2. CASE pick[r] = r
      BY <2>1, <2>2
    <2>3. CASE \E i \in ObjectsFor(r) : pick[r] = With(r, builder.batch[i])
      <3>1. PICK i \in ObjectsFor(r) : pick[r] = With(r, builder.batch[i])
        BY <2>3
      <3> DEFINE o == builder.batch[i]
      <3>2. pick[r][c] = IF c \in Range(builder.fields) THEN OrNone(At(o, c)) ELSE r[c]
        BY <3>1, WithAt
      <3>3. c \in Range(builder.fields) => OrNone(At(o, c)) # Null
        <4> SUFFICES ASSUME c \in Range(builder.fields) PROVE OrNone(At(o, c)) # Null
          OBVIOUS
        <4>1. i \in 1 .. Len(builder.batch)
          BY DEF ObjectsFor
        <4>2. IsFit(c, At(o, c)) /\ c \in ColumnSet \ Nullable
          BY <4>1 DEF FieldsFit, Stored
        <4> HIDE DEF o
        <4> QED
          BY <4>2, FittingNotNull
      <3> QED
        BY <2>1, <3>2, <3>3
    <2> QED
      BY <1>1, <2>2, <2>3 DEF WaysOf
  <1>4. IsTable(rows)
    <2>1. \A r \in table, s \in table : pick[r][Key] = pick[s][Key] => pick[r] = pick[s]
      BY <1>2 DEF IsTable
    <2> QED
      BY <1>1, <1>3, <2>1 DEF IsTable
  <1>5. IsFiniteSet(rows)
    BY PickedMeant
  <1> DEFINE f == [r \in table |-> pick[r]]
  <1>6. f \in Injection(table, rows)
    <2>1. \A r \in table, s \in table : pick[r] = pick[s] => r = s
      BY <1>2 DEF IsTable
    <2> QED
      BY <1>1, <2>1 DEF Injection, IsInjective
  <1> HIDE DEF f
  <1>7. Cardinality(table) <= Cardinality(rows)
    BY <1>5, <1>6, FS_Injection
  <1>8. Cardinality(table) \in Nat /\ Cardinality(rows) \in Nat
    BY <1>5, FS_CardinalityType
  <1> QED
    BY <1>4, <1>7, <1>8 DEF Accepts

\* Two elements make a set of two.
LEMMA TwoElements ==
  ASSUME NEW x, NEW y, x # y
  PROVE  Cardinality({x} \cup {y}) = 2
  <1> DEFINE one == {x}
  <1>1. IsFiniteSet(one) /\ Cardinality(one) = 1
    BY FS_Singleton, Zenon
  <1>2. y \notin one
    OBVIOUS
  <1> HIDE DEF one
  <1>3. Cardinality(one \cup {y}) = IF y \in one THEN Cardinality(one) ELSE Cardinality(one) + 1
    BY <1>1, FS_AddElement, Zenon
  <1>4. Cardinality(one \cup {y}) = Cardinality(one) + 1
    BY <1>2, <1>3, Zenon
  <1>5. Cardinality(one \cup {y}) = 1 + 1
    BY <1>1, <1>4, Zenon
  <1>6. 1 + 1 = 2
    OBVIOUS
  <1>7. Cardinality(one \cup {y}) = 2
    BY <1>5, <1>6, Zenon
  <1> QED
    BY <1>7, Zenon DEF one

LEMMA OneObject ==
  ASSUME NEW r, Len(builder.batch) \in Nat, Cardinality(ObjectsFor(r)) < 2,
         NEW i \in ObjectsFor(r), NEW j \in ObjectsFor(r)
  PROVE  i = j
  <1> DEFINE S == ObjectsFor(r)
  <1> SUFFICES ASSUME i # j PROVE FALSE
    OBVIOUS
  <1>1. IsFiniteSet(1 .. Len(builder.batch))
    BY FS_Interval
  <1>2. IsFiniteSet(S)
    BY <1>1, FS_Subset DEF ObjectsFor
  <1>3. Cardinality({i} \cup {j}) = 2
    BY TwoElements, Zenon
  <1> DEFINE both == {i} \cup {j}
             few == Cardinality(S)
             two == Cardinality(both)
  <1>4. both \in SUBSET S
    OBVIOUS
  <1>5. few < 2 /\ two = 2
    BY <1>3, Zenon
  <1> HIDE DEF both, S
  <1>6. two <= few
    BY <1>2, <1>4, FS_Subset
  <1>7. few \in Nat
    BY <1>2, FS_CardinalityType, Zenon
  <1> HIDE DEF few, two
  <1> QED
    BY <1>5, <1>6, <1>7

\* A row that a settled update left is left by it once more.
LEMMA UpdateSettled ==
  ASSUME WriteAssumption, FieldsFit(builder), Len(builder.batch) \in Nat,
         IsCondition(builder.where),
         Has(builder.where.parts, "sameKey") => Key \in Range(builder.fields),
         NEW rows \in Picked(Ways), NEW s \in rows, Cardinality(ObjectsFor(s)) < 2,
         NEW j \in ObjectsFor(s)
  PROVE  With(s, builder.batch[j]) = s
  <1>1. PICK pick : /\ DOMAIN pick = table /\ rows = {pick[r] : r \in table}
                    /\ \A r \in table : pick[r] \in WaysOf(r)
    BY PickedRows
  <1>2. PICK r \in table : s \in WaysOf(r)
    BY <1>1
  <1>3. PICK i \in ObjectsFor(r) : s = With(r, builder.batch[i])
    BY <1>2 DEF WaysOf
  <1> DEFINE o == builder.batch[i]
  <1>4. i \in 1 .. Len(builder.batch)
    BY DEF ObjectsFor
  <1>5. Has(Bound(builder.where), "sameKey") => s[Key] = [c \in ColumnSet |-> At(o, c)][Key]
    <2> SUFFICES ASSUME Has(Bound(builder.where), "sameKey")
                 PROVE  s[Key] = [c \in ColumnSet |-> At(o, c)][Key]
      OBVIOUS
    <2>1. Key \in Range(builder.fields)
      BY ConditionReads
    <2> QED
      BY <1>3, <2>1, MatchedKey
  <1>6. i \in ObjectsFor(s)
    BY <1>4, <1>5, MatchesParts
  <1>7. i = j
    BY <1>6, OneObject
  <1> DEFINE f(x) == [c \in Stored |-> IF c \in Range(builder.fields) THEN OrNone(At(o, c)) ELSE x[c]]
  <1>8. With(s, o) = Row(f(s)) /\ With(r, o) = Row(f(r))
    BY Zenon DEF With
  <1>9. \A c \in Stored : f(s)[c] = f(r)[c]
    <2>1. \A c \in Stored : c \notin Range(builder.fields) => s[c] = r[c]
      BY <1>3, WithAt
    <2> QED
      BY <2>1
  <1> HIDE DEF f
  <1>10. Row(f(s)) = Row(f(r))
    BY <1>9, RowSame
  <1> QED
    BY <1>3, <1>7, <1>8, <1>10

(* An insert that is run again.                                                *)
LEMMA RowAgain ==
  ASSUME WriteAssumption, NEW f, NEW g, \A c \in Stored : g[c] = Row(f)[c]
  PROVE  Row(g) = Row(f)
  <1>1. \A c \in Stored : g[c] = f[c]
    BY RowAt
  <1> QED
    BY <1>1, RowSame

LEMMA LeftAgain ==
  ASSUME IsSet(builder.set), \A n \in 1 .. Len(builder.set) : SetFits(builder.set[n]),
         \A n \in 1 .. Len(builder.set) : builder.set[n].expression \in SameColumn,
         NEW c, NEW r, NEW s, NEW e, s[c] = LeftIn(c, r, e) \/ s[c] = e[c]
  PROVE  LeftIn(c, s, e) = s[c]
  <1>1. CASE AssignmentsOf(c) = {}
    BY <1>1 DEF LeftIn
  <1>2. CASE AssignmentsOf(c) # {}
    <2>1. PICK n \in AssignmentsOf(c) : TRUE
      BY <1>2
    <2> DEFINE a == builder.set[n]
    <2>2. Min(AssignmentsOf(c)) = n /\ n \in 1 .. Len(builder.set) /\ a.column = c
      BY <2>1, OneAssignment DEF AssignmentsOf
    <2>3. LeftIn(c, r, e) = AssignedValue(a, r, e) /\ LeftIn(c, s, e) = AssignedValue(a, s, e)
      BY <1>2, <2>2 DEF LeftIn
    <2>4. a.expression = "excluded" \/ a.expression = "orExcluded"
      BY <2>2 DEF SameColumn
    <2> HIDE DEF a
    <2>5. CASE a.expression = "excluded"
      BY <2>2, <2>3, <2>5 DEF AssignedValue, ValueOf
    <2>6. CASE a.expression = "orExcluded"
      <3>1. /\ LeftIn(c, r, e) = IF r[c] = Null THEN e[c] ELSE r[c]
            /\ LeftIn(c, s, e) = IF s[c] = Null THEN e[c] ELSE s[c]
        BY <2>2, <2>3, <2>6 DEF AssignedValue, ValueOf
      <3> QED
        BY <3>1
    <2> QED
      BY <2>4, <2>5, <2>6
  <1> QED
    BY <1>1, <1>2

LEMMA InsertSettled ==
  ASSUME WriteAssumption, IsSet(builder.set), InsertFits(builder), Len(builder.batch) \in Nat,
         \A n \in 1 .. Len(builder.set) : builder.set[n].expression \in SameColumn,
         NEW after, InsertIsMeant(table, after)
  PROVE  InsertIsMeant(after, after)
  <1> DEFINE keys == {KeyOf(i) : i \in 1 .. Len(builder.batch)}
             held == {r[Key] : r \in after}
  <1>1. after = {Kept(r) : r \in table}
                \cup {Meant(First(k)) : k \in keys \ {r[Key] : r \in table}}
    BY DEF InsertIsMeant
  <1>2. /\ \A n \in 1 .. Len(builder.set) : SetFits(builder.set[n])
        /\ ~MovesKeys
    BY DEF InsertFits, MovesKeys
  <1>3. \A r : Kept(r)[Key] = r[Key]
    BY <1>2, KeptKey
  <1>4. \A k \in keys : ObjectsOf(k) # {} /\ KeyOf(First(k)) = k
    <2>1. \A k \in keys : ObjectsOf(k) # {}
      BY DEF ObjectsOf
    <2> HIDE DEF keys
    <2> QED
      BY <2>1, FirstOfKey
  <1> HIDE DEF keys
  <1>5. ASSUME NEW k \in keys PROVE k \in held
    <2>1. CASE k \in {r[Key] : r \in table}
      <3>1. PICK r \in table : k = r[Key]
        BY <2>1
      <3>2. Kept(r) \in after /\ Kept(r)[Key] = k
        BY <1>1, <1>3, <3>1
      <3> QED
        BY <3>2
    <2>2. CASE k \notin {r[Key] : r \in table}
      <3>1. Meant(First(k)) \in after /\ Meant(First(k))[Key] = k
        BY <1>1, <1>4, <2>2 DEF KeyOf
      <3> QED
        BY <3>1
    <2> QED
      BY <2>1, <2>2
  <1>6. ASSUME NEW s \in after PROVE Kept(s) = s
    <2> DEFINE k == s[Key]  o == First(k)  e == Meant(o)
    <2> SUFFICES ASSUME Kept(s) # s PROVE FALSE
      OBVIOUS
    <2>1. Kept(s) = AfterConflict(s, o)
      BY DEF Kept
    <2>2. AfterConflict(s, o) = Row([c \in Stored |-> LeftIn(c, s, e)])
      BY <1>2, ConflictLeaves
    <2>3. ASSUME NEW f, NEW r, s = Row(f),
                 \A c \in Stored : s[c] = LeftIn(c, r, e) \/ s[c] = e[c]
          PROVE  FALSE
      <3>1. \A c \in Stored : LeftIn(c, s, e) = s[c]
        <4> HIDE DEF e
        <4> QED
          BY <1>2, <2>3, LeftAgain
      <3> DEFINE g == [c \in Stored |-> LeftIn(c, s, e)]
      <3>2. \A c \in Stored : g[c] = s[c]
        BY <3>1
      <3> HIDE DEF g
      <3>3. Row(g) = s
        BY <2>3, <3>2, RowAgain
      <3> QED
        BY <2>1, <2>2, <3>3 DEF g
    <2>4. CASE \E r \in table : s = Kept(r)
      <3>1. PICK r \in table : s = Kept(r)
        BY <2>4
      <3>2. r[Key] = k /\ s # r
        BY <1>3, <3>1
      <3>3. s = AfterConflict(r, o)
        BY <3>1, <3>2 DEF Kept
      <3> DEFINE f == [c \in Stored |-> LeftIn(c, r, e)]
      <3>4. AfterConflict(r, o) = Row(f)
        BY <1>2, ConflictLeaves
      <3>5. \A c \in Stored : f[c] = LeftIn(c, r, e)
        OBVIOUS
      <3> HIDE DEF f, e, o
      <3>6. \A c \in Stored : s[c] = LeftIn(c, r, e)
        BY <3>3, <3>4, <3>5, RowAt
      <3> QED
        BY <2>3, <3>3, <3>4, <3>6
    <2>5. CASE \E j \in keys : s = Meant(First(j))
      <3>1. PICK j \in keys : s = Meant(First(j))
        BY <2>5
      <3>2. j = k
        BY <1>4, <3>1 DEF KeyOf
      <3>3. s = e
        BY <3>1, <3>2
      <3> DEFINE f == [c \in Stored |-> Stands(o, c)]
      <3>4. e = Row(f)
        BY Zenon DEF Meant, Stands
      <3> HIDE DEF f, e
      <3> QED
        BY <2>3, <3>3, <3>4
    <2> QED
      BY <1>1, <2>4, <2>5
  <1>7. {Kept(r) : r \in after} = after
    BY <1>6
  <1>8. keys \ held = {}
    BY <1>5
  <1> DEFINE rest == {Meant(First(k)) : k \in keys \ held}
  <1>9. rest = {}
    BY <1>8
  <1>10. after = {Kept(r) : r \in after} \cup rest
    BY <1>7, <1>9
  <1> QED
    BY <1>10, Zenon DEF InsertIsMeant, keys

--------------------------------------------------------------------------------
(* What running a statement leaves.                                            *)

\* Rows that running the builder's statement once more leaves.
IsLasting(rows) ==
  /\ builder.kind = "insert" => InsertIsMeant(rows, rows)
  /\ builder.kind = "update" =>
       \A r \in rows : \A i \in ObjectsFor(r) : With(r, builder.batch[i]) = r

\* As IsSettled, of other rows.
IsSettledIn(rows) ==
  /\ builder.kind = "update" => \A r \in rows : Cardinality(ObjectsFor(r)) < 2
  /\ builder.kind = "insert" => ~IsLeftOpen(Key)
  /\ builder.conflict = "update" =>
       \A n \in 1 .. Len(builder.set) : /\ builder.set[n].expression \in SameColumn
                                         /\ ~IsLeftOpen(builder.set[n].column)

LEMMA ExecuteLeaves ==
  ASSUME WriteAssumption, IInv, answer = "sent", builder.kind \in {"insert", "update"},
         IsRunnable(sent), NEW rows \in Candidates(sent), Accepts(rows)
  PROVE  /\ IsFiniteSet(rows) /\ IsTable(rows)
         /\ builder.kind = "insert" /\ ~MovesKeys => InsertIsMeant(table, rows)
         /\ builder.kind = "update" => UpdateIsMeant(table, rows)
         /\ IsSettledIn(rows) => IsLasting(rows)
  <1>1. /\ IsFiniteSet(table) /\ IsTable(table) /\ IsBuilder(builder)
        /\ ~Throws(builder) /\ sent = Printed(builder) /\ IsTable(rows)
    BY DEF IInv, SentIsPrinted, Accepts
  <1>2. /\ IsBatch(builder.batch) /\ IsSet(builder.set) /\ IsCondition(builder.where)
        /\ builder.conflict \in {"none", "nothing", "update"}
        /\ builder.conflict # "update" => builder.set = <<>>
    BY <1>1 DEF IsBuilder
  <1>3. Len(builder.batch) \in Nat
    BY <1>2, LenProperties DEF IsBatch
  <1>4. CASE builder.kind = "insert"
    <2>1. InsertReads(sent)
      BY <1>1, <1>4, InsertRead
    <2>2. rows \in InsertOutcomes(sent)
      BY <2>1 DEF InsertReads, Candidates
    <2>3. IsFiniteSet(rows)
      BY <1>1, <1>2, <2>1, <2>2, InsertFinite
    <2>4. ASSUME ~MovesKeys PROVE InsertIsMeant(table, rows)
      <3>1. IsPlainInsert
        BY <1>1, <1>4, <2>4, PlainInsert
      <3>2. rows = Expected(Seen(Len(builder.batch)))
        BY <2>1, <2>2, <3>1, InsertedAll
      <3> QED
        BY <3>1, <3>2, InsertMeant
    <2>5. ASSUME IsSettledIn(rows) PROVE IsLasting(rows)
      <3>1. \A n \in 1 .. Len(builder.set) : builder.set[n].expression \in SameColumn
        BY <1>2, <2>5 DEF IsSettledIn
      <3>2. ~MovesKeys
        BY <3>1 DEF MovesKeys
      <3>3. InsertFits(builder)
        BY <1>1, <1>2, <1>4, InsertFitting
      <3>4. InsertIsMeant(rows, rows)
        BY <1>2, <1>3, <2>4, <3>1, <3>2, <3>3, InsertSettled
      <3> QED
        BY <1>4, <3>4 DEF IsLasting
    <2> QED
      BY <1>1, <1>4, <2>3, <2>4, <2>5
  <1>5. CASE builder.kind = "update"
    <2>1. UpdateReads(sent)
      BY <1>1, <1>5, UpdateRead
    <2>2. rows \in Picked(Ways)
      BY <2>1 DEF UpdateReads, Candidates, Ways, IsRunnable
    <2>3. UpdateIsMeant(table, rows) /\ IsFiniteSet(rows)
      BY <1>1, <2>2, PickedMeant
    <2>4. ASSUME IsSettledIn(rows) PROVE IsLasting(rows)
      <3>1. FieldsFit(builder)
        BY <1>1, <1>2, <1>5, FieldsFitting
      <3>2. Has(builder.where.parts, "sameKey") => Key \in Range(builder.fields)
        <4> DEFINE text == Printed(builder)
        <4>1. UpdateSays(text, Bound(Names(builder.fields)), Bound(Tuples(FieldRows(builder))),
                         Bound(builder.where), builder.where)
          BY <1>1, <1>5, UpdatePrinted
        <4> HIDE DEF text
        <4>2. /\ ~Has(text, "INSERT") /\ Has(text, "UPDATE")
              /\ Has(text, "sameKey") <=> Has(builder.where.parts, "sameKey")
              /\ Section(text, "NAMES") = Bound(Names(builder.fields))
          BY <4>1, Zenon DEF UpdateSays
        <4>3. builder.fields \in Seq(ColumnSet)
          BY <1>1 DEF IsBuilder
        <4>4. ListOf(text, "NAMES") = builder.fields
          BY <4>2, <4>3, NamesListed
        <4>5. IsWellFormed(text)
          BY <1>1 DEF IsRunnable, text
        <4> QED
          BY <4>2, <4>4, <4>5 DEF IsWellFormed
      <3>3. \A s \in rows : Cardinality(ObjectsFor(s)) < 2
        BY <1>5, <2>4 DEF IsSettledIn
      <3>4. \A s \in rows : \A j \in ObjectsFor(s) : With(s, builder.batch[j]) = s
        BY <1>2, <1>3, <2>2, <3>1, <3>2, <3>3, UpdateSettled
      <3> QED
        BY <1>5, <3>4 DEF IsLasting
    <2> QED
      BY <1>1, <1>5, <2>3, <2>4
  <1> QED
    BY <1>4, <1>5

(* Why a statement that was sent is refused.                                   *)

\* The guard of Refuse.
MayBeRefused ==
  IsRunnable(sent) => /\ builder.kind # "values"
                      /\ \/ Candidates(sent) = {}
                         \/ \E rows \in Candidates(sent) : ~Accepts(rows)

LEMMA InsertRefused ==
  ASSUME WriteAssumption, IInv, answer = "sent", builder.kind = "insert", ~IsRefusable
  PROVE  ~MayBeRefused
  <1>1. /\ IsFiniteSet(table) /\ IsTable(table) /\ IsBuilder(builder)
        /\ ~Throws(builder) /\ sent = Printed(builder) /\ builder.batch # <<>>
        /\ drawn \in Draws(builder)
    BY DEF IInv, SentIsPrinted, DrawnFits
  <1>2. /\ IsBatch(builder.batch) /\ IsSet(builder.set)
        /\ builder.conflict \in {"none", "nothing", "update"}
        /\ builder.conflict # "update" => builder.set = <<>>
    BY <1>1 DEF IsBuilder
  <1>3. /\ builder.conflict = "none" => ~Repeats /\ ~Takes
        /\ builder.conflict = "update" => ~Repeats /\ ~MovesKeys
        /\ \A n \in 1 .. Len(builder.set) : builder.set[n].column \notin DOMAIN ComputedFrom
    BY DEF IsRefusable, Repeats, Takes
  <1>14. \A r \in table, c \in Stored \ Nullable : Kept(r)[c] # Null
    <2>1. CASE builder.conflict = "update"
      BY <2>1 DEF IsRefusable
    <2>2. CASE builder.conflict # "update"
      <3>1. \A r : Kept(r) = r
        BY <2>2 DEF Kept
      <3> QED
        BY <1>1, <3>1 DEF IsTable
    <2> QED
      BY <2>1, <2>2
  <1>4. ~IsBarred
    BY <1>3 DEF IsBarred
  <1>5. ~MovesKeys
    BY <1>2, <1>3 DEF MovesKeys
  <1>6. InsertReads(sent)
    BY <1>1, InsertRead
  <1>7. IsRunnable(sent)
    BY <1>1, <1>3, <1>6 DEF InsertReads, IsRunnable
  <1>8. IsPlainInsert
    BY <1>1, <1>5, PlainInsert
  <1> DEFINE all == Expected(Seen(Len(builder.batch)))
  <1>9. InsertOutcomes(sent) = {all}
    BY <1>4, <1>6, <1>8, InsertedAll
  <1>10. Candidates(sent) = {all}
    BY <1>6, <1>9 DEF InsertReads, Candidates
  <1>11. IsFiniteSet(all)
    BY <1>1, <1>2, <1>6, <1>9, InsertFinite
  <1>12. InsertFits(builder)
    BY <1>1, <1>2, InsertFitting
  <1>13. Accepts(all)
    BY <1>1, <1>8, <1>11, <1>12, <1>14, ExpectedAccepted
  <1> HIDE DEF all
  <1> QED
    BY <1>7, <1>10, <1>13 DEF MayBeRefused

LEMMA UpdateRefused ==
  ASSUME WriteAssumption, IInv, answer = "sent", builder.kind = "update", ~IsRefusable
  PROVE  ~MayBeRefused
  <1>1. /\ IsFiniteSet(table) /\ IsTable(table) /\ IsBuilder(builder)
        /\ ~Throws(builder) /\ sent = Printed(builder)
    BY DEF IInv, SentIsPrinted
  <1>2. /\ IsBatch(builder.batch) /\ IsCondition(builder.where) /\ builder.set = <<>>
    BY <1>1 DEF IsBuilder
  <1>3. {builder.set[n].column : n \in 1 .. Len(builder.set)} \cup Range(builder.fields)
          = Range(builder.fields)
    BY <1>2
  <1>4. /\ Range(builder.fields) \cap DOMAIN ComputedFrom = {}
        /\ builder.batch # <<>>
        /\ Key \in Range(builder.fields) <=> Has(builder.where.parts, "sameKey")
    BY <1>3 DEF IsRefusable
  <1>5. UpdateReads(sent)
    BY <1>1, UpdateRead
  <1>6. IsRunnable(sent)
    BY <1>4, <1>5 DEF UpdateReads, IsRunnable
  <1>7. Candidates(sent) = Picked(Ways)
    BY <1>5, <1>6 DEF UpdateReads, Candidates, IsRunnable, Ways
  <1>8. FieldsFit(builder)
    BY <1>1, <1>2, FieldsFitting
  <1>9. \A rows \in Picked(Ways) : Accepts(rows)
    BY <1>1, <1>2, <1>4, <1>8, PickedAccepted
  <1> QED
    BY <1>6, <1>7, <1>9, PickedSome DEF MayBeRefused

LEMMA ValuesRefused ==
  ASSUME WriteAssumption, IInv, answer = "sent", builder.kind = "values", ~IsRefusable
  PROVE  ~MayBeRefused
  <1>1. IsBuilder(builder) /\ ~Throws(builder) /\ sent = Printed(builder)
    BY DEF IInv, SentIsPrinted
  <1>2. builder.batch # <<>> /\ builder.fields # <<>>
    BY DEF IsRefusable
  <1>3. IsRunnable(sent)
    BY <1>1, <1>2, ValuesRead
  <1> QED
    BY <1>3 DEF MayBeRefused

LEMMA RefuseCause ==
  ASSUME WriteAssumption, IInv, answer = "sent", MayBeRefused
  PROVE  IsRefusable
  <1>1. builder.kind \in {"insert", "update", "values"}
    BY DEF IInv, SentIsPrinted, IsBuilder, IsComplete
  <1> QED
    BY <1>1, InsertRefused, UpdateRefused, ValuesRefused

(* What a step that keeps the builder keeps.                                   *)
LEMMA SameMatches ==
  ASSUME builder' = builder
  PROVE  \A r, o : Matches(r, o)' <=> Matches(r, o)
  BY DEF Matches

LEMMA SameMeant ==
  ASSUME builder' = builder, drawn' = drawn
  PROVE  \A i : Meant(i)' = Meant(i) /\ KeyOf(i)' = KeyOf(i)
  <1>1. \A i : Meant(i)' = Meant(i)
    BY DEF Meant, Default
  <1> QED
    BY <1>1 DEF KeyOf

LEMMA SameObjectsOf ==
  ASSUME builder' = builder, drawn' = drawn
  PROVE  \A k : ObjectsOf(k)' = ObjectsOf(k)
  BY SameMeant DEF ObjectsOf

LEMMA SameFirst ==
  ASSUME builder' = builder, drawn' = drawn
  PROVE  \A k : First(k)' = First(k)
  BY SameObjectsOf DEF First

LEMMA ConflictsAre ==
  /\ \A r, i : AfterConflict(r, i) = ConflictOf(builder, r, Meant(i))
  /\ \A r, i : AfterConflict(r, i)' = ConflictOf(builder', r, Meant(i)')
  BY Zenon DEF AfterConflict, ConflictOf

LEMMA SameConflict ==
  ASSUME builder' = builder, drawn' = drawn
  PROVE  \A r, i : AfterConflict(r, i)' = AfterConflict(r, i)
  BY SameMeant, ConflictsAre

LEMMA SameKept ==
  ASSUME builder' = builder, drawn' = drawn
  PROVE  \A r : Kept(r)' = Kept(r)
  BY SameMeant, SameMatches, SameObjectsOf, SameFirst, SameConflict DEF Kept

LEMMA SameWith ==
  ASSUME builder' = builder
  PROVE  \A r, o : With(r, o)' = With(r, o)
  BY DEF With

LEMMA SameObjectsFor ==
  ASSUME builder' = builder
  PROVE  \A r : ObjectsFor(r)' = ObjectsFor(r)
  BY SameMatches DEF ObjectsFor

LEMMA SameMeaning ==
  ASSUME builder' = builder, drawn' = drawn
  PROVE  \A before, after : InsertIsMeant(before, after)' <=> InsertIsMeant(before, after)
  BY SameMeant, SameKept, SameFirst DEF InsertIsMeant

LEMMA SameMoves ==
  ASSUME builder' = builder
  PROVE  MovesKeys' <=> MovesKeys
  BY DEF MovesKeys

LEMMA SameRefusable ==
  ASSUME builder' = builder, drawn' = drawn, table' = table
  PROVE  IsRefusable' <=> IsRefusable
  BY SameMoves, SameMeant, SameKept DEF IsRefusable

LEMMA DoneIs == IsDone <=> (again /\ IsSettledIn(table) => IsLasting(table))
  BY DEF IsDone, IsSettled, IsSettledIn, IsLasting

LEMMA SettledKept ==
  ASSUME builder' = builder
  PROVE  IsSettled' <=> IsSettledIn(table')
  BY SameObjectsFor DEF IsSettled, IsSettledIn, IsLeftOpen

LEMMA DoneKept ==
  ASSUME builder' = builder, drawn' = drawn, again' /\ IsSettledIn(table') => IsLasting(table')
  PROVE  IsDone'
  <1>1. \A rows : InsertIsMeant(rows, rows)' <=> InsertIsMeant(rows, rows)
    BY SameMeaning
  <1>2. InsertIsMeant(table, table)' <=> InsertIsMeant(table', table')
    BY <1>1
  <1>3. (\A r \in table : \A i \in ObjectsFor(r) : With(r, builder.batch[i]) = r)'
          <=> \A r \in table' : \A i \in ObjectsFor(r) : With(r, builder.batch[i]) = r
    BY SameObjectsFor, SameWith
  <1> QED
    BY <1>2, <1>3, SettledKept DEF IsDone, IsLasting

(* A builder that has run is awaited again: its defaults are evaluated anew.    *)
LEMMA RedrawnAt ==
  ASSUME builder.kind = "insert", builder' = builder,
         drawn \in Draws(builder), drawn' \in Draws(builder),
         NEW i \in 1 .. Len(builder.batch), NEW c \in Stored, ~IsLeftOpen(c)
  PROVE  Meant(i)'[c] = Meant(i)[c]
  <1>1. Meant(i)[c] = Stands(i, c)
    BY MeantAt
  <1>2. Meant(i)'[c] = Stands(i, c)'
    <2> DEFINE f == [d \in Stored |-> Stands(i, d)']
    <2>1. Meant(i)' = Row(f)
      BY Zenon DEF Meant, Stands
    <2>2. f[c] = Stands(i, c)'
      OBVIOUS
    <2> HIDE DEF f
    <2> QED
      BY <2>1, <2>2, RowAt
  <1>3. Default(i, c)' = (IF c \in DOMAIN DefaultsOf THEN drawn'[i][c] ELSE Null)
    BY Zenon DEF Default
  <1>4. Default(i, c) = (IF c \in DOMAIN DefaultsOf THEN drawn[i][c] ELSE Null)
    BY Zenon DEF Default
  <1>5. Stands(i, c)' = IF At(builder.batch[i], c) # Undefined THEN At(builder.batch[i], c)
                        ELSE Default(i, c)'
    BY DEF Stands
  <1>6. CASE At(builder.batch[i], c) # Undefined
    BY <1>1, <1>2, <1>5, <1>6 DEF Stands
  <1>7. CASE At(builder.batch[i], c) = Undefined
    <2>1. CASE c \in DOMAIN DefaultsOf
      <3> DEFINE d == drawn[i][c]  e == drawn'[i][c]
      <3>1. d \in DefaultsOf[c] /\ e \in DefaultsOf[c]
        BY <1>7, <2>1, DrawnDefault
      <3> HIDE DEF d, e
      <3>2. d = e
        BY <1>7, <2>1, <3>1 DEF IsLeftOpen
      <3> QED
        BY <1>1, <1>2, <1>3, <1>4, <1>5, <1>7, <2>1, <3>2 DEF Stands, d, e
    <2>2. CASE c \notin DOMAIN DefaultsOf
      BY <1>1, <1>2, <1>3, <1>4, <1>5, <1>7, <2>2 DEF Stands
    <2> QED
      BY <2>1, <2>2
  <1> QED
    BY <1>6, <1>7

LEMMA LeftAlike ==
  ASSUME IsSet(builder.set), NEW c, NEW r, NEW e, NEW f,
         \A n \in 1 .. Len(builder.set) : /\ builder.set[n].expression \in SameColumn
                                          /\ builder.set[n].column = c => e[c] = f[c]
  PROVE  LeftIn(c, r, e) = LeftIn(c, r, f)
  <1>1. CASE AssignmentsOf(c) = {}
    BY <1>1 DEF LeftIn
  <1>2. CASE AssignmentsOf(c) # {}
    <2>1. PICK n \in AssignmentsOf(c) : TRUE
      BY <1>2
    <2> DEFINE a == builder.set[n]
    <2>2. /\ Min(AssignmentsOf(c)) = n /\ n \in 1 .. Len(builder.set) /\ a.column = c
          /\ e[c] = f[c] /\ a.expression \in SameColumn
      BY <2>1, OneAssignment DEF AssignmentsOf
    <2>3. LeftIn(c, r, e) = AssignedValue(a, r, e) /\ LeftIn(c, r, f) = AssignedValue(a, r, f)
      BY <1>2, <2>2 DEF LeftIn
    <2> HIDE DEF a
    <2>4. CASE a.expression = "excluded"
      BY <2>2, <2>3, <2>4 DEF AssignedValue, ValueOf
    <2>5. CASE a.expression = "orExcluded"
      BY <2>2, <2>3, <2>5 DEF AssignedValue, ValueOf
    <2> QED
      BY <2>2, <2>4, <2>5 DEF SameColumn
  <1> QED
    BY <1>1, <1>2

LEMMA RedrawnConflict ==
  ASSUME IsSet(builder.set), \A n \in 1 .. Len(builder.set) : SetFits(builder.set[n]),
         builder' = builder, NEW r, NEW i,
         \A n \in 1 .. Len(builder.set) : builder.set[n].expression \in SameColumn,
         \A n \in 1 .. Len(builder.set) : \A c \in Stored :
           builder.set[n].column = c => Meant(i)'[c] = Meant(i)[c]
  PROVE  AfterConflict(r, i)' = AfterConflict(r, i)
  <1> DEFINE e == Meant(i)  f == Meant(i)'
             left == [c \in Stored |-> LeftIn(c, r, e)]
             redone == [c \in Stored |-> LeftIn(c, r, f)]
  <1>1. AfterConflict(r, i) = ConflictOf(builder, r, e)
        /\ AfterConflict(r, i)' = ConflictOf(builder, r, f)
    BY ConflictsAre
  <1>2. \A n \in 1 .. Len(builder.set) : \A c \in Stored :
          builder.set[n].column = c => e[c] = f[c]
    OBVIOUS
  <1> HIDE DEF e, f
  <1>3. ConflictOf(builder, r, e) = Row(left) /\ ConflictOf(builder, r, f) = Row(redone)
    BY ConflictLeft
  <1>4. left = redone
    BY <1>2, LeftAlike
  <1> QED
    BY <1>1, <1>3, <1>4

LEMMA Redrawn ==
  ASSUME WriteAssumption, IsBuilder(builder), builder.kind = "insert", ~Throws(builder),
         builder' = builder, table' = table, IsTable(table),
         drawn \in Draws(builder), drawn' \in Draws(builder),
         IsSettledIn(table), InsertIsMeant(table, table)
  PROVE  InsertIsMeant(table, table)'
  <1> DEFINE N == Len(builder.batch)
             keys == {KeyOf(i) : i \in 1 .. N}  held == {r[Key] : r \in table}
  <1>1. /\ IsBatch(builder.batch) /\ IsSet(builder.set)
        /\ builder.conflict # "update" => builder.set = <<>>
    BY DEF IsBuilder
  <1>2. N \in Nat
    BY <1>1, LenProperties DEF IsBatch
  <1>3. /\ ~IsLeftOpen(Key) /\ Key \in Stored
        /\ \A n \in 1 .. Len(builder.set) : /\ builder.set[n].expression \in SameColumn
                                            /\ ~IsLeftOpen(builder.set[n].column)
    BY <1>1, StoredColumns DEF IsSettledIn
  <1>4. ~MovesKeys
    BY <1>3 DEF MovesKeys
  <1>5. \A r, x, y : Matches(r, x) <=> Matches(r, y)
    BY <1>4, PlainInsert DEF IsPlainInsert
  <1>6. \A n \in 1 .. Len(builder.set) : SetFits(builder.set[n])
    BY <1>1, InsertFitting DEF InsertFits
  <1>7. ASSUME NEW i \in 1 .. N PROVE KeyOf(i)' = KeyOf(i)
    <2>1. Meant(i)'[Key] = Meant(i)[Key]
      BY <1>3, RedrawnAt
    <2> QED
      BY <2>1 DEF KeyOf
  <1>8. \A k : ObjectsOf(k)' = ObjectsOf(k) /\ First(k)' = First(k)
    <2>1. \A k : ObjectsOf(k)' = ObjectsOf(k)
      BY <1>7 DEF ObjectsOf
    <2> QED
      BY <2>1 DEF First
  <1>9. \A k : ObjectsOf(k) # {} => First(k) \in 1 .. N /\ KeyOf(First(k)) = k
    BY <1>2, FirstOfKey
  <1>10. \A k \in keys : ObjectsOf(k) # {}
    BY DEF ObjectsOf
  <1>11. {KeyOf(i)' : i \in 1 .. N} = keys
    BY <1>7
  <1> HIDE DEF keys
  <1>12. keys \ held = {}
    <2> SUFFICES ASSUME NEW k \in keys, k \notin held PROVE FALSE
      OBVIOUS
    <2>1. Meant(First(k)) \in table
      BY Zenon DEF InsertIsMeant, keys, held
    <2>2. Meant(First(k))[Key] = k
      BY <1>9, <1>10 DEF KeyOf
    <2> QED
      BY <2>1, <2>2
  <1>13. ASSUME NEW r \in table PROVE Kept(r)' = Kept(r)
    <2> DEFINE k == r[Key]
    <2>1. CASE builder.conflict = "update" /\ ObjectsOf(k) # {}
      <3>1. PICK i \in 1 .. N : i = First(k)
        BY <1>9, <2>1
      <3>2. \A n \in 1 .. Len(builder.set) : \A c \in Stored :
              builder.set[n].column = c => Meant(i)'[c] = Meant(i)[c]
        BY <1>3, RedrawnAt
      <3>3. AfterConflict(r, i)' = AfterConflict(r, i)
        BY <1>1, <1>3, <1>6, <3>2, RedrawnConflict
      <3>4. First(k)' = i
        BY <1>8, <3>1
      <3> QED
        BY <1>5, <1>8, <3>1, <3>3, <3>4, SameMatches DEF Kept
    <2>2. CASE ~(builder.conflict = "update" /\ ObjectsOf(k) # {})
      BY <1>8, <2>2 DEF Kept
    <2> QED
      BY <2>1, <2>2
  <1> DEFINE old == {Kept(r) : r \in table} \cup {Meant(First(k)) : k \in keys \ held}
             new == {Kept(r)' : r \in table} \cup {Meant(First(k))' : k \in keys \ held}
  <1>14. table = old
    BY Zenon DEF InsertIsMeant, keys
  <1>15. InsertIsMeant(table, table)' <=> table = new
    <2>1. \A before, after : InsertIsMeant(before, after)' <=>
            after = {Kept(r)' : r \in before}
                    \cup {Meant(First(k))' : k \in {KeyOf(i)' : i \in 1 .. N} \ {r[Key] : r \in before}}
      BY DEF InsertIsMeant
    <2> QED
      BY <1>11, <2>1
  <1>16. new = old
    <2>1. {Meant(First(k))' : k \in keys \ held} = {} /\ {Meant(First(k)) : k \in keys \ held} = {}
      BY <1>12
    <2>2. {Kept(r)' : r \in table} = {Kept(r) : r \in table}
      BY <1>13
    <2> QED
      BY <2>1, <2>2
  <1> QED
    BY <1>14, <1>15, <1>16

LEMMA DoneRedrawn ==
  ASSUME WriteAssumption, IInv, Await
  PROVE  IsDone'
  <1>1. /\ builder' = builder /\ table' = table /\ again' = again /\ ~Throws(builder)
        /\ drawn' \in Draws(builder)
    BY DEF Await
  <1>2. SUFFICES ASSUME again, IsSettledIn(table)
                 PROVE  /\ builder.kind = "insert" => InsertIsMeant(table, table)'
                        /\ builder.kind = "update" =>
                             (\A r \in table : \A i \in ObjectsFor(r) :
                                With(r, builder.batch[i]) = r)'
    BY <1>1, SettledKept DEF IsDone
  <1>3. IsLasting(table) /\ drawn \in Draws(builder) /\ IsBuilder(builder) /\ IsTable(table)
    BY <1>2, DoneIs DEF IInv, DrawnFits
  <1>4. CASE builder.kind = "insert"
    <2>1. InsertIsMeant(table, table)
      BY <1>3, <1>4 DEF IsLasting
    <2> QED
      BY <1>1, <1>2, <1>3, <1>4, <2>1, Redrawn
  <1>5. CASE builder.kind # "insert"
    BY <1>1, <1>3, <1>5, SameObjectsFor, SameWith DEF IsLasting
  <1> QED
    BY <1>4, <1>5

(* Calls give builders.                                                        *)
LEMMA NoCondition == IsCondition(Raw("")) /\ ~Has(Raw("").parts, "sameKey")
  <1> DEFINE f == Raw("")
  <1>1. IsFragment(f) /\ Bound(f) = <<>>
    BY RawBinds
  <1> HIDE DEF f
  <1>2. /\ f \in [parts : Seq(Tokens), params : Seq(Tokens)]
        /\ HoleNumber(f.parts, Len(f.parts)) = Len(f.params)
    BY <1>1, Zenon DEF IsFragment, Fragments, Balanced
  <1>3. f.parts = <<>>
    <2>1. Len(Bound(f)) = Len(f.parts)
      BY <1>2 DEF Bound
    <2> QED
      BY <1>1, <1>2, <2>1
  <1>4. HoleNumber(f.parts, Len(f.parts)) = 0
    <2>1. {j \in 1 .. Len(f.parts) : f.parts[j] = Hole} = {}
      BY <1>3
    <2> QED
      BY <2>1, FS_EmptySet DEF HoleNumber
  <1>5. f.params = <<>>
    <2>1. f.params \in Seq(Tokens) /\ Len(f.params) = 0
      BY <1>2, <1>4
    <2> QED
      BY <2>1
  <1> DEFINE S == {"sameKey", "unset", "is", Hole}
  <1>6. f = [parts |-> f.parts, params |-> f.params]
    BY <1>2
  <1>7. f.parts \in Seq(S) /\ f.params \in Seq(Plain)
    <2> HIDE DEF S
    <2> QED
      BY <1>3, <1>5
  <1>8. f \in [parts : Seq(S), params : Seq(Plain)]
    <2> HIDE DEF S
    <2> QED
      BY <1>6, <1>7
  <1>9. ~Has(f.parts, "sameKey")
    BY <1>3 DEF Has
  <1> QED
    BY <1>2, <1>8, <1>9, Zenon DEF IsCondition, f

LEMMA NewIsBuilder ==
  ASSUME NEW kind \in {"none", "insert", "update", "values"}
  PROVE  IsBuilder(NewBuilder(kind))
  <1> DEFINE b == NewBuilder(kind)  nothing == Raw("")
  <1>1. /\ b = [kind |-> b.kind, calls |-> b.calls, batch |-> b.batch, fields |-> b.fields,
                conflict |-> b.conflict, set |-> b.set, where |-> b.where]
        /\ b.kind = kind /\ b.calls = {} /\ b.conflict = "none" /\ b.batch = <<>> /\ b.fields = <<>>
        /\ b.set = <<>> /\ b.where = nothing
    <2> HIDE DEF nothing
    <2> QED
      BY DEF NewBuilder, nothing
  <1> HIDE DEF b, nothing
  <1>2. IsBatch(b.batch) /\ b.fields \in Seq(ColumnSet) /\ IsSet(b.set)
    BY <1>1 DEF IsBatch, IsSet
  <1>3. IsCondition(b.where) /\ ~Has(b.where.parts, "sameKey") /\ b.where = Raw("")
    BY <1>1, NoCondition DEF nothing
  <1>4. IsBuilder(b)
    BY <1>1, <1>2, <1>3 DEF IsBuilder
  <1> QED
    BY <1>4 DEF b
BuilderOf(kind, calls, batch, fields, conflict, set, where) ==
  [kind |-> kind, calls |-> calls, batch |-> batch, fields |-> fields,
   conflict |-> conflict, set |-> set, where |-> where]

\* What a builder's parameters have in common.
AreParts(k, n, b, f, c, s, w) ==
  /\ k \in {"none", "insert", "update", "values"}
  /\ c \in {"none", "nothing", "update"}
  /\ IsBatch(b) /\ f \in Seq(ColumnSet)
  /\ IsSet(s) /\ IsCondition(w)
  /\ k = "insert" => f = <<>> /\ ~Has(w.parts, "sameKey")
  /\ k = "insert" /\ "where" \notin n => w = Raw("")
  /\ k # "insert" => c = "none"
  /\ c # "update" => s = <<>>
  /\ "conflict" \notin n => c = "none"
  /\ "fields" \in n => f \in Updates

LEMMA BuilderHas ==
  ASSUME NEW k, NEW n, NEW b, NEW f, NEW c, NEW s, NEW w
  PROVE  AreParts(k, n, b, f, c, s, w) <=> IsBuilder(BuilderOf(k, n, b, f, c, s, w))
  <1> DEFINE o == BuilderOf(k, n, b, f, c, s, w)
  <1>1. /\ o.kind = k /\ o.calls = n /\ o.batch = b /\ o.fields = f
        /\ o.conflict = c /\ o.set = s /\ o.where = w
    BY DEF BuilderOf
  <1>2. o = [kind |-> o.kind, calls |-> o.calls, batch |-> o.batch, fields |-> o.fields,
             conflict |-> o.conflict, set |-> o.set, where |-> o.where]
    BY <1>1 DEF BuilderOf
  <1> HIDE DEF o
  <1>3. AreParts(k, n, b, f, c, s, w) <=> IsBuilder(o)
    BY <1>1, <1>2 DEF IsBuilder, AreParts
  <1> QED
    BY <1>3 DEF o

\* The parameters of a builder.
IsMadeOf(o, k, n, b, f, c, s, w) ==
  /\ o = BuilderOf(k, n, b, f, c, s, w) /\ AreParts(k, n, b, f, c, s, w)
  /\ o.kind = k /\ o.calls = n /\ o.batch = b /\ o.fields = f
  /\ o.conflict = c /\ o.set = s /\ o.where = w

LEMMA BuilderParts ==
  ASSUME NEW o, IsBuilder(o)
  PROVE  \E k, n, b, f, c, s, w : IsMadeOf(o, k, n, b, f, c, s, w)
  <1>1. o = BuilderOf(o.kind, o.calls, o.batch, o.fields, o.conflict, o.set, o.where)
    BY DEF IsBuilder, BuilderOf
  <1>2. AreParts(o.kind, o.calls, o.batch, o.fields, o.conflict, o.set, o.where)
    BY DEF IsBuilder, AreParts
  <1>3. IsMadeOf(o, o.kind, o.calls, o.batch, o.fields, o.conflict, o.set, o.where)
    BY <1>1, <1>2, Zenon DEF IsMadeOf
  <1> QED
    BY <1>3, Zenon

--------------------------------------------------------------------------------
(* Each call gives a builder.                                                  *)
LEMMA CalledInsertValues ==
  ASSUME WriteAssumption, IsBuilder(builder), InsertValues
  PROVE  IsBuilder(builder')
  <1>1. PICK k, n, b, f, c, s, w : IsMadeOf(builder, k, n, b, f, c, s, w)
    BY BuilderParts, Zenon
  <1>2. PICK batch \in Batches : builder' = [[builder EXCEPT !.batch = batch]
                                               EXCEPT !.calls = @ \cup {"values"}]
    BY DEF InsertValues, Call
  <1> DEFINE called == n \cup {"values"}
  <1>3. [builder EXCEPT !.batch = batch] = BuilderOf(k, n, batch, f, c, s, w)
    BY <1>1 DEF BuilderOf, IsMadeOf
  <1>4. builder' = BuilderOf(k, called, batch, f, c, s, w)
    BY <1>2, <1>3 DEF BuilderOf
  <1>5. IsBatch(batch)
    BY DEF WriteAssumption
  <1>6. AreParts(k, called, batch, f, c, s, w)
    <2>1. /\ "where" \in n <=> "where" \in called
          /\ "conflict" \in n <=> "conflict" \in called
          /\ "fields" \in n <=> "fields" \in called
      OBVIOUS
    <2> HIDE DEF called
    <2> QED
      BY <1>1, <1>5, <2>1, Zenon DEF AreParts, IsMadeOf
  <1> QED
    BY <1>4, <1>6, BuilderHas, Zenon

LEMMA CalledDoNothing ==
  ASSUME IsBuilder(builder), OnConflictDoNothing
  PROVE  IsBuilder(builder')
  <1>1. PICK k, n, b, f, c, s, w : IsMadeOf(builder, k, n, b, f, c, s, w)
    BY BuilderParts, Zenon
  <1> DEFINE d == "nothing"  called == n \cup {"conflict"}
  <1>2. builder' = [[builder EXCEPT !.conflict = d] EXCEPT !.calls = @ \cup {"conflict"}]
    BY DEF OnConflictDoNothing, Call
  <1>3. d \in {"none", "nothing", "update"} /\ d # "update"
    OBVIOUS
  <1> HIDE DEF d
  <1>4. [builder EXCEPT !.conflict = d] = BuilderOf(k, n, b, f, d, s, w)
    BY <1>1 DEF BuilderOf, IsMadeOf
  <1>5. builder' = BuilderOf(k, called, b, f, d, s, w)
    BY <1>2, <1>4 DEF BuilderOf
  <1>6. k = "insert" /\ "conflict" \notin n
    BY <1>1 DEF OnConflictDoNothing, IsMadeOf
  <1>7. AreParts(k, called, b, f, d, s, w)
    <2>1. /\ "where" \in n <=> "where" \in called
          /\ "conflict" \in called
          /\ "fields" \in n <=> "fields" \in called
      OBVIOUS
    <2>2. s = <<>>
      BY <1>1, <1>6 DEF AreParts, IsMadeOf
    <2> HIDE DEF called
    <2> QED
      BY <1>1, <1>3, <1>6, <2>1, <2>2, Zenon DEF AreParts, IsMadeOf
  <1> QED
    BY <1>5, <1>7, BuilderHas, Zenon

LEMMA CalledDoUpdateSet ==
  ASSUME WriteAssumption, IsBuilder(builder), OnConflictDoUpdateSet
  PROVE  IsBuilder(builder')
  <1>1. PICK k, n, b, f, c, s, w : IsMadeOf(builder, k, n, b, f, c, s, w)
    BY BuilderParts, Zenon
  <1> DEFINE d == "update"  also == n \cup {"where"}  called == n \cup {"conflict"}
             both == also \cup {"conflict"}
             Chosen(set) == [builder EXCEPT !.conflict = d, !.set = set]
             Limited(set, where) == [Chosen(set) EXCEPT !.where = where,
                                                        !.calls = @ \cup {"where"}]
  <1>2. k = "insert" /\ builder.calls = n
    BY <1>1 DEF OnConflictDoUpdateSet, IsMadeOf
  <1>3. d \in {"none", "nothing", "update"} /\ d = "update"
    OBVIOUS
  <1>4. PICK set \in Sets :
          \/ builder' = [Chosen(set) EXCEPT !.calls = @ \cup {"conflict"}]
          \/ \E where \in Wheres :
               /\ ~Has(where.parts, "sameKey")
               /\ builder' = [Limited(set, where) EXCEPT !.calls = @ \cup {"conflict"}]
    BY Zenon DEF OnConflictDoUpdateSet, Call
  <1>5. IsSet(set) /\ \A where \in Wheres : IsCondition(where)
    BY DEF WriteAssumption
  <1> HIDE DEF d
  <1>6. [builder EXCEPT !.conflict = d] = BuilderOf(k, n, b, f, d, s, w)
    BY <1>1 DEF BuilderOf, IsMadeOf
  <1>7. Chosen(set) = BuilderOf(k, n, b, f, d, set, w)
    <2>1. Chosen(set) = [[builder EXCEPT !.conflict = d] EXCEPT !.set = set]
      OBVIOUS
    <2>2. [BuilderOf(k, n, b, f, d, s, w) EXCEPT !.set = set] = BuilderOf(k, n, b, f, d, set, w)
      BY DEF BuilderOf
    <2> HIDE DEF Chosen
    <2> QED
      BY <1>6, <2>1, <2>2, Zenon
  <1>8. CASE builder' = [Chosen(set) EXCEPT !.calls = @ \cup {"conflict"}]
    <2>1. builder' = BuilderOf(k, called, b, f, d, set, w)
      <3> HIDE DEF Chosen
      <3> QED
        BY <1>7, <1>8 DEF BuilderOf
    <2>2. AreParts(k, called, b, f, d, set, w)
      <3>1. /\ "where" \in n <=> "where" \in called
            /\ "conflict" \in called
            /\ "fields" \in n <=> "fields" \in called
        OBVIOUS
      <3> HIDE DEF called
      <3> QED
        BY <1>1, <1>2, <1>3, <1>5, <3>1, Zenon DEF AreParts, IsMadeOf
    <2> QED
      BY <2>1, <2>2, BuilderHas, Zenon
  <1>9. ASSUME NEW where \in Wheres, ~Has(where.parts, "sameKey"),
               builder' = [Limited(set, where) EXCEPT !.calls = @ \cup {"conflict"}]
        PROVE  IsBuilder(builder')
    <2> DEFINE aimed == [Chosen(set) EXCEPT !.where = where]
    <2>1. aimed = BuilderOf(k, n, b, f, d, set, where)
      <3> HIDE DEF Chosen
      <3> QED
        BY <1>7 DEF BuilderOf
    <2>2. Limited(set, where) = BuilderOf(k, also, b, f, d, set, where)
      <3>1. Limited(set, where) = [aimed EXCEPT !.calls = @ \cup {"where"}]
        <4> HIDE DEF Chosen
        <4> QED
          OBVIOUS
      <3> HIDE DEF Limited, aimed
      <3> QED
        BY <2>1, <3>1 DEF BuilderOf
    <2>3. builder' = BuilderOf(k, both, b, f, d, set, where)
      <3> HIDE DEF Limited, also
      <3> QED
        BY <1>9, <2>2 DEF BuilderOf
    <2>4. AreParts(k, both, b, f, d, set, where)
      <3>1. "where" \in both /\ "conflict" \in both /\ ("fields" \in n <=> "fields" \in both)
        OBVIOUS
      <3> HIDE DEF both
      <3> QED
        BY <1>1, <1>2, <1>3, <1>5, <1>9, <3>1, Zenon DEF AreParts, IsMadeOf
    <2> QED
      BY <2>3, <2>4, BuilderHas, Zenon
  <1> QED
    BY <1>4, <1>8, <1>9

LEMMA CalledSetFields ==
  ASSUME WriteAssumption, IsBuilder(builder), SetFields
  PROVE  IsBuilder(builder')
  <1>1. PICK k, n, b, f, c, s, w : IsMadeOf(builder, k, n, b, f, c, s, w)
    BY BuilderParts, Zenon
  <1>2. PICK fields \in Updates : builder' = [[builder EXCEPT !.fields = fields]
                                                EXCEPT !.calls = @ \cup {"fields"}]
    BY DEF SetFields, Call
  <1> DEFINE called == n \cup {"fields"}
  <1>3. [builder EXCEPT !.fields = fields] = BuilderOf(k, n, b, fields, c, s, w)
    BY <1>1 DEF BuilderOf, IsMadeOf
  <1>4. builder' = BuilderOf(k, called, b, fields, c, s, w)
    BY <1>2, <1>3 DEF BuilderOf
  <1>5. fields \in Seq(ColumnSet) /\ k # "insert"
    BY <1>1 DEF WriteAssumption, SetFields, IsMadeOf
  <1>6. AreParts(k, called, b, fields, c, s, w)
    <2>1. /\ "where" \in n <=> "where" \in called
          /\ "conflict" \in n <=> "conflict" \in called
      OBVIOUS
    <2> HIDE DEF called
    <2> QED
      BY <1>1, <1>5, <2>1, Zenon DEF AreParts, IsMadeOf
  <1> QED
    BY <1>4, <1>6, BuilderHas, Zenon

LEMMA CalledChangeValues ==
  ASSUME WriteAssumption, IsBuilder(builder), ChangeValues
  PROVE  IsBuilder(builder')
  <1>1. PICK k, n, b, f, c, s, w : IsMadeOf(builder, k, n, b, f, c, s, w)
    BY BuilderParts, Zenon
  <1>2. PICK batch \in Changes(builder.fields) :
          builder' = [[builder EXCEPT !.batch = batch] EXCEPT !.calls = @ \cup {"values"}]
    BY DEF ChangeValues, Call
  <1> DEFINE called == n \cup {"values"}
  <1>3. [builder EXCEPT !.batch = batch] = BuilderOf(k, n, batch, f, c, s, w)
    BY <1>1 DEF BuilderOf, IsMadeOf
  <1>4. builder' = BuilderOf(k, called, batch, f, c, s, w)
    BY <1>2, <1>3 DEF BuilderOf
  <1>5. builder.fields \in Updates
    BY <1>1, Zenon DEF ChangeValues, AreParts, IsMadeOf
  <1>6. IsBatch(batch)
    BY <1>5 DEF WriteAssumption
  <1>7. AreParts(k, called, batch, f, c, s, w)
    <2>1. /\ "where" \in n <=> "where" \in called
          /\ "conflict" \in n <=> "conflict" \in called
          /\ "fields" \in n <=> "fields" \in called
      OBVIOUS
    <2> HIDE DEF called
    <2> QED
      BY <1>1, <1>6, <2>1, Zenon DEF AreParts, IsMadeOf
  <1> QED
    BY <1>4, <1>7, BuilderHas, Zenon

LEMMA CalledWhere ==
  ASSUME WriteAssumption, IsBuilder(builder), Where
  PROVE  IsBuilder(builder')
  <1>1. PICK k, n, b, f, c, s, w : IsMadeOf(builder, k, n, b, f, c, s, w)
    BY BuilderParts, Zenon
  <1>2. PICK where \in Wheres :
          builder' = [[builder EXCEPT !.where = where] EXCEPT !.calls = @ \cup {"where"}]
    BY DEF Where, Call
  <1> DEFINE called == n \cup {"where"}
  <1>3. [builder EXCEPT !.where = where] = BuilderOf(k, n, b, f, c, s, where)
    BY <1>1 DEF BuilderOf, IsMadeOf
  <1>4. builder' = BuilderOf(k, called, b, f, c, s, where)
    BY <1>2, <1>3 DEF BuilderOf
  <1>5. IsCondition(where) /\ k # "insert"
    BY <1>1 DEF WriteAssumption, Where, IsMadeOf
  <1>6. AreParts(k, called, b, f, c, s, where)
    <2>1. /\ "conflict" \in n <=> "conflict" \in called
          /\ "fields" \in n <=> "fields" \in called
      OBVIOUS
    <2> HIDE DEF called
    <2> QED
      BY <1>1, <1>5, <2>1, Zenon DEF AreParts, IsMadeOf
  <1> QED
    BY <1>4, <1>6, BuilderHas, Zenon

--------------------------------------------------------------------------------
(* The invariant, and the properties that follow from it.                      *)

(* The inductive invariant.                                                    *)
LEMMA Assumed == WriteAssumption
  BY WriteAssumption

LEMMA InitInvariant == Init => IInv
  <1> SUFFICES ASSUME Init PROVE IInv
    OBVIOUS
  <1>1. IsFiniteSet(table) /\ IsTable(table)
    BY Assumed DEF Init, WriteAssumption
  <1>2. IsBuilder(builder)
    BY NewIsBuilder DEF Init
  <1>3. answer = "none" /\ ~again
    BY DEF Init
  <1>4. SentIsPrinted /\ DrawnFits /\ RefusedForCause /\ IsDone
    BY <1>3 DEF SentIsPrinted, DrawnFits, RefusedForCause, IsDone
  <1> QED
    BY <1>1, <1>2, <1>4 DEF IInv

\* The actions that give a builder and leave the database alone.
IsCalled ==
  \/ \E kind \in {"insert", "update", "values"} : Begin(kind)
  \/ InsertValues \/ OnConflictDoNothing \/ OnConflictDoUpdateSet
  \/ SetFields \/ ChangeValues \/ Where

LEMMA CalledInvariant ==
  ASSUME IInv, IsCalled
  PROVE  IInv'
  <1>1. answer' = "none" /\ again' = FALSE /\ table' = table
    BY Zenon DEF IsCalled, Begin, InsertValues, OnConflictDoNothing, OnConflictDoUpdateSet, SetFields,
       ChangeValues, Where, Call
  <1>2. IsFiniteSet(table)' /\ IsTable(table)'
    BY <1>1 DEF IInv
  <1>3. IsBuilder(builder')
    <2>1. CASE \E kind \in {"insert", "update", "values"} : Begin(kind)
      <3>1. PICK kind \in {"insert", "update", "values"} : builder' = NewBuilder(kind)
        BY <2>1 DEF Begin
      <3> QED
        BY <3>1, NewIsBuilder
    <2>2. IsBuilder(builder)
      BY DEF IInv
    <2> QED
      BY <2>1, <2>2, Assumed, CalledInsertValues, CalledDoNothing, CalledDoUpdateSet, CalledSetFields,
         CalledChangeValues, CalledWhere DEF IsCalled
  <1>4. SentIsPrinted' /\ DrawnFits' /\ RefusedForCause' /\ IsDone'
    BY <1>1 DEF SentIsPrinted, DrawnFits, RefusedForCause, IsDone
  <1> QED
    BY <1>2, <1>3, <1>4 DEF IInv

LEMMA KeptInvariant ==
  ASSUME IInv, AwaitThrows \/ AwaitEmptyInsert \/ Await \/ Refuse \/ ReadValues
  PROVE  IInv'
  <1>1. builder' = builder /\ table' = table /\ again' = again
    BY DEF AwaitThrows, AwaitEmptyInsert, Await, Refuse, ReadValues
  <1>2. /\ IsFiniteSet(table)' /\ IsTable(table)' /\ IsBuilder(builder)'
    BY <1>1 DEF IInv
  <1>3. SentIsPrinted'
    <2>1. CASE Await
      BY <1>1, <2>1 DEF Await, CanAwait, SentIsPrinted
    <2>2. CASE ~Await
      <3>1. answer' # "sent"
        BY <2>2 DEF AwaitThrows, AwaitEmptyInsert, Refuse, ReadValues
      <3> QED
        BY <3>1 DEF SentIsPrinted
    <2> QED
      BY <2>1, <2>2
  <1>4. RefusedForCause'
    <2>1. CASE Refuse
      <3>1. answer = "sent" /\ MayBeRefused
        BY <2>1 DEF Refuse, MayBeRefused
      <3>2. IsRefusable
        BY <3>1, Assumed, RefuseCause
      <3> QED
        BY <1>1, <2>1, <3>2, SameRefusable DEF RefusedForCause, Refuse
    <2>2. CASE ~Refuse
      <3>1. answer' # "refused"
        BY <2>2 DEF AwaitThrows, AwaitEmptyInsert, Await, ReadValues
      <3> QED
        BY <3>1 DEF RefusedForCause
    <2> QED
      BY <2>1, <2>2
  <1>5. again /\ IsSettledIn(table) => IsLasting(table)
    BY DoneIs DEF IInv
  <1>6. DrawnFits'
    <2>1. CASE Await
      BY <1>1, <2>1 DEF Await, DrawnFits
    <2>2. CASE ~Await
      <3>1. answer' # "sent" /\ drawn' = drawn
        BY <2>2 DEF AwaitThrows, AwaitEmptyInsert, Refuse, ReadValues
      <3> QED
        BY <1>1, <3>1 DEF IInv, DrawnFits
    <2> QED
      BY <2>1, <2>2
  <1>7. IsDone'
    <2>1. CASE Await
      BY <2>1, Assumed, DoneRedrawn
    <2>2. CASE ~Await
      <3>1. drawn' = drawn
        BY <2>2 DEF AwaitThrows, AwaitEmptyInsert, Refuse, ReadValues
      <3> QED
        BY <1>1, <1>5, <3>1, DoneKept
    <2> QED
      BY <2>1, <2>2
  <1> QED
    BY <1>2, <1>3, <1>4, <1>6, <1>7 DEF IInv

LEMMA ExecuteInvariant ==
  ASSUME IInv, Execute
  PROVE  IInv'
  <1>1. /\ builder' = builder /\ answer' = "done" /\ drawn' = drawn
        /\ answer = "sent" /\ builder.kind \in {"insert", "update"}
        /\ IsRunnable(sent) /\ table' \in Candidates(sent) /\ Accepts(table')
    BY DEF Execute
  <1>2. IsFiniteSet(table') /\ IsTable(table') /\ (IsSettledIn(table') => IsLasting(table'))
    BY <1>1, Assumed, ExecuteLeaves
  <1>3. IsBuilder(builder')
    BY <1>1 DEF IInv
  <1>4. SentIsPrinted' /\ RefusedForCause'
    BY <1>1 DEF SentIsPrinted, RefusedForCause
  <1>5. IsDone'
    BY <1>1, <1>2, DoneKept
  <1>6. DrawnFits'
    BY <1>1 DEF IInv, DrawnFits
  <1> QED
    BY <1>2, <1>3, <1>4, <1>5, <1>6 DEF IInv

LEMMA NextInvariant == IInv /\ [Next]_vars => IInv'
  <1> SUFFICES ASSUME IInv, [Next]_vars PROVE IInv'
    OBVIOUS
  <1>1. CASE UNCHANGED vars
    <2>1. /\ builder' = builder /\ table' = table /\ again' = again /\ answer' = answer
          /\ sent' = sent /\ drawn' = drawn
      BY <1>1 DEF vars
    <2>2. /\ IsFiniteSet(table)' /\ IsTable(table)' /\ IsBuilder(builder)' /\ SentIsPrinted'
          /\ DrawnFits'
      BY <2>1 DEF IInv, SentIsPrinted, DrawnFits
    <2>3. RefusedForCause'
      BY <2>1, SameRefusable DEF IInv, RefusedForCause
    <2>4. again /\ IsSettledIn(table) => IsLasting(table)
      BY DoneIs DEF IInv
    <2>5. IsDone'
      BY <2>1, <2>4, DoneKept
    <2> QED
      BY <2>2, <2>3, <2>5 DEF IInv
  <1>2. CASE IsCalled
    BY <1>2, CalledInvariant
  <1>3. CASE AwaitThrows \/ AwaitEmptyInsert \/ Await \/ Refuse \/ ReadValues
    BY <1>3, KeptInvariant
  <1>4. CASE Execute
    BY <1>4, ExecuteInvariant
  <1> QED
    BY <1>1, <1>2, <1>3, <1>4 DEF Next, IsCalled

(* The inductive invariant holds in every state.                               *)
THEOREM WriteInvariant == Spec => []IInv
  BY InitInvariant, NextInvariant, PTL DEF Spec

(* A statement that was sent is refused for what the objects ask only.         *)
THEOREM RefusalsHaveCause == Spec => []RefusedForCause
  <1>1. IInv => RefusedForCause
    BY DEF IInv
  <1> QED
    BY <1>1, WriteInvariant, PTL

(* What a write leaves, and leaves again.                                      *)
LEMMA ExecutedAsMeant ==
  ASSUME IInv, Execute
  PROVE  /\ builder.kind = "insert" /\ ~MovesKeys => InsertIsMeant(table, table')
         /\ builder.kind = "update" => UpdateIsMeant(table, table')
         /\ builder.kind \in {"insert", "update"}
  <1>1. /\ answer = "sent" /\ builder.kind \in {"insert", "update"}
        /\ IsRunnable(sent) /\ table' \in Candidates(sent) /\ Accepts(table')
    BY DEF Execute
  <1> QED
    BY <1>1, Assumed, ExecuteLeaves

LEMMA ReadAsMeant ==
  ASSUME IInv, ReadValues
  PROVE  /\ builder.kind = "values"
         /\ result' = [i \in 1 .. Len(builder.batch) |->
                         [c \in Range(builder.fields) |-> OrNone(At(builder.batch[i], c))]]
  <1>1. /\ IsBuilder(builder) /\ builder.kind = "values"
        /\ ~Throws(builder) /\ sent = Printed(builder)
    BY DEF IInv, SentIsPrinted, ReadValues
  <1>2. result' = [i \in 1 .. Len(TuplesOf(sent)) |->
                     Named(ListOf(sent, "NAMES"), TuplesOf(sent)[i])]
    BY DEF ReadValues
  <1> QED
    BY <1>1, <1>2, Assumed, ValuesRead, Zenon

(* Whatever a batch leaves out and wherever its values stand in the text, the  *)
(* table ends up with the rows the objects mean, and a table of values reads   *)
(* back as its rows.                                                           *)
THEOREM WritesAreMeant == Spec => WritesWhatWasMeant
  <1> DEFINE AsMeant ==
        answer = "sent" /\ answer' = "done" =>
          CASE builder.kind = "insert" -> ~MovesKeys => InsertIsMeant(table, table')
            [] builder.kind = "update" -> UpdateIsMeant(table, table')
            [] builder.kind = "values" ->
                 result' = [i \in 1 .. Len(builder.batch) |->
                              [c \in Range(builder.fields) |->
                                 OrNone(At(builder.batch[i], c))]]
  <1>1. ASSUME IInv, Next PROVE AsMeant
    <2>1. CASE Execute
      BY <1>1, <2>1, ExecutedAsMeant, Zenon
    <2>2. CASE ReadValues
      BY <1>1, <2>2, ReadAsMeant, Zenon
    <2>3. CASE ~Execute /\ ~ReadValues
      <3>1. ~(answer = "sent" /\ answer' = "done")
        BY <1>1, <2>3 DEF Next, Begin, InsertValues, OnConflictDoNothing, OnConflictDoUpdateSet,
           SetFields, ChangeValues, Where, Call, AwaitThrows, AwaitEmptyInsert, Await, Refuse,
           CanAwait, IsIdle
      <3> QED
        BY <3>1
    <2> QED
      BY <2>1, <2>2, <2>3
  <1>2. IInv /\ [Next]_vars => [AsMeant]_vars
    BY <1>1
  <1> HIDE DEF AsMeant
  <1>3. Spec => [][AsMeant]_vars
    BY <1>2, WriteInvariant, PTL DEF Spec
  <1> QED
    BY <1>3, PTL DEF AsMeant, WritesWhatWasMeant

LEMMA RunAgain ==
  ASSUME IInv, Execute, again, IsSettled
  PROVE  table' = table
  <1>1. IsDone
    BY DEF IInv
  <1>2. CASE builder.kind = "insert"
    <2>1. ~MovesKeys
      <3>1. builder.set = <<>> \/ builder.conflict = "update"
        BY DEF IInv, IsBuilder
      <3> QED
        BY <1>2, <3>1 DEF IsSettled, MovesKeys
    <2>2. InsertIsMeant(table, table') /\ InsertIsMeant(table, table)
      BY <1>1, <1>2, <2>1, ExecutedAsMeant DEF IsDone
    <2> DEFINE keys == {KeyOf(i) : i \in 1 .. Len(builder.batch)}
               all  == {Kept(r) : r \in table}
                       \cup {Meant(First(k)) : k \in keys \ {r[Key] : r \in table}}
    <2>3. table' = all /\ table = all
      BY <2>2, Zenon DEF InsertIsMeant
    <2> HIDE DEF all
    <2> QED
      BY <2>3
  <1>3. CASE builder.kind = "update"
    <2> DEFINE IsLeft(r, s) == IF ObjectsFor(r) = {} THEN s = r
                               ELSE \E i \in ObjectsFor(r) : s = With(r, builder.batch[i])
    <2>1. \A r \in table : \A i \in ObjectsFor(r) : With(r, builder.batch[i]) = r
      BY <1>1, <1>3 DEF IsDone
    <2>2. UpdateIsMeant(table, table')
      BY <1>3, ExecutedAsMeant
    <2>3. /\ \A r \in table : \E s \in table' : IsLeft(r, s)
          /\ \A s \in table' : \E r \in table : IsLeft(r, s)
      BY <2>2, Zenon DEF UpdateIsMeant
    <2>4. \A r \in table : \A s : IsLeft(r, s) => s = r
      BY <2>1
    <2> HIDE DEF IsLeft
    <2> QED
      BY <2>3, <2>4
  <1> QED
    BY <1>2, <1>3, ExecutedAsMeant

(* A builder that is awaited once more, with nothing else written in between,  *)
(* leaves the table as its first run left it.                                  *)
THEOREM RetriesAreHarmless == Spec => RetryIsHarmless
  <1> DEFINE Harmless == again /\ answer = "sent" /\ IsSettled => table' = table
  <1>1. ASSUME IInv, Next PROVE Harmless
    <2>1. CASE Execute
      BY <1>1, <2>1, RunAgain
    <2>2. CASE ~Execute
      <3>1. table' = table
        BY <1>1, <2>2 DEF Next, Begin, InsertValues, OnConflictDoNothing, OnConflictDoUpdateSet,
           SetFields, ChangeValues, Where, Call, AwaitThrows, AwaitEmptyInsert, Await, Refuse,
           ReadValues
      <3> QED
        BY <3>1
    <2> QED
      BY <2>1, <2>2
  <1>2. IInv /\ [Next]_vars => [Harmless]_vars
    BY <1>1
  <1> HIDE DEF Harmless
  <1>3. Spec => [][Harmless]_vars
    BY <1>2, WriteInvariant, PTL DEF Spec
  <1> QED
    BY <1>3 DEF Harmless, RetryIsHarmless
================================================================================
