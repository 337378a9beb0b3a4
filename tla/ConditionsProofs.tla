--------------------------- MODULE ConditionsProofs ----------------------------
(* Theorems about Conditions: whatever tests there are, and whatever is built  *)
(* out of them, a text selects the rows its calls ask for.                     *)
EXTENDS Conditions, SequenceTheorems, TLAPS

--------------------------------------------------------------------------------
(* Truth values.                                                               *)

LEMMA BoolType == ASSUME NEW b \in BOOLEAN PROVE Bool(b) \in Truth3
  BY DEF Bool, Truth3

LEMMA AllType == ASSUME NEW S PROVE All3(S) \in Truth3
  BY DEF All3, Truth3

LEMMA SomeType == ASSUME NEW S PROVE Some3(S) \in Truth3
  BY DEF Some3, Truth3

LEMMA AllUnit == ASSUME NEW t \in Truth3 PROVE All3({t}) = t
  BY DEF All3, Truth3

LEMMA SomeUnit == ASSUME NEW t \in Truth3 PROVE Some3({t}) = t
  BY DEF Some3, Truth3

(* The conjunction of two sets is that of their conjunctions.                  *)
LEMMA AllUnion ==
  ASSUME NEW S, NEW T PROVE All3(S \cup T) = All3({All3(S), All3(T)})
  BY DEF All3

LEMMA SomeUnion ==
  ASSUME NEW S, NEW T PROVE Some3(S \cup T) = Some3({Some3(S), Some3(T)})
  BY DEF Some3

--------------------------------------------------------------------------------
(* Texts.                                                                      *)

LEMMA TruthType == ASSUME NEW text PROVE Truth(text) \in Truths
  BY SomeType DEF Truth, Truths

LEMMA TextLength ==
  ASSUME NEW text \in Text
  PROVE /\ Len(text) \in Nat \ {0} /\ DOMAIN text = 1 .. Len(text)
        /\ \A i \in 1 .. Len(text) : text[i] \in Conjunct
  BY DEF Text

LEMMA ConjunctLength ==
  ASSUME NEW c \in Conjunct
  PROVE /\ Len(c) \in Nat \ {0} /\ DOMAIN c = 1 .. Len(c)
        /\ \A j \in 1 .. Len(c) : c[j] \in Factor
  BY DEF Conjunct

LEMMA SingleText ==
  ASSUME NEW f \in Factor
  PROVE Single(f) \in Text /\ Truth(Single(f)) = f
<1>1. <<f>> \in Conjunct
  BY DEF Conjunct
<1>2. Single(f) \in Text
  BY <1>1 DEF Single, Text
<1>3. ASSUME NEW row \in Row
      PROVE Truth(Single(f))[row] = f[row]
  <2>1. f[row] \in Truth3
    BY DEF Factor, Truths
  <2>2. ConjunctTruth(<<f>>, row) = f[row]
    <3>1. {<<f>>[j][row] : j \in DOMAIN <<f>>} = {f[row]}
      OBVIOUS
    <3> QED  BY <3>1, <2>1, AllUnit DEF ConjunctTruth
  <2>3. {ConjunctTruth(Single(f)[i], row) : i \in DOMAIN Single(f)} = {f[row]}
    BY <2>2 DEF Single
  <2> QED  BY <2>1, <2>3, SomeUnit DEF Truth
<1>4. Truth(Single(f)) \in [Row -> Truth3] /\ f \in [Row -> Truth3]
  BY TruthType DEF Factor, Truths
<1> QED  BY <1>2, <1>3, <1>4

(* Two factors with AND between them.                                          *)
LEMMA PairText ==
  ASSUME NEW f \in Factor, NEW g \in Factor
  PROVE /\ << <<f, g>> >> \in Text
        /\ \A row \in Row : Truth(<< <<f, g>> >>)[row] = All3({f[row], g[row]})
<1>1. <<f, g>> \in Conjunct
  BY DEF Conjunct
<1>2. << <<f, g>> >> \in Text
  BY <1>1 DEF Text
<1>3. ASSUME NEW row \in Row
      PROVE Truth(<< <<f, g>> >>)[row] = All3({f[row], g[row]})
  <2>1. {<<f, g>>[j][row] : j \in DOMAIN <<f, g>>} = {f[row], g[row]}
    OBVIOUS
  <2>2. ConjunctTruth(<<f, g>>, row) = All3({f[row], g[row]})
    BY <2>1 DEF ConjunctTruth
  <2>3. {ConjunctTruth(<< <<f, g>> >>[i], row) : i \in DOMAIN << <<f, g>> >>}
          = {All3({f[row], g[row]})}
    BY <2>2
  <2> QED  BY <2>3, AllType, SomeUnit DEF Truth
<1> QED  BY <1>2, <1>3

(* Texts with OR between them.                                                 *)
LEMMA OrText ==
  ASSUME NEW a \in Text, NEW b \in Text
  PROVE /\ a \o b \in Text
        /\ \A row \in Row :
             Truth(a \o b)[row] = Some3({Truth(a)[row], Truth(b)[row]})
<1>1. a \o b \in Text
  BY DEF Text
<1>2. ASSUME NEW row \in Row
      PROVE Truth(a \o b)[row] = Some3({Truth(a)[row], Truth(b)[row]})
  <2> DEFINE Of(t) == {ConjunctTruth(t[i], row) : i \in DOMAIN t}
  <2>1. Of(a \o b) = Of(a) \cup Of(b)
    <3>1. /\ Len(a \o b) = Len(a) + Len(b)
          /\ \A i \in 1 .. Len(a) : (a \o b)[i] = a[i]
          /\ \A i \in 1 .. Len(b) : (a \o b)[Len(a) + i] = b[i]
      BY DEF Text
    <3>2. Of(a) \cup Of(b) \subseteq Of(a \o b)
      <4>1. \A i \in 1 .. Len(a) : i \in DOMAIN (a \o b)
        BY <3>1, <1>1, TextLength
      <4>2. \A i \in 1 .. Len(b) : Len(a) + i \in DOMAIN (a \o b)
        BY <3>1, <1>1, TextLength
      <4>3. Of(a) \subseteq Of(a \o b)
        BY <4>1, <3>1, TextLength
      <4>4. Of(b) \subseteq Of(a \o b)
        BY <4>2, <3>1, TextLength
      <4> QED  BY <4>3, <4>4
    <3>3. Of(a \o b) \subseteq Of(a) \cup Of(b)
      <4> SUFFICES ASSUME NEW i \in 1 .. Len(a \o b)
                   PROVE ConjunctTruth((a \o b)[i], row) \in Of(a) \cup Of(b)
        BY <1>1, TextLength
      <4>1. CASE i <= Len(a)
        BY <4>1, <3>1, TextLength
      <4>2. CASE i > Len(a)
        <5>1. i - Len(a) \in 1 .. Len(b) /\ i = Len(a) + (i - Len(a))
          BY <4>2, <3>1, TextLength
        <5>2. (a \o b)[i] = b[i - Len(a)]
          BY <5>1, <3>1
        <5> QED  BY <5>1, <5>2, TextLength
      <4> QED  BY <4>1, <4>2, TextLength
    <3> QED  BY <3>2, <3>3
  <2>2. Some3(Of(a) \cup Of(b)) = Some3({Some3(Of(a)), Some3(Of(b))})
    BY SomeUnion
  <2> QED  BY <2>1, <2>2 DEF Truth
<1> QED  BY <1>1, <1>2

(* Texts with AND between them, neither with an OR outside of brackets.        *)
LEMMA BesideText ==
  ASSUME NEW a \in Text, NEW b \in Text
  PROVE /\ Beside(a, b) \in Text
        /\ ~ Loose(a) /\ ~ Loose(b) =>
             \A row \in Row :
               Truth(Beside(a, b))[row] = All3({Truth(a)[row], Truth(b)[row]})
<1> DEFINE middle == a[Len(a)] \o b[1]
<1>1. a[Len(a)] \in Conjunct /\ b[1] \in Conjunct
  BY TextLength
<1>2. middle \in Conjunct
  BY <1>1 DEF Conjunct
<1>3. Beside(a, b) \in Text
  <2>1. SubSeq(a, 1, Len(a) - 1) \in Seq(Conjunct) /\ SubSeq(b, 2, Len(b)) \in Seq(Conjunct)
    BY DEF Text
  <2> HIDE DEF middle
  <2>2. SubSeq(a, 1, Len(a) - 1) \o <<middle>> \o SubSeq(b, 2, Len(b)) \in Text
    BY <2>1, <1>2 DEF Text
  <2> QED  BY <2>2 DEF Beside, middle
<1>4. ASSUME ~ Loose(a), ~ Loose(b), NEW row \in Row
      PROVE Truth(Beside(a, b))[row] = All3({Truth(a)[row], Truth(b)[row]})
  <2> DEFINE Of(c) == {c[j][row] : j \in DOMAIN c}
  <2>1. Len(a) = 1 /\ Len(b) = 1
    <3>1. ~ (Len(a) > 1) /\ ~ (Len(b) > 1)
      BY <1>4 DEF Loose
    <3>2. Len(a) \in Nat \ {0} /\ Len(b) \in Nat \ {0}
      BY TextLength
    <3>3. \A n \in Nat \ {0} : ~ (n > 1) => n = 1
      OBVIOUS
    <3> QED  BY <3>1, <3>2, <3>3
  <2>2. ASSUME NEW t \in Text, Len(t) = 1
        PROVE Truth(t)[row] = ConjunctTruth(t[1], row)
    <3>1. {ConjunctTruth(t[i], row) : i \in DOMAIN t} = {ConjunctTruth(t[1], row)}
      BY <2>2, TextLength
    <3> QED  BY <3>1, AllType, SomeUnit DEF Truth, ConjunctTruth
  <2>3. Len(Beside(a, b)) = 1 /\ Beside(a, b)[1] = a[1] \o b[1]
    <3>1. SubSeq(a, 1, 0) = << >> /\ SubSeq(b, 2, 1) = << >>
      BY DEF Text
    <3> QED  BY <3>1, <2>1 DEF Beside
  <2>4. Of(a[1] \o b[1]) = Of(a[1]) \cup Of(b[1])
    <3> DEFINE c == a[1]  d == b[1]
    <3>0. c \in Conjunct /\ d \in Conjunct /\ c \o d \in Conjunct
      BY <1>1, <1>2, <2>1
    <3> HIDE DEF c, d
    <3>1. /\ Len(c \o d) = Len(c) + Len(d)
          /\ \A i \in 1 .. Len(c) : (c \o d)[i] = c[i]
          /\ \A i \in 1 .. Len(d) : (c \o d)[Len(c) + i] = d[i]
      BY <3>0 DEF Conjunct
    <3>2. Of(c) \cup Of(d) \subseteq Of(c \o d)
      <4>1. \A i \in 1 .. Len(c) : i \in DOMAIN (c \o d)
        BY <3>0, <3>1, ConjunctLength
      <4>2. \A i \in 1 .. Len(d) : Len(c) + i \in DOMAIN (c \o d)
        BY <3>0, <3>1, ConjunctLength
      <4>3. Of(c) \subseteq Of(c \o d)
        BY <4>1, <3>0, <3>1, ConjunctLength
      <4>4. Of(d) \subseteq Of(c \o d)
        BY <4>2, <3>0, <3>1, ConjunctLength
      <4> QED  BY <4>3, <4>4
    <3>3. Of(c \o d) \subseteq Of(c) \cup Of(d)
      <4> SUFFICES ASSUME NEW i \in 1 .. Len(c \o d)
                   PROVE (c \o d)[i][row] \in Of(c) \cup Of(d)
        BY <3>0, ConjunctLength
      <4>1. CASE i <= Len(c)
        BY <4>1, <3>0, <3>1, ConjunctLength
      <4>2. CASE i > Len(c)
        <5>1. i - Len(c) \in 1 .. Len(d) /\ i = Len(c) + (i - Len(c))
          BY <4>2, <3>0, <3>1, ConjunctLength
        <5>2. (c \o d)[i] = d[i - Len(c)]
          BY <5>1, <3>1
        <5> QED  BY <5>1, <5>2, <3>0, ConjunctLength
      <4> QED  BY <4>1, <4>2, <3>0, ConjunctLength
    <3>4. Of(c \o d) = Of(c) \cup Of(d)
      BY <3>2, <3>3
    <3> QED  BY <3>4 DEF c, d
  <2>5. ConjunctTruth(a[1] \o b[1], row)
          = All3({ConjunctTruth(a[1], row), ConjunctTruth(b[1], row)})
    BY <2>4, AllUnion DEF ConjunctTruth
  <2> QED  BY <1>3, <2>1, <2>2, <2>3, <2>5
<1> QED  BY <1>3, <1>4

--------------------------------------------------------------------------------
(* Trees.                                                                      *)

LEMMA ForestLength ==
  ASSUME NEW q, IsForest(q)
  PROVE Len(q) \in Nat /\ DOMAIN q = 1 .. Len(q)
<1> DEFINE S == {q[n] : n \in DOMAIN q}
<1>1. q \in Seq(S)
  BY DEF IsForest
<1> HIDE DEF S
<1> QED  BY <1>1, LenProperties

(* A node says the same wherever its parts come along.                         *)
LEMMA NodeMoves ==
  ASSUME NEW s, NEW q, NEW n \in Nat \ {0}, NEW m \in Nat, n <= m,
         IsNode(s, n), q[m] = s[n], \A k \in 1 .. n - 1 : q[m - k] = s[n - k]
  PROVE IsNode(q, m)
<1> DEFINE parts == s[n].parts
<1>1. parts \in Seq(1 .. n - 1)
  BY DEF IsNode
<1>2. parts \in Seq(1 .. m - 1)
  <2>1. 1 .. n - 1 \subseteq 1 .. m - 1
    OBVIOUS
  <2> HIDE DEF parts
  <2> QED  BY <1>1, <2>1, SeqMonotonic
<1>3. \A k \in DOMAIN parts : q[m - parts[k]] = s[n - parts[k]]
  <2> HIDE DEF parts
  <2>1. \A k \in DOMAIN parts : parts[k] \in 1 .. n - 1
    BY <1>1, ElementOfSeq, LenProperties
  <2> QED  BY <2>1
<1>4. \A row \in Row :
        [k \in DOMAIN parts |-> q[m - parts[k]].means[row]]
          = [k \in DOMAIN parts |-> s[n - parts[k]].means[row]]
  BY <1>3
<1> QED  BY <1>2, <1>4 DEF IsNode

LEMMA ForestConcat ==
  ASSUME NEW s, NEW t, IsForest(s), IsForest(t)
  PROVE /\ IsForest(s \o t) /\ Len(s \o t) = Len(s) + Len(t)
        /\ \A n \in 1 .. Len(s) : (s \o t)[n] = s[n]
        /\ \A n \in 1 .. Len(t) : (s \o t)[Len(s) + n] = t[n]
<1> DEFINE S == {s[n] : n \in DOMAIN s}  T == {t[n] : n \in DOMAIN t}
           q == s \o t
<1>1. s \in Seq(S \cup T) /\ t \in Seq(S \cup T)
  <2>1. s \in Seq(S) /\ t \in Seq(T)
    BY DEF IsForest
  <2> HIDE DEF S, T
  <2> QED  BY <2>1, SeqMonotonic
<1>2. Len(s) \in Nat /\ Len(t) \in Nat /\ DOMAIN s = 1 .. Len(s) /\ DOMAIN t = 1 .. Len(t)
  BY ForestLength
<1>3. /\ q \in Seq(S \cup T) /\ Len(q) = Len(s) + Len(t) /\ DOMAIN q = 1 .. Len(q)
      /\ \A n \in 1 .. Len(s) : q[n] = s[n]
      /\ \A n \in 1 .. Len(t) : q[Len(s) + n] = t[n]
  <2> HIDE DEF S, T
  <2> QED  BY <1>1
<1>4. q \in Seq({q[n] : n \in DOMAIN q})
  <2> HIDE DEF S, T, q
  <2>1. \A n \in 1 .. Len(q) : q[n] \in {q[k] : k \in DOMAIN q}
    BY <1>3
  <2> QED  BY <1>3, <2>1
<1>5. ASSUME NEW n \in DOMAIN q PROVE IsNode(q, n)
  <2>1. CASE n <= Len(s)
    <3>1. n \in 1 .. Len(s) /\ n \in Nat \ {0}
      BY <1>2, <1>3, <2>1
    <3>2. \A k \in 1 .. n - 1 : q[n - k] = s[n - k]
      BY <1>2, <1>3, <3>1
    <3>3. IsNode(s, n) /\ q[n] = s[n] /\ n \in Nat /\ n <= n
      BY <1>2, <1>3, <3>1 DEF IsForest
    <3> HIDE DEF q
    <3> QED  BY <3>1, <3>2, <3>3, NodeMoves
  <2>2. CASE n > Len(s)
    <3> DEFINE m == n - Len(s)
    <3>1. m \in 1 .. Len(t) /\ m \in Nat \ {0} /\ n \in Nat /\ m <= n /\ n = Len(s) + m
      BY <1>2, <1>3, <2>2
    <3>2. \A k \in 1 .. m - 1 : q[n - k] = t[m - k]
      <4> SUFFICES ASSUME NEW k \in 1 .. m - 1 PROVE q[n - k] = t[m - k]
        OBVIOUS
      <4> HIDE DEF m, q
      <4>1. m - k \in 1 .. Len(t) /\ n - k = Len(s) + (m - k)
        BY <1>2, <3>1
      <4> QED  BY <1>3, <4>1
    <3>3. IsNode(t, m) /\ q[n] = t[m]
      BY <1>2, <1>3, <3>1 DEF IsForest
    <3> HIDE DEF m
    <3> QED  BY <3>1, <3>2, <3>3, NodeMoves
  <2> QED  BY <1>2, <1>3, <2>1, <2>2
<1> HIDE DEF q
<1>6. IsForest(q)
  BY <1>4, <1>5 DEF IsForest
<1> QED  BY <1>3, <1>6 DEF q

(* A node on top of what it is made of.                                        *)
LEMMA ForestGrows ==
  ASSUME NEW q, IsForest(q), NEW node, IsNode(Append(q, node), Len(q) + 1)
  PROVE IsForest(Append(q, node)) /\ Append(q, node) # <<>> /\ Whole(Append(q, node)) = node
<1> DEFINE S == {q[n] : n \in DOMAIN q}  r == Append(q, node)
<1>1. q \in Seq(S \cup {node})
  <2>1. q \in Seq(S)
    BY DEF IsForest
  <2> HIDE DEF S
  <2> QED  BY <2>1, SeqMonotonic
<1>2. Len(q) \in Nat /\ DOMAIN q = 1 .. Len(q)
  BY ForestLength
<1>3. /\ r \in Seq(S \cup {node}) /\ Len(r) = Len(q) + 1 /\ DOMAIN r = 1 .. Len(r)
      /\ \A n \in 1 .. Len(q) : r[n] = q[n]
      /\ r[Len(q) + 1] = node
  <2> HIDE DEF S
  <2> QED  BY <1>1, <1>2
<1>4. r \in Seq({r[n] : n \in DOMAIN r})
  <2> HIDE DEF S, r
  <2>1. \A n \in 1 .. Len(r) : r[n] \in {r[k] : k \in DOMAIN r}
    BY <1>3
  <2> QED  BY <1>3, <2>1
<1>5. ASSUME NEW n \in DOMAIN r PROVE IsNode(r, n)
  <2>1. CASE n = Len(q) + 1
    BY <2>1
  <2>2. CASE n \in 1 .. Len(q)
    <3>1. \A k \in 1 .. n - 1 : r[n - k] = q[n - k]
      BY <1>2, <1>3, <2>2
    <3>2. IsNode(q, n) /\ r[n] = q[n] /\ n \in Nat \ {0}
      BY <1>2, <1>3, <2>2 DEF IsForest
    <3> HIDE DEF r
    <3> QED  BY <3>1, <3>2, NodeMoves
  <2> QED  BY <1>2, <1>3, <2>1, <2>2
<1>6. IsForest(r)
  <2> HIDE DEF r
  <2> QED  BY <1>4, <1>5 DEF IsForest
<1>7. r # <<>> /\ Whole(r) = node
  BY <1>2, <1>3 DEF Whole
<1> QED  BY <1>6, <1>7

LEMMA NodeOnTop ==
  ASSUME NEW q, IsForest(q), NEW node
  PROVE /\ Append(q, node)[Len(q) + 1] = node
        /\ \A n \in 1 .. Len(q) : Append(q, node)[n] = q[n]
<1> DEFINE S == {q[n] : n \in DOMAIN q}
<1>1. q \in Seq(S)
  BY DEF IsForest
<1> HIDE DEF S
<1>2. q \in Seq(S \cup {node})
  BY <1>1, SeqMonotonic
<1> QED  BY <1>2, AppendProperties

(* A node is grafted on a forest, of whose nodes it is made.                    *)
LEMMA Graft ==
  ASSUME NEW q, IsForest(q), NEW node,
         node.operator \in DOMAIN Arity, Len(node.parts) = Arity[node.operator],
         node.parts \in Seq(1 .. Len(q)), node.operator = "test" => IsTest(node.test),
         \A row \in Row :
           node.means[row] =
             Says(node, [k \in DOMAIN node.parts |->
                           q[(Len(q) + 1) - node.parts[k]].means[row]], row)
  PROVE /\ IsForest(Append(q, node)) /\ Append(q, node) # <<>>
        /\ Whole(Append(q, node)) = node
<1> DEFINE r == Append(q, node)  m == Len(q) + 1
<1>1. Len(q) \in Nat /\ m \in Nat /\ m - 1 = Len(q)
  BY ForestLength
<1>2. r[m] = node /\ \A n \in 1 .. Len(q) : r[n] = q[n]
  BY NodeOnTop
<1>3. \A k \in DOMAIN node.parts : m - node.parts[k] \in 1 .. Len(q)
  <2> HIDE DEF m
  <2>1. \A k \in DOMAIN node.parts : node.parts[k] \in 1 .. Len(q)
    BY ElementOfSeq, LenProperties
  <2> QED  BY <2>1, <1>1
<1> HIDE DEF r
<1>4. \A row \in Row :
        [k \in DOMAIN node.parts |-> q[m - node.parts[k]].means[row]]
          = [k \in DOMAIN node.parts |-> r[m - node.parts[k]].means[row]]
  BY <1>2, <1>3
<1>5. IsNode(r, m)
  <2>1. node.parts \in Seq(1 .. m - 1)
    BY <1>1
  <2>2. ASSUME NEW row \in Row
        PROVE node.means[row] =
                Says(node, [k \in DOMAIN node.parts |-> r[m - node.parts[k]].means[row]], row)
    <3>1. node.means[row] =
            Says(node, [k \in DOMAIN node.parts |-> q[m - node.parts[k]].means[row]], row)
      OBVIOUS
    <3> HIDE DEF m
    <3> QED  BY <3>1, <1>4
  <2> HIDE DEF m
  <2> QED  BY <1>2, <2>1, <2>2 DEF IsNode
<1> QED  BY <1>5, ForestGrows DEF r, m

LEMMA GrownWhole ==
  ASSUME NEW e, IsGrown(e)
  PROVE /\ IsForest(e.tree) /\ Len(e.tree) \in Nat \ {0}
        /\ e.tree[Len(e.tree)].means = e.means
<1>1. IsForest(e.tree) /\ e.tree # <<>>
  BY DEF IsGrown
<1>2. Len(e.tree) \in Nat /\ DOMAIN e.tree = 1 .. Len(e.tree)
  BY <1>1, ForestLength
<1>3. Len(e.tree) # 0
  <2> DEFINE S == {e.tree[n] : n \in DOMAIN e.tree}
  <2>1. e.tree \in Seq(S)
    BY <1>1 DEF IsForest
  <2> HIDE DEF S
  <2> QED  BY <1>1, <2>1, EmptySeq
<1> QED  BY <1>1, <1>2, <1>3 DEF IsGrown, Whole

LEMMA TestGrown == ASSUME NEW t, IsTest(t) PROVE IsGrown(Test(t))
<1> DEFINE leaf == Leaf(t)
<1>1. /\ leaf.operator = "test" /\ leaf.test = t /\ leaf.parts = <<>>
      /\ leaf.means = [row \in Row |-> Asks(t, row)]
  BY DEF Leaf
<1>2. Test(t).tree = <<leaf>> /\ Test(t).means = leaf.means
  BY <1>1 DEF Test
<1>3. IsForest(<<>>) /\ Append(<<>>, leaf) = <<leaf>>
  BY DEF IsForest
<1> HIDE DEF leaf
<1>4. leaf.operator \in DOMAIN Arity /\ Arity[leaf.operator] = 0
  BY <1>1 DEF Arity
<1>5. \A parts : \A row \in Row : leaf.means[row] = Says(leaf, parts, row)
  BY <1>1 DEF Says
<1>6. leaf.parts \in Seq(1 .. Len(<<>>)) /\ Len(leaf.parts) = 0
  BY <1>1
<1>7. /\ IsForest(Append(<<>>, leaf)) /\ Append(<<>>, leaf) # <<>>
      /\ Whole(Append(<<>>, leaf)) = leaf
  BY <1>1, <1>3, <1>4, <1>5, <1>6, Graft
<1> QED  BY <1>2, <1>3, <1>7 DEF IsGrown

(* The whole of a tree that stands in a forest.                                *)
LEMMA WholeInFront ==
  ASSUME NEW s, NEW t, IsForest(s), IsForest(t), Len(s) > 0
  PROVE /\ Len(s) \in 1 .. Len(s \o t) /\ Len(s \o t) = Len(s) + Len(t)
        /\ (s \o t)[Len(s)] = Whole(s)
<1>1. Len(s) \in Nat /\ Len(t) \in Nat /\ Len(s) \in 1 .. Len(s)
  BY ForestLength
<1> QED  BY <1>1, ForestConcat DEF Whole

LEMMA WholeBehind ==
  ASSUME NEW s, NEW t, IsForest(s), IsForest(t), Len(t) > 0
  PROVE /\ Len(s) + Len(t) \in 1 .. Len(s \o t)
        /\ (s \o t)[Len(s) + Len(t)] = Whole(t)
<1>1. Len(s) \in Nat /\ Len(t) \in Nat /\ Len(t) \in 1 .. Len(t)
  BY ForestLength
<1> QED  BY <1>1, ForestConcat DEF Whole

LEMMA GrownTree ==
  ASSUME NEW e, IsGrown(e)
  PROVE /\ IsForest(e.tree) /\ Len(e.tree) \in Nat /\ Len(e.tree) > 0
        /\ Whole(e.tree).means = e.means
  BY GrownWhole DEF IsGrown

LEMMA JoinedGrown ==
  ASSUME NEW a, NEW b, IsGrown(a), IsGrown(b), NEW operator, NEW text, NEW means,
         NEW agreement,
         \/ operator = "AND" /\ means = Both(a, b)
         \/ operator = "OR" /\ means = Either(a, b)
  PROVE IsGrown(Joined(operator, a, b, text, means, agreement))
<1> DEFINE s == a.tree  t == b.tree  x == Len(s)  y == Len(t)
           q == s \o t
           node == Node(operator, <<y + 1, 1>>, means)
<1>1. /\ IsForest(s) /\ IsForest(t) /\ x \in Nat /\ y \in Nat /\ x > 0 /\ y > 0
  BY GrownTree
<1>2. Whole(s).means = a.means /\ Whole(t).means = b.means
  BY GrownTree
<1>3. /\ node.operator = operator /\ node.means = means /\ node.parts = <<y + 1, 1>>
  BY DEF Node
<1>4. /\ Joined(operator, a, b, text, means, agreement).tree = Append(q, node)
      /\ Joined(operator, a, b, text, means, agreement).means = means
  BY DEF Joined
<1> HIDE DEF s, t, q, node
<1>5. IsForest(q)
  BY <1>1, ForestConcat DEF q
<1>6. Len(q) = x + y /\ q[x] = Whole(s) /\ q[x + y] = Whole(t)
  BY <1>1, WholeInFront, WholeBehind DEF q
<1> HIDE DEF x, y
<1>7. /\ (Len(q) + 1) - (y + 1) = x /\ (Len(q) + 1) - 1 = x + y
      /\ y + 1 \in 1 .. Len(q) /\ 1 \in 1 .. Len(q)
  BY <1>1, <1>6
<1>8. /\ node.parts \in Seq(1 .. Len(q)) /\ Len(node.parts) = 2 /\ DOMAIN node.parts = 1 .. 2
      /\ node.parts[1] = y + 1 /\ node.parts[2] = 1
  BY <1>3, <1>7
<1>9. ASSUME NEW row \in Row
      PROVE node.means[row] =
              Says(node, [k \in DOMAIN node.parts |->
                            q[(Len(q) + 1) - node.parts[k]].means[row]], row)
  <2> DEFINE said == [k \in DOMAIN node.parts |-> q[(Len(q) + 1) - node.parts[k]].means[row]]
  <2>0. /\ said[1] = q[(Len(q) + 1) - (y + 1)].means[row]
        /\ said[2] = q[(Len(q) + 1) - 1].means[row]
    <3>1. 1 \in DOMAIN node.parts /\ 2 \in DOMAIN node.parts
      BY <1>8
    <3>2. /\ said[1] = q[(Len(q) + 1) - node.parts[1]].means[row]
          /\ said[2] = q[(Len(q) + 1) - node.parts[2]].means[row]
      BY <3>1, Zenon
    <3> QED  BY <3>2, <1>8
  <2> HIDE DEF said
  <2>1. said[1] = a.means[row] /\ said[2] = b.means[row]
    BY <1>2, <1>6, <1>7, <2>0
  <2>2. node.means[row] = Says(node, said, row)
    BY <1>3, <2>1 DEF Says, Both, Either
  <2> QED  BY <2>2 DEF said
<1>10. node.operator \in DOMAIN Arity /\ Arity[node.operator] = 2
  BY <1>3 DEF Arity
<1>11. /\ IsForest(Append(q, node)) /\ Append(q, node) # <<>>
       /\ Whole(Append(q, node)) = node
  BY <1>3, <1>5, <1>8, <1>9, <1>10, Graft
<1> QED  BY <1>3, <1>4, <1>11 DEF IsGrown

LEMMA NegatedGrown ==
  ASSUME NEW a, IsGrown(a), NEW text
  PROVE IsGrown(Negated(a, text, Opposite(a)))
<1> DEFINE q == a.tree
           node == Node("not", <<1>>, Opposite(a))
<1>1. IsForest(q) /\ Len(q) \in Nat /\ Len(q) > 0 /\ Whole(q).means = a.means
  BY GrownTree
<1>2. node.operator = "not" /\ node.means = Opposite(a) /\ node.parts = <<1>>
  BY DEF Node
<1>3. /\ Negated(a, text, Opposite(a)).tree = Append(q, node)
      /\ Negated(a, text, Opposite(a)).means = Opposite(a)
  BY DEF Negated
<1> HIDE DEF q, node
<1>4. (Len(q) + 1) - 1 = Len(q) /\ 1 \in 1 .. Len(q)
  BY <1>1
<1>5. /\ node.parts \in Seq(1 .. Len(q)) /\ Len(node.parts) = 1 /\ DOMAIN node.parts = 1 .. 1
      /\ node.parts[1] = 1
  BY <1>2, <1>4
<1>6. ASSUME NEW row \in Row
      PROVE node.means[row] =
              Says(node, [k \in DOMAIN node.parts |->
                            q[(Len(q) + 1) - node.parts[k]].means[row]], row)
  <2> DEFINE said == [k \in DOMAIN node.parts |-> q[(Len(q) + 1) - node.parts[k]].means[row]]
  <2>0. said[1] = q[(Len(q) + 1) - 1].means[row]
    <3>1. 1 \in DOMAIN node.parts
      BY <1>5
    <3>2. said[1] = q[(Len(q) + 1) - node.parts[1]].means[row]
      BY <3>1, Zenon
    <3> QED  BY <3>2, <1>5
  <2> HIDE DEF said
  <2>1. said[1] = a.means[row]
    BY <1>1, <1>4, <2>0 DEF Whole
  <2>2. node.means[row] = Says(node, said, row)
    BY <1>2, <2>1 DEF Says, Opposite
  <2> QED  BY <2>2 DEF said
<1>7. node.operator \in DOMAIN Arity /\ Arity[node.operator] = 1
  BY <1>2 DEF Arity
<1>8. /\ IsForest(Append(q, node)) /\ Append(q, node) # <<>>
      /\ Whole(Append(q, node)) = node
  BY <1>1, <1>2, <1>5, <1>6, <1>7, Graft
<1> QED  BY <1>2, <1>3, <1>8 DEF IsGrown

LEMMA IfGrown ==
  ASSUME NEW c, NEW a, NEW b, IsGrown(c), IsGrown(a), IsGrown(b)
  PROVE IsGrown(If(c, a, b))
<1> DEFINE r == c.tree  s == a.tree  t == b.tree  z == Len(r)  x == Len(s)  y == Len(t)
           p == r \o s
           q == p \o t
           node == Node("if", <<x + y + 1, y + 1, 1>>, Chosen(c, a, b))
<1>1. /\ IsForest(r) /\ IsForest(s) /\ IsForest(t)
      /\ z \in Nat /\ x \in Nat /\ y \in Nat /\ z > 0 /\ x > 0 /\ y > 0
  BY GrownTree
<1>2. Whole(r).means = c.means /\ Whole(s).means = a.means /\ Whole(t).means = b.means
  BY GrownTree
<1>3. /\ node.operator = "if" /\ node.means = Chosen(c, a, b)
      /\ node.parts = <<x + y + 1, y + 1, 1>>
  BY DEF Node
<1>4. If(c, a, b).tree = Append(q, node) /\ If(c, a, b).means = Chosen(c, a, b)
  BY DEF If
<1> HIDE DEF r, s, t, p, q, node
<1>5. IsForest(p) /\ Len(p) = z + x /\ p[z] = Whole(r) /\ p[z + x] = Whole(s)
  BY <1>1, ForestConcat, WholeInFront, WholeBehind DEF p
<1>6. IsForest(q) /\ Len(q) = Len(p) + y /\ q[Len(p) + y] = Whole(t)
  BY <1>1, <1>5, ForestConcat, WholeBehind DEF q
<1>7. \A n \in 1 .. Len(p) : q[n] = p[n]
  BY <1>1, <1>5, ForestConcat DEF q
<1> HIDE DEF x, y, z
<1>8. /\ (Len(q) + 1) - (x + y + 1) = z /\ (Len(q) + 1) - (y + 1) = z + x
      /\ (Len(q) + 1) - 1 = Len(p) + y
      /\ x + y + 1 \in 1 .. Len(q) /\ y + 1 \in 1 .. Len(q) /\ 1 \in 1 .. Len(q)
      /\ z \in 1 .. Len(p) /\ z + x \in 1 .. Len(p)
  <2>1. Len(p) = z + x /\ Len(q) = Len(p) + y
    BY <1>5, <1>6
  <2> QED  BY <1>1, <2>1
<1>9. /\ node.parts \in Seq(1 .. Len(q)) /\ Len(node.parts) = 3 /\ DOMAIN node.parts = 1 .. 3
      /\ node.parts[1] = x + y + 1 /\ node.parts[2] = y + 1 /\ node.parts[3] = 1
  BY <1>3, <1>8
<1>10. ASSUME NEW row \in Row
       PROVE node.means[row] =
               Says(node, [k \in DOMAIN node.parts |->
                             q[(Len(q) + 1) - node.parts[k]].means[row]], row)
  <2> DEFINE said == [k \in DOMAIN node.parts |-> q[(Len(q) + 1) - node.parts[k]].means[row]]
  <2>1. q[z] = Whole(r) /\ q[z + x] = Whole(s) /\ q[Len(p) + y] = Whole(t)
    BY <1>5, <1>6, <1>7, <1>8
  <2>0. /\ said[1] = q[(Len(q) + 1) - (x + y + 1)].means[row]
        /\ said[2] = q[(Len(q) + 1) - (y + 1)].means[row]
        /\ said[3] = q[(Len(q) + 1) - 1].means[row]
    <3>1. 1 \in DOMAIN node.parts /\ 2 \in DOMAIN node.parts /\ 3 \in DOMAIN node.parts
      BY <1>9
    <3>2. /\ said[1] = q[(Len(q) + 1) - node.parts[1]].means[row]
          /\ said[2] = q[(Len(q) + 1) - node.parts[2]].means[row]
          /\ said[3] = q[(Len(q) + 1) - node.parts[3]].means[row]
      BY <3>1, Zenon
    <3> QED  BY <3>2, <1>9
  <2> HIDE DEF said
  <2>2. said[1] = c.means[row] /\ said[2] = a.means[row] /\ said[3] = b.means[row]
    BY <1>2, <1>8, <2>0, <2>1
  <2>3. node.means[row] = Says(node, said, row)
    BY <1>3, <2>2 DEF Says, Chosen
  <2> QED  BY <2>3 DEF said
<1>11. node.operator \in DOMAIN Arity /\ Arity[node.operator] = 3
  BY <1>3 DEF Arity
<1>12. /\ IsForest(Append(q, node)) /\ Append(q, node) # <<>>
       /\ Whole(Append(q, node)) = node
  BY <1>3, <1>6, <1>9, <1>10, <1>11, Graft
<1> QED  BY <1>3, <1>4, <1>12 DEF IsGrown

--------------------------------------------------------------------------------
(* What is known of an operand of a call.                                      *)

LEMMA WorstType == ASSUME NEW S PROVE Worst(S) \in Agreement
  BY DEF Worst, Agreement

LEMMA RowByRow ==
  ASSUME NEW e, IsExpr(e), NEW row \in Row
  PROVE Truth(e.text)[row] \in Truth3 /\ e.means[row] \in Truth3
  BY TruthType DEF IsExpr, Truths

(* How AND and OR treat operands that agree where one of them is TRUE.         *)
LEMMA AllAgrees ==
  ASSUME NEW s \in Truth3, NEW t \in Truth3, NEW m \in Truth3, NEW n \in Truth3,
         s = m \/ (s = "F" /\ m = "N"), t = n \/ (t = "F" /\ n = "N")
  PROVE \/ All3({s, t}) = All3({m, n})
        \/ All3({s, t}) = "F" /\ All3({m, n}) = "N"
  BY DEF All3, Truth3

LEMMA SomeAgrees ==
  ASSUME NEW s \in Truth3, NEW t \in Truth3, NEW m \in Truth3, NEW n \in Truth3,
         s = m \/ (s = "F" /\ m = "N"), t = n \/ (t = "F" /\ n = "N")
  PROVE \/ Some3({s, t}) = Some3({m, n})
        \/ Some3({s, t}) = "F" /\ Some3({m, n}) = "N"
  BY DEF Some3, Truth3

--------------------------------------------------------------------------------
(* One lemma per call: the whole fits when the operands do.                    *)

LEMMA HoldsCompares ==
  ASSUME NEW x \in Int, NEW y \in Int, NEW method \in DOMAIN Sign
  PROVE Compares(x, Sign[method], y) <=> Holds(x, method, y)
  BY DEF Compares, Holds, Sign

LEMMA AndMethodFits ==
  ASSUME NEW a, NEW b, Fits(a), Fits(b)
  PROVE Fits(AndMethod(a, b))
<1> DEFINE e == AndMethod(a, b)
           s == Truth(a.text)
           t == Truth(b.text)
<1>1. s \in Factor /\ t \in Factor
  BY TruthType DEF Factor
<1>2. /\ e.text = << <<s, t>> >> /\ e.means = Both(a, b)
      /\ e.agreement = Worst({a.agreement, b.agreement})
      /\ e.writable = (a.writable /\ b.writable)
  BY DEF AndMethod, Joined
<1>3. IsExpr(e)
  <2>1. e.text \in Text
    BY <1>1, <1>2, PairText
  <2>2. e.means \in Truths
    BY <1>2, AllType DEF Both, Truths
  <2> QED  BY <2>1, <2>2, <1>2, WorstType DEF IsExpr
<1>4. ASSUME NEW row \in Row PROVE Agrees(e, row)
  <2>1. Truth(e.text)[row] = All3({s[row], t[row]})
    BY <1>1, <1>2, PairText
  <2>2. e.means[row] = All3({a.means[row], b.means[row]})
    BY <1>2 DEF Both
  <2> QED  BY <1>2, <2>1, <2>2, RowByRow, AllAgrees
           DEF Fits, IsExpr, Agrees, Worst, Agreement
<1>5. IsGrown(e)
  BY JoinedGrown DEF Fits, AndMethod
<1> QED  BY <1>3, <1>4, <1>5 DEF Fits

LEMMA AndFunctionFits ==
  ASSUME NEW a, NEW b, Fits(a), Fits(b)
  PROVE Fits(AndFunction(a, b))
<1> DEFINE e == AndFunction(a, b)
           isLoose == Loose(a.text) \/ Loose(b.text)
<1>1. a.text \in Text /\ b.text \in Text
  BY DEF Fits, IsExpr
<1>2. /\ e.text = Beside(a.text, b.text) /\ e.means = Both(a, b)
      /\ e.agreement = IF isLoose THEN "lost" ELSE Worst({a.agreement, b.agreement})
      /\ e.writable = (a.writable /\ b.writable)
  BY DEF AndFunction, Joined
<1>3. IsExpr(e)
  <2>1. e.text \in Text
    BY <1>1, <1>2, BesideText
  <2>2. e.means \in Truths
    BY <1>2, AllType DEF Both, Truths
  <2>3. e.agreement \in Agreement
    BY <1>2, WorstType DEF Agreement
  <2> QED  BY <2>1, <2>2, <2>3, <1>2 DEF IsExpr
<1>4. ASSUME NEW row \in Row PROVE Agrees(e, row)
  <2>1. CASE isLoose
    BY <2>1, <1>2 DEF Agrees
  <2>2. CASE ~ isLoose
    <3>1. Truth(e.text)[row] = All3({Truth(a.text)[row], Truth(b.text)[row]})
      BY <2>2, <1>1, <1>2, BesideText
    <3>2. e.means[row] = All3({a.means[row], b.means[row]})
      BY <1>2 DEF Both
    <3>3. e.agreement = Worst({a.agreement, b.agreement})
      BY <2>2, <1>2
    <3> QED  BY <3>1, <3>2, <3>3, RowByRow, AllAgrees
             DEF Fits, IsExpr, Agrees, Worst, Agreement
  <2> QED  BY <2>1, <2>2
<1>5. IsGrown(e)
  BY JoinedGrown DEF Fits, AndFunction
<1> QED  BY <1>3, <1>4, <1>5 DEF Fits

LEMMA OrFits ==
  ASSUME NEW a, NEW b, Fits(a), Fits(b)
  PROVE Fits(Or(a, b))
<1> DEFINE e == Or(a, b)
<1>1. a.text \in Text /\ b.text \in Text
  BY DEF Fits, IsExpr
<1>2. /\ e.text = a.text \o b.text /\ e.means = Either(a, b)
      /\ e.agreement = Worst({a.agreement, b.agreement})
      /\ e.writable = (a.writable /\ b.writable)
  BY DEF Or, Joined
<1>3. IsExpr(e)
  <2>1. e.text \in Text
    BY <1>1, <1>2, OrText
  <2>2. e.means \in Truths
    BY <1>2, SomeType DEF Either, Truths
  <2> QED  BY <2>1, <2>2, <1>2, WorstType DEF IsExpr
<1>4. ASSUME NEW row \in Row PROVE Agrees(e, row)
  <2>1. Truth(e.text)[row] = Some3({Truth(a.text)[row], Truth(b.text)[row]})
    BY <1>1, <1>2, OrText
  <2>2. e.means[row] = Some3({a.means[row], b.means[row]})
    BY <1>2 DEF Either
  <2> QED  BY <1>2, <2>1, <2>2, RowByRow, SomeAgrees
           DEF Fits, IsExpr, Agrees, Worst, Agreement
<1>5. IsGrown(e)
  BY JoinedGrown DEF Fits, Or
<1> QED  BY <1>3, <1>4, <1>5 DEF Fits

LEMMA NotFits ==
  ASSUME NEW a, Fits(a)
  PROVE Fits(Not(a))
<1> DEFINE e == Not(a)
           f == [row \in Row |-> Bool(Truth(a.text)[row] = "F")]
<1>1. f \in Factor
  BY BoolType DEF Factor, Truths
<1>2. /\ e.text = Single(f) /\ e.means = Opposite(a)
      /\ e.agreement = IF a.agreement = "same" THEN "collapsed" ELSE "lost"
      /\ e.writable = a.writable
  BY DEF Not, Negated
<1>3. IsExpr(e)
  <2>1. e.text \in Text
    BY <1>1, <1>2, SingleText
  <2>2. e.means \in Truths
    BY <1>2 DEF Opposite, Not3, Truths, Truth3
  <2>3. e.agreement \in Agreement
    BY <1>2 DEF Agreement
  <2>4. e.writable \in BOOLEAN
    BY <1>2 DEF Fits, IsExpr
  <2> QED  BY <2>1, <2>2, <2>3, <2>4 DEF IsExpr
<1>4. ASSUME NEW row \in Row PROVE Agrees(e, row)
  <2>1. Truth(e.text)[row] = Bool(Truth(a.text)[row] = "F")
    BY <1>1, <1>2, SingleText
  <2>2. e.means[row] = Not3(a.means[row])
    BY <1>2 DEF Opposite
  <2>3. a.agreement = "same" => Truth(a.text)[row] = a.means[row]
    BY DEF Fits, Agrees
  <2> QED  BY <1>2, <2>1, <2>2, <2>3, RowByRow
           DEF Fits, Agrees, Bool, Not3, Truth3
<1>5. IsGrown(e)
  BY NegatedGrown DEF Fits, Not
<1> QED  BY <1>3, <1>4, <1>5 DEF Fits

LEMMA IfFits ==
  ASSUME NEW c, NEW a, NEW b, Fits(c), Fits(a), Fits(b)
  PROVE Fits(If(c, a, b))
<1> DEFINE e == If(c, a, b)
           f == [row \in Row |-> IF Truth(c.text)[row] = "T"
                                 THEN Truth(a.text)[row] ELSE Truth(b.text)[row]]
<1>1. f \in Factor
  <2>1. ASSUME NEW row \in Row PROVE f[row] \in Truth3
    BY RowByRow DEF Fits
  <2> QED  BY <2>1 DEF Factor, Truths
<1>2. /\ e.text = Single(f)
      /\ e.means = Chosen(c, a, b)
      /\ e.agreement = IF c.agreement = "lost" THEN "lost"
                       ELSE Worst({a.agreement, b.agreement})
      /\ e.writable = (c.writable /\ a.writable /\ b.writable)
  BY DEF If, Chosen
<1>3. IsExpr(e)
  <2>1. e.text \in Text
    BY <1>1, <1>2, SingleText
  <2>2. e.means \in Truths
    BY <1>2 DEF Chosen, Fits, IsExpr, Truths
  <2>3. e.agreement \in Agreement
    BY <1>2, WorstType DEF Agreement
  <2> QED  BY <2>1, <2>2, <2>3, <1>2 DEF IsExpr
<1>4. ASSUME NEW row \in Row PROVE Agrees(e, row)
  <2>1. Truth(e.text)[row] = IF Truth(c.text)[row] = "T"
                             THEN Truth(a.text)[row] ELSE Truth(b.text)[row]
    BY <1>1, <1>2, SingleText
  <2>2. e.means[row] = IF c.means[row] = "T" THEN a.means[row] ELSE b.means[row]
    BY <1>2 DEF Chosen
  <2>3. c.agreement # "lost" => (Truth(c.text)[row] = "T" <=> c.means[row] = "T")
    BY DEF Fits, IsExpr, Agrees, Agreement
  <2>4. e.agreement # "lost" =>
          /\ c.agreement # "lost"
          /\ e.agreement = Worst({a.agreement, b.agreement})
    BY <1>2
  <2> QED  BY <2>1, <2>2, <2>3, <2>4
           DEF Fits, IsExpr, Agrees, Worst, Agreement
<1>5. IsGrown(e)
  BY IfGrown DEF Fits
<1> QED  BY <1>3, <1>4, <1>5 DEF Fits

LEMMA OperandType ==
  ASSUME NEW o, IsOperand(o), Converts(o), NEW row \in Row
  PROVE ValueOf(o, row) \in Value \cup {Null}
<1>1. \A ref \in Ref : row[ref] \in Value \cup {Null}
  BY ExpressionAssumption
<1> QED  BY <1>1 DEF IsOperand, Converts, ValueOf

LEMMA TestFits ==
  ASSUME NEW t \in Tests, t.test = "compare" => Converts(t.left) /\ Converts(t.right)
  PROVE Fits(Test(t))
<1> DEFINE e == Test(t)
           f == [row \in Row |-> EvalTest(t, row)]
<1>0. IsTest(t)
  BY ConditionAssumption
<1>1. f \in Factor
  <2>1. ASSUME NEW row \in Row PROVE EvalTest(t, row) \in Truth3
    BY DEF EvalTest, Bool, Truth3
  <2> QED  BY <2>1 DEF Factor, Truths
<1>2. /\ e.text = Single(f) /\ e.means = [row \in Row |-> Asks(t, row)]
      /\ e.agreement = "same" /\ e.writable = Writable(t)
  BY DEF Test
<1>3. IsExpr(e)
  <2>1. e.text \in Text
    BY <1>1, <1>2, SingleText
  <2>2. e.means \in Truths
    <3>1. ASSUME NEW row \in Row PROVE Asks(t, row) \in Truth3
      BY DEF Asks, Bool, Truth3
    <3> QED  BY <3>1, <1>2 DEF Truths
  <2>3. e.writable \in BOOLEAN
    BY <1>2 DEF Writable
  <2> QED  BY <2>1, <2>2, <2>3, <1>2 DEF IsExpr, Agreement
<1>4. ASSUME NEW row \in Row PROVE EvalTest(t, row) = Asks(t, row)
  <2>1. CASE t.test = "compare"
    <3>1. /\ ValueOf(t.left, row) \in Value \cup {Null}
          /\ ValueOf(t.right, row) \in Value \cup {Null}
      BY <1>0, <2>1, OperandType DEF IsTest
    <3>2. CASE ValueOf(t.left, row) = Null \/ ValueOf(t.right, row) = Null
      BY <3>2, <2>1 DEF EvalTest, Asks
    <3>3. CASE ~ (ValueOf(t.left, row) = Null \/ ValueOf(t.right, row) = Null)
      <4>1. Compares(ValueOf(t.left, row), Sign[t.method], ValueOf(t.right, row))
              <=> Holds(ValueOf(t.left, row), t.method, ValueOf(t.right, row))
        BY <1>0, <2>1, <3>1, <3>3, HoldsCompares, ExpressionAssumption DEF IsTest
      <4> QED  BY <4>1, <3>3, <2>1 DEF EvalTest, Asks, Bool
    <3> QED  BY <3>2, <3>3
  <2>2. CASE t.test = "null"
    BY <2>2, <1>0 DEF EvalTest, Asks, Bool, IsTest
  <2>3. CASE t.test = "in"
    BY <2>3, <1>0 DEF EvalTest, Asks, Bool, IsTest
  <2> QED  BY <1>0, <2>1, <2>2, <2>3 DEF IsTest
<1>5. ASSUME NEW row \in Row PROVE Agrees(e, row)
  <2>1. Truth(e.text)[row] = EvalTest(t, row)
    BY <1>1, <1>2, SingleText
  <2> QED  BY <2>1, <1>2, <1>4 DEF Agrees
<1>6. IsGrown(e)
  BY <1>0, TestGrown
<1> QED  BY <1>3, <1>5, <1>6 DEF Fits

--------------------------------------------------------------------------------
(* Invariance.                                                                 *)

LEMMA InitFits == Init => IInv
<1> SUFFICES ASSUME Init PROVE IInv
  OBVIOUS
<1>1. exprs = <<>> /\ DOMAIN exprs = {} /\ Len(exprs) = 0
  BY DEF Init
<1>2. exprs \in Seq({exprs[i] : i \in DOMAIN exprs})
  BY <1>1
<1> QED  BY <1>1, <1>2, ConditionAssumption DEF IInv, TypeOK

LEMMA MakeFits ==
  ASSUME IInv, NEW e, Fits(e), Make(e)
  PROVE IInv'
<1> DEFINE S == {exprs[i] : i \in DOMAIN exprs}
<1>1. exprs \in Seq(S) /\ Len(exprs) \in Nat /\ Len(exprs) < MaxExprs
  BY DEF IInv, TypeOK, Make
<1>2. exprs' = Append(exprs, e)
  BY DEF Make
<1>3. /\ Len(exprs') = Len(exprs) + 1 /\ DOMAIN exprs' = 1 .. Len(exprs) + 1
      /\ exprs'[Len(exprs) + 1] = e
      /\ \A i \in 1 .. Len(exprs) : exprs'[i] = exprs[i]
  <2> HIDE DEF S
  <2> QED  BY <1>1, <1>2
<1>4. ASSUME NEW i \in DOMAIN exprs' PROVE Fits(exprs'[i])
  <2>1. CASE i = Len(exprs) + 1
    BY <2>1, <1>3
  <2>2. CASE i \in 1 .. Len(exprs)
    <3>1. i \in DOMAIN exprs /\ exprs'[i] = exprs[i]
      BY <2>2, <1>1, <1>3
    <3> QED  BY <3>1 DEF IInv, TypeOK, Fits
  <2> QED  BY <2>1, <2>2, <1>1, <1>3
<1>5. exprs' \in Seq({exprs'[i] : i \in DOMAIN exprs'})
  <2>1. \A i \in 1 .. Len(exprs') : exprs'[i] \in {exprs'[j] : j \in DOMAIN exprs'}
    BY <1>1, <1>3
  <2>2. exprs' \in Seq(S \cup {e})
    <3> HIDE DEF S
    <3>1. exprs \in Seq(S \cup {e})
      BY <1>1
    <3> QED  BY <3>1, <1>2
  <2> DEFINE T == S \cup {e}
  <2> HIDE DEF T
  <2>3. \A U : \A q \in Seq(T) : (\A i \in 1 .. Len(q) : q[i] \in U) => q \in Seq(U)
    OBVIOUS
  <2> QED  BY <2>1, <2>2, <2>3 DEF T
<1>6. TypeOK'
  BY <1>1, <1>3, <1>4, <1>5, ConditionAssumption DEF TypeOK, Fits
<1> QED  BY <1>4, <1>6 DEF IInv, Fits

LEMMA StepFits == IInv /\ [Next]_exprs => IInv'
<1> SUFFICES ASSUME IInv, [Next]_exprs PROVE IInv'
  OBVIOUS
<1>0. \A i \in DOMAIN exprs : Fits(exprs[i])
  BY DEF IInv, TypeOK, Fits
<1>1. ASSUME NEW t \in Tests, MakeTest(t) PROVE IInv'
  BY <1>1, TestFits, MakeFits DEF MakeTest
<1>2. ASSUME NEW i \in DOMAIN exprs, NEW j \in DOMAIN exprs, CallAndMethod(i, j)
      PROVE IInv'
  BY <1>0, <1>2, AndMethodFits, MakeFits DEF CallAndMethod
<1>3. ASSUME NEW i \in DOMAIN exprs, NEW j \in DOMAIN exprs, CallAndFunction(i, j)
      PROVE IInv'
  BY <1>0, <1>3, AndFunctionFits, MakeFits DEF CallAndFunction
<1>4. ASSUME NEW i \in DOMAIN exprs, NEW j \in DOMAIN exprs, CallOr(i, j)
      PROVE IInv'
  BY <1>0, <1>4, OrFits, MakeFits DEF CallOr
<1>5. ASSUME NEW i \in DOMAIN exprs, CallNot(i) PROVE IInv'
  BY <1>0, <1>5, NotFits, MakeFits DEF CallNot
<1>6. ASSUME NEW h \in DOMAIN exprs, NEW i \in DOMAIN exprs, NEW j \in DOMAIN exprs,
             CallIf(h, i, j)
      PROVE IInv'
  BY <1>0, <1>6, IfFits, MakeFits DEF CallIf
<1>7. CASE UNCHANGED exprs
  <2>1. exprs' = exprs
    BY <1>7
  <2> QED  BY <2>1 DEF IInv, TypeOK, IsExpr, Agrees
<1> QED  BY <1>1, <1>2, <1>3, <1>4, <1>5, <1>6, <1>7 DEF Next, Rest

(* The agreement of each expression's text with what its calls ask is known    *)
(* row by row, for every set of tests, rows and values and any number of       *)
(* expressions (expression-builder.ts, functions/and.ts, or.ts, not.ts).       *)
THEOREM AgreementInvariant == Spec => []IInv
  BY InitFits, StepFits, PTL DEF Spec

(* Every condition that is not lost selects the rows its calls ask for: the    *)
(* brackets of .and, the missing ones of .or and or() and the IS FALSE of      *)
(* not() are right for every operand (the same code).                          *)
THEOREM ConditionsSelect == Spec => []SelectsWhatIsAsked
<1>1. IInv => SelectsWhatIsAsked
  BY DEF IInv, TypeOK, Fits, IsExpr, Agrees, Agreement, SelectsWhatIsAsked
<1> QED  BY <1>1, AgreementInvariant, PTL
================================================================================
