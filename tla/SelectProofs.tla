----------------------------- MODULE SelectProofs ------------------------------
(***************************************************************************)
(* What is proved of Select: whatever the tables hold, whatever is asked   *)
(* of the builder in whatever order, and whoever writes in between.        *)
(***************************************************************************)
EXTENDS Select, SequenceLemmas

--------------------------------------------------------------------------------
(* The type narrower walks a tree from the leaves to the whole.                *)

LEMMA ForestParts ==
  ASSUME NEW tree, IsForest(tree)
  PROVE /\ Len(tree) \in Nat /\ DOMAIN tree = 1 .. Len(tree)
        /\ \A n \in DOMAIN tree : \A k \in DOMAIN tree[n].parts :
             n - tree[n].parts[k] \in 1 .. n - 1
<1> DEFINE S == {tree[n] : n \in DOMAIN tree}
<1>1. Len(tree) \in Nat /\ DOMAIN tree = 1 .. Len(tree)
  <2>1. tree \in Seq(S)
    BY DEF IsForest
  <2> HIDE DEF S
  <2> QED  BY <2>1, LenProperties
<1>2. ASSUME NEW n \in DOMAIN tree, NEW k \in DOMAIN tree[n].parts
      PROVE n - tree[n].parts[k] \in 1 .. n - 1
  <2> DEFINE parts == tree[n].parts
  <2>1. parts \in Seq(1 .. n - 1)
    BY DEF IsForest, IsNode
  <2>2. n \in Int
    BY <1>1
  <2> HIDE DEF parts
  <2>3. \A j \in DOMAIN parts : n - parts[j] \in 1 .. n - 1
    BY <2>1, <2>2, ElementOfSeq, LenProperties
  <2> QED  BY <2>3 DEF parts
<1> QED  BY <1>1, <1>2

LEMMA ForestInduction ==
  ASSUME NEW tree, IsForest(tree), NEW S,
         \A n \in DOMAIN tree : (\A j \in 1 .. n - 1 : j \in S) => n \in S
  PROVE DOMAIN tree \subseteq S
<1> DEFINE Shown == {m \in Nat : \A n \in 1 .. m : n \in DOMAIN tree => n \in S}
<1>1. Len(tree) \in Nat /\ DOMAIN tree = 1 .. Len(tree)
  BY ForestParts
<1>2. 0 \in Shown
  OBVIOUS
<1>3. ASSUME NEW m \in Nat, m \in Shown PROVE m + 1 \in Shown
  <2>1. (m + 1) \in DOMAIN tree => m + 1 \in S
    <3> SUFFICES ASSUME (m + 1) \in DOMAIN tree PROVE m + 1 \in S
      OBVIOUS
    <3>1. \A j \in 1 .. (m + 1) - 1 : j \in S
      BY <1>1, <1>3
    <3> QED  BY <3>1
  <2> QED  BY <1>3, <2>1
<1>4. Nat \subseteq Shown
  <2> HIDE DEF Shown
  <2> QED  BY <1>2, <1>3, NatSetInduction
<1> QED  BY <1>1, <1>4

(* There is a verdict on each node, and it follows from those on its parts.    *)
LEMMA VerdictOfNode ==
  ASSUME NEW tree, IsForest(tree), NEW rows, NEW select
  PROVE \A n \in DOMAIN tree :
          Verdicts(tree, rows, select)[n] =
            JudgeNode(tree[n], [k \in DOMAIN tree[n].parts |->
                                  Verdicts(tree, rows, select)[n - tree[n].parts[k]]],
                      rows, select)
<1> DEFINE Said(g, n) == JudgeNode(tree[n], [k \in DOMAIN tree[n].parts |->
                                               g[n - tree[n].parts[k]]], rows, select)
           IsWalk(g, m) == g = [n \in 1 .. m |-> Said(g, n)]
           Walked == {m \in Nat : m <= Len(tree) => \E g : IsWalk(g, m)}
<1>1. Len(tree) \in Nat /\ DOMAIN tree = 1 .. Len(tree)
  BY ForestParts
<1>2. ASSUME NEW g, NEW h, NEW n \in DOMAIN tree, \A m \in 1 .. n - 1 : g[m] = h[m]
      PROVE Said(g, n) = Said(h, n)
  <2>1. \A k \in DOMAIN tree[n].parts : g[n - tree[n].parts[k]] = h[n - tree[n].parts[k]]
    BY <1>2, ForestParts
  <2>2. [k \in DOMAIN tree[n].parts |-> g[n - tree[n].parts[k]]]
          = [k \in DOMAIN tree[n].parts |-> h[n - tree[n].parts[k]]]
    BY <2>1
  <2> QED  BY <2>2
<1>3. 0 \in Walked
  <2>1. IsWalk(<<>>, 0)
    <3> HIDE DEF Said
    <3> QED  OBVIOUS
  <2> HIDE DEF IsWalk
  <2> QED  BY <2>1
<1>4. ASSUME NEW m \in Nat, m \in Walked PROVE m + 1 \in Walked
  <2> SUFFICES ASSUME m + 1 <= Len(tree) PROVE \E g : IsWalk(g, m + 1)
    <3> HIDE DEF IsWalk
    <3> QED  OBVIOUS
  <2>1. PICK g : IsWalk(g, m)
    <3> HIDE DEF IsWalk
    <3> QED  BY <1>1, <1>4
  <2> DEFINE h == [n \in 1 .. m + 1 |-> Said(g, n)]
  <2>2. \A n \in 1 .. m : h[n] = g[n]
    <3> HIDE DEF Said
    <3> QED  BY <2>1
  <2>3. ASSUME NEW n \in 1 .. m + 1 PROVE Said(g, n) = Said(h, n)
    <3>1. n \in DOMAIN tree /\ \A j \in 1 .. n - 1 : g[j] = h[j]
      <4> HIDE DEF h, Said
      <4> QED  BY <1>1, <2>2
    <3> HIDE DEF h, Said
    <3> QED  BY <3>1, <1>2
  <2>4. h = [n \in 1 .. m + 1 |-> Said(h, n)]
    <3> HIDE DEF Said
    <3> QED  BY <2>3
  <2> HIDE DEF h
  <2> QED  BY <2>4
<1>5. Len(tree) \in Walked
  <2> HIDE DEF Walked
  <2> QED  BY <1>1, <1>3, <1>4, NatSetInduction
<1>6. PICK g : IsWalk(g, Len(tree))
  <2> HIDE DEF IsWalk
  <2> QED  BY <1>1, <1>5
<1> DEFINE verdict == CHOOSE h : h = [n \in DOMAIN tree |-> Said(h, n)]
<1>7. Verdicts(tree, rows, select) = verdict
  BY DEF Verdicts
<1>8. verdict = [n \in DOMAIN tree |-> Said(verdict, n)]
  <2>1. g = [n \in DOMAIN tree |-> Said(g, n)]
    BY <1>1, <1>6
  <2> HIDE DEF Said
  <2> QED  BY <2>1
<1> HIDE DEF verdict
<1>9. \A n \in DOMAIN tree : verdict[n] = Said(verdict, n)
  <2> HIDE DEF Said
  <2> QED  BY <1>8
<1> QED  BY <1>7, <1>9, Zenon

(* A NULL test of a column that was selected with its entity.                  *)
LEMMA NullTestIsTrue ==
  ASSUME NEW t, IsTest(t), t.test = "null", NEW rows, NEW select,
         NEW i \in select, i.item = "columns", t.left.ref \in RefsOf(i),
         JudgeNullTest(t, rows, select) = "pass", NEW row \in rows
  PROVE Asks(t, row) = "T"
<1> DEFINE ref == t.left.ref
<1>1. ref[1] = i.alias /\ ref[2] \in i.keys
  BY DEF RefsOf
<1>2. (ref[2] \notin i.keys \/ row[ref] = Null) <=> ~ t.negated
  BY <1>1 DEF JudgeNullTest
<1>3. ValueOf(t.left, row) = row[ref] /\ t.negated \in BOOLEAN
  BY DEF IsTest, ValueOf
<1> QED  BY <1>1, <1>2, <1>3 DEF Asks, Bool

(* A condition that passes is true of every row.                               *)
LEMMA PassIsTrue ==
  ASSUME NEW tree, IsForest(tree), NEW rows \in SUBSET Row, NEW select,
         IsJudgeable(tree, select)
  PROVE \A n \in DOMAIN tree : Verdicts(tree, rows, select)[n] = "pass" =>
          \A row \in rows : tree[n].means[row] = "T"
<1> DEFINE verdict == Verdicts(tree, rows, select)
           IsTrue(n) == verdict[n] = "pass" => \A row \in rows : tree[n].means[row] = "T"
           Shown == {n \in DOMAIN tree : IsTrue(n)}
<1>1. ASSUME NEW n \in DOMAIN tree, \A j \in 1 .. n - 1 : IsTrue(j) PROVE IsTrue(n)
  <2> DEFINE node == tree[n]
             parts == [k \in DOMAIN node.parts |-> verdict[n - node.parts[k]]]
  <2>1. verdict[n] = JudgeNode(node, parts, rows, select)
    BY VerdictOfNode
  <2>2. IsNode(tree, n)
    BY DEF IsForest
  <2> SUFFICES ASSUME verdict[n] = "pass", NEW row \in rows PROVE node.means[row] = "T"
    OBVIOUS
  <2> DEFINE said == [k \in DOMAIN node.parts |-> tree[n - node.parts[k]].means[row]]
  <2>3. node.means[row] = Says(node, said, row)
    BY <2>2 DEF IsNode
  <2>4. CASE node.operator = "test"
    <3>1. PICK i \in select : i.item = "columns" /\ node.test.left.ref \in RefsOf(i)
      BY <2>4 DEF IsJudgeable
    <3>2. node.test.test = "null" /\ IsTest(node.test)
      BY <2>2, <2>4 DEF IsJudgeable, IsNode
    <3>3. JudgeNullTest(node.test, rows, select) = "pass"
      BY <2>1, <2>4, <3>2 DEF JudgeNode
    <3>4. Asks(node.test, row) = "T"
      BY <3>1, <3>2, <3>3, NullTestIsTrue
    <3> QED  BY <2>3, <2>4, <3>4 DEF Says
  <2>5. CASE node.operator # "test"
    <3>1. node.operator \in {"AND", "OR"}
      BY <2>5 DEF IsJudgeable
    <3>2. DOMAIN node.parts = 1 .. 2
      <4>1. Len(node.parts) = 2 /\ node.parts \in Seq(1 .. n - 1)
        BY <2>2, <3>1 DEF IsNode, Arity
      <4> QED  BY <4>1, LenProperties
    <3> DEFINE j == n - node.parts[1]  k == n - node.parts[2]
    <3>3. j \in 1 .. n - 1 /\ k \in 1 .. n - 1
      <4>1. 1 \in DOMAIN node.parts /\ 2 \in DOMAIN node.parts
        BY <3>2
      <4> QED  BY <4>1, ForestParts
    <3>4. parts[1] = verdict[j] /\ parts[2] = verdict[k]
      BY <3>2
    <3>5. said[1] = tree[j].means[row] /\ said[2] = tree[k].means[row]
      BY <3>2
    <3> HIDE DEF j, k, parts, said, verdict, node
    <3>6. \/ node.operator = "AND" /\ parts[1] = "pass" /\ parts[2] = "pass"
          \/ node.operator = "OR" /\ (parts[1] = "pass" \/ parts[2] = "pass")
      BY <2>1, <3>1 DEF JudgeNode
    <3>7. \/ node.operator = "AND" /\ said[1] = "T" /\ said[2] = "T"
          \/ node.operator = "OR" /\ (said[1] = "T" \/ said[2] = "T")
      BY <1>1, <3>3, <3>4, <3>5, <3>6
    <3> QED  BY <2>3, <3>7 DEF Says, All3, Some3
  <2> QED  BY <2>4, <2>5
<1> HIDE DEF IsTrue
<1>2. DOMAIN tree \subseteq Shown
  <2>1. \A n \in DOMAIN tree : (\A j \in 1 .. n - 1 : j \in Shown) => n \in Shown
    BY <1>1
  <2> HIDE DEF Shown
  <2> QED  BY <2>1, ForestInduction
<1> QED  BY <1>2 DEF IsTrue

LEMMA WholeIsNode ==
  ASSUME NEW tree, IsForest(tree), tree # <<>>
  PROVE Len(tree) \in DOMAIN tree
<1> DEFINE S == {tree[n] : n \in DOMAIN tree}
<1>1. tree \in Seq(S)
  BY DEF IsForest
<1> HIDE DEF S
<1> QED  BY <1>1, LenProperties, EmptySeq

(* The judging of an expression passes, fails or throws.                       *)
LEMMA JudgeType ==
  ASSUME NEW e, Fits(e), NEW rows, NEW select
  PROVE Judge(e.tree, rows, select) \in Verdict
<1> DEFINE tree == e.tree
           verdict == Verdicts(tree, rows, select)
           Typed == {n \in DOMAIN tree : verdict[n] \in Verdict}
<1>1. IsForest(tree) /\ tree # <<>>
  BY DEF Fits, IsGrown
<1>2. ASSUME NEW n \in DOMAIN tree, \A j \in 1 .. n - 1 : j \in Typed PROVE n \in Typed
  <2> DEFINE node == tree[n]
             parts == [k \in DOMAIN node.parts |-> verdict[n - node.parts[k]]]
  <2>1. verdict[n] = JudgeNode(node, parts, rows, select)
    BY <1>1, VerdictOfNode
  <2>2. CASE node.operator = "if"
    <3>1. DOMAIN node.parts = 1 .. 3
      <4>1. /\ Len(node.parts) = Arity[node.operator]
            /\ node.parts \in Seq(1 .. n - 1)
        BY <1>1 DEF IsForest, IsNode
      <4>2. Arity["if"] = 3
        BY DEF Arity
      <4> QED  BY <2>2, <4>1, <4>2, LenProperties
    <3>2. \A k \in DOMAIN node.parts : n - node.parts[k] \in 1 .. n - 1
      BY <1>1, ForestParts
    <3>3. \A k \in DOMAIN node.parts : parts[k] \in Verdict
      BY <1>2, <3>2
    <3> HIDE DEF node, parts, verdict
    <3>4. parts[2] \in Verdict /\ parts[3] \in Verdict
      BY <3>1, <3>3
    <3>5. verdict[n] \in Verdict
      BY <2>1, <2>2, <3>4 DEF JudgeNode, Verdict
    <3> QED  BY <3>5
  <2>3. CASE node.operator # "if"
    <3> HIDE DEF node, parts, verdict
    <3>1. verdict[n] \in Verdict
      BY <2>1, <2>3 DEF JudgeNode, JudgeNullTest, JudgeComparison, Verdict
    <3> QED  BY <3>1
  <2> QED  BY <2>2, <2>3
<1>3. DOMAIN tree \subseteq Typed
  <2> HIDE DEF tree, Typed
  <2> QED  BY <1>1, <1>2, ForestInduction
<1>4. Len(tree) \in DOMAIN tree
  BY <1>1, WholeIsNode
<1> QED  BY <1>3, <1>4 DEF Judge

LEMMA JudgedIsTrue ==
  ASSUME NEW e, Fits(e), NEW rows \in SUBSET Row, NEW select, IsJudgeable(e.tree, select),
         Judge(e.tree, rows, select) = "pass", NEW row \in rows
  PROVE e.means[row] = "T"
<1> DEFINE tree == e.tree
<1>1. IsForest(tree) /\ tree # <<>> /\ e.means = Whole(tree).means
  BY DEF Fits, IsGrown
<1>2. Len(tree) \in DOMAIN tree
  BY <1>1, WholeIsNode
<1>3. Verdicts(tree, rows, select)[Len(tree)] = "pass"
  BY DEF Judge
<1>4. tree[Len(tree)].means[row] = "T"
  <2> HIDE DEF tree
  <2> QED  BY <1>1, <1>2, <1>3, PassIsTrue DEF tree
<1> QED  BY <1>1, <1>4 DEF Whole

--------------------------------------------------------------------------------
(* The rows of FROM and JOIN.                                                  *)

LEMMA RowsAreJoined ==
  ASSUME table \in Tables
  PROVE Rows \subseteq JoinedRows(table) /\ Rows \subseteq Row /\ IsFiniteSet(Rows)
<1> DEFINE P == (table \cup {Absent}) \X (Partners \cup {Absent})
           pair == [p \in P |-> Pair(p[1], p[2])]
<1>1. Rows \subseteq JoinedRows(table)
  <2>1. \A x \in table \cup {Absent} : \A y \in Partners \cup {Absent} :
          Pair(x, y) \in JoinedRows(table)
    <3> SUFFICES ASSUME NEW x \in table \cup {Absent}, NEW y \in Partners \cup {Absent}
                 PROVE Pair(x, y) \in JoinedRows(table)
      OBVIOUS
    <3>1. <<x, y>> \in P /\ <<x, y>>[1] = x /\ <<x, y>>[2] = y
      OBVIOUS
    <3> HIDE DEF P
    <3>2. Pair(<<x, y>>[1], <<x, y>>[2]) \in {Pair(p[1], p[2]) : p \in P}
      BY <3>1
    <3> QED  BY <3>1, <3>2 DEF JoinedRows, P
  <2>2. \A p \in Matches : p[1] \in table /\ p[2] \in Partners
    BY DEF Matches
  <2> QED  BY <2>1, <2>2 DEF Rows
<1>2. IsFiniteSet(JoinedRows(table))
  <2>1. IsFiniteSet(table) /\ IsFiniteSet(Partners)
    BY SelectAssumption DEF IsContent
  <2>2. IsFiniteSet(table \cup {Absent}) /\ IsFiniteSet(Partners \cup {Absent})
    BY <2>1, FS_AddElement
  <2>3. IsFiniteSet(P)
    BY <2>2, FS_Product
  <2> HIDE DEF P
  <2>4. pair \in Surjection(P, {pair[p] : p \in P})
    BY DEF Surjection
  <2>5. {pair[p] : p \in P} = {Pair(p[1], p[2]) : p \in P}
    OBVIOUS
  <2> HIDE DEF pair
  <2>6. IsFiniteSet({Pair(p[1], p[2]) : p \in P})
    BY <2>3, <2>4, <2>5, FS_Surjection
  <2> QED  BY <2>6 DEF JoinedRows, P
<1>3. JoinedRows(table) \subseteq Row
  BY SelectAssumption
<1> QED  BY <1>1, <1>2, <1>3, FS_Subset

LEMMA SelectedIsFinite ==
  ASSUME table \in Tables
  PROVE /\ Selected \subseteq Rows /\ Selected \subseteq Row
        /\ IsFiniteSet(Selected) /\ Cardinality(Selected) \in Nat
<1>1. Selected \subseteq Rows
  BY DEF Selected
<1> QED  BY <1>1, RowsAreJoined, FS_Subset, FS_CardinalityType

(* A text that agrees with what it means selects the rows that are asked for.  *)
LEMMA SelectedAreAsked ==
  ASSUME TypeOK, IsKnown
  PROVE Selected = Asked
<1> DEFINE e == Exprs[params.where]
<1>1. CASE params.where = None
  BY <1>1 DEF Selected, Asked
<1>2. CASE params.where # None
  <2>1. Fits(e) /\ e.agreement # "lost"
    BY <1>2, SelectAssumption DEF TypeOK, Params, IsKnown
  <2>2. \A row \in Row : Truth(e.text)[row] = "T" <=> e.means[row] = "T"
    <3> HIDE DEF e
    <3> QED  BY <2>1 DEF Fits, IsExpr, Agrees, Agreement
  <2>3. Rows \subseteq Row
    BY RowsAreJoined DEF TypeOK
  <2>4. \A row \in Rows : IsSelectedBy(params.where, row) <=> e.means[row] = "T"
    BY <2>2, <2>3 DEF IsSelectedBy
  <2> QED  BY <1>2, <2>4 DEF Selected, Asked
<1> QED  BY <1>1, <1>2

(* A row lacks only what its declaration or its join leaves out.               *)
LEMMA NullsOfRows ==
  ASSUME TypeOK, ListFits, params.join # "right",
         NEW row \in Rows, NEW ref \in Selects(params.select), row[ref] = Null
  PROVE MayBeNull(ref, params.join)
<1>1. PICK i \in params.select : ref \in RefsOf(i)
  BY DEF Selects
<1>2. ref \in Ref /\ ref[1] \in Entities
  <2>1. i \in Item /\ i.alias \in Entities
    BY DEF TypeOK, Params, ListFits
  <2>2. CASE \E alias \in {Base, Joined2}, keys \in SUBSET Columns :
               i = ColumnsItem(alias, keys)
    <3>1. PICK alias \in {Base, Joined2}, keys \in SUBSET Columns :
            i = ColumnsItem(alias, keys)
      BY <2>2
    <3>2. i.item = "columns" /\ i.alias = alias /\ i.keys = keys
      BY <3>1 DEF ColumnsItem
    <3>3. ref \in {alias} \X keys
      BY <1>1, <3>2 DEF RefsOf
    <3> QED  BY <2>1, <3>2, <3>3, NarrowingAssumption
  <2>3. CASE \E r \in Ref : i = ColumnItem(r)
    <3>1. PICK r \in Ref : i = ColumnItem(r)
      BY <2>3
    <3>2. i.item = "column" /\ i.ref = r /\ i.alias = r[1]
      BY <3>1 DEF ColumnItem
    <3> QED  BY <1>1, <2>1, <3>2 DEF RefsOf
  <2> QED  BY <2>1, <2>2, <2>3 DEF Item
<1>3. ref[1] \in {Base, Joined2} /\ ref[2] \in Columns /\ Base # Joined2
  BY <1>2, NarrowingAssumption
<1> DEFINE c == ref[2]
<1>4. \A x \in table \cup Partners : x[c] = Null => c \in Optional
  BY <1>3, SelectAssumption DEF TypeOK, IsContent
<1>5. \A x, y : Pair(x, y)[ref] = IF ref[1] = Base THEN x[c] ELSE y[c]
  BY <1>2 DEF Pair
<1>6. CASE \E x \in table, y \in Partners : row = Pair(x, y)
  BY <1>3, <1>4, <1>5, <1>6 DEF MayBeNull
<1>7. CASE params.join \in {None, "left"} /\ \E x \in table : row = Pair(x, Absent)
  <2>1. CASE ref[1] = Base
    BY <1>4, <1>5, <1>7, <2>1 DEF MayBeNull
  <2>2. CASE ref[1] = Joined2
    <3>1. params.join # None
      BY <1>2, <1>3, <2>2 DEF Entities
    <3> QED  BY <1>7, <2>2, <3>1 DEF MayBeNull
  <2> QED  BY <1>3, <2>1, <2>2
<1>8. \A p \in Matches : p[1] \in table /\ p[2] \in Partners
  BY DEF Matches
<1> QED  BY <1>6, <1>7, <1>8 DEF Rows

--------------------------------------------------------------------------------
(* What LIMIT and OFFSET leave.                                                *)

Left(S, offset) == Cardinality(S) - (IF offset = None THEN 0 ELSE offset)

LEMMA WindowSize ==
  ASSUME NEW S, IsFiniteSet(S), NEW limit \in Nat \cup {None}, NEW offset \in Nat \cup {None},
         NEW w \in Windows(S, limit, offset)
  PROVE /\ w \subseteq S /\ IsFiniteSet(w) /\ Cardinality(w) \in Nat /\ Left(S, offset) \in Int
        /\ Left(S, offset) <= 0 => Cardinality(w) = 0
        /\ Left(S, offset) > 0 =>
             Cardinality(w) = IF limit = None THEN Left(S, offset)
                              ELSE Smaller(Left(S, offset), limit)
<1> DEFINE left == Left(S, offset)  size == Cardinality(w)
<1>1. w \subseteq S /\ IsFiniteSet(w) /\ size \in Nat
  <2>1. w \subseteq S
    BY DEF Windows
  <2> QED  BY <2>1, FS_Subset, FS_CardinalityType
<1>2. left \in Int
  <2>1. Cardinality(S) \in Nat
    BY FS_CardinalityType
  <2> QED  BY <2>1 DEF Left
<1>3. size = IF left < 0 THEN 0 ELSE IF limit # None /\ limit < left THEN limit ELSE left
  BY DEF Windows, Left
<1> HIDE DEF left, size
<1>4. CASE limit = None
  BY <1>1, <1>2, <1>3, <1>4 DEF left, size
<1>5. CASE limit # None
  <2>1. limit \in Nat
    BY <1>5
  <2>2. left <= 0 => size = 0
    BY <1>2, <1>3, <2>1
  <2>3. left > 0 => size = Smaller(left, limit)
    BY <1>2, <1>3, <1>5, <2>1 DEF Smaller
  <2> QED  BY <1>1, <1>2, <1>5, <2>2, <2>3 DEF left, size
<1> QED  BY <1>4, <1>5

(* Nothing, where nothing else could have been.                                *)
LEMMA EmptyWindow ==
  ASSUME NEW S, IsFiniteSet(S), NEW limit, NEW offset, {} \in Windows(S, limit, offset)
  PROVE Windows(S, limit, offset) = {{}}
<1> SUFFICES ASSUME NEW w \in Windows(S, limit, offset) PROVE w = {}
  OBVIOUS
<1>1. w \subseteq S /\ Cardinality(w) = Cardinality({})
  BY DEF Windows
<1> QED  BY <1>1, FS_Subset, FS_EmptySet

(* With an order and no offset, the first rows.                                *)
LEMMA FirstRows ==
  ASSUME table \in Tables, NEW S \in SUBSET JoinedRows(table), IsFiniteSet(S), NEW limit,
         NEW w \in Windows(S, limit, None), params.orderBy,
         NEW row \in w, NEW other \in S \ w
  PROVE Rank(row) < Rank(other)
<1> DEFINE Below(r) == {x \in S : Rank(x) < Rank(r)}
           n == Cardinality(w)
           above == {n - Cardinality(Below(r)) : r \in w}
<1>1. w \subseteq S /\ IsFiniteSet(w) /\ n \in Nat
  <2>1. w \subseteq S
    BY DEF Windows
  <2> QED  BY <2>1, FS_Subset, FS_CardinalityType
<1>2. \A x, y \in S : Rank(x) \in Int /\ (Rank(x) = Rank(y) => x = y)
  BY RankAssumption
<1>3. \A r \in w : Cardinality(Below(r)) \in 0 .. n - 1
  <2>1. \A r \in w : Cardinality(Below(r)) \in 0 .. 0 + n - 1
    BY Zenon DEF Windows
  <2>2. 0 + n - 1 = n - 1
    BY <1>1
  <2> QED  BY <2>1, <2>2
<1>4. \A r \in w : IsFiniteSet(Below(r)) /\ Cardinality(Below(r)) \in Nat
  BY FS_Subset, FS_CardinalityType
<1> HIDE DEF n
<1>5. PICK last \in w : \A r \in w : Cardinality(Below(r)) <= Cardinality(Below(last))
  <2>1. above \in SUBSET Nat /\ above # {}
    <3> HIDE DEF Below
    <3> QED  BY <1>1, <1>3
  <2>2. PICK m \in above : \A j \in above : m <= j
    <3> HIDE DEF above
    <3> QED  BY <2>1, Minimum
  <2> HIDE DEF Below
  <2>3. PICK r \in w : m = n - Cardinality(Below(r))
    BY <2>2
  <2>4. \A s \in w : n - Cardinality(Below(r)) <= n - Cardinality(Below(s))
    BY <2>2, <2>3
  <2>5. \A s \in w : Cardinality(Below(s)) <= Cardinality(Below(r))
    BY <1>1, <1>4, <2>4
  <2> QED  BY <2>5
<1>6. ASSUME NEW r \in w PROVE Rank(r) <= Rank(last)
  <2> SUFFICES ASSUME Rank(last) < Rank(r) PROVE FALSE
    BY <1>1, <1>2
  <2>1. Below(last) \cup {last} \subseteq Below(r) /\ last \notin Below(last)
    BY <1>1, <1>2
  <2>2. Cardinality(Below(last) \cup {last}) = Cardinality(Below(last)) + 1
    BY <1>4, <2>1, FS_AddElement
  <2>3. Cardinality(Below(last) \cup {last}) <= Cardinality(Below(r))
    BY <1>4, <2>1, FS_Subset
  <2> HIDE DEF Below
  <2> QED  BY <1>4, <1>5, <2>2, <2>3
<1> SUFFICES ASSUME ~ (Rank(row) < Rank(other)) PROVE FALSE
  OBVIOUS
<1>7. Rank(other) < Rank(last)
  <2>1. Rank(other) < Rank(row)
    BY <1>1, <1>2
  <2> QED  BY <1>1, <1>2, <1>6, <2>1
<1> DEFINE Others == w \ {last}
<1>8. Others \cup {other} \subseteq Below(last)
  BY <1>1, <1>2, <1>6, <1>7
<1>9. Cardinality(Others \cup {other}) = n
  <2>1. IsFiniteSet(Others) /\ Cardinality(Others) = n - 1
    BY <1>1, FS_RemoveElement DEF n
  <2>2. Cardinality(Others \cup {other}) = Cardinality(Others) + 1
    BY <2>1, FS_AddElement
  <2> HIDE DEF Others
  <2> QED  BY <1>1, <2>1, <2>2
<1>10. n <= Cardinality(Below(last))
  <2> HIDE DEF Below, Others
  <2> QED  BY <1>4, <1>8, <1>9, FS_Subset
<1> HIDE DEF Below
<1> QED  BY <1>1, <1>3, <1>10

--------------------------------------------------------------------------------
(* The invariant.                                                              *)

LEMMA Initially == Init => IInv
<1> SUFFICES ASSUME Init PROVE IInv
  OBVIOUS
<1>1. /\ params.join = None /\ params.select = {ColumnsItem(Base, Columns)}
      /\ params.filter = <<>> /\ ~ params.isExplicitSelect
  BY DEF Init, Unasked
<1>2. ColumnsItem(Base, Columns) \in Item /\ ColumnsItem(Base, Columns).alias = Base
  BY DEF Item, ColumnsItem
<1>3. TypeOK
  <2>1. params \in Params
    BY <1>2 DEF Init, Unasked, Params
  <2> QED  BY <2>1 DEF Init, TypeOK, NoCall, Pending
<1>4. ListFits
  BY <1>1, <1>2 DEF ListFits, Entities
<1>5. asked = ToSet(params.filter)
  BY <1>1 DEF Init, ToSet
<1>6. CallFits /\ answer.outcome = "pending"
  BY FS_EmptySet DEF Init, CallFits, NoCall, Pending
<1> QED  BY <1>3, <1>4, <1>5, <1>6 DEF IInv

LEMMA BeforeTheCall ==
  ASSUME IInv, call = NoCall
  PROVE call.method = None /\ answer = Pending
  BY DEF IInv, CallFits, NoCall

LEMMA BuildKeeps ==
  ASSUME IInv, NEW next \in Params, Build(next), asked' \subseteq Narrowers,
         asked' = ToSet(next.filter), ListFits'
  PROVE IInv'
<1>1. /\ call = NoCall /\ params' = next
      /\ table' = table /\ call' = call /\ answer' = answer
  BY DEF Build
<1>2. answer = Pending
  BY <1>1, BeforeTheCall
<1>3. TypeOK'
  BY <1>1 DEF IInv, TypeOK
<1>4. CallFits'
  BY <1>1 DEF IInv, CallFits
<1>5. answer'.outcome = "pending"
  BY <1>1, <1>2 DEF Pending
<1> QED  BY <1>1, <1>3, <1>4, <1>5 DEF IInv

(* A method that leaves the joins, the select list and the narrowers alone.    *)
LEMMA PartKeeps ==
  ASSUME IInv, NEW next \in Params, Build(next), UNCHANGED asked,
         next.join = params.join, next.select = params.select,
         next.isExplicitSelect = params.isExplicitSelect, next.filter = params.filter
  PROVE IInv'
<1>1. params' = next
  BY DEF Build
<1>2. ListFits'
  BY <1>1 DEF IInv, ListFits, Entities
<1>3. asked' \subseteq Narrowers /\ asked' = ToSet(next.filter)
  BY DEF IInv, TypeOK
<1> QED  BY <1>2, <1>3, BuildKeeps

LEMMA JoinKeeps ==
  ASSUME IInv, NEW type \in Joins, JoinTable(type)
  PROVE IInv'
<1> DEFINE next == WithJoin(type)
           new  == ColumnsItem(Joined2, Columns)
<1>1. /\ params.join = None /\ ~ params.isExplicitSelect /\ Build(next) /\ asked' = asked
  BY DEF JoinTable, CanJoin, CanSelect
<1>2. new \in Item /\ new.alias = Joined2
  BY DEF Item, ColumnsItem
<1>3. params \in Params /\ asked \subseteq Narrowers /\ asked = ToSet(params.filter)
  BY DEF IInv, TypeOK
<1>4. /\ next.join = type /\ next.select = params.select \cup {new}
      /\ next.isExplicitSelect = params.isExplicitSelect /\ next.filter = params.filter
  BY <1>3 DEF WithJoin, Params
<1>5. next \in Params
  BY <1>2, <1>3 DEF WithJoin, Params
<1>6. params.select = {ColumnsItem(Base, Columns)}
  BY <1>1 DEF IInv, ListFits, Entities
<1>7. next.join # None
  BY <1>4, SelectAssumption
<1> HIDE DEF next, new
<1>8. params' = next
  BY <1>1 DEF Build
<1>9. ListFits'
  <2>1. Entities' = {Base, Joined2}
    BY <1>7, <1>8 DEF Entities
  <2>2. params'.select = {ColumnsItem(a, Columns) : a \in {Base, Joined2}}
    BY <1>4, <1>6, <1>8 DEF new
  <2>3. \A i \in params'.select : i.alias \in {Base, Joined2}
    BY <2>2 DEF ColumnsItem
  <2>4. ~ params'.isExplicitSelect
    BY <1>1, <1>4, <1>8
  <2> QED  BY <2>1, <2>2, <2>3, <2>4 DEF ListFits
<1> QED  BY <1>1, <1>3, <1>4, <1>5, <1>9, BuildKeeps

LEMMA SelectKeeps ==
  ASSUME IInv, NEW items \in Selections, SelectItems(items)
  PROVE IInv'
<1> DEFINE next == [params EXCEPT !.select = items, !.isExplicitSelect = TRUE]
<1>1. /\ Build(next) /\ asked' = asked
      /\ params.join = None => \A i \in items : i.alias = Base
  BY DEF SelectItems
<1>2. params \in Params /\ asked \subseteq Narrowers /\ asked = ToSet(params.filter)
  BY DEF IInv, TypeOK
<1>3. items \subseteq Item
  BY SelectAssumption
<1>4. /\ next \in Params /\ next.select = items /\ next.isExplicitSelect = TRUE
      /\ next.join = params.join /\ next.filter = params.filter
  BY <1>2, <1>3 DEF Params
<1>5. \A i \in items : i.alias \in {Base, Joined2}
  BY <1>3, NarrowingAssumption DEF Item, ColumnsItem, ColumnItem
<1> HIDE DEF next
<1>6. ListFits'
  BY <1>1, <1>4, <1>5 DEF Build, ListFits, Entities
<1> QED  BY <1>1, <1>2, <1>4, <1>6, BuildKeeps

LEMMA NarrowerKeeps ==
  ASSUME IInv, NEW e \in Narrowers, AddTypeNarrower(e)
  PROVE IInv'
<1> DEFINE added == Append(params.filter, e)
           next  == [params EXCEPT !.filter = added]
<1>1. Build(next) /\ asked' = asked \cup {e}
  BY DEF AddTypeNarrower
<1>2. params \in Params /\ asked \subseteq Narrowers /\ asked = ToSet(params.filter)
  BY DEF IInv, TypeOK
<1>3. params.filter \in Seq(Narrowers) /\ added \in Seq(Narrowers)
  BY <1>2 DEF Params
<1> HIDE DEF added
<1>4. /\ next \in Params /\ next.filter = added
      /\ next.join = params.join /\ next.select = params.select
      /\ next.isExplicitSelect = params.isExplicitSelect
  BY <1>2, <1>3 DEF Params
<1> HIDE DEF next
<1>5. ListFits'
  BY <1>1, <1>4 DEF IInv, Build, ListFits, Entities
<1>6. ToSet(added) = ToSet(params.filter) \cup {e}
  <2> DEFINE s == params.filter  t == added
  <2>1. /\ DOMAIN s = 1 .. Len(s) /\ DOMAIN t = 1 .. Len(s) + 1 /\ Len(s) \in Nat
        /\ \A i \in 1 .. Len(s) : t[i] = s[i]
    BY <1>3 DEF added
  <2>2. t[Len(s) + 1] = e
    BY <1>3 DEF added
  <2> HIDE DEF s, t
  <2>3. {t[i] : i \in DOMAIN t} = {s[i] : i \in DOMAIN s} \cup {e}
    BY <2>1, <2>2
  <2> QED  BY <2>3 DEF ToSet, s, t
<1> QED  BY <1>1, <1>2, <1>4, <1>5, <1>6, BuildKeeps

LEMMA MethodsKeep ==
  ASSUME IInv,
         \/ \E type \in Joins : JoinTable(type)
         \/ \E items \in Selections : SelectItems(items)
         \/ \E e \in Wheres : Where(e)
         \/ \E n \in Numbers : Limit(n) \/ Offset(n) \/ AssertLength(n)
         \/ \E e \in Narrowers : AddTypeNarrower(e)
         \/ OrderBy \/ ThrowsIfEmpty
  PROVE IInv'
<1>1. params \in Params
  BY DEF IInv, TypeOK
<1>2. ASSUME NEW e \in Wheres, Where(e) PROVE IInv'
  BY <1>1, <1>2, PartKeeps DEF Where, Params
<1>3. ASSUME NEW n \in Numbers, Limit(n) PROVE IInv'
  BY <1>1, <1>3, PartKeeps DEF Limit, Params
<1>4. ASSUME NEW n \in Numbers, Offset(n) PROVE IInv'
  BY <1>1, <1>4, PartKeeps DEF Offset, Params
<1>5. ASSUME NEW n \in Numbers, AssertLength(n) PROVE IInv'
  BY <1>1, <1>5, PartKeeps DEF AssertLength, Params
<1>6. CASE OrderBy
  BY <1>1, <1>6, PartKeeps DEF OrderBy, Params
<1>7. CASE ThrowsIfEmpty
  BY <1>1, <1>7, PartKeeps DEF ThrowsIfEmpty, Params
<1> QED  BY <1>2, <1>3, <1>4, <1>5, <1>6, <1>7, JoinKeeps, SelectKeeps, NarrowerKeeps

(* While table and builder stay, so does what is read of them.                 *)
LEMMA Frozen ==
  ASSUME UNCHANGED <<table, params>>
  PROVE /\ Selected' = Selected
        /\ \A S, limit, offset : Windows(S, limit, offset)' = Windows(S, limit, offset)
        /\ \A rows, b : Ends(rows, b)' = Ends(rows, b)
        /\ \A rows : Narrow(rows)' = Narrow(rows)
<1>1. Matches' = Matches
  BY DEF Matches
<1>2. Rows' = Rows
  BY <1>1 DEF Rows
<1>3. Selected' = Selected
  BY <1>2 DEF Selected
<1>4. \A S, limit, offset : Windows(S, limit, offset)' = Windows(S, limit, offset)
  BY DEF Windows
<1>5. \A rows : Narrow(rows)' = Narrow(rows)
  BY DEF Narrow
<1>6. \A rows, b : Ends(rows, b)' = Ends(rows, b)
  BY <1>5 DEF Ends
<1> QED  BY <1>3, <1>4, <1>5, <1>6

LEMMA EndsType ==
  ASSUME NEW rows, NEW b PROVE Ends(rows, b) \in {"rows", "empty", "null", "broken"}
  BY DEF Ends

LEMMA WindowType ==
  ASSUME IInv, NEW limit, NEW rows \in Windows(Selected, limit, params.offset)
  PROVE rows \subseteq Selected /\ rows \in SUBSET Row /\ IsFiniteSet(rows)
<1>1. rows \subseteq Selected
  BY DEF Windows
<1> QED  BY <1>1, SelectedIsFinite, FS_Subset DEF IInv, TypeOK

(* A call that is answered at once.                                            *)
LEMMA AnswerKeeps ==
  ASSUME IInv, call = NoCall, UNCHANGED <<table, params, asked>>,
         NEW method \in Methods, NEW b \in BOOLEAN,
         method = "await" => b = params.throwsIfEmpty,
         NEW rows \in Windows(Selected, params.limit, params.offset), NEW outcome,
         \/ outcome = Ends(rows, b)
         \/ outcome = "unproven" /\ method = "queryAndNarrow",
         outcome = "rows" /\ method = "queryAndNarrow" => Narrow(rows) = "pass",
         call' = [throwsIfEmpty |-> b, method |-> method, page |-> None],
         answer' = [outcome |-> outcome, rows |-> rows, again |-> {}]
  PROVE IInv'
<1>1. /\ call'.throwsIfEmpty = b /\ call'.method = method /\ call'.page = None
      /\ answer'.outcome = outcome /\ answer'.rows = rows /\ answer'.again = {}
  OBVIOUS
<1>2. TypeOK'
  <2>1. outcome \in Outcome
    BY EndsType DEF Outcome
  <2>2. rows \in SUBSET Row
    BY WindowType
  <2> QED  BY <2>1, <2>2 DEF IInv, TypeOK
<1>3. ListFits' /\ asked' = ToSet(params'.filter)
  BY DEF IInv, ListFits, Entities
<1>4. method # None
  BY SelectAssumption
<1>5. CallFits'
  BY <1>1, <1>4, WindowType DEF CallFits
<1>6. LastLimit' = params.limit
  BY <1>1 DEF LastLimit
<1>7. rows \in Windows(Selected, LastLimit, params.offset)'
  BY <1>6, Frozen
<1>8. CameTo(rows)'
  BY <1>1, Frozen DEF CameTo
<1>9. \E found \in Windows(Selected, LastLimit, params.offset)' : CameTo(found)'
  BY <1>7, <1>8
<1> QED  BY <1>2, <1>3, <1>5, <1>9 DEF IInv

LEMMA CallsKeep ==
  ASSUME IInv,
         \/ Invalid \/ Await \/ QueryAndNarrow
         \/ \E b \in BOOLEAN : Query(b) \/ \E n \in PageSizes : QueryPages(b, n)
  PROVE IInv'
<1>1. CASE Invalid
  <2>1. PICK method \in Methods : Begin(method, FALSE, None)
    BY <1>1 DEF Invalid
  <2>2. /\ UNCHANGED <<table, params, asked>> /\ answer'.outcome = "invalid"
        /\ answer' \in [outcome : Outcome, rows : SUBSET Row, again : SUBSET Row]
        /\ IsFiniteSet(answer'.rows)
    BY <1>1, FS_EmptySet DEF Invalid, Settle, Outcome
  <2>3. /\ call' = [throwsIfEmpty |-> FALSE, method |-> method, page |-> None]
        /\ method # None
    BY <2>1, SelectAssumption DEF Begin
  <2>4. TypeOK'
    BY <2>2, <2>3 DEF IInv, TypeOK
  <2>5. ListFits' /\ asked' = ToSet(params'.filter)
    BY <2>2 DEF IInv, ListFits, Entities
  <2>6. CallFits'
    BY <2>2, <2>3 DEF CallFits
  <2> QED  BY <2>2, <2>4, <2>5, <2>6 DEF IInv
<1>2. ASSUME NEW method \in {"await", "query"}, NEW b \in BOOLEAN, Fetch(method, b),
             method = "await" => b = params.throwsIfEmpty
      PROVE IInv'
  <2>1. PICK rows \in Windows(Selected, params.limit, params.offset) :
          Settle(Ends(rows, b), rows)
    BY <1>2 DEF Fetch
  <2>2. /\ call = NoCall
        /\ call' = [throwsIfEmpty |-> b, method |-> method, page |-> None]
        /\ UNCHANGED <<table, params, asked>>
        /\ answer' = [outcome |-> Ends(rows, b), rows |-> rows, again |-> {}]
    BY <1>2, <2>1 DEF Fetch, Begin, Settle
  <2> QED  BY <1>2, <2>2, AnswerKeeps DEF Methods
<1>3. CASE Await
  <2>1. params.throwsIfEmpty \in BOOLEAN
    BY DEF IInv, TypeOK, Params
  <2> QED  BY <1>2, <1>3, <2>1 DEF Await
<1>4. ASSUME NEW b \in BOOLEAN, Query(b) PROVE IInv'
  BY <1>2, <1>4 DEF Query
<1>5. CASE QueryAndNarrow
  <2> DEFINE outcome(rows) ==
               LET end == Ends(rows, FALSE)
               IN IF end = "rows" /\ Narrow(rows) # "pass" THEN "unproven" ELSE end
  <2>1. PICK rows \in Windows(Selected, params.limit, params.offset) :
          Settle(outcome(rows), rows)
    BY <1>5 DEF QueryAndNarrow
  <2>2. /\ call = NoCall
        /\ call' = [throwsIfEmpty |-> FALSE, method |-> "queryAndNarrow", page |-> None]
        /\ UNCHANGED <<table, params, asked>>
        /\ answer' = [outcome |-> outcome(rows), rows |-> rows, again |-> {}]
    BY <1>5, <2>1 DEF QueryAndNarrow, Begin, Settle
  <2>3. /\ outcome(rows) = Ends(rows, FALSE) \/ outcome(rows) = "unproven"
        /\ outcome(rows) = "rows" => Narrow(rows) = "pass"
    OBVIOUS
  <2> HIDE DEF outcome
  <2> QED  BY <2>2, <2>3, AnswerKeeps DEF Methods
<1>6. ASSUME NEW b \in BOOLEAN, NEW n \in PageSizes, QueryPages(b, n) PROVE IInv'
  <2>1. /\ call = NoCall /\ UNCHANGED <<table, params, asked, answer>>
        /\ call' = [throwsIfEmpty |-> b, method |-> "query", page |-> n]
    BY <1>6 DEF QueryPages, Begin
  <2>2. answer'.outcome = "pending"
    BY <2>1, BeforeTheCall DEF Pending
  <2>3. "query" # None
    BY SelectAssumption DEF Methods
  <2>4. TypeOK'
    BY <2>1 DEF IInv, TypeOK, Methods
  <2>5. ListFits' /\ asked' = ToSet(params'.filter)
    BY <2>1 DEF IInv, ListFits, Entities
  <2>6. CallFits'
    BY <2>1, <2>3, BeforeTheCall DEF IInv, CallFits, Pending
  <2> QED  BY <2>2, <2>4, <2>5, <2>6 DEF IInv
<1> QED  BY <1>1, <1>3, <1>4, <1>5, <1>6

LEMMA PageKeeps ==
  ASSUME IInv, NextPage
  PROVE IInv'
<1> DEFINE last(rows) == Cardinality(rows) < call.page
<1>1. PICK rows \in Windows(Selected, call.page, params.offset) : TakePage(rows, last(rows))
  BY DEF NextPage, Pages
<1> DEFINE end == Ends(rows, call.throwsIfEmpty)
<1>2. /\ UNCHANGED <<table, params, asked, call>> /\ call.page # None
      /\ answer'.outcome = IF end = "rows" /\ ~ last(rows) THEN "pending" ELSE end
      /\ answer'.rows = answer.rows \cup rows
      /\ answer'.again = answer.again \cup (answer.rows \cap rows)
      /\ answer' = [outcome |-> answer'.outcome, rows |-> answer'.rows, again |-> answer'.again]
  BY <1>1 DEF NextPage, TakePage
<1>3. call.method = "query"
  BY <1>2 DEF IInv, CallFits
<1>4. end \in {"rows", "empty", "null", "broken"}
  BY EndsType
<1> HIDE DEF last, end
<1>5. TypeOK'
  <2>1. answer'.rows \in SUBSET Row /\ answer'.again \in SUBSET Row
    BY <1>2, WindowType DEF IInv, TypeOK
  <2>2. answer'.outcome \in Outcome \cup {"pending"}
    BY <1>2, <1>4 DEF Outcome
  <2> QED  BY <1>2, <2>1, <2>2 DEF IInv, TypeOK
<1>6. ListFits' /\ asked' = ToSet(params'.filter)
  BY <1>2 DEF IInv, ListFits, Entities
<1>7. call.method # None
  BY <1>3, SelectAssumption DEF Methods
<1>11. /\ IsFiniteSet(answer'.rows) /\ Cardinality(answer'.rows) \in Nat
       /\ IsFiniteSet(rows) /\ Cardinality(rows) \in Nat
       /\ Cardinality(rows) <= Cardinality(answer'.rows)
       /\ Cardinality(answer.rows) \in Nat
       /\ Cardinality(answer.rows) <= Cardinality(answer'.rows)
  <2>1. IsFiniteSet(rows) /\ IsFiniteSet(answer.rows)
    BY WindowType DEF IInv, CallFits
  <2>2. IsFiniteSet(answer'.rows)
    BY <1>2, <2>1, FS_Union
  <2>3. rows \subseteq answer'.rows /\ answer.rows \subseteq answer'.rows
    BY <1>2
  <2> QED  BY <2>1, <2>2, <2>3, FS_Subset, FS_CardinalityType
<1>12. call.page \in Nat /\ answer.outcome = "pending"
  BY <1>1, SelectAssumption DEF NextPage, IInv, TypeOK
<1>13. answer = Pending \/ call.page <= Cardinality(answer'.rows)
  <2>1. answer = Pending \/ call.page <= Cardinality(answer.rows)
    BY <1>2, <1>12 DEF IInv, CallFits
  <2> QED  BY <1>11, <1>12, <2>1
<1>8. CallFits'
  <2>1. answer'.outcome = "pending" => ~ last(rows)
    BY <1>2, <1>4
  <2>2. answer'.outcome = "pending" => call.page <= Cardinality(answer'.rows)
    BY <1>11, <1>12, <2>1 DEF last
  <2> QED  BY <1>2, <1>3, <1>7, <1>11, <2>2 DEF CallFits
<1>9. CASE answer'.outcome = "pending"
  BY <1>5, <1>6, <1>8, <1>9 DEF IInv
<1>10. CASE answer'.outcome # "pending"
  <2>1. LastLimit' = call.page
    BY <1>2 DEF LastLimit
  <2>2. rows \in Windows(Selected, LastLimit, params.offset)'
    BY <1>2, <2>1, Frozen
  <2>3. answer'.outcome = end /\ (end = "rows" => last(rows))
    BY <1>2, <1>10
  <2>4. Ends(rows, call.throwsIfEmpty)' = end
    BY <1>2, Frozen DEF end
  <2>7. \/ rows = answer'.rows /\ answer'.again = {}
        \/ call.page <= Cardinality(answer'.rows)
    <3>1. CASE answer = Pending
      BY <1>2, <3>1 DEF Pending
    <3> QED  BY <1>13, <3>1
  <2>5. CameTo(rows)'
    BY <1>2, <1>3, <2>3, <2>4, <2>7 DEF CameTo, last
  <2>6. \E found \in Windows(Selected, LastLimit, params.offset)' : CameTo(found)'
    BY <2>2, <2>5
  <2> QED  BY <1>5, <1>6, <1>8, <2>6 DEF IInv
<1> QED  BY <1>9, <1>10

LEMMA StepKeeps == IInv /\ [Next]_vars => IInv'
<1> SUFFICES ASSUME IInv, [Next]_vars PROVE IInv'
  OBVIOUS
<1>1. CASE Change
  <2>1. /\ table' \in Tables /\ UNCHANGED <<params, asked, call, answer>>
        /\ answer.outcome = "pending"
    BY <1>1 DEF Change
  <2> QED  BY <2>1 DEF IInv, TypeOK, ListFits, Entities, CallFits
<1>2. CASE Done \/ UNCHANGED vars
  <2>1. UNCHANGED vars
    BY <1>2 DEF Done
  <2>2. /\ UNCHANGED <<table, params>> /\ asked' = asked /\ call' = call /\ answer' = answer
    BY <2>1 DEF vars
  <2>3. TypeOK' /\ ListFits' /\ CallFits' /\ asked' = ToSet(params'.filter)
    BY <2>2 DEF IInv, TypeOK, ListFits, Entities, CallFits
  <2>4. LastLimit' = LastLimit
    BY <2>2 DEF LastLimit
  <2>5. Windows(Selected, LastLimit, params.offset)'
          = Windows(Selected, LastLimit, params.offset)
    BY <2>2, <2>4, Frozen
  <2>6. \A rows : CameTo(rows) => CameTo(rows)'
    BY <2>2, Frozen DEF CameTo
  <2> QED  BY <2>2, <2>3, <2>5, <2>6 DEF IInv
<1> QED  BY <1>1, <1>2, MethodsKeep, CallsKeep, PageKeeps DEF Next

(* However the builder is used, the select list fits the joins, no narrower is *)
(* lost, and a call that has ended came to its end over rows its statement may *)
(* have returned (from-builder.ts, QueryResult.ts, paginate.ts).               *)
THEOREM SelectInvariant == Spec => []IInv
  BY Initially, StepKeeps, PTL DEF Spec

--------------------------------------------------------------------------------
(* What follows from it.                                                       *)

(* The rows a call came to its end over.                                       *)
LEMMA LastRows ==
  ASSUME IInv, answer.outcome \notin {"pending", "invalid"}
  PROVE \E rows \in Windows(Selected, LastLimit, params.offset) :
          /\ CameTo(rows) /\ rows \subseteq Selected /\ rows \in SUBSET Row
          /\ answer.outcome # "unproven" => answer.outcome = Ends(rows, call.throwsIfEmpty)
<1>1. PICK rows \in Windows(Selected, LastLimit, params.offset) : CameTo(rows)
  BY DEF IInv
<1> QED  BY <1>1, WindowType DEF CameTo

(* The order of the checks, and what each is over.                             *)
LEMMA EmptyFollows == IInv => EmptyIsRefused
<1> DEFINE isAsked == call.throwsIfEmpty \/ (call.method = "await" /\ params.throwsIfEmpty)
<1> SUFFICES ASSUME IInv, answer.outcome \in {"rows", "empty"}
             PROVE /\ answer.outcome = "rows" /\ isAsked => answer.rows # {}
                   /\ answer.outcome = "empty" =>
                        isAsked /\ Windows(Selected, LastLimit, params.offset) = {{}}
  BY DEF EmptyIsRefused, LastLimit
<1>1. PICK rows \in Windows(Selected, LastLimit, params.offset) :
        CameTo(rows) /\ answer.outcome = Ends(rows, call.throwsIfEmpty)
  BY LastRows
<1>2. isAsked => call.throwsIfEmpty
  BY <1>1 DEF CameTo
<1>3. answer.outcome = "rows" /\ call.throwsIfEmpty => rows # {}
  BY <1>1 DEF Ends
<1>4. answer.outcome = "empty" => call.throwsIfEmpty /\ rows = {}
  BY <1>1 DEF Ends
<1>5. IsFiniteSet(Selected)
  BY SelectedIsFinite DEF IInv, TypeOK
<1>6. rows = {} => Windows(Selected, LastLimit, params.offset) = {{}}
  BY <1>1, <1>5, EmptyWindow
<1> QED  BY <1>1, <1>2, <1>3, <1>4, <1>6 DEF CameTo

(* Nobody who asked to be told gets an empty answer for a query that found     *)
(* nothing, and who is told so asked for it, and nothing is there to be found  *)
(* (QueryResult.ts, paginate.ts).                                              *)
THEOREM EmptyAnswersAreRefused == Spec => []EmptyIsRefused
  BY SelectInvariant, EmptyFollows, PTL

LEMMA NullsFollow == IInv => NullsAreExpected
<1> SUFFICES ASSUME IInv, answer.outcome = "null", params.join # "right" PROVE FALSE
  BY DEF NullsAreExpected
<1>1. PICK rows : rows \subseteq Selected /\ Ends(rows, call.throwsIfEmpty) = "null"
  BY LastRows
<1>2. HasUnexpectedNull(rows, params.select, params.join)
  BY <1>1 DEF Ends
<1>3. rows \subseteq Rows
  BY <1>1 DEF Selected
<1> QED  BY <1>2, <1>3, NullsOfRows DEF HasUnexpectedNull, IInv

(* Rows that follow their declarations are never refused for a NULL, unless a  *)
(* right join left the table it joins to without a row (ExpressionColumn.ts,   *)
(* ExpressionSelectColumns.ts, QueryResult.ts).                                *)
THEOREM NullsOfJoinsAreExpected == Spec => []NullsAreExpected
  BY SelectInvariant, NullsFollow, PTL

LEMMA NarrowingFollows == IInv => NarrowedIsTrue
<1> SUFFICES ASSUME IInv, call.method = "queryAndNarrow", answer.outcome = "rows"
             PROVE /\ params.length \in {None, Cardinality(answer.rows)}
                   /\ \A e \in asked : IsJudgeable(Exprs[e].tree, params.select) =>
                        \A row \in answer.rows : Exprs[e].means[row] = "T"
  BY DEF NarrowedIsTrue
<1> DEFINE rows == answer.rows
           verdicts == {Judge(Exprs[e].tree, rows, params.select) : e \in ToSet(params.filter)}
<1>1. rows \in SUBSET Row /\ Narrow(rows) = "pass"
  <2>1. call.page = None
    BY DEF IInv, CallFits
  <2> QED  BY <2>1, LastRows DEF CameTo
<1>2. params.length \in {None, Cardinality(rows)}
  BY <1>1 DEF Narrow
<1>3. "throws" \notin verdicts /\ "fail" \notin verdicts
  BY <1>1 DEF Narrow
<1>4. ASSUME NEW e \in asked, IsJudgeable(Exprs[e].tree, params.select), NEW row \in rows
      PROVE Exprs[e].means[row] = "T"
  <2>1. e \in DOMAIN Exprs /\ Fits(Exprs[e])
    BY SelectAssumption DEF IInv, TypeOK
  <2>2. Judge(Exprs[e].tree, rows, params.select) \in verdicts
    BY DEF IInv
  <2>3. Judge(Exprs[e].tree, rows, params.select) \in Verdict
    BY <2>1, JudgeType
  <2> HIDE DEF verdicts
  <2>4. Judge(Exprs[e].tree, rows, params.select) = "pass"
    BY <1>3, <2>2, <2>3 DEF Verdict
  <2> QED  BY <1>1, <1>4, <2>1, <2>4, JudgedIsTrue
<1> QED  BY <1>2, <1>4

(* What queryAndNarrow() resolves with is what its type says: as many rows as  *)
(* asserted, and every narrower that was added is true of every row, however   *)
(* many were added, in which order and however deep each is, where narrowing   *)
(* is to be relied on (type-narrower.ts, from-builder.ts).                     *)
THEOREM NarrowedRowsAreTrue == Spec => []NarrowedIsTrue
  BY SelectInvariant, NarrowingFollows, PTL

LEMMA AnswerFollows == IInv => AnswersWhatWasAsked
<1> DEFINE left == Left(Asked, params.offset)
           missing == Asked \ answer.rows
<1> SUFFICES ASSUME IInv, answer.outcome = "rows", IsKnown
             PROVE IF call.page # None
                   THEN /\ params.offset = None => missing = {}
                        /\ Cardinality(answer.rows) < call.page =>
                             answer.rows \subseteq Asked /\ answer.again = {}
                   ELSE /\ answer.rows \subseteq Asked
                        /\ left <= 0 => answer.rows = {}
                        /\ left > 0 => Cardinality(answer.rows) =
                             IF params.limit = None THEN left ELSE Smaller(left, params.limit)
                        /\ params.orderBy /\ params.offset = None =>
                             \A row \in answer.rows, other \in missing :
                               Rank(row) < Rank(other)
  BY DEF AnswersWhatWasAsked, Left
<1>1. Selected = Asked
  BY SelectedAreAsked DEF IInv
<1>2. table \in Tables /\ IsFiniteSet(Asked) /\ Asked \in SUBSET JoinedRows(table)
  BY <1>1, SelectedIsFinite, RowsAreJoined DEF IInv, TypeOK
<1>3. PICK rows \in Windows(Asked, LastLimit, params.offset) : CameTo(rows)
  BY <1>1, LastRows
<1>4. /\ params.limit \in Nat \cup {None} /\ params.offset \in Nat \cup {None}
      /\ call.page \in Nat \cup {None}
  BY SelectAssumption DEF IInv, TypeOK, Params
<1>5. LastLimit \in Nat \cup {None}
  BY <1>4 DEF LastLimit
<1>6. /\ rows \subseteq Asked /\ IsFiniteSet(rows) /\ Cardinality(rows) \in Nat /\ left \in Int
      /\ left <= 0 => Cardinality(rows) = 0
      /\ left > 0 => Cardinality(rows) =
           IF LastLimit = None THEN left ELSE Smaller(left, LastLimit)
  <2> DEFINE limit == LastLimit  offset == params.offset
  <2>1. /\ limit \in Nat \cup {None} /\ offset \in Nat \cup {None}
        /\ rows \in Windows(Asked, limit, offset)
    BY <1>3, <1>4, <1>5
  <2> HIDE DEF limit, offset
  <2>2. /\ rows \subseteq Asked /\ IsFiniteSet(rows) /\ Cardinality(rows) \in Nat
        /\ Left(Asked, offset) \in Int
        /\ Left(Asked, offset) <= 0 => Cardinality(rows) = 0
        /\ Left(Asked, offset) > 0 =>
             Cardinality(rows) = IF limit = None THEN Left(Asked, offset)
                                 ELSE Smaller(Left(Asked, offset), limit)
    BY <1>2, <2>1, WindowSize
  <2> QED  BY <2>2 DEF limit, offset
<1> HIDE DEF left
<1>7. CASE call.page # None
  <2>6. ASSUME Cardinality(answer.rows) < call.page
        PROVE answer.rows \subseteq Asked /\ answer.again = {}
    <3>1. IsFiniteSet(answer.rows) /\ Cardinality(answer.rows) \in Nat /\ call.page \in Nat
      BY <1>4, <1>7, FS_CardinalityType DEF IInv, CallFits
    <3>2. ~ (call.page <= Cardinality(answer.rows))
      BY <2>6, <3>1
    <3>3. rows = answer.rows /\ answer.again = {}
      BY <1>3, <1>7, <3>2 DEF CameTo
    <3> QED  BY <1>6, <3>3
  <2> SUFFICES ASSUME params.offset = None PROVE missing = {}
    BY <1>7, <2>6
  <2>1. Cardinality(rows) < call.page /\ rows \subseteq answer.rows
    BY <1>3, <1>7 DEF CameTo
  <2>2. LastLimit = call.page /\ call.page \in Nat
    BY <1>4, <1>7 DEF LastLimit
  <2>3. left = Cardinality(Asked) /\ Cardinality(Asked) \in Nat
    BY <1>2, FS_CardinalityType DEF left, Left
  <2>4. Cardinality(rows) = Cardinality(Asked)
    <3>1. CASE left = 0
      BY <1>6, <2>3, <3>1
    <3>2. CASE left > 0
      BY <1>6, <1>7, <2>1, <2>2, <2>3, <3>2 DEF Smaller
    <3> QED  BY <2>3, <3>1, <3>2
  <2>5. rows = Asked
    BY <1>2, <1>6, <2>4, FS_Subset
  <2> QED  BY <2>1, <2>5
<1>8. CASE call.page = None
  <2>1. rows = answer.rows /\ LastLimit = params.limit
    BY <1>3, <1>8 DEF CameTo, LastLimit
  <2>2. left <= 0 => rows = {}
    BY <1>6, FS_EmptySet
  <2>3. ASSUME params.orderBy, params.offset = None, NEW row \in rows, NEW other \in missing
        PROVE Rank(row) < Rank(other)
    BY <1>2, <1>3, <2>1, <2>3, FirstRows
  <2> QED  BY <1>6, <1>8, <2>1, <2>2, <2>3
<1> QED  BY <1>7, <1>8

(* A call that is answered has only rows that were asked for, as many of them  *)
(* as limit() and offset() leave, the first ones if there is an order; and a   *)
(* paginated one has every row that was asked for and is there when it ends,   *)
(* whoever writes between two pages, and with fewer rows than a page those     *)
(* only, each once (from-builder.ts, writeSql.ts, paginate.ts).                *)
THEOREM AnswersAreAskedFor == Spec => []AnswersWhatWasAsked
  BY SelectInvariant, AnswerFollows, PTL
================================================================================
