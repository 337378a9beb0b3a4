------------------------------ MODULE Expressions ------------------------------
(***************************************************************************)
(* Boolean expressions: what the methods of an expression builder and the  *)
(* functions and(), or(), not() and ifClause() make of their operands.     *)
(* Expressions are immutable and writeSql has no effect, so that each one  *)
(* is kept with the text it will be written as, read the way the database  *)
(* reads it, and with what the calls that made it say (the reference).     *)
(*                                                                         *)
(* A text is a sequence of disjuncts, each a sequence of factors: AND binds *)
(* more tightly than OR, and a factor is a test or what stands in brackets. *)
(***************************************************************************)
EXTENDS Integers, Sequences

CONSTANTS
  Ref,      \* alias.column
  Value,    \* values of the columns' types
  Null,     \* NULL
  Missing,  \* undefined, null or a value of another type, given as an operand
  Row,      \* joined rows
  Like      \* the pairs of values that LIKE relates

ASSUME ExpressionAssumption ==
  /\ Value \subseteq Int /\ Null \notin Int /\ Missing \notin Value
  /\ Row \subseteq [Ref -> Value \cup {Null}]
  /\ Like \subseteq Value \X Value

--------------------------------------------------------------------------------
(* Three-valued logic, pointwise over rows.                                    *)

Truth3 == {"T", "F", "N"}
Truths == [Row -> Truth3]

Bool(b) == IF b THEN "T" ELSE "F"

(* The conjunction and the disjunction of a set of truth values.               *)
All3(S)  == IF "F" \in S THEN "F" ELSE IF "N" \in S THEN "N" ELSE "T"
Some3(S) == IF "T" \in S THEN "T" ELSE IF "N" \in S THEN "N" ELSE "F"
Not3(t)  == IF t = "T" THEN "F" ELSE IF t = "F" THEN "T" ELSE "N"

--------------------------------------------------------------------------------
(* Operands: a column, a constant, or coalesce() / ifnull() of the two.        *)

Column(ref)        == [kind |-> "column", ref |-> ref]
Constant(v)        == [kind |-> "constant", value |-> v]
Coalesce(ref, v)   == [kind |-> "fallback", ref |-> ref, value |-> v]

ValueOf(operand, row) ==
  IF operand.kind = "constant" THEN operand.value
  ELSE IF operand.kind = "fallback" /\ row[operand.ref] = Null THEN operand.value
  ELSE row[operand.ref]

(* exprOrConstant: a value that does not fit the type of the left side throws  *)
(* when the expression is made, and no expression comes into being.            *)
Converts(operand) == operand.kind # "column" => operand.value # Missing

--------------------------------------------------------------------------------
(* Tests.                                                                      *)

Comparison(method, left, right) ==
  [test |-> "compare", method |-> method, left |-> left, right |-> right]
NullTest(ref, negated) == [test |-> "null", left |-> Column(ref), negated |-> negated]
ListTest(ref, values, negated) ==
  [test |-> "in", left |-> Column(ref), values |-> values, negated |-> negated]

(* What an operator is written as.                                             *)
Sign == [equals |-> "=", notEquals |-> "!=", moreThan |-> ">",
         moreThanOrEquals |-> ">=", lessThan |-> "<", lessThanOrEquals |-> "<=",
         like |-> "LIKE"]

(* The database's reading of x sign y.                                         *)
Compares(x, sign, y) ==
  \/ sign \in {"=", ">=", "<="} /\ x = y
  \/ sign \in {">", ">="} /\ x > y
  \/ sign \in {"<", "<="} /\ x < y
  \/ sign = "!=" /\ x # y
  \/ sign = "LIKE" /\ <<x, y>> \in Like

(* The truth of a written test on a row, NULL included.                        *)
EvalTest(t, row) ==
  LET x == ValueOf(t.left, row) IN
  IF t.test = "null" THEN Bool((x = Null) <=> ~ t.negated)
  ELSE IF x = Null THEN "N"
  ELSE IF t.test = "in" THEN Bool((x \in t.values) <=> ~ t.negated)
  ELSE IF ValueOf(t.right, row) = Null THEN "N"
  ELSE Bool(Compares(x, Sign[t.method], ValueOf(t.right, row)))

(* The reference: what the name of the method says.                            *)
Holds(x, method, y) ==
  \/ method \in {"equals", "moreThanOrEquals", "lessThanOrEquals"} /\ x = y
  \/ method \in {"moreThan", "moreThanOrEquals"} /\ x > y
  \/ method \in {"lessThan", "lessThanOrEquals"} /\ x < y
  \/ method = "notEquals" /\ x # y
  \/ method = "like" /\ <<x, y>> \in Like

Asks(t, row) ==
  LET x == ValueOf(t.left, row) IN
  IF t.test = "compare"
  THEN LET y == ValueOf(t.right, row) IN
       IF x = Null \/ y = Null THEN "N" ELSE Bool(Holds(x, t.method, y))
  ELSE IF t.test = "null" THEN Bool(IF t.negated THEN x # Null ELSE x = Null)
  ELSE IF x = Null THEN "N"
  ELSE Bool(IF t.negated THEN x \notin t.values ELSE x \in t.values)

IsOperand(o) ==
  /\ o.kind \in {"column", "constant", "fallback"}
  /\ o.kind # "constant" => o.ref \in Ref
  /\ o.kind # "column" => o.value \in Value \cup {Missing}

IsTest(t) ==
  /\ t.test \in {"compare", "null", "in"} /\ IsOperand(t.left)
  /\ t.test = "compare" => t.method \in DOMAIN Sign /\ IsOperand(t.right)
  /\ t.test # "compare" => t.negated \in BOOLEAN
  /\ t.test = "null" => t.left.kind = "column"

(* A missing element of a list throws when the expression is written.          *)
Writable(t) == t.test = "in" => Missing \notin t.values

--------------------------------------------------------------------------------
(* Texts.                                                                      *)

Factor   == Truths
Conjunct == Seq(Factor) \ {<<>>}
Text     == Seq(Conjunct) \ {<<>>}

ConjunctTruth(c, row) == All3({c[j][row] : j \in DOMAIN c})
Truth(text) == [row \in Row |-> Some3({ConjunctTruth(text[i], row) : i \in DOMAIN text})]

(* A text alone in brackets, or as an argument of a function.                  *)
Single(factor) == << <<factor>> >>

(* Two texts side by side with AND between them: the last disjunct of one and  *)
(* the first of the other become one.                                          *)
Beside(a, b) ==
  SubSeq(a, 1, Len(a) - 1) \o << a[Len(a)] \o b[1] >> \o SubSeq(b, 2, Len(b))

Loose(text) == Len(text) > 1

--------------------------------------------------------------------------------
(* Expressions: the tree, its text, what was asked, and how far the two agree: *)
(* on every row ("same"), on the rows that are TRUE ("collapsed", where FALSE  *)
(* stands for NULL), or nothing is known ("lost").                             *)

Agreement == {"same", "collapsed", "lost"}

Worst(S) == IF "lost" \in S THEN "lost"
            ELSE IF "collapsed" \in S THEN "collapsed" ELSE "same"

(* Trees: the nodes of an expression, each after the parts it is made of, so    *)
(* that the whole comes last.  A node knows its parts by how far back they are, *)
(* and what it says of a row (the reference).                                   *)
Node(operator, parts, means) == [operator |-> operator, parts |-> parts, means |-> means]
Leaf(t) == [operator |-> "test", test |-> t, parts |-> <<>>,
            means |-> [row \in Row |-> Asks(t, row)]]

Whole(tree) == tree[Len(tree)]

Test(t) ==
  [tree |-> <<Leaf(t)>>, writable |-> Writable(t), agreement |-> "same",
   text |-> Single([row \in Row |-> EvalTest(t, row)]),
   means |-> [row \in Row |-> Asks(t, row)]]

Joined(operator, a, b, text, means, agreement) ==
  [tree |-> Append(a.tree \o b.tree, Node(operator, <<Len(b.tree) + 1, 1>>, means)),
   writable |-> a.writable /\ b.writable,
   agreement |-> agreement, text |-> text, means |-> means]

Negated(a, text, means) ==
  [tree |-> Append(a.tree, Node("not", <<1>>, means)),
   writable |-> a.writable,
   agreement |-> IF a.agreement = "same" THEN "collapsed" ELSE "lost",
   text |-> text, means |-> means]

Both(a, b)   == [row \in Row |-> All3({a.means[row], b.means[row]})]
Either(a, b) == [row \in Row |-> Some3({a.means[row], b.means[row]})]

(* a.and(b): each side in brackets of its own.                                 *)
AndMethod(a, b) ==
  Joined("AND", a, b, << <<Truth(a.text), Truth(b.text)>> >>, Both(a, b),
         Worst({a.agreement, b.agreement}))

(* and(a, b): no brackets.                                                     *)
AndFunction(a, b) ==
  Joined("AND", a, b, Beside(a.text, b.text), Both(a, b),
         IF Loose(a.text) \/ Loose(b.text) THEN "lost"
         ELSE Worst({a.agreement, b.agreement}))

(* Mutant: a.or(b) written in front of the first disjunct of b.                *)
OrTight(a, b) ==
  Joined("OR", a, b, Beside(a.text, b.text), Either(a, b),
         Worst({a.agreement, b.agreement}))

(* a.or(b) and or(a, b): no brackets, and none are needed.                     *)
Or(a, b) ==
  Joined("OR", a, b, a.text \o b.text, Either(a, b),
         Worst({a.agreement, b.agreement}))

Opposite(a) == [row \in Row |-> Not3(a.means[row])]

(* Mutant: (a) IS NOT TRUE.                                                    *)
NotLenient(a) ==
  Negated(a, Single([row \in Row |-> Bool(Truth(a.text)[row] # "T")]), Opposite(a))

(* not(a): (a) IS FALSE, which is never NULL.                                  *)
Not(a) ==
  Negated(a, Single([row \in Row |-> Bool(Truth(a.text)[row] = "F")]), Opposite(a))

Chosen(c, a, b) ==
  [row \in Row |-> IF c.means[row] = "T" THEN a.means[row] ELSE b.means[row]]

(* ifClause(c, {ifTrue: a, ifFalse: b}): IF(c, a, b).                          *)
If(c, a, b) ==
  [tree |-> Append(c.tree \o a.tree \o b.tree,
                   Node("if", <<Len(a.tree) + Len(b.tree) + 1, Len(b.tree) + 1, 1>>,
                        Chosen(c, a, b))),
   writable |-> c.writable /\ a.writable /\ b.writable,
   agreement |-> IF c.agreement = "lost" THEN "lost"
                 ELSE Worst({a.agreement, b.agreement}),
   text |-> Single([row \in Row |-> IF Truth(c.text)[row] = "T"
                                    THEN Truth(a.text)[row] ELSE Truth(b.text)[row]]),
   means |-> Chosen(c, a, b)]

--------------------------------------------------------------------------------
(* What an expression is, whatever it was built out of.                        *)

IsExpr(e) ==
  /\ e.text \in Text /\ e.means \in Truths
  /\ e.agreement \in Agreement /\ e.writable \in BOOLEAN

Arity == [test |-> 0, AND |-> 2, OR |-> 2, not |-> 1, if |-> 3]

(* What a node says of a row follows from what its parts do.                   *)
Says(node, parts, row) ==
  IF node.operator = "test" THEN Asks(node.test, row)
  ELSE IF node.operator = "AND" THEN All3({parts[1], parts[2]})
  ELSE IF node.operator = "OR" THEN Some3({parts[1], parts[2]})
  ELSE IF node.operator = "not" THEN Not3(parts[1])
  ELSE IF parts[1] = "T" THEN parts[2] ELSE parts[3]

(* The parts of node n come before it.                                         *)
IsNode(tree, n) ==
  LET node == tree[n]
  IN /\ node.operator \in DOMAIN Arity /\ Len(node.parts) = Arity[node.operator]
     /\ node.parts \in Seq(1 .. n - 1)
     /\ node.operator = "test" => IsTest(node.test)
     /\ \A row \in Row : node.means[row] =
          Says(node, [k \in DOMAIN node.parts |-> tree[n - node.parts[k]].means[row]], row)

IsForest(nodes) ==
  /\ nodes \in Seq({nodes[n] : n \in DOMAIN nodes})
  /\ \A n \in DOMAIN nodes : IsNode(nodes, n)

IsGrown(e) ==
  IsForest(e.tree) /\ e.tree # <<>> /\ e.means = Whole(e.tree).means

(* How an expression's text and meaning relate.                                *)
Agrees(e, row) ==
  /\ e.agreement = "same" => Truth(e.text)[row] = e.means[row]
  /\ e.agreement = "collapsed" =>
       \/ Truth(e.text)[row] = e.means[row]
       \/ Truth(e.text)[row] = "F" /\ e.means[row] = "N"

Fits(e) == IsExpr(e) /\ IsGrown(e) /\ \A row \in Row : Agrees(e, row)
================================================================================
