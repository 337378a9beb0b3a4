------------------------------- MODULE Narrowing -------------------------------
(***************************************************************************)
(* What becomes of the rows the database returns: transformRawResultToQuery *)
(* makes an object of each, and the type narrower judges the objects        *)
(* against a condition, by walking its tree.  A row is kept as the joined   *)
(* row it stands for; what its object holds follows from the select list.   *)
(***************************************************************************)
EXTENDS Expressions

CONSTANTS
  Base, Joined2,  \* the aliases of the table selected from and of the joined one
  Columns,        \* columns of either table
  Optional        \* columns that may be NULL by their declaration

ASSUME NarrowingAssumption ==
  /\ Ref = {Base, Joined2} \X Columns /\ Base # Joined2 /\ Optional \subseteq Columns

(* Items of a select list: the named columns of an entity, which come as an    *)
(* object under the alias, and a column of its own, under a key of its own.    *)
ColumnsItem(alias, keys) == [alias |-> alias, item |-> "columns", keys |-> keys]
ColumnItem(ref)          == [ref |-> ref, alias |-> ref[1], item |-> "column"]

Item == {ColumnsItem(alias, keys) : alias \in {Base, Joined2}, keys \in SUBSET Columns}
          \cup {ColumnItem(ref) : ref \in Ref}

RefsOf(i) == IF i.item = "column" THEN {i.ref} ELSE {i.alias} \X i.keys
Selects(select) == UNION {RefsOf(i) : i \in select}

--------------------------------------------------------------------------------
(* Rows into objects.                                                          *)

(* Mutant: the declaration alone says so.                                      *)
MayBeNullByColumn(ref, join) == ref[2] \in Optional

(* May the column be NULL in a result?  Only a left join makes columns so, and *)
(* only those of the table it adds.                                            *)
MayBeNull(ref, join) == ref[2] \in Optional \/ (join = "left" /\ ref[1] = Joined2)

(* NULL in any other column throws.                                            *)
HasUnexpectedNull(rows, select, join) ==
  \E row \in rows : \E ref \in Selects(select) :
    row[ref] = Null /\ ~ MayBeNull(ref, join)

(* NULL columns of an entity are left out; when all are, so is the object.     *)
LacksObject(row, i) == \A c \in i.keys : row[<<i.alias, c>>] = Null

--------------------------------------------------------------------------------
(* Judging a condition on all rows at once: it passes, fails, or the judging   *)
(* throws.                                                                     *)

Verdict == {"pass", "fail", "throws"}

(* IS NULL and IS NOT NULL look at the objects of the column's entity, one by  *)
(* one; a column that was not selected reads as undefined, an entity that was  *)
(* not selected as an object is not looked at, an object that is not there     *)
(* throws.                                                                     *)
JudgeNullTest(t, rows, select) ==
  LET ref   == t.left.ref
      items == {i \in select : i.item = "columns" /\ i.alias = ref[1]}
      IsUnset(row, i) == ref[2] \notin i.keys \/ row[ref] = Null
  IN IF \E i \in items : \E row \in rows : LacksObject(row, i) THEN "throws"
     ELSE IF \A i \in items : \A row \in rows : IsUnset(row, i) <=> ~ t.negated
     THEN "pass" ELSE "fail"

(* The operand of a comparison, as the rows have it: a constant, or a column   *)
(* some item of the list holds.                                                *)
Evaluates(operand, select) ==
  \/ operand.kind = "constant"
  \/ operand.kind = "column" /\ operand.ref \in Selects(select)

Unreadable(operand, rows, select) ==
  /\ operand.kind = "column"
  /\ \E i \in select : /\ i.item = "columns" /\ operand.ref \in RefsOf(i)
                       /\ \E row \in rows : LacksObject(row, i)

(* Both sides are evaluated from the left operand: each value is compared with *)
(* itself, by the operators that exist for numbers; undefined with undefined   *)
(* does not compare.                                                           *)
JudgeComparison(t, rows, select) ==
  IF Unreadable(t.left, rows, select) THEN "throws"
  ELSE IF /\ t.method # "like" /\ Evaluates(t.left, select)
          /\ \A row \in rows : LET x == ValueOf(t.left, row) IN
               x # Null /\ Compares(x, Sign[t.method], x)
  THEN "pass" ELSE "fail"

(* Lists and not() are not narrowable.  AND and OR judge both sides, each on   *)
(* all rows; IF judges its condition on all rows and takes one branch for all. *)
JudgeNode(node, parts, rows, select) ==
  IF node.operator = "test"
  THEN IF node.test.test = "null" THEN JudgeNullTest(node.test, rows, select)
       ELSE IF node.test.test = "compare" THEN JudgeComparison(node.test, rows, select)
       ELSE "fail"
  ELSE IF node.operator \in {"AND", "OR"}
  THEN IF "throws" \in {parts[1], parts[2]} THEN "throws"
       ELSE IF node.operator = "AND" /\ {parts[1], parts[2]} = {"pass"} THEN "pass"
       ELSE IF node.operator = "OR" /\ "pass" \in {parts[1], parts[2]} THEN "pass"
       ELSE "fail"
  ELSE IF node.operator = "if"
  THEN IF parts[1] = "throws" THEN "throws"
       ELSE IF parts[1] = "pass" THEN parts[2] ELSE parts[3]
  ELSE "fail"

Verdicts(tree, rows, select) ==
  LET verdict[n \in DOMAIN tree] ==
        JudgeNode(tree[n], [k \in DOMAIN tree[n].parts |-> verdict[n - tree[n].parts[k]]],
                  rows, select)
  IN verdict

Judge(tree, rows, select) == Verdicts(tree, rows, select)[Len(tree)]

(* A verdict that is to be relied on: NULL tests of columns that were selected *)
(* as part of their entity, joined by AND and OR.                              *)
IsJudgeable(tree, select) ==
  \A n \in DOMAIN tree :
    \/ /\ tree[n].operator = "test" /\ tree[n].test.test = "null"
       /\ \E i \in select : i.item = "columns" /\ tree[n].test.left.ref \in RefsOf(i)
    \/ tree[n].operator \in {"AND", "OR"}
================================================================================
