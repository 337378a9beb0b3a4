-------------------------------- MODULE MCSelect --------------------------------
(* Small instance of Select: a table of up to two rows and one of two, joined  *)
(* on k, so that one row has two partners and one has none; v may be NULL.     *)
EXTENDS Select

CONSTANTS a, b, k, v

Refs       == {a, b} \X {k, v}
TwoValues  == {1, 2}
RowOf(x, y) == [c \in {k, v} |-> IF c = k THEN x ELSE y]
NoRow      == RowOf(Null, Null)
Sides      == {RowOf(1, 1), RowOf(1, Null), RowOf(1, 2), RowOf(2, Null), NoRow}
RowSet     == {[ref \in {a, b} \X {k, v} |-> IF ref[1] = a THEN x[ref[2]] ELSE y[ref[2]]] :
                 x \in Sides, y \in Sides}
NoLike     == {}

(* TLC evaluates a definition that a constant is given anew at each use, and   *)
(* one that this one names once.                                               *)
AllRows    == RowSet

TheTables   == {{}, {RowOf(1, Null)}, {RowOf(1, 1), RowOf(2, Null)}}
ThePartners == {RowOf(1, Null), RowOf(1, 2)}

VIsNull == Test(NullTest(<<a, v>>, FALSE))
VIsOne  == Test(Comparison("lessThanOrEquals", Column(<<a, v>>), Constant(1)))
VIsSet  == Test(NullTest(<<a, v>>, TRUE))

Library ==
  [sameKey  |-> Test(Comparison("equals", Column(<<a, k>>), Column(<<b, k>>))),
   vIsOne   |-> VIsOne,
   vIsNot   |-> Not(VIsOne),
   missing  |-> Test(ListTest(<<a, k>>, {1, Missing}, FALSE)),
   vIsSet   |-> VIsSet,
   anyV     |-> Or(VIsNull, VIsSet),
   isTwo    |-> Test(Comparison("equals", Column(<<a, v>>), Constant(2))),
   chosen   |-> If(VIsNull, VIsNull, VIsSet),
   bIsSet   |-> Test(NullTest(<<b, v>>, TRUE))]

TheExprs == Library

TheSelections ==
  {{ColumnsItem(a, {v})}, {ColumnItem(<<a, v>>), ColumnsItem(b, {v})}}

KeyRank(row) == LET Digit(x) == IF x = Null THEN 0 ELSE x
                IN 9 * Digit(row[<<a, k>>]) + 3 * Digit(row[<<b, k>>]) + Digit(row[<<b, v>>])
================================================================================
