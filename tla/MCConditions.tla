----------------------------- MODULE MCConditions ------------------------------
(* Small instance of Conditions: one column that may be NULL and one that may  *)
(* not, two values, and tests of every kind.                                   *)
EXTENDS Conditions

CONSTANTS k, v

TwoRefs   == {k, v}
TwoValues == {1, 2}
AllRows   == {r \in [{k, v} -> {1, 2, Null}] : r[k] # Null}
Likes     == {<<1, 1>>, <<1, 2>>}

ManyTests ==
  {Comparison("equals", Column(k), Constant(1)),
   Comparison("notEquals", Column(v), Column(k)),
   Comparison("moreThan", Column(v), Constant(1)),
   Comparison("lessThanOrEquals", Coalesce(v, 2), Column(k)),
   Comparison("moreThanOrEquals", Column(k), Constant(Missing)),
   NullTest(v, FALSE),
   ListTest(v, {1}, TRUE)}
================================================================================
