------------------------------ MODULE Conditions -------------------------------
(***************************************************************************)
(* A program builds boolean expressions out of tests and of the ones it    *)
(* has, by any of the calls, in any order; each may become a WHERE or an   *)
(* ON clause.                                                              *)
(***************************************************************************)
EXTENDS Expressions

CONSTANTS
  Tests,    \* the comparisons, NULL tests and lists the program writes
  MaxExprs  \* bound on the expressions it makes

ASSUME ConditionAssumption ==
  MaxExprs \in Nat /\ \A t \in Tests : IsTest(t)

VARIABLE exprs  \* the expressions made so far

TypeOK == /\ exprs \in Seq({exprs[i] : i \in DOMAIN exprs})
          /\ Len(exprs) <= MaxExprs
          /\ \A i \in DOMAIN exprs : IsExpr(exprs[i])

Init == exprs = <<>>

Make(e) == /\ Len(exprs) < MaxExprs
           /\ exprs' = Append(exprs, e)

(* A comparison, isNull(), isNotNull(), in() or notIn(); nothing is made when  *)
(* the right side cannot be converted.                                         *)
MakeTest(t) == /\ t.test = "compare" => Converts(t.left) /\ Converts(t.right)
               /\ Make(Test(t))

CallAndMethod(i, j)   == Make(AndMethod(exprs[i], exprs[j]))
CallAndFunction(i, j) == Make(AndFunction(exprs[i], exprs[j]))
CallOr(i, j)          == Make(Or(exprs[i], exprs[j]))
CallNot(i)            == Make(Not(exprs[i]))
CallIf(h, i, j)       == Make(If(exprs[h], exprs[i], exprs[j]))

(* The program has made what it wants.                                         *)
Rest == UNCHANGED exprs

Next ==
  \/ \E t \in Tests : MakeTest(t)
  \/ \E i, j \in DOMAIN exprs :
       CallAndMethod(i, j) \/ CallAndFunction(i, j) \/ CallOr(i, j)
  \/ \E i \in DOMAIN exprs : CallNot(i)
  \/ \E h, i, j \in DOMAIN exprs : CallIf(h, i, j)
  \/ Rest

Spec == Init /\ [][Next]_exprs

--------------------------------------------------------------------------------
(* A clause selects exactly the rows its calls ask for, under three-valued     *)
(* logic and whatever was built out of what, except where and() joined an      *)
(* expression with an OR outside of brackets, and where not() was applied to   *)
(* an expression with a not() in it, whose NULL it takes for FALSE             *)
(* (functions/and.ts, functions/or.ts, functions/not.ts, expression-builder.ts).*)
SelectsWhatIsAsked ==
  \A i \in DOMAIN exprs : exprs[i].agreement # "lost" =>
    \A row \in Row : Truth(exprs[i].text)[row] = "T" <=> exprs[i].means[row] = "T"

(* The invariant by which it holds: what an expression is good for is known    *)
(* row by row, and passes from operands to the whole, and so does what the     *)
(* nodes of its tree say (the same code).                                      *)
IInv == TypeOK /\ \A i \in DOMAIN exprs : Fits(exprs[i])
================================================================================
