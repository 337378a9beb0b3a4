------------------------------ MODULE IndexQuery -------------------------------
(***************************************************************************)
(* db.selectFromIndex(index): a builder that collects conditions, a limit  *)
(* and what is expected of the result, becomes one SELECT when it is       *)
(* awaited, and judges the rows that come back.  Every method returns a    *)
(* new builder; params are those of the builder that is awaited.           *)
(***************************************************************************)
EXTENDS Integers, FiniteSets

CONSTANTS
  Column,      \* columns of the table
  Nullable,    \* those that may be NULL
  Value,       \* values of columns
  Null,        \* NULL in the database, null and undefined in a condition
  None,        \* a method that has not been called, an index without predicate
  Predicate,   \* the rows of a partial index, or None
  Conditions,  \* arguments of where(): an operator for each of some columns
  Additional,  \* arguments of andWhere(), as the sets of rows they are true of
  Limits,      \* arguments of limit()
  Tables,      \* contents of the table
  MaxCalls     \* bound on the methods called on a builder

(* Operators of the conditions: a plain value, or what db.lt() ... db.null()   *)
(* return, inside of so many calls of db.not().                                *)
Arg == Value \cup {Null}
Equal    == [op : {"eq"}, nots : {0}, value : Arg]
Compared == [op : {"lt", "lte", "gt", "gte"}, nots : Nat, value : Arg]
Between  == [op : {"between"}, nots : Nat, min : Arg, max : Arg,
             isMinInclusive : BOOLEAN, isMaxInclusive : BOOLEAN]
In       == [op : {"in"}, nots : Nat, values : SUBSET Arg]
IsNull   == [op : {"null"}, nots : Nat]
Operator == Equal \cup Compared \cup Between \cup In \cup IsNull

Row == {r \in [Column -> Arg] : \A c \in Column \ Nullable : r[c] # Null}

ASSUME QueryAssumption ==
  /\ Value \subseteq Int /\ Nullable \subseteq Column
  /\ Null \notin Int /\ None \notin Nat
  /\ \A f \in Conditions : \A c \in DOMAIN f : c \in Column /\ f[c] \in Operator
  /\ None \notin Conditions
  /\ Additional \subseteq SUBSET Row /\ None \notin Additional
  /\ Predicate = None \/ Predicate \subseteq Row
  /\ Limits \subseteq Nat
  /\ Tables \subseteq SUBSET Row /\ \A table \in Tables : IsFiniteSet(table)
  /\ MaxCalls \in Nat

VARIABLES
  rows,    \* what the table holds
  params,  \* of the builder
  asked,   \* history: the arguments of where() and andWhere(), and was expectOne() called?
  calls,   \* how many methods have been called
  answer   \* how the await ends

vars == <<rows, params, asked, calls, answer>>

Unasked == [conditions |-> None, additionalConditions |-> None, limit |-> None,
            throwsIfEmpty |-> FALSE, expectsUniqueResult |-> FALSE]

Outcome ==
  {"rows",     \* resolves with rows
   "empty",    \* rejects: no row, and one is expected
   "several",  \* rejects: more than one row, and one is expected
   "invalid",  \* rejects: a condition cannot be written
   "refused"}  \* rejects: the database cannot parse the statement

Pending == [outcome |-> "pending", rows |-> {}]

TypeOK ==
  /\ rows \in Tables
  /\ params \in [conditions : Conditions \cup {None},
                 additionalConditions : Additional \cup {None},
                 limit : Limits \cup {None},
                 throwsIfEmpty : BOOLEAN,
                 expectsUniqueResult : BOOLEAN]
  /\ asked \in [conditions : SUBSET Conditions, additional : SUBSET Additional,
                one : BOOLEAN]
  /\ calls \in 0 .. MaxCalls
  /\ answer \in [outcome : Outcome \cup {"pending"}, rows : SUBSET rows]

Init ==
  /\ rows \in Tables
  /\ params = Unasked
  /\ asked = [conditions |-> {}, additional |-> {}, one |-> FALSE]
  /\ calls = 0
  /\ answer = Pending

--------------------------------------------------------------------------------
(* Writing the WHERE clause.                                                   *)

(* A value that is missing serializes to nothing; where the column may not be  *)
(* NULL that is an error.                                                      *)
Unserializable(c, v) == v = Null /\ c \notin Nullable

(* Mutant: any number of nots counts as one.                                   *)
IsNotOnce(o) == o.nots > 0

(* handleNotOperator takes the nots off one by one.                            *)
IsNot(o) == o.nots % 2 = 1

Sign == [eq |-> "=", lt |-> "<", lte |-> "<=", gt |-> ">", gte |-> ">="]

(* Has the condition on column c a value that throws?                          *)
Throws(c, o) ==
  \/ o.op = "between" /\ (o.min = Null \/ o.max = Null)
  \/ o.op = "in" /\ \E v \in o.values : Unserializable(c, v)
  \/ o.op \in DOMAIN Sign /\ Unserializable(c, o.value)

NullTest(negated)         == [test |-> "null", negated |-> negated]
SignTest(sign, v, negated) == [test |-> "sign", sign |-> sign, value |-> v, negated |-> negated]

(* The test written for an operator.  between and in are written without the   *)
(* NOT; a comparison with a missing value becomes IS NULL; missing elements of *)
(* in are left out.                                                            *)
Write(o) ==
  IF o.op = "between"
  THEN [test |-> "between", min |-> o.min, max |-> o.max,
        minSign |-> IF o.isMinInclusive THEN "<=" ELSE "<",
        maxSign |-> IF o.isMaxInclusive THEN "<=" ELSE "<"]
  ELSE IF o.op = "in" THEN [test |-> "in", values |-> o.values \ {Null}]
  ELSE IF o.op = "null" \/ o.value = Null THEN NullTest(IsNot(o))
  ELSE SignTest(Sign[o.op], o.value, IsNot(o))

--------------------------------------------------------------------------------
(* The database.                                                               *)

(* x sign y, for values that are not NULL.                                     *)
Compares(x, sign, y) ==
  \/ sign = "="  /\ x = y
  \/ sign = "<"  /\ x < y
  \/ sign = "<=" /\ x <= y
  \/ sign = ">"  /\ x > y
  \/ sign = ">=" /\ x >= y

(* Is the test true of the value x?  With a NULL only IS NULL is true or false;*)
(* the rest is unknown, and so is its negation.                                *)
Eval(w, x) ==
  \/ w.test = "null" /\ (x = Null <=> ~ w.negated)
  \/ /\ x # Null
     /\ \/ w.test = "sign" /\ (Compares(x, w.sign, w.value) <=> ~ w.negated)
        \/ w.test = "between" /\ Compares(w.min, w.minSign, x)
                              /\ Compares(x, w.maxSign, w.max)
        \/ w.test = "in" /\ x \in w.values

Satisfies(r, condition) ==
  \A c \in DOMAIN condition : Eval(Write(condition[c]), r[c])

(* The conditions, the predicate and the additional condition, the latter two  *)
(* in brackets, joined by AND.                                                 *)
Selected(p) ==
  {r \in rows : /\ Satisfies(r, p.conditions)
                /\ Predicate # None => r \in Predicate
                /\ p.additionalConditions # None => r \in p.additionalConditions}

(* where({}) leaves an empty string among the terms: WHERE is followed by      *)
(* nothing, or by AND.                                                         *)
Unparsable(p) == DOMAIN p.conditions = {}

--------------------------------------------------------------------------------
(* The methods of the builder.                                                 *)

(* Mutant: other settings are lost when the conditions are given.                    *)
WhereAfresh(condition) ==
  /\ params' = [Unasked EXCEPT !.conditions = condition,
                               !.additionalConditions = params.additionalConditions]
  /\ asked' = [asked EXCEPT !.conditions = @ \cup {condition}]

(* where() and andWhere() replace what an earlier call has set.                *)
Where(condition) ==
  /\ params' = [params EXCEPT !.conditions = condition]
  /\ asked' = [asked EXCEPT !.conditions = @ \cup {condition}]

AndWhere(additional) ==
  /\ params' = [params EXCEPT !.additionalConditions = additional]
  /\ asked' = [asked EXCEPT !.additional = @ \cup {additional}]

(* Mutant: the limit is taken to exclude its last row.                         *)
LimitBelow(n) == params' = [params EXCEPT !.limit = n - 1] /\ UNCHANGED asked

Limit(n) == params' = [params EXCEPT !.limit = n] /\ UNCHANGED asked

ThrowsIfEmpty == params' = [params EXCEPT !.throwsIfEmpty = TRUE] /\ UNCHANGED asked

ExpectOne ==
  /\ params' = [params EXCEPT !.throwsIfEmpty = TRUE, !.expectsUniqueResult = TRUE]
  /\ asked' = [asked EXCEPT !.one = TRUE]

Build ==
  /\ answer = Pending
  /\ calls < MaxCalls
  /\ calls' = calls + 1
  /\ \/ \E condition \in Conditions : Where(condition)
     \/ \E additional \in Additional : AndWhere(additional)
     \/ \E n \in Limits : Limit(n)
     \/ ThrowsIfEmpty
     \/ ExpectOne
  /\ UNCHANGED <<rows, answer>>

--------------------------------------------------------------------------------
(* Awaiting the builder, which where() has made possible.                      *)

Invalid(p) == \E c \in DOMAIN p.conditions : Throws(c, p.conditions[c])

Settle(outcome, result) ==
  /\ answer' = [outcome |-> outcome, rows |-> result]
  /\ UNCHANGED <<rows, params, asked, calls>>

(* The rows that come back: any that satisfy the clause, as many as the limit  *)
(* allows.                                                                     *)
Returned ==
  {result \in SUBSET Selected(params) :
     \/ /\ result = Selected(params)
        /\ params.limit # None => Cardinality(result) <= params.limit
     \/ params.limit # None /\ Cardinality(result) = params.limit}

(* writeSelectFromIndexQuery throws, and the promise rejects.                  *)
Reject == Invalid(params) /\ Settle("invalid", {})

Refuse == ~ Invalid(params) /\ Unparsable(params) /\ Settle("refused", {})

(* The checks on the rows that come back, in their order.                      *)
Judge ==
  /\ ~ Invalid(params) /\ ~ Unparsable(params)
  /\ \E result \in Returned :
       \/ result = {} /\ params.throwsIfEmpty /\ Settle("empty", {})
       \/ /\ params.expectsUniqueResult /\ Cardinality(result) > 1
          /\ Settle("several", {})
       \/ /\ ~ (result = {} /\ params.throwsIfEmpty)
          /\ ~ (params.expectsUniqueResult /\ Cardinality(result) > 1)
          /\ Settle("rows", result)

Await ==
  /\ answer = Pending
  /\ params.conditions # None
  /\ Reject \/ Refuse \/ Judge

(* The promise has settled, or there is nothing that could be awaited.         *)
Rest == (answer # Pending \/ params.conditions = None) /\ UNCHANGED vars

Next == Build \/ Await \/ Rest

Spec == Init /\ [][Next]_vars
--------------------------------------------------------------------------------
(* Correctness.                                                                *)

(* What an operator means, after its name and under three-valued logic: is it  *)
(* true of the value x?                                                        *)
Plainly(o, x) ==
  \/ o.op = "null" /\ x = Null
  \/ o.op = "eq" /\ x = o.value
  \/ /\ x # Null
     /\ \/ o.op \in {"lt", "lte", "gt", "gte"} /\ o.value # Null
           /\ Compares(x, Sign[o.op], o.value)
        \/ o.op = "in" /\ x \in o.values
        \/ /\ o.op = "between" /\ o.min # Null /\ o.max # Null
           /\ o.min < x \/ (o.isMinInclusive /\ o.min = x)
           /\ x < o.max \/ (o.isMaxInclusive /\ o.max = x)

Unknown(o, x) ==
  \/ o.op \in {"lt", "lte", "gt", "gte"} /\ (x = Null \/ o.value = Null)
  \/ o.op = "between" /\ Null \in {x, o.min, o.max}
  \/ o.op = "in" /\ (x = Null \/ (Null \in o.values /\ x \notin o.values))

Means(o, x) == ~ Unknown(o, x) /\ (Plainly(o, x) <=> o.nots % 2 = 0)

(* The rows that fit every condition the caller has given.                     *)
Asked ==
  {r \in rows :
     /\ \A f \in asked.conditions : \A c \in DOMAIN f : Means(f[c], r[c])
     /\ \A set \in asked.additional : r \in set
     /\ Predicate # None => r \in Predicate}

(* A builder on which where() or andWhere() was called again, with something   *)
(* else, has forgotten the first call.                                         *)
Forgets ==
  \/ asked.conditions # {params.conditions}
  \/ ~ asked.additional \subseteq {params.additionalConditions}

(* Operators written as something else: not(between), not(in), and a bound     *)
(* that is missing.                                                            *)
LosesNot(o)     == o.op \in {"between", "in"} /\ o.nots % 2 = 1
LosesBound(o)   == o.op \in {"lt", "lte", "gt", "gte"} /\ o.value = Null
Misread(losing(_)) == \E f \in asked.conditions : \E c \in DOMAIN f : losing(f[c])

(* An index query resolves with the rows that fit all that was asked, all of   *)
(* them unless there are more than the limit, whatever the operators and       *)
(* wherever there are NULLs; except where a call was forgotten or misread.     *)
AnswersWhatWasAsked ==
  /\ answer.outcome = "rows"
  /\ ~ Forgets /\ ~ Misread(LosesNot) /\ ~ Misread(LosesBound)
  => /\ answer.rows \subseteq Asked
     /\ \/ answer.rows = Asked
        \/ params.limit # None /\ Cardinality(answer.rows) = params.limit

(* expectOne(), wherever it stands in the chain of calls, resolves with exactly*)
(* one row, the only one there is unless limit(1) hides the others; and it     *)
(* rejects for want of a row only when there is none.                          *)
ExpectOneIsExact ==
  asked.one =>
    /\ answer.outcome = "rows" =>
         /\ Cardinality(answer.rows) = 1
         /\ params.limit = 1 \/ answer.rows = Selected(params)
    /\ answer.outcome = "empty" => params.limit = 0 \/ Selected(params) = {}

(* index-query-builder.ts: "Handle operator objects (lt, lte, gt, gte, not,    *)
(* in)": a condition under not() selects the rows it is not true of.           *)
NotIsHandled ==
  answer.outcome = "rows" /\ ~ Forgets /\ ~ Misread(LosesBound)
    => answer.rows \subseteq Asked
================================================================================
