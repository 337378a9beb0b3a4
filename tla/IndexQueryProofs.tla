--------------------------- MODULE IndexQueryProofs ----------------------------
(* Theorems about IndexQuery, for every table, every set of values, every set  *)
(* of conditions and every chain of calls.                                     *)
EXTENDS IndexQuery, FiniteSetTheorems, TLAPS

--------------------------------------------------------------------------------
(* The test written for an operator is true of the values the operator is true *)
(* of, NULL among them, unless the operator is one of those that are misread.  *)

LEMMA Parity == ASSUME NEW n \in Nat PROVE n % 2 = 0 <=> ~ (n % 2 = 1)
  OBVIOUS

LEMMA IsNotIsOdd ==
  ASSUME NEW o, o.nots \in Nat
  PROVE  IsNot(o) \in BOOLEAN /\ (o.nots % 2 = 0 <=> ~ IsNot(o))
  BY Parity DEF IsNot

(* Four signs are written as they are meant; equality only for plain values.   *)
LEMMA SignOf ==
  Sign["eq"] = "=" /\ Sign["lt"] = "<" /\ Sign["lte"] = "<=" /\ Sign["gt"] = ">"
    /\ Sign["gte"] = ">="
  BY DEF Sign

LEMMA EvalNull ==
  ASSUME NEW b \in BOOLEAN, NEW x
  PROVE  Eval(NullTest(b), x) <=> (x = Null <=> ~ b)
  <1> DEFINE w == NullTest(b)
  <1>1. w.test = "null" /\ w.negated = b
    BY DEF NullTest
  <1> HIDE DEF w
  <1>2. Eval(w, x) <=> (x = Null <=> ~ b)
    BY <1>1 DEF Eval
  <1> QED
    BY <1>2 DEF w

LEMMA EvalSign ==
  ASSUME NEW sign, NEW y, NEW b \in BOOLEAN, NEW x
  PROVE  Eval(SignTest(sign, y, b), x) <=> x # Null /\ (Compares(x, sign, y) <=> ~ b)
  <1> DEFINE w == SignTest(sign, y, b)
  <1>1. w.test = "sign" /\ w.negated = b /\ w.sign = sign /\ w.value = y
    BY DEF SignTest
  <1> HIDE DEF w
  <1>2. Eval(w, x) <=> x # Null /\ (Compares(x, sign, y) <=> ~ b)
    BY <1>1 DEF Eval
  <1> QED
    BY <1>2 DEF w

LEMMA WriteNull ==
  ASSUME NEW o \in IsNull, NEW x \in Arg
  PROVE  Eval(Write(o), x) <=> Means(o, x)
  <1>1. o.op = "null" /\ o.nots \in Nat
    BY DEF IsNull
  <1>2. Write(o) = NullTest(IsNot(o))
    BY <1>1 DEF Write
  <1>3. Eval(NullTest(IsNot(o)), x) <=> (x = Null <=> ~ IsNot(o))
    BY EvalNull DEF IsNot
  <1>4. ~ Unknown(o, x) /\ (Plainly(o, x) <=> x = Null)
    BY <1>1 DEF Unknown, Plainly
  <1>5. o.nots % 2 = 0 <=> ~ IsNot(o)
    BY <1>1, IsNotIsOdd
  <1> QED
    BY <1>2, <1>3, <1>4, <1>5 DEF Means

LEMMA WriteEqual ==
  ASSUME NEW o \in Equal, NEW x \in Arg
  PROVE  Eval(Write(o), x) <=> Means(o, x)
  <1>1. o.op = "eq" /\ o.nots = 0 /\ o.value \in Arg
    BY DEF Equal
  <1>2. IsNot(o) = FALSE
    BY <1>1 DEF IsNot
  <1>3. Means(o, x) <=> x = o.value
    BY <1>1 DEF Means, Unknown, Plainly
  <1>4. CASE o.value = Null
    <2>1. Write(o) = NullTest(FALSE)
      BY <1>1, <1>2, <1>4 DEF Write
    <2> QED
      BY <1>3, <1>4, <2>1, EvalNull
  <1>5. CASE o.value # Null
    <2>1. Write(o) = SignTest("=", o.value, FALSE)
      BY <1>1, <1>2, <1>5, SignOf DEF Write
    <2>2. Compares(x, "=", o.value) <=> x = o.value
      BY DEF Compares
    <2> QED
      BY <1>3, <1>5, <2>1, <2>2, EvalSign
  <1> QED
    BY <1>4, <1>5

LEMMA WriteCompared ==
  ASSUME NEW o \in Compared, NEW x \in Arg, ~ LosesBound(o)
  PROVE  Eval(Write(o), x) <=> Means(o, x)
  <1>1. o.op \in {"lt", "lte", "gt", "gte"} /\ o.nots \in Nat /\ o.value \in Arg
    BY DEF Compared
  <1>2. o.value # Null
    BY <1>1 DEF LosesBound
  <1>3. Write(o) = SignTest(Sign[o.op], o.value, IsNot(o))
    BY <1>1, <1>2 DEF Write
  <1>4. Eval(SignTest(Sign[o.op], o.value, IsNot(o)), x)
          <=> x # Null /\ (Compares(x, Sign[o.op], o.value) <=> ~ IsNot(o))
    BY EvalSign DEF IsNot
  <1>5. Unknown(o, x) <=> x = Null
    BY <1>1, <1>2 DEF Unknown
  <1>6. x # Null => (Plainly(o, x) <=> Compares(x, Sign[o.op], o.value))
    BY <1>1, <1>2 DEF Plainly
  <1>7. o.nots % 2 = 0 <=> ~ IsNot(o)
    BY <1>1, IsNotIsOdd
  <1> QED
    BY <1>3, <1>4, <1>5, <1>6, <1>7 DEF Means

LEMMA WriteBetween ==
  ASSUME NEW o \in Between, NEW x \in Arg,
         o.min # Null, o.max # Null, ~ LosesNot(o)
  PROVE  Eval(Write(o), x) <=> Means(o, x)
  <1>1. /\ o.op = "between" /\ o.nots \in Nat
        /\ o.min \in Arg /\ o.max \in Arg
        /\ o.isMinInclusive \in BOOLEAN /\ o.isMaxInclusive \in BOOLEAN
    BY DEF Between
  <1>2. o.nots % 2 # 1
    BY <1>1 DEF LosesNot
  <1> DEFINE minSign == IF o.isMinInclusive THEN "<=" ELSE "<"
             maxSign == IF o.isMaxInclusive THEN "<=" ELSE "<"
             w == Write(o)
  <1>3. /\ w.test = "between" /\ w.min = o.min /\ w.max = o.max
        /\ w.minSign = minSign /\ w.maxSign = maxSign
    BY <1>1 DEF Write
  <1> HIDE DEF w
  <1>4. Eval(w, x) <=> /\ x # Null
                       /\ Compares(o.min, minSign, x) /\ Compares(x, maxSign, o.max)
    BY <1>3 DEF Eval
  <1>5. CASE x = Null
    BY <1>1, <1>4, <1>5 DEF Means, Unknown, w
  <1>6. CASE x # Null
    <2>1. x \in Int /\ o.min \in Int /\ o.max \in Int
      BY <1>1, <1>6, QueryAssumption DEF Arg
    <2>2. Compares(o.min, minSign, x) <=> o.min < x \/ (o.isMinInclusive /\ o.min = x)
      BY <1>1, <2>1 DEF Compares
    <2>3. Compares(x, maxSign, o.max) <=> x < o.max \/ (o.isMaxInclusive /\ o.max = x)
      BY <1>1, <2>1 DEF Compares
    <2>4. ~ Unknown(o, x)
      BY <1>1, <1>6 DEF Unknown
    <2>5. Plainly(o, x) <=> Eval(w, x)
      BY <1>1, <1>4, <1>6, <2>2, <2>3 DEF Plainly
    <2>6. o.nots % 2 = 0
      BY <1>1, <1>2, Parity
    <2> QED
      BY <2>4, <2>5, <2>6 DEF Means, w
  <1> QED
    BY <1>5, <1>6

LEMMA WriteIn ==
  ASSUME NEW o \in In, NEW x \in Arg, ~ LosesNot(o)
  PROVE  Eval(Write(o), x) <=> Means(o, x)
  <1>1. o.op = "in" /\ o.nots \in Nat /\ o.values \subseteq Arg
    BY DEF In
  <1>2. o.nots % 2 # 1
    BY <1>1 DEF LosesNot
  <1> DEFINE w == Write(o)
  <1>3. w.test = "in" /\ w.values = o.values \ {Null}
    BY <1>1 DEF Write
  <1> HIDE DEF w
  <1>4. Eval(w, x) <=> x # Null /\ x \in o.values
    BY <1>3 DEF Eval
  <1>5. Means(o, x) <=> x # Null /\ x \in o.values
    BY <1>1, <1>2 DEF Means, Unknown, Plainly
  <1> QED
    BY <1>4, <1>5 DEF w

(* What a condition is written as is true of a value exactly when the operator,*)
(* read by its name under three-valued logic, is true of it: for every operator*)
(* and every depth of not(), except those LosesNot and LosesBound name.        *)
THEOREM WriteMeans ==
  ASSUME NEW c \in Column, NEW o \in Operator, NEW x \in Arg,
         ~ Throws(c, o), ~ LosesNot(o), ~ LosesBound(o)
  PROVE  Eval(Write(o), x) <=> Means(o, x)
  <1>1. CASE o \in Equal
    BY <1>1, WriteEqual
  <1>2. CASE o \in Compared
    BY <1>2, WriteCompared
  <1>3. CASE o \in Between
    <2>1. o.op = "between"
      BY <1>3 DEF Between
    <2>2. o.min # Null /\ o.max # Null
      BY <2>1 DEF Throws
    <2> QED
      BY <1>3, <2>2, WriteBetween
  <1>4. CASE o \in In
    BY <1>4, WriteIn
  <1>5. CASE o \in IsNull
    BY <1>5, WriteNull
  <1> QED
    BY <1>1, <1>2, <1>3, <1>4, <1>5 DEF Operator
--------------------------------------------------------------------------------
(* The inductive invariant.  What the builder holds is what one of the calls   *)
(* gave; what it resolved with passed the checks.                              *)

ParamsLink ==
  /\ params.conditions # None => params.conditions \in asked.conditions
  /\ params.additionalConditions # None
       => params.additionalConditions \in asked.additional
  /\ asked.one => params.throwsIfEmpty /\ params.expectsUniqueResult

AnswerLink ==
  /\ answer.outcome = "rows" =>
       /\ params.conditions # None
       /\ ~ Invalid(params)
       /\ answer.rows \in Returned
       /\ ~ (answer.rows = {} /\ params.throwsIfEmpty)
       /\ ~ (params.expectsUniqueResult /\ Cardinality(answer.rows) > 1)
  /\ answer.outcome = "empty" => {} \in Returned

IInv == TypeOK /\ ParamsLink /\ AnswerLink

LEMMA Initially == Init => IInv
  <1> SUFFICES ASSUME Init PROVE IInv
    OBVIOUS
  <1> USE QueryAssumption DEF Init, Unasked, Pending
  <1>1. TypeOK
    BY DEF TypeOK
  <1>2. ParamsLink
    BY DEF ParamsLink
  <1>3. AnswerLink
    BY DEF AnswerLink
  <1> QED
    BY <1>1, <1>2, <1>3 DEF IInv

(* While the builder is being built there is no answer.                        *)
LEMMA BuildKeeps == ASSUME IInv, Build PROVE IInv'
  <1> USE DEF IInv
  <1>1. rows' = rows /\ answer' = answer /\ answer.outcome = "pending"
    BY DEF Build, Pending
  <1>2. AnswerLink'
    BY <1>1 DEF AnswerLink
  <1>3. calls' \in 0 .. MaxCalls
    BY QueryAssumption DEF Build, TypeOK
  <1>4. CASE \E condition \in Conditions : Where(condition)
    BY <1>1, <1>2, <1>3, <1>4, QueryAssumption DEF Where, TypeOK, ParamsLink
  <1>5. CASE \E additional \in Additional : AndWhere(additional)
    BY <1>1, <1>2, <1>3, <1>5, QueryAssumption DEF AndWhere, TypeOK, ParamsLink
  <1>6. CASE \E n \in Limits : Limit(n)
    BY <1>1, <1>2, <1>3, <1>6 DEF Limit, TypeOK, ParamsLink
  <1>7. CASE ThrowsIfEmpty
    BY <1>1, <1>2, <1>3, <1>7 DEF ThrowsIfEmpty, TypeOK, ParamsLink
  <1>8. CASE ExpectOne
    BY <1>1, <1>2, <1>3, <1>8 DEF ExpectOne, TypeOK, ParamsLink
  <1> QED
    BY <1>4, <1>5, <1>6, <1>7, <1>8 DEF Build

(* A builder that settles keeps its types and its parameters.                  *)
LEMMA SettleKeeps ==
  ASSUME IInv, NEW outcome \in Outcome, NEW result \in SUBSET rows,
         Settle(outcome, result)
  PROVE  /\ TypeOK' /\ ParamsLink'
         /\ Returned' = Returned
         /\ answer'.outcome = outcome /\ answer'.rows = result
  BY DEF IInv, Settle, TypeOK, ParamsLink, Returned, Selected

LEMMA AwaitKeeps == ASSUME IInv, Await PROVE IInv'
  <1>1. params.conditions # None
    BY DEF Await
  <1>2. CASE Reject
    BY <1>2, SettleKeeps DEF Reject, IInv, AnswerLink, Outcome
  <1>3. CASE Refuse
    BY <1>3, SettleKeeps DEF Refuse, IInv, AnswerLink, Outcome
  <1>4. CASE Judge
    <2>1. PICK result \in Returned :
            \/ result = {} /\ params.throwsIfEmpty /\ Settle("empty", {})
            \/ /\ params.expectsUniqueResult /\ Cardinality(result) > 1
               /\ Settle("several", {})
            \/ /\ ~ (result = {} /\ params.throwsIfEmpty)
               /\ ~ (params.expectsUniqueResult /\ Cardinality(result) > 1)
               /\ Settle("rows", result)
      BY <1>4 DEF Judge
    <2>2. result \subseteq rows
      BY DEF Returned, Selected
    <2>3. ~ Invalid(params)
      BY <1>4 DEF Judge
    <2>4. CASE result = {} /\ Settle("empty", {})
      BY <2>4, SettleKeeps DEF IInv, AnswerLink, Outcome
    <2>5. CASE Settle("several", {})
      BY <2>5, SettleKeeps DEF IInv, AnswerLink, Outcome
    <2>6. CASE /\ ~ (result = {} /\ params.throwsIfEmpty)
               /\ ~ (params.expectsUniqueResult /\ Cardinality(result) > 1)
               /\ Settle("rows", result)
      <3>1. /\ TypeOK' /\ ParamsLink' /\ Returned' = Returned
            /\ answer'.outcome = "rows" /\ answer'.rows = result
        BY <2>2, <2>6, SettleKeeps DEF Outcome
      <3>2. params' = params
        BY <2>6 DEF Settle
      <3>3. Invalid(params') <=> Invalid(params)
        BY <3>2
      <3> QED
        BY <1>1, <2>3, <2>6, <3>1, <3>2, <3>3 DEF IInv, AnswerLink
    <2> QED
      BY <2>1, <2>4, <2>5, <2>6
  <1> QED
    BY <1>2, <1>3, <1>4 DEF Await

LEMMA Inductive == IInv /\ [Next]_vars => IInv'
  <1> SUFFICES ASSUME IInv, [Next]_vars PROVE IInv'
    OBVIOUS
  <1>1. CASE Build
    BY <1>1, BuildKeeps
  <1>2. CASE Await
    BY <1>2, AwaitKeeps
  <1>3. CASE UNCHANGED vars
    BY <1>3 DEF vars, IInv, TypeOK, ParamsLink, AnswerLink, Returned, Selected
  <1> QED
    BY <1>1, <1>2, <1>3 DEF Next, Rest

LEMMA Invariant == Spec => []IInv
  BY Initially, Inductive, PTL DEF Spec

(* The builder and its answer are what TypeOK says: the limit is one the caller*)
(* gave, a settled promise holds rows of the table.                            *)
THEOREM TypeCorrect == Spec => []TypeOK
  <1>1. IInv => TypeOK
    BY DEF IInv
  <1> QED
    BY Invariant, <1>1, PTL

--------------------------------------------------------------------------------
(* What an answer tells.                                                       *)

LEMMA TablesAreFinite == ASSUME TypeOK PROVE IsFiniteSet(rows) /\ rows \subseteq Row
  BY QueryAssumption DEF TypeOK

(* A row satisfies the clause written for a condition exactly when it fits the *)
(* condition.                                                                  *)
LEMMA SatisfiesMeans ==
  ASSUME NEW f \in Conditions, NEW r \in Row,
         \A c \in DOMAIN f :
           ~ Throws(c, f[c]) /\ ~ LosesNot(f[c]) /\ ~ LosesBound(f[c])
  PROVE  Satisfies(r, f) <=> \A c \in DOMAIN f : Means(f[c], r[c])
  <1>1. ASSUME NEW c \in DOMAIN f
        PROVE  Eval(Write(f[c]), r[c]) <=> Means(f[c], r[c])
    <2>1. c \in Column /\ f[c] \in Operator
      BY QueryAssumption
    <2>2. r[c] \in Arg
      BY <2>1 DEF Row
    <2> QED
      BY <2>1, <2>2, WriteMeans
  <1> QED
    BY <1>1 DEF Satisfies

(* The rows selected are the rows asked for, when nothing was forgotten or     *)
(* misread.                                                                    *)
LEMMA SelectedIsAsked ==
  ASSUME IInv, params.conditions # None, ~ Invalid(params),
         ~ Forgets, ~ Misread(LosesNot), ~ Misread(LosesBound)
  PROVE  Selected(params) = Asked
  <1> DEFINE f == params.conditions
  <1>1. f \in Conditions /\ asked.conditions = {f}
    BY DEF IInv, TypeOK, Forgets
  <1>2. ASSUME NEW c \in DOMAIN f
        PROVE  ~ Throws(c, f[c]) /\ ~ LosesNot(f[c]) /\ ~ LosesBound(f[c])
    <2>1. ~ Throws(c, f[c])
      BY DEF Invalid
    <2>2. ~ LosesNot(f[c])
      BY <1>1 DEF Misread
    <2>3. ~ LosesBound(f[c])
      BY <1>1 DEF Misread
    <2> QED
      BY <2>1, <2>2, <2>3
  <1>3. ASSUME NEW r \in rows
        PROVE  Satisfies(r, f)
                 <=> \A g \in asked.conditions : \A c \in DOMAIN g : Means(g[c], r[c])
    <2>1. r \in Row
      BY TablesAreFinite DEF IInv
    <2> HIDE DEF f
    <2>2. Satisfies(r, f) <=> \A c \in DOMAIN f : Means(f[c], r[c])
      BY <1>1, <1>2, <2>1, SatisfiesMeans
    <2> QED
      BY <1>1, <2>2
  <1>4. ASSUME NEW r \in rows
        PROVE  (params.additionalConditions # None => r \in params.additionalConditions)
                 <=> \A set \in asked.additional : r \in set
    <2>1. CASE params.additionalConditions = None
      <3>1. asked.additional = {}
        BY <2>1, QueryAssumption DEF IInv, TypeOK, Forgets
      <3> QED
        BY <2>1, <3>1
    <2>2. CASE params.additionalConditions # None
      <3>1. asked.additional = {params.additionalConditions}
        BY <2>2 DEF IInv, ParamsLink, Forgets
      <3> QED
        BY <2>2, <3>1
    <2> QED
      BY <2>1, <2>2
  <1> QED
    BY <1>3, <1>4 DEF Selected, Asked

LEMMA AnswersOfInvariant == IInv => AnswersWhatWasAsked
  <1> SUFFICES ASSUME IInv, answer.outcome = "rows",
                      ~ Forgets, ~ Misread(LosesNot), ~ Misread(LosesBound)
               PROVE  /\ answer.rows \subseteq Asked
                      /\ \/ answer.rows = Asked
                         \/ params.limit # None /\ Cardinality(answer.rows) = params.limit
    BY DEF AnswersWhatWasAsked
  <1>1. params.conditions # None /\ ~ Invalid(params) /\ answer.rows \in Returned
    BY DEF IInv, AnswerLink
  <1>2. Selected(params) = Asked
    BY <1>1, SelectedIsAsked
  <1> QED
    BY <1>1, <1>2 DEF Returned

LEMMA ExpectOneOfInvariant == IInv => ExpectOneIsExact
  <1> SUFFICES ASSUME IInv, asked.one
               PROVE  /\ answer.outcome = "rows" =>
                            /\ Cardinality(answer.rows) = 1
                            /\ params.limit = 1 \/ answer.rows = Selected(params)
                      /\ answer.outcome = "empty" =>
                            params.limit = 0 \/ Selected(params) = {}
    BY DEF ExpectOneIsExact
  <1>1. params.throwsIfEmpty /\ params.expectsUniqueResult
    BY DEF IInv, ParamsLink
  <1>2. ASSUME answer.outcome = "rows"
        PROVE  /\ Cardinality(answer.rows) = 1
               /\ params.limit = 1 \/ answer.rows = Selected(params)
    <2>1. /\ answer.rows # {} /\ ~ Cardinality(answer.rows) > 1
          /\ answer.rows \in Returned
      BY <1>1, <1>2 DEF IInv, AnswerLink
    <2>2. IsFiniteSet(answer.rows)
      BY TablesAreFinite, FS_Subset DEF IInv, TypeOK
    <2>3. Cardinality(answer.rows) \in Nat /\ Cardinality(answer.rows) # 0
      BY <2>1, <2>2, FS_CardinalityType, FS_EmptySet
    <2>4. Cardinality(answer.rows) = 1
      BY <2>1, <2>3
    <2> QED
      BY <2>1, <2>4 DEF Returned
  <1>3. ASSUME answer.outcome = "empty"
        PROVE  params.limit = 0 \/ Selected(params) = {}
    <2>1. {} \in Returned
      BY <1>3 DEF IInv, AnswerLink
    <2>2. Cardinality({}) = 0
      BY FS_EmptySet
    <2> QED
      BY <2>1, <2>2 DEF Returned
  <1> QED
    BY <1>2, <1>3

(* For every table, every set of conditions with operators under any number of *)
(* nots, and every chain of calls: an index query that resolves does so with   *)
(* rows that fit all that was asked, and with all of them unless the limit cuts*)
(* them off; except where a call was forgotten or an operator misread.         *)
THEOREM AnswersAreAsked == Spec => []AnswersWhatWasAsked
  BY Invariant, AnswersOfInvariant, PTL

(* After expectOne() a query resolves with one row, and the only one unless    *)
(* limit(1) was given, wherever in the chain expectOne() and the limit stand.  *)
THEOREM ExpectOneHolds == Spec => []ExpectOneIsExact
  BY Invariant, ExpectOneOfInvariant, PTL
================================================================================
