----------------------------- MODULE MCIndexQuery ------------------------------
(* Small instances of IndexQuery: a column that is never NULL and one that may *)
(* be, two values, and every operator alone and under one or two nots.         *)
EXTENDS IndexQuery

CONSTANTS k, v

TwoColumns == {k, v}
OnlyV      == {v}
TwoValues  == {1, 2}
Every      == Row

Operators ==
  [op : {"eq"}, nots : {0}, value : {1, Null}]
    \cup [op : {"lt", "lte", "gt", "gte"}, nots : 0 .. 2, value : {1, Null}]
    \cup [op : {"between"}, nots : 0 .. 2, min : {1}, max : {2},
          isMinInclusive : BOOLEAN, isMaxInclusive : BOOLEAN]
    \cup [op : {"in"}, nots : 0 .. 2, values : {{}, {1}, {1, Null}}]
    \cup [op : {"null"}, nots : 0 .. 2]

(* Values the column k cannot have, and a range without an end.                *)
Impossible ==
  [op : {"eq", "gt"}, nots : {0}, value : {Null}]
    \cup [op : {"in"}, nots : {0}, values : {{1, Null}}]
    \cup [op : {"between"}, nots : {0}, min : {1}, max : {Null},
          isMinInclusive : {TRUE}, isMaxInclusive : {TRUE}]

Plain(x)   == [op |-> "eq", nots |-> 0, value |-> x]
OnK        == {[n \in {k} |-> o] : o \in Impossible \cup {Plain(1)}}
OnV        == {[n \in {v} |-> o] : o \in Operators}
OnBoth     == {[n \in {k, v} |-> IF n = k THEN Plain(1) ELSE Plain(x)] : x \in {1, Null}}
OnNone     == {[n \in {} |-> Plain(1)]}
EveryCondition == OnK \cup OnV \cup OnBoth \cup OnNone

WithV(x)   == {r \in Row : r[v] = x}
Partial    == {r \in Row : r[v] # 2}
TwoSets    == {WithV(1), WithV(Null)}
FewLimits  == {0, 1, 2}
FewTables  == {Row, WithV(1)}

(* The case of the finding.                                                    *)
NotInOne   == {[n \in {v} |-> [op |-> "in", nots |-> 1, values |-> {1}]]}
================================================================================
