-------------------------------- MODULE Select ---------------------------------
(***************************************************************************)
(* db.from(table): a builder whose methods set the parts of one SELECT,    *)
(* which is awaited, or run by query(), page after page if it is told to,  *)
(* or by queryAndNarrow(), while other clients write to the table.  A      *)
(* method is there only where the types of the builder have it.            *)
(***************************************************************************)
EXTENDS Narrowing, FiniteSets, SequencesExt

CONSTANTS
  None,
  Tables,     \* contents the base table can have: sets of [Columns -> ...]
  Partners,   \* the rows of the joined table
  Exprs,      \* the expressions of the program, by name
  OfBoth,     \* those that name columns of the joined table
  On,         \* the ON clause
  Wheres,     \* those it may ask for as the WHERE clause
  Narrowers,  \* those it may add as type narrowers
  Selections, \* the select lists it may ask for
  Numbers,    \* limits, offsets and expected lengths
  PageSizes,  \* sizes of pages
  Rank(_),    \* the order of rows; they have keys, no two are equal
  MaxParts    \* bound: parts of a statement that are set, and narrowers

Joins   == {"left", "inner", "right"}
Methods == {"await", "query", "queryAndNarrow"}

(* A row of two tables, either of which may lack one.                          *)
Absent == [c \in Columns |-> Null]
Pair(x, y) == [ref \in Ref |-> IF ref[1] = Base THEN x[ref[2]] ELSE y[ref[2]]]
JoinedRows(t) == {Pair(p[1], p[2]) : p \in (t \cup {Absent}) \X (Partners \cup {Absent})}

(* What a table can hold: the rows follow their declarations.                  *)
IsContent(t) ==
  /\ IsFiniteSet(t) /\ t \subseteq [Columns -> Value \cup {Null}]
  /\ \A x \in t : \A c \in Columns \ Optional : x[c] # Null

ASSUME SelectAssumption ==
  /\ IsContent(Partners) /\ \A t \in Tables : IsContent(t) /\ JoinedRows(t) \subseteq Row
  /\ \A e \in DOMAIN Exprs : Fits(Exprs[e])
  /\ On \in DOMAIN Exprs /\ Wheres \cup Narrowers \subseteq DOMAIN Exprs
  /\ Selections \subseteq SUBSET Item
  /\ \A items \in Selections : \A i, j \in items :
       i.alias = j.alias /\ i.item = j.item => i = j  \* an entity is named once
  /\ Numbers \subseteq Nat /\ MaxParts \in Nat /\ PageSizes \subseteq Nat \ {0}
  /\ None \notin Joins \cup Methods \cup Wheres /\ None \notin Numbers \cup PageSizes

ASSUME RankAssumption ==
  \A t \in Tables : \A x, y \in JoinedRows(t) :
    Rank(x) \in Int /\ (Rank(x) = Rank(y) => x = y)

VARIABLES
  table,   \* the base table
  params,  \* of the builder
  asked,   \* history: the type narrowers that were asked for
  call,    \* the call that runs the query, and what it was given
  answer   \* how it ends: the outcome, the rows so far, and those of them that
           \* are in the array again

vars == <<table, params, asked, call, answer>>

Unasked == [join |-> None, select |-> {ColumnsItem(Base, Columns)},
            isExplicitSelect |-> FALSE, where |-> None, orderBy |-> FALSE,
            limit |-> None, offset |-> None, throwsIfEmpty |-> FALSE,
            length |-> None, filter |-> <<>>]

NoCall  == [throwsIfEmpty |-> FALSE, method |-> None, page |-> None]
Pending == [outcome |-> "pending", rows |-> {}, again |-> {}]

(* How a call ends: with rows, or rejected: nothing was found; a column is     *)
(* NULL that must not be; the rows do not pass the narrower; the narrower      *)
(* fails itself; the statement cannot be written.                              *)
Outcome == {"rows", "empty", "null", "unproven", "broken", "invalid"}

Params == [join : Joins \cup {None}, select : SUBSET Item, isExplicitSelect : BOOLEAN,
           where : Wheres \cup {None}, orderBy : BOOLEAN, limit : Numbers \cup {None},
           offset : Numbers \cup {None}, throwsIfEmpty : BOOLEAN,
           length : Numbers \cup {None}, filter : Seq(Narrowers)]

TypeOK ==
  /\ table \in Tables /\ params \in Params /\ asked \subseteq Narrowers
  /\ call \in [throwsIfEmpty : BOOLEAN, method : Methods \cup {None},
               page : PageSizes \cup {None}]
  /\ answer \in [outcome : Outcome \cup {"pending"}, rows : SUBSET Row, again : SUBSET Row]

Init == /\ table \in Tables
        /\ params = Unasked /\ asked = {} /\ call = NoCall /\ answer = Pending

--------------------------------------------------------------------------------
(* The methods of the builder.                                                 *)

Parts == {part \in DOMAIN params \ {"select", "filter"} : params[part] # Unasked[part]}

Build(next) == /\ call = NoCall
               /\ Cardinality(Parts) + Cardinality(asked) < MaxParts
               /\ params' = next
               /\ UNCHANGED <<table, call, answer>>

(* A callback that makes an expression sees the tables joined so far.          *)
IsInScope(e) == e \in OfBoth => params.join # None

(* What the types of the parts that are set still allow.                       *)
CanLimit  == params.limit = None
CanOffset == params.offset = None
CanOrderBy == ~ params.orderBy
CanSelect == ~ params.isExplicitSelect /\ CanOrderBy /\ CanLimit
CanWhere  == params.where = None /\ CanLimit
CanJoin   == CanWhere /\ CanSelect

WithJoin(type) == [params EXCEPT !.join = type,
                                 !.select = @ \cup {ColumnsItem(Joined2, Columns)}]

(* Mutant: a join after select() adds to the list.                             *)
JoinTableLate(type) ==
  /\ params.join = None /\ CanWhere
  /\ Build(WithJoin(type)) /\ UNCHANGED asked

(* A join adds the columns of its table.                                       *)
JoinTable(type) ==
  /\ params.join = None  \* bound: one join
  /\ CanJoin
  /\ Build(WithJoin(type)) /\ UNCHANGED asked

SelectItems(items) ==
  /\ CanSelect
  /\ params.join = None => \A i \in items : i.alias = Base
  /\ Build([params EXCEPT !.select = items, !.isExplicitSelect = TRUE])
  /\ UNCHANGED asked

Where(e) == /\ IsInScope(e)
            /\ CanWhere
            /\ Build([params EXCEPT !.where = e])
            /\ UNCHANGED asked

OrderBy == /\ CanOrderBy
           /\ Build([params EXCEPT !.orderBy = TRUE])
           /\ UNCHANGED asked

Limit(n) == /\ CanLimit
            /\ Build([params EXCEPT !.limit = n])
            /\ UNCHANGED asked

Offset(n) == /\ CanOffset
             /\ Build([params EXCEPT !.offset = n])
             /\ UNCHANGED asked

ThrowsIfEmpty == /\ ~ params.throwsIfEmpty
                 /\ Build([params EXCEPT !.throwsIfEmpty = TRUE])
                 /\ UNCHANGED asked

(* assertResultsCondition(r => r.length(n)): what was asked before is kept.    *)
AssertLength(n) == /\ params.length # n
                   /\ Build([params EXCEPT !.length = n])
                   /\ UNCHANGED asked

(* Mutant: the last narrower replaces the ones before it.                      *)
NarrowByLast(e) ==
  /\ IsInScope(e)
  /\ e \notin asked
  /\ Build([params EXCEPT !.filter = <<e>>])
  /\ asked' = asked \cup {e}

(* The trees of the narrowers are joined by AND.                               *)
AddTypeNarrower(e) ==
  /\ IsInScope(e)
  /\ e \notin asked
  /\ Build([params EXCEPT !.filter = Append(@, e)])
  /\ asked' = asked \cup {e}

--------------------------------------------------------------------------------
(* The database.                                                               *)

IsSelectedBy(e, row) == Truth(Exprs[e].text)[row] = "T"

Matches == {p \in table \X Partners : IsSelectedBy(On, Pair(p[1], p[2]))}

(* The rows of FROM and JOIN.                                                  *)
Rows ==
  IF params.join = None THEN {Pair(x, Absent) : x \in table}
  ELSE {Pair(p[1], p[2]) : p \in Matches}
       \cup IF params.join = "left"
            THEN {Pair(x, Absent) : x \in {x \in table : \A p \in Matches : p[1] # x}}
            ELSE IF params.join = "right"
            THEN {Pair(Absent, y) : y \in {y \in Partners : \A p \in Matches : p[2] # y}}
            ELSE {}

(* Mutant: NULL passes for TRUE.                                               *)
SelectedUnlessFalse ==
  {row \in Rows : params.where = None \/ Truth(Exprs[params.where].text)[row] # "F"}

Selected == {row \in Rows : params.where = None \/ IsSelectedBy(params.where, row)}

(* What LIMIT and OFFSET may leave of the rows: without an order, any.         *)
Windows(rows, limit, offset) ==
  LET skipped == IF offset = None THEN 0 ELSE offset
      left    == Cardinality(rows) - skipped
      size    == IF left < 0 THEN 0
                 ELSE IF limit # None /\ limit < left THEN limit ELSE left
  IN {w \in SUBSET rows :
       /\ Cardinality(w) = size
       /\ params.orderBy =>
            \A row \in w : Cardinality({r \in rows : Rank(r) < Rank(row)})
                             \in skipped .. skipped + size - 1}

--------------------------------------------------------------------------------
(* Running the query.                                                          *)

Narrow(rows) ==
  IF params.length # None /\ params.length # Cardinality(rows) THEN "fail"
  ELSE LET verdicts == {Judge(Exprs[e].tree, rows, params.select) : e \in ToSet(params.filter)}
       IN IF "throws" \in verdicts THEN "throws"
          ELSE IF "fail" \in verdicts THEN "fail" ELSE "pass"

(* Mutant: the rows are looked at before it is asked whether there are any.    *)
EndsWithoutEmpty(rows, throwsIfEmpty) ==
  IF HasUnexpectedNull(rows, params.select, params.join) THEN "null"
  ELSE IF Narrow(rows) = "throws" THEN "broken"
  ELSE "rows"

(* runQueryResult: the rows came back; the checks, in their order.             *)
Ends(rows, throwsIfEmpty) ==
  IF throwsIfEmpty /\ rows = {} THEN "empty"
  ELSE IF HasUnexpectedNull(rows, params.select, params.join) THEN "null"
  ELSE IF Narrow(rows) = "throws" THEN "broken"
  ELSE "rows"

Settle(outcome, rows) ==
  /\ answer' = [outcome |-> outcome, rows |-> rows, again |-> {}]
  /\ UNCHANGED <<table, params, asked>>

Begin(method, throwsIfEmpty, page) ==
  /\ call = NoCall
  /\ call' = [throwsIfEmpty |-> throwsIfEmpty, method |-> method, page |-> page]

IsWritable == params.where # None => Exprs[params.where].writable

Invalid == /\ ~ IsWritable
           /\ \E method \in Methods : Begin(method, FALSE, None)
           /\ Settle("invalid", {})

(* query() without pages; then() is query() with the builder's throwsIfEmpty,  *)
(* and drops the verdict of the narrower.                                      *)
Fetch(method, throwsIfEmpty) ==
  /\ IsWritable
  /\ Begin(method, throwsIfEmpty, None)
  /\ \E found \in {Selected} : \E rows \in Windows(found, params.limit, params.offset) :
       Settle(Ends(rows, throwsIfEmpty), rows)

Await == Fetch("await", params.throwsIfEmpty)

Query(throwsIfEmpty) == Fetch("query", throwsIfEmpty)

QueryAndNarrow ==
  /\ IsWritable
  /\ Begin("queryAndNarrow", FALSE, None)
  /\ \E found \in {Selected} : \E rows \in Windows(found, params.limit, params.offset) :
       LET end == Ends(rows, FALSE) IN
       Settle(IF end = "rows" /\ Narrow(rows) # "pass" THEN "unproven" ELSE end, rows)

QueryPages(throwsIfEmpty, n) ==
  /\ IsWritable
  /\ Begin("query", throwsIfEmpty, n)
  /\ UNCHANGED <<table, params, asked, answer>>

(* The rows one page may hold: the same statement with the page size for its   *)
(* limit.                                                                      *)
Pages == UNION {Windows(found, call.page, params.offset) : found \in {Selected}}

(* The page is appended to those before, whatever rows they have in common.    *)
TakePage(rows, last) ==
  /\ LET end == Ends(rows, call.throwsIfEmpty)
     IN answer' = [outcome |-> IF end = "rows" /\ ~ last THEN "pending" ELSE end,
                   rows |-> answer.rows \cup rows,
                   again |-> answer.again \cup (answer.rows \cap rows)]
  /\ UNCHANGED <<table, params, asked, call>>

(* Mutant: only an empty page is the last.                                     *)
NextPageUntilEmpty ==
  /\ call.page # None /\ answer.outcome = "pending"
  /\ \E rows \in Pages : TakePage(rows, rows = {})

(* A page that is not full is the last; after a full one the same statement is *)
(* sent again.                                                                 *)
NextPage ==
  /\ call.page # None /\ answer.outcome = "pending"
  /\ \E rows \in Pages : TakePage(rows, Cardinality(rows) < call.page)

(* Another client writes.                                                      *)
Change == /\ answer.outcome = "pending" /\ call # NoCall
          /\ table' \in Tables \ {table}
          /\ UNCHANGED <<params, asked, call, answer>>

Done == answer.outcome # "pending" /\ UNCHANGED vars

Next ==
  \/ \E type \in Joins : JoinTable(type)
  \/ \E items \in Selections : SelectItems(items)
  \/ \E e \in Wheres : Where(e)
  \/ \E n \in Numbers : Limit(n) \/ Offset(n) \/ AssertLength(n)
  \/ \E e \in Narrowers : AddTypeNarrower(e)
  \/ OrderBy \/ ThrowsIfEmpty
  \/ Invalid \/ Await \/ QueryAndNarrow
  \/ \E b \in BOOLEAN : Query(b) \/ \E n \in PageSizes : QueryPages(b, n)
  \/ NextPage \/ Change \/ Done

Spec == Init /\ [][Next]_vars

(* The database answers each page.                                             *)
FairSpec == Spec /\ WF_vars(NextPage)

--------------------------------------------------------------------------------
(* Properties.                                                                 *)

(* The rows the calls ask for, read as conditions and not as text.             *)
Asked == {row \in Rows : params.where = None \/ Exprs[params.where].means[row] = "T"}
IsKnown == params.where = None \/ Exprs[params.where].agreement # "lost"

Smaller(m, n) == IF m < n THEN m ELSE n

(* A call that is answered has only rows that were asked for, as many of them  *)
(* as limit() and offset() leave, the first ones if there is an order; and a   *)
(* paginated one has every row that was asked for and is there when it ends,   *)
(* even when others write between two pages (from-builder.ts, writeSql.ts,     *)
(* paginate.ts).  If it has fewer rows than a page, it has each of them once   *)
(* and no other.  (Exception: after a full page the same statement is sent     *)
(* again, paginate.ts:33, and the answer has rows of the full page twice, and  *)
(* rows that are gone.)  The WHERE clause must not mix and() with a loose OR.  *)
AnswersWhatWasAsked ==
  LET left    == Cardinality(Asked) - (IF params.offset = None THEN 0 ELSE params.offset)
      missing == Asked \ answer.rows
  IN answer.outcome = "rows" /\ IsKnown =>
       IF call.page # None
       THEN /\ params.offset = None => missing = {}
            /\ Cardinality(answer.rows) < call.page =>
                 answer.rows \subseteq Asked /\ answer.again = {}
       ELSE /\ answer.rows \subseteq Asked
            /\ left <= 0 => answer.rows = {}
            /\ left > 0 => Cardinality(answer.rows) =
                 IF params.limit = None THEN left ELSE Smaller(left, params.limit)
            /\ params.orderBy /\ params.offset = None =>
                 \A row \in answer.rows, other \in missing : Rank(row) < Rank(other)

(* Nobody who asked to be told gets an empty answer for a query that found     *)
(* nothing, and who is told so asked for it, and nothing is there to be found  *)
(* (QueryResult.ts, paginate.ts).  Exception: query() and queryAndNarrow() do  *)
(* not know of the builder's throwsIfEmpty(), although the type of query()     *)
(* says so.                                                                    *)
EmptyIsRefused ==
  LET isAsked == call.throwsIfEmpty \/ (call.method = "await" /\ params.throwsIfEmpty)
  IN /\ answer.outcome = "rows" /\ isAsked => answer.rows # {}
     /\ answer.outcome = "empty" =>
          isAsked /\ Windows(Selected, IF call.page = None THEN params.limit ELSE call.page,
                             params.offset) = {{}}

(* What queryAndNarrow() resolves with is what its type says: as many rows as  *)
(* asserted, and every narrower that was added is true of every row, however   *)
(* many were added and in which order (type-narrower.ts, from-builder.ts).     *)
(* Exceptions: narrowers with comparisons, IF or columns that are not selected *)
(* as part of their entity, which IsJudgeable leaves out.                      *)
NarrowedIsTrue ==
  call.method = "queryAndNarrow" /\ answer.outcome = "rows" =>
    /\ params.length \in {None, Cardinality(answer.rows)}
    /\ \A e \in asked : IsJudgeable(Exprs[e].tree, params.select) =>
         \A row \in answer.rows : Exprs[e].means[row] = "T"

(* Rows that follow their declarations are never refused for a NULL: the       *)
(* columns a join leaves without a partner are known to be optional            *)
(* (ExpressionColumn.ts, ExpressionSelectColumns.ts, QueryResult.ts).          *)
(* Exception: a right join, which leaves the table it joins to without one.    *)
NullsAreExpected == answer.outcome = "null" => params.join = "right"

(* The invariant by which they hold (the same code): the select list has the   *)
(* entities the joins have, unless select() gave another; no narrower that was  *)
(* asked for is lost; and a call that has ended came to its end over rows that  *)
(* its statement may have returned last, on the table as it is since; and      *)
(* pages before the last one were full.                                        *)
Entities == IF params.join = None THEN {Base} ELSE {Base, Joined2}

ListFits ==
  /\ params.select \in IF params.isExplicitSelect THEN Selections
                       ELSE {{ColumnsItem(a, Columns) : a \in Entities}}
  /\ \A i \in params.select : i.alias \in Entities

CallFits ==
  /\ call.method = None => call = NoCall /\ answer = Pending
  /\ call.page # None => call.method = "query"
  /\ IsFiniteSet(answer.rows)
  /\ answer.outcome = "pending" /\ call.page # None =>
       answer = Pending \/ call.page <= Cardinality(answer.rows)

LastLimit == IF call.page = None THEN params.limit ELSE call.page

CameTo(rows) ==
  /\ rows \subseteq answer.rows /\ (call.page = None => rows = answer.rows)
  /\ call.page # None => \/ rows = answer.rows /\ answer.again = {}
                         \/ call.page <= Cardinality(answer.rows)
  /\ call.method = "await" => call.throwsIfEmpty = params.throwsIfEmpty
  /\ \/ answer.outcome = Ends(rows, call.throwsIfEmpty)
     \/ answer.outcome = "unproven" /\ call.method = "queryAndNarrow"
  /\ answer.outcome = "rows" /\ call.page # None => Cardinality(rows) < call.page
  /\ answer.outcome = "rows" /\ call.method = "queryAndNarrow" => Narrow(rows) = "pass"

IInv ==
  /\ TypeOK /\ ListFits /\ asked = ToSet(params.filter) /\ CallFits
  /\ \/ answer.outcome \in {"pending", "invalid"}
     \/ \E rows \in Windows(Selected, LastLimit, params.offset) : CameTo(rows)

(* A paginated query ends when at last fewer rows match than a page holds      *)
(* (paginate.ts).  While more do, the first page is fetched again and again.   *)
PaginationSettles ==
  <>[](call.page # None /\ Cardinality(Selected) < call.page)
    => <>(answer.outcome # "pending")
================================================================================
