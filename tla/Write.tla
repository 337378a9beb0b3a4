------------------------------- MODULE Write -------------------------------
(***************************************************************************)
(* Inserts, updates and tables of values: a program fills the parameters   *)
(* of a builder call by call (InsertBuilder.ts, UpdateBuilder.ts,          *)
(* values-builder.ts), awaits it, possibly more than once, and each await  *)
(* prints one statement that the database runs.                            *)
(*                                                                         *)
(* The objects the program gives are what it means; the text the builders  *)
(* print is what the database reads.  The statement is therefore built     *)
(* token by token out of SqlString's fragments and read back by position,  *)
(* the way a server does, and the properties compare the outcome with the  *)
(* objects.                                                                *)
(***************************************************************************)
EXTENDS SqlString, Lists, FiniteSetsExt

CONSTANTS
  Columns,        \* the names of the table's columns, in the declared order
  Key,            \* the column the primary key consists of
  Other,          \* the column the conditions of WHERE are about
  Nullable,       \* the columns declared nullable
  Arrays,         \* the columns that hold arrays
  Literals,       \* the columns whose values are printed, not parameterised
  Fitting,        \* column -> the scalars its data type takes
  DefaultsOf,     \* column with a default -> the values it may come to, as a
                  \* default is an expression each statement evaluates anew
  ComputedFrom,   \* computed column -> the column it repeats
  InitialTables,  \* the contents the table may start from
  Batches,        \* the sequences of objects given to insert().values()
  Updates,        \* the sequences of columns given to setFields()
  Changes(_),     \* fields -> the sequences of objects given to values()
  Sets,           \* the sequences of assignments given as doUpdateSet
  Expressions,    \* the expressions of doUpdateSet, each a word of the text
  Evaluate(_, _, _), \* expression, row, excluded row -> its value
  Wheres,         \* the conditions given to where, as fragments
  MaxSends        \* bound on the statements sent

VARIABLES
  builder,        \* the parameters of the builder in hand
  sent,           \* the statement the database has to run
  drawn,          \* what the defaults of its tuples come to, object by object
  answer,         \* how the last await ended, or "sent" while it is out
  table,          \* the rows in the database
  result,         \* the rows the table of values in hand gave
  again,          \* whether the builder in hand was the last to be run
  sends           \* the number of statements sent

vars == <<builder, sent, drawn, answer, table, result, again, sends>>

ColumnSet == Range(Columns)
Undefined == <<"undefined">>
Null      == <<"NULL">>
Stored    == ColumnSet \ DOMAIN ComputedFrom

\* Words of a statement, which the database tells from values and names.
Keywords == {"INSERT", "UPDATE", "NAMES", "VALUES", "NOTHING", "SET", "TO", "WHERE"}
Words    == {"", "(", ")", "ARRAY[", "]", ",", "DEFAULT", "NULL", "missing",
             "undefined", "constant", "sameKey", "unset", "is", Hole}
Plain    == STRING \ (Keywords \cup Words \cup Expressions)

\* The expressions that give a column the excluded row's value of the same
\* column: always, or where the row has none.
SameColumn == {"excluded", "orExcluded"}

\* A value a program may give for a column, whether or not it fits.
IsValue(c, v) == v \in Seq(STRING) /\ (c \notin Arrays => Len(v) = 1)

IsBatch(batch) ==
  /\ batch \in Seq(Range(batch))
  /\ \A i \in 1..Len(batch) :
       /\ DOMAIN batch[i] \subseteq ColumnSet
       /\ \A c \in DOMAIN batch[i] : IsValue(c, batch[i][c])

\* The columns of doUpdateSet are the keys of one object.
IsSet(set) ==
  /\ set \in Seq(Range(set))
  /\ \A n \in 1..Len(set) :
       /\ set[n].column \in ColumnSet /\ IsValue(set[n].column, set[n].value)
       /\ set[n].expression \in {"constant"} \cup Expressions
       /\ \A m \in 1..Len(set) : set[m].column = set[n].column => m = n

IsCondition(where) ==
  /\ where \in [parts : Seq({"sameKey", "unset", "is", Hole}), params : Seq(Plain)]
  /\ HoleNumber(where.parts, Len(where.parts)) = Len(where.params)

\* Rows with keys of their own, and no NULL where none may be.
IsTable(rows) ==
  /\ \A r \in rows, s \in rows : r[Key] = s[Key] => r = s
  /\ \A r \in rows, c \in Stored \ Nullable : r[c] # Null

WriteAssumption ==
  /\ Columns \in Seq(Plain)
  /\ Key \in Stored \ Nullable /\ Other \in Stored
  /\ \A c \in DOMAIN ComputedFrom : ComputedFrom[c] \in Stored
  /\ \A c \in ColumnSet : Fitting[c] \subseteq Plain
  /\ \A c \in DOMAIN DefaultsOf :
       /\ c \in Stored /\ DefaultsOf[c] # {}
       /\ \A v \in DefaultsOf[c] : IsValue(c, v) /\ v \in Seq(Fitting[c])
  /\ \A rows \in InitialTables : IsFiniteSet(rows) /\ IsTable(rows)
  /\ \A batch \in Batches : IsBatch(batch)
  /\ Updates \subseteq Seq(ColumnSet)
  /\ \A fields \in Updates : \A batch \in Changes(fields) : IsBatch(batch)
  /\ SameColumn \subseteq Expressions
  /\ Expressions \subseteq STRING /\ Expressions \cap (Keywords \cup Words) = {}
  /\ \A set \in Sets : IsSet(set)
  /\ \A where \in Wheres : IsCondition(where)
  /\ MaxSends \in Nat \ {0}

ASSUME WriteAssumption

---------------------------------------------------------------------------
(* From objects to fragments.                                              *)

\* The value an object has at a key, undefined when it lacks the key.
At(object, c) == IF c \in DOMAIN object THEN object[c] ELSE Undefined

\* serializeValueForDataType throws: nothing for a column that needs a value,
\* or a value, or an element, of another type, as a fraction for an integer.
IsUnfit(c, v) ==
  IF v = Undefined
  THEN c \notin Nullable
  ELSE \E i \in 1..Len(v) : v[i] \notin Fitting[c]

Missing == [parts |-> <<"missing">>, params |-> <<>>]

Scalar(c, s) == IF c \in Literals THEN Raw(s) ELSE P(s)

SerializeValueForDataType(c, v) ==
  IF v = Undefined
  THEN Missing
  ELSE IF c \in Arrays
       THEN Construct(<<"ARRAY[", "]">>,
                      <<JoinedBy([i \in 1..Len(v) |-> Scalar(c, v[i])], ",")>>)
       ELSE Scalar(c, v[1])

OrNull(fragment) == IF fragment = Missing THEN Raw("NULL") ELSE fragment

Names(cs) == JoinedBy([i \in 1..Len(cs) |-> Raw(cs[i])], ",")

\* The tuples of a VALUES clause, one cell per column.
Tuples(rows) ==
  JoinedBy([i \in 1..Len(rows) |-> Parens(JoinedBy(rows[i], ","))], ",")

Insertable == Among(Columns, ColumnSet \ DOMAIN ComputedFrom)

Cell(object, c) ==
  IF c \in DOMAIN DefaultsOf /\ At(object, c) = Undefined
  THEN Raw("DEFAULT")
  ELSE SerializeValueForDataType(c, At(object, c))

\* The columns no object has anything for: left out of the statement.
AllNullColumns(batch) ==
  {c \in Stored : \A i \in 1..Len(batch) : Cell(batch[i], c) = Missing}

InsertColumns(batch) == Among(Insertable, ColumnSet \ AllNullColumns(batch))

\* Each row cut by its own missing columns instead of those of every row.
RowCellsByRow(batch, i) ==
  LET cs == Among(Insertable, {c \in Stored : Cell(batch[i], c) # Missing})
  IN  [n \in 1..Len(cs) |-> OrNull(Cell(batch[i], cs[n]))]

RowCells(batch, i) ==
  LET cs == InsertColumns(batch)
  IN  [n \in 1..Len(cs) |-> OrNull(Cell(batch[i], cs[n]))]

\* A value of doUpdateSet: any expression over the row and the excluded one,
\* printed as it is, or a constant.
SetCell(assignment) ==
  IF assignment.expression # "constant"
  THEN Raw(assignment.expression)
  ELSE OrNull(SerializeValueForDataType(assignment.column, assignment.value))

OnConflictText(b) ==
  LET assigned == Construct(<<"SET", "TO", "">>,
                    <<Names([i \in 1..Len(b.set) |-> b.set[i].column]),
                      JoinedBy([i \in 1..Len(b.set) |-> SetCell(b.set[i])], ",")>>)
  IN  CASE b.conflict = "none"    -> Raw("")
        [] b.conflict = "nothing" -> Raw("NOTHING")
        [] b.conflict = "update"  ->
             IF "where" \in b.calls
             THEN Construct(<<"", "WHERE", "">>, <<assigned, b.where>>)
             ELSE assigned

\* The parameters of the conflict collected before those of the tuples, which
\* stand before them in the text.
InsertTextParamsLate(b) ==
  LET text == Construct(<<"INSERT", "VALUES", "", "">>,
                <<Names(InsertColumns(b.batch)),
                  Tuples([i \in 1..Len(b.batch) |-> RowCells(b.batch, i)]),
                  OnConflictText(b)>>)
  IN  [text EXCEPT !.params = OnConflictText(b).params
         \o Tuples([i \in 1..Len(b.batch) |-> RowCells(b.batch, i)]).params]

InsertText(b) ==
  Construct(<<"INSERT", "VALUES", "", "">>,
            <<Names(InsertColumns(b.batch)),
              Tuples([i \in 1..Len(b.batch) |-> RowCells(b.batch, i)]),
              OnConflictText(b)>>)

\* Only the fields the first object has a value for.
FieldCellsByFirst(b, i) ==
  [n \in 1..Len(b.fields) |->
     IF At(b.batch[1], b.fields[n]) # Undefined
     THEN OrNull(SerializeValueForDataType(b.fields[n], At(b.batch[i], b.fields[n])))
     ELSE Raw("NULL")]

\* One cell per field, in the order of the fields.
FieldCells(b, i) ==
  [n \in 1..Len(b.fields) |->
     OrNull(SerializeValueForDataType(b.fields[n], At(b.batch[i], b.fields[n])))]

\* The columns set from the fields in the opposite order.
UpdateTextReversed(b) ==
  Construct(<<"UPDATE", "TO", "NAMES", "VALUES", "WHERE", "">>,
            <<Names(b.fields), Names(Reverse(b.fields)), Names(b.fields),
              Tuples([i \in 1..Len(b.batch) |-> FieldCells(b, i)]), b.where>>)

UpdateText(b) ==
  Construct(<<"UPDATE", "TO", "NAMES", "VALUES", "WHERE", "">>,
            <<Names(b.fields), Names(b.fields), Names(b.fields),
              Tuples([i \in 1..Len(b.batch) |-> FieldCells(b, i)]), b.where>>)

ValuesText(b) ==
  Construct(<<"NAMES", "VALUES", "">>,
            <<Names(b.fields),
              Tuples([i \in 1..Len(b.batch) |-> FieldCells(b, i)])>>)

---------------------------------------------------------------------------
(* The database: it reads the statement by position and runs it at once.   *)

Has(text, word) == \E i \in 1..Len(text) : text[i] = word

\* What stands between a keyword and the next one: read token by token, with
\* whether it is the keyword's words that are read.
Hear(heard, word, token) ==
  IF token \in Keywords THEN [heard EXCEPT !.isOn = (token = word)]
  ELSE IF heard.isOn THEN [heard EXCEPT !.said = Append(@, token)]
  ELSE heard

Hearing(start, word, text) ==
  LET heard[i \in 0..Len(text)] ==
        IF i = 0 THEN start ELSE Hear(heard[i - 1], word, text[i])
  IN  heard[Len(text)]

Section(text, word) == Hearing([isOn |-> FALSE, said |-> <<>>], word, text).said

\* The items of a list, split at the commas outside of brackets.
Nesting(token) == CASE token \in {"(", "ARRAY["} -> 1
                    [] token \in {")", "]"}      -> -1
                    [] OTHER                     -> 0

ReadToken(list, token) ==
  IF token = "," /\ list.depth = 0
  THEN [list EXCEPT !.items = Append(@, list.item), !.item = <<>>]
  ELSE [list EXCEPT !.depth = @ + Nesting(token), !.item = Append(@, token)]

Reading(start, text) ==
  LET read[i \in 0..Len(text)] ==
        IF i = 0 THEN start ELSE ReadToken(read[i - 1], text[i])
  IN  read[Len(text)]

Split(text) ==
  LET list == Reading([depth |-> 0, items |-> <<>>, item |-> <<>>], text)
  IN  IF text = <<>> THEN <<>> ELSE Append(list.items, list.item)

Inside(text) == SubSeq(text, 2, Len(text) - 1)

ListOf(text, word) ==
  LET items == Split(Section(text, word))
  IN  [n \in 1..Len(items) |-> items[n][1]]

TuplesOf(text) ==
  LET tuples == Split(Section(text, "VALUES"))
  IN  [i \in 1..Len(tuples) |-> Split(Inside(tuples[i]))]

\* What column c gets in the i-th row of an insert that gives it nothing.
Default(i, c) == IF c \in DOMAIN DefaultsOf THEN drawn[i][c] ELSE Null

ReadCell(c, text) ==
  CASE text = <<"DEFAULT">> -> Undefined
    [] text[1] = "ARRAY["   -> LET items == Split(Inside(text))
                               IN  [n \in 1..Len(items) |-> items[n][1]]
    [] OTHER                -> text

\* A row of the table, its computed columns filled in.
Row(cells) ==
  [c \in ColumnSet |-> IF c \in Stored THEN cells[c] ELSE cells[ComputedFrom[c]]]

\* A tuple read under a list of names: name -> what its cell says.
Named(names, tuple) ==
  [c \in Range(names) |->
     ReadCell(c, tuple[CHOOSE n \in 1..Len(names) : names[n] = c])]

Proposed(text, i) ==
  LET given == Named(ListOf(text, "INSERT"), TuplesOf(text)[i])
  IN  Row([c \in Stored |-> IF At(given, c) # Undefined THEN given[c] ELSE Default(i, c)])

\* A condition over a row and the row it is set against; the last token of
\* "is" is a parameter.
Holds(condition, row, against) ==
  /\ Has(condition, "sameKey") => row[Key] = against[Key]
  /\ Has(condition, "unset")   => row[Other] = Null
  /\ \A i \in 1..Len(condition) - 1 :
       condition[i] = "is" => row[Other] = <<condition[i + 1]>>

\* What an expression gives for column c: the excluded row's value, the same
\* where the row has none, or whatever it computes from the two rows.
ValueOf(expression, c, row, excluded) ==
  CASE expression = "excluded"   -> excluded[c]
    [] expression = "orExcluded" -> IF row[c] = Null THEN excluded[c] ELSE row[c]
    [] OTHER                     -> Evaluate(expression, row, excluded)

\* The row of a conflict after DO UPDATE SET: an assigned column takes what its
\* expression gives for the row as it was, or a constant.
Assigned(text, row, excluded) ==
  LET names == ListOf(text, "SET")
      cells == Split(Section(text, "TO"))
      ValueBy(n) == IF cells[n][1] \in Expressions
                    THEN ValueOf(cells[n][1], names[n], row, excluded)
                    ELSE ReadCell(names[n], cells[n])
  IN  Row([c \in Stored |->
             IF c \in Range(names)
             THEN ValueBy(CHOOSE n \in 1..Len(names) : names[n] = c)
             ELSE row[c]])

\* One tuple of an insert after another, until one cannot be taken.
InsertRow(text, done, row) ==
  LET taken == {r \in done.table : r[Key] = row[Key]}
      old   == CHOOSE r \in taken : TRUE
  IN  CASE ~done.ok -> done
        [] done.ok /\ taken = {} ->
             [done EXCEPT !.table = @ \cup {row}, !.touched = @ \cup {row[Key]}]
        [] done.ok /\ taken # {} /\ Has(text, "NOTHING") -> done
        [] done.ok /\ taken # {} /\ Has(text, "SET") /\ row[Key] \notin done.touched ->
             IF Holds(Section(text, "WHERE"), old, row)
             THEN [done EXCEPT !.table = (@ \ {old}) \cup {Assigned(text, old, row)},
                               !.touched = @ \cup {Assigned(text, old, row)[Key]}]
             ELSE done
        [] OTHER -> [done EXCEPT !.ok = FALSE]

IsWellFormed(text) ==
  LET names == IF Has(text, "INSERT") THEN ListOf(text, "INSERT") ELSE ListOf(text, "NAMES")
  IN  /\ TuplesOf(text) # <<>> /\ names # <<>>
      /\ \A i \in 1..Len(TuplesOf(text)) : Len(TuplesOf(text)[i]) = Len(names)
      /\ Len(ListOf(text, "SET") \o ListOf(text, "UPDATE")) = Len(Split(Section(text, "TO")))
      /\ Has(text, "UPDATE") /\ Has(text, "sameKey") => Key \in Range(names)

WritesComputed(text) ==
  \E c \in DOMAIN ComputedFrom : c \in Range(ListOf(text, "SET") \o ListOf(text, "UPDATE"))

\* The tables an insert may leave: at most one.
InsertOutcomes(text) ==
  LET done[i \in 0..Len(TuplesOf(text))] ==
        IF i = 0 THEN [table |-> table, touched |-> {}, ok |-> TRUE]
        ELSE InsertRow(text, done[i - 1], Proposed(text, i))
      final == done[Len(TuplesOf(text))]
  IN  IF final.ok THEN {final.table} ELSE {}

\* The tables an update may leave: a row that several tuples match takes any
\* one of them.
UpdateOutcomes(text) ==
  LET names   == ListOf(text, "NAMES")
      targets == ListOf(text, "UPDATE")
      sources == ListOf(text, "TO")
      tuples  == {Named(names, TuplesOf(text)[i]) : i \in 1..Len(TuplesOf(text))}
      MatchesOf(r) == {t \in tuples : Holds(Section(text, "WHERE"), r, t)}
      Updated(r, t) ==
        Row([c \in Stored |->
               IF c \in Range(targets)
               THEN t[sources[CHOOSE n \in 1..Len(targets) : targets[n] = c]]
               ELSE r[c]])
      Ways(r) == IF MatchesOf(r) = {} THEN {r} ELSE {Updated(r, t) : t \in MatchesOf(r)}
  IN  {{pick[r] : r \in table} :
         pick \in {f \in [table -> UNION {Ways(r) : r \in table}] :
                     \A r \in table : f[r] \in Ways(r)}}

\* The tables a write may leave, before the database looks at them.
Candidates(text) ==
  IF Has(text, "INSERT") THEN InsertOutcomes(text) ELSE UpdateOutcomes(text)

\* The rows are a table still, and none is lost to another's key.
Accepts(rows) == IsTable(rows) /\ Cardinality(rows) >= Cardinality(table)

IsRunnable(text) == IsWellFormed(text) /\ ~WritesComputed(text)

---------------------------------------------------------------------------
(* The program and its builders.                                           *)

NewBuilder(kind) ==
  [kind |-> kind, calls |-> {}, batch |-> <<>>, fields |-> <<>>,
   conflict |-> "none", set |-> <<>>, where |-> Raw("")]

Init ==
  /\ builder = NewBuilder("none")
  /\ sent = <<>> /\ drawn = <<>> /\ answer = "none"
  /\ table \in InitialTables
  /\ result = <<>> /\ again = FALSE /\ sends = 0

IsIdle == answer # "sent"

\* insert(), update() and values() give a builder with nothing in it.
Begin(kind) ==
  /\ IsIdle /\ sends < MaxSends
  /\ builder' = NewBuilder(kind)
  /\ again' = FALSE /\ answer' = "none" /\ result' = <<>> /\ drawn' = <<>>
  /\ UNCHANGED <<sent, table, sends>>

\* A call gives a builder with one parameter replaced.
Call(name, parameters) ==
  /\ IsIdle /\ sends < MaxSends
  /\ builder' = [parameters EXCEPT !.calls = @ \cup {name}]
  /\ again' = FALSE /\ answer' = "none" /\ result' = <<>> /\ drawn' = <<>>
  /\ UNCHANGED <<sent, table, sends>>

InsertValues ==
  /\ builder.kind = "insert" /\ "values" \notin builder.calls
  /\ \E batch \in Batches : Call("values", [builder EXCEPT !.batch = batch])

OnConflictDoNothing ==
  /\ builder.kind = "insert" /\ "values" \in builder.calls
  /\ "conflict" \notin builder.calls
  /\ Call("conflict", [builder EXCEPT !.conflict = "nothing"])

OnConflictDoUpdateSet ==
  /\ builder.kind = "insert" /\ "values" \in builder.calls
  /\ "conflict" \notin builder.calls
  /\ \E set \in Sets :
       LET updating == [builder EXCEPT !.conflict = "update", !.set = set]
       IN  \/ Call("conflict", updating)
           \/ \E where \in Wheres :
                /\ ~Has(where.parts, "sameKey")
                /\ Call("conflict", [updating EXCEPT !.where = where,
                                                     !.calls = @ \cup {"where"}])

\* The fields of an update may be replaced at any time, after its rows and
\* its condition too.
SetFields ==
  /\ builder.kind \in {"update", "values"}
  /\ builder.kind = "values" => "values" \notin builder.calls
  /\ \E fields \in Updates : Call("fields", [builder EXCEPT !.fields = fields])

ChangeValues ==
  /\ builder.kind \in {"update", "values"} /\ "fields" \in builder.calls
  /\ \E batch \in Changes(builder.fields) :
       Call("values", [builder EXCEPT !.batch = batch])

Where ==
  /\ builder.kind = "update" /\ {"fields", "values"} \subseteq builder.calls
  /\ \E where \in Wheres :
       /\ Has(where.parts, "sameKey") => Key \in Range(builder.fields)
       /\ Call("where", [builder EXCEPT !.where = where])

\* What getInsertSqlQuery and getUpdateSqlQuery throw on, before anything is
\* sent: the rows first, then the assignments of a conflict.
Throws(b) ==
  LET cs == IF b.kind = "insert" THEN Range(Insertable) ELSE Range(b.fields)
      HasDefault(o, c) == /\ b.kind = "insert" /\ c \in DOMAIN DefaultsOf
                          /\ At(o, c) = Undefined
  IN  \/ \E i \in 1..Len(b.batch), c \in cs :
           ~HasDefault(b.batch[i], c) /\ IsUnfit(c, At(b.batch[i], c))
      \/ b.kind = "update" /\ b.fields = <<>>
      \/ b.conflict = "update" /\ b.set = <<>>
      \/ \E n \in 1..Len(b.set) : /\ b.set[n].expression = "constant"
                                  /\ IsUnfit(b.set[n].column, b.set[n].value)

IsComplete(b) ==
  CASE b.kind = "insert" -> "values" \in b.calls
    [] b.kind = "update" -> {"fields", "values", "where"} \subseteq b.calls
    [] b.kind = "values" -> {"fields", "values"} \subseteq b.calls
    [] OTHER             -> FALSE

CanAwait == IsIdle /\ IsComplete(builder) /\ sends < MaxSends

AwaitThrows ==
  /\ CanAwait /\ Throws(builder) /\ answer' = "thrown"
  /\ sends' = sends + 1
  /\ UNCHANGED <<builder, sent, drawn, table, result, again>>

\* An insert of no rows answers without a statement.
AwaitEmptyInsert ==
  /\ CanAwait /\ ~Throws(builder)
  /\ builder.kind = "insert" /\ builder.batch = <<>>
  /\ answer' = "done" /\ sends' = sends + 1
  /\ UNCHANGED <<builder, sent, drawn, table, result, again>>

Printed(b) == Bound(CASE b.kind = "insert" -> InsertText(b)
                      [] b.kind = "update" -> UpdateText(b)
                      [] b.kind = "values" -> ValuesText(b))

\* For each object of an insert, what the defaults it leaves columns to may
\* come to: chosen when the statement is sent, as nothing looks before it runs.
Draws(b) ==
  LET LeftTo(i) == {c \in DOMAIN DefaultsOf : At(b.batch[i], c) = Undefined}
      Values    == UNION Range(DefaultsOf)
  IN  IF b.kind = "insert"
      THEN {d \in [1..Len(b.batch) -> UNION {[cs -> Values] : cs \in SUBSET DOMAIN DefaultsOf}] :
              \A i \in 1..Len(b.batch) :
                DOMAIN d[i] = LeftTo(i) /\ \A c \in LeftTo(i) : d[i][c] \in DefaultsOf[c]}
      ELSE {<<>>}

\* Each await, of the same builder too, prints and sends the statement anew.
Await ==
  /\ CanAwait /\ ~Throws(builder)
  /\ builder.kind = "insert" => builder.batch # <<>>
  /\ sent' = Printed(builder) /\ drawn' \in Draws(builder)
  /\ answer' = "sent" /\ sends' = sends + 1
  /\ UNCHANGED <<builder, table, result, again>>

\* The database runs a write, or refuses it and leaves the table.
Execute ==
  /\ answer = "sent" /\ builder.kind \in {"insert", "update"}
  /\ IsRunnable(sent)
  /\ \E rows \in Candidates(sent) : Accepts(rows) /\ table' = rows
  /\ answer' = "done" /\ again' = TRUE /\ sent' = <<>>
  /\ UNCHANGED <<builder, drawn, result, sends>>

Refuse ==
  /\ answer = "sent"
  /\ IsRunnable(sent) => /\ builder.kind # "values"
                         /\ \/ Candidates(sent) = {}
                            \/ \E rows \in Candidates(sent) : ~Accepts(rows)
  /\ answer' = "refused" /\ sent' = <<>>
  /\ UNCHANGED <<builder, drawn, table, result, again, sends>>

\* SELECT column1 AS name, ... FROM (VALUES ...).
ReadValues ==
  /\ answer = "sent" /\ builder.kind = "values" /\ IsWellFormed(sent)
  /\ result' = [i \in 1..Len(TuplesOf(sent)) |->
                  Named(ListOf(sent, "NAMES"), TuplesOf(sent)[i])]
  /\ answer' = "done" /\ sent' = <<>>
  /\ UNCHANGED <<builder, drawn, table, again, sends>>

Next ==
  \/ \E kind \in {"insert", "update", "values"} : Begin(kind)
  \/ InsertValues \/ OnConflictDoNothing \/ OnConflictDoUpdateSet
  \/ SetFields \/ ChangeValues \/ Where
  \/ AwaitThrows \/ AwaitEmptyInsert \/ Await
  \/ Execute \/ Refuse \/ ReadValues

Spec == Init /\ [][Next]_vars

---------------------------------------------------------------------------
(* What the objects mean, and the properties.                              *)

\* The row the i-th object stands for: its values, what the defaults of the
\* columns it leaves undefined come to, NULL for the rest, and the computed
\* columns.
Meant(i) ==
  Row([c \in Stored |->
         IF At(builder.batch[i], c) # Undefined THEN At(builder.batch[i], c) ELSE Default(i, c)])

KeyOf(i) == Meant(i)[Key]

\* A condition of WHERE as the caller wrote it, over a row and an object.
Matches(row, object) == Holds(Bound(builder.where), row, object)

\* The row the i-th object's conflict leaves, by the assignments themselves.
AfterConflict(row, i) ==
  LET ValueBy(a) == CASE a.expression # "constant" ->
                           ValueOf(a.expression, a.column, row, Meant(i))
                      [] a.expression = "constant" /\ a.value = Undefined -> Null
                      [] OTHER -> a.value
      Of(c) == {n \in 1..Len(builder.set) : builder.set[n].column = c}
  IN  Row([c \in Stored |->
             IF Of(c) = {} THEN row[c] ELSE ValueBy(builder.set[Min(Of(c))])])

ObjectsOf(k) == {i \in 1..Len(builder.batch) : KeyOf(i) = k}
First(k)     == Min(ObjectsOf(k))

\* A row that was there before an insert, assigned to where it conflicts.
Kept(r) ==
  IF /\ builder.conflict = "update" /\ ObjectsOf(r[Key]) # {}
     /\ Matches(r, Meant(First(r[Key])))
  THEN AfterConflict(r, First(r[Key]))
  ELSE r

\* The table an insert is to leave: the rows it finds, and a row for the
\* first object of each key not found.
InsertIsMeant(before, after) ==
  LET keys == {KeyOf(i) : i \in 1..Len(builder.batch)}
  IN  after = {Kept(r) : r \in before}
              \cup {Meant(First(k)) : k \in keys \ {r[Key] : r \in before}}

\* The objects of an update that match a row, and the row with one's fields.
ObjectsFor(r) ==
  {i \in 1..Len(builder.batch) : Matches(r, [c \in ColumnSet |-> At(builder.batch[i], c)])}

OrNone(v) == IF v = Undefined THEN Null ELSE v

With(r, object) ==
  Row([c \in Stored |->
         IF c \in Range(builder.fields) THEN OrNone(At(object, c)) ELSE r[c]])

\* The tables an update may leave: each row as it was if no object matches
\* it, and otherwise with the fields of an object that does.
UpdateIsMeant(before, after) ==
  LET IsLeft(r, s) == IF ObjectsFor(r) = {}
                      THEN s = r
                      ELSE \E i \in ObjectsFor(r) : s = With(r, builder.batch[i])
  IN  /\ \A r \in before : \E s \in after : IsLeft(r, s)
      /\ \A s \in after : \E r \in before : IsLeft(r, s)

\* An assignment of doUpdateSet gives the key itself another value than the
\* excluded row's, which is the same.
MovesKeys == \E n \in 1..Len(builder.set) : /\ builder.set[n].column = Key
                                            /\ builder.set[n].expression \notin SameColumn

(***************************************************************************)
(* Whatever columns a batch leaves out, and wherever its values stand in   *)
(* the text, the table ends up with the rows the objects mean and nothing  *)
(* else: InsertBuilder.ts cuts every row of a batch to the same columns    *)
(* and pairs values with columns by position, UpdateBuilder.ts joins the   *)
(* target with an anonymous list whose columns are named by position.  A   *)
(* table of values reads back as its rows.  A conflict that moves the key  *)
(* itself is left out: objects and rows no longer correspond.              *)
(***************************************************************************)
WritesWhatWasMeant ==
  [][answer = "sent" /\ answer' = "done" =>
       CASE builder.kind = "insert" -> ~MovesKeys => InsertIsMeant(table, table')
         [] builder.kind = "update" -> UpdateIsMeant(table, table')
         [] builder.kind = "values" ->
              result' = [i \in 1..Len(builder.batch) |->
                           [c \in Range(builder.fields) |->
                              OrNone(At(builder.batch[i], c))]]]_vars

\* What can make the database refuse a statement that was sent: a key that is
\* taken, or proposed twice, or that a conflict moves; an expression of a
\* conflict that gives no value for a column that needs one; a computed column
\* written; no rows, or a table of no columns; an update that moves rows onto
\* each other's keys, or compares keys it was made to give no longer.
IsRefusable ==
  LET b == builder
      IsRepeated == \E i, j \in 1..Len(b.batch) : i # j /\ KeyOf(i) = KeyOf(j)
      IsTaken == \E i \in 1..Len(b.batch), r \in table : KeyOf(i) = r[Key]
      GivesNull == \E r \in table, c \in Stored \ Nullable : Kept(r)[c] = Null
      written == {b.set[n].column : n \in 1..Len(b.set)} \cup Range(b.fields)
  IN  \/ b.kind = "insert" /\ b.conflict = "none" /\ (IsRepeated \/ IsTaken)
      \/ b.kind = "insert" /\ b.conflict = "update" /\ (IsRepeated \/ MovesKeys \/ GivesNull)
      \/ b.kind # "values" /\ written \cap DOMAIN ComputedFrom # {}
      \/ b.kind # "insert" /\ (b.batch = <<>> \/ b.fields = <<>>)
      \/ b.kind = "update" /\ Key \in written /\ ~Has(b.where.parts, "sameKey")
      \/ b.kind = "update" /\ Key \notin written /\ Has(b.where.parts, "sameKey")

(***************************************************************************)
(* The text is never what is wrong: a statement that is sent has as many   *)
(* cells in each tuple as it names columns, a value for every column that  *)
(* needs one and DEFAULT only where there is one, so the database refuses  *)
(* it only for what the objects ask.                                       *)
(***************************************************************************)
RefusedForCause == answer = "refused" => IsRefusable

\* Some object leaves a column to a default that may come to another value
\* when it is evaluated anew, as a generated key or the time of the day.
IsLeftOpen(c) ==
  /\ c \in DOMAIN DefaultsOf /\ \E v, w \in DefaultsOf[c] : v # w
  /\ \E i \in 1..Len(builder.batch) : At(builder.batch[i], c) = Undefined

\* No row has several objects to choose from, the rows of an insert have the
\* keys they had, and a conflict gives columns what the objects say of them.
IsSettled ==
  /\ builder.kind = "update" =>
       \A r \in table : Cardinality(ObjectsFor(r)) < 2
  /\ builder.kind = "insert" => ~IsLeftOpen(Key)
  /\ builder.conflict = "update" =>
       \A n \in 1..Len(builder.set) : /\ builder.set[n].expression \in SameColumn
                                      /\ ~IsLeftOpen(builder.set[n].column)

(***************************************************************************)
(* A builder is a value and each await of it runs its statement again: a   *)
(* caller that lost the answer may await it once more.  With nothing else  *)
(* written in between, the second run leaves the table as the first left   *)
(* it, except                                                              *)
(*   - of an update, where two objects match one row;                      *)
(*   - of an insert that leaves the key to a default evaluated anew, a     *)
(*     generated key for one: the second run inserts its rows again;       *)
(*   - where a conflict assigns a column a constant, or an expression other*)
(*     than the excluded row's value of that column (taken always or only  *)
(*     where the row has none): a toggle, a sum, a swap of two columns;    *)
(*   - where a conflict assigns a column that an object leaves to a default*)
(*     evaluated anew.                                                     *)
(***************************************************************************)
RetryIsHarmless ==
  [][again /\ answer = "sent" /\ IsSettled => table' = table]_vars

---------------------------------------------------------------------------
(* The inductive invariant.                                                *)

IsBuilder(b) ==
  /\ b = [kind |-> b.kind, calls |-> b.calls, batch |-> b.batch, fields |-> b.fields,
          conflict |-> b.conflict, set |-> b.set, where |-> b.where]
  /\ b.kind \in {"none", "insert", "update", "values"}
  /\ b.conflict \in {"none", "nothing", "update"}
  /\ IsBatch(b.batch) /\ b.fields \in Seq(ColumnSet)
  /\ IsSet(b.set) /\ IsCondition(b.where)
  /\ b.kind = "insert" => b.fields = <<>> /\ ~Has(b.where.parts, "sameKey")
  /\ b.kind = "insert" /\ "where" \notin b.calls => b.where = Raw("")
  /\ b.kind # "insert" => b.conflict = "none"
  /\ b.conflict # "update" => b.set = <<>>
  /\ "conflict" \notin b.calls => b.conflict = "none"
  /\ "fields" \in b.calls => b.fields \in Updates

\* The statement that is out is the one the builder in hand prints.
SentIsPrinted ==
  answer = "sent" =>
    /\ IsComplete(builder) /\ ~Throws(builder) /\ sent = Printed(builder)
    /\ builder.kind = "insert" => builder.batch # <<>>

\* The defaults of an insert that is out, or has run, come to what they may.
DrawnFits == again \/ answer = "sent" => drawn \in Draws(builder)

\* A builder that has run would leave the table as it is.
IsDone ==
  again /\ IsSettled =>
    /\ builder.kind = "insert" => InsertIsMeant(table, table)
    /\ builder.kind = "update" =>
         \A r \in table : \A i \in ObjectsFor(r) : With(r, builder.batch[i]) = r

(***************************************************************************)
(* The rows are a table, the builder holds what its calls may give it, the *)
(* statement that is out is the builder's, its defaults come to what they  *)
(* may, a refusal has its cause, and the table bears the mark of a builder *)
(* that has run.                                                           *)
(***************************************************************************)
IInv ==
  /\ IsFiniteSet(table) /\ IsTable(table)
  /\ IsBuilder(builder)
  /\ SentIsPrinted
  /\ DrawnFits
  /\ RefusedForCause
  /\ IsDone
=============================================================================
