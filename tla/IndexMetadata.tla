--------------------------- MODULE IndexMetadata ---------------------------
(***************************************************************************)
(* What selectFromIndex knows of an index.  A table declares an index with *)
(* a builder (ddl/index-builder, table-from-schema-builder.ts); a build    *)
(* step reads the declaration and writes a file of metadata                *)
(* (ddl/codegen/ast-generator.ts), both as a type that says which          *)
(* conditions a query may have and as an object that the query reads when  *)
(* it is awaited (ddl/index-config.ts, index-query-builder.ts); and a      *)
(* migration brings the index to the database.  The three are brought up   *)
(* to date one at a time, and queries run in between.                      *)
(*                                                                         *)
(* IndexQuery says what one query means; here it is the columns, the       *)
(* predicate and the order that come from the metadata.                    *)
(***************************************************************************)
EXTENDS Lists, FiniteSets, SequencesExt

CONSTANTS
  None,              \* nothing declared, generated, migrated or overridden
  Columns,           \* the columns of the table
  PrimaryKey,        \* those of its primary key, in order
  Values,            \* the values of a column
  Declarations,      \* the properties an index builder may end up with
  DefaultName,       \* the name of an index that is given none
  PredicateColumns,  \* predicate -> the columns it is about
  IsTrueOf(_, _),    \* predicate, row: whether the row satisfies it
  Minimums,          \* the minimumSufficientColumns an override may give
  MaxKeys,           \* the most columns an order names
  Contents           \* the rows the table may have

VARIABLES
  declared,   \* the declaration in the program, or None
  generated,  \* the metadata in the generated file, or None
  database,   \* the index the database has, or None
  rows,       \* the rows of the table
  statement,  \* the query sent, or None
  answer      \* how the last query ended, with the rows it gave

vars == <<declared, generated, database, rows, statement, answer>>

AllRows == [Columns -> Values]

SqlKeywords == {"IS", "NOT", "NULL", "AND", "OR", "IN", "LIKE", "ILIKE", "ANY",
                "ALL", "SOME", "TRUE", "FALSE"}

MetadataAssumption ==
  /\ Range(PrimaryKey) \subseteq Columns
  /\ Contents \subseteq SUBSET AllRows
  /\ DefaultName # "primaryKey" /\ MaxKeys \in Nat
  /\ \A d \in Declarations :
       /\ d.parts \in Seq([words : Seq(STRING)]) /\ d.parts # <<>>
       /\ d.directions \in [1..Len(d.parts) -> {None, "asc", "desc"}]
       /\ d.name # "primaryKey" /\ Range(d.storing) \subseteq Columns
       /\ d.where = None \/ d.where \in DOMAIN PredicateColumns
  /\ \A p \in DOMAIN PredicateColumns : PredicateColumns[p] \subseteq Columns

ASSUME MetadataAssumption

---------------------------------------------------------------------------
(* A declaration and its metadata.  Each part of an index is known by the   *)
(* words of its text: a column's name, or a function's and its argument's. *)

\* build(): what becomes of the properties of an index builder.  Its name may
\* be left to the table and the key, and unique() left out; what concurrently(),
\* with() and partitionBy() have noted is dropped.  A part without a direction
\* ascends.
Build(properties) ==
  [name |-> IF properties.name = None THEN DefaultName ELSE properties.name,
   parts |-> properties.parts, storing |-> properties.storing,
   ascending |-> [i \in 1..Len(properties.parts) |-> properties.directions[i] # "desc"],
   where |-> properties.where,
   unique |-> properties.unique # None]

\* The keys of a map, in the order in which they are first set.
Distinct(words) ==
  LET keys[n \in 0..Len(words)] ==
        IF n = 0 THEN <<>>
        ELSE IF words[n] \in Range(keys[n - 1]) THEN keys[n - 1]
        ELSE Append(keys[n - 1], words[n])
  IN  keys[Len(words)]

\* getColumnNamesFromSql takes every word but SQL's own for a column.
ColumnNamesFromSql(part) == Among(part.words, Range(part.words) \ SqlKeywords)

\* The columns of the first parts, each once, in the order they are met.
IndexedUpTo(d, n) ==
  Distinct(FlattenSeq([i \in 1..n |-> ColumnNamesFromSql(d.parts[i])]))

Indexed(d) == IndexedUpTo(d, Len(d.parts))

\* The columns met before the last part that names the column.
SeenBefore(d, c) ==
  LET last == CHOOSE i \in 1..Len(d.parts) :
                /\ c \in Range(ColumnNamesFromSql(d.parts[i]))
                /\ \A j \in i + 1..Len(d.parts) :
                     c \notin Range(ColumnNamesFromSql(d.parts[j]))
  IN  IndexedUpTo(d, last - 1)

\* A stored column asks for the first column of the index only, an indexed
\* one that is stored too; one of the predicate alone asks for nothing.
ColumnInfo(d) ==
  LET partial == IF d.where = None THEN {} ELSE PredicateColumns[d.where]
      indexed == Range(Indexed(d))
      Required(c) ==
        IF c \in partial \ indexed THEN <<>>
        ELSE IF c \in Range(d.storing) THEN SubSeq(Indexed(d), 1, 1)
        ELSE SeenBefore(d, c)
  IN  [c \in indexed \cup Range(d.storing) \cup partial |->
         [column |-> c \in indexed, storing |-> c \in Range(d.storing),
          partial |-> c \in partial, requiredColumns |-> Required(c)]]

\* The index is taken to start with its last column.
MinimumSufficientLast(d) == SubSeq(Indexed(d), Len(Indexed(d)), Len(Indexed(d)))

MinimumSufficient(d) == SubSeq(Indexed(d), 1, 1)

\* The object in the generated file, and what the type beside it tells of it;
\* neither has the directions.
MetadataObject(d) ==
  [columns |-> ColumnInfo(d), columnsOrder |-> Indexed(d),
   minimumSufficientColumns |-> MinimumSufficient(d),
   unique |-> d.unique, predicate |-> d.where]

MetadataType(m) ==
  [columns |-> DOMAIN m.columns, columnsOrder |-> m.columnsOrder,
   minimumSufficientColumns |-> m.minimumSufficientColumns]

---------------------------------------------------------------------------
(* Asking.                                                                 *)

\* What a query goes by: the generated metadata, the minimum overridden where
\* the program overrides it; for the primary key, the table alone.
OptionsFromMetadata(minimum) ==
  [columns |-> DOMAIN generated.columns, columnsOrder |-> generated.columnsOrder,
   minimum |-> IF minimum = None THEN generated.minimumSufficientColumns ELSE minimum,
   predicate |-> generated.predicate]

OptionsOfPrimaryKey ==
  [columns |-> Range(PrimaryKey), columnsOrder |-> PrimaryKey,
   minimum |-> PrimaryKey, predicate |-> None]

\* The conditions the type lets through: one for each column of the minimum,
\* and for others of the metadata that the table has.
Admits(type, conditions) ==
  /\ Range(type.minimum) \subseteq DOMAIN conditions
  /\ DOMAIN conditions \subseteq type.columns \cap Columns

\* ProgressiveRecord: an order names the first column and any of the rest, each
\* in either direction.
AdmitsOrder(type, keys) ==
  keys # <<>> => /\ type.columnsOrder # <<>>
                 /\ Head(type.columnsOrder) \in Range(keys)
                 /\ Range(keys) \subseteq Range(type.columnsOrder)

\* The keys in the order the program wrote them.
SortedAsWritten(options, keys) == keys

\* The columns of ORDER BY, in the order of the index, each with its direction.
Sorted(options, keys) == Among(options.columnsOrder, Range(keys))

\* Without a select of its own a query selects the primary key and every
\* column of the metadata; one the table does not have is an error.
Selects(options) == Range(PrimaryKey) \cup options.columns

\* The conditions without the predicate of a partial index.
WriteWithoutPredicate(name, options, conditions, keys, directions) ==
  [index |-> name, conditions |-> conditions, predicate |-> None,
   order |-> Sorted(options, keys), directions |-> directions]

\* The predicate of a partial index is repeated beside the conditions.
WriteSelect(name, options, conditions, keys, directions) ==
  [index |-> name, conditions |-> conditions, predicate |-> options.predicate,
   order |-> Sorted(options, keys), directions |-> directions]

\* A condition is known by the values it lets through.
Satisfies(row, conditions, predicate) ==
  /\ \A c \in DOMAIN conditions : row[c] \in conditions[c]
  /\ predicate # None => IsTrueOf(predicate, row)

---------------------------------------------------------------------------

NoAnswer == [outcome |-> "none", rows |-> {}]

Init ==
  /\ declared \in {Build(d) : d \in Declarations}
  /\ generated = None /\ database = None
  /\ rows \in Contents
  /\ statement = None /\ answer = NoAnswer

\* The program is edited: under the same key another index, or none.
Declare ==
  /\ statement = None
  /\ declared' \in ({Build(d) : d \in Declarations} \cup {None}) \ {declared}
  /\ answer' = NoAnswer
  /\ UNCHANGED <<generated, database, rows, statement>>

\* The build step; an index that is gone leaves no metadata.
Generate ==
  /\ statement = None
  /\ generated' = IF declared = None THEN None ELSE MetadataObject(declared)
  /\ answer' = NoAnswer
  /\ UNCHANGED <<declared, database, rows, statement>>

\* The migrations run: the database has what is declared.
Migrate ==
  /\ statement = None
  /\ database' = declared /\ answer' = NoAnswer
  /\ UNCHANGED <<declared, generated, rows, statement>>

ConditionSets ==
  UNION {[columns -> SUBSET Values \ {{}}] : columns \in SUBSET Columns}

\* The keys of an orderBy object, as the program wrote them.
Orders == {keys \in SeqOf(Columns, MaxKeys) : IsInjective(keys)}

Directions(keys) == [Range(keys) -> {"asc", "desc"}]

\* where(), orderBy() and an await.
Ask(minimum, conditions, keys, directions) ==
  LET options == OptionsFromMetadata(minimum)
  IN  /\ statement = None /\ answer = NoAnswer
      /\ declared # None /\ generated # None
      /\ Admits(options, conditions) /\ AdmitsOrder(MetadataType(generated), keys)
      /\ IF Selects(options) \subseteq Columns
         THEN /\ statement' = WriteSelect(declared.name, options, conditions, keys,
                                          directions)
              /\ UNCHANGED answer
         ELSE /\ answer' = [NoAnswer EXCEPT !.outcome = "thrown"]
              /\ UNCHANGED statement
      /\ UNCHANGED <<declared, generated, database, rows>>

\* Before the build step has run nothing is known of the index.
AskUnknown ==
  /\ statement = None /\ answer = NoAnswer
  /\ declared # None /\ generated = None
  /\ answer' = [NoAnswer EXCEPT !.outcome = "thrown"]
  /\ UNCHANGED <<declared, generated, database, rows, statement>>

AskByPrimaryKey(conditions) ==
  /\ statement = None /\ answer = NoAnswer
  /\ Admits(OptionsOfPrimaryKey, conditions)
  /\ statement' = WriteSelect("primaryKey", OptionsOfPrimaryKey, conditions, <<>>, <<>>)
  /\ UNCHANGED <<declared, generated, database, rows, answer>>

\* The query names its index, and the database holds it to the index.
HasIndex ==
  \/ statement.index = "primaryKey"
  \/ database # None /\ database.name = statement.index

Selected == {r \in rows : Satisfies(r, statement.conditions, statement.predicate)}

IsCovered ==
  statement.index # "primaryKey" /\ database.where # None =>
    \A r \in AllRows :
      Satisfies(r, statement.conditions, statement.predicate) => IsTrueOf(database.where, r)

Answer ==
  /\ statement # None /\ HasIndex /\ IsCovered
  /\ answer' = [outcome |-> "rows", rows |-> Selected]
  /\ statement' = None
  /\ UNCHANGED <<declared, generated, database, rows>>

\* An index that is not there, or one with a predicate that the conditions do
\* not repeat: the database need not see that they imply it.
Refuse ==
  /\ statement # None
  /\ \/ ~HasIndex
     \/ /\ statement.index # "primaryKey" /\ HasIndex
        /\ database.where # None /\ database.where # statement.predicate
  /\ answer' = [NoAnswer EXCEPT !.outcome = "refused"]
  /\ statement' = None
  /\ UNCHANGED <<declared, generated, database, rows>>

Next ==
  \/ Declare \/ Generate \/ Migrate
  \/ \E minimum \in Minimums, conditions \in ConditionSets, keys \in Orders :
       \E directions \in Directions(keys) : Ask(minimum, conditions, keys, directions)
  \/ AskUnknown
  \/ \E conditions \in ConditionSets : AskByPrimaryKey(conditions)
  \/ Answer \/ Refuse

Spec == Init /\ [][Next]_vars

---------------------------------------------------------------------------

\* The file, the database and the program are of one declaration, and the
\* index is of columns only, none of them called like a word of SQL.
IsUpToDate ==
  /\ declared # None /\ database = declared
  /\ generated # None /\ generated = MetadataObject(declared)

IsOfColumns ==
  \A i \in 1..Len(declared.parts) :
    LET words == declared.parts[i].words
    IN  Len(words) = 1 /\ words[1] \in Columns \ SqlKeywords

RowsAskedFor(predicate) == {r \in rows : Satisfies(r, statement.conditions, predicate)}

IsSentToIndex ==
  statement = None /\ statement' # None /\ statement'.index = declared.name

\* The program overrides the minimum of a query, if it does, with columns among
\* which is the one the index starts with.
KeepsFirst ==
  \A m \in Minimums \ {None} : declared.parts[1].words[1] \in Range(m)

IsAnsweredByIndex ==
  /\ statement # None /\ statement' = None
  /\ statement.index # "primaryKey" /\ answer'.outcome = "rows"

(***************************************************************************)
(* With everything up to date, a query that the generated type lets        *)
(* through is answered: it fixes the column the index starts with, unless  *)
(* the program overrides the minimum by others; the database can hold it   *)
(* to the index, a partial one too, and it gives the rows of the           *)
(* conditions that the index has.                                          *)
(***************************************************************************)
UpToDateIsServed ==
  [][(IsUpToDate /\ IsOfColumns) =>
       /\ answer'.outcome \notin {"thrown", "refused"} \/ answer' = answer
       /\ IsSentToIndex /\ KeepsFirst =>
            declared.parts[1].words[1] \in DOMAIN statement'.conditions
       /\ IsAnsweredByIndex => answer'.rows = RowsAskedFor(declared.where)]_vars

(***************************************************************************)
(* The database may lag behind, or be ahead: without the index, with its   *)
(* columns or its predicate of another declaration.  As long as the file   *)
(* has the declared predicate, a query is refused or gives the rows of the *)
(* conditions and that predicate, never more and never fewer.              *)
(***************************************************************************)
DatabaseDriftIsLoud ==
  [][(IsAnsweredByIndex /\ generated.predicate = declared.where) =>
       answer'.rows = RowsAskedFor(declared.where)]_vars

\* The place of a column among the index's, by the declaration: the first part
\* that names it.
PlaceOf(c) ==
  CHOOSE i \in 1..Len(declared.parts) :
    /\ c \in Range(declared.parts[i].words)
    /\ \A j \in 1..i - 1 : c \notin Range(declared.parts[j].words)

\* A column that the conditions leave one value.
Fixed == {c \in DOMAIN statement.conditions : Cardinality(statement.conditions[c]) = 1}

ColumnsBefore(c) == {declared.parts[i].words[1] : i \in 1..PlaceOf(c) - 1}

\* The database can read rows in this order off the index, from its start or
\* from its end: but for columns fixed by the conditions, the order goes through
\* the columns of the index from the first one on, none left out, in their
\* directions or all in the opposite ones.
IsReadOff(order) ==
  \E backwards \in BOOLEAN : \A j \in 1..Len(order) :
    LET c == order[j]
    IN  c \notin Fixed =>
          /\ (statement.directions[c] = "asc") <=>
               (declared.ascending[PlaceOf(c)] # backwards)
          /\ \A b \in ColumnsBefore(c) \ Fixed : \E i \in 1..j - 1 : order[i] = b

Arrangements(order) ==
  {q \in [1..Len(order) -> Range(order)] : Range(q) = Range(order)}

(***************************************************************************)
(* orderBy "must follow index column order" (index-query-builder.ts:696),  *)
(* but its columns come as the keys of an object, in any order.  If the    *)
(* database can read these columns, in these directions, off the index in  *)
(* any order of them, it can in the one that is sent, and need not sort.   *)
(* What no order of the columns mends is the program's to avoid, and the   *)
(* type lets it through: a column of the index left out before one that is *)
(* asked for, unless the conditions fix it, and directions that are        *)
(* neither those of the index nor the opposite ones.                       *)
(***************************************************************************)
OrderIsOfTheIndex ==
  (IsUpToDate /\ IsOfColumns /\ statement # None /\ statement.index # "primaryKey") =>
    \A q \in Arrangements(statement.order) : IsReadOff(q) => IsReadOff(statement.order)
=============================================================================
