-------------------------------- MODULE Catalog --------------------------------
(***************************************************************************)
(* What the schema tools work on: the definition of a table, the          *)
(* statements migrations are made of, and what the database makes of them. *)
(* Tables are diffed and migrated one by one, so one table is modelled.    *)
(* The database is CockroachDB, for which the statements are written; it   *)
(* is not part of the repository.                                          *)
(***************************************************************************)
EXTENDS Naturals, Sequences, FiniteSets, SequencesExt

CONSTANTS
  Column,     \* column names
  Index,      \* index names
  Text,       \* texts of defaults and computed expressions
  Rendered,   \* the text the database shows for a text it was given
  Quoted,     \* column names that mean something else without quotes
  KeptIndex,  \* the name under which a replaced primary key lives on
  None,       \* no such column, index, default, expression or table
  Failed      \* the result of a migration the database refused

ASSUME CatalogAssumption ==
  /\ Rendered \in [Text -> Text]
  /\ Quoted \subseteq Column
  /\ KeptIndex \in [SUBSET Column -> Index]
  /\ IsFiniteSet(Column) /\ IsFiniteSet(Index)
  /\ None \notin Text /\ None # Failed

(* The data types a schema declares, and others a database column may have;    *)
(* each stands for the type names that are treated alike.                      *)
SchemaKind == {"varchar", "int", "timestamp", "array"}
DbKind     == SchemaKind \cup {"smallint", "timestamptz", "uuid"}

ColumnDef == [kind : DbKind, nullable : BOOLEAN,
              default : Text \cup {None}, computed : Text \cup {None}]

(* on: the columns of the expressions; rest: has it a WHERE clause, STORING     *)
(* columns, a direction or a method?                                           *)
IndexDef == [on : SUBSET Column, unique : BOOLEAN, rest : BOOLEAN]

Table == [columns : [Column -> ColumnDef \cup {None}],
          indexes : [Index -> IndexDef \cup {None}],
          primaryKey : SUBSET Column]

ASSUME SentinelAssumption ==
  None \notin ColumnDef \cup IndexDef \cup Table /\ Failed \notin Table

Has(f) == {x \in DOMAIN f : f[x] # None}

(* What the database sees to.                                                  *)
IsSound(t) ==
  /\ \A c \in t.primaryKey : t.columns[c] # None /\ ~ t.columns[c].nullable
  /\ \A i \in Has(t.indexes) : t.indexes[i].on \subseteq Has(t.columns)

--------------------------------------------------------------------------------
(* Statements.                                                                 *)

CreateTableSql(s)   == [op |-> "CREATE TABLE", columns |-> s.columns, key |-> s.primaryKey]
DropTableSql        == [op |-> "DROP TABLE"]
AddColumnSql(c, d)  == [op |-> "ADD COLUMN", column |-> c, def |-> d]
DropColumnSql(c)    == [op |-> "DROP COLUMN", column |-> c]
SetTypeSql(c, k)    == [op |-> "SET DATA TYPE", column |-> c, kind |-> k]
SetNullSql(c, b)    == [op |-> "SET NULLABLE", column |-> c, nullable |-> b]
AlterKeySql(cs)     == [op |-> "ALTER PRIMARY KEY", columns |-> cs]
DropIndexSql(i)     == [op |-> "DROP INDEX", index |-> i]
CreateIndexSql(i, d, quotes) ==
  [op |-> "CREATE INDEX", index |-> i, def |-> d, quotes |-> quotes]

(* One that names nothing but what a table can have.                           *)
IsStatement(st) ==
  \/ /\ st.op = "CREATE TABLE" /\ st.key \subseteq Column
     /\ st.columns \in [Column -> ColumnDef \cup {None}]
  \/ st.op = "DROP TABLE"
  \/ st.op = "ADD COLUMN" /\ st.column \in Column /\ st.def \in ColumnDef
  \/ st.op = "DROP COLUMN" /\ st.column \in Column
  \/ st.op = "SET DATA TYPE" /\ st.column \in Column /\ st.kind \in DbKind
  \/ st.op = "SET NULLABLE" /\ st.column \in Column /\ st.nullable \in BOOLEAN
  \/ st.op = "ALTER PRIMARY KEY" /\ st.columns \subseteq Column
  \/ st.op = "DROP INDEX" /\ st.index \in Index
  \/ st.op = "CREATE INDEX" /\ st.index \in Index /\ st.def \in IndexDef

--------------------------------------------------------------------------------
(* The database.                                                               *)

(* It keeps its own rendering of the texts it is given.                        *)
Show(x)   == IF x = None THEN None ELSE Rendered[x]
Stored(d) == [d EXCEPT !.default = Show(@), !.computed = Show(@)]

(* The definition CREATE TABLE writes for a computed column is its expression  *)
(* only: no NOT NULL, no default; the type follows from the expression.  The   *)
(* columns of a key are NOT NULL, whatever is written.                         *)
Created(d, inKey) ==
  IF d = None THEN None
  ELSE IF d.computed = None THEN Stored([d EXCEPT !.nullable = @ /\ ~ inKey])
  ELSE Stored([d EXCEPT !.nullable = ~ inKey, !.default = None])

(* Can the statement be executed on table t?  Rows that do not fit a new type  *)
(* or constraint are not modelled.                                             *)
Accepts(t, st) ==
  \/ st.op = "CREATE TABLE" /\ t = None /\ st.key \subseteq Has(st.columns)
  \/ /\ t # None
     /\ \/ st.op = "DROP TABLE"
        \/ /\ st.op = "ADD COLUMN" /\ t.columns[st.column] = None
           /\ st.def.default = None \/ st.def.computed = None
        \/ st.op = "DROP COLUMN" /\ st.column \in Has(t.columns) \ t.primaryKey
        \/ /\ st.op = "SET DATA TYPE" /\ st.column \in Has(t.columns)
           /\ st.kind # "array"          \* "array" names no element type
        \/ /\ st.op = "SET NULLABLE" /\ st.column \in Has(t.columns)
           /\ st.nullable => st.column \notin t.primaryKey
        \/ /\ st.op = "ALTER PRIMARY KEY"
           /\ st.columns # {} /\ st.columns \subseteq Has(t.columns)
           /\ \A c \in st.columns : ~ t.columns[c].nullable
        \/ /\ st.op = "CREATE INDEX" /\ t.indexes[st.index] = None
           /\ st.def.on \subseteq Has(t.columns)
           /\ st.quotes \/ st.def.on \cap Quoted = {}
        \/ st.op = "DROP INDEX" /\ st.index \in Has(t.indexes)

(* Dropping a column drops the indexes on it.                                  *)
WithoutColumn(t, c) ==
  [columns |-> [t.columns EXCEPT ![c] = None],
   indexes |-> [i \in Index |->
     IF t.indexes[i] # None /\ c \in t.indexes[i].on THEN None ELSE t.indexes[i]],
   primaryKey |-> t.primaryKey]

(* ALTER PRIMARY KEY keeps the old key as a unique index.                      *)
WithKey(t, cs) ==
  [columns |-> t.columns,
   indexes |-> [i \in Index |->
     IF cs # t.primaryKey /\ i = KeptIndex[t.primaryKey] /\ t.indexes[i] = None
     THEN [on |-> t.primaryKey, unique |-> TRUE, rest |-> FALSE] ELSE t.indexes[i]],
   primaryKey |-> cs]

(* The table after an accepted statement.                                      *)
After(t, st) ==
  CASE st.op = "CREATE TABLE" ->
         [columns |-> [c \in Column |-> Created(st.columns[c], c \in st.key)],
          indexes |-> [i \in Index |-> None],
          primaryKey |-> st.key]
    [] st.op = "DROP TABLE"        -> None
    [] st.op = "ADD COLUMN"        -> [t EXCEPT !.columns[st.column] = Stored(st.def)]
    [] st.op = "DROP COLUMN"       -> WithoutColumn(t, st.column)
    [] st.op = "SET DATA TYPE"     -> [t EXCEPT !.columns[st.column].kind = st.kind]
    [] st.op = "SET NULLABLE"      -> [t EXCEPT !.columns[st.column].nullable = st.nullable]
    [] st.op = "ALTER PRIMARY KEY" -> WithKey(t, st.columns)
    [] st.op = "CREATE INDEX"      -> [t EXCEPT !.indexes[st.index] = st.def]
    [] st.op = "DROP INDEX"        -> [t EXCEPT !.indexes[st.index] = None]

(* A migration runs in one transaction: all of its statements, or none.        *)
Do(t, st) == IF t # Failed /\ Accepts(t, st) THEN After(t, st) ELSE Failed

Course(t, statements) ==
  LET after[n \in 0 .. Len(statements)] ==
        IF n = 0 THEN t ELSE Do(after[n - 1], statements[n])
  IN after

Execute(t, statements) == Course(t, statements)[Len(statements)]
================================================================================
