------------------------------ MODULE SchemaDiff -------------------------------
(***************************************************************************)
(* diffSchemas: what separates the table a schema declares from what the   *)
(* introspection saw of the table in the database.                         *)
(*   s  the declared table            (TableBase)                          *)
(*   o  its introspection options     (TableIntrospectOptions)             *)
(*   n  the snapshot of the database  (FastTable)                          *)
(***************************************************************************)
EXTENDS Catalog

(* on: was introspect() called on the table?                                   *)
Options == [on : BOOLEAN,
            columns : {"enforce", "warn", "ignore"},
            indexes : {"enforce", "warn", "ignore"},
            additive : BOOLEAN,
            ignoreColumns : SUBSET Column,
            ignoreIndexes : SUBSET Index]

(* key is empty when there is no CREATE TABLE statement to read it from.       *)
Snapshot == [exists : BOOLEAN,
             columns : [Column -> ColumnDef \cup {None}],
             indexes : [Index -> IndexDef \cup {None}],
             key : SUBSET Column]

NoColumns == [c \in Column |-> None]
NoIndexes == [i \in Index |-> None]

IntrospectsColumns(o) == o.on /\ o.columns = "enforce"
IntrospectsIndexes(o) == o.on /\ o.indexes # "ignore"

IgnoresColumn(o, c) == o.columns = "ignore" \/ c \in o.ignoreColumns
IgnoresIndex(o, i)  == o.indexes = "ignore" \/ i \in o.ignoreIndexes

(* convertDbTypeToDataType, which throws for the types it does not know.       *)
Convert == [k \in DbKind |->
  CASE k = "smallint" -> "int"
    [] k \in {"timestamptz", "uuid"} -> "unknown"
    [] OTHER -> k]

(* The differences of compareColumns: d declared, e in the database.           *)
TypeDiffers(d, e)     == d.kind # Convert[e.kind]
NullDiffers(d, e)     == d.nullable # e.nullable
DefaultDiffers(d, e)  == d.default # e.default
ComputedDiffers(d, e) == d.computed # e.computed

(* The columns the diff reports.  Patterns protect declared columns only.      *)
Compared(s, o, n) ==
  {c \in Has(s.columns) : n.columns[c] # None /\ ~ IgnoresColumn(o, c)}
MissingColumns(s, o, n) ==
  {c \in Has(s.columns) : n.columns[c] = None /\ ~ IgnoresColumn(o, c)}
ExtraColumns(s, n) == Has(n.columns) \ Has(s.columns)
ModifiedColumns(s, o, n) ==
  {c \in Compared(s, o, n) :
     LET d == s.columns[c]
         e == n.columns[c]
     IN  TypeDiffers(d, e) \/ NullDiffers(d, e) \/ DefaultDiffers(d, e)
           \/ ComputedDiffers(d, e)}

(* The indexes the diff reports.                                               *)
MissingIndexes(s, o, n) ==
  {i \in Has(s.indexes) : n.indexes[i] = None /\ ~ IgnoresIndex(o, i)}

(* Mutant: the patterns are not asked about the indexes of the database.       *)
ExtraIndexesUnfiltered(s, o, n) ==
  IF o.additive THEN {} ELSE Has(n.indexes) \ Has(s.indexes)

ExtraIndexes(s, o, n) ==
  IF o.additive THEN {}
  ELSE {i \in Has(n.indexes) \ Has(s.indexes) : ~ IgnoresIndex(o, i)}

KeyDiffers(s, n) == s.primaryKey = {} \/ s.primaryKey # n.key

(* An unknown type of a declared column, or an index whose expressions or      *)
(* uniqueness changed, ends the diff with an error.                            *)
DiffThrows(s, o, n) ==
  \/ \E c \in Compared(s, o, n) : Convert[n.columns[c].kind] = "unknown"
  \/ \E i \in Has(s.indexes) \cap Has(n.indexes) :
       /\ ~ IgnoresIndex(o, i)
       /\ \/ s.indexes[i].on # n.indexes[i].on
          \/ s.indexes[i].unique # n.indexes[i].unique

Differs(s, o, n) ==
  /\ o.on
  /\ \/ ~ n.exists
     \/ MissingColumns(s, o, n) # {} \/ ExtraColumns(s, n) # {}
     \/ ModifiedColumns(s, o, n) # {}
     \/ MissingIndexes(s, o, n) # {} \/ ExtraIndexes(s, o, n) # {}
     \/ KeyDiffers(s, n)
================================================================================
