------------------------------ MODULE Migrations -------------------------------
(***************************************************************************)
(* generateMigrations and extractConstraints: the statements of a          *)
(* migration, how to undo them, and what they take for granted.  A step is *)
(* an up statement with the down statement that undoes it, if there is one; *)
(* up is run in the order of the steps and down in reverse.                *)
(***************************************************************************)
EXTENDS SchemaDiff

Step(up, down) == [up |-> up, down |-> <<down>>]

(* createDataType, which reads other type names than convertDbTypeToDataType.  *)
Recreate == [k \in DbKind |->
  CASE k = "timestamptz" -> "timestamp"
    [] k \in {"smallint", "uuid"} -> "unknown"
    [] OTHER -> k]

Plain(k, b) == [kind |-> k, nullable |-> b, default |-> None, computed |-> None]

AddColumn(c, d) == Step(AddColumnSql(c, d), DropColumnSql(c))

(* Of the column dropped, type and nullability are remembered.                 *)
DropColumn(c, e) ==
  Step(DropColumnSql(c), AddColumnSql(c, Plain(Recreate[e.kind], e.nullable)))

(* A new expression: the column is dropped and added, with what the diff says  *)
(* of it; what did not change is taken to be VARCHAR, NOT NULL, no default.    *)
RecreateColumn(c, d, e) ==
  LET kinds == TypeDiffers(d, e)
      nulls == NullDiffers(d, e)
  IN  << Step(DropColumnSql(c),
              AddColumnSql(c, Plain(IF kinds THEN Convert[e.kind] ELSE "varchar",
                                    nulls /\ e.nullable))),
         AddColumn(c, [kind |-> IF kinds THEN d.kind ELSE "varchar",
                       nullable |-> nulls /\ d.nullable,
                       default |-> IF DefaultDiffers(d, e) THEN d.default ELSE None,
                       computed |-> d.computed]) >>

(* Mutant: one change of a column at a time.                                   *)
ModifyColumnOnce(c, d, e) ==
  IF TypeDiffers(d, e)
  THEN <<Step(SetTypeSql(c, d.kind), SetTypeSql(c, Convert[e.kind]))>>
  ELSE IF NullDiffers(d, e)
  THEN <<Step(SetNullSql(c, d.nullable), SetNullSql(c, e.nullable))>>
  ELSE IF ComputedDiffers(d, e) /\ d.computed # None
  THEN RecreateColumn(c, d, e) ELSE <<>>

(* Mutant: DROP NOT NULL and SET NOT NULL the wrong way round.                 *)
ModifyColumnSwapped(c, d, e) ==
     (IF TypeDiffers(d, e)
      THEN <<Step(SetTypeSql(c, d.kind), SetTypeSql(c, Convert[e.kind]))>> ELSE <<>>)
  \o (IF NullDiffers(d, e)
      THEN <<Step(SetNullSql(c, e.nullable), SetNullSql(c, d.nullable))>> ELSE <<>>)
  \o (IF ComputedDiffers(d, e) /\ d.computed # None
      THEN RecreateColumn(c, d, e) ELSE <<>>)

(* A changed default, or an expression that is gone, is reported and left.     *)
ModifyColumn(c, d, e) ==
     (IF TypeDiffers(d, e)
      THEN <<Step(SetTypeSql(c, d.kind), SetTypeSql(c, Convert[e.kind]))>> ELSE <<>>)
  \o (IF NullDiffers(d, e)
      THEN <<Step(SetNullSql(c, d.nullable), SetNullSql(c, e.nullable))>> ELSE <<>>)
  \o (IF ComputedDiffers(d, e) /\ d.computed # None
      THEN RecreateColumn(c, d, e) ELSE <<>>)

(* The steps for each element of a set, one after the other.                   *)
InOrder(steps) ==
  LET q == SetToSeq(DOMAIN steps) IN FlattenSeq([j \in 1 .. Len(q) |-> steps[q[j]]])

ColumnSteps(s, o, n) ==
  IF ~ IntrospectsColumns(o) THEN <<>>
  ELSE InOrder([c \in ExtraColumns(s, n) |-> <<DropColumn(c, n.columns[c])>>])
    \o InOrder([c \in MissingColumns(s, o, n) |-> <<AddColumn(c, s.columns[c])>>])
    \o InOrder([c \in ModifiedColumns(s, o, n) |->
                  ModifyColumn(c, s.columns[c], n.columns[c])])

(* Whatever the options enforce.                                               *)
KeySteps(s, n) ==
  IF KeyDiffers(s, n) THEN <<Step(AlterKeySql(s.primaryKey), AlterKeySql(n.key))>>
  ELSE <<>>

(* Mutant: up and down of a missing index the wrong way round.                 *)
CreateIndexSwapped(i, d) == Step(DropIndexSql(i), CreateIndexSql(i, d, TRUE))

(* An index that is dropped comes back with its columns and uniqueness, its    *)
(* expressions without the quotes that the introspection removed.              *)
CreateIndex(i, d) == Step(CreateIndexSql(i, d, TRUE), DropIndexSql(i))
DropIndex(i, d) ==
  Step(DropIndexSql(i), CreateIndexSql(i, [d EXCEPT !.rest = FALSE], FALSE))

IndexSteps(s, o, n) ==
  IF ~ IntrospectsIndexes(o) THEN <<>>
  ELSE InOrder([i \in MissingIndexes(s, o, n) |-> <<CreateIndex(i, s.indexes[i])>>])
    \o InOrder([i \in ExtraIndexes(s, o, n) |-> <<DropIndex(i, n.indexes[i])>>])

(* Mutant: indexes first.                                                      *)
AlterStepsIndexesFirst(s, o, n) ==
  IndexSteps(s, o, n) \o ColumnSteps(s, o, n) \o KeySteps(s, n)

AlterSteps(s, o, n) ==
  ColumnSteps(s, o, n) \o KeySteps(s, n) \o IndexSteps(s, o, n)

(* A table that is missing: it is created with its indexes, and dropping it    *)
(* undoes all of that.                                                         *)
CreateSteps(s, o) ==
  <<Step(CreateTableSql(s), DropTableSql)>>
  \o (IF IntrospectsIndexes(o)
      THEN InOrder([i \in Has(s.indexes) |->
             <<[up |-> CreateIndexSql(i, s.indexes[i], TRUE), down |-> <<>>]>>])
      ELSE <<>>)

Steps(s, o, n) ==
  IF ~ o.on THEN <<>>
  ELSE IF n.exists THEN AlterSteps(s, o, n) ELSE CreateSteps(s, o)

(* Mutant: down in the order of up.                                            *)
DownsInOrder(steps) == FlattenSeq([j \in 1 .. Len(steps) |-> steps[j].down])

Ups(steps)   == [j \in 1 .. Len(steps) |-> steps[j].up]
Downs(steps) == FlattenSeq(Reverse([j \in 1 .. Len(steps) |-> steps[j].down]))

(* A type createDataType does not know, and an array whose elements it made    *)
(* nullable along with the column, cannot be written.                          *)
Unwritable(st) ==
  /\ st.op = "ADD COLUMN"
  /\ \/ st.def.kind = "unknown"
     \/ st.def.kind = "array" /\ st.def.nullable

(* Mutant: a type that is not known is written as it is.                       *)
GenerateThrowsNever(steps) == FALSE

GenerateThrows(steps) ==
  \E j \in 1 .. Len(steps) :
    Unwritable(steps[j].up) \/ \E st \in ToSet(steps[j].down) : Unwritable(st)

--------------------------------------------------------------------------------
(* Mutant: the nullability the column is to have.                              *)
ColumnConstraintsAfter(s, o, n) ==
  LET key      == IF KeyDiffers(s, n) THEN n.key ELSE {}
      modified == {c \in ModifiedColumns(s, o, n) : TypeDiffers(s.columns[c], n.columns[c])}
      Of(c)    == LET e == n.columns[c] IN
        CASE c \in key -> [kind |-> "unknown", nullable |-> FALSE]
          [] c \in ExtraColumns(s, n) \ key ->
               [kind |-> e.kind, nullable |-> e.nullable]
          [] OTHER -> [kind |-> Convert[e.kind],
                       nullable |-> s.columns[c].nullable]
  IN  IF o.on /\ n.exists
      THEN [c \in key \cup modified \cup ExtraColumns(s, n) |-> Of(c)]
      ELSE [c \in {} |-> None]

(* The constraints written into the migration: columns and indexes that must   *)
(* be there, for existing tables.                                              *)
ColumnConstraints(s, o, n) ==
  LET key      == IF KeyDiffers(s, n) THEN n.key ELSE {}
      modified == {c \in ModifiedColumns(s, o, n) : TypeDiffers(s.columns[c], n.columns[c])}
      Of(c)    == LET e == n.columns[c] IN
        CASE c \in key -> [kind |-> "unknown", nullable |-> FALSE]
          [] c \in ExtraColumns(s, n) \ key ->
               [kind |-> e.kind, nullable |-> e.nullable]
          [] OTHER -> [kind |-> Convert[e.kind],
                       nullable |-> NullDiffers(s.columns[c], e) /\ e.nullable]
  IN  IF o.on /\ n.exists
      THEN [c \in key \cup modified \cup ExtraColumns(s, n) |-> Of(c)]
      ELSE [c \in {} |-> None]

IndexConstraints(s, o, n) ==
  IF o.on /\ n.exists THEN ExtraIndexes(s, o, n) ELSE {}
================================================================================
