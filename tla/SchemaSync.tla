------------------------------ MODULE SchemaSync -------------------------------
(***************************************************************************)
(* qb generate and the migrations it writes: a developer keeps the table   *)
(* of a database in step with the declared one, while other actors change  *)
(* the table too.  The introspection reads it with three queries outside   *)
(* of any transaction.                                                     *)
(***************************************************************************)
EXTENDS Migrations

CONSTANTS
  Configurations, \* declared tables with their introspection options
  Tables,         \* what the database holds at first
  Foreign,        \* statements other actors execute
  MaxForeign,     \* how many of them
  MaxUnread       \* how often SHOW CREATE TABLE may fail

(* A declared table is one the database could hold: the types ask for a key,   *)
(* of declared columns as those of the indexes are, and give columns the data  *)
(* types there are; that key columns are NOT NULL, that no column has both a   *)
(* default and a computed expression, and that no index has a name the         *)
(* database makes up, is up to the developer.                                  *)
IsDeclarable(s) ==
  /\ IsSound(s) /\ s.primaryKey # {}
  /\ \A c \in Has(s.columns) :
       /\ s.columns[c].kind \in SchemaKind
       /\ s.columns[c].default = None \/ s.columns[c].computed = None
  /\ \A i \in Has(s.indexes) : \A cs \in SUBSET Column : KeptIndex[cs] # i

ASSUME SyncAssumption ==
  /\ Configurations \subseteq [schema : Table, options : Options]
  /\ \A f \in Configurations : IsDeclarable(f.schema)
  /\ \A st \in Foreign : IsStatement(st)
  /\ Tables \subseteq Table \cup {None} /\ \A t \in Tables \ {None} : IsSound(t)
  /\ MaxForeign \in Nat /\ MaxUnread \in Nat

VARIABLES
  schema,    \* the declared table
  options,   \* its introspection options
  db,        \* the table of the database
  phase,     \* where the developer's tool stands
  snap,      \* what the introspection has read
  migration, \* the migration file written last
  source,    \* the table the migration was generated for
  drifted,   \* has another actor changed the table since the first query?
  unread,    \* has SHOW CREATE TABLE failed for this snapshot?
  foreign,   \* statements of other actors so far
  failures   \* failures of SHOW CREATE TABLE so far

vars == <<schema, options, db, phase, snap, migration, source, drifted, unread,
          foreign, failures>>

Phase ==
  {"idle",      \* nothing under way
   "tables",    \* the tables have been listed
   "columns",   \* and the columns
   "ready",     \* and the CREATE TABLE statement, if it is needed
   "error",     \* qb generate ended with an error
   "quiet",     \* qb generate wrote no migration
   "written",   \* qb generate wrote a migration
   "applied",   \* up has been run
   "failed",    \* up was refused by the database
   "reverted",  \* down has been run
   "stuck"}     \* down was refused by the database

Unseen == [exists |-> FALSE, columns |-> NoColumns, indexes |-> NoIndexes, key |-> {}]
NoMigration == [up |-> <<>>, down |-> <<>>]

TypeOK ==
  /\ [schema |-> schema, options |-> options] \in Configurations
  /\ db \in Table \cup {None}
  /\ phase \in Phase
  /\ snap \in Snapshot
  /\ \A st \in ToSet(migration.up) \cup ToSet(migration.down) : IsStatement(st)
  /\ source \in Table \cup {None}
  /\ drifted \in BOOLEAN /\ unread \in BOOLEAN
  /\ foreign \in 0 .. MaxForeign
  /\ failures \in 0 .. MaxUnread

Init ==
  /\ \E f \in Configurations : schema = f.schema /\ options = f.options
  /\ db \in Tables
  /\ phase = "idle"
  /\ snap = Unseen
  /\ migration = NoMigration
  /\ source = None
  /\ drifted = FALSE /\ unread = FALSE
  /\ foreign = 0 /\ failures = 0

--------------------------------------------------------------------------------
(* The introspection.                                                          *)

Reading == {"tables", "columns", "ready"}

(* Mutant: what the last run has read is not forgotten.                         *)
ReadTablesKeepsSnapshot ==
  /\ phase \notin Reading \cup {"written"}
  /\ phase' = "tables"
  /\ snap' = [snap EXCEPT !.exists = db # None]
  /\ drifted' = FALSE /\ unread' = FALSE
  /\ UNCHANGED <<schema, options, db, migration, source, foreign, failures>>

ReadTables ==
  /\ phase \notin Reading \cup {"written"}
  /\ phase' = "tables"
  /\ snap' = [Unseen EXCEPT !.exists = db # None]
  /\ drifted' = FALSE /\ unread' = FALSE
  /\ UNCHANGED <<schema, options, db, migration, source, foreign, failures>>

(* Columns are read for all tables when one of the tables enforces them.       *)
ReadColumns ==
  /\ phase = "tables"
  /\ phase' = "columns"
  /\ \E needed \in {IntrospectsColumns(options), TRUE} :
       snap' = [snap EXCEPT !.columns =
                  IF needed /\ db # None THEN db.columns ELSE NoColumns]
  /\ UNCHANGED <<schema, options, db, migration, source, drifted, unread,
                 foreign, failures>>

(* Only for tables that were listed and whose indexes are introspected.        *)
ReadsCreateStatement == snap.exists /\ IntrospectsIndexes(options)

ReadCreateStatement ==
  /\ phase = "columns"
  /\ phase' = "ready"
  /\ snap' = IF ReadsCreateStatement /\ db # None
             THEN [snap EXCEPT !.indexes = db.indexes, !.key = db.primaryKey]
             ELSE snap
  /\ UNCHANGED <<schema, options, db, migration, source, drifted, unread,
                 foreign, failures>>

(* The query fails: a warning is printed, and the run goes on without.         *)
CreateStatementUnread ==
  /\ phase = "columns"
  /\ ReadsCreateStatement
  /\ failures < MaxUnread
  /\ failures' = failures + 1
  /\ unread' = TRUE
  /\ phase' = "ready"
  /\ UNCHANGED <<schema, options, db, snap, migration, source, drifted, foreign>>

--------------------------------------------------------------------------------
(* The migration.                                                              *)

(* diffSchemas, generateMigrations, extractConstraints, and the file written   *)
(* when there are statements.                                                  *)
Throws ==
  /\ options.on /\ snap.exists
  /\ DiffThrows(schema, options, snap) \/ GenerateThrows(Steps(schema, options, snap))

MigrationOf(steps) == [up |-> Ups(steps), down |-> Downs(steps)]

Generate ==
  LET steps == Steps(schema, options, snap)
  IN  /\ phase = "ready"
      /\ source' = db
      /\ \/ Throws /\ phase' = "error" /\ migration' = NoMigration
         \/ /\ ~ Throws
            /\ migration' = MigrationOf(steps)
            /\ phase' = IF Differs(schema, options, snap) /\ steps # <<>>
                        THEN "written" ELSE "quiet"
      /\ UNCHANGED <<schema, options, db, snap, drifted, unread, foreign, failures>>

(* The developer runs the migration.                                           *)
Up ==
  /\ phase = "written"
  /\ LET t == Execute(db, migration.up)
     IN  IF t = Failed THEN phase' = "failed" /\ db' = db
                       ELSE phase' = "applied" /\ db' = t
  /\ UNCHANGED <<schema, options, snap, migration, source, drifted, unread,
                 foreign, failures>>

Down ==
  /\ phase = "applied"
  /\ LET t == Execute(db, migration.down)
     IN  IF t = Failed THEN phase' = "stuck" /\ db' = db
                       ELSE phase' = "reverted" /\ db' = t
  /\ UNCHANGED <<schema, options, snap, migration, source, drifted, unread,
                 foreign, failures>>

(* Another actor changes the table, at any time.                               *)
Drift ==
  /\ foreign < MaxForeign
  /\ foreign' = foreign + 1
  /\ \E st \in Foreign : Accepts(db, st) /\ db' = After(db, st)
  /\ drifted' = TRUE
  /\ UNCHANGED <<schema, options, phase, snap, migration, source, unread, failures>>

Tool == ReadTables \/ ReadColumns \/ ReadCreateStatement \/ Generate \/ Up
Next == Tool \/ CreateStatementUnread \/ Down \/ Drift

Spec == Init /\ [][Next]_vars
--------------------------------------------------------------------------------
(* Correctness.                                                                *)

(* The snapshot describes the table the migration is for.                      *)
Fresh == ~ drifted /\ ~ unread

Statements(op) == {migration.up[j] : j \in {k \in 1 .. Len(migration.up) :
                                             migration.up[k].op = op}}
DroppedColumns == {st.column : st \in Statements("DROP COLUMN")}
AddedColumns   == {st.column : st \in Statements("ADD COLUMN")}

(* What makes a migration fail on the very table it was generated for:         *)
(*   - it drops an index after a column the index was on, which took it along; *)
(*   - it drops a column of the old key, or makes it nullable, before the key  *)
(*     is changed;                                                             *)
(*   - it changes a type to an array;                                          *)
(*   - the declared keys and indexes need columns that the options keep out of *)
(*     the migration.                                                          *)
DropsIndexTwice ==
  \E st \in Statements("DROP INDEX") :
    source.indexes[st.index].on \cap DroppedColumns # {}
TouchesKey ==
  source.primaryKey \cap (DroppedColumns \cup
    {st.column : st \in {u \in Statements("SET NULLABLE") : u.nullable}}) # {}
NeedsArray == \E st \in Statements("SET DATA TYPE") : st.kind = "array"
Unenforced == {c \in Column : ~ IntrospectsColumns(options) \/ IgnoresColumn(options, c)}
NeedsUnenforced ==
  \E c \in Unenforced :
    /\ source.columns[c] = None \/ source.columns[c].nullable
    /\ \/ \E st \in Statements("CREATE INDEX") : c \in st.def.on
       \/ \E st \in Statements("ALTER PRIMARY KEY") : c \in st.columns

(* A migration generated from a complete snapshot can be applied to that       *)
(* table: its statements come in an order the database accepts, except in the  *)
(* four cases above.                                                           *)
UpApplies ==
  phase = "failed" /\ Fresh =>
    source # None /\ (DropsIndexTwice \/ TouchesKey \/ NeedsArray \/ NeedsUnenforced)

(* The part of a table that down restores: which columns there are, their      *)
(* types as far as the tool tells them apart, nullability, and the key.        *)
Family(k) == CASE k = "smallint" -> "int" [] k = "timestamptz" -> "timestamp" [] OTHER -> k
Outline(t) ==
  IF t = None THEN None
  ELSE [columns |-> [c \in Column |->
          IF t.columns[c] = None THEN None
          ELSE [kind |-> Family(t.columns[c].kind), nullable |-> t.columns[c].nullable]],
        primaryKey |-> t.primaryKey]

(* Down has no key to go back to, writes a column without its quotes, goes     *)
(* back to an array, or makes an index before its column is there again.       *)
Irreversible ==
  \E j \in 1 .. Len(migration.down) :
    LET st == migration.down[j]
    IN  \/ st.op = "ALTER PRIMARY KEY" /\ st.columns = {}
        \/ st.op = "SET DATA TYPE" /\ st.kind = "array"
        \/ /\ st.op = "CREATE INDEX"
           /\ \/ ~ st.quotes /\ st.def.on \cap Quoted # {}
              \/ st.def.on \cap DroppedColumns # {}

(* Down undoes up, statement by statement in reverse, as far as the tool       *)
(* remembers what was there; it is refused only in the cases above.            *)
DownUndoes ==
  Fresh =>
    /\ phase = "reverted" /\ DroppedColumns \cap AddedColumns = {}
         => Outline(db) = Outline(source)
    /\ phase = "stuck" => Irreversible

(* The constraints written into a migration are true of the table it was       *)
(* generated for: the columns and indexes are there, with these types, and a   *)
(* column said to be nullable is.  (One said to be NOT NULL need not be when   *)
(* its nullability is not part of the change.)                                 *)
ConstraintsHold ==
  LET columns == ColumnConstraints(schema, options, snap)
  IN  phase = "written" /\ Fresh =>
        /\ \A c \in DOMAIN columns :
             LET d == schema.columns[c]
                 e == db.columns[c]
             IN  /\ e # None
                 /\ columns[c].kind \in {"unknown", e.kind, Convert[e.kind]}
                 /\ \/ columns[c].nullable = e.nullable
                    \/ ~ columns[c].nullable /\ d # None /\ ~ NullDiffers(d, e)
        /\ \A i \in IndexConstraints(schema, options, snap) : db.indexes[i] # None

(* What qb generate would read now.                                            *)
SnapshotOf(t) ==
  IF t = None THEN Unseen
  ELSE [exists |-> TRUE, columns |-> t.columns,
        indexes |-> IF IntrospectsIndexes(options) THEN t.indexes ELSE NoIndexes,
        key |-> IF IntrospectsIndexes(options) THEN t.primaryKey ELSE {}]

Computes(t) == \E c \in Has(t.columns) : t.columns[c].computed # None

(* One migration is enough: run again, qb generate has nothing left to do but  *)
(* drop the index the database made of the old key.  (For tables with computed *)
(* columns, and where the key is not read, it is not.)                         *)
OneMigrationIsEnough ==
  phase = "applied" /\ Fresh /\ IntrospectsIndexes(options) /\ ~ Computes(schema) =>
    LET left == Ups(Steps(schema, options, SnapshotOf(db)))
    IN  \A j \in 1 .. Len(left) :
          source # None /\ left[j] = DropIndexSql(KeptIndex[source.primaryKey])

(* A migration leaves alone what the options keep from it: every column unless *)
(* columns are enforced; and, where indexes are only added or a pattern covers *)
(* them, every index that is not on a column dropped; whoever else changes the *)
(* table in the meantime.                                                      *)
OptionsHold ==
  [][Up /\ phase' = "applied" /\ db # None =>
       /\ ~ IntrospectsColumns(options) => db'.columns = db.columns
       /\ \A i \in Has(db.indexes) :
            /\ options.additive \/ IgnoresIndex(options, i)
            /\ db.indexes[i].on \cap DroppedColumns = {}
            => db'.indexes[i] = db.indexes[i]]_vars

(* A migration takes away nothing that is declared, and nothing its snapshot    *)
(* has not shown: what another actor adds after the table was read, and what a  *)
(* failed SHOW CREATE TABLE has hidden, is there after up, other than an index  *)
(* on a column dropped (introspect-schema.ts:267, 273).  Such a migration may   *)
(* be refused; it may not destroy.                                              *)
UnseenStays ==
  [][Up /\ phase' = "applied" /\ db # None =>
       /\ \A c \in Has(db.columns) :
            c \in Has(schema.columns) \/ snap.columns[c] = None => c \in Has(db'.columns)
       /\ \A i \in Has(db.indexes) :
            /\ i \in Has(schema.indexes) \/ snap.indexes[i] = None
            /\ db.indexes[i].on \cap DroppedColumns = {}
            => db'.indexes[i] = db.indexes[i]]_vars

(* The invariant by which they hold (the same code): a migration at hand is    *)
(* the one of the snapshot; as long as nobody else has changed the table, the  *)
(* snapshot tells it as far as the options ask, and the table is what the      *)
(* migration has made of it.                                                   *)
HasGenerated == phase \notin {"idle", "error"} \cup Reading

MigrationFits ==
  IF HasGenerated
  THEN ~ Throws /\ migration = MigrationOf(Steps(schema, options, snap))
  ELSE phase = "error" => migration = NoMigration

ColumnsFit(n, t) ==
  /\ n.exists <=> t # None
  /\ n.columns = NoColumns \/ (t # None /\ n.columns = t.columns)
  /\ t # None /\ IntrospectsColumns(options) => n.columns = t.columns

(* The snapshot of a table read in full.                                       *)
Describes(n, t) ==
  /\ ColumnsFit(n, t)
  /\ IF t # None /\ IntrospectsIndexes(options)
     THEN n.indexes = t.indexes /\ n.key = t.primaryKey
     ELSE n.indexes = NoIndexes /\ n.key = {}

SnapshotFits ==
  /\ phase \in {"tables", "columns"} => ~ unread
  /\ phase = "tables" /\ ~ drifted => snap = [Unseen EXCEPT !.exists = db # None]
  /\ phase = "columns" /\ ~ drifted =>
       ColumnsFit(snap, db) /\ snap.indexes = NoIndexes /\ snap.key = {}
  /\ phase = "ready" /\ Fresh => Describes(snap, db)

TableFits ==
  LET after == Execute(source, migration.up)
  IN HasGenerated /\ Fresh =>
       /\ Describes(snap, source)
       /\ phase \in {"quiet", "written", "failed"} => db = source
       /\ phase = "failed" => after = Failed
       /\ phase \in {"applied", "reverted", "stuck"} => after # Failed
       /\ phase = "applied" => db = after
       /\ phase = "reverted" => db = Execute(after, migration.down)
       /\ phase = "stuck" => Execute(after, migration.down) = Failed

IsSoundOrGone(t) == t # None => IsSound(t)

IInv ==
  /\ TypeOK /\ IsSoundOrGone(db) /\ IsSoundOrGone(source)
  /\ MigrationFits /\ SnapshotFits /\ TableFits

(* Once nobody else changes the table and no migration is refused or reverted, *)
(* qb generate comes to rest: it is repeated, and writes nothing any more.     *)
Settles ==
  /\ IntrospectsIndexes(options) /\ ~ Computes(schema)
  /\ <>[](phase \notin {"failed", "reverted", "stuck"})
  => <>[](phase # "written")

(* The developer goes on with the tool; reverting and others' changes are      *)
(* nobody's duty, and a query that fails now and then is not forever.          *)
FairSpec == Spec /\ WF_vars(Tool)

================================================================================
