----------------------------- MODULE MCSchemaSync ------------------------------
(* Small instances of SchemaSync: two columns, one declared index, and the     *)
(* indexes old keys leave behind.                                              *)
EXTENDS SchemaSync

CONSTANTS id, a, ia, kid, ka, x, y

TwoColumns   == {id, a}
ThreeIndexes == {ia, kid, ka}
TwoTexts     == {x, y}
Shown        == [t \in TwoTexts |-> y]    \* the database rewrites x as y
CamelCase    == {a}
Kept         == [cs \in SUBSET TwoColumns |-> IF cs = {a} THEN ka ELSE kid]

Def(k, b)     == [kind |-> k, nullable |-> b, default |-> None, computed |-> None]
Defaulted(t)  == [Def("varchar", FALSE) EXCEPT !.default = t]
Computed(t)   == [Def("varchar", FALSE) EXCEPT !.computed = t]
On(cs, u, r)  == [on |-> cs, unique |-> u, rest |-> r]

(* A table with column id, perhaps a, an index ia, and a key.                  *)
TableOf(da, di, key) ==
  [columns |-> [c \in TwoColumns |-> IF c = id THEN Def("int", FALSE) ELSE da],
   indexes |-> [i \in ThreeIndexes |-> IF i = ia THEN di ELSE None],
   primaryKey |-> key]

TablesOf(columns, indexes, keys) ==
  {t \in {TableOf(da, di, key) : da \in columns \cup {None},
                                 di \in indexes \cup {None}, key \in keys} :
     IsSound(t)}

Enforce == [on |-> TRUE, columns |-> "enforce", indexes |-> "enforce",
            additive |-> FALSE, ignoreColumns |-> {}, ignoreIndexes |-> {}]
Additive      == [Enforce EXCEPT !.additive = TRUE]
IgnoreA       == [Enforce EXCEPT !.ignoreColumns = {a}]
IgnoreIa      == [Enforce EXCEPT !.ignoreIndexes = {ia}]
WarnColumns   == [Enforce EXCEPT !.columns = "warn"]
IgnoreIndexes == [Enforce EXCEPT !.indexes = "ignore"]
WarnIndexes   == [Enforce EXCEPT !.indexes = "warn"]
Off           == [Enforce EXCEPT !.on = FALSE]
AllOptions ==
  {Enforce, Additive, IgnoreA, IgnoreIa, WarnColumns, WarnIndexes, IgnoreIndexes, Off}

Keys == {{id}, {a}}
DeclaredColumns ==
  {Def("varchar", FALSE), Def("varchar", TRUE), Def("int", FALSE), Defaulted(x),
   Computed(x), Computed(y), Def("array", FALSE), Def("array", TRUE)}
DeclaredIndexes == {On({a}, FALSE, FALSE), On({id}, TRUE, FALSE)}
DatabaseColumns ==
  {Def("varchar", FALSE), Def("varchar", TRUE), Def("smallint", FALSE),
   Def("timestamptz", TRUE), Def("uuid", FALSE), Def("array", FALSE), Defaulted(y),
   Computed(y)}
DatabaseIndexes == {On({a}, FALSE, FALSE), On({id}, FALSE, TRUE)}

With(schemas, opts) == {[schema |-> s, options |-> o] : s \in schemas, o \in opts}

EveryConfiguration == With(TablesOf(DeclaredColumns, DeclaredIndexes, Keys), AllOptions)
EveryTable         == TablesOf(DatabaseColumns, DatabaseIndexes, Keys) \cup {None}
NoForeign          == {}

(* What other actors do to the table.                                          *)
Meddling ==
  {DropIndexSql(ia), CreateIndexSql(ia, On({id}, FALSE, FALSE), TRUE),
   DropColumnSql(a), AddColumnSql(a, Def("varchar", TRUE)), DropTableSql}
PlainConfigurations ==
  With(TablesOf({Def("int", TRUE)}, DeclaredIndexes, {{id}}),
       {Enforce, Additive, IgnoreIa, WarnColumns})
PlainTables == TablesOf({Def("varchar", TRUE), Defaulted(y)}, DatabaseIndexes, Keys) \cup {None}
================================================================================
