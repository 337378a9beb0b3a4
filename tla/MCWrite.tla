------------------------------ MODULE MCWrite ------------------------------
(***************************************************************************)
(* A small instance of Write: a key with a generated default, a nullable   *)
(* number, a flag with a default evaluated anew, a nullable list of flags  *)
(* and a column computed from the number.                                  *)
(***************************************************************************)
EXTENDS Write

ModelColumns  == <<"id", "size", "open", "marks", "copy">>
ModelNullable == {"size", "marks", "copy"}
ModelFitting  == [id |-> {"1", "2"}, size |-> {"1", "2"}, open |-> {"TRUE", "FALSE"},
                  marks |-> {"TRUE", "FALSE"}, copy |-> {"1", "2"}]
ModelDefaults == [id |-> {<<"1">>, <<"2">>}, open |-> {<<"TRUE">>, <<"FALSE">>}]
ModelComputed == [copy |-> "size"]

Object(id, size, open, marks) ==
  [id |-> id, size |-> size, open |-> open, marks |-> marks]

\* Rows that leave out one thing or another.
Objects == {Object(<<"1">>, Undefined, Undefined, Undefined),
            Object(<<"1">>, <<"2">>, <<"FALSE">>, Undefined),
            Object(<<"2">>, <<"1">>, Undefined, <<"TRUE", "FALSE">>),
            Object(<<"2">>, Undefined, <<"TRUE">>, <<>>),
            Object(Undefined, <<"2">>, <<"FALSE">>, Undefined)}
Unfit == Object(<<"2">>, <<"half">>, Undefined, Undefined)

ModelBatches == {<<>>} \cup {<<o>> : o \in Objects \cup {Unfit}}
                \cup {<<o, p>> : o \in Objects, p \in Objects \cup {Unfit}}

ModelTables ==
  LET first  == Row([id |-> <<"1">>, size |-> Null, open |-> <<"FALSE">>, marks |-> Null])
      second == Row([id |-> <<"2">>, size |-> <<"1">>, open |-> <<"TRUE">>,
                     marks |-> <<"TRUE">>])
  IN  {{}, {first}, {first, second}}

ModelUpdates == {<<>>, <<"size", "id">>, <<"marks", "id", "open">>, <<"id", "copy">>,
                 <<"size">>}

Values(c) == CASE c = "id"    -> {<<"1">>, <<"2">>}
               [] c = "size"  -> {Undefined, <<"2">>}
               [] c = "open"  -> {<<"FALSE">>}
               [] c = "marks" -> {Undefined, <<"FALSE">>}
               [] c = "copy"  -> {<<"2">>}

ModelChanges(fields) ==
  LET rows == {o \in [Range(fields) -> UNION {Values(c) : c \in Range(fields)}] :
                 \A c \in Range(fields) : o[c] \in Values(c)}
  IN  {<<>>} \cup {<<o>> : o \in rows} \cup {<<o, p>> : o, p \in rows}

To(column, value) == [column |-> column, expression |-> "constant", value |-> value]
By(column, expression) ==
  [column |-> column, expression |-> expression, value |-> Undefined]

ModelSets == {<<>>, <<To("id", <<"1">>)>>, <<To("size", <<"2">>)>>, <<To("size", <<"half">>)>>,
              <<By("size", "excluded"), By("open", "excluded")>>,
              <<By("size", "orExcluded"), To("marks", Undefined)>>,
              <<By("open", "not")>>, <<By("size", "excluded"), By("open", "isOne")>>,
              <<To("copy", <<"1">>)>>}

\* A toggle, and a comparison of another column, which may come to NULL.
ModelEvaluate(expression, row, excluded) ==
  CASE expression = "not"   -> IF row.open = <<"TRUE">> THEN <<"FALSE">> ELSE <<"TRUE">>
    [] expression = "isOne" -> IF row.size = Null THEN Null
                               ELSE IF row.size = <<"1">> THEN <<"TRUE">> ELSE <<"FALSE">>

Is(value) == Construct(<<"is", "">>, <<P(value)>>)
ModelWheres == {Raw("sameKey"), Raw("unset"), Is("1"),
                Construct(<<"sameKey", "">>, <<Is("1")>>)}
=============================================================================
