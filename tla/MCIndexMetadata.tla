-------------------------- MODULE MCIndexMetadata --------------------------
(***************************************************************************)
(* A table of three columns and an index declared in six ways, one of      *)
(* them over a function, one over an expression of SQL's words, two of     *)
(* them partial, one under another name in the database.                   *)
(***************************************************************************)
EXTENDS IndexMetadata

Index(name, parts, storing, where, unique) ==
  [name |-> name, parts |-> parts, directions |-> [i \in 1..Len(parts) |-> None],
   storing |-> storing, where |-> where, unique |-> unique]

Directed(index, directions) == [index EXCEPT !.directions = directions]

Column(c) == [words |-> <<c>>]

ModelDeclarations ==
  {Directed(Index(None, <<Column("email"), Column("status")>>, <<>>, None, None),
            <<"asc", "desc">>),
   Directed(Index(None, <<Column("status"), Column("email"), Column("id")>>,
                  <<"email">>, None, None),
            <<"desc", None, "desc">>),
   Index(None, <<Column("email")>>, <<"id">>, "active", "unique"),
   Index("by_mail", <<Column("email"), Column("status")>>, <<>>, "inactive", None),
   Index(None, <<Column("status"), [words |-> <<"lower", "email">>]>>, <<>>,
         None, None),
   Index(None, <<[words |-> <<"email", "IS", "NULL">>], Column("id")>>, <<>>,
         None, None)}

ModelPredicates == [active |-> {"status"}, inactive |-> {"status"}]
ModelIsTrueOf(predicate, row) == row["status"] = (IF predicate = "active" THEN 1 ELSE 2)
ModelPrimaryKey == <<"id">>
ModelMinimums == {None, <<"email", "status">>}

ModelContents == {AllRows, {[c \in Columns |-> 1], [c \in Columns |-> 2]}}
=============================================================================
