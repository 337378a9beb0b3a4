----------------------------- MODULE SqlString -----------------------------
(***************************************************************************)
(* The fragments every statement is assembled from (sql-string/index.ts):  *)
(* pieces of text with holes, and the parameters of the holes, each in the *)
(* order of the text.  Fragments are nested by the sql`` template and by   *)
(* join; the holes are numbered only when the whole text is printed, so a  *)
(* value reaches its place only if both walks agree.                       *)
(*                                                                         *)
(* A piece of text is one token; empty pieces and layout are left out.     *)
(***************************************************************************)
EXTENDS Integers, Sequences, FiniteSets, SequencesExt

Hole == "?"

\* A template: the text before each value, then the value's own text and
\* parameters; the last piece of text has no value after it.
Construct(strings, values) ==
  LET Text(s)  == IF s = "" THEN <<>> ELSE <<s>>
      Piece(i) == Text(strings[i])
                  \o (IF i = Len(strings) THEN <<>> ELSE values[i].parts)
  IN  [parts  |-> FlattenSeq([i \in 1..Len(strings) |-> Piece(i)]),
       params |-> FlattenSeq([i \in 1..Len(values) |-> values[i].params])]

Raw(text) == Construct(<<text>>, <<>>)

\* sql.p: a value in a hole of its own.
P(value) == [parts |-> <<Hole>>, params |-> <<value>>]

JoinedBy(fragments, separator) ==
  IF fragments = <<>>
  THEN Raw("")
  ELSE Construct(<<"">> \o [i \in 1..Len(fragments) - 1 |-> separator] \o <<"">>,
                 fragments)

Parens(fragment) == Construct(<<"(", ")">>, <<fragment>>)

\* getQuery: the holes are numbered from 1 in the order of the text.
HoleNumber(parts, i) == Cardinality({j \in 1..i : parts[j] = Hole})

\* What the server reads: the text with each numbered hole replaced by the
\* parameter of that number, as injectParameters replaces it too.
Bound(fragment) ==
  [i \in 1..Len(fragment.parts) |->
     IF fragment.parts[i] = Hole
     THEN fragment.params[HoleNumber(fragment.parts, i)]
     ELSE fragment.parts[i]]
=============================================================================
