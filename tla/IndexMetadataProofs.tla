------------------------- MODULE IndexMetadataProofs -------------------------
(***************************************************************************)
(* What is proved of IndexMetadata, for every table, every index and every *)
(* order in which program, file and database are brought up to date.       *)
(***************************************************************************)
EXTENDS IndexMetadata, SequenceLemmas

--------------------------------------------------------------------------------
(* The keys of a map: every word once, in the order of first mention.  The     *)
(* first n words have given q.                                                 *)
AreKeys(q, words, n) ==
  /\ \A j \in 1 .. Len(q) : \E i \in 1 .. n : q[j] = words[i]
  /\ \A i \in 1 .. n : \E j \in 1 .. Len(q) : q[j] = words[i]
  /\ n > 0 => Len(q) > 0 /\ q[1] = words[1]
  /\ \A j, k \in 1 .. Len(q) : j < k =>
       \A y \in 1 .. n : q[k] = words[y] => \E x \in 1 .. y - 1 : q[j] = words[x]

LEMMA DistinctKeys ==
  ASSUME NEW W, NEW words \in Seq(W)
  PROVE Distinct(words) \in Seq(W) /\ AreKeys(Distinct(words), words, Len(words))
  <1> DEFINE N == Len(words)
             Set(q, n) == IF words[n] \in Range(q) THEN q ELSE Append(q, words[n])
             step == [p \in (1 .. N) \X Seq(W) |-> Set(p[2], p[1])]
             keys == CHOOSE f : f = [n \in 0 .. N |-> IF n = 0 THEN <<>> ELSE Set(f[n - 1], n)]
  <1>1. N \in Nat /\ \A n \in 1 .. N : words[n] \in W
    BY ListFacts
  <1>2. ASSUME NEW n \in 1 .. N, NEW q \in Seq(W) PROVE Set(q, n) \in Seq(W)
    BY <1>1, <1>2, Appended
  <1>3. step \in [(1 .. N) \X Seq(W) -> Seq(W)]
    <2> HIDE DEF Set
    <2> QED  BY <1>2
  <1>4. \A n \in 1 .. N, q \in Seq(W) : step[<<n, q>>] = Set(q, n)
    <2> HIDE DEF Set
    <2> QED  OBVIOUS
  <1>5. PICK f \in [0 .. N -> Seq(W)] :
          f[0] = <<>> /\ \A n \in 1 .. N : f[n] = step[<<n, f[n - 1]>>]
    <2>1. <<>> \in Seq(W)
      OBVIOUS
    <2> DEFINE V == Seq(W)  base == <<>>
    <2>2. base \in V /\ step \in [(1 .. N) \X V -> V] /\ N \in Nat
      BY <1>1, <1>3, <2>1
    <2> HIDE DEF step, V, N, base
    <2>3. \E f \in [0 .. N -> V] : Walks(f, N, base, step)
      BY <2>2, WalkExists
    <2> QED  BY <2>3 DEF V, base, Walks
  <1>6. \A n \in 1 .. N : n - 1 \in 0 .. N /\ n \in 0 .. N
    BY <1>1
  <1>7. \A n \in 1 .. N : f[n] = Set(f[n - 1], n)
    <2> HIDE DEF step, Set
    <2> QED  BY <1>4, <1>5, <1>6
  <1>8. f = [n \in 0 .. N |-> IF n = 0 THEN <<>> ELSE Set(f[n - 1], n)]
    <2> HIDE DEF Set
    <2>1. \A n \in 0 .. N : f[n] = IF n = 0 THEN <<>> ELSE Set(f[n - 1], n)
      <3>1. ASSUME NEW n \in 0 .. N PROVE n = 0 \/ n \in 1 .. N
        BY <1>1
      <3>2. \A n \in 1 .. N : n # 0
        OBVIOUS
      <3> QED  BY <1>5, <1>7, <3>1, <3>2
    <2> QED  BY <1>5, <2>1
  <1>9. keys = [n \in 0 .. N |-> IF n = 0 THEN <<>> ELSE Set(keys[n - 1], n)]
    <2> HIDE DEF Set
    <2> QED  BY <1>8
  <1>10. Distinct(words) = keys[N]
    BY DEF Distinct
  <1>11. keys[0] = <<>> /\ \A n \in 1 .. N : keys[n] = Set(keys[n - 1], n)
    <2> HIDE DEF Set, keys
    <2>1. 0 \in 0 .. N
      BY <1>1
    <2>2. \A n \in 1 .. N : n # 0
      OBVIOUS
    <2> QED  BY <1>6, <1>9, <2>1, <2>2, Zenon
  <1> HIDE DEF keys, step
  <1> DEFINE Good == {n \in 0 .. N : keys[n] \in Seq(W) /\ AreKeys(keys[n], words, n)}
  <1>12. 0 \in Good
    <2>1. <<>> \in Seq(W) /\ Len(<<>>) = 0
      OBVIOUS
    <2>2. AreKeys(<<>>, words, 0)
      BY <2>1 DEF AreKeys
    <2>3. keys[0] \in Seq(W) /\ AreKeys(keys[0], words, 0)
      BY <1>11, <2>1, <2>2, Zenon
    <2>4. 0 \in 0 .. N
      BY <1>1
    <2> QED  BY <2>3, <2>4, Zenon
  <1>13. ASSUME NEW n \in 1 .. N, n - 1 \in Good PROVE n \in Good
    <2> DEFINE q == keys[n - 1]  M == Len(q)  w == words[n]
    <2>1. q \in Seq(W) /\ AreKeys(q, words, n - 1) /\ w \in W
      BY <1>1, <1>13
    <2>2. keys[n] = Set(q, n)
      BY <1>11
    <2> HIDE DEF q
    <2>3. M \in Nat /\ n \in Nat /\ Range(q) = {q[j] : j \in 1 .. M}
      BY <1>1, <2>1, ListFacts
    <2>4. CASE w \in Range(q)
      <3>1. keys[n] = q
        BY <2>2, <2>4
      <3>2. PICK j0 \in 1 .. M : q[j0] = w
        BY <2>3, <2>4
      <3>3. PICK i0 \in 1 .. n - 1 : q[j0] = words[i0]
        BY <2>1, <3>2 DEF AreKeys
      <3>4. \A i \in 1 .. n : i = n \/ i \in 1 .. n - 1
        BY <2>3
      <3>5. \A j \in 1 .. M : \E i \in 1 .. n : q[j] = words[i]
        <4>1. \A i \in 1 .. n - 1 : i \in 1 .. n
          BY <2>3
        <4> QED  BY <2>1, <4>1 DEF AreKeys
      <3>6. \A i \in 1 .. n : \E j \in 1 .. M : q[j] = words[i]
        BY <2>1, <3>2, <3>4 DEF AreKeys
      <3>7. M > 0 /\ q[1] = words[1]
        <4>1. n - 1 > 0
          BY <2>3, <3>3
        <4> QED  BY <2>1, <4>1 DEF AreKeys
      <3>8. ASSUME NEW j \in 1 .. M, NEW k \in 1 .. M, j < k, NEW y \in 1 .. n, q[k] = words[y]
            PROVE \E x \in 1 .. y - 1 : q[j] = words[x]
        <4>1. CASE y \in 1 .. n - 1
          BY <2>1, <3>8, <4>1 DEF AreKeys
        <4>2. CASE y = n
          <5>1. PICK i \in 1 .. n - 1 : q[k] = words[i]
            BY <2>1 DEF AreKeys
          <5>2. PICK x \in 1 .. i - 1 : q[j] = words[x]
            BY <2>1, <3>8, <5>1 DEF AreKeys
          <5>3. x \in 1 .. y - 1
            BY <2>3, <4>2
          <5> QED  BY <5>2, <5>3
        <4> QED  BY <3>4, <4>1, <4>2
      <3>9. AreKeys(q, words, n)
        BY <3>5, <3>6, <3>7, <3>8 DEF AreKeys
      <3> QED  BY <2>1, <2>3, <3>1, <3>9
    <2>5. CASE w \notin Range(q)
      <3> DEFINE p == Append(q, w)
      <3>1. keys[n] = p
        BY <2>2, <2>5
      <3>2. /\ p \in Seq(W) /\ Len(p) = M + 1 /\ p[M + 1] = w
            /\ \A j \in 1 .. M : p[j] = q[j]
        BY <2>1, Appended
      <3> HIDE DEF p
      <3>3. \A j \in 1 .. M + 1 : j = M + 1 \/ j \in 1 .. M
        BY <2>3
      <3>4. \A i \in 1 .. n : i = n \/ i \in 1 .. n - 1
        BY <2>3
      <3>5. /\ \A i \in 1 .. n - 1 : i \in 1 .. n
            /\ n \in 1 .. n /\ M + 1 \in 1 .. M + 1
            /\ \A j \in 1 .. M : j \in 1 .. M + 1
        BY <2>3
      <3>6. \A j \in 1 .. M + 1 : \E i \in 1 .. n : p[j] = words[i]
        <4>1. \A j \in 1 .. M : \E i \in 1 .. n : p[j] = words[i]
          BY <2>1, <3>2, <3>5 DEF AreKeys
        <4> QED  BY <3>2, <3>3, <3>5, <4>1
      <3>7. \A i \in 1 .. n : \E j \in 1 .. M + 1 : p[j] = words[i]
        <4>1. \A i \in 1 .. n - 1 : \E j \in 1 .. M + 1 : p[j] = words[i]
          BY <2>1, <3>2, <3>5 DEF AreKeys
        <4> QED  BY <3>2, <3>4, <3>5, <4>1
      <3>8. M + 1 > 0 /\ p[1] = words[1]
        <4>1. CASE n = 1
          <5>1. M = 0
            <6>1. ASSUME NEW j \in 1 .. M PROVE FALSE
              BY <2>1, <4>1 DEF AreKeys
            <6>2. 1 \notin 1 .. M
              BY <6>1
            <6> QED  BY <2>3, <6>2
          <5> QED  BY <3>2, <4>1, <5>1
        <4>2. CASE n # 1
          <5>1. n - 1 > 0
            BY <2>3, <4>2
          <5>2. M > 0 /\ q[1] = words[1]
            BY <2>1, <5>1 DEF AreKeys
          <5>3. 1 \in 1 .. M
            BY <2>3, <5>2
          <5> QED  BY <2>3, <3>2, <5>2, <5>3
        <4> QED  BY <4>1, <4>2
      <3>9. ASSUME NEW j \in 1 .. M + 1, NEW k \in 1 .. M + 1, j < k, NEW y \in 1 .. n,
                   p[k] = words[y]
            PROVE \E x \in 1 .. y - 1 : p[j] = words[x]
        <4>1. j \in 1 .. M
          BY <2>3, <3>9
        <4>2. p[j] = q[j]
          BY <3>2, <4>1
        <4>3. CASE k \in 1 .. M /\ y \in 1 .. n - 1
          <5>1. q[k] = words[y]
            BY <3>2, <3>9, <4>3
          <5> QED  BY <2>1, <3>9, <4>1, <4>2, <4>3, <5>1 DEF AreKeys
        <4>4. CASE k \in 1 .. M /\ y = n
          BY <2>3, <2>5, <3>2, <3>9, <4>4
        <4>5. CASE k = M + 1
          <5>1. y = n
            <6>1. ASSUME y \in 1 .. n - 1 PROVE FALSE
              <7>1. PICK i \in 1 .. M : q[i] = words[y]
                BY <2>1, <6>1 DEF AreKeys
              <7>2. words[y] = w
                BY <3>2, <3>9, <4>5
              <7> QED  BY <2>3, <2>5, <7>1, <7>2
            <6> QED  BY <3>4, <6>1
          <5>2. PICK x \in 1 .. n - 1 : q[j] = words[x]
            BY <2>1, <4>1 DEF AreKeys
          <5> QED  BY <4>2, <5>1, <5>2
        <4> QED  BY <3>3, <3>4, <4>3, <4>4, <4>5
      <3>10. AreKeys(p, words, n)
        BY <3>2, <3>6, <3>7, <3>8, <3>9 DEF AreKeys
      <3> QED  BY <2>3, <3>1, <3>2, <3>10
    <2> QED  BY <2>4, <2>5
  <1>14. N \in Good
    <2>1. N \in 0 .. N
      BY <1>1
    <2> HIDE DEF Good
    <2> QED  BY <1>1, <1>12, <1>13, <2>1, UpTo
  <1> QED  BY <1>10, <1>14

--------------------------------------------------------------------------------
(* An index of columns only: the columns of the metadata are those of its      *)
(* parts, each at its first mention.                                           *)

OneWordEach(d) ==
  \A i \in 1 .. Len(d.parts) :
    Len(d.parts[i].words) = 1 /\ d.parts[i].words[1] \in Columns \ SqlKeywords

FirstWords(d) == [i \in 1 .. Len(d.parts) |-> d.parts[i].words[1]]

LEMMA OneWord ==
  ASSUME NEW W, NEW part, part.words \in Seq(W), Len(part.words) = 1,
         part.words[1] \notin SqlKeywords
  PROVE ColumnNamesFromSql(part) = <<part.words[1]>>
  <1> DEFINE words == part.words  set == Range(words) \ SqlKeywords  q == Among(words, set)
  <1>1. words[1] \in set
    <2>1. 1 \in 1 .. Len(words)
      OBVIOUS
    <2>2. Range(words) = {words[j] : j \in 1 .. Len(words)}
      BY ListFacts
    <2>3. words[1] \in Range(words)
      BY <2>1, <2>2
    <2> QED  BY <2>3
  <1>2. q \in Seq(W) /\ AreAmong(q, words, set, 1)
    BY AmongWords
  <1> HIDE DEF q, set
  <1>3. Len(q) <= 1 /\ Len(q) > 0 /\ q[1] = words[1]
    BY <1>1, <1>2 DEF AreAmong
  <1>4. Len(q) \in Nat
    BY <1>2, ListFacts
  <1>5. Len(q) = 1
    <2>1. Len(q) <= 1 /\ Len(q) > 0
      BY <1>3
    <2>2. \A m \in Nat : m <= 1 /\ m > 0 => m = 1
      OBVIOUS
    <2> QED  BY <1>4, <2>1, <2>2, Zenon
  <1>6. words[1] \in W
    BY ListFacts
  <1>7. q = <<words[1]>>
    <2>1. <<words[1]>> \in Seq(W) /\ Len(<<words[1]>>) = 1 /\ <<words[1]>>[1] = words[1]
      BY <1>6
    <2>2. \A j \in 1 .. Len(q) : q[j] = <<words[1]>>[j]
      BY <1>3, <1>5, <2>1
    <2> QED  BY <1>2, <1>5, <2>1, <2>2, SeqEqual
  <1> QED  BY <1>7 DEF ColumnNamesFromSql, q, set

LEMMA IndexedIsFirstWords ==
  ASSUME NEW W, NEW d, d.parts \in Seq([words : Seq(W)]), OneWordEach(d)
  PROVE FirstWords(d) \in Seq(W) /\ Indexed(d) = Distinct(FirstWords(d))
  <1> DEFINE N == Len(d.parts)  w(i) == d.parts[i].words[1]
             qs == [i \in 1 .. N |-> ColumnNamesFromSql(d.parts[i])]
  <1>1. N \in Nat /\ \A i \in 1 .. N : d.parts[i] \in [words : Seq(W)]
    BY ListFacts
  <1>2. ASSUME NEW i \in 1 .. N PROVE w(i) \in W /\ ColumnNamesFromSql(d.parts[i]) = <<w(i)>>
    <2>1. d.parts[i].words \in Seq(W)
      BY <1>1
    <2>2. Len(d.parts[i].words) = 1 /\ d.parts[i].words[1] \notin SqlKeywords
      BY DEF OneWordEach
    <2>3. d.parts[i].words[1] \in W
      BY <2>1, <2>2, ListFacts
    <2> QED  BY <2>1, <2>2, <2>3, OneWord
  <1> HIDE DEF w
  <1>3. qs = [i \in 1 .. N |-> <<w(i)>>]
    BY <1>2
  <1>4. qs \in Seq(Seq(W)) /\ Len(qs) = N
    <2>1. \A i \in 1 .. N : <<w(i)>> \in Seq(W)
      BY <1>2
    <2> DEFINE V == Seq(W)
    <2>2. [i \in 1 .. N |-> <<w(i)>>] \in [1 .. N -> V]
      BY <2>1
    <2>3. qs \in [1 .. N -> V]
      BY <1>3, <2>2
    <2> HIDE DEF V, qs, N
    <2>4. qs \in Seq(V) /\ Len(qs) = N
      BY <1>1, <2>3
    <2> QED  BY <2>4 DEF V
  <1> HIDE DEF qs
  <1>5. PICK flat : /\ flat \in [0 .. Len(qs) -> Seq(W)]
                    /\ flat[0] = <<>>
                    /\ \A n \in 1 .. Len(qs) : flat[n] = flat[n - 1] \o qs[n]
                    /\ FlattenSeq(qs) = flat[Len(qs)]
    BY <1>4, Flattening
  <1> DEFINE Good == {n \in 0 .. N : Len(flat[n]) = n /\ \A i \in 1 .. n : flat[n][i] = w(i)}
  <1>6. 0 \in Good
    <2>1. Len(flat[0]) = 0
      BY <1>5
    <2> QED  BY <1>1, <2>1
  <1>7. ASSUME NEW n \in 1 .. N, n - 1 \in Good PROVE n \in Good
    <2> DEFINE p == flat[n - 1]
    <2>1. p \in Seq(W) /\ Len(p) = n - 1 /\ \A i \in 1 .. n - 1 : p[i] = w(i)
      <3>1. n - 1 \in 0 .. Len(qs)
        BY <1>1, <1>4
      <3> QED  BY <1>5, <1>7, <3>1
    <2>2. flat[n] = p \o <<w(n)>>
      <3>1. qs[n] = <<w(n)>>
        BY <1>3
      <3> QED  BY <1>4, <1>5, <3>1
    <2> HIDE DEF p
    <2>3. w(n) \in W
      BY <1>2
    <2>4. p \o <<w(n)>> = Append(p, w(n))
      BY <2>1, <2>3
    <2>5. /\ Len(flat[n]) = n /\ flat[n][n] = w(n)
          /\ \A i \in 1 .. n - 1 : flat[n][i] = w(i)
      <3>1. /\ Len(Append(p, w(n))) = Len(p) + 1 /\ Append(p, w(n))[Len(p) + 1] = w(n)
            /\ \A j \in 1 .. Len(p) : Append(p, w(n))[j] = p[j]
        BY <2>1, <2>3, Appended
      <3>2. (n - 1) + 1 = n
        BY <1>1
      <3> QED  BY <2>1, <2>2, <2>4, <3>1, <3>2
    <2>6. \A i \in 1 .. n : i = n \/ i \in 1 .. n - 1
      BY <1>1
    <2>7. n \in 0 .. N
      BY <1>1
    <2> QED  BY <2>5, <2>6, <2>7
  <1>8. N \in Good
    <2>1. N \in 0 .. N
      BY <1>1
    <2> HIDE DEF Good
    <2> QED  BY <1>1, <1>6, <1>7, <2>1, UpTo
  <1>9. FirstWords(d) \in Seq(W) /\ Len(FirstWords(d)) = N
        /\ \A i \in 1 .. N : FirstWords(d)[i] = w(i)
    <2>1. FirstWords(d) = [i \in 1 .. N |-> w(i)]
      BY DEF FirstWords, w
    <2>2. [i \in 1 .. N |-> w(i)] \in [1 .. N -> W]
      BY <1>2
    <2>3. FirstWords(d) \in [1 .. N -> W]
      BY <2>1, <2>2
    <2>4. FirstWords(d) \in Seq(W) /\ Len(FirstWords(d)) = N
      <3> HIDE DEF N
      <3> QED  BY <1>1, <2>3
    <2> QED  BY <2>1, <2>4
  <1>10. FlattenSeq(qs) = FirstWords(d)
    <2>1. FlattenSeq(qs) \in Seq(W) /\ Len(FlattenSeq(qs)) = N
          /\ \A i \in 1 .. N : FlattenSeq(qs)[i] = w(i)
      <3>1. N \in 0 .. N
        BY <1>1
      <3> QED  BY <1>4, <1>5, <1>8, <3>1
    <2>2. \A i \in 1 .. Len(FlattenSeq(qs)) : FlattenSeq(qs)[i] = FirstWords(d)[i]
      BY <1>9, <2>1
    <2> QED  BY <1>9, <2>1, <2>2, SeqEqual
  <1>11. Indexed(d) = Distinct(FlattenSeq(qs))
    BY DEF Indexed, IndexedUpTo, qs
  <1> QED  BY <1>9, <1>10, <1>11

--------------------------------------------------------------------------------
(* What a declaration is, and what a query under way over an index has been    *)
(* written from: the file is read when the query is sent, and neither it nor   *)
(* the declaration changes until the query is over.                            *)

DeclaredType == declared \in {Build(d) : d \in Declarations} \cup {None}

StatementLink ==
  statement # None /\ statement.index # "primaryKey" =>
    /\ declared # None /\ generated # None
    /\ statement.index = declared.name
    /\ statement.predicate = generated.predicate
    /\ \E keys \in Orders : /\ AdmitsOrder(MetadataType(generated), keys)
                            /\ statement.order = Among(generated.columnsOrder, Range(keys))

LEMMA Written ==
  ASSUME NEW name, NEW options, NEW conditions, NEW keys, NEW directions
  PROVE  LET st == WriteSelect(name, options, conditions, keys, directions) IN
         /\ st.index = name /\ st.predicate = options.predicate
         /\ st.conditions = conditions
         /\ st.order = Among(options.columnsOrder, Range(keys))
  BY DEF WriteSelect, Sorted

LEMMA NextDeclared == DeclaredType /\ [Next]_vars => DeclaredType'
  BY DEF DeclaredType, Next, vars, Declare, Generate, Migrate, Ask, AskUnknown,
         AskByPrimaryKey, Answer, Refuse

LEMMA NextStatement == StatementLink /\ [Next]_vars => StatementLink'
  <1> SUFFICES ASSUME StatementLink, [Next]_vars PROVE StatementLink'
    OBVIOUS
  <1>1. CASE Declare \/ Generate \/ Migrate \/ AskUnknown
    BY <1>1 DEF Declare, Generate, Migrate, AskUnknown, StatementLink
  <1>2. ASSUME NEW minimum \in Minimums, NEW conditions \in ConditionSets,
               NEW keys \in Orders, NEW directions \in Directions(keys),
               Ask(minimum, conditions, keys, directions)
        PROVE  StatementLink'
    <2> DEFINE options == OptionsFromMetadata(minimum)
    <2>1. /\ UNCHANGED <<declared, generated>> /\ declared # None /\ generated # None
          /\ AdmitsOrder(MetadataType(generated), keys)
          /\ \/ statement' = WriteSelect(declared.name, options, conditions, keys, directions)
             \/ statement = None /\ UNCHANGED statement
      BY <1>2 DEF Ask
    <2>2. options.predicate = generated.predicate /\ options.columnsOrder = generated.columnsOrder
      BY DEF OptionsFromMetadata
    <2> HIDE DEF options
    <2>3. CASE statement' = WriteSelect(declared.name, options, conditions, keys, directions)
      <3>1. /\ statement'.index = declared.name
            /\ statement'.predicate = generated.predicate
            /\ statement'.order = Among(generated.columnsOrder, Range(keys))
        BY <2>2, <2>3, Written
      <3>2. UNCHANGED <<MetadataType(generated), generated.columnsOrder, generated.predicate,
                        declared.name>>
        BY <2>1
      <3>3. AdmitsOrder(MetadataType(generated), keys)' <=> AdmitsOrder(MetadataType(generated), keys)
        BY <2>1 DEF AdmitsOrder, MetadataType
      <3> QED
        BY <2>1, <3>1, <3>2, <3>3 DEF StatementLink
    <2>4. CASE statement = None /\ UNCHANGED statement
      BY <2>4 DEF StatementLink
    <2> QED
      BY <2>1, <2>3, <2>4
  <1>3. ASSUME NEW conditions \in ConditionSets, AskByPrimaryKey(conditions)
        PROVE  StatementLink'
    <2>1. statement' = WriteSelect("primaryKey", OptionsOfPrimaryKey, conditions, <<>>, <<>>)
      BY <1>3 DEF AskByPrimaryKey
    <2> QED
      BY <2>1, Written DEF StatementLink
  <1>4. CASE Answer \/ Refuse
    BY <1>4 DEF Answer, Refuse, StatementLink
  <1>5. CASE UNCHANGED vars
    BY <1>5 DEF vars, StatementLink, AdmitsOrder, MetadataType
  <1> QED
    BY <1>1, <1>2, <1>3, <1>4, <1>5 DEF Next

LEMMA Linked == Spec => [](DeclaredType /\ StatementLink)
  <1>1. Init => DeclaredType /\ StatementLink
    BY DEF Init, DeclaredType, StatementLink
  <1> QED
    BY <1>1, NextDeclared, NextStatement, PTL DEF Spec

(* What a declaration keeps of its properties.                                 *)
LEMMA DeclaredFields ==
  ASSUME DeclaredType, declared # None
  PROVE  /\ declared.parts \in Seq([words : Seq(STRING)]) /\ declared.parts # <<>>
         /\ Range(declared.storing) \subseteq Columns
         /\ declared.where = None \/ declared.where \in DOMAIN PredicateColumns
         /\ declared.name # "primaryKey"
  <1>1. PICK d \in Declarations : declared = Build(d)
    BY DEF DeclaredType
  <1>2. /\ declared.parts = d.parts /\ declared.storing = d.storing /\ declared.where = d.where
        /\ declared.name = IF d.name = None THEN DefaultName ELSE d.name
    BY <1>1 DEF Build
  <1> QED
    BY <1>2, MetadataAssumption DEF MetadataAssumption

(* The columns of an index of columns, in the file: those of its parts.        *)
LEMMA ColumnsOfIndex ==
  ASSUME DeclaredType, declared # None, IsOfColumns
  PROVE  LET Q == Indexed(declared)  F == FirstWords(declared) IN
         /\ F \in Seq(STRING) /\ Len(F) = Len(declared.parts) /\ Len(F) > 0
         /\ \A i \in 1 .. Len(F) : /\ F[i] = declared.parts[i].words[1] /\ F[i] \in Columns
                                   /\ Range(declared.parts[i].words) = {F[i]}
         /\ Q \in Seq(STRING) /\ AreKeys(Q, F, Len(F))
  <1> DEFINE parts == declared.parts  N == Len(parts)  F == FirstWords(declared)
  <1>1. parts \in Seq([words : Seq(STRING)]) /\ parts # <<>>
    BY DeclaredFields
  <1>2. N \in Nat /\ N > 0 /\ \A i \in 1 .. N : parts[i] \in [words : Seq(STRING)]
    <2>1. N \in Nat /\ \A i \in 1 .. N : parts[i] \in [words : Seq(STRING)]
      BY <1>1, ListFacts
    <2>2. N # 0
      BY <1>1, EmptySeq
    <2> QED
      BY <2>1, <2>2
  <1>3. OneWordEach(declared)
    BY DEF IsOfColumns, OneWordEach
  <1>4. F \in Seq(STRING) /\ Indexed(declared) = Distinct(F)
    BY <1>1, <1>3, IndexedIsFirstWords
  <1>5. Len(F) = N
    <2>1. DOMAIN F = 1 .. N
      BY DEF FirstWords
    <2>2. DOMAIN F = 1 .. Len(F) /\ Len(F) \in Nat
      BY <1>4, ListFacts
    <2> HIDE DEF F, N
    <2> QED
      BY <1>2, <2>1, <2>2
  <1>6. ASSUME NEW i \in 1 .. N
        PROVE  /\ F[i] = parts[i].words[1] /\ F[i] \in Columns
               /\ Range(parts[i].words) = {F[i]}
    <2>1. F[i] = parts[i].words[1]
      BY DEF FirstWords
    <2>2. Len(parts[i].words) = 1 /\ parts[i].words[1] \in Columns
      BY <1>3 DEF OneWordEach
    <2>3. parts[i].words \in Seq(STRING)
      BY <1>2
    <2>4. Range(parts[i].words) = {parts[i].words[j] : j \in 1 .. 1}
      BY <2>2, <2>3, ListFacts
    <2>5. 1 .. 1 = {1}
      OBVIOUS
    <2> QED
      BY <2>1, <2>2, <2>4, <2>5
  <1>7. Distinct(F) \in Seq(STRING) /\ AreKeys(Distinct(F), F, Len(F))
    BY <1>4, DistinctKeys
  <1> HIDE DEF F
  <1> QED
    BY <1>2, <1>4, <1>5, <1>6, <1>7 DEF F

LEMMA Places ==
  ASSUME DeclaredType, declared # None, IsOfColumns,
         NEW y \in 1 .. Len(FirstWords(declared))
  PROVE  LET F == FirstWords(declared)  place == PlaceOf(F[y])
         IN  place \in 1 .. Len(F) /\ F[place] = F[y] /\ place <= y
  <1> DEFINE F == FirstWords(declared)  N == Len(F)  S == {i \in 1 .. N : F[i] = F[y]}
             IsFirst(i) == /\ F[y] \in Range(declared.parts[i].words)
                           /\ \A j \in 1 .. i - 1 : F[y] \notin Range(declared.parts[j].words)
  <1>1. /\ N \in Nat /\ N = Len(declared.parts)
        /\ \A i \in 1 .. N : Range(declared.parts[i].words) = {F[i]}
    BY ColumnsOfIndex, ListFacts
  <1>2. y \in S /\ S \in SUBSET Nat
    OBVIOUS
  <1> HIDE DEF F
  <1>3. PICK m \in S : \A i \in S : m <= i
    BY <1>2, Minimum
  <1>4. m \in 1 .. N /\ F[m] = F[y] /\ m <= y
    BY <1>2, <1>3
  <1>5. \A i \in 1 .. N : F[y] \in Range(declared.parts[i].words) <=> F[i] = F[y]
    BY <1>1
  <1>6. \A i \in 1 .. N : \A j \in 1 .. i - 1 : j \in 1 .. N /\ j < i
    BY <1>1
  <1>7. IsFirst(m)
    <2>1. ASSUME NEW j \in 1 .. m - 1, F[j] = F[y] PROVE FALSE
      <3>1. j \in S /\ j < m
        BY <1>4, <1>6, <2>1
      <3> QED
        BY <1>3, <1>4, <3>1
    <2> QED
      BY <1>4, <1>5, <1>6, <2>1
  <1>8. ASSUME NEW i \in 1 .. N, IsFirst(i) PROVE i = m
    <2>1. F[i] = F[y]
      BY <1>5, <1>8
    <2>2. m <= i
      BY <1>3, <2>1
    <2>3. ~ (m < i)
      <3>1. ASSUME m < i PROVE FALSE
        <4>1. m \in 1 .. i - 1
          BY <1>1, <1>4, <3>1
        <4> QED
          BY <1>4, <1>5, <1>8, <4>1
      <3> QED
        BY <3>1
    <2> QED
      BY <1>1, <1>4, <2>2, <2>3
  <1>9. PlaceOf(F[y]) = CHOOSE i \in 1 .. N : IsFirst(i)
    BY <1>1 DEF PlaceOf
  <1> HIDE DEF IsFirst
  <1>10. PlaceOf(F[y]) = m
    BY <1>4, <1>7, <1>8, <1>9
  <1> QED
    BY <1>4, <1>10 DEF F

(* The columns a query orders by stand in the order of the index, whatever the *)
(* order of the keys in the program.                                           *)
LEMMA PlacesIncrease ==
  ASSUME DeclaredType, StatementLink, IsUpToDate, IsOfColumns,
         statement # None, statement.index # "primaryKey"
  PROVE  /\ Len(statement.order) \in Nat /\ statement.order \in Seq(STRING)
         /\ Len(declared.parts) \in Nat
         /\ \A i, j \in 1 .. Len(statement.order) :
              i < j => PlaceOf(statement.order[i]) < PlaceOf(statement.order[j])
         /\ \A i \in 1 .. Len(statement.order) :
              LET c == statement.order[i]
              IN  /\ PlaceOf(c) \in 1 .. Len(declared.parts)
                  /\ declared.parts[PlaceOf(c)].words[1] = c
         /\ \A y \in 1 .. Len(declared.parts) :
              LET c == declared.parts[y].words[1]
              IN  PlaceOf(c) \in Nat /\ PlaceOf(c) <= y
  <1> DEFINE Q == Indexed(declared)  F == FirstWords(declared)  N == Len(F)
             order == statement.order
  <1>1. declared # None
    BY DEF IsUpToDate
  <1>2. generated.columnsOrder = Q
    BY DEF IsUpToDate, MetadataObject
  <1>3. PICK keys \in Orders : /\ AdmitsOrder(MetadataType(generated), keys)
                               /\ order = Among(Q, Range(keys))
    BY <1>2 DEF StatementLink
  <1>4. F \in Seq(STRING) /\ N > 0 /\ Q \in Seq(STRING) /\ AreKeys(Q, F, N)
    BY <1>1, ColumnsOfIndex
  <1>5. order \in Seq(STRING) /\ AreAmong(order, Q, Range(keys), Len(Q))
    BY <1>3, <1>4, AmongWords
  <1>6. N \in Nat /\ Len(Q) \in Nat /\ Len(order) \in Nat
    BY <1>4, <1>5, ListFacts
  <1>7. ASSUME NEW y \in 1 .. N
        PROVE  PlaceOf(F[y]) \in 1 .. N /\ F[PlaceOf(F[y])] = F[y] /\ PlaceOf(F[y]) <= y
    BY <1>1, Places
  <1>9. ASSUME NEW i \in 1 .. Len(order), NEW j \in 1 .. Len(order), i < j
        PROVE  PlaceOf(order[i]) < PlaceOf(order[j])
    <2>1. PICK y \in 1 .. Len(Q) : order[j] = Q[y] /\ \E x \in 1 .. y - 1 : order[i] = Q[x]
      BY <1>5, <1>9 DEF AreAmong
    <2>2. PICK x \in 1 .. y - 1 : order[i] = Q[x]
      BY <2>1
    <2>3. x \in 1 .. Len(Q) /\ x < y
      BY <1>6, <2>1, <2>2
    <2>4. PICK v \in 1 .. N : Q[y] = F[v]
      BY <1>4 DEF AreKeys
    <2> DEFINE p == PlaceOf(F[v])
    <2>5. p \in 1 .. N /\ F[p] = Q[y]
      BY <1>7, <2>4
    <2>6. PICK z \in 1 .. p - 1 : Q[x] = F[z]
      <3> HIDE DEF p
      <3> QED
        BY <1>4, <2>3, <2>5 DEF AreKeys
    <2>7. z \in 1 .. N /\ z < p
      <3> HIDE DEF p, N
      <3> QED
        BY <1>6, <2>5, <2>6
    <2>8. PlaceOf(F[z]) \in 1 .. N /\ PlaceOf(F[z]) <= z
      BY <1>7, <2>7
    <2>9. PlaceOf(order[i]) = PlaceOf(F[z]) /\ PlaceOf(order[j]) = p
      BY <2>1, <2>2, <2>4, <2>6
    <2>10. PlaceOf(F[z]) < p
      <3> DEFINE a == PlaceOf(F[z])
      <3>1. a \in 1 .. N /\ a <= z /\ z \in 1 .. N /\ z < p /\ p \in 1 .. N
        BY <2>5, <2>7, <2>8
      <3> HIDE DEF a, p
      <3>2. a < p
        BY <3>1
      <3> QED
        BY <3>2 DEF a, p
    <2> QED
      BY <2>9, <2>10
  <1>10. /\ N = Len(declared.parts)
         /\ \A i \in 1 .. N : F[i] = declared.parts[i].words[1]
    BY <1>1, ColumnsOfIndex
  <1>11. ASSUME NEW i \in 1 .. Len(order)
         PROVE  /\ PlaceOf(order[i]) \in 1 .. N
                /\ declared.parts[PlaceOf(order[i])].words[1] = order[i]
    <2>1. PICK y \in 1 .. Len(Q) : order[i] = Q[y]
      BY <1>5 DEF AreAmong
    <2>2. PICK v \in 1 .. N : Q[y] = F[v]
      BY <1>4 DEF AreKeys
    <2>3. PlaceOf(F[v]) \in 1 .. N /\ F[PlaceOf(F[v])] = F[v]
      BY <1>7
    <2> QED
      BY <1>10, <2>1, <2>2, <2>3
  <1>12. ASSUME NEW y \in 1 .. N
         PROVE  LET c == declared.parts[y].words[1] IN PlaceOf(c) \in Nat /\ PlaceOf(c) <= y
    <2>1. PlaceOf(F[y]) \in 1 .. N /\ PlaceOf(F[y]) <= y
      BY <1>7
    <2>2. F[y] = declared.parts[y].words[1]
      BY <1>10
    <2>3. 1 .. N \subseteq Nat
      <3> HIDE DEF N
      <3> QED
        BY <1>6
    <2> QED
      BY <2>1, <2>2, <2>3
  <1> QED
    BY <1>5, <1>6, <1>9, <1>10, <1>11, <1>12

(* If some arrangement of the columns can be read off the index, the order     *)
(* that is sent can: in it, a column comes after all that come before it in    *)
(* the index.                                                                  *)
LEMMA OrderWithin == DeclaredType /\ StatementLink => OrderIsOfTheIndex
  <1> DEFINE order == statement.order  N == Len(order)
  <1> SUFFICES ASSUME DeclaredType, StatementLink, IsUpToDate, IsOfColumns,
                      statement # None, statement.index # "primaryKey",
                      NEW q \in Arrangements(order), IsReadOff(q)
               PROVE  IsReadOff(order)
    BY DEF OrderIsOfTheIndex
  <1> DEFINE Follows(c, backwards) ==
               (statement.directions[c] = "asc") <=>
                 (declared.ascending[PlaceOf(c)] # backwards)
  <1>1. /\ N \in Nat /\ order \in Seq(STRING) /\ Len(declared.parts) \in Nat
        /\ \A i, j \in 1 .. N : i < j => PlaceOf(order[i]) < PlaceOf(order[j])
        /\ \A i \in 1 .. N : PlaceOf(order[i]) \in 1 .. Len(declared.parts)
        /\ \A y \in 1 .. Len(declared.parts) :
             LET c == declared.parts[y].words[1] IN PlaceOf(c) \in Nat /\ PlaceOf(c) <= y
    BY PlacesIncrease
  <1>2. /\ q \in [1 .. N -> Range(order)] /\ Range(q) = Range(order)
        /\ Range(order) = {order[i] : i \in 1 .. N}
    <2>1. Range(order) = {order[i] : i \in 1 .. N}
      BY <1>1, ListFacts
    <2> QED
      BY <2>1 DEF Arrangements
  <1>3. Len(q) = N /\ Range(q) = {q[i] : i \in 1 .. N}
    <2> DEFINE V == Range(order)
    <2>1. q \in [1 .. N -> V]
      BY <1>2
    <2> HIDE DEF V, N
    <2>2. q \in Seq(V) /\ Len(q) = N
      BY <1>1, <2>1
    <2> QED
      BY <2>2, ListFacts
  <1>4. PICK backwards \in BOOLEAN : \A j \in 1 .. N : q[j] \notin Fixed =>
          /\ Follows(q[j], backwards)
          /\ \A b \in ColumnsBefore(q[j]) \ Fixed : \E i \in 1 .. j - 1 : q[i] = b
    BY <1>3 DEF IsReadOff
  <1>5. ASSUME NEW j \in 1 .. N, order[j] \notin Fixed
        PROVE  /\ Follows(order[j], backwards)
               /\ \A b \in ColumnsBefore(order[j]) \ Fixed :
                    \E i \in 1 .. j - 1 : order[i] = b
    <2>1. PICK k \in 1 .. N : q[k] = order[j]
      BY <1>2, <1>3
    <2>2. Follows(order[j], backwards)
      <3> HIDE DEF Follows
      <3> QED
        BY <1>4, <1>5, <2>1
    <2>3. ASSUME NEW b \in ColumnsBefore(order[j]) \ Fixed
          PROVE  \E i \in 1 .. j - 1 : order[i] = b
      <3>1. PICK l \in 1 .. k - 1 : q[l] = b
        <4> HIDE DEF Follows
        <4> QED
          BY <1>4, <1>5, <2>1, <2>3
      <3>2. l \in 1 .. N
        BY <1>1, <2>1
      <3>3. PICK i \in 1 .. N : order[i] = b
        BY <1>2, <1>3, <3>1, <3>2
      <3>4. PICK y \in 1 .. PlaceOf(order[j]) - 1 : declared.parts[y].words[1] = b
        BY <2>3 DEF ColumnsBefore
      <3>5. PlaceOf(b) < PlaceOf(order[j])
        <4> DEFINE p == PlaceOf(order[j])  r == PlaceOf(b)  M == Len(declared.parts)
        <4>1. M \in Nat /\ p \in 1 .. M /\ y \in 1 .. p - 1
          BY <1>1, <3>4
        <4>2. y \in 1 .. M
          <5> HIDE DEF p, M
          <5> QED
            BY <4>1
        <4>3. r \in Nat /\ r <= y
          BY <1>1, <3>4, <4>2
        <4> HIDE DEF p, r, M
        <4>4. r < p
          BY <4>1, <4>2, <4>3
        <4> QED
          BY <4>4 DEF p, r
      <3>6. i < j
        <4>1. ASSUME i = j PROVE FALSE
          <5> DEFINE p == PlaceOf(order[j])
          <5>1. p \in Nat /\ p < p
            BY <1>1, <3>3, <3>5, <4>1
          <5> HIDE DEF p
          <5> QED
            BY <5>1
        <4>2. ASSUME j < i PROVE FALSE
          <5> DEFINE p == PlaceOf(order[j])  r == PlaceOf(order[i])
          <5>1. p \in Nat /\ r \in Nat /\ p < r /\ r < p
            BY <1>1, <3>3, <3>5, <4>2
          <5> HIDE DEF p, r
          <5> QED
            BY <5>1
        <4> HIDE DEF order, N
        <4> QED
          BY <1>1, <4>1, <4>2
      <3> QED
        <4> HIDE DEF order, N
        <4> QED
          BY <1>1, <3>3, <3>6
    <2> QED
      BY <2>2, <2>3
  <1> QED
    <2> HIDE DEF order
    <2> QED
      BY <1>5 DEF IsReadOff

(* What an index query orders by is read off its index if the columns can be   *)
(* read off it in any order, for any number of parts, orders, directions and   *)
(* declarations.                                                               *)
THEOREM OrdersAreOfTheIndex == Spec => []OrderIsOfTheIndex
  BY Linked, OrderWithin, PTL

--------------------------------------------------------------------------------
(* Answers.                                                                    *)

(* Whatever index the database has, an answer is one to the predicate that was *)
(* written.                                                                    *)
LEMMA AnswerWithin ==
  ASSUME StatementLink, Next, IsAnsweredByIndex, generated.predicate = declared.where
  PROVE  answer'.rows = RowsAskedFor(declared.where)
  <1>1. Answer \/ Refuse
    BY DEF IsAnsweredByIndex, Next, Declare, Generate, Migrate, Ask, AskUnknown, AskByPrimaryKey
  <1>2. ~ Refuse
    BY DEF IsAnsweredByIndex, Refuse, NoAnswer
  <1>3. answer'.rows = Selected
    BY <1>1, <1>2 DEF Answer
  <1>4. statement.predicate = declared.where
    BY DEF IsAnsweredByIndex, StatementLink
  <1> QED
    BY <1>3, <1>4 DEF Selected, RowsAskedFor

(* A database that lags behind the program, or is ahead of it, never changes   *)
(* the rows of an index query silently: one that is answered, with a file that *)
(* has the declared predicate, gives the rows of the conditions and that       *)
(* predicate, whatever the database's index looks like.                        *)
THEOREM DriftIsLoud == Spec => DatabaseDriftIsLoud
  <1> DEFINE Kept == (IsAnsweredByIndex /\ generated.predicate = declared.where) =>
                       answer'.rows = RowsAskedFor(declared.where)
  <1>1. StatementLink /\ Next => Kept
    BY AnswerWithin
  <1>2. DeclaredType /\ StatementLink /\ [Next]_vars => [Kept]_vars
    BY <1>1
  <1> HIDE DEF Kept
  <1>3. Spec => [][Kept]_vars
    BY <1>2, Linked, PTL DEF Spec
  <1> QED
    BY <1>3 DEF Kept, DatabaseDriftIsLoud

(* All columns the file knows of are columns of the table.                     *)
LEMMA FileColumns ==
  ASSUME DeclaredType, IsUpToDate, IsOfColumns
  PROVE  Range(PrimaryKey) \cup DOMAIN generated.columns \subseteq Columns
  <1> DEFINE Q == Indexed(declared)  F == FirstWords(declared)
  <1>1. declared # None
    BY DEF IsUpToDate
  <1>2. /\ Q \in Seq(STRING) /\ AreKeys(Q, F, Len(F))
        /\ \A i \in 1 .. Len(F) : F[i] \in Columns
    BY <1>1, ColumnsOfIndex
  <1>3. Range(Q) \subseteq Columns
    <2>1. Range(Q) = {Q[j] : j \in 1 .. Len(Q)}
      BY <1>2, ListFacts
    <2>2. \A j \in 1 .. Len(Q) : \E i \in 1 .. Len(F) : Q[j] = F[i]
      BY <1>2 DEF AreKeys
    <2> HIDE DEF Q, F
    <2> QED
      BY <1>2, <2>1, <2>2
  <1>4. Range(declared.storing) \subseteq Columns
    BY <1>1, DeclaredFields
  <1> DEFINE partial == IF declared.where = None THEN {} ELSE PredicateColumns[declared.where]
  <1>5. partial \subseteq Columns
    BY <1>1, DeclaredFields, MetadataAssumption DEF MetadataAssumption
  <1>6. generated.columns = ColumnInfo(declared)
    BY DEF IsUpToDate, MetadataObject
  <1>7. DOMAIN ColumnInfo(declared) = Range(Q) \cup Range(declared.storing) \cup partial
    BY DEF ColumnInfo
  <1>8. Range(PrimaryKey) \subseteq Columns
    BY MetadataAssumption DEF MetadataAssumption
  <1> HIDE DEF partial, Q
  <1> QED
    BY <1>3, <1>4, <1>5, <1>6, <1>7, <1>8

(* With everything up to date no query is thrown out, and none is refused.     *)
LEMMA NotRefused ==
  ASSUME DeclaredType, StatementLink, [Next]_vars, IsUpToDate, IsOfColumns
  PROVE  answer'.outcome \notin {"thrown", "refused"} \/ answer' = answer
  <1>1. declared # None /\ generated # None /\ database = declared
        /\ generated.predicate = declared.where
    BY DEF IsUpToDate, MetadataObject
  <1>2. CASE Declare \/ Generate \/ Migrate
    BY <1>2 DEF Declare, Generate, Migrate, NoAnswer
  <1>3. ASSUME NEW minimum \in Minimums, NEW conditions \in ConditionSets,
               NEW keys \in Orders, NEW directions \in Directions(keys),
               Ask(minimum, conditions, keys, directions)
        PROVE  answer' = answer
    <2>1. Selects(OptionsFromMetadata(minimum)) \subseteq Columns
      BY FileColumns DEF Selects, OptionsFromMetadata
    <2> QED
      BY <1>3, <2>1 DEF Ask
  <1>4. ~ AskUnknown
    BY <1>1 DEF AskUnknown
  <1>5. CASE \E conditions \in ConditionSets : AskByPrimaryKey(conditions)
    BY <1>5 DEF AskByPrimaryKey
  <1>6. CASE Answer
    BY <1>6 DEF Answer
  <1>7. ~ Refuse
    BY <1>1 DEF Refuse, HasIndex, StatementLink
  <1>8. CASE UNCHANGED vars
    BY <1>8 DEF vars
  <1> QED
    BY <1>2, <1>3, <1>4, <1>5, <1>6, <1>7, <1>8 DEF Next

(* A query sent to the index fixes the column the index starts with.           *)
LEMMA FixesFirst ==
  ASSUME DeclaredType, Next, IsUpToDate, IsOfColumns, IsSentToIndex, KeepsFirst
  PROVE  declared.parts[1].words[1] \in DOMAIN statement'.conditions
  <1> DEFINE Q == Indexed(declared)  F == FirstWords(declared)
  <1>1. declared # None
    BY DEF IsUpToDate
  <1>2. declared.name # "primaryKey"
    BY <1>1, DeclaredFields
  <1>3. ASSUME NEW conditions \in ConditionSets, AskByPrimaryKey(conditions) PROVE FALSE
    <2>1. statement' = WriteSelect("primaryKey", OptionsOfPrimaryKey, conditions, <<>>, <<>>)
      BY <1>3 DEF AskByPrimaryKey
    <2> QED
      BY <1>2, <2>1, Written DEF IsSentToIndex
  <1>4. PICK minimum \in Minimums, conditions \in ConditionSets, keys \in Orders :
          \E directions \in Directions(keys) : Ask(minimum, conditions, keys, directions)
    BY <1>3 DEF Next, Declare, Generate, Migrate, AskUnknown, Answer, Refuse, IsSentToIndex
  <1>9. PICK directions \in Directions(keys) : Ask(minimum, conditions, keys, directions)
    BY <1>4
  <1> DEFINE options == OptionsFromMetadata(minimum)
  <1>5. statement' = WriteSelect(declared.name, options, conditions, keys, directions)
    BY <1>9 DEF Ask, IsSentToIndex
  <1>6. Range(options.minimum) \subseteq DOMAIN conditions
    BY <1>9 DEF Ask, Admits
  <1>7. declared.parts[1].words[1] \in Range(options.minimum)
    <2>1. CASE minimum # None
      <3>1. options.minimum = minimum
        BY <2>1 DEF OptionsFromMetadata
      <3> QED
        BY <2>1, <3>1 DEF KeepsFirst
    <2>2. CASE minimum = None
      <3>1. options.minimum = SubSeq(Q, 1, 1)
        BY <2>2 DEF OptionsFromMetadata, IsUpToDate, MetadataObject, MinimumSufficient
      <3>2. /\ Q \in Seq(STRING) /\ AreKeys(Q, F, Len(F)) /\ Len(F) > 0
            /\ F \in Seq(STRING)
            /\ \A i \in 1 .. Len(F) : F[i] = declared.parts[i].words[1]
        BY <1>1, ColumnsOfIndex
      <3>3. Len(Q) > 0 /\ Q[1] = F[1]
        BY <3>2 DEF AreKeys
      <3>4. Len(F) \in Nat /\ Len(Q) \in Nat
        BY <3>2, ListFacts
      <3>5. 1 \in 1 .. Len(F) /\ 1 \in 1 .. Len(Q)
        <4> DEFINE m == Len(F)  n == Len(Q)
        <4>1. m \in Nat /\ m > 0 /\ n \in Nat /\ n > 0
          BY <3>2, <3>3, <3>4
        <4> HIDE DEF m, n
        <4>2. 1 \in 1 .. m /\ 1 \in 1 .. n
          BY <4>1
        <4> QED
          BY <4>2 DEF m, n
      <3>6. Q[1] = declared.parts[1].words[1]
        BY <3>2, <3>3, <3>5
      <3> HIDE DEF Q
      <3>7. SubSeq(Q, 1, 1) \in Seq(STRING) /\ Len(SubSeq(Q, 1, 1)) = 1
            /\ SubSeq(Q, 1, 1)[1] = Q[1]
        BY <3>2, <3>5, SubSeqProperties
      <3>8. Range(SubSeq(Q, 1, 1)) = {SubSeq(Q, 1, 1)[j] : j \in 1 .. 1}
        BY <3>7, ListFacts
      <3>9. 1 \in 1 .. 1
        OBVIOUS
      <3> QED
        BY <3>1, <3>6, <3>7, <3>8, <3>9
    <2> QED
      BY <2>1, <2>2
  <1> HIDE DEF options
  <1> QED
    BY <1>5, <1>6, <1>7, Written

(* With program, file and database of one declaration, a query over an index   *)
(* of columns is neither thrown out nor refused, fixes the column the index    *)
(* starts with, and is answered with the rows of the conditions that the index *)
(* has; for any table, index and override of the minimum.                      *)
THEOREM UpToDateIndexServes == Spec => UpToDateIsServed
  <1> DEFINE Served ==
        (IsUpToDate /\ IsOfColumns) =>
          /\ answer'.outcome \notin {"thrown", "refused"} \/ answer' = answer
          /\ IsSentToIndex /\ KeepsFirst =>
               declared.parts[1].words[1] \in DOMAIN statement'.conditions
          /\ IsAnsweredByIndex => answer'.rows = RowsAskedFor(declared.where)
  <1>1. IsUpToDate => generated.predicate = declared.where
    BY DEF IsUpToDate, MetadataObject
  <1>2. DeclaredType /\ StatementLink /\ Next => Served
    BY <1>1, NotRefused, FixesFirst, AnswerWithin
  <1>3. DeclaredType /\ StatementLink /\ [Next]_vars => [Served]_vars
    BY <1>2
  <1> HIDE DEF Served
  <1>4. Spec => [][Served]_vars
    BY <1>3, Linked, PTL DEF Spec
  <1> QED
    BY <1>4 DEF Served, UpToDateIsServed
================================================================================
