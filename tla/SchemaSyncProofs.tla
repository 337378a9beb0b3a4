--------------------------- MODULE SchemaSyncProofs ----------------------------
(***************************************************************************)
(* What is proved of SchemaSync: of any declared table, any database table *)
(* and any options, whatever other actors do; then, of a migration run     *)
(* against the table it was generated for, what its statements do.         *)
(***************************************************************************)
EXTENDS SchemaSync, SequenceLemmas

--------------------------------------------------------------------------------
(* Executing statements: one by one, and one list after another.               *)

LEMMA CourseSteps ==
  ASSUME NEW t, NEW Z, NEW q \in Seq(Z)
  PROVE /\ Course(t, q)[0] = t
        /\ \A n \in 1 .. Len(q) : Course(t, q)[n] = Do(Course(t, q)[n - 1], q[n])
<1> DEFINE N == Len(q)
           Said(g, n) == IF n = 0 THEN t ELSE Do(g[n - 1], q[n])
           IsWalk(g, m) == g = [n \in 0 .. m |-> Said(g, n)]
           Walked == {m \in Nat : \E g : IsWalk(g, m)}
<1>1. N \in Nat
  BY LenProperties
<1>2. ASSUME NEW g, NEW h, NEW n \in Nat, \A m \in 0 .. n - 1 : g[m] = h[m]
      PROVE Said(g, n) = Said(h, n)
  <2>1. CASE n = 0
    BY <2>1
  <2>2. CASE n # 0
    <3>1. n - 1 \in 0 .. n - 1
      BY <2>2
    <3>2. g[n - 1] = h[n - 1]
      BY <3>1, <1>2
    <3> QED  BY <3>2
  <2> QED  BY <2>1, <2>2
<1>3. 0 \in Walked
  <2> DEFINE g == [n \in 0 .. 0 |-> t]
  <2>1. g = [n \in 0 .. 0 |-> Said(g, n)]
    OBVIOUS
  <2> HIDE DEF g
  <2>2. \E h : IsWalk(h, 0)
    BY <2>1
  <2> HIDE DEF IsWalk
  <2> QED  BY <2>2
<1>4. ASSUME NEW m \in Nat, m \in Walked PROVE m + 1 \in Walked
  <2>1. PICK g : IsWalk(g, m)
    <3> HIDE DEF IsWalk
    <3> QED  BY <1>4
  <2> DEFINE h == [n \in 0 .. m + 1 |-> Said(g, n)]
  <2>2. \A n \in 0 .. m : h[n] = g[n]
    <3> HIDE DEF Said
    <3> QED  BY <2>1
  <2>3. ASSUME NEW n \in 0 .. m + 1 PROVE Said(g, n) = Said(h, n)
    <3>1. \A j \in 0 .. n - 1 : g[j] = h[j]
      <4> HIDE DEF h, Said
      <4> QED  BY <2>2
    <3> HIDE DEF h, Said
    <3> QED  BY <3>1, <1>2
  <2>4. h = [n \in 0 .. m + 1 |-> Said(h, n)]
    <3> HIDE DEF Said
    <3> QED  BY <2>3
  <2> HIDE DEF h
  <2>5. \E k : IsWalk(k, m + 1)
    BY <2>4
  <2> HIDE DEF IsWalk
  <2> QED  BY <2>5
<1>5. N \in Walked
  <2> HIDE DEF Walked
  <2> QED  BY <1>1, <1>3, <1>4, NatSetInduction
<1>6. PICK g : IsWalk(g, N)
  <2> HIDE DEF IsWalk
  <2> QED  BY <1>5
<1> DEFINE after == CHOOSE h : h = [n \in 0 .. N |-> Said(h, n)]
<1>7. Course(t, q) = after
  BY DEF Course
<1>8. after = [n \in 0 .. N |-> Said(after, n)]
  <2>1. g = [n \in 0 .. N |-> Said(g, n)]
    BY <1>6
  <2> HIDE DEF Said
  <2> QED  BY <2>1
<1> HIDE DEF after
<1>9. \A n \in 0 .. N : after[n] = Said(after, n)
  <2> HIDE DEF Said
  <2> QED  BY <1>8
<1>10. after[0] = t
  BY <1>1, <1>9
<1>11. \A n \in 1 .. N : after[n] = Do(after[n - 1], q[n])
  <2> SUFFICES ASSUME NEW n \in 1 .. N PROVE after[n] = Do(after[n - 1], q[n])
    OBVIOUS
  <2>1. n # 0 /\ n \in 0 .. N
    BY <1>1
  <2> QED  BY <1>9, <2>1
<1> QED  BY <1>7, <1>10, <1>11

LEMMA ExecuteConcat ==
  ASSUME NEW t, NEW Z, NEW p \in Seq(Z), NEW q \in Seq(Z)
  PROVE Execute(t, p \o q) = Execute(Execute(t, p), q)
<1> DEFINE M == Len(p)  N == Len(q)  pq == p \o q
           whole == Course(t, pq)  first == Course(t, p)  u == first[M]
           second == Course(u, q)
<1>1. /\ M \in Nat /\ N \in Nat /\ pq \in Seq(Z) /\ Len(pq) = M + N
      /\ \A n \in 1 .. M + N : pq[n] = IF n <= M THEN p[n] ELSE q[n - M]
  BY LenProperties, ConcatProperties
<1>2. /\ whole[0] = t
      /\ \A n \in 1 .. M + N : whole[n] = Do(whole[n - 1], pq[n])
  <2> HIDE DEF pq, M, N
  <2>1. /\ Course(t, pq)[0] = t
        /\ \A n \in 1 .. Len(pq) : Course(t, pq)[n] = Do(Course(t, pq)[n - 1], pq[n])
    BY <1>1, CourseSteps
  <2> QED  BY <1>1, <2>1
<1>3. /\ first[0] = t
      /\ \A n \in 1 .. M : first[n] = Do(first[n - 1], p[n])
  BY CourseSteps
<1>4. /\ second[0] = u
      /\ \A n \in 1 .. N : second[n] = Do(second[n - 1], q[n])
  <2> HIDE DEF u
  <2> QED  BY CourseSteps
<1> HIDE DEF M, N, whole, first, second, pq
<1> DEFINE S == {n \in 0 .. M : whole[n] = first[n]}
           T == {n \in 0 .. N : whole[M + n] = second[n]}
<1>5. \A n \in 0 .. M : n \in S
  <2>1. 0 \in S
    BY <1>1, <1>2, <1>3
  <2>2. ASSUME NEW n \in 1 .. M, n - 1 \in S PROVE n \in S
    <3>1. n \in 1 .. M + N /\ n \in 0 .. M /\ n <= M
      BY <1>1
    <3>2. whole[n] = Do(whole[n - 1], p[n])
      BY <1>1, <1>2, <3>1
    <3> QED  BY <1>3, <2>2, <3>1, <3>2
  <2> HIDE DEF S
  <2> QED  BY <1>1, <2>1, <2>2, UpTo
<1>6. whole[M] = u
  BY <1>1, <1>5
<1> HIDE DEF u
<1>7. \A n \in 0 .. N : n \in T
  <2>1. 0 \in T
    BY <1>1, <1>4, <1>6
  <2>2. ASSUME NEW n \in 1 .. N, n - 1 \in T PROVE n \in T
    <3>1. /\ M + n \in 1 .. M + N /\ n \in 0 .. N /\ ~ (M + n <= M)
          /\ (M + n) - M = n /\ (M + n) - 1 = M + (n - 1)
      BY <1>1
    <3>2. whole[M + n] = Do(whole[M + (n - 1)], q[n])
      BY <1>1, <1>2, <3>1
    <3> QED  BY <1>4, <2>2, <3>1, <3>2
  <2> HIDE DEF T
  <2> QED  BY <1>1, <2>1, <2>2, UpTo
<1>8. whole[M + N] = second[N]
  BY <1>1, <1>7
<1> QED  BY <1>1, <1>8 DEF Execute, whole, pq, first, second, u, M, N

LEMMA ExecuteFew ==
  ASSUME NEW t
  PROVE /\ Execute(t, <<>>) = t
        /\ \A st : Execute(t, <<st>>) = Do(t, st)
        /\ \A st, su : Execute(t, <<st, su>>) = Do(Do(t, st), su)
<1>1. Execute(t, <<>>) = t
  <2>1. <<>> \in Seq({})
    OBVIOUS
  <2> QED  BY <2>1, CourseSteps DEF Execute
<1>2. ASSUME NEW st PROVE Execute(t, <<st>>) = Do(t, st)
  <2> DEFINE q == <<st>>
  <2>1. q \in Seq({st}) /\ Len(q) = 1 /\ q[1] = st
    OBVIOUS
  <2> HIDE DEF q
  <2>2. Course(t, q)[0] = t /\ \A n \in 1 .. 1 : Course(t, q)[n] = Do(Course(t, q)[n - 1], q[n])
    BY <2>1, CourseSteps
  <2>3. Course(t, q)[1] = Do(Course(t, q)[0], st)
    BY <2>1, <2>2
  <2> QED  BY <2>1, <2>2, <2>3 DEF Execute, q
<1>3. ASSUME NEW st, NEW su PROVE Execute(t, <<st, su>>) = Do(Do(t, st), su)
  <2> DEFINE q == <<st, su>>  Z == {st, su}
  <2>1. q \in Seq(Z) /\ Len(q) = 2 /\ q[1] = st /\ q[2] = su
    OBVIOUS
  <2> HIDE DEF q, Z
  <2>2. /\ Course(t, q)[0] = t
        /\ \A n \in 1 .. Len(q) : Course(t, q)[n] = Do(Course(t, q)[n - 1], q[n])
    BY <2>1, CourseSteps
  <2>3. 1 \in 1 .. Len(q) /\ 2 \in 1 .. Len(q) /\ 1 - 1 = 0 /\ 2 - 1 = 1
    BY <2>1
  <2>4. Course(t, q)[1] = Do(Course(t, q)[0], st)
    BY <2>1, <2>2, <2>3
  <2>5. Course(t, q)[2] = Do(Course(t, q)[1], su)
    BY <2>1, <2>2, <2>3
  <2> QED  BY <2>1, <2>2, <2>4, <2>5 DEF Execute, q
<1> QED  BY <1>1, <1>2, <1>3

--------------------------------------------------------------------------------
(* Steps: their ups in order, their downs in reverse.                          *)

StepsOver(W) == Seq([up : W, down : Seq(W)])

LEMMA UpsAndDowns ==
  ASSUME NEW W, NEW p \in StepsOver(W)
  PROVE /\ Ups(p) \in Seq(W) /\ Downs(p) \in Seq(W)
        /\ ToSet(Ups(p)) = {x.up : x \in ToSet(p)}
        /\ ToSet(Downs(p)) = UNION {ToSet(x.down) : x \in ToSet(p)}
<1> DEFINE N == Len(p)  ds == [j \in 1 .. N |-> p[j].down]
<1>1. N \in Nat /\ DOMAIN p = 1 .. N /\ \A j \in 1 .. N : p[j].up \in W /\ p[j].down \in Seq(W)
  <2>1. \A j \in 1 .. N : p[j] \in [up : W, down : Seq(W)]
    BY ElementOfSeq DEF StepsOver
  <2> QED  BY <2>1, LenProperties DEF StepsOver
<1> HIDE DEF N
<1>2. Ups(p) = [j \in 1 .. N |-> p[j].up]
  BY DEF Ups, N
<1>3. Ups(p) \in Seq(W)
  BY <1>1, <1>2
<1>4. ToSet(Ups(p)) = {x.up : x \in ToSet(p)}
  BY <1>1, <1>2 DEF ToSet
<1>5. ds \in Seq(Seq(W)) /\ Len(ds) = N /\ \A j \in 1 .. N : ds[j] = p[j].down
  BY <1>1
<1>6. Downs(p) = FlattenSeq(Reverse(ds))
  BY DEF Downs, N
<1> HIDE DEF ds
<1>7. /\ Reverse(ds) \in Seq(Seq(W)) /\ Len(Reverse(ds)) = N
      /\ \A j \in 1 .. N : Reverse(ds)[j] = ds[(N - j) + 1]
  BY <1>5, ReverseIsSeq
<1>8. Downs(p) \in Seq(W)
  <2>1. PICK flat : flat \in [0 .. N -> Seq(W)] /\ FlattenSeq(Reverse(ds)) = flat[N]
    BY <1>7, Flattening
  <2> QED  BY <1>1, <1>6, <2>1
<1>9. ToSet(Downs(p)) = UNION {ToSet(Reverse(ds)[j]) : j \in 1 .. N}
  BY <1>6, <1>7, ToSetFlatten
<1>10. ASSUME NEW st PROVE st \in ToSet(Downs(p)) <=> \E x \in ToSet(p) : st \in ToSet(x.down)
  <2>1. st \in ToSet(Downs(p)) <=> \E j \in 1 .. N : st \in ToSet(Reverse(ds)[j])
    BY <1>9, Zenon
  <2>2. ASSUME NEW j \in 1 .. N, st \in ToSet(Reverse(ds)[j])
        PROVE \E x \in ToSet(p) : st \in ToSet(x.down)
    <3>1. (N - j) + 1 \in 1 .. N
      BY <1>1
    <3>2. p[(N - j) + 1] \in ToSet(p) /\ st \in ToSet(p[(N - j) + 1].down)
      BY <1>1, <1>5, <1>7, <2>2, <3>1 DEF ToSet
    <3> QED  BY <3>2
  <2>3. ASSUME NEW x \in ToSet(p), st \in ToSet(x.down)
        PROVE \E j \in 1 .. N : st \in ToSet(Reverse(ds)[j])
    <3>1. PICK k \in 1 .. N : x = p[k]
      BY <1>1 DEF ToSet
    <3>2. (N - k) + 1 \in 1 .. N /\ (N - ((N - k) + 1)) + 1 = k
      BY <1>1
    <3>3. Reverse(ds)[(N - k) + 1] = x.down
      BY <1>5, <1>7, <3>1, <3>2
    <3> QED  BY <2>3, <3>2, <3>3
  <2> QED  BY <2>1, <2>2, <2>3
<1>11. ToSet(Downs(p)) = UNION {ToSet(x.down) : x \in ToSet(p)}
  BY <1>10
<1> QED  BY <1>3, <1>4, <1>8, <1>11

LEMMA UpsAndDownsConcat ==
  ASSUME NEW W, NEW p \in StepsOver(W), NEW q \in StepsOver(W)
  PROVE /\ p \o q \in StepsOver(W)
        /\ Ups(p \o q) = Ups(p) \o Ups(q)
        /\ Downs(p \o q) = Downs(q) \o Downs(p)
<1> DEFINE M == Len(p)  N == Len(q)  pq == p \o q
           Z == [up : W, down : Seq(W)]
           DownsOf(a) == [j \in 1 .. Len(a) |-> a[j].down]
<1>1. /\ M \in Nat /\ N \in Nat /\ pq \in Seq(Z) /\ Len(pq) = M + N
      /\ \A n \in 1 .. M + N : pq[n] = IF n <= M THEN p[n] ELSE q[n - M]
  BY LenProperties, ConcatProperties DEF StepsOver
<1>2. /\ \A j \in 1 .. M : p[j].up \in W /\ p[j].down \in Seq(W)
      /\ \A j \in 1 .. N : q[j].up \in W /\ q[j].down \in Seq(W)
  <2>1. /\ \A j \in 1 .. M : p[j] \in Z
        /\ \A j \in 1 .. N : q[j] \in Z
    BY ElementOfSeq DEF StepsOver
  <2> QED  BY <2>1
<1> HIDE DEF M, N, pq, Z
<1>3. /\ Ups(p) \in Seq(W) /\ Len(Ups(p)) = M /\ \A j \in 1 .. M : Ups(p)[j] = p[j].up
      /\ Ups(q) \in Seq(W) /\ Len(Ups(q)) = N /\ \A j \in 1 .. N : Ups(q)[j] = q[j].up
  BY <1>1, <1>2 DEF Ups, M, N
<1>4. /\ DownsOf(p) \in Seq(Seq(W)) /\ Len(DownsOf(p)) = M
      /\ \A j \in 1 .. M : DownsOf(p)[j] = p[j].down
      /\ DownsOf(q) \in Seq(Seq(W)) /\ Len(DownsOf(q)) = N
      /\ \A j \in 1 .. N : DownsOf(q)[j] = q[j].down
  BY <1>1, <1>2 DEF M, N
<1>5. ASSUME NEW n \in 1 .. M + N
      PROVE /\ n <= M => n \in 1 .. M
            /\ ~ (n <= M) => n - M \in 1 .. N
            /\ pq[n].up \in W /\ pq[n].down \in Seq(W)
  <2>1. (n <= M => n \in 1 .. M) /\ (~ (n <= M) => n - M \in 1 .. N)
    BY <1>1
  <2> QED  BY <1>1, <1>2, <2>1
<1>6. Ups(pq) = Ups(p) \o Ups(q)
  <2> DEFINE left == Ups(pq)  right == Ups(p) \o Ups(q)
  <2>1. left \in Seq(W) /\ Len(left) = M + N /\ \A n \in 1 .. M + N : left[n] = pq[n].up
    <3> DEFINE m == M + N
    <3>1. left = [n \in 1 .. m |-> pq[n].up] /\ m \in Nat /\ \A n \in 1 .. m : pq[n].up \in W
      BY <1>1, <1>5 DEF Ups
    <3> HIDE DEF m, left
    <3>2. left \in Seq(W) /\ Len(left) = m /\ \A n \in 1 .. m : left[n] = pq[n].up
      BY <3>1
    <3> QED  BY <3>2 DEF m
  <2>2. /\ right \in Seq(W) /\ Len(right) = M + N
        /\ \A n \in 1 .. M + N : right[n] = IF n <= M THEN Ups(p)[n] ELSE Ups(q)[n - M]
    BY <1>3, ConcatProperties
  <2> HIDE DEF left, right
  <2>3. ASSUME NEW n \in 1 .. M + N PROVE left[n] = right[n]
    <3>1. left[n] = pq[n].up /\ right[n] = IF n <= M THEN Ups(p)[n] ELSE Ups(q)[n - M]
      BY <2>1, <2>2, Zenon
    <3>2. pq[n] = IF n <= M THEN p[n] ELSE q[n - M]
      BY <1>1, Zenon
    <3>3. CASE n <= M
      BY <1>3, <1>5, <3>1, <3>2, <3>3, Zenon
    <3>4. CASE ~ (n <= M)
      BY <1>3, <1>5, <3>1, <3>2, <3>4, Zenon
    <3> QED  BY <3>3, <3>4, Zenon
  <2>4. left = right
    BY <2>1, <2>2, <2>3, SeqEqual
  <2> QED  BY <2>4 DEF left, right
<1>7. DownsOf(pq) = DownsOf(p) \o DownsOf(q)
  <2> DEFINE left == DownsOf(pq)  right == DownsOf(p) \o DownsOf(q)
  <2>1. /\ left \in Seq(Seq(W)) /\ Len(left) = M + N
        /\ \A n \in 1 .. M + N : left[n] = pq[n].down
    BY <1>1, <1>5
  <2> HIDE DEF DownsOf
  <2>2. /\ right \in Seq(Seq(W)) /\ Len(right) = M + N
        /\ \A n \in 1 .. M + N : right[n] = IF n <= M THEN DownsOf(p)[n] ELSE DownsOf(q)[n - M]
    BY <1>4, ConcatProperties
  <2> HIDE DEF left, right
  <2>3. ASSUME NEW n \in 1 .. M + N PROVE left[n] = right[n]
    <3>1. left[n] = pq[n].down /\ right[n] = IF n <= M THEN DownsOf(p)[n] ELSE DownsOf(q)[n - M]
      BY <2>1, <2>2, Zenon
    <3>2. pq[n] = IF n <= M THEN p[n] ELSE q[n - M]
      BY <1>1, Zenon
    <3>3. CASE n <= M
      BY <1>4, <1>5, <3>1, <3>2, <3>3, Zenon
    <3>4. CASE ~ (n <= M)
      BY <1>4, <1>5, <3>1, <3>2, <3>4, Zenon
    <3> QED  BY <3>3, <3>4, Zenon
  <2>4. left = right
    BY <2>1, <2>2, <2>3, SeqEqual
  <2> QED  BY <2>4 DEF left, right
<1>8. \A a : Downs(a) = FlattenSeq(Reverse(DownsOf(a)))
  BY DEF Downs
<1> HIDE DEF DownsOf
<1>9. Downs(pq) = Downs(q) \o Downs(p)
  <2>1. Reverse(DownsOf(pq)) = Reverse(DownsOf(q)) \o Reverse(DownsOf(p))
    BY <1>4, <1>7, ReverseConcat
  <2>2. Reverse(DownsOf(q)) \in Seq(Seq(W)) /\ Reverse(DownsOf(p)) \in Seq(Seq(W))
    BY <1>4, ReverseIsSeq
  <2>3. FlattenSeq(Reverse(DownsOf(q)) \o Reverse(DownsOf(p)))
          = FlattenSeq(Reverse(DownsOf(q))) \o FlattenSeq(Reverse(DownsOf(p)))
    BY <2>2, FlattenConcat
  <2> QED  BY <1>8, <2>1, <2>3
<1> QED  BY <1>1, <1>6, <1>9 DEF pq, Z, StepsOver

LEMMA UpsAndDownsFew ==
  /\ Ups(<<>>) = <<>> /\ Downs(<<>>) = <<>>
  /\ \A up, down : Ups(<<Step(up, down)>>) = <<up>> /\ Downs(<<Step(up, down)>>) = <<down>>
<1>1. Ups(<<>>) = <<>>
  BY DEF Ups
<1>2. Downs(<<>>) = <<>>
  <2>1. [j \in 1 .. Len(<<>>) |-> <<>>[j].down] = <<>>
    OBVIOUS
  <2>2. Reverse(<<>>) = <<>>
    BY DEF Reverse
  <2> QED  BY <2>1, <2>2, FlattenFew DEF Downs
<1>3. ASSUME NEW up, NEW down
      PROVE Ups(<<Step(up, down)>>) = <<up>> /\ Downs(<<Step(up, down)>>) = <<down>>
  <2> DEFINE x == Step(up, down)  d == <<down>>
  <2>1. x.up = up /\ x.down = d
    BY DEF Step
  <2> HIDE DEF x, d
  <2>2. Ups(<<x>>) = <<up>>
    BY <2>1 DEF Ups
  <2>3. [j \in 1 .. Len(<<x>>) |-> <<x>>[j].down] = <<d>>
    BY <2>1
  <2>4. Reverse(<<d>>) = <<d>>
    BY DEF Reverse
  <2>5. FlattenSeq(<<d>>) = d
    <3>1. d \in Seq({down})
      BY DEF d
    <3> QED  BY <3>1, FlattenFew
  <2> QED  BY <2>2, <2>3, <2>4, <2>5 DEF Downs, x, d
<1> QED  BY <1>1, <1>2, <1>3

--------------------------------------------------------------------------------
(* Steps in order: what holds of none of a set's elements and is passed on by   *)
(* the steps of each holds of all of them, whichever comes first.              *)

IsWalk(steps, Z, q, flat) ==
  /\ q \in Seq(DOMAIN steps) /\ Len(q) \in Nat
  /\ \A j, k \in 1 .. Len(q) : q[j] = q[k] => j = k
  /\ DOMAIN steps = {q[j] : j \in 1 .. Len(q)}
  /\ flat \in [0 .. Len(q) -> Seq(Z)] /\ flat[0] = <<>>
  /\ \A n \in 1 .. Len(q) : flat[n] = flat[n - 1] \o steps[q[n]]
  /\ InOrder(steps) = flat[Len(q)]
  /\ ToSet(InOrder(steps)) = UNION {ToSet(steps[q[j]]) : j \in 1 .. Len(q)}

LEMMA InOrderWalk ==
  ASSUME NEW Z, NEW steps, IsFiniteSet(DOMAIN steps),
         \A c \in DOMAIN steps : steps[c] \in Seq(Z)
  PROVE \E q, flat : IsWalk(steps, Z, q, flat)
<1> DEFINE D == DOMAIN steps  q == SetToSeq(D)  N == Len(q)
           qs == [j \in 1 .. N |-> steps[q[j]]]
<1>1. /\ q \in Seq(D) /\ N \in Nat
      /\ \A j, k \in 1 .. N : q[j] = q[k] => j = k
      /\ D = {q[j] : j \in 1 .. N}
  BY SetAsSeq
<1>2. InOrder(steps) = FlattenSeq(qs)
  BY DEF InOrder
<1> HIDE DEF q, N, D
<1>3. qs \in Seq(Seq(Z)) /\ Len(qs) = N /\ \A j \in 1 .. N : qs[j] = steps[q[j]]
  <2>1. \A j \in 1 .. N : steps[q[j]] \in Seq(Z)
    BY <1>1 DEF D
  <2> QED  BY <1>1, <2>1
<1> HIDE DEF qs
<1>4. PICK flat : /\ flat \in [0 .. N -> Seq(Z)] /\ flat[0] = <<>>
                  /\ \A n \in 1 .. N : flat[n] = flat[n - 1] \o qs[n]
                  /\ FlattenSeq(qs) = flat[N]
  BY <1>3, Flattening
<1>5. \A n \in 1 .. N : flat[n] = flat[n - 1] \o steps[q[n]]
  BY <1>3, <1>4
<1>6. ToSet(InOrder(steps)) = UNION {ToSet(qs[j]) : j \in 1 .. N}
  BY <1>2, <1>3, ToSetFlatten
<1>7. UNION {ToSet(qs[j]) : j \in 1 .. N} = UNION {ToSet(steps[q[j]]) : j \in 1 .. N}
  BY <1>3
<1>8. IsWalk(steps, Z, q, flat)
  BY <1>1, <1>2, <1>4, <1>5, <1>6, <1>7 DEF D, N, IsWalk
<1> QED  BY <1>8

LEMMA InOrderSteps ==
  ASSUME NEW Z, NEW steps, IsFiniteSet(DOMAIN steps),
         \A c \in DOMAIN steps : steps[c] \in Seq(Z)
  PROVE /\ InOrder(steps) \in Seq(Z)
        /\ \A x : x \in ToSet(InOrder(steps)) <=> \E c \in DOMAIN steps : x \in ToSet(steps[c])
<1>1. PICK q, flat : IsWalk(steps, Z, q, flat)
  BY InOrderWalk
<1>2. InOrder(steps) \in Seq(Z)
  BY <1>1 DEF IsWalk
<1>3. ASSUME NEW x
      PROVE x \in ToSet(InOrder(steps)) <=> \E c \in DOMAIN steps : x \in ToSet(steps[c])
  <2>1. x \in ToSet(InOrder(steps)) <=> \E j \in 1 .. Len(q) : x \in ToSet(steps[q[j]])
    BY <1>1, Zenon DEF IsWalk
  <2>2. ASSUME NEW c \in DOMAIN steps PROVE \E j \in 1 .. Len(q) : q[j] = c
    BY <1>1 DEF IsWalk
  <2>3. \A j \in 1 .. Len(q) : q[j] \in DOMAIN steps
    BY <1>1 DEF IsWalk
  <2> QED  BY <2>1, <2>2, <2>3
<1> QED  BY <1>2, <1>3

LEMMA InOrderExecutes ==
  ASSUME NEW W, NEW steps, IsFiniteSet(DOMAIN steps),
         \A c \in DOMAIN steps : steps[c] \in StepsOver(W),
         NEW T, NEW t \in T[{}],
         \A C \in SUBSET DOMAIN steps : \A c \in DOMAIN steps \ C : \A u \in T[C] :
           Execute(u, Ups(steps[c])) \in T[C \cup {c}]
  PROVE Execute(t, Ups(InOrder(steps))) \in T[DOMAIN steps]
<1> DEFINE Z == [up : W, down : Seq(W)]  D == DOMAIN steps
<1>1. \A c \in D : steps[c] \in Seq(Z)
  BY DEF StepsOver
<1> HIDE DEF Z
<1>2. PICK q, flat : IsWalk(steps, Z, q, flat)
  BY <1>1, InOrderWalk
<1>3. /\ q \in Seq(D) /\ Len(q) \in Nat
      /\ \A j, k \in 1 .. Len(q) : q[j] = q[k] => j = k
      /\ D = {q[j] : j \in 1 .. Len(q)}
      /\ flat \in [0 .. Len(q) -> StepsOver(W)] /\ flat[0] = <<>>
      /\ \A n \in 1 .. Len(q) : flat[n] = flat[n - 1] \o steps[q[n]]
      /\ InOrder(steps) = flat[Len(q)]
  BY <1>2 DEF IsWalk, Z, StepsOver
<1> DEFINE N == Len(q)  Past(n) == {q[j] : j \in 1 .. n}
           A == {n \in 0 .. N : Execute(t, Ups(flat[n])) \in T[Past(n)]}
<1> HIDE DEF N
<1>4. 0 \in A
  <2>1. Past(0) = {} /\ 0 \in 0 .. N
    BY <1>3 DEF N
  <2>2. Execute(t, Ups(flat[0])) = t
    BY <1>3, UpsAndDownsFew, ExecuteFew, Zenon
  <2> QED  BY <2>1, <2>2
<1>5. ASSUME NEW n \in 1 .. N, n - 1 \in A PROVE n \in A
  <2>1. n \in 0 .. N /\ n - 1 \in 0 .. N /\ \A j : j \in 1 .. n <=> j \in 1 .. (n - 1) \/ j = n
    BY <1>3 DEF N
  <2>2. Past(n) = Past(n - 1) \cup {q[n]}
    <3>1. \A c : c \in Past(n) <=> \E j \in 1 .. n : c = q[j]
      BY Zenon
    <3>2. \A c : c \in Past(n - 1) <=> \E j \in 1 .. (n - 1) : c = q[j]
      BY Zenon
    <3> HIDE DEF Past
    <3>3. \A c : c \in Past(n) <=> c \in Past(n - 1) \/ c = q[n]
      BY <2>1, <3>1, <3>2, Zenon
    <3> QED  BY <3>3
  <2>3. q[n] \in D /\ Past(n - 1) \in SUBSET D /\ q[n] \notin Past(n - 1)
    <3>1. \A j \in 1 .. (n - 1) : j \in 1 .. N /\ j # n
      BY <1>3 DEF N
    <3>2. \A j \in 1 .. N : q[j] \in D
      BY <1>3 DEF N
    <3>3. \A j \in 1 .. (n - 1) : q[j] \in D /\ q[j] # q[n]
      BY <1>3, <3>1, <3>2 DEF N
    <3> HIDE DEF D
    <3> QED  BY <3>2, <3>3
  <2> DEFINE u == Execute(t, Ups(flat[n - 1]))  p == flat[n - 1]  r == steps[q[n]]
  <2>4. u \in T[Past(n - 1)]
    BY <1>5
  <2>5. Execute(u, Ups(r)) \in T[Past(n)]
    <3> HIDE DEF u, Past
    <3> QED  BY <2>2, <2>3, <2>4
  <2>6. p \in StepsOver(W) /\ r \in StepsOver(W)
    BY <1>3, <2>1, <2>3 DEF N
  <2>7. Execute(t, Ups(flat[n])) = Execute(u, Ups(r))
    <3>1. flat[n] = p \o r
      BY <1>3 DEF N
    <3> HIDE DEF p, r
    <3>2. Ups(p \o r) = Ups(p) \o Ups(r) /\ Ups(p) \in Seq(W) /\ Ups(r) \in Seq(W)
      BY <2>6, UpsAndDowns, UpsAndDownsConcat
    <3>3. Execute(t, Ups(p) \o Ups(r)) = Execute(Execute(t, Ups(p)), Ups(r))
      BY <3>2, ExecuteConcat
    <3> QED  BY <3>1, <3>2, <3>3 DEF p
  <2> HIDE DEF u, p, r, Past
  <2> QED  BY <2>1, <2>5, <2>7
<1>6. N \in A
  <2>1. N \in Nat
    BY <1>3 DEF N
  <2>2. \A n \in 0 .. N : n \in A
    <3> HIDE DEF A
    <3> QED  BY <1>4, <1>5, <2>1, UpTo
  <2> HIDE DEF A
  <2> QED  BY <2>1, <2>2
<1> QED  BY <1>3, <1>6 DEF N

LEMMA InOrderUndoes ==
  ASSUME NEW W, NEW steps, IsFiniteSet(DOMAIN steps),
         \A c \in DOMAIN steps : steps[c] \in StepsOver(W),
         NEW T, NEW t \in T[DOMAIN steps],
         \A C \in SUBSET DOMAIN steps : \A c \in DOMAIN steps \ C : \A u \in T[C \cup {c}] :
           Execute(u, Downs(steps[c])) \in T[C]
  PROVE Execute(t, Downs(InOrder(steps))) \in T[{}]
<1> DEFINE Z == [up : W, down : Seq(W)]  D == DOMAIN steps
<1>1. \A c \in D : steps[c] \in Seq(Z)
  BY DEF StepsOver
<1> HIDE DEF Z
<1>2. PICK q, flat : IsWalk(steps, Z, q, flat)
  BY <1>1, InOrderWalk
<1>3. /\ q \in Seq(D) /\ Len(q) \in Nat
      /\ \A j, k \in 1 .. Len(q) : q[j] = q[k] => j = k
      /\ D = {q[j] : j \in 1 .. Len(q)}
      /\ flat \in [0 .. Len(q) -> StepsOver(W)] /\ flat[0] = <<>>
      /\ \A n \in 1 .. Len(q) : flat[n] = flat[n - 1] \o steps[q[n]]
      /\ InOrder(steps) = flat[Len(q)]
  BY <1>2 DEF IsWalk, Z, StepsOver
<1> DEFINE N == Len(q)  Past(n) == {q[j] : j \in 1 .. n}
           A == {n \in 0 .. N : \A u \in T[Past(n)] : Execute(u, Downs(flat[n])) \in T[{}]}
<1> HIDE DEF N
<1>4. 0 \in A
  <2>1. Past(0) = {} /\ 0 \in 0 .. N
    BY <1>3 DEF N
  <2>2. \A u : Execute(u, Downs(flat[0])) = u
    BY <1>3, UpsAndDownsFew, ExecuteFew, Zenon
  <2> QED  BY <2>1, <2>2
<1>5. ASSUME NEW n \in 1 .. N, n - 1 \in A PROVE n \in A
  <2>1. n \in 0 .. N /\ n - 1 \in 0 .. N /\ \A j : j \in 1 .. n <=> j \in 1 .. (n - 1) \/ j = n
    BY <1>3 DEF N
  <2>2. Past(n) = Past(n - 1) \cup {q[n]}
    <3>1. \A c : c \in Past(n) <=> \E j \in 1 .. n : c = q[j]
      BY Zenon
    <3>2. \A c : c \in Past(n - 1) <=> \E j \in 1 .. (n - 1) : c = q[j]
      BY Zenon
    <3> HIDE DEF Past
    <3>3. \A c : c \in Past(n) <=> c \in Past(n - 1) \/ c = q[n]
      BY <2>1, <3>1, <3>2, Zenon
    <3> QED  BY <3>3
  <2>3. q[n] \in D /\ Past(n - 1) \in SUBSET D /\ q[n] \notin Past(n - 1)
    <3>1. \A j \in 1 .. (n - 1) : j \in 1 .. N /\ j # n
      BY <1>3 DEF N
    <3>2. \A j \in 1 .. N : q[j] \in D
      BY <1>3 DEF N
    <3>3. \A j \in 1 .. (n - 1) : q[j] \in D /\ q[j] # q[n]
      BY <1>3, <3>1, <3>2 DEF N
    <3> HIDE DEF D
    <3> QED  BY <3>2, <3>3
  <2> SUFFICES ASSUME NEW u \in T[Past(n)] PROVE Execute(u, Downs(flat[n])) \in T[{}]
    BY <2>1
  <2> DEFINE p == flat[n - 1]  r == steps[q[n]]
  <2>4. Execute(u, Downs(r)) \in T[Past(n - 1)]
    <3> HIDE DEF Past
    <3> QED  BY <2>2, <2>3
  <2>5. Execute(Execute(u, Downs(r)), Downs(p)) \in T[{}]
    BY <1>5, <2>4
  <2>6. p \in StepsOver(W) /\ r \in StepsOver(W)
    BY <1>3, <2>1, <2>3 DEF N
  <2>7. Execute(u, Downs(flat[n])) = Execute(Execute(u, Downs(r)), Downs(p))
    <3>1. flat[n] = p \o r
      BY <1>3 DEF N
    <3> HIDE DEF p, r
    <3>2. /\ Downs(p \o r) = Downs(r) \o Downs(p)
          /\ Downs(p) \in Seq(W) /\ Downs(r) \in Seq(W)
      BY <2>6, UpsAndDowns, UpsAndDownsConcat
    <3>3. Execute(u, Downs(r) \o Downs(p)) = Execute(Execute(u, Downs(r)), Downs(p))
      BY <3>2, ExecuteConcat
    <3> QED  BY <3>1, <3>2, <3>3
  <2> HIDE DEF p, r
  <2> QED  BY <2>5, <2>7
<1>6. N \in A
  <2>1. N \in Nat
    BY <1>3 DEF N
  <2>2. \A n \in 0 .. N : n \in A
    <3> HIDE DEF A
    <3> QED  BY <1>4, <1>5, <2>1, UpTo
  <2> HIDE DEF A
  <2> QED  BY <2>1, <2>2
<1> QED  BY <1>3, <1>6 DEF N

--------------------------------------------------------------------------------
(* The steps of a migration, and what they are made of.                        *)

AnyColumn == [kind : DbKind \cup {"unknown"}, nullable : BOOLEAN,
              default : Text \cup {None}, computed : Text \cup {None}]

(* What a step may say: of a column added, the type may be unknown.            *)
AnyStatement ==
       [op : {"CREATE TABLE"}, columns : [Column -> ColumnDef \cup {None}], key : SUBSET Column]
  \cup [op : {"DROP TABLE"}]
  \cup [op : {"ADD COLUMN"}, column : Column, def : AnyColumn]
  \cup [op : {"DROP COLUMN"}, column : Column]
  \cup [op : {"SET DATA TYPE"}, column : Column, kind : DbKind]
  \cup [op : {"SET NULLABLE"}, column : Column, nullable : BOOLEAN]
  \cup [op : {"ALTER PRIMARY KEY"}, columns : SUBSET Column]
  \cup [op : {"DROP INDEX"}, index : Index]
  \cup [op : {"CREATE INDEX"}, index : Index, def : IndexDef, quotes : BOOLEAN]

AnyStep == [up : AnyStatement, down : Seq(AnyStatement)]

(* A table to declare, options, and a snapshot the diff accepts.               *)
Legal(s, o, n) ==
  /\ s \in Table /\ IsDeclarable(s) /\ o \in Options /\ n \in Snapshot
  /\ o.on /\ n.exists => ~ DiffThrows(s, o, n)

DropBlock(s, n)   == [c \in ExtraColumns(s, n) |-> <<DropColumn(c, n.columns[c])>>]
AddBlock(s, o, n) == [c \in MissingColumns(s, o, n) |-> <<AddColumn(c, s.columns[c])>>]
ModifyBlock(s, o, n) ==
  [c \in ModifiedColumns(s, o, n) |-> ModifyColumn(c, s.columns[c], n.columns[c])]
NewIndexBlock(s, o, n) ==
  [i \in MissingIndexes(s, o, n) |-> <<CreateIndex(i, s.indexes[i])>>]
OldIndexBlock(s, o, n) ==
  [i \in ExtraIndexes(s, o, n) |-> <<DropIndex(i, n.indexes[i])>>]
FirstIndexBlock(s) ==
  [i \in Has(s.indexes) |->
     <<[up |-> CreateIndexSql(i, s.indexes[i], TRUE), down |-> <<>>]>>]

LEMMA StatementsAre ==
  /\ \A s \in Table : CreateTableSql(s) \in AnyStatement
  /\ DropTableSql \in AnyStatement
  /\ \A c \in Column, d \in AnyColumn : AddColumnSql(c, d) \in AnyStatement
  /\ \A c \in Column : DropColumnSql(c) \in AnyStatement
  /\ \A c \in Column, k \in DbKind : SetTypeSql(c, k) \in AnyStatement
  /\ \A c \in Column, b \in BOOLEAN : SetNullSql(c, b) \in AnyStatement
  /\ \A cs \in SUBSET Column : AlterKeySql(cs) \in AnyStatement
  /\ \A i \in Index : DropIndexSql(i) \in AnyStatement
  /\ \A i \in Index, d \in IndexDef, b \in BOOLEAN : CreateIndexSql(i, d, b) \in AnyStatement
<1>1. \A s \in Table : CreateTableSql(s) \in AnyStatement
  BY DEF CreateTableSql, AnyStatement, Table
<1>2. DropTableSql \in AnyStatement
  BY DEF DropTableSql, AnyStatement
<1>3. \A c \in Column, d \in AnyColumn : AddColumnSql(c, d) \in AnyStatement
  BY DEF AddColumnSql, AnyStatement
<1>4. \A c \in Column : DropColumnSql(c) \in AnyStatement
  BY DEF DropColumnSql, AnyStatement
<1>5. \A c \in Column, k \in DbKind : SetTypeSql(c, k) \in AnyStatement
  BY DEF SetTypeSql, AnyStatement
<1>6. \A c \in Column, b \in BOOLEAN : SetNullSql(c, b) \in AnyStatement
  BY DEF SetNullSql, AnyStatement
<1>7. \A cs \in SUBSET Column : AlterKeySql(cs) \in AnyStatement
  BY DEF AlterKeySql, AnyStatement
<1>8. \A i \in Index : DropIndexSql(i) \in AnyStatement
  BY DEF DropIndexSql, AnyStatement
<1>9. \A i \in Index, d \in IndexDef, b \in BOOLEAN : CreateIndexSql(i, d, b) \in AnyStatement
  BY DEF CreateIndexSql, AnyStatement
<1> QED  BY <1>1, <1>2, <1>3, <1>4, <1>5, <1>6, <1>7, <1>8, <1>9

(* Statements by their fields.                                                 *)
LEMMA AddColumnSays ==
  /\ \A c, d : AddColumnSql(c, d).op = "ADD COLUMN"
  /\ \A c, d : AddColumnSql(c, d).column = c
  /\ \A c, d : AddColumnSql(c, d).def = d
BY DEF AddColumnSql

LEMMA DropColumnSays ==
  \A c : DropColumnSql(c).op = "DROP COLUMN" /\ DropColumnSql(c).column = c
BY DEF DropColumnSql

LEMMA SetTypeSays ==
  /\ \A c, k : SetTypeSql(c, k).op = "SET DATA TYPE"
  /\ \A c, k : SetTypeSql(c, k).column = c
  /\ \A c, k : SetTypeSql(c, k).kind = k
BY DEF SetTypeSql

LEMMA SetNullSays ==
  /\ \A c, b : SetNullSql(c, b).op = "SET NULLABLE"
  /\ \A c, b : SetNullSql(c, b).column = c
  /\ \A c, b : SetNullSql(c, b).nullable = b
BY DEF SetNullSql

LEMMA AlterKeySays ==
  \A cs : AlterKeySql(cs).op = "ALTER PRIMARY KEY" /\ AlterKeySql(cs).columns = cs
BY DEF AlterKeySql

LEMMA DropIndexSays ==
  \A i : DropIndexSql(i).op = "DROP INDEX" /\ DropIndexSql(i).index = i
BY DEF DropIndexSql

LEMMA CreateIndexSays ==
  /\ \A i, d, b : CreateIndexSql(i, d, b).op = "CREATE INDEX"
  /\ \A i, d, b : CreateIndexSql(i, d, b).index = i
  /\ \A i, d, b : CreateIndexSql(i, d, b).def = d
  /\ \A i, d, b : CreateIndexSql(i, d, b).quotes = b
BY DEF CreateIndexSql

LEMMA OneStep ==
  ASSUME NEW up \in AnyStatement, NEW down \in AnyStatement
  PROVE Step(up, down) \in AnyStep /\ <<Step(up, down)>> \in Seq(AnyStep)
<1>1. <<down>> \in Seq(AnyStatement)
  OBVIOUS
<1>2. Step(up, down) \in AnyStep
  BY <1>1 DEF Step, AnyStep
<1> QED  BY <1>2

LEMMA FiniteParts ==
  \A C \in SUBSET Column, I \in SUBSET Index : IsFiniteSet(C) /\ IsFiniteSet(I)
BY CatalogAssumption, FS_Subset

(* Columns and indexes, of the table and the snapshot.                         *)
LEMMA Parts ==
  ASSUME NEW s, NEW o, NEW n, Legal(s, o, n)
  PROVE /\ \A c \in Has(s.columns) : c \in Column /\ s.columns[c] \in ColumnDef
        /\ \A c \in Has(n.columns) : c \in Column /\ n.columns[c] \in ColumnDef
        /\ \A i \in Has(s.indexes) : i \in Index /\ s.indexes[i] \in IndexDef
        /\ \A i \in Has(n.indexes) : i \in Index /\ n.indexes[i] \in IndexDef
        /\ s.primaryKey \in SUBSET Column /\ n.key \in SUBSET Column
BY DEF Legal, Has, Table, Snapshot

LEMMA ColumnIsAny ==
  ASSUME NEW d \in ColumnDef
  PROVE /\ d \in AnyColumn
        /\ d.kind \in DbKind /\ d.nullable \in BOOLEAN
        /\ Plain(Recreate[d.kind], d.nullable) \in AnyColumn
        /\ Convert[d.kind] \in DbKind \cup {"unknown"}
BY DEF ColumnDef, AnyColumn, Plain, Recreate, Convert, DbKind, SchemaKind

LEMMA ModifyIsAny ==
  ASSUME NEW c \in Column, NEW d \in ColumnDef, NEW e \in ColumnDef,
         Convert[e.kind] # "unknown"
  PROVE /\ ModifyColumn(c, d, e) \in Seq(AnyStep)
        /\ RecreateColumn(c, d, e) \in Seq(AnyStep)
<1>1. /\ Convert[e.kind] \in DbKind /\ d.kind \in DbKind
      /\ d.nullable \in BOOLEAN /\ e.nullable \in BOOLEAN
      /\ d.default \in Text \cup {None} /\ d.computed \in Text \cup {None}
  BY ColumnIsAny DEF ColumnDef
<1>2. /\ <<Step(SetTypeSql(c, d.kind), SetTypeSql(c, Convert[e.kind]))>> \in Seq(AnyStep)
      /\ <<Step(SetNullSql(c, d.nullable), SetNullSql(c, e.nullable))>> \in Seq(AnyStep)
  BY <1>1, StatementsAre, OneStep
<1>3. RecreateColumn(c, d, e) \in Seq(AnyStep)
  <2> DEFINE kinds == TypeDiffers(d, e)  nulls == NullDiffers(d, e)
             was == Plain(IF kinds THEN Convert[e.kind] ELSE "varchar", nulls /\ e.nullable)
             is == [kind |-> IF kinds THEN d.kind ELSE "varchar",
                    nullable |-> nulls /\ d.nullable,
                    default |-> IF DefaultDiffers(d, e) THEN d.default ELSE None,
                    computed |-> d.computed]
  <2>0. nulls \in BOOLEAN /\ "varchar" \in DbKind
    BY DEF NullDiffers, DbKind, SchemaKind
  <2>1. was \in AnyColumn
    <3> HIDE DEF kinds, nulls
    <3> QED  BY <1>1, <2>0 DEF Plain, AnyColumn
  <2>2. is \in AnyColumn
    <3> HIDE DEF kinds, nulls
    <3> QED  BY <1>1, <2>0 DEF AnyColumn
  <2>3. RecreateColumn(c, d, e) = <<Step(DropColumnSql(c), AddColumnSql(c, was)), AddColumn(c, is)>>
    BY DEF RecreateColumn
  <2> HIDE DEF was, is
  <2>4. /\ Step(DropColumnSql(c), AddColumnSql(c, was)) \in AnyStep
        /\ AddColumn(c, is) \in AnyStep
    BY <2>1, <2>2, StatementsAre, OneStep DEF AddColumn
  <2> QED  BY <2>3, <2>4
<1>4. ModifyColumn(c, d, e) \in Seq(AnyStep)
  <2> DEFINE a == <<Step(SetTypeSql(c, d.kind), SetTypeSql(c, Convert[e.kind]))>>
             b == <<Step(SetNullSql(c, d.nullable), SetNullSql(c, e.nullable))>>
             r == RecreateColumn(c, d, e)
             first  == IF TypeDiffers(d, e) THEN a ELSE <<>>
             second == IF NullDiffers(d, e) THEN b ELSE <<>>
             third  == IF ComputedDiffers(d, e) /\ d.computed # None THEN r ELSE <<>>
  <2>1. ModifyColumn(c, d, e) = first \o second \o third
    BY DEF ModifyColumn
  <2> HIDE DEF a, b, r
  <2>2. first \in Seq(AnyStep) /\ second \in Seq(AnyStep) /\ third \in Seq(AnyStep)
    BY <1>2, <1>3 DEF a, b, r
  <2> HIDE DEF first, second, third
  <2> QED  BY <2>1, <2>2
<1> QED  BY <1>3, <1>4

(* The steps for each column and index are steps.                              *)
LEMMA BlocksAreSteps ==
  ASSUME NEW s, NEW o, NEW n, Legal(s, o, n), o.on, n.exists
  PROVE /\ \A c \in DOMAIN DropBlock(s, n) : DropBlock(s, n)[c] \in Seq(AnyStep)
        /\ \A c \in DOMAIN AddBlock(s, o, n) : AddBlock(s, o, n)[c] \in Seq(AnyStep)
        /\ \A c \in DOMAIN ModifyBlock(s, o, n) : ModifyBlock(s, o, n)[c] \in Seq(AnyStep)
        /\ \A i \in DOMAIN NewIndexBlock(s, o, n) : NewIndexBlock(s, o, n)[i] \in Seq(AnyStep)
        /\ \A i \in DOMAIN OldIndexBlock(s, o, n) : OldIndexBlock(s, o, n)[i] \in Seq(AnyStep)
<1>1. ASSUME NEW c \in ExtraColumns(s, n) PROVE DropBlock(s, n)[c] \in Seq(AnyStep)
  <2>1. c \in Column /\ n.columns[c] \in ColumnDef
    BY Parts DEF ExtraColumns
  <2>2. <<DropColumn(c, n.columns[c])>> \in Seq(AnyStep)
    BY <2>1, ColumnIsAny, StatementsAre, OneStep DEF DropColumn
  <2> QED  BY <2>2 DEF DropBlock
<1>2. ASSUME NEW c \in MissingColumns(s, o, n) PROVE AddBlock(s, o, n)[c] \in Seq(AnyStep)
  <2>1. c \in Column /\ s.columns[c] \in ColumnDef
    BY Parts DEF MissingColumns
  <2>2. <<AddColumn(c, s.columns[c])>> \in Seq(AnyStep)
    BY <2>1, ColumnIsAny, StatementsAre, OneStep DEF AddColumn
  <2> QED  BY <2>2 DEF AddBlock
<1>3. ASSUME NEW c \in ModifiedColumns(s, o, n) PROVE ModifyBlock(s, o, n)[c] \in Seq(AnyStep)
  <2>1. c \in Compared(s, o, n)
    BY DEF ModifiedColumns
  <2>2. c \in Has(s.columns) /\ c \in Has(n.columns)
    BY <2>1 DEF Compared, Has, Legal, Snapshot, Table
  <2>3. c \in Column /\ s.columns[c] \in ColumnDef /\ n.columns[c] \in ColumnDef
    BY <2>2, Parts
  <2>4. Convert[n.columns[c].kind] # "unknown"
    BY <2>1 DEF Legal, DiffThrows
  <2> QED  BY <2>3, <2>4, ModifyIsAny DEF ModifyBlock
<1>4. ASSUME NEW i \in MissingIndexes(s, o, n) PROVE NewIndexBlock(s, o, n)[i] \in Seq(AnyStep)
  <2>1. i \in Index /\ s.indexes[i] \in IndexDef
    BY Parts DEF MissingIndexes
  <2>2. <<CreateIndex(i, s.indexes[i])>> \in Seq(AnyStep)
    BY <2>1, StatementsAre, OneStep DEF CreateIndex
  <2> QED  BY <2>2 DEF NewIndexBlock
<1>5. ASSUME NEW i \in ExtraIndexes(s, o, n) PROVE OldIndexBlock(s, o, n)[i] \in Seq(AnyStep)
  <2>1. i \in Index /\ n.indexes[i] \in IndexDef
    BY Parts DEF ExtraIndexes
  <2>2. [n.indexes[i] EXCEPT !.rest = FALSE] \in IndexDef
    BY <2>1 DEF IndexDef
  <2>3. <<DropIndex(i, n.indexes[i])>> \in Seq(AnyStep)
    BY <2>1, <2>2, StatementsAre, OneStep DEF DropIndex
  <2> QED  BY <2>3 DEF OldIndexBlock
<1> QED  BY <1>1, <1>2, <1>3, <1>4, <1>5 DEF DropBlock, AddBlock, ModifyBlock, NewIndexBlock, OldIndexBlock

LEMMA FirstIndexesAreSteps ==
  ASSUME NEW s \in Table
  PROVE \A i \in DOMAIN FirstIndexBlock(s) : FirstIndexBlock(s)[i] \in Seq(AnyStep)
<1> SUFFICES ASSUME NEW i \in Has(s.indexes) PROVE FirstIndexBlock(s)[i] \in Seq(AnyStep)
  BY DEF FirstIndexBlock
<1>1. i \in Index /\ s.indexes[i] \in IndexDef
  BY DEF Has, Table
<1>2. CreateIndexSql(i, s.indexes[i], TRUE) \in AnyStatement
  BY <1>1, StatementsAre
<1>3. <<[up |-> CreateIndexSql(i, s.indexes[i], TRUE), down |-> <<>>]>> \in Seq(AnyStep)
  <2>1. <<>> \in Seq(AnyStatement)
    OBVIOUS
  <2>2. [up |-> CreateIndexSql(i, s.indexes[i], TRUE), down |-> <<>>] \in AnyStep
    BY <1>2, <2>1 DEF AnyStep
  <2> QED  BY <2>2
<1> QED  BY <1>3 DEF FirstIndexBlock

LEMMA BlocksAreFinite ==
  ASSUME NEW s, NEW o, NEW n, Legal(s, o, n)
  PROVE /\ IsFiniteSet(DOMAIN DropBlock(s, n)) /\ IsFiniteSet(DOMAIN AddBlock(s, o, n))
        /\ IsFiniteSet(DOMAIN ModifyBlock(s, o, n))
        /\ IsFiniteSet(DOMAIN NewIndexBlock(s, o, n))
        /\ IsFiniteSet(DOMAIN OldIndexBlock(s, o, n)) /\ IsFiniteSet(DOMAIN FirstIndexBlock(s))
<1>1. /\ ExtraColumns(s, n) \in SUBSET Column /\ MissingColumns(s, o, n) \in SUBSET Column
      /\ ModifiedColumns(s, o, n) \in SUBSET Column
  BY Parts DEF ExtraColumns, MissingColumns, ModifiedColumns, Compared
<1>2. /\ MissingIndexes(s, o, n) \in SUBSET Index /\ ExtraIndexes(s, o, n) \in SUBSET Index
      /\ Has(s.indexes) \in SUBSET Index
  BY Parts DEF MissingIndexes, ExtraIndexes
<1> QED
  BY <1>1, <1>2, FiniteParts
    DEF DropBlock, AddBlock, ModifyBlock, NewIndexBlock, OldIndexBlock, FirstIndexBlock

(* The steps of a migration, block by block.                                   *)
LEMMA StepsInBlocks ==
  /\ \A s, o, n : ColumnSteps(s, o, n) =
       IF ~ IntrospectsColumns(o) THEN <<>>
       ELSE InOrder(DropBlock(s, n)) \o InOrder(AddBlock(s, o, n)) \o InOrder(ModifyBlock(s, o, n))
  /\ \A s, o, n : IndexSteps(s, o, n) =
       IF ~ IntrospectsIndexes(o) THEN <<>>
       ELSE InOrder(NewIndexBlock(s, o, n)) \o InOrder(OldIndexBlock(s, o, n))
  /\ \A s, o : CreateSteps(s, o) =
       <<Step(CreateTableSql(s), DropTableSql)>>
         \o (IF IntrospectsIndexes(o) THEN InOrder(FirstIndexBlock(s)) ELSE <<>>)
BY Zenon DEF ColumnSteps, IndexSteps, CreateSteps, DropBlock, AddBlock, ModifyBlock, NewIndexBlock,
         OldIndexBlock, FirstIndexBlock

LEMMA ConcatIsSeq ==
  ASSUME NEW Z, NEW p \in Seq(Z), NEW q \in Seq(Z)
  PROVE p \o q \in Seq(Z)
OBVIOUS

LEMMA ThreeParts ==
  ASSUME NEW Z, NEW p \in Seq(Z), NEW q \in Seq(Z), NEW r \in Seq(Z)
  PROVE p \o q \o r \in Seq(Z) /\ ToSet(p \o q \o r) = ToSet(p) \cup ToSet(q) \cup ToSet(r)
<1> DEFINE pq == p \o q
<1>1. pq \in Seq(Z) /\ ToSet(pq) = ToSet(p) \cup ToSet(q)
  BY ConcatIsSeq, ToSetConcat
<1> HIDE DEF pq
<1>2. pq \o r \in Seq(Z) /\ ToSet(pq \o r) = ToSet(pq) \cup ToSet(r)
  BY <1>1, ConcatIsSeq, ToSetConcat
<1> QED  BY <1>1, <1>2 DEF pq

LEMMA AlterStepsAreSteps ==
  ASSUME NEW s, NEW o, NEW n, Legal(s, o, n), o.on, n.exists
  PROVE /\ ColumnSteps(s, o, n) \in Seq(AnyStep) /\ KeySteps(s, n) \in Seq(AnyStep)
        /\ IndexSteps(s, o, n) \in Seq(AnyStep)
        /\ InOrder(DropBlock(s, n)) \in Seq(AnyStep) /\ InOrder(AddBlock(s, o, n)) \in Seq(AnyStep)
        /\ InOrder(ModifyBlock(s, o, n)) \in Seq(AnyStep)
        /\ InOrder(NewIndexBlock(s, o, n)) \in Seq(AnyStep)
        /\ InOrder(OldIndexBlock(s, o, n)) \in Seq(AnyStep)
<1>0. <<>> \in Seq(AnyStep)
  OBVIOUS
<1>1. /\ InOrder(DropBlock(s, n)) \in Seq(AnyStep) /\ InOrder(AddBlock(s, o, n)) \in Seq(AnyStep)
      /\ InOrder(ModifyBlock(s, o, n)) \in Seq(AnyStep)
      /\ InOrder(NewIndexBlock(s, o, n)) \in Seq(AnyStep)
      /\ InOrder(OldIndexBlock(s, o, n)) \in Seq(AnyStep)
  BY BlocksAreSteps, BlocksAreFinite, InOrderSteps
<1>2. /\ InOrder(DropBlock(s, n)) \o InOrder(AddBlock(s, o, n)) \o InOrder(ModifyBlock(s, o, n))
           \in Seq(AnyStep)
      /\ InOrder(NewIndexBlock(s, o, n)) \o InOrder(OldIndexBlock(s, o, n)) \in Seq(AnyStep)
  BY <1>1, ConcatIsSeq
<1>3. ColumnSteps(s, o, n) \in Seq(AnyStep) /\ IndexSteps(s, o, n) \in Seq(AnyStep)
  BY <1>0, <1>2, StepsInBlocks
<1>4. KeySteps(s, n) \in Seq(AnyStep)
  <2>1. <<Step(AlterKeySql(s.primaryKey), AlterKeySql(n.key))>> \in Seq(AnyStep)
    BY Parts, StatementsAre, OneStep
  <2> QED  BY <1>0, <2>1 DEF KeySteps
<1> QED  BY <1>1, <1>3, <1>4

LEMMA CreateStepsAreSteps ==
  ASSUME NEW s \in Table, NEW o
  PROVE /\ CreateSteps(s, o) \in Seq(AnyStep) /\ InOrder(FirstIndexBlock(s)) \in Seq(AnyStep)
        /\ \A x \in ToSet(CreateSteps(s, o)) :
             /\ x.up.op # "ADD COLUMN"
             /\ \A st \in ToSet(x.down) : st.op # "ADD COLUMN"
<1> DEFINE first == <<Step(CreateTableSql(s), DropTableSql)>>
           more == IF IntrospectsIndexes(o) THEN InOrder(FirstIndexBlock(s)) ELSE <<>>
<1>1. CreateSteps(s, o) = first \o more
  BY StepsInBlocks
<1>2. first \in Seq(AnyStep)
  BY StatementsAre, OneStep
<1>3. IsFiniteSet(DOMAIN FirstIndexBlock(s))
  <2>1. Has(s.indexes) \in SUBSET Index
    BY DEF Has, Table
  <2> QED  BY <2>1, FiniteParts DEF FirstIndexBlock
<1>4. InOrder(FirstIndexBlock(s)) \in Seq(AnyStep)
  BY <1>3, FirstIndexesAreSteps, InOrderSteps
<1>5. more \in Seq(AnyStep)
  BY <1>4
<1>6. ASSUME NEW x \in ToSet(first)
      PROVE x.up.op # "ADD COLUMN" /\ \A st \in ToSet(x.down) : st.op # "ADD COLUMN"
  <2>1. x = Step(CreateTableSql(s), DropTableSql)
    BY <1>6, ToSetFew
  <2>2. x.up = CreateTableSql(s) /\ x.down = <<DropTableSql>>
    BY <2>1 DEF Step
  <2>3. ToSet(x.down) = {DropTableSql}
    BY <2>2, ToSetFew
  <2>4. CreateTableSql(s).op = "CREATE TABLE" /\ DropTableSql.op = "DROP TABLE"
    BY DEF CreateTableSql, DropTableSql
  <2> QED  BY <2>2, <2>3, <2>4
<1>7. ASSUME NEW x \in ToSet(more)
      PROVE x.up.op # "ADD COLUMN" /\ \A st \in ToSet(x.down) : st.op # "ADD COLUMN"
  <2>1. more # <<>> => more = InOrder(FirstIndexBlock(s))
    OBVIOUS
  <2> HIDE DEF more
  <2>2. x \in ToSet(InOrder(FirstIndexBlock(s)))
    BY <1>7, <2>1, ToSetFew
  <2>3. PICK i \in DOMAIN FirstIndexBlock(s) : x \in ToSet(FirstIndexBlock(s)[i])
    BY <1>3, <2>2, FirstIndexesAreSteps, InOrderSteps
  <2>4. x = [up |-> CreateIndexSql(i, s.indexes[i], TRUE), down |-> <<>>]
    BY <2>3, ToSetFew DEF FirstIndexBlock
  <2>5. x.up = CreateIndexSql(i, s.indexes[i], TRUE) /\ x.down = <<>>
    BY <2>4
  <2>6. ToSet(x.down) = {}
    BY <2>5, ToSetFew
  <2>7. CreateIndexSql(i, s.indexes[i], TRUE).op = "CREATE INDEX"
    BY DEF CreateIndexSql
  <2> QED  BY <2>5, <2>6, <2>7
<1> HIDE DEF first, more
<1>8. ToSet(CreateSteps(s, o)) = ToSet(first) \cup ToSet(more)
  BY <1>1, <1>2, <1>5, ToSetConcat
<1>9. CreateSteps(s, o) \in Seq(AnyStep)
  BY <1>1, <1>2, <1>5, ConcatIsSeq
<1> QED  BY <1>4, <1>6, <1>7, <1>8, <1>9

LEMMA StepsAreSteps ==
  ASSUME NEW s, NEW o, NEW n, Legal(s, o, n)
  PROVE Steps(s, o, n) \in Seq(AnyStep)
<1>1. CASE ~ o.on
  BY <1>1 DEF Steps
<1>2. CASE o.on /\ n.exists
  <2>1. AlterSteps(s, o, n) \in Seq(AnyStep)
    BY <1>2, AlterStepsAreSteps, ConcatIsSeq DEF AlterSteps
  <2> QED  BY <1>2, <2>1 DEF Steps
<1>3. CASE o.on /\ ~ n.exists
  BY <1>3, CreateStepsAreSteps DEF Steps, Legal
<1> QED  BY <1>1, <1>2, <1>3

LEMMA WritableIsStatement ==
  ASSUME NEW st \in AnyStatement, ~ Unwritable(st)
  PROVE IsStatement(st)
<1>1. CASE st \in [op : {"ADD COLUMN"}, column : Column, def : AnyColumn]
  <2>1. st.op = "ADD COLUMN" /\ st.column \in Column /\ st.def \in AnyColumn
    BY <1>1
  <2>2. st.def.kind # "unknown"
    BY <2>1 DEF Unwritable
  <2>3. st.def \in ColumnDef
    BY <2>1, <2>2 DEF AnyColumn, ColumnDef
  <2> QED  BY <2>1, <2>3 DEF IsStatement
<1>2. CASE st \notin [op : {"ADD COLUMN"}, column : Column, def : AnyColumn]
  BY <1>2 DEF AnyStatement, IsStatement
<1> QED  BY <1>1, <1>2

(* A migration that could be written is made of proper statements.             *)
LEMMA WrittenIsProper ==
  ASSUME NEW s, NEW o, NEW n, Legal(s, o, n),
         o.on /\ n.exists => ~ GenerateThrows(Steps(s, o, n))
  PROVE /\ Ups(Steps(s, o, n)) \in Seq(AnyStatement) /\ Downs(Steps(s, o, n)) \in Seq(AnyStatement)
        /\ \A st \in ToSet(Ups(Steps(s, o, n))) \cup ToSet(Downs(Steps(s, o, n))) : IsStatement(st)
<1> DEFINE q == Steps(s, o, n)
<1>1. q \in StepsOver(AnyStatement)
  BY StepsAreSteps DEF StepsOver, AnyStep
<1>2. ASSUME NEW x \in ToSet(q)
      PROVE ~ Unwritable(x.up) /\ \A st \in ToSet(x.down) : ~ Unwritable(st)
  <2>1. CASE ~ o.on
    <3>1. q = <<>>
      BY <2>1 DEF Steps
    <3> QED  BY <1>2, <3>1, ToSetFew
  <2>2. CASE o.on /\ n.exists
    <3>1. PICK j \in 1 .. Len(q) : x = q[j]
      <4>1. DOMAIN q = 1 .. Len(q)
        BY <1>1, LenProperties DEF StepsOver
      <4> QED  BY <4>1 DEF ToSet
    <3> HIDE DEF q
    <3> QED  BY <2>2, <3>1 DEF GenerateThrows, q
  <2>3. CASE o.on /\ ~ n.exists
    <3>1. q = CreateSteps(s, o) /\ s \in Table
      BY <2>3 DEF Steps, Legal
    <3> QED  BY <1>2, <3>1, CreateStepsAreSteps DEF Unwritable
  <2> QED  BY <2>1, <2>2, <2>3
<1> HIDE DEF q
<1>3. /\ Ups(q) \in Seq(AnyStatement) /\ Downs(q) \in Seq(AnyStatement)
      /\ ToSet(Ups(q)) = {x.up : x \in ToSet(q)}
      /\ ToSet(Downs(q)) = UNION {ToSet(x.down) : x \in ToSet(q)}
  BY <1>1, UpsAndDowns
<1>4. ASSUME NEW r \in Seq(AnyStatement), NEW st \in ToSet(r) PROVE st \in AnyStatement
  <2>1. DOMAIN r = 1 .. Len(r)
    BY LenProperties
  <2> QED  BY <2>1, ElementOfSeq DEF ToSet
<1>5. ASSUME NEW st \in ToSet(Ups(q)) \cup ToSet(Downs(q)) PROVE IsStatement(st)
  <2>1. st \in AnyStatement
    BY <1>3, <1>4
  <2>2. ~ Unwritable(st)
    BY <1>2, <1>3
  <2> QED  BY <2>1, <2>2, WritableIsStatement
<1> QED  BY <1>3, <1>5 DEF q

--------------------------------------------------------------------------------
(* The database keeps its tables sound.                                        *)

SoundTable == {t \in Table : IsSound(t)}
Database   == SoundTable \cup {None}

LEMMA TablesAre ==
  /\ None \notin Table /\ Failed \notin Table /\ None # Failed
  /\ None \notin ColumnDef /\ None \notin IndexDef /\ None \notin Text
BY CatalogAssumption, SentinelAssumption

LEMMA StoredIsColumn ==
  ASSUME NEW d \in ColumnDef
  PROVE /\ Stored(d) \in ColumnDef
        /\ Stored(d).kind = d.kind /\ Stored(d).nullable = d.nullable
        /\ Stored(d).default = Show(d.default) /\ Stored(d).computed = Show(d.computed)
<1>1. \A x \in Text \cup {None} : Show(x) \in Text \cup {None}
  BY CatalogAssumption DEF Show
<1>2. Stored(d) = [d EXCEPT !.default = Show(d.default), !.computed = Show(d.computed)]
  BY DEF Stored
<1> QED  BY <1>1, <1>2 DEF ColumnDef

LEMMA CreatedIsColumn ==
  ASSUME NEW d \in ColumnDef \cup {None}, NEW b \in BOOLEAN
  PROVE /\ Created(d, b) \in ColumnDef \cup {None}
        /\ Created(d, b) = None <=> d = None
        /\ d # None => Created(d, b).kind = d.kind
        /\ d # None /\ b => ~ Created(d, b).nullable
<1>1. CASE d = None
  BY <1>1 DEF Created
<1>2. CASE d # None /\ d.computed = None
  <2> DEFINE e == [d EXCEPT !.nullable = d.nullable /\ ~ b]
  <2>1. e \in ColumnDef /\ e.kind = d.kind /\ (b => ~ e.nullable)
    BY <1>2 DEF ColumnDef
  <2>2. Created(d, b) = Stored(e)
    BY <1>2 DEF Created
  <2> HIDE DEF e
  <2> QED  BY <1>2, <2>1, <2>2, StoredIsColumn, TablesAre
<1>3. CASE d # None /\ d.computed # None
  <2> DEFINE e == [d EXCEPT !.nullable = ~ b, !.default = None]
  <2>1. e \in ColumnDef /\ e.kind = d.kind /\ (b => ~ e.nullable)
    BY <1>3 DEF ColumnDef
  <2>2. Created(d, b) = Stored(e)
    BY <1>3 DEF Created
  <2> HIDE DEF e
  <2> QED  BY <1>3, <2>1, <2>2, StoredIsColumn, TablesAre
<1> QED  BY <1>1, <1>2, <1>3

(* Tables by their fields.                                                     *)
LEMMA SoundByFields ==
  ASSUME NEW columns \in [Column -> ColumnDef \cup {None}],
         NEW indexes \in [Index -> IndexDef \cup {None}],
         NEW key \in SUBSET Column,
         \A c \in key : columns[c] # None /\ ~ columns[c].nullable,
         \A i \in Index : indexes[i] # None =>
           \A c \in indexes[i].on : columns[c] # None
  PROVE [columns |-> columns, indexes |-> indexes, primaryKey |-> key] \in SoundTable
<1> DEFINE t == [columns |-> columns, indexes |-> indexes, primaryKey |-> key]
<1>1. /\ t \in Table /\ t.columns = columns /\ t.indexes = indexes /\ t.primaryKey = key
      /\ DOMAIN columns = Column /\ DOMAIN indexes = Index
  BY DEF Table
<1>2. \A i \in Has(indexes) : i \in Index /\ indexes[i] # None /\ indexes[i] \in IndexDef
  BY <1>1 DEF Has
<1> HIDE DEF t
<1>3. \A i \in Has(indexes) : indexes[i].on \subseteq Has(columns)
  <2> SUFFICES ASSUME NEW i \in Has(indexes), NEW c \in indexes[i].on PROVE c \in Has(columns)
    OBVIOUS
  <2>1. c \in Column
    BY <1>2 DEF IndexDef
  <2> QED  BY <1>1, <1>2, <2>1 DEF Has
<1>4. IsSound(t)
  BY <1>1, <1>3 DEF IsSound
<1> QED  BY <1>1, <1>4 DEF SoundTable, t

LEMMA SoundFields ==
  ASSUME NEW t \in SoundTable
  PROVE /\ t \in Table /\ t # None
        /\ t = [columns |-> t.columns, indexes |-> t.indexes, primaryKey |-> t.primaryKey]
        /\ t.columns \in [Column -> ColumnDef \cup {None}]
        /\ t.indexes \in [Index -> IndexDef \cup {None}]
        /\ t.primaryKey \in SUBSET Column
        /\ \A c \in t.primaryKey : t.columns[c] # None /\ ~ t.columns[c].nullable
        /\ \A i \in Index : t.indexes[i] # None =>
             t.indexes[i] \in IndexDef /\ \A c \in t.indexes[i].on : c \in Column /\ t.columns[c] # None
<1>1. t \in Table /\ IsSound(t)
  BY DEF SoundTable
<1>2. /\ t # None
      /\ t = [columns |-> t.columns, indexes |-> t.indexes, primaryKey |-> t.primaryKey]
      /\ t.columns \in [Column -> ColumnDef \cup {None}]
      /\ t.indexes \in [Index -> IndexDef \cup {None}]
      /\ t.primaryKey \in SUBSET Column
  BY <1>1, TablesAre DEF Table
<1>3. \A c \in t.primaryKey : t.columns[c] # None /\ ~ t.columns[c].nullable
  BY <1>1 DEF IsSound
<1>4. ASSUME NEW i \in Index, t.indexes[i] # None
      PROVE /\ t.indexes[i] \in IndexDef
            /\ \A c \in t.indexes[i].on : c \in Column /\ t.columns[c] # None
  <2>1. i \in Has(t.indexes) /\ t.indexes[i] \in IndexDef
    BY <1>2, <1>4 DEF Has
  <2>2. t.indexes[i].on \subseteq Has(t.columns)
    BY <1>1, <2>1 DEF IsSound
  <2> QED  BY <1>2, <2>1, <2>2 DEF Has
<1> QED  BY <1>1, <1>2, <1>3, <1>4

LEMMA WithoutColumnIsSound ==
  ASSUME NEW t \in SoundTable, NEW c \in Column \ t.primaryKey
  PROVE /\ WithoutColumn(t, c) \in SoundTable
        /\ WithoutColumn(t, c).primaryKey = t.primaryKey
        /\ WithoutColumn(t, c).columns = [t.columns EXCEPT ![c] = None]
        /\ WithoutColumn(t, c).indexes =
             [i \in Index |-> IF t.indexes[i] # None /\ c \in t.indexes[i].on
                              THEN None ELSE t.indexes[i]]
<1> DEFINE columns == [t.columns EXCEPT ![c] = None]
           indexes == [i \in Index |-> IF t.indexes[i] # None /\ c \in t.indexes[i].on
                                       THEN None ELSE t.indexes[i]]
           u == [columns |-> columns, indexes |-> indexes, primaryKey |-> t.primaryKey]
<1>1. WithoutColumn(t, c) = u
  BY DEF WithoutColumn
<1>2. columns \in [Column -> ColumnDef \cup {None}] /\ indexes \in [Index -> IndexDef \cup {None}]
  BY SoundFields
<1>3. \A d \in t.primaryKey : columns[d] # None /\ ~ columns[d].nullable
  BY SoundFields
<1>4. ASSUME NEW i \in Index, indexes[i] # None, NEW d \in indexes[i].on PROVE columns[d] # None
  <2>1. t.indexes[i] # None /\ c \notin t.indexes[i].on /\ d \in t.indexes[i].on
    BY <1>4
  <2>2. t.columns[d] # None /\ d # c /\ d \in Column
    BY <2>1, SoundFields DEF IndexDef
  <2> QED  BY <2>2, SoundFields
<1>5. t.primaryKey \in SUBSET Column
  BY SoundFields
<1> HIDE DEF columns, indexes
<1>6. u \in SoundTable
  BY <1>2, <1>3, <1>4, <1>5, SoundByFields
<1> QED  BY <1>1, <1>6 DEF columns, indexes

LEMMA WithKeyIsSound ==
  ASSUME NEW t \in SoundTable, NEW cs \in SUBSET Column,
         \A c \in cs : t.columns[c] # None /\ ~ t.columns[c].nullable
  PROVE /\ WithKey(t, cs) \in SoundTable
        /\ WithKey(t, cs).primaryKey = cs
        /\ WithKey(t, cs).columns = t.columns
        /\ \A i \in Index : WithKey(t, cs).indexes[i] =
             IF cs # t.primaryKey /\ i = KeptIndex[t.primaryKey] /\ t.indexes[i] = None
             THEN [on |-> t.primaryKey, unique |-> TRUE, rest |-> FALSE] ELSE t.indexes[i]
<1> DEFINE new == [on |-> t.primaryKey, unique |-> TRUE, rest |-> FALSE]
           indexes == [i \in Index |->
              IF cs # t.primaryKey /\ i = KeptIndex[t.primaryKey] /\ t.indexes[i] = None
              THEN new ELSE t.indexes[i]]
<1>1. WithKey(t, cs) = [columns |-> t.columns, indexes |-> indexes, primaryKey |-> cs]
  BY DEF WithKey
<1>2. new \in IndexDef /\ \A c \in new.on : t.columns[c] # None
  BY SoundFields DEF IndexDef
<1> HIDE DEF new
<1>3. indexes \in [Index -> IndexDef \cup {None}]
  BY <1>2, SoundFields
<1>4. ASSUME NEW i \in Index, indexes[i] # None, NEW c \in indexes[i].on PROVE t.columns[c] # None
  <2>1. indexes[i] = new \/ indexes[i] = t.indexes[i]
    OBVIOUS
  <2> HIDE DEF indexes
  <2> QED  BY <1>2, <1>4, <2>1, SoundFields
<1>5. /\ t.columns \in [Column -> ColumnDef \cup {None}]
  BY SoundFields
<1>6. \A i \in Index : indexes[i] =
        IF cs # t.primaryKey /\ i = KeptIndex[t.primaryKey] /\ t.indexes[i] = None
        THEN new ELSE t.indexes[i]
  OBVIOUS
<1> HIDE DEF indexes
<1>7. WithKey(t, cs) \in SoundTable
  BY <1>1, <1>3, <1>4, <1>5, SoundByFields
<1>8. /\ WithKey(t, cs).primaryKey = cs /\ WithKey(t, cs).columns = t.columns
      /\ WithKey(t, cs).indexes = indexes
  BY <1>1
<1> QED  BY <1>6, <1>7, <1>8 DEF new

LEMMA AfterIsSound ==
  ASSUME NEW t \in Database, NEW st, IsStatement(st), Accepts(t, st)
  PROVE /\ After(t, st) \in Database
        /\ st.op # "DROP TABLE" => After(t, st) \in SoundTable
<1>1. CASE st.op = "CREATE TABLE"
  <2> DEFINE columns == [c \in Column |-> Created(st.columns[c], c \in st.key)]
             indexes == [i \in Index |-> None]
  <2>1. /\ st.columns \in [Column -> ColumnDef \cup {None}] /\ st.key \in SUBSET Column
        /\ st.key \subseteq Has(st.columns)
    BY <1>1 DEF IsStatement, Accepts
  <2>2. After(t, st) = [columns |-> columns, indexes |-> indexes, primaryKey |-> st.key]
    BY <1>1 DEF After
  <2>3. columns \in [Column -> ColumnDef \cup {None}]
    <3> SUFFICES ASSUME NEW c \in Column
                 PROVE Created(st.columns[c], c \in st.key) \in ColumnDef \cup {None}
      OBVIOUS
    <3>1. st.columns[c] \in ColumnDef \cup {None} /\ (c \in st.key) \in BOOLEAN
      BY <2>1
    <3> QED  BY <3>1, CreatedIsColumn
  <2>4. ASSUME NEW c \in st.key PROVE columns[c] # None /\ ~ columns[c].nullable
    <3>1. st.columns[c] \in ColumnDef \cup {None} /\ st.columns[c] # None /\ c \in Column
      BY <2>1 DEF Has
    <3>2. Created(st.columns[c], TRUE) # None /\ ~ Created(st.columns[c], TRUE).nullable
      BY <3>1, CreatedIsColumn
    <3>3. (c \in st.key) = TRUE
      BY <2>4
    <3> QED  BY <3>1, <3>2, <3>3
  <2>5. indexes \in [Index -> IndexDef \cup {None}] /\ \A i \in Index : indexes[i] = None
    OBVIOUS
  <2> HIDE DEF columns, indexes
  <2>6. After(t, st) \in SoundTable
    BY <2>1, <2>2, <2>3, <2>4, <2>5, SoundByFields
  <2> QED  BY <2>6 DEF Database
<1> SUFFICES ASSUME st.op # "CREATE TABLE"
             PROVE /\ After(t, st) \in Database
                   /\ st.op # "DROP TABLE" => After(t, st) \in SoundTable
  BY <1>1
<1>2. t \in SoundTable
  BY DEF Accepts, Database
<1>3. CASE st.op = "DROP TABLE"
  BY <1>3 DEF After, Database
<1>4. CASE st.op = "ADD COLUMN"
  <2> DEFINE columns == [t.columns EXCEPT ![st.column] = Stored(st.def)]
  <2>1. st.column \in Column /\ st.def \in ColumnDef /\ t.columns[st.column] = None
    BY <1>4 DEF IsStatement, Accepts
  <2>2. After(t, st) = [columns |-> columns, indexes |-> t.indexes, primaryKey |-> t.primaryKey]
    <3>1. After(t, st) = [t EXCEPT !.columns[st.column] = Stored(st.def)]
      BY <1>4 DEF After
    <3> QED  BY <1>2, <3>1, SoundFields
  <2>3. columns \in [Column -> ColumnDef \cup {None}]
    BY <1>2, <2>1, StoredIsColumn, SoundFields
  <2>4. \A c \in Column : t.columns[c] # None => columns[c] = t.columns[c]
    BY <1>2, <2>1, SoundFields
  <2> HIDE DEF columns
  <2>5. \A c \in t.primaryKey : columns[c] # None /\ ~ columns[c].nullable
    BY <1>2, <2>4, SoundFields
  <2>6. ASSUME NEW i \in Index, t.indexes[i] # None, NEW c \in t.indexes[i].on
        PROVE columns[c] # None
    <3>1. c \in Column /\ t.columns[c] # None
      BY <1>2, <2>6, SoundFields
    <3> QED  BY <2>4, <3>1
  <2>7. t.indexes \in [Index -> IndexDef \cup {None}] /\ t.primaryKey \in SUBSET Column
    BY <1>2, SoundFields
  <2>8. After(t, st) \in SoundTable
    BY <2>2, <2>3, <2>5, <2>6, <2>7, SoundByFields
  <2> QED  BY <2>8 DEF Database
<1>5. CASE st.op = "DROP COLUMN"
  <2>1. st.column \in Column \ t.primaryKey
    BY <1>5 DEF IsStatement, Accepts
  <2>2. After(t, st) = WithoutColumn(t, st.column)
    BY <1>5 DEF After
  <2> QED  BY <1>2, <2>1, <2>2, WithoutColumnIsSound DEF Database
<1>6. CASE st.op \in {"SET DATA TYPE", "SET NULLABLE"}
  <2> DEFINE c0 == st.column
             d == IF st.op = "SET DATA TYPE" THEN [t.columns[c0] EXCEPT !.kind = st.kind]
                  ELSE [t.columns[c0] EXCEPT !.nullable = st.nullable]
             columns == [t.columns EXCEPT ![c0] = d]
  <2>1. /\ c0 \in Column /\ c0 \in Has(t.columns)
        /\ st.op = "SET DATA TYPE" => st.kind \in DbKind
        /\ st.op = "SET NULLABLE" =>
             st.nullable \in BOOLEAN /\ (st.nullable => c0 \notin t.primaryKey)
    BY <1>6 DEF IsStatement, Accepts
  <2>2. t.columns[c0] \in ColumnDef
    BY <1>2, <2>1, SoundFields DEF Has
  <2>3. d \in ColumnDef /\ (c0 \in t.primaryKey => ~ d.nullable)
    <3>1. c0 \in t.primaryKey => ~ t.columns[c0].nullable
      BY <1>2, SoundFields
    <3> QED  BY <1>6, <2>1, <2>2, <3>1 DEF ColumnDef
  <2>4. After(t, st) = [columns |-> columns, indexes |-> t.indexes, primaryKey |-> t.primaryKey]
    <3>1. After(t, st) = [t EXCEPT !.columns[c0] = d]
      BY <1>6 DEF After
    <3> HIDE DEF d
    <3> QED  BY <1>2, <3>1, SoundFields
  <2> HIDE DEF d
  <2>5. columns \in [Column -> ColumnDef \cup {None}]
    BY <1>2, <2>3, SoundFields
  <2>6. \A c \in Column : columns[c] = IF c = c0 THEN d ELSE t.columns[c]
    BY <1>2, SoundFields
  <2>7. d # None
    BY <2>3, TablesAre
  <2> HIDE DEF columns
  <2>8. \A c \in t.primaryKey : columns[c] # None /\ ~ columns[c].nullable
    BY <1>2, <2>3, <2>6, <2>7, SoundFields
  <2>9. ASSUME NEW i \in Index, t.indexes[i] # None, NEW c \in t.indexes[i].on
        PROVE columns[c] # None
    <3>1. c \in Column /\ t.columns[c] # None
      BY <1>2, <2>9, SoundFields
    <3> QED  BY <2>6, <2>7, <3>1
  <2>10. t.indexes \in [Index -> IndexDef \cup {None}] /\ t.primaryKey \in SUBSET Column
    BY <1>2, SoundFields
  <2>11. After(t, st) \in SoundTable
    BY <2>4, <2>5, <2>8, <2>9, <2>10, SoundByFields
  <2> QED  BY <2>11 DEF Database
<1>7. CASE st.op = "ALTER PRIMARY KEY"
  <2>1. /\ st.columns \in SUBSET Column /\ st.columns \subseteq Has(t.columns)
        /\ \A c \in st.columns : ~ t.columns[c].nullable
    BY <1>7 DEF IsStatement, Accepts
  <2>2. \A c \in st.columns : t.columns[c] # None /\ ~ t.columns[c].nullable
    BY <2>1 DEF Has
  <2>3. After(t, st) = WithKey(t, st.columns)
    BY <1>7 DEF After
  <2> QED  BY <1>2, <2>1, <2>2, <2>3, WithKeyIsSound DEF Database
<1>8. CASE st.op \in {"CREATE INDEX", "DROP INDEX"}
  <2> DEFINE i0 == st.index  d == IF st.op = "CREATE INDEX" THEN st.def ELSE None
             indexes == [t.indexes EXCEPT ![i0] = d]
  <2>1. /\ i0 \in Index
        /\ st.op = "CREATE INDEX" => st.def \in IndexDef /\ st.def.on \subseteq Has(t.columns)
    BY <1>8 DEF IsStatement, Accepts
  <2>2. d \in IndexDef \cup {None} /\ (d # None => \A c \in d.on : t.columns[c] # None)
    BY <1>8, <2>1 DEF Has
  <2>3. After(t, st) = [columns |-> t.columns, indexes |-> indexes, primaryKey |-> t.primaryKey]
    <3>1. After(t, st) = [t EXCEPT !.indexes[i0] = d]
      BY <1>8 DEF After
    <3> HIDE DEF d
    <3> QED  BY <1>2, <3>1, SoundFields
  <2> HIDE DEF d
  <2>4. indexes \in [Index -> IndexDef \cup {None}]
    BY <1>2, <2>2, SoundFields
  <2>5. \A i \in Index : indexes[i] = IF i = i0 THEN d ELSE t.indexes[i]
    BY <1>2, SoundFields
  <2> HIDE DEF indexes
  <2>6. ASSUME NEW i \in Index, indexes[i] # None, NEW c \in indexes[i].on
        PROVE t.columns[c] # None
    <3>1. t.indexes[i] # None => \A e \in t.indexes[i].on : t.columns[e] # None
      BY <1>2, SoundFields, Zenon
    <3>2. CASE i = i0
      BY <2>2, <2>5, <2>6, <3>2, Zenon
    <3>3. CASE i # i0
      BY <2>5, <2>6, <3>1, <3>3, Zenon
    <3> QED  BY <3>2, <3>3, Zenon
  <2>7. /\ t.columns \in [Column -> ColumnDef \cup {None}] /\ t.primaryKey \in SUBSET Column
        /\ \A c \in t.primaryKey : t.columns[c] # None /\ ~ t.columns[c].nullable
    BY <1>2, SoundFields, Zenon
  <2>8. After(t, st) \in SoundTable
    <3>1. \A i \in Index : indexes[i] # None => \A c \in indexes[i].on : t.columns[c] # None
      BY <2>6, Zenon
    <3>2. [columns |-> t.columns, indexes |-> indexes, primaryKey |-> t.primaryKey] \in SoundTable
      BY <2>4, <2>7, <3>1, SoundByFields, Zenon
    <3> QED  BY <2>3, <3>2, Zenon
  <2> QED  BY <2>8 DEF Database
<1> QED  BY <1>3, <1>4, <1>5, <1>6, <1>7, <1>8 DEF IsStatement

(* What each statement keeps, a migration keeps.                               *)
LEMMA ExecuteKeeps ==
  ASSUME NEW S, NEW t \in S, NEW Z, NEW q \in Seq(Z),
         \A st \in ToSet(q) : \A u \in S : Do(u, st) \in S
  PROVE Execute(t, q) \in S
<1> DEFINE N == Len(q)  course == Course(t, q)  A == {n \in 0 .. N : course[n] \in S}
<1>1. N \in Nat /\ DOMAIN q = 1 .. N
  BY LenProperties
<1>2. course[0] = t /\ \A n \in 1 .. N : course[n] = Do(course[n - 1], q[n])
  BY CourseSteps
<1>3. \A n \in 1 .. N : q[n] \in ToSet(q)
  BY <1>1 DEF ToSet
<1> HIDE DEF N, course
<1>4. 0 \in A
  BY <1>1, <1>2
<1>5. ASSUME NEW n \in 1 .. N, n - 1 \in A PROVE n \in A
  <2>1. course[n] \in S
    BY <1>2, <1>3, <1>5
  <2>2. n \in 0 .. N
    BY <1>1
  <2> QED  BY <2>1, <2>2
<1> HIDE DEF A
<1>6. N \in A
  <2>1. \A n \in 0 .. N : n \in A
    BY <1>1, <1>4, <1>5, UpTo
  <2> QED  BY <1>1, <2>1
<1> QED  BY <1>6 DEF A, N, course, Execute

LEMMA ExecuteFailed ==
  ASSUME NEW Z, NEW q \in Seq(Z)
  PROVE Execute(Failed, q) = Failed
<1> DEFINE S == {Failed}
<1>1. Failed \in S /\ \A st \in ToSet(q) : \A u \in S : Do(u, st) \in S
  BY DEF Do
<1> HIDE DEF S
<1>2. Execute(Failed, q) \in S
  BY <1>1, ExecuteKeeps
<1> QED  BY <1>2 DEF S

LEMMA ExecuteIsSound ==
  ASSUME NEW t \in Database \cup {Failed}, NEW Z, NEW q \in Seq(Z),
         \A st \in ToSet(q) : IsStatement(st)
  PROVE Execute(t, q) \in Database \cup {Failed}
<1> DEFINE S == Database \cup {Failed}
<1>1. ASSUME NEW st \in ToSet(q), NEW u \in S PROVE Do(u, st) \in S
  BY <1>1, AfterIsSound DEF Do
<1> HIDE DEF S
<1>2. t \in S
  BY DEF S
<1>3. Execute(t, q) \in S
  BY <1>1, <1>2, ExecuteKeeps
<1> QED  BY <1>3 DEF S

--------------------------------------------------------------------------------
(* The invariant.                                                              *)

LEMMA DatabaseIs ==
  \A t : t \in Database <=> t \in Table \cup {None} /\ IsSoundOrGone(t)
BY TablesAre DEF Database, SoundTable, IsSoundOrGone

LEMMA UnseenIsSnapshot ==
  /\ Unseen \in Snapshot
  /\ \A b \in BOOLEAN : [Unseen EXCEPT !.exists = b] \in Snapshot
BY DEF Unseen, Snapshot, NoColumns, NoIndexes

(* The migration at hand is one the tool could write, or none.                 *)
LEMMA LegalAtHand ==
  ASSUME TypeOK, ~ Throws
  PROVE Legal(schema, options, snap)
<1>1. [schema |-> schema, options |-> options] \in Configurations
  BY DEF TypeOK
<1>2. schema \in Table /\ options \in Options /\ IsDeclarable(schema)
  BY <1>1, SyncAssumption
<1> QED  BY <1>2 DEF TypeOK, Throws, Legal

LEMMA MigrationIsProper ==
  ASSUME TypeOK, ~ Throws
  PROVE LET m == MigrationOf(Steps(schema, options, snap)) IN
        /\ m.up \in Seq(AnyStatement) /\ m.down \in Seq(AnyStatement)
        /\ \A st \in ToSet(m.up) \cup ToSet(m.down) : IsStatement(st)
<1>1. Legal(schema, options, snap)
  BY LegalAtHand
<1>2. options.on /\ snap.exists => ~ GenerateThrows(Steps(schema, options, snap))
  BY DEF Throws
<1> QED  BY <1>1, <1>2, WrittenIsProper DEF MigrationOf

LEMMA InitIInv == Init => IInv
<1> SUFFICES ASSUME Init PROVE IInv
  OBVIOUS
<1>1. TypeOK
  <2>1. [schema |-> schema, options |-> options] \in Configurations
    <3>1. PICK f \in Configurations : schema = f.schema /\ options = f.options
      BY DEF Init
    <3>2. f = [schema |-> f.schema, options |-> f.options]
      BY SyncAssumption
    <3> QED  BY <3>1, <3>2
  <2>2. db \in Table \cup {None} /\ source \in Table \cup {None}
    <3>1. Tables \subseteq Table \cup {None}
      BY SyncAssumption
    <3>2. db \in Tables /\ source = None
      BY DEF Init
    <3> QED  BY <3>1, <3>2
  <2>3. phase \in Phase
    BY DEF Init, Phase
  <2>4. snap \in Snapshot
    BY UnseenIsSnapshot DEF Init
  <2>5. \A st \in ToSet(migration.up) \cup ToSet(migration.down) : IsStatement(st)
    BY ToSetFew DEF Init, NoMigration
  <2>6. /\ drifted \in BOOLEAN /\ unread \in BOOLEAN
        /\ foreign \in 0 .. MaxForeign /\ failures \in 0 .. MaxUnread
    <3>1. MaxForeign \in Nat /\ MaxUnread \in Nat
      BY SyncAssumption
    <3>2. foreign = 0 /\ failures = 0
      BY DEF Init
    <3>3. foreign \in 0 .. MaxForeign /\ failures \in 0 .. MaxUnread
      BY <3>1, <3>2
    <3>4. drifted \in BOOLEAN /\ unread \in BOOLEAN
      BY Zenon DEF Init
    <3> QED  BY <3>3, <3>4
  <2> QED  BY <2>1, <2>2, <2>3, <2>4, <2>5, <2>6 DEF TypeOK
<1>2. IsSoundOrGone(db) /\ IsSoundOrGone(source)
  BY SyncAssumption DEF Init, IsSoundOrGone
<1>3. phase = "idle"
  BY DEF Init
<1>4. ~ HasGenerated /\ MigrationFits /\ SnapshotFits
  BY <1>3 DEF HasGenerated, MigrationFits, SnapshotFits
<1>5. TableFits
  BY <1>4 DEF TableFits
<1> QED  BY <1>1, <1>2, <1>4, <1>5 DEF IInv

LEMMA NextTypeOK == IInv /\ [Next]_vars => TypeOK'
<1> SUFFICES ASSUME IInv, [Next]_vars PROVE TypeOK'
  OBVIOUS
<1>0. TypeOK /\ db \in Database /\ source \in Database
  BY DatabaseIs DEF IInv, TypeOK
<1>1. CASE ReadTables
  <2>1. snap' \in Snapshot
    BY <1>1, UnseenIsSnapshot DEF ReadTables
  <2>2. phase' \in Phase
    BY <1>1 DEF ReadTables, Phase
  <2> QED  BY <1>0, <1>1, <2>1, <2>2 DEF ReadTables, TypeOK
<1>2. CASE ReadColumns
  <2>1. snap' \in Snapshot
    <3>1. db # None => db \in Table
      BY <1>0 DEF TypeOK
    <3> QED  BY <1>0, <1>2, <3>1 DEF ReadColumns, TypeOK, Snapshot, Table, NoColumns
  <2>2. phase' \in Phase
    BY <1>2 DEF ReadColumns, Phase
  <2> QED  BY <1>0, <1>2, <2>1, <2>2 DEF ReadColumns, TypeOK
<1>3. CASE ReadCreateStatement
  <2>1. snap' \in Snapshot
    <3>1. db # None => db \in Table
      BY <1>0 DEF TypeOK
    <3>2. CASE ReadsCreateStatement /\ db # None
      <4>1. snap' = [snap EXCEPT !.indexes = db.indexes, !.key = db.primaryKey]
        BY <1>3, <3>2 DEF ReadCreateStatement
      <4> QED  BY <1>0, <3>1, <3>2, <4>1 DEF TypeOK, Snapshot, Table
    <3>3. CASE ~ (ReadsCreateStatement /\ db # None)
      BY <1>0, <1>3, <3>3 DEF ReadCreateStatement, TypeOK
    <3> QED  BY <3>2, <3>3
  <2>2. phase' \in Phase
    BY <1>3 DEF ReadCreateStatement, Phase
  <2> QED  BY <1>0, <1>3, <2>1, <2>2 DEF ReadCreateStatement, TypeOK
<1>4. CASE CreateStatementUnread
  <2>1. failures' \in 0 .. MaxUnread
    BY <1>0, <1>4, SyncAssumption DEF CreateStatementUnread, TypeOK
  <2>2. phase' \in Phase
    BY <1>4 DEF CreateStatementUnread, Phase
  <2> QED  BY <1>0, <1>4, <2>1, <2>2 DEF CreateStatementUnread, TypeOK
<1>5. CASE Generate
  <2>1. \A st \in ToSet(migration'.up) \cup ToSet(migration'.down) : IsStatement(st)
    <3>1. CASE Throws
      <4>1. migration' = NoMigration
        BY <1>5, <3>1 DEF Generate
      <4> QED  BY <4>1, ToSetFew DEF NoMigration
    <3>2. CASE ~ Throws
      <4>1. migration' = MigrationOf(Steps(schema, options, snap))
        BY <1>5, <3>2 DEF Generate
      <4> QED  BY <1>0, <3>2, <4>1, MigrationIsProper
    <3> QED  BY <3>1, <3>2
  <2>2. phase' \in Phase
    BY <1>5 DEF Generate, Phase
  <2>3. source' \in Table \cup {None}
    BY <1>0, <1>5 DEF Generate, TypeOK
  <2>4. UNCHANGED <<schema, options, db, snap, drifted, unread, foreign, failures>>
    BY <1>5 DEF Generate
  <2> QED  BY <1>0, <2>1, <2>2, <2>3, <2>4 DEF TypeOK
<1>6. CASE Up
  <2>1. Execute(db, migration.up) \in Database \cup {Failed}
    <3>1. phase = "written"
      BY <1>6 DEF Up
    <3>2. ~ Throws /\ migration = MigrationOf(Steps(schema, options, snap))
      BY <3>1 DEF IInv, MigrationFits, HasGenerated, Reading
    <3>3. migration.up \in Seq(AnyStatement) /\ \A st \in ToSet(migration.up) : IsStatement(st)
      BY <1>0, <3>2, MigrationIsProper
    <3> QED  BY <1>0, <3>3, ExecuteIsSound
  <2>2. db' \in Table \cup {None}
    BY <1>0, <1>6, <2>1 DEF Up, Database, SoundTable, TypeOK
  <2>3. phase' \in Phase
    BY <1>6 DEF Up, Phase
  <2>4. UNCHANGED <<schema, options, snap, migration, source, drifted, unread, foreign, failures>>
    BY <1>6 DEF Up
  <2> QED  BY <1>0, <2>2, <2>3, <2>4 DEF TypeOK
<1>7. CASE Down
  <2>1. Execute(db, migration.down) \in Database \cup {Failed}
    <3>1. phase = "applied"
      BY <1>7 DEF Down
    <3>2. ~ Throws /\ migration = MigrationOf(Steps(schema, options, snap))
      BY <3>1 DEF IInv, MigrationFits, HasGenerated, Reading
    <3>3. migration.down \in Seq(AnyStatement) /\ \A st \in ToSet(migration.down) : IsStatement(st)
      BY <1>0, <3>2, MigrationIsProper
    <3> QED  BY <1>0, <3>3, ExecuteIsSound
  <2>2. db' \in Table \cup {None}
    BY <1>0, <1>7, <2>1 DEF Down, Database, SoundTable, TypeOK
  <2>3. phase' \in Phase
    BY <1>7 DEF Down, Phase
  <2>4. UNCHANGED <<schema, options, snap, migration, source, drifted, unread, foreign, failures>>
    BY <1>7 DEF Down
  <2> QED  BY <1>0, <2>2, <2>3, <2>4 DEF TypeOK
<1>8. CASE Drift
  <2>1. db' \in Table \cup {None}
    <3>1. PICK st \in Foreign : Accepts(db, st) /\ db' = After(db, st)
      BY <1>8 DEF Drift
    <3> QED  BY <1>0, <3>1, SyncAssumption, AfterIsSound DEF Database, SoundTable
  <2>2. foreign' \in 0 .. MaxForeign
    BY <1>0, <1>8, SyncAssumption DEF Drift, TypeOK
  <2>3. /\ drifted' \in BOOLEAN
        /\ UNCHANGED <<schema, options, phase, snap, migration, source, unread, failures>>
    BY <1>8 DEF Drift
  <2> QED  BY <1>0, <2>1, <2>2, <2>3 DEF TypeOK
<1>9. CASE UNCHANGED vars
  BY <1>0, <1>9 DEF vars, TypeOK
<1> QED  BY <1>1, <1>2, <1>3, <1>4, <1>5, <1>6, <1>7, <1>8, <1>9 DEF Next, Tool

LEMMA NextSound == IInv /\ [Next]_vars => IsSoundOrGone(db)' /\ IsSoundOrGone(source)'
<1> SUFFICES ASSUME IInv, [Next]_vars PROVE IsSoundOrGone(db)' /\ IsSoundOrGone(source)'
  OBVIOUS
<1>0. TypeOK /\ db \in Database /\ source \in Database
  BY DatabaseIs DEF IInv, TypeOK
<1>1. IsSoundOrGone(source)'
  <2>1. source' \in {source, db}
    BY DEF Next, Tool, ReadTables, ReadColumns, ReadCreateStatement, CreateStatementUnread,
           Generate, Up, Down, Drift, vars
  <2> QED  BY <2>1 DEF IInv, IsSoundOrGone
<1>2. IsSoundOrGone(db)'
  <2>1. CASE Up \/ Down
    <3>1. phase \in {"written", "applied"}
      BY <2>1 DEF Up, Down
    <3>2. ~ Throws /\ migration = MigrationOf(Steps(schema, options, snap))
      BY <3>1 DEF IInv, MigrationFits, HasGenerated, Reading
    <3>3. /\ migration.up \in Seq(AnyStatement) /\ \A st \in ToSet(migration.up) : IsStatement(st)
          /\ migration.down \in Seq(AnyStatement)
          /\ \A st \in ToSet(migration.down) : IsStatement(st)
      BY <1>0, <3>2, MigrationIsProper
    <3>4. /\ Execute(db, migration.up) \in Database \cup {Failed}
          /\ Execute(db, migration.down) \in Database \cup {Failed}
      BY <1>0, <3>3, ExecuteIsSound
    <3>5. db' \in Database
      BY <1>0, <2>1, <3>4 DEF Up, Down
    <3> QED  BY <3>5, DatabaseIs
  <2>2. CASE Drift
    <3>1. PICK st \in Foreign : Accepts(db, st) /\ db' = After(db, st)
      BY <2>2 DEF Drift
    <3>2. db' \in Database
      BY <1>0, <3>1, SyncAssumption, AfterIsSound
    <3> QED  BY <3>2, DatabaseIs
  <2>3. CASE UNCHANGED db
    BY <2>3 DEF IInv, IsSoundOrGone
  <2> QED
    BY <2>1, <2>2, <2>3 DEF Next, Tool, ReadTables, ReadColumns, ReadCreateStatement,
       CreateStatementUnread, Generate, vars
<1> QED  BY <1>1, <1>2

LEMMA NextMigrationFits == IInv /\ [Next]_vars => MigrationFits'
<1> SUFFICES ASSUME IInv, [Next]_vars PROVE MigrationFits'
  OBVIOUS
<1>0. MigrationFits
  BY DEF IInv
<1>1. CASE Generate
  <2>1. /\ UNCHANGED <<schema, options, snap>>
        /\ \/ Throws /\ phase' = "error" /\ migration' = NoMigration
           \/ /\ ~ Throws /\ phase' \in {"written", "quiet"}
              /\ migration' = MigrationOf(Steps(schema, options, snap))
    BY <1>1 DEF Generate
  <2>2. Throws' = Throws /\ Steps(schema, options, snap)' = Steps(schema, options, snap)
    BY <2>1 DEF Throws
  <2>3. CASE phase' = "error"
    BY <2>1, <2>3 DEF MigrationFits, HasGenerated
  <2>4. CASE phase' # "error"
    BY <2>1, <2>2, <2>4 DEF MigrationFits
  <2> QED  BY <2>3, <2>4
<1>2. CASE ReadTables \/ ReadColumns \/ ReadCreateStatement \/ CreateStatementUnread
  <2>1. phase' \in Reading
    BY <1>2 DEF ReadTables, ReadColumns, ReadCreateStatement, CreateStatementUnread, Reading
  <2> QED  BY <2>1 DEF MigrationFits, HasGenerated, Reading
<1>3. CASE Up \/ Down
  <2>1. HasGenerated /\ UNCHANGED <<schema, options, snap, migration>>
    BY <1>3 DEF Up, Down, HasGenerated, Reading
  <2>2. Throws' = Throws /\ Steps(schema, options, snap)' = Steps(schema, options, snap)
    BY <2>1 DEF Throws
  <2>3. HasGenerated'
    BY <1>3 DEF Up, Down, HasGenerated, Reading
  <2> QED  BY <1>0, <2>1, <2>2, <2>3 DEF MigrationFits
<1>4. CASE Drift \/ UNCHANGED vars
  <2>1. UNCHANGED <<schema, options, snap, migration, phase>>
    BY <1>4 DEF Drift, vars
  <2>2. /\ Throws' = Throws /\ Steps(schema, options, snap)' = Steps(schema, options, snap)
        /\ HasGenerated' = HasGenerated
    BY <2>1 DEF Throws, HasGenerated
  <2> QED  BY <1>0, <2>1, <2>2 DEF MigrationFits
<1> QED  BY <1>1, <1>2, <1>3, <1>4 DEF Next, Tool

LEMMA NextSnapshotFits == IInv /\ [Next]_vars => SnapshotFits'
<1> SUFFICES ASSUME IInv, [Next]_vars PROVE SnapshotFits'
  OBVIOUS
<1>0. TypeOK /\ SnapshotFits
  BY DEF IInv
<1>1. CASE ReadTables
  BY <1>1 DEF ReadTables, SnapshotFits, Fresh
<1>2. CASE ReadColumns
  <2>1. phase = "tables" /\ phase' = "columns" /\ UNCHANGED <<db, drifted, unread, options>>
    BY <1>2 DEF ReadColumns
  <2>2. ~ unread'
    BY <1>0, <2>1 DEF SnapshotFits
  <2>3. ASSUME ~ drifted'
        PROVE ColumnsFit(snap, db)' /\ snap'.indexes = NoIndexes /\ snap'.key = {}
    <3>1. snap = [Unseen EXCEPT !.exists = db # None]
      BY <1>0, <2>1, <2>3 DEF SnapshotFits
    <3>2. /\ snap.exists <=> db # None
          /\ snap.indexes = NoIndexes /\ snap.key = {} /\ snap \in Snapshot
      BY <1>0, <3>1 DEF Unseen, TypeOK
    <3>3. PICK needed \in {IntrospectsColumns(options), TRUE} :
            snap' = [snap EXCEPT !.columns = IF needed /\ db # None THEN db.columns ELSE NoColumns]
      BY <1>2 DEF ReadColumns
    <3>4. /\ snap'.columns = IF needed /\ db # None THEN db.columns ELSE NoColumns
          /\ snap'.exists = snap.exists /\ snap'.indexes = snap.indexes /\ snap'.key = snap.key
      BY <3>2, <3>3 DEF Snapshot
    <3>5. IntrospectsColumns(options) => needed
      BY <3>3
    <3> QED  BY <2>1, <3>2, <3>4, <3>5 DEF ColumnsFit
  <2> QED  BY <2>1, <2>2, <2>3 DEF SnapshotFits, ColumnsFit
<1>3. CASE ReadCreateStatement
  <2>1. /\ phase = "columns" /\ phase' = "ready" /\ UNCHANGED <<db, drifted, unread, options>>
        /\ snap' = IF ReadsCreateStatement /\ db # None
                   THEN [snap EXCEPT !.indexes = db.indexes, !.key = db.primaryKey] ELSE snap
    BY <1>3 DEF ReadCreateStatement
  <2>2. ASSUME Fresh' PROVE Describes(snap, db)'
    <3>1. /\ ColumnsFit(snap, db) /\ snap.indexes = NoIndexes /\ snap.key = {}
          /\ snap \in Snapshot
      BY <1>0, <2>1, <2>2 DEF SnapshotFits, Fresh, TypeOK
    <3>2. CASE ReadsCreateStatement /\ db # None
      <4>1. /\ snap'.indexes = db.indexes /\ snap'.key = db.primaryKey
            /\ snap'.exists = snap.exists /\ snap'.columns = snap.columns
        BY <2>1, <3>1, <3>2 DEF Snapshot
      <4> QED
        BY <2>1, <3>1, <3>2, <4>1 DEF Describes, ColumnsFit, ReadsCreateStatement,
           IntrospectsIndexes, IntrospectsColumns
    <3>3. CASE ~ (ReadsCreateStatement /\ db # None)
      <4>1. snap' = snap
        BY <2>1, <3>3
      <4> QED
        BY <2>1, <3>1, <3>3, <4>1 DEF Describes, ColumnsFit, ReadsCreateStatement,
           IntrospectsIndexes, IntrospectsColumns
    <3> QED  BY <3>2, <3>3
  <2> QED  BY <2>1, <2>2 DEF SnapshotFits
<1>4. CASE CreateStatementUnread
  BY <1>4 DEF CreateStatementUnread, SnapshotFits, Fresh
<1>5. CASE Generate \/ Up \/ Down
  <2>1. phase' \notin Reading
    BY <1>5 DEF Generate, Up, Down, Reading
  <2> QED  BY <2>1 DEF SnapshotFits, Reading
<1>6. CASE Drift
  <2>1. drifted' = TRUE /\ UNCHANGED <<phase, unread>>
    BY <1>6 DEF Drift
  <2> QED  BY <1>0, <2>1 DEF SnapshotFits, Fresh
<1>7. CASE UNCHANGED vars
  <2>1. UNCHANGED <<phase, unread, drifted, snap, db, options>>
    BY <1>7 DEF vars
  <2> QED
    BY <1>0, <2>1 DEF SnapshotFits, Fresh, Describes, ColumnsFit, IntrospectsIndexes,
       IntrospectsColumns
<1> QED  BY <1>1, <1>2, <1>3, <1>4, <1>5, <1>6, <1>7 DEF Next, Tool

LEMMA NextTableFits == IInv /\ [Next]_vars => TableFits'
<1> SUFFICES ASSUME IInv, [Next]_vars PROVE TableFits'
  OBVIOUS
<1>0. SnapshotFits /\ TableFits
  BY DEF IInv
<1>1. CASE ReadTables \/ ReadColumns \/ ReadCreateStatement \/ CreateStatementUnread
  <2>1. phase' \in Reading
    BY <1>1 DEF ReadTables, ReadColumns, ReadCreateStatement, CreateStatementUnread, Reading
  <2> QED  BY <2>1 DEF TableFits, HasGenerated, Reading
<1>2. CASE Drift
  <2>1. drifted' = TRUE
    BY <1>2 DEF Drift
  <2> QED  BY <2>1 DEF TableFits, Fresh
<1>3. CASE Generate
  <2>1. /\ phase = "ready" /\ source' = db /\ phase' \in {"error", "written", "quiet"}
        /\ UNCHANGED <<schema, options, db, snap, drifted, unread, foreign, failures>>
    BY <1>3 DEF Generate
  <2>2. ASSUME Fresh' PROVE Describes(snap, source)'
    <3>1. Fresh
      BY <2>1, <2>2 DEF Fresh
    <3>2. Describes(snap, db)
      BY <1>0, <2>1, <3>1 DEF SnapshotFits
    <3> QED
      BY <2>1, <3>2 DEF Describes, ColumnsFit, IntrospectsIndexes, IntrospectsColumns
  <2> QED  BY <2>1, <2>2 DEF TableFits
<1>4. ASSUME Fresh, HasGenerated, UNCHANGED <<source, snap, options>>
      PROVE Describes(snap, source)'
  <2>1. Describes(snap, source)
    BY <1>0, <1>4 DEF TableFits
  <2> QED  BY <1>4, <2>1 DEF Describes, ColumnsFit, IntrospectsIndexes, IntrospectsColumns
<1>5. CASE Up
  <2> DEFINE t == Execute(db, migration.up)
  <2>1. /\ phase = "written" /\ HasGenerated
        /\ UNCHANGED <<schema, options, snap, migration, source, drifted, unread>>
        /\ \/ t = Failed /\ phase' = "failed" /\ db' = db
           \/ t # Failed /\ phase' = "applied" /\ db' = t
    BY <1>5 DEF Up, HasGenerated, Reading
  <2>2. SUFFICES ASSUME Fresh' PROVE TableFits'
    BY DEF TableFits
  <2>3. Fresh
    BY <2>1, <2>2 DEF Fresh
  <2>4. db = source
    BY <1>0, <2>1, <2>3 DEF TableFits
  <2>5. Describes(snap, source)'
    BY <1>4, <2>1, <2>3
  <2>6. Execute(source, migration.up)' = t
    BY <2>1, <2>4
  <2> HIDE DEF t
  <2>7. CASE phase' = "failed"
    BY <2>1, <2>4, <2>5, <2>6, <2>7 DEF TableFits
  <2>8. CASE phase' = "applied"
    BY <2>1, <2>4, <2>5, <2>6, <2>8 DEF TableFits
  <2> QED  BY <2>1, <2>7, <2>8
<1>6. CASE Down
  <2> DEFINE t == Execute(db, migration.down)
  <2>1. /\ phase = "applied" /\ HasGenerated
        /\ UNCHANGED <<schema, options, snap, migration, source, drifted, unread>>
        /\ \/ t = Failed /\ phase' = "stuck" /\ db' = db
           \/ t # Failed /\ phase' = "reverted" /\ db' = t
    BY <1>6 DEF Down, HasGenerated, Reading
  <2>2. SUFFICES ASSUME Fresh' PROVE TableFits'
    BY DEF TableFits
  <2>3. Fresh
    BY <2>1, <2>2 DEF Fresh
  <2> DEFINE after == Execute(source, migration.up)
  <2>4. db = after /\ after # Failed
    BY <1>0, <2>1, <2>3 DEF TableFits
  <2>5. Describes(snap, source)'
    BY <1>4, <2>1, <2>3
  <2>6. Execute(source, migration.up)' = after /\ Execute(Execute(source, migration.up), migration.down)' = t
    BY <2>1, <2>4
  <2> HIDE DEF t, after
  <2>7. CASE phase' = "stuck"
    BY <2>1, <2>4, <2>5, <2>6, <2>7 DEF TableFits
  <2>8. CASE phase' = "reverted"
    BY <2>1, <2>4, <2>5, <2>6, <2>8 DEF TableFits
  <2> QED  BY <2>1, <2>7, <2>8
<1>7. CASE UNCHANGED vars
  <2>1. /\ UNCHANGED <<schema, options, snap, migration, source, drifted, unread, db, phase>>
    BY <1>7 DEF vars
  <2>2. HasGenerated' = HasGenerated /\ Fresh' = Fresh
    BY <2>1 DEF HasGenerated, Fresh
  <2>3. SUFFICES ASSUME HasGenerated, Fresh PROVE TableFits'
    BY <2>2 DEF TableFits
  <2>4. Describes(snap, source)'
    BY <1>4, <2>1, <2>3
  <2>5. /\ Execute(source, migration.up)' = Execute(source, migration.up)
        /\ Execute(Execute(source, migration.up), migration.down)'
             = Execute(Execute(source, migration.up), migration.down)
    BY <2>1
  <2> QED  BY <1>0, <2>1, <2>3, <2>4, <2>5 DEF TableFits
<1> QED  BY <1>1, <1>2, <1>3, <1>5, <1>6, <1>7 DEF Next, Tool

(* A migration at hand is the one of its snapshot; as long as nobody else has   *)
(* changed the table the snapshot tells it, and the table is what the migration *)
(* has made of it; and no migration names anything a table cannot have.         *)
THEOREM SchemaSyncInvariant == Spec => []IInv
<1>1. Init => IInv
  BY InitIInv
<1>2. IInv /\ [Next]_vars => IInv'
  BY NextTypeOK, NextSound, NextMigrationFits, NextSnapshotFits, NextTableFits DEF IInv
<1> QED  BY <1>1, <1>2, PTL DEF Spec

--------------------------------------------------------------------------------
(* Which statements are in a migration.                                        *)

Recreates(d, e) == ComputedDiffers(d, e) /\ d.computed # None

(* What a column whose expression changes is added as, by up and by down.      *)
AddedAgain(d, e) ==
  [kind |-> IF TypeDiffers(d, e) THEN d.kind ELSE "varchar",
   nullable |-> NullDiffers(d, e) /\ d.nullable,
   default |-> IF DefaultDiffers(d, e) THEN d.default ELSE None,
   computed |-> d.computed]
PutBack(d, e) ==
  Plain(IF TypeDiffers(d, e) THEN Convert[e.kind] ELSE "varchar", NullDiffers(d, e) /\ e.nullable)

(* The three parts of a change of a column.                                    *)
TypeStep(c, d, e) ==
  IF TypeDiffers(d, e)
  THEN <<Step(SetTypeSql(c, d.kind), SetTypeSql(c, Convert[e.kind]))>> ELSE <<>>
NullStep(c, d, e) ==
  IF NullDiffers(d, e)
  THEN <<Step(SetNullSql(c, d.nullable), SetNullSql(c, e.nullable))>> ELSE <<>>
AgainSteps(c, d, e) == IF Recreates(d, e) THEN RecreateColumn(c, d, e) ELSE <<>>

LEMMA ModifyInParts ==
  \A c, d, e :
    /\ ModifyColumn(c, d, e) = TypeStep(c, d, e) \o NullStep(c, d, e) \o AgainSteps(c, d, e)
    /\ RecreateColumn(c, d, e) =
         << Step(DropColumnSql(c), AddColumnSql(c, PutBack(d, e))),
            Step(AddColumnSql(c, AddedAgain(d, e)), DropColumnSql(c)) >>
BY DEF ModifyColumn, TypeStep, NullStep, AgainSteps, Recreates, RecreateColumn, AddedAgain,
       PutBack, AddColumn

LEMMA PartsAreSteps ==
  ASSUME NEW c \in Column, NEW d \in ColumnDef, NEW e \in ColumnDef, Convert[e.kind] # "unknown"
  PROVE /\ TypeStep(c, d, e) \in StepsOver(AnyStatement)
        /\ NullStep(c, d, e) \in StepsOver(AnyStatement)
        /\ AgainSteps(c, d, e) \in StepsOver(AnyStatement)
        /\ AddedAgain(d, e) \in ColumnDef /\ PutBack(d, e) \in ColumnDef
<1>1. /\ Convert[e.kind] \in DbKind /\ d.kind \in DbKind /\ "varchar" \in DbKind
      /\ d.nullable \in BOOLEAN /\ e.nullable \in BOOLEAN
      /\ d.default \in Text \cup {None} /\ d.computed \in Text \cup {None}
  BY ColumnIsAny DEF ColumnDef, DbKind, SchemaKind
<1>2. /\ <<Step(SetTypeSql(c, d.kind), SetTypeSql(c, Convert[e.kind]))>> \in Seq(AnyStep)
      /\ <<Step(SetNullSql(c, d.nullable), SetNullSql(c, e.nullable))>> \in Seq(AnyStep)
      /\ <<>> \in Seq(AnyStep)
  BY <1>1, StatementsAre, OneStep
<1>3. TypeStep(c, d, e) \in Seq(AnyStep) /\ NullStep(c, d, e) \in Seq(AnyStep)
  BY <1>2 DEF TypeStep, NullStep
<1>4. AgainSteps(c, d, e) \in Seq(AnyStep)
  BY <1>2, ModifyIsAny DEF AgainSteps
<1>5. NullDiffers(d, e) \in BOOLEAN
  BY DEF NullDiffers
<1>6. AddedAgain(d, e) \in ColumnDef
  BY <1>1, <1>5 DEF AddedAgain, ColumnDef
<1>7. PutBack(d, e) \in ColumnDef
  BY <1>1, <1>5 DEF PutBack, Plain, ColumnDef
<1> QED  BY <1>3, <1>4, <1>6, <1>7 DEF StepsOver, AnyStep

SaysOfChange(c, d, e, st) ==
  \/ TypeDiffers(d, e) /\ st = SetTypeSql(c, d.kind)
  \/ NullDiffers(d, e) /\ st = SetNullSql(c, d.nullable)
  \/ Recreates(d, e) /\ (st = DropColumnSql(c) \/ st = AddColumnSql(c, AddedAgain(d, e)))

LEMMA ChangeSaid ==
  ASSUME NEW c \in Column, NEW d \in ColumnDef, NEW e \in ColumnDef, Convert[e.kind] # "unknown"
  PROVE \A st : (\E x \in ToSet(ModifyColumn(c, d, e)) : x.up = st) <=> SaysOfChange(c, d, e, st)
<1> DEFINE p == TypeStep(c, d, e)  q == NullStep(c, d, e)  r == AgainSteps(c, d, e)
<1>1. ToSet(ModifyColumn(c, d, e)) = ToSet(p) \cup ToSet(q) \cup ToSet(r)
  <2>1. p \in Seq(AnyStep) /\ q \in Seq(AnyStep) /\ r \in Seq(AnyStep)
    BY PartsAreSteps DEF StepsOver, AnyStep
  <2>2. ModifyColumn(c, d, e) = p \o q \o r
    BY ModifyInParts
  <2> HIDE DEF p, q, r
  <2> QED  BY <2>1, <2>2, ThreeParts
<1>2. /\ TypeDiffers(d, e) => ToSet(p) = {Step(SetTypeSql(c, d.kind), SetTypeSql(c, Convert[e.kind]))}
      /\ ~ TypeDiffers(d, e) => ToSet(p) = {}
      /\ NullDiffers(d, e) => ToSet(q) = {Step(SetNullSql(c, d.nullable), SetNullSql(c, e.nullable))}
      /\ ~ NullDiffers(d, e) => ToSet(q) = {}
      /\ ~ Recreates(d, e) => ToSet(r) = {}
  BY ToSetFew DEF TypeStep, NullStep, AgainSteps
<1>3. Recreates(d, e) =>
        ToSet(r) = {Step(DropColumnSql(c), AddColumnSql(c, PutBack(d, e))),
                    Step(AddColumnSql(c, AddedAgain(d, e)), DropColumnSql(c))}
  BY ModifyInParts, ToSetFew DEF AgainSteps
<1>4. \A up, down : Step(up, down).up = up
  BY DEF Step
<1> HIDE DEF p, q, r
<1>5. ASSUME NEW st
      PROVE (\E x \in ToSet(ModifyColumn(c, d, e)) : x.up = st) <=> SaysOfChange(c, d, e, st)
  <2>1. (\E x \in ToSet(ModifyColumn(c, d, e)) : x.up = st) <=>
          \/ \E x \in ToSet(p) : x.up = st
          \/ \E x \in ToSet(q) : x.up = st
          \/ \E x \in ToSet(r) : x.up = st
    BY <1>1, Zenon
  <2>2. (\E x \in ToSet(p) : x.up = st) <=> TypeDiffers(d, e) /\ st = SetTypeSql(c, d.kind)
    BY <1>2, <1>4, Zenon
  <2>3. (\E x \in ToSet(q) : x.up = st) <=> NullDiffers(d, e) /\ st = SetNullSql(c, d.nullable)
    BY <1>2, <1>4, Zenon
  <2>4. (\E x \in ToSet(r) : x.up = st) <=>
          Recreates(d, e) /\ (st = DropColumnSql(c) \/ st = AddColumnSql(c, AddedAgain(d, e)))
    BY <1>2, <1>3, <1>4, Zenon
  <2> QED  BY <2>1, <2>2, <2>3, <2>4, Zenon DEF SaysOfChange
<1> QED  BY <1>5

(* The up statements of a migration of a table that exists.                    *)
SaysOfColumns(s, o, n, st) ==
  /\ IntrospectsColumns(o)
  /\ \/ \E c \in ExtraColumns(s, n) : st = DropColumnSql(c)
     \/ \E c \in MissingColumns(s, o, n) : st = AddColumnSql(c, s.columns[c])
     \/ \E c \in ModifiedColumns(s, o, n) : SaysOfChange(c, s.columns[c], n.columns[c], st)
SaysOfKey(s, n, st) == KeyDiffers(s, n) /\ st = AlterKeySql(s.primaryKey)
SaysOfIndexes(s, o, n, st) ==
  /\ IntrospectsIndexes(o)
  /\ \/ \E i \in MissingIndexes(s, o, n) : st = CreateIndexSql(i, s.indexes[i], TRUE)
     \/ \E i \in ExtraIndexes(s, o, n) : st = DropIndexSql(i)

LEMMA OpsSaid ==
  ASSUME NEW s, NEW o, NEW n, NEW st
  PROVE /\ SaysOfColumns(s, o, n, st) =>
             st.op \in {"ADD COLUMN", "DROP COLUMN", "SET DATA TYPE", "SET NULLABLE"}
        /\ SaysOfKey(s, n, st) => st.op = "ALTER PRIMARY KEY"
        /\ SaysOfIndexes(s, o, n, st) => st.op \in {"CREATE INDEX", "DROP INDEX"}
<1>1. ASSUME SaysOfColumns(s, o, n, st)
      PROVE st.op \in {"ADD COLUMN", "DROP COLUMN", "SET DATA TYPE", "SET NULLABLE"}
  <2>1. \/ \E c, d : st = AddColumnSql(c, d)
        \/ \E c : st = DropColumnSql(c)
        \/ \E c, k : st = SetTypeSql(c, k)
        \/ \E c, b : st = SetNullSql(c, b)
    BY <1>1, Zenon DEF SaysOfColumns, SaysOfChange
  <2>2. ASSUME NEW c, NEW d, st = AddColumnSql(c, d) PROVE st.op = "ADD COLUMN"
    BY <2>2 DEF AddColumnSql
  <2>3. ASSUME NEW c, st = DropColumnSql(c) PROVE st.op = "DROP COLUMN"
    BY <2>3 DEF DropColumnSql
  <2>4. ASSUME NEW c, NEW k, st = SetTypeSql(c, k) PROVE st.op = "SET DATA TYPE"
    BY <2>4 DEF SetTypeSql
  <2>5. ASSUME NEW c, NEW b, st = SetNullSql(c, b) PROVE st.op = "SET NULLABLE"
    BY <2>5 DEF SetNullSql
  <2> QED  BY <2>1, <2>2, <2>3, <2>4, <2>5
<1>2. SaysOfKey(s, n, st) => st.op = "ALTER PRIMARY KEY"
  BY AlterKeySays DEF SaysOfKey
<1>3. ASSUME SaysOfIndexes(s, o, n, st) PROVE st.op \in {"CREATE INDEX", "DROP INDEX"}
  <2>1. (\E i, d, b : st = CreateIndexSql(i, d, b)) \/ \E i : st = DropIndexSql(i)
    BY <1>3, Zenon DEF SaysOfIndexes
  <2>2. ASSUME NEW i, NEW d, NEW b, st = CreateIndexSql(i, d, b) PROVE st.op = "CREATE INDEX"
    BY <2>2 DEF CreateIndexSql
  <2>3. ASSUME NEW i, st = DropIndexSql(i) PROVE st.op = "DROP INDEX"
    BY <2>3 DEF DropIndexSql
  <2> QED  BY <2>1, <2>2, <2>3
<1> QED  BY <1>1, <1>2, <1>3, Zenon

LEMMA DropsExtra ==
  ASSUME NEW s, NEW o, NEW n, NEW st, SaysOfIndexes(s, o, n, st), st.op = "DROP INDEX"
  PROVE st.index \in ExtraIndexes(s, o, n) /\ st = DropIndexSql(st.index)
<1>1. \/ \E i, d, b : st = CreateIndexSql(i, d, b)
      \/ \E i \in ExtraIndexes(s, o, n) : st = DropIndexSql(i)
  BY Zenon DEF SaysOfIndexes
<1>2. ASSUME NEW i, NEW d, NEW b, st = CreateIndexSql(i, d, b) PROVE st.op = "CREATE INDEX"
  BY <1>2 DEF CreateIndexSql
<1>3. ~ \E i, d, b : st = CreateIndexSql(i, d, b)
  <2>1. st.op # "CREATE INDEX"
    OBVIOUS
  <2> QED  BY <1>2, <2>1, Zenon
<1>4. PICK i \in ExtraIndexes(s, o, n) : st = DropIndexSql(i)
  BY <1>1, <1>3, Zenon
<1> QED  BY <1>4, DropIndexSays

LEMMA CreatesMissing ==
  ASSUME NEW s, NEW o, NEW n, NEW st, SaysOfIndexes(s, o, n, st), st.op = "CREATE INDEX"
  PROVE /\ st.index \in MissingIndexes(s, o, n)
        /\ st = CreateIndexSql(st.index, s.indexes[st.index], TRUE)
<1>1. \/ \E i \in MissingIndexes(s, o, n) : st = CreateIndexSql(i, s.indexes[i], TRUE)
      \/ \E i : st = DropIndexSql(i)
  BY Zenon DEF SaysOfIndexes
<1>2. ~ \E i : st = DropIndexSql(i)
  BY DropIndexSays
<1>3. PICK i \in MissingIndexes(s, o, n) : st = CreateIndexSql(i, s.indexes[i], TRUE)
  BY <1>1, <1>2, Zenon
<1>4. st.index = i
  BY <1>3 DEF CreateIndexSql
<1> QED  BY <1>3, <1>4

LEMMA ColumnPairs ==
  ASSUME NEW s, NEW o, NEW n, Legal(s, o, n), o.on, n.exists
  PROVE /\ \A c \in ModifiedColumns(s, o, n) :
             /\ c \in Column /\ s.columns[c] \in ColumnDef /\ n.columns[c] \in ColumnDef
             /\ Convert[n.columns[c].kind] # "unknown"
             /\ c \in Has(s.columns) /\ c \in Has(n.columns)
        /\ \A c \in MissingColumns(s, o, n) :
             c \in Column /\ s.columns[c] \in ColumnDef /\ n.columns[c] = None
        /\ \A c \in ExtraColumns(s, n) :
             c \in Column /\ n.columns[c] \in ColumnDef /\ s.columns[c] = None
<1>1. ASSUME NEW c \in ModifiedColumns(s, o, n)
      PROVE /\ c \in Column /\ s.columns[c] \in ColumnDef /\ n.columns[c] \in ColumnDef
            /\ Convert[n.columns[c].kind] # "unknown"
            /\ c \in Has(s.columns) /\ c \in Has(n.columns)
  <2>1. c \in Compared(s, o, n)
    BY DEF ModifiedColumns
  <2>2. c \in Has(s.columns) /\ c \in Has(n.columns)
    BY <2>1 DEF Compared, Has, Legal, Snapshot, Table
  <2>3. c \in Column /\ s.columns[c] \in ColumnDef /\ n.columns[c] \in ColumnDef
    BY <2>2, Parts
  <2>4. Convert[n.columns[c].kind] # "unknown"
    BY <2>1 DEF Legal, DiffThrows
  <2> QED  BY <2>2, <2>3, <2>4
<1>2. ASSUME NEW c \in MissingColumns(s, o, n)
      PROVE c \in Column /\ s.columns[c] \in ColumnDef /\ n.columns[c] = None
  BY Parts DEF MissingColumns
<1>3. ASSUME NEW c \in ExtraColumns(s, n)
      PROVE c \in Column /\ n.columns[c] \in ColumnDef /\ s.columns[c] = None
  <2>1. c \in Column /\ n.columns[c] \in ColumnDef /\ c \notin Has(s.columns)
    BY Parts DEF ExtraColumns
  <2>2. DOMAIN s.columns = Column
    BY DEF Legal, Table
  <2> QED  BY <2>1, <2>2 DEF Has
<1> QED  BY <1>1, <1>2, <1>3

LEMMA ColumnSaid ==
  ASSUME NEW s, NEW o, NEW n, Legal(s, o, n), o.on, n.exists
  PROVE \A st : (\E x \in ToSet(ColumnSteps(s, o, n)) : x.up = st) <=> SaysOfColumns(s, o, n, st)
<1> DEFINE p == InOrder(DropBlock(s, n))  q == InOrder(AddBlock(s, o, n))
           r == InOrder(ModifyBlock(s, o, n))
<1>1. p \in Seq(AnyStep) /\ q \in Seq(AnyStep) /\ r \in Seq(AnyStep)
  BY AlterStepsAreSteps
<1>2. /\ \A x : x \in ToSet(p) <=> \E c \in DOMAIN DropBlock(s, n) : x \in ToSet(DropBlock(s, n)[c])
      /\ \A x : x \in ToSet(q) <=>
           \E c \in DOMAIN AddBlock(s, o, n) : x \in ToSet(AddBlock(s, o, n)[c])
      /\ \A x : x \in ToSet(r) <=>
           \E c \in DOMAIN ModifyBlock(s, o, n) : x \in ToSet(ModifyBlock(s, o, n)[c])
  BY BlocksAreSteps, BlocksAreFinite, InOrderSteps
<1>3. \A up, down : Step(up, down).up = up
  BY DEF Step
<1> HIDE DEF p, q, r
<1>4. ASSUME NEW st
      PROVE (\E x \in ToSet(p) : x.up = st) <=> \E c \in ExtraColumns(s, n) : st = DropColumnSql(c)
  <2>1. \A c \in ExtraColumns(s, n) : ToSet(DropBlock(s, n)[c]) = {DropColumn(c, n.columns[c])}
    BY ToSetFew DEF DropBlock
  <2>2. \A c : DropColumn(c, n.columns[c]).up = DropColumnSql(c)
    BY <1>3 DEF DropColumn
  <2>3. DOMAIN DropBlock(s, n) = ExtraColumns(s, n)
    BY DEF DropBlock
  <2> QED  BY <1>2, <2>1, <2>2, <2>3
<1>5. ASSUME NEW st
      PROVE (\E x \in ToSet(q) : x.up = st) <=>
              \E c \in MissingColumns(s, o, n) : st = AddColumnSql(c, s.columns[c])
  <2>1. \A c \in MissingColumns(s, o, n) : ToSet(AddBlock(s, o, n)[c]) = {AddColumn(c, s.columns[c])}
    BY ToSetFew DEF AddBlock
  <2>2. \A c : AddColumn(c, s.columns[c]).up = AddColumnSql(c, s.columns[c])
    BY <1>3 DEF AddColumn
  <2>3. DOMAIN AddBlock(s, o, n) = MissingColumns(s, o, n)
    BY DEF AddBlock
  <2> QED  BY <1>2, <2>1, <2>2, <2>3
<1>6. ASSUME NEW st
      PROVE (\E x \in ToSet(r) : x.up = st) <=>
              \E c \in ModifiedColumns(s, o, n) :
                \E x \in ToSet(ModifyColumn(c, s.columns[c], n.columns[c])) : x.up = st
  <2>1. \A c \in ModifiedColumns(s, o, n) :
          ModifyBlock(s, o, n)[c] = ModifyColumn(c, s.columns[c], n.columns[c])
    BY DEF ModifyBlock
  <2>2. DOMAIN ModifyBlock(s, o, n) = ModifiedColumns(s, o, n)
    BY DEF ModifyBlock
  <2> QED  BY <1>2, <2>1, <2>2
<1>7. ASSUME NEW st, NEW c \in ModifiedColumns(s, o, n)
      PROVE (\E x \in ToSet(ModifyColumn(c, s.columns[c], n.columns[c])) : x.up = st)
              <=> SaysOfChange(c, s.columns[c], n.columns[c], st)
  BY ColumnPairs, ChangeSaid
<1>8. CASE ~ IntrospectsColumns(o)
  <2>1. ColumnSteps(s, o, n) = <<>>
    BY <1>8, StepsInBlocks
  <2> QED  BY <1>8, <2>1, ToSetFew DEF SaysOfColumns
<1>9. CASE IntrospectsColumns(o)
  <2>1. ColumnSteps(s, o, n) = p \o q \o r
    BY <1>9, StepsInBlocks DEF p, q, r
  <2>3. ToSet(ColumnSteps(s, o, n)) = ToSet(p) \cup ToSet(q) \cup ToSet(r)
    BY <1>1, <2>1, ThreeParts
  <2> SUFFICES ASSUME NEW st
               PROVE (\E x \in ToSet(ColumnSteps(s, o, n)) : x.up = st)
                       <=> SaysOfColumns(s, o, n, st)
    OBVIOUS
  <2>4. (\E x \in ToSet(ColumnSteps(s, o, n)) : x.up = st) <=>
          \/ \E x \in ToSet(p) : x.up = st
          \/ \E x \in ToSet(q) : x.up = st
          \/ \E x \in ToSet(r) : x.up = st
    BY <2>3, Zenon
  <2>5. (\E x \in ToSet(r) : x.up = st) <=>
          \E c \in ModifiedColumns(s, o, n) : SaysOfChange(c, s.columns[c], n.columns[c], st)
    BY <1>6, <1>7, Zenon
  <2> QED  BY <1>4, <1>5, <1>9, <2>4, <2>5, Zenon DEF SaysOfColumns
<1> QED  BY <1>8, <1>9

LEMMA IndexSaid ==
  ASSUME NEW s, NEW o, NEW n, Legal(s, o, n), o.on, n.exists
  PROVE \A st : (\E x \in ToSet(IndexSteps(s, o, n)) : x.up = st) <=> SaysOfIndexes(s, o, n, st)
<1> DEFINE p == InOrder(NewIndexBlock(s, o, n))  q == InOrder(OldIndexBlock(s, o, n))
<1>1. p \in Seq(AnyStep) /\ q \in Seq(AnyStep)
  BY AlterStepsAreSteps
<1>2. /\ \A x : x \in ToSet(p) <=>
           \E i \in DOMAIN NewIndexBlock(s, o, n) : x \in ToSet(NewIndexBlock(s, o, n)[i])
      /\ \A x : x \in ToSet(q) <=>
           \E i \in DOMAIN OldIndexBlock(s, o, n) : x \in ToSet(OldIndexBlock(s, o, n)[i])
  BY BlocksAreSteps, BlocksAreFinite, InOrderSteps
<1>3. \A up, down : Step(up, down).up = up
  BY DEF Step
<1> HIDE DEF p, q
<1>4. ASSUME NEW st
      PROVE (\E x \in ToSet(p) : x.up = st) <=>
              \E i \in MissingIndexes(s, o, n) : st = CreateIndexSql(i, s.indexes[i], TRUE)
  <2>1. \A i \in MissingIndexes(s, o, n) :
          ToSet(NewIndexBlock(s, o, n)[i]) = {CreateIndex(i, s.indexes[i])}
    BY ToSetFew DEF NewIndexBlock
  <2>2. \A i : CreateIndex(i, s.indexes[i]).up = CreateIndexSql(i, s.indexes[i], TRUE)
    BY <1>3 DEF CreateIndex
  <2>3. DOMAIN NewIndexBlock(s, o, n) = MissingIndexes(s, o, n)
    BY DEF NewIndexBlock
  <2>4. \A x : x \in ToSet(p) <=>
               \E i \in MissingIndexes(s, o, n) : x = CreateIndex(i, s.indexes[i])
    BY <1>2, <2>1, <2>3, SMT
  <2>5. ASSUME NEW x \in ToSet(p), x.up = st
        PROVE \E i \in MissingIndexes(s, o, n) : st = CreateIndexSql(i, s.indexes[i], TRUE)
    BY <2>2, <2>4, <2>5, Zenon
  <2>6. ASSUME NEW i \in MissingIndexes(s, o, n), st = CreateIndexSql(i, s.indexes[i], TRUE)
        PROVE \E x \in ToSet(p) : x.up = st
    <3>1. CreateIndex(i, s.indexes[i]) \in ToSet(p) /\ CreateIndex(i, s.indexes[i]).up = st
      BY <2>2, <2>4, <2>6, Zenon
    <3> QED  BY <3>1
  <2> QED  BY <2>5, <2>6, Zenon
<1>5. ASSUME NEW st
      PROVE (\E x \in ToSet(q) : x.up = st) <=>
              \E i \in ExtraIndexes(s, o, n) : st = DropIndexSql(i)
  <2>1. \A i \in ExtraIndexes(s, o, n) :
          ToSet(OldIndexBlock(s, o, n)[i]) = {DropIndex(i, n.indexes[i])}
    BY ToSetFew DEF OldIndexBlock
  <2>2. \A i : DropIndex(i, n.indexes[i]).up = DropIndexSql(i)
    BY <1>3 DEF DropIndex
  <2>3. DOMAIN OldIndexBlock(s, o, n) = ExtraIndexes(s, o, n)
    BY DEF OldIndexBlock
  <2> QED  BY <1>2, <2>1, <2>2, <2>3
<1>6. CASE ~ IntrospectsIndexes(o)
  <2>1. IndexSteps(s, o, n) = <<>>
    BY <1>6, StepsInBlocks
  <2> QED  BY <1>6, <2>1, ToSetFew DEF SaysOfIndexes
<1>7. CASE IntrospectsIndexes(o)
  <2>1. IndexSteps(s, o, n) = p \o q
    BY <1>7, StepsInBlocks DEF p, q
  <2>2. ToSet(IndexSteps(s, o, n)) = ToSet(p) \cup ToSet(q)
    BY <1>1, <2>1, ToSetConcat
  <2> SUFFICES ASSUME NEW st
               PROVE (\E x \in ToSet(IndexSteps(s, o, n)) : x.up = st)
                       <=> SaysOfIndexes(s, o, n, st)
    OBVIOUS
  <2>3. (\E x \in ToSet(IndexSteps(s, o, n)) : x.up = st) <=>
          \/ \E x \in ToSet(p) : x.up = st
          \/ \E x \in ToSet(q) : x.up = st
    BY <2>2, Zenon
  <2> QED  BY <1>4, <1>5, <1>7, <2>3, Zenon DEF SaysOfIndexes
<1> QED  BY <1>6, <1>7

LEMMA AlterSays ==
  ASSUME NEW s, NEW o, NEW n, Legal(s, o, n), o.on, n.exists
  PROVE /\ AlterSteps(s, o, n) \in StepsOver(AnyStatement)
        /\ \A st : st \in ToSet(Ups(AlterSteps(s, o, n))) <=>
             \/ SaysOfColumns(s, o, n, st) \/ SaysOfKey(s, n, st) \/ SaysOfIndexes(s, o, n, st)
<1> DEFINE p == ColumnSteps(s, o, n)  q == KeySteps(s, n)  r == IndexSteps(s, o, n)
           whole == AlterSteps(s, o, n)
<1>1. p \in Seq(AnyStep) /\ q \in Seq(AnyStep) /\ r \in Seq(AnyStep)
  BY AlterStepsAreSteps
<1>2. whole = p \o q \o r
  BY DEF AlterSteps
<1>3. \A st : (\E x \in ToSet(q) : x.up = st) <=> SaysOfKey(s, n, st)
  <2>1. /\ KeyDiffers(s, n) =>
             ToSet(q) = {Step(AlterKeySql(s.primaryKey), AlterKeySql(n.key))}
        /\ ~ KeyDiffers(s, n) => ToSet(q) = {}
    BY ToSetFew DEF KeySteps
  <2>2. Step(AlterKeySql(s.primaryKey), AlterKeySql(n.key)).up = AlterKeySql(s.primaryKey)
    BY DEF Step
  <2> HIDE DEF q
  <2> QED  BY <2>1, <2>2, Zenon DEF SaysOfKey
<1>4. /\ \A st : (\E x \in ToSet(p) : x.up = st) <=> SaysOfColumns(s, o, n, st)
      /\ \A st : (\E x \in ToSet(r) : x.up = st) <=> SaysOfIndexes(s, o, n, st)
  BY ColumnSaid, IndexSaid
<1> HIDE DEF p, q, r, whole
<1>6. whole \in Seq(AnyStep) /\ ToSet(whole) = ToSet(p) \cup ToSet(q) \cup ToSet(r)
  BY <1>1, <1>2, ThreeParts
<1>7. whole \in StepsOver(AnyStatement)
  BY <1>6 DEF StepsOver, AnyStep
<1>8. ToSet(Ups(whole)) = {x.up : x \in ToSet(whole)}
  BY <1>7, UpsAndDowns
<1>9. ASSUME NEW st
      PROVE st \in ToSet(Ups(whole)) <=>
             \/ SaysOfColumns(s, o, n, st) \/ SaysOfKey(s, n, st) \/ SaysOfIndexes(s, o, n, st)
  <2>1. st \in ToSet(Ups(whole)) <=> \E x \in ToSet(whole) : x.up = st
    BY <1>8, Zenon
  <2>2. (\E x \in ToSet(whole) : x.up = st) <=>
          \/ \E x \in ToSet(p) : x.up = st
          \/ \E x \in ToSet(q) : x.up = st
          \/ \E x \in ToSet(r) : x.up = st
    BY <1>6, Zenon
  <2> QED  BY <1>3, <1>4, <2>1, <2>2, Zenon
<1> QED  BY <1>7, <1>9 DEF whole

--------------------------------------------------------------------------------
(* What the constraints promise, and what the options keep.                    *)

(* The constraints of a migration are true of the table it was generated for,   *)
(* because they are taken from a snapshot that tells it (extractConstraints).   *)
LEMMA ConstraintsHoldWithin == IInv => ConstraintsHold
<1> SUFFICES ASSUME IInv, phase = "written", Fresh
             PROVE LET columns == ColumnConstraints(schema, options, snap) IN
                   /\ \A c \in DOMAIN columns :
                        LET d == schema.columns[c]
                            e == db.columns[c]
                        IN  /\ e # None
                            /\ columns[c].kind \in {"unknown", e.kind, Convert[e.kind]}
                            /\ \/ columns[c].nullable = e.nullable
                               \/ ~ columns[c].nullable /\ d # None /\ ~ NullDiffers(d, e)
                   /\ \A i \in IndexConstraints(schema, options, snap) : db.indexes[i] # None
  BY DEF ConstraintsHold
<1> DEFINE s == schema  o == options  n == snap
<1>1. HasGenerated
  BY DEF HasGenerated, Reading
<1>2. Describes(n, db) /\ ~ Throws
  BY <1>1 DEF IInv, TableFits, MigrationFits
<1>3. Legal(s, o, n)
  BY <1>2, LegalAtHand DEF IInv
<1>4. db \in Database
  BY DatabaseIs DEF IInv, TypeOK
<1>5. ASSUME o.on, n.exists
      PROVE /\ db \in SoundTable
            /\ \A c \in Has(n.columns) : n.columns[c] = db.columns[c] /\ db.columns[c] # None
            /\ \A i \in Has(n.indexes) : db.indexes[i] # None
            /\ \A c \in n.key : c \in Column /\ db.columns[c] # None /\ ~ db.columns[c].nullable
  <2>1. db \in SoundTable
    BY <1>2, <1>4, <1>5 DEF Describes, ColumnsFit, Database
  <2>2. n.columns = NoColumns \/ n.columns = db.columns
    BY <1>2 DEF Describes, ColumnsFit
  <2>3. \A c \in Has(n.columns) : n.columns[c] = db.columns[c] /\ db.columns[c] # None
    BY <2>2 DEF Has, NoColumns
  <2>4. \/ n.indexes = db.indexes /\ n.key = db.primaryKey
        \/ n.indexes = NoIndexes /\ n.key = {}
    BY <1>2 DEF Describes
  <2>5. \A i \in Has(n.indexes) : db.indexes[i] # None
    BY <2>4 DEF Has, NoIndexes
  <2>6. \A c \in n.key : c \in Column /\ db.columns[c] # None /\ ~ db.columns[c].nullable
    BY <2>1, <2>4, SoundFields
  <2> QED  BY <2>1, <2>3, <2>5, <2>6
<1> DEFINE columns == ColumnConstraints(s, o, n)
           key == IF KeyDiffers(s, n) THEN n.key ELSE {}
           modified == {c \in ModifiedColumns(s, o, n) : TypeDiffers(s.columns[c], n.columns[c])}
           Of(c) == LET e == n.columns[c] IN
             CASE c \in key -> [kind |-> "unknown", nullable |-> FALSE]
               [] c \in ExtraColumns(s, n) \ key -> [kind |-> e.kind, nullable |-> e.nullable]
               [] OTHER -> [kind |-> Convert[e.kind],
                            nullable |-> NullDiffers(s.columns[c], e) /\ e.nullable]
<1>6. CASE ~ (o.on /\ n.exists)
  <2>1. DOMAIN columns = {} /\ IndexConstraints(s, o, n) = {}
    BY <1>6 DEF ColumnConstraints, IndexConstraints
  <2> QED  BY <2>1
<1>7. CASE o.on /\ n.exists
  <2>1. columns = [c \in key \cup modified \cup ExtraColumns(s, n) |-> Of(c)]
    BY <1>7 DEF ColumnConstraints
  <2>2. \A c \in key : c \in Column /\ db.columns[c] # None /\ ~ db.columns[c].nullable
    BY <1>5, <1>7
  <2>3. ASSUME NEW c \in key \cup modified \cup ExtraColumns(s, n)
        PROVE LET d == schema.columns[c]
                  e == db.columns[c]
              IN  /\ e # None
                  /\ Of(c).kind \in {"unknown", e.kind, Convert[e.kind]}
                  /\ \/ Of(c).nullable = e.nullable
                     \/ ~ Of(c).nullable /\ d # None /\ ~ NullDiffers(d, e)
    <3> DEFINE d == schema.columns[c]  e == db.columns[c]
    <3>1. CASE c \in key
      <4>1. Of(c) = [kind |-> "unknown", nullable |-> FALSE]
        BY <3>1
      <4>2. db.columns[c] \in ColumnDef
        BY <1>5, <1>7, <2>2, <3>1, SoundFields
      <4>3. db.columns[c].nullable = FALSE
        BY <2>2, <3>1, <4>2 DEF ColumnDef
      <4>4. Of(c).kind = "unknown" /\ Of(c).nullable = FALSE
        BY <4>1
      <4> HIDE DEF Of
      <4> QED  BY <2>2, <3>1, <4>3, <4>4
    <3>2. CASE c \in ExtraColumns(s, n) \ key
      <4>1. c \in Has(n.columns)
        BY <3>2 DEF ExtraColumns
      <4>2. n.columns[c] = db.columns[c] /\ db.columns[c] # None
        BY <1>5, <1>7, <4>1
      <4>3. Of(c) = [kind |-> n.columns[c].kind, nullable |-> n.columns[c].nullable]
        BY <3>2
      <4> HIDE DEF Of
      <4> QED  BY <4>2, <4>3
    <3>3. CASE c \in modified /\ c \notin key /\ c \notin ExtraColumns(s, n)
      <4>1. c \in Has(n.columns) /\ s.columns[c] # None
        BY <1>3, <1>7, <3>3, ColumnPairs DEF Has
      <4>2. n.columns[c] = db.columns[c] /\ db.columns[c] # None
        BY <1>5, <1>7, <4>1
      <4>3. Of(c) = [kind |-> Convert[e.kind], nullable |-> NullDiffers(d, e) /\ e.nullable]
        BY <3>3, <4>2
      <4>4. e.nullable \in BOOLEAN
        BY <1>3, <1>7, <3>3, <4>2, ColumnPairs, ColumnIsAny
      <4>5. Of(c).kind = Convert[e.kind] /\ Of(c).nullable = (NullDiffers(d, e) /\ e.nullable)
        BY <4>3
      <4> HIDE DEF Of
      <4> QED  BY <4>1, <4>2, <4>4, <4>5
    <3> QED  BY <2>3, <3>1, <3>2, <3>3
  <2>4. \A i \in IndexConstraints(s, o, n) : db.indexes[i] # None
    BY <1>5, <1>7 DEF IndexConstraints, ExtraIndexes
  <2> HIDE DEF Of
  <2> QED  BY <2>1, <2>3, <2>4
<1> QED  BY <1>6, <1>7

THEOREM ConstraintsHoldAlways == Spec => []ConstraintsHold
BY SchemaSyncInvariant, ConstraintsHoldWithin, PTL

LEMMA StatementsOf ==
  ASSUME NEW Z, migration.up \in Seq(Z)
  PROVE \A op, st : st \in Statements(op) <=> st \in ToSet(migration.up) /\ st.op = op
<1>1. DOMAIN migration.up = 1 .. Len(migration.up)
  BY LenProperties
<1>2. \A st : st \in ToSet(migration.up) <=> \E j \in 1 .. Len(migration.up) : st = migration.up[j]
  BY <1>1 DEF ToSet
<1>3. \A op, st : st \in Statements(op) <=>
        \E j \in 1 .. Len(migration.up) : migration.up[j].op = op /\ st = migration.up[j]
  BY DEF Statements
<1> QED  BY <1>2, <1>3

(* Up of a table that is not to be there is refused when it is.                *)
LEMMA CreateIsRefused ==
  ASSUME NEW s \in Table, NEW o, NEW t, t # None
  PROVE Execute(t, Ups(CreateSteps(s, o))) = Failed
<1> DEFINE first == <<Step(CreateTableSql(s), DropTableSql)>>
           more == IF IntrospectsIndexes(o) THEN InOrder(FirstIndexBlock(s)) ELSE <<>>
<1>1. CreateSteps(s, o) = first \o more
  BY StepsInBlocks
<1>2. first \in Seq(AnyStep) /\ <<>> \in Seq(AnyStep)
  BY StatementsAre, OneStep
<1>3. more \in Seq(AnyStep)
  BY <1>2, CreateStepsAreSteps
<1>4. Ups(first) = <<CreateTableSql(s)>>
  BY UpsAndDownsFew
<1> HIDE DEF first, more
<1>5. /\ Ups(first \o more) = Ups(first) \o Ups(more)
      /\ Ups(first) \in Seq(AnyStatement) /\ Ups(more) \in Seq(AnyStatement)
  BY <1>2, <1>3, UpsAndDowns, UpsAndDownsConcat DEF StepsOver, AnyStep
<1>6. Execute(t, Ups(first \o more)) = Execute(Execute(t, Ups(first)), Ups(more))
  BY <1>5, ExecuteConcat
<1>7. Execute(t, Ups(first)) = Do(t, CreateTableSql(s))
  BY <1>4, ExecuteFew
<1>8. Do(t, CreateTableSql(s)) = Failed
  BY DEF Do, Accepts, CreateTableSql
<1>9. Execute(Failed, Ups(more)) = Failed
  BY <1>5, ExecuteFailed
<1> QED  BY <1>1, <1>6, <1>7, <1>8, <1>9

DroppedBy(s, o, n) == {c \in Column : SaysOfColumns(s, o, n, DropColumnSql(c))}

(* One statement of a migration of a table that exists.                        *)
LEMMA AlterKeeps ==
  ASSUME NEW s, NEW o, NEW n, Legal(s, o, n), o.on, n.exists,
         NEW t \in SoundTable, NEW u \in SoundTable, NEW st \in AnyStatement, IsStatement(st),
         SaysOfColumns(s, o, n, st) \/ SaysOfKey(s, n, st) \/ SaysOfIndexes(s, o, n, st),
         Accepts(u, st)
  PROVE /\ After(u, st) \in SoundTable
        /\ ~ IntrospectsColumns(o) /\ u.columns = t.columns => After(u, st).columns = t.columns
        /\ \A i \in Has(t.indexes) :
             /\ o.additive \/ IgnoresIndex(o, i)
             /\ t.indexes[i].on \cap DroppedBy(s, o, n) = {}
             /\ u.indexes[i] = t.indexes[i]
             => After(u, st).indexes[i] = t.indexes[i]
<1>0. /\ DOMAIN t.indexes = Index
      /\ \A i \in Has(t.indexes) : i \in Index /\ t.indexes[i] # None
  BY SoundFields DEF Has
<1>1. CASE SaysOfColumns(s, o, n, st)
  <2>1. IntrospectsColumns(o)
    BY <1>1 DEF SaysOfColumns
  <2>2. st.op \in {"ADD COLUMN", "DROP COLUMN", "SET DATA TYPE", "SET NULLABLE"}
    BY <1>1, OpsSaid, Zenon
  <2>3. After(u, st) \in SoundTable
    BY <2>2, AfterIsSound DEF Database
  <2>4. CASE st.op = "DROP COLUMN"
    <3>1. PICK c : st = DropColumnSql(c) /\ c \in Column
      <4>1. st = DropColumnSql(st.column) /\ st.column \in Column
        BY <1>1, <2>4 DEF AnyStatement, DropColumnSql
      <4> QED  BY <4>1
    <3>2. c \in DroppedBy(s, o, n)
      BY <1>1, <3>1 DEF DroppedBy
    <3>3. After(u, st) = WithoutColumn(u, c) /\ c \notin u.primaryKey
      BY <2>4, <3>1 DEF After, Accepts, DropColumnSql
    <3>4. /\ After(u, st) \in SoundTable
          /\ After(u, st).indexes =
               [i \in Index |->
                  IF u.indexes[i] # None /\ c \in u.indexes[i].on THEN None ELSE u.indexes[i]]
      <4>1. c \in Column \ u.primaryKey
        BY <3>1, <3>3
      <4>2. WithoutColumn(u, c).indexes =
               [i \in Index |->
                  IF u.indexes[i] # None /\ c \in u.indexes[i].on THEN None ELSE u.indexes[i]]
        BY DEF WithoutColumn
      <4> QED  BY <2>3, <3>3, <4>2
    <3> QED  BY <1>0, <2>1, <3>2, <3>4
  <2>5. CASE st.op # "DROP COLUMN"
    <3>1. \E cols : After(u, st) = [u EXCEPT !.columns = cols]
      <4>1. CASE st.op = "ADD COLUMN"
        <5>1. After(u, st) = [u EXCEPT !.columns[st.column] = Stored(st.def)]
          BY <4>1 DEF After
        <5> QED  BY <5>1
      <4>2. CASE st.op = "SET DATA TYPE"
        <5>1. After(u, st) = [u EXCEPT !.columns[st.column].kind = st.kind]
          BY <4>2 DEF After
        <5> QED  BY <5>1
      <4>3. CASE st.op = "SET NULLABLE"
        <5>1. After(u, st) = [u EXCEPT !.columns[st.column].nullable = st.nullable]
          BY <4>3 DEF After
        <5> QED  BY <5>1
      <4> QED  BY <2>2, <2>5, <4>1, <4>2, <4>3
    <3>2. After(u, st).indexes = u.indexes
      <4>1. PICK cols : After(u, st) = [u EXCEPT !.columns = cols]
        BY <3>1
      <4>2. u \in Table
        BY SoundFields
      <4> QED  BY <4>1, <4>2 DEF Table
    <3> QED  BY <2>1, <2>3, <3>2
  <2> QED  BY <2>4, <2>5
<1>2. CASE SaysOfKey(s, n, st)
  <2>1. st = AlterKeySql(s.primaryKey) /\ s.primaryKey \in SUBSET Column
    BY <1>2, Parts DEF SaysOfKey
  <2>2. /\ After(u, st) = WithKey(u, s.primaryKey)
        /\ s.primaryKey \subseteq Has(u.columns)
        /\ \A c \in s.primaryKey : ~ u.columns[c].nullable
    BY <2>1 DEF After, Accepts, AlterKeySql
  <2>3. \A c \in s.primaryKey : u.columns[c] # None /\ ~ u.columns[c].nullable
    BY <2>2 DEF Has
  <2>4. /\ WithKey(u, s.primaryKey) \in SoundTable
        /\ WithKey(u, s.primaryKey).columns = u.columns
        /\ \A i \in Index : u.indexes[i] # None =>
             WithKey(u, s.primaryKey).indexes[i] = u.indexes[i]
    <3>1. \A i \in Index : WithKey(u, s.primaryKey).indexes[i] =
            IF s.primaryKey # u.primaryKey /\ i = KeptIndex[u.primaryKey] /\ u.indexes[i] = None
            THEN [on |-> u.primaryKey, unique |-> TRUE, rest |-> FALSE] ELSE u.indexes[i]
      BY <2>1, <2>3, WithKeyIsSound, Zenon
    <3>2. /\ WithKey(u, s.primaryKey) \in SoundTable
          /\ WithKey(u, s.primaryKey).columns = u.columns
      BY <2>1, <2>3, WithKeyIsSound, Zenon
    <3> QED  BY <3>1, <3>2, Zenon
  <2> QED  BY <1>0, <2>2, <2>4
<1>3. CASE SaysOfIndexes(s, o, n, st)
  <2>1. st.op \in {"CREATE INDEX", "DROP INDEX"}
    BY <1>3, OpsSaid, Zenon
  <2>2. After(u, st) = [u EXCEPT !.indexes[st.index] = IF st.op = "CREATE INDEX" THEN st.def ELSE None]
    BY <2>1 DEF After
  <2>3. /\ After(u, st).columns = u.columns
        /\ \A i \in Index : i # st.index => After(u, st).indexes[i] = u.indexes[i]
    <3>1. u \in Table /\ DOMAIN u.indexes = Index
      BY SoundFields
    <3> QED  BY <2>2, <3>1 DEF Table
  <2>4. After(u, st) \in SoundTable
    BY <2>1, AfterIsSound DEF Database
  <2>5. ASSUME NEW i \in Has(t.indexes), o.additive \/ IgnoresIndex(o, i),
               u.indexes[i] = t.indexes[i]
        PROVE i # st.index
    <3>1. CASE st.op = "CREATE INDEX"
      BY <1>0, <2>5, <3>1 DEF Accepts
    <3>2. CASE st.op = "DROP INDEX"
      <4>1. st.index \in ExtraIndexes(s, o, n)
        BY <1>3, <3>2, DropsExtra
      <4> QED  BY <2>5, <4>1 DEF ExtraIndexes
    <3> QED  BY <2>1, <3>1, <3>2
  <2> QED  BY <1>0, <2>3, <2>4, <2>5
<1> QED  BY <1>1, <1>2, <1>3

LEMMA OptionsHoldWithin ==
  ASSUME IInv, Up, phase' = "applied", db # None
  PROVE /\ ~ IntrospectsColumns(options) => db'.columns = db.columns
        /\ \A i \in Has(db.indexes) :
             /\ options.additive \/ IgnoresIndex(options, i)
             /\ db.indexes[i].on \cap DroppedColumns = {}
             => db'.indexes[i] = db.indexes[i]
<1> DEFINE s == schema  o == options  n == snap  up == migration.up
<1>1. db' = Execute(db, up) /\ Execute(db, up) # Failed /\ phase = "written"
  BY DEF Up
<1>2. HasGenerated
  BY <1>1 DEF HasGenerated, Reading
<1>3. ~ Throws /\ migration = MigrationOf(Steps(s, o, n))
  BY <1>2 DEF IInv, MigrationFits
<1>4. Legal(s, o, n)
  BY <1>3, LegalAtHand DEF IInv
<1>5. db \in SoundTable
  BY DatabaseIs DEF IInv, TypeOK, Database
<1>6. up = Ups(Steps(s, o, n)) /\ up \in Seq(AnyStatement) /\ \A st \in ToSet(up) : IsStatement(st)
  BY <1>3, MigrationIsProper DEF IInv, MigrationOf
<1> HIDE DEF up
<1>7. CASE ~ o.on
  <2>1. up = <<>>
    BY <1>6, <1>7, UpsAndDownsFew DEF Steps
  <2> QED  BY <1>1, <2>1, ExecuteFew
<1>8. CASE o.on /\ ~ n.exists
  BY <1>1, <1>4, <1>5, <1>6, <1>8, CreateIsRefused DEF Steps, Legal
<1>9. CASE o.on /\ n.exists
  <2> DEFINE says(st) == \/ SaysOfColumns(s, o, n, st) \/ SaysOfKey(s, n, st)
                         \/ SaysOfIndexes(s, o, n, st)
             kept == {i \in Has(db.indexes) :
                        /\ options.additive \/ IgnoresIndex(options, i)
                        /\ db.indexes[i].on \cap DroppedColumns = {}}
             S == {Failed} \cup
               {u \in SoundTable :
                  /\ ~ IntrospectsColumns(o) => u.columns = db.columns
                  /\ \A i \in kept : u.indexes[i] = db.indexes[i]}
  <2>1. \A st : st \in ToSet(up) <=> says(st)
    BY <1>4, <1>6, <1>9, AlterSays DEF Steps
  <2>2. ASSUME NEW c \in DroppedBy(s, o, n) PROVE c \in DroppedColumns
    <3>1. DropColumnSql(c) \in ToSet(up) /\ DropColumnSql(c).op = "DROP COLUMN"
      BY <2>1, <2>2 DEF DropColumnSql, DroppedBy
    <3>2. DropColumnSql(c) \in Statements("DROP COLUMN") /\ DropColumnSql(c).column = c
      BY <1>6, <3>1, StatementsOf DEF DropColumnSql, up
    <3> QED  BY <3>2 DEF DroppedColumns
  <2>3. \A st \in ToSet(up) : st \in AnyStatement
    <3>1. DOMAIN up = 1 .. Len(up)
      BY <1>6, LenProperties
    <3> QED  BY <1>6, <3>1, ElementOfSeq DEF ToSet
  <2>4. ASSUME NEW st \in ToSet(up), NEW u \in S PROVE Do(u, st) \in S
    <3>1. CASE u = Failed \/ ~ Accepts(u, st)
      BY <3>1 DEF Do
    <3>2. CASE u # Failed /\ Accepts(u, st)
      <4>1. /\ u \in SoundTable
            /\ ~ IntrospectsColumns(o) => u.columns = db.columns
            /\ \A i \in kept : u.indexes[i] = db.indexes[i]
        BY <3>2
      <4>2. says(st) /\ IsStatement(st) /\ st \in AnyStatement
        BY <1>6, <2>1, <2>3
      <4>3. /\ After(u, st) \in SoundTable
            /\ ~ IntrospectsColumns(o) /\ u.columns = db.columns
                 => After(u, st).columns = db.columns
            /\ \A i \in Has(db.indexes) :
                 /\ o.additive \/ IgnoresIndex(o, i)
                 /\ db.indexes[i].on \cap DroppedBy(s, o, n) = {}
                 /\ u.indexes[i] = db.indexes[i]
                 => After(u, st).indexes[i] = db.indexes[i]
        BY <1>4, <1>5, <1>9, <3>2, <4>1, <4>2, AlterKeeps
      <4>4. Do(u, st) = After(u, st)
        BY <3>2 DEF Do
      <4>5. \A i \in kept : After(u, st).indexes[i] = db.indexes[i]
        BY <2>2, <4>1, <4>3
      <4> HIDE DEF kept
      <4> QED  BY <4>1, <4>3, <4>4, <4>5
    <3> QED  BY <3>1, <3>2
  <2>5. db \in S
    BY <1>5
  <2> HIDE DEF S, kept
  <2>6. Execute(db, up) \in S
    BY <1>6, <2>4, <2>5, ExecuteKeeps
  <2>7. db' \in S /\ db' # Failed
    BY <1>1, <2>6 DEF up
  <2> QED  BY <2>7 DEF S, kept
<1> QED  BY <1>7, <1>8, <1>9

(* A migration that is applied leaves alone what the options keep from it, on   *)
(* whatever table it is run: no statement of it is about a column unless        *)
(* columns are enforced, nor drops an index the options protect.                *)
THEOREM OptionsHoldAlways == Spec => OptionsHold
<1>1. IInv /\ [Next]_vars =>
        [Up /\ phase' = "applied" /\ db # None =>
           /\ ~ IntrospectsColumns(options) => db'.columns = db.columns
           /\ \A i \in Has(db.indexes) :
                /\ options.additive \/ IgnoresIndex(options, i)
                /\ db.indexes[i].on \cap DroppedColumns = {}
                => db'.indexes[i] = db.indexes[i]]_vars
  BY OptionsHoldWithin
<1> QED  BY <1>1, SchemaSyncInvariant, PTL DEF Spec, OptionsHold

--------------------------------------------------------------------------------
(***************************************************************************)
(* What the statements of a migration do, for any number of columns and    *)
(* indexes: when up is refused, that nothing is left to do after it, and   *)
(* what down brings back.                                                  *)
(***************************************************************************)

(* What a statement makes of a table, or of one of a set of tables.  A         *)
(* migration fails as a whole, so a set is left with Failed in it once a       *)
(* statement may be refused.                                                   *)

OrFailed(bad, S) == S \cup {x \in {Failed} : bad}

LEMMA Onward ==
  ASSUME NEW bad, NEW S \in SUBSET SoundTable, NEW R, NEW st, NEW u \in OrFailed(bad, S),
         \A v \in S : (Accepts(v, st) \/ bad) /\ (Accepts(v, st) => After(v, st) \in R)
  PROVE Do(u, st) \in OrFailed(bad, R)
<1>1. Failed \notin S
  BY TablesAre DEF SoundTable
<1>2. CASE u \in S
  BY <1>1, <1>2 DEF Do, OrFailed
<1>3. CASE u \notin S
  BY <1>3 DEF Do, OrFailed
<1> QED  BY <1>2, <1>3

(* The tables with these columns, this key, and indexes of a set.              *)
Stage(key, K, f) ==
  {u \in SoundTable : u.primaryKey = key /\ u.columns = f /\ u.indexes \in K}

Without(g, c) ==
  [i \in Index |-> IF g[i] # None /\ c \in g[i].on THEN None ELSE g[i]]
WithKept(g, key, cs) ==
  [i \in Index |-> IF cs # key /\ i = KeptIndex[key] /\ g[i] = None
                   THEN [on |-> key, unique |-> TRUE, rest |-> FALSE] ELSE g[i]]

LEMMA StageFields ==
  ASSUME NEW key, NEW K, NEW f, NEW u \in Stage(key, K, f)
  PROVE /\ u \in SoundTable /\ u \in Database /\ u # None
        /\ u.primaryKey = key /\ u.columns = f /\ u.indexes \in K
        /\ f \in [Column -> ColumnDef \cup {None}]
        /\ u.indexes \in [Index -> IndexDef \cup {None}]
        /\ key \in SUBSET Column
        /\ u = [columns |-> f, indexes |-> u.indexes, primaryKey |-> key]
        /\ \A c \in key : f[c] # None /\ ~ f[c].nullable
<1>1. /\ u \in SoundTable /\ u.primaryKey = key /\ u.columns = f /\ u.indexes \in K
  BY DEF Stage
<1> QED  BY <1>1, SoundFields DEF Database

LEMMA SetTypeDoes ==
  ASSUME NEW bad, NEW key, NEW K, NEW f, NEW c \in Column, NEW k \in DbKind,
         f[c] # None, k = "array" => bad, NEW u \in OrFailed(bad, Stage(key, K, f))
  PROVE Do(u, SetTypeSql(c, k))
          \in OrFailed(bad, Stage(key, K, [f EXCEPT ![c] = [f[c] EXCEPT !.kind = k]]))
<1> DEFINE st == SetTypeSql(c, k)  h == [f EXCEPT ![c] = [f[c] EXCEPT !.kind = k]]
<1>1. st.op = "SET DATA TYPE" /\ st.column = c /\ st.kind = k /\ IsStatement(st)
  BY DEF SetTypeSql, IsStatement
<1>2. ASSUME NEW v \in Stage(key, K, f)
      PROVE (Accepts(v, st) \/ bad) /\ (Accepts(v, st) => After(v, st) \in Stage(key, K, h))
  <2>1. Accepts(v, st) \/ bad
    <3>1. c \in Has(v.columns) /\ v.primaryKey = key /\ v # None
      BY StageFields DEF Has
    <3> HIDE DEF st
    <3> QED  BY <1>1, <3>1 DEF Accepts
  <2>2. ASSUME Accepts(v, st) PROVE After(v, st) \in Stage(key, K, h)
    <3>1. After(v, st) \in SoundTable
      <4> HIDE DEF st
      <4> QED  BY <1>1, <2>2, StageFields, AfterIsSound
    <3>2. After(v, st) = [v EXCEPT !.columns[c].kind = k]
      <4> HIDE DEF st
      <4> QED  BY <1>1 DEF After
    <3>3. After(v, st) = [columns |-> h, indexes |-> v.indexes, primaryKey |-> key]
      <4>1. After(v, st) = [v EXCEPT !.columns = [v.columns EXCEPT ![c] = [v.columns[c] EXCEPT !.kind = k]]]
        BY <3>2
      <4> HIDE DEF st
      <4> QED  BY <4>1, StageFields
    <3> HIDE DEF h, st
    <3> QED  BY <3>1, <3>3, StageFields DEF Stage
  <2> QED  BY <2>1, <2>2
<1> HIDE DEF st, h
<1>3. Stage(key, K, f) \in SUBSET SoundTable
  BY DEF Stage
<1>4. Do(u, st) \in OrFailed(bad, Stage(key, K, h))
  BY <1>2, <1>3, Onward
<1> QED  BY <1>4 DEF st, h

LEMMA SetNullDoes ==
  ASSUME NEW bad, NEW key, NEW K, NEW f, NEW c \in Column, NEW b \in BOOLEAN,
         f[c] # None, b /\ c \in key => bad, NEW u \in OrFailed(bad, Stage(key, K, f))
  PROVE Do(u, SetNullSql(c, b))
          \in OrFailed(bad, Stage(key, K, [f EXCEPT ![c] = [f[c] EXCEPT !.nullable = b]]))
<1> DEFINE st == SetNullSql(c, b)  h == [f EXCEPT ![c] = [f[c] EXCEPT !.nullable = b]]
<1>1. st.op = "SET NULLABLE" /\ st.column = c /\ st.nullable = b /\ IsStatement(st)
  BY DEF SetNullSql, IsStatement
<1>2. ASSUME NEW v \in Stage(key, K, f)
      PROVE (Accepts(v, st) \/ bad) /\ (Accepts(v, st) => After(v, st) \in Stage(key, K, h))
  <2>1. Accepts(v, st) \/ bad
    <3>1. c \in Has(v.columns) /\ v.primaryKey = key /\ v # None
      BY StageFields DEF Has
    <3> HIDE DEF st
    <3> QED  BY <1>1, <3>1 DEF Accepts
  <2>2. ASSUME Accepts(v, st) PROVE After(v, st) \in Stage(key, K, h)
    <3>1. After(v, st) \in SoundTable
      <4> HIDE DEF st
      <4> QED  BY <1>1, <2>2, StageFields, AfterIsSound
    <3>2. After(v, st) = [v EXCEPT !.columns[c].nullable = b]
      <4> HIDE DEF st
      <4> QED  BY <1>1 DEF After
    <3>3. After(v, st) = [columns |-> h, indexes |-> v.indexes, primaryKey |-> key]
      <4>1. After(v, st) = [v EXCEPT !.columns = [v.columns EXCEPT ![c] = [v.columns[c] EXCEPT !.nullable = b]]]
        BY <3>2
      <4> HIDE DEF st
      <4> QED  BY <4>1, StageFields
    <3> HIDE DEF h, st
    <3> QED  BY <3>1, <3>3, StageFields DEF Stage
  <2> QED  BY <2>1, <2>2
<1> HIDE DEF st, h
<1>3. Stage(key, K, f) \in SUBSET SoundTable
  BY DEF Stage
<1>4. Do(u, st) \in OrFailed(bad, Stage(key, K, h))
  BY <1>2, <1>3, Onward
<1> QED  BY <1>4 DEF st, h

LEMMA DropDoes ==
  ASSUME NEW bad, NEW key, NEW K, NEW f, NEW c \in Column, f[c] # None, c \in key => bad,
         \A g \in K : Without(g, c) \in K, NEW u \in OrFailed(bad, Stage(key, K, f))
  PROVE Do(u, DropColumnSql(c)) \in OrFailed(bad, Stage(key, K, [f EXCEPT ![c] = None]))
<1> DEFINE st == DropColumnSql(c)  h == [f EXCEPT ![c] = None]
<1>1. st.op = "DROP COLUMN" /\ st.column = c
  BY DEF DropColumnSql
<1>2. ASSUME NEW v \in Stage(key, K, f)
      PROVE (Accepts(v, st) \/ bad) /\ (Accepts(v, st) => After(v, st) \in Stage(key, K, h))
  <2>1. Accepts(v, st) \/ bad
    <3>1. c \in Has(v.columns) /\ v.primaryKey = key /\ v # None
      BY StageFields DEF Has
    <3> HIDE DEF st
    <3> QED  BY <1>1, <3>1 DEF Accepts
  <2>2. ASSUME Accepts(v, st) PROVE After(v, st) \in Stage(key, K, h)
    <3>1. After(v, st) = WithoutColumn(v, c) /\ c \in Column \ v.primaryKey
      <4> HIDE DEF st
      <4> QED  BY <1>1, <2>2 DEF After, Accepts
    <3>2. /\ WithoutColumn(v, c) \in SoundTable
          /\ WithoutColumn(v, c).primaryKey = key
          /\ WithoutColumn(v, c).columns = h
          /\ WithoutColumn(v, c).indexes = Without(v.indexes, c)
      BY <3>1, StageFields, WithoutColumnIsSound DEF Without
    <3>3. Without(v.indexes, c) \in K
      BY StageFields
    <3> HIDE DEF h, st
    <3> QED  BY <3>1, <3>2, <3>3 DEF Stage
  <2> QED  BY <2>1, <2>2
<1> HIDE DEF st, h
<1>3. Stage(key, K, f) \in SUBSET SoundTable
  BY DEF Stage
<1>4. Do(u, st) \in OrFailed(bad, Stage(key, K, h))
  BY <1>2, <1>3, Onward
<1> QED  BY <1>4 DEF st, h

LEMMA AddDoes ==
  ASSUME NEW bad, NEW key, NEW K, NEW f, NEW c \in Column, NEW d \in ColumnDef, f[c] = None,
         d.default = None \/ d.computed = None, NEW u \in OrFailed(bad, Stage(key, K, f))
  PROVE Do(u, AddColumnSql(c, d)) \in OrFailed(bad, Stage(key, K, [f EXCEPT ![c] = Stored(d)]))
<1> DEFINE st == AddColumnSql(c, d)  h == [f EXCEPT ![c] = Stored(d)]
<1>1. st.op = "ADD COLUMN" /\ st.column = c /\ st.def = d /\ IsStatement(st)
  BY DEF AddColumnSql, IsStatement
<1>2. ASSUME NEW v \in Stage(key, K, f)
      PROVE (Accepts(v, st) \/ bad) /\ (Accepts(v, st) => After(v, st) \in Stage(key, K, h))
  <2>1. Accepts(v, st) \/ bad
    <3>1. v.columns = f /\ v # None
      BY StageFields
    <3> HIDE DEF st
    <3> QED  BY <1>1, <3>1 DEF Accepts
  <2>2. ASSUME Accepts(v, st) PROVE After(v, st) \in Stage(key, K, h)
    <3>1. After(v, st) \in SoundTable
      <4> HIDE DEF st
      <4> QED  BY <1>1, <2>2, StageFields, AfterIsSound
    <3>2. After(v, st) = [v EXCEPT !.columns[c] = Stored(d)]
      <4> HIDE DEF st
      <4> QED  BY <1>1 DEF After
    <3>3. After(v, st) = [columns |-> h, indexes |-> v.indexes, primaryKey |-> key]
      <4> HIDE DEF st
      <4> QED  BY <3>2, StageFields
    <3> HIDE DEF h, st
    <3> QED  BY <3>1, <3>3, StageFields DEF Stage
  <2> QED  BY <2>1, <2>2
<1> HIDE DEF st, h
<1>3. Stage(key, K, f) \in SUBSET SoundTable
  BY DEF Stage
<1>4. Do(u, st) \in OrFailed(bad, Stage(key, K, h))
  BY <1>2, <1>3, Onward
<1> QED  BY <1>4 DEF st, h

LEMMA KeyDoes ==
  ASSUME NEW bad, NEW key, NEW K, NEW L, NEW f, NEW cs \in SUBSET Column,
         (cs # {} /\ \A c \in cs : f[c] # None /\ ~ f[c].nullable) \/ bad,
         \A g \in K : WithKept(g, key, cs) \in L, NEW u \in OrFailed(bad, Stage(key, K, f))
  PROVE Do(u, AlterKeySql(cs)) \in OrFailed(bad, Stage(cs, L, f))
<1> DEFINE st == AlterKeySql(cs)
<1>1. st.op = "ALTER PRIMARY KEY" /\ st.columns = cs
  BY AlterKeySays
<1>2. ASSUME NEW v \in Stage(key, K, f)
      PROVE (Accepts(v, st) \/ bad) /\ (Accepts(v, st) => After(v, st) \in Stage(cs, L, f))
  <2>1. Accepts(v, st) \/ bad
    <3>1. v.columns = f /\ DOMAIN f = Column /\ v # None
      BY StageFields
    <3>2. cs \subseteq Has(f) \/ bad
      BY <3>1 DEF Has
    <3> HIDE DEF st
    <3> QED  BY <1>1, <3>1, <3>2 DEF Accepts
  <2>2. ASSUME Accepts(v, st) PROVE After(v, st) \in Stage(cs, L, f)
    <3>1. /\ After(v, st) = WithKey(v, cs) /\ cs \subseteq Has(v.columns)
          /\ \A c \in cs : ~ v.columns[c].nullable
      <4> HIDE DEF st
      <4> QED  BY <1>1, <2>2 DEF After, Accepts
    <3>2. \A c \in cs : v.columns[c] # None /\ ~ v.columns[c].nullable
      BY <3>1 DEF Has
    <3>0. v \in SoundTable /\ v.primaryKey = key
      BY StageFields
    <3>3. /\ WithKey(v, cs) \in SoundTable
          /\ WithKey(v, cs).primaryKey = cs
          /\ WithKey(v, cs).columns = v.columns
      BY <3>0, <3>2, WithKeyIsSound
    <3>4. WithKey(v, cs).indexes = WithKept(v.indexes, key, cs)
      BY <3>0, Zenon DEF WithKey, WithKept
    <3>5. WithKept(v.indexes, key, cs) \in L
      BY StageFields
    <3> HIDE DEF st
    <3> QED  BY <3>1, <3>3, <3>4, <3>5, StageFields DEF Stage
  <2> QED  BY <2>1, <2>2
<1> HIDE DEF st
<1>3. Stage(key, K, f) \in SUBSET SoundTable
  BY DEF Stage
<1>4. Do(u, st) \in OrFailed(bad, Stage(cs, L, f))
  BY <1>2, <1>3, Onward
<1> QED  BY <1>4 DEF st

LEMMA NewIndexDoes ==
  ASSUME NEW bad, NEW key, NEW K, NEW L, NEW f, NEW i \in Index, NEW d \in IndexDef,
         NEW b \in BOOLEAN,
         (\A c \in d.on : f[c] # None) \/ bad, b \/ d.on \cap Quoted = {} \/ bad,
         \A g \in K : g[i] = None /\ [g EXCEPT ![i] = d] \in L,
         NEW u \in OrFailed(bad, Stage(key, K, f))
  PROVE Do(u, CreateIndexSql(i, d, b)) \in OrFailed(bad, Stage(key, L, f))
<1> DEFINE st == CreateIndexSql(i, d, b)
<1>1. st.op = "CREATE INDEX" /\ st.index = i /\ st.def = d /\ st.quotes = b /\ IsStatement(st)
  BY DEF CreateIndexSql, IsStatement
<1>2. ASSUME NEW v \in Stage(key, K, f)
      PROVE (Accepts(v, st) \/ bad) /\ (Accepts(v, st) => After(v, st) \in Stage(key, L, f))
  <2>1. Accepts(v, st) \/ bad
    <3>0. v.columns = f /\ DOMAIN f = Column /\ v # None /\ v.indexes \in K
      BY StageFields
    <3>1. v.indexes[i] = None
      BY <3>0
    <3>2. d.on \subseteq Has(f) \/ bad
      BY <3>0 DEF Has, IndexDef
    <3> HIDE DEF st
    <3> QED  BY <1>1, <3>0, <3>1, <3>2 DEF Accepts
  <2>2. ASSUME Accepts(v, st) PROVE After(v, st) \in Stage(key, L, f)
    <3>1. After(v, st) \in SoundTable
      <4> HIDE DEF st
      <4> QED  BY <1>1, <2>2, StageFields, AfterIsSound
    <3>2. After(v, st) = [v EXCEPT !.indexes[i] = d]
      <4> HIDE DEF st
      <4> QED  BY <1>1 DEF After
    <3>3. After(v, st) = [columns |-> f, indexes |-> [v.indexes EXCEPT ![i] = d], primaryKey |-> key]
      <4> HIDE DEF st
      <4> QED  BY <3>2, StageFields
    <3>4. [v.indexes EXCEPT ![i] = d] \in L
      BY StageFields
    <3> HIDE DEF st
    <3> QED  BY <3>1, <3>3, <3>4 DEF Stage
  <2> QED  BY <2>1, <2>2
<1> HIDE DEF st
<1>3. Stage(key, K, f) \in SUBSET SoundTable
  BY DEF Stage
<1>4. Do(u, st) \in OrFailed(bad, Stage(key, L, f))
  BY <1>2, <1>3, Onward
<1> QED  BY <1>4 DEF st

LEMMA NoIndexDoes ==
  ASSUME NEW bad, NEW key, NEW K, NEW L, NEW f, NEW i \in Index,
         \A g \in K : (g[i] # None \/ bad) /\ [g EXCEPT ![i] = None] \in L,
         NEW u \in OrFailed(bad, Stage(key, K, f))
  PROVE Do(u, DropIndexSql(i)) \in OrFailed(bad, Stage(key, L, f))
<1> DEFINE st == DropIndexSql(i)
<1>1. st.op = "DROP INDEX" /\ st.index = i /\ IsStatement(st)
  BY DropIndexSays DEF IsStatement
<1>2. ASSUME NEW v \in Stage(key, K, f)
      PROVE (Accepts(v, st) \/ bad) /\ (Accepts(v, st) => After(v, st) \in Stage(key, L, f))
  <2>1. Accepts(v, st) \/ bad
    <3>1. v.indexes[i] # None \/ bad
      BY StageFields
    <3>2. (i \in Has(v.indexes) \/ bad) /\ v # None
      BY <3>1, StageFields DEF Has
    <3> HIDE DEF st
    <3> QED  BY <1>1, <3>2 DEF Accepts
  <2>2. ASSUME Accepts(v, st) PROVE After(v, st) \in Stage(key, L, f)
    <3>1. After(v, st) \in SoundTable
      <4> HIDE DEF st
      <4> QED  BY <1>1, <2>2, StageFields, AfterIsSound
    <3>2. After(v, st) = [v EXCEPT !.indexes[i] = None]
      <4> HIDE DEF st
      <4> QED  BY <1>1 DEF After
    <3>3. After(v, st) = [columns |-> f, indexes |-> [v.indexes EXCEPT ![i] = None], primaryKey |-> key]
      <4> HIDE DEF st
      <4> QED  BY <3>2, StageFields
    <3>4. [v.indexes EXCEPT ![i] = None] \in L
      BY StageFields
    <3> HIDE DEF st
    <3> QED  BY <3>1, <3>3, <3>4 DEF Stage
  <2> QED  BY <2>1, <2>2
<1> HIDE DEF st
<1>3. Stage(key, K, f) \in SUBSET SoundTable
  BY DEF Stage
<1>4. Do(u, st) \in OrFailed(bad, Stage(key, L, f))
  BY <1>2, <1>3, Onward
<1> QED  BY <1>4 DEF st

--------------------------------------------------------------------------------
(* Steps one after the other, up and down.                                     *)

LEMMA TwoParts ==
  ASSUME NEW W, NEW p \in StepsOver(W), NEW q \in StepsOver(W), NEW u
  PROVE /\ p \o q \in StepsOver(W)
        /\ Execute(u, Ups(p \o q)) = Execute(Execute(u, Ups(p)), Ups(q))
        /\ Execute(u, Downs(p \o q)) = Execute(Execute(u, Downs(q)), Downs(p))
<1>1. /\ p \o q \in StepsOver(W)
      /\ Ups(p \o q) = Ups(p) \o Ups(q) /\ Downs(p \o q) = Downs(q) \o Downs(p)
  BY UpsAndDownsConcat
<1>2. /\ Ups(p) \in Seq(W) /\ Ups(q) \in Seq(W) /\ Downs(p) \in Seq(W) /\ Downs(q) \in Seq(W)
  BY UpsAndDowns
<1>3. Execute(u, Ups(p) \o Ups(q)) = Execute(Execute(u, Ups(p)), Ups(q))
  BY <1>2, ExecuteConcat
<1>4. Execute(u, Downs(q) \o Downs(p)) = Execute(Execute(u, Downs(q)), Downs(p))
  BY <1>2, ExecuteConcat
<1> QED  BY <1>1, <1>3, <1>4

LEMMA PartsInTurn ==
  ASSUME NEW W, NEW p \in StepsOver(W), NEW q \in StepsOver(W), NEW r \in StepsOver(W), NEW u
  PROVE /\ p \o q \o r \in StepsOver(W)
        /\ Execute(u, Ups(p \o q \o r)) = Execute(Execute(Execute(u, Ups(p)), Ups(q)), Ups(r))
        /\ Execute(u, Downs(p \o q \o r))
             = Execute(Execute(Execute(u, Downs(r)), Downs(q)), Downs(p))
<1> DEFINE pq == p \o q
<1>1. /\ pq \in StepsOver(W)
      /\ Execute(u, Ups(pq)) = Execute(Execute(u, Ups(p)), Ups(q))
  BY TwoParts
<1>2. \A v : Execute(v, Downs(pq)) = Execute(Execute(v, Downs(q)), Downs(p))
  BY TwoParts
<1> HIDE DEF pq
<1>3. /\ pq \o r \in StepsOver(W)
      /\ Execute(u, Ups(pq \o r)) = Execute(Execute(u, Ups(pq)), Ups(r))
      /\ Execute(u, Downs(pq \o r)) = Execute(Execute(u, Downs(r)), Downs(pq))
  BY <1>1, TwoParts
<1> QED  BY <1>1, <1>2, <1>3 DEF pq

LEMMA NoSteps ==
  ASSUME NEW u
  PROVE Execute(u, Ups(<<>>)) = u /\ Execute(u, Downs(<<>>)) = u
BY UpsAndDownsFew, ExecuteFew

LEMMA OneUpOneDown ==
  ASSUME NEW u, NEW up, NEW down
  PROVE /\ Execute(u, Ups(<<Step(up, down)>>)) = Do(u, up)
        /\ Execute(u, Downs(<<Step(up, down)>>)) = Do(u, down)
<1>1. Ups(<<Step(up, down)>>) = <<up>> /\ Downs(<<Step(up, down)>>) = <<down>>
  BY UpsAndDownsFew
<1> QED  BY <1>1, ExecuteFew

LEMMA TwoUpsTwoDowns ==
  ASSUME NEW W, NEW up1 \in W, NEW down1 \in W, NEW up2 \in W, NEW down2 \in W, NEW u
  PROVE /\ Execute(u, Ups(<<Step(up1, down1), Step(up2, down2)>>)) = Do(Do(u, up1), up2)
        /\ Execute(u, Downs(<<Step(up1, down1), Step(up2, down2)>>)) = Do(Do(u, down2), down1)
<1> DEFINE a == Step(up1, down1)  b == Step(up2, down2)
           Z == [up : W, down : Seq(W)]
<1>1. a \in Z /\ b \in Z
  BY DEF Step
<1>2. Execute(u, Ups(<<a>>)) = Do(u, up1)
  BY OneUpOneDown
<1>3. \A v : Execute(v, Ups(<<b>>)) = Do(v, up2)
  BY OneUpOneDown
<1>4. Execute(u, Downs(<<b>>)) = Do(u, down2)
  BY OneUpOneDown
<1>5. \A v : Execute(v, Downs(<<a>>)) = Do(v, down1)
  BY OneUpOneDown
<1> HIDE DEF a, b, Z
<1>6. <<a, b>> = <<a>> \o <<b>>
  <2> DEFINE x == <<a>>  y == <<b>>  xy == x \o y  ab == <<a, b>>
  <2>1. x \in Seq(Z) /\ y \in Seq(Z) /\ Len(x) = 1 /\ Len(y) = 1 /\ x[1] = a /\ y[1] = b
    BY <1>1
  <2>2. ab \in Seq(Z) /\ Len(ab) = 2 /\ ab[1] = a /\ ab[2] = b
    BY <1>1
  <2> HIDE DEF x, y, ab
  <2>3. xy \in Seq(Z) /\ Len(xy) = 2 /\ xy[1] = x[1] /\ xy[2] = y[1]
    <3>1. /\ xy \in Seq(Z) /\ Len(xy) = 1 + 1
          /\ \A j \in 1 .. 1 + 1 : xy[j] = IF j <= 1 THEN x[j] ELSE y[j - 1]
      BY <2>1, ConcatProperties
    <3> HIDE DEF xy
    <3>2. 1 \in 1 .. 1 + 1 /\ 2 \in 1 .. 1 + 1 /\ ~ (2 <= 1) /\ 2 - 1 = 1
      OBVIOUS
    <3> QED  BY <3>1, <3>2
  <2> HIDE DEF xy
  <2>4. \A j \in 1 .. 2 : ab[j] = xy[j]
    BY <2>1, <2>2, <2>3
  <2>5. ab = xy
    BY <2>2, <2>3, <2>4, SeqEqual
  <2> QED  BY <2>5 DEF xy, ab, x, y
<1>7. <<a>> \in StepsOver(W) /\ <<b>> \in StepsOver(W)
  <2>1. <<a>> \in Seq(Z) /\ <<b>> \in Seq(Z)
    BY <1>1
  <2> QED  BY <2>1 DEF StepsOver, Z
<1>8. /\ Execute(u, Ups(<<a>> \o <<b>>)) = Execute(Execute(u, Ups(<<a>>)), Ups(<<b>>))
      /\ Execute(u, Downs(<<a>> \o <<b>>)) = Execute(Execute(u, Downs(<<b>>)), Downs(<<a>>))
  BY <1>7, TwoParts
<1> QED  BY <1>2, <1>3, <1>4, <1>5, <1>6, <1>8 DEF a, b

--------------------------------------------------------------------------------
(* What a change makes of a column, and what its downs make of that.           *)

Changed(d, e) ==
  IF Recreates(d, e) THEN Stored(AddedAgain(d, e))
  ELSE [kind |-> IF TypeDiffers(d, e) THEN d.kind ELSE e.kind, nullable |-> d.nullable,
        default |-> e.default, computed |-> e.computed]

LEMMA ModifyDoes ==
  ASSUME NEW bad, NEW key, NEW K, NEW f \in [Column -> ColumnDef \cup {None}], NEW c \in Column,
         NEW d \in ColumnDef, NEW e \in ColumnDef, Convert[e.kind] # "unknown", f[c] = e,
         d.default = None \/ d.computed = None,
         TypeDiffers(d, e) /\ d.kind = "array" => bad,
         NullDiffers(d, e) /\ d.nullable /\ c \in key => bad,
         Recreates(d, e) /\ c \in key => bad,
         Recreates(d, e) => \A g \in K : Without(g, c) \in K,
         NEW u \in OrFailed(bad, Stage(key, K, f))
  PROVE Execute(u, Ups(ModifyColumn(c, d, e)))
          \in OrFailed(bad, Stage(key, K, [f EXCEPT ![c] = Changed(d, e)]))
<1> DEFINE p == TypeStep(c, d, e)  q == NullStep(c, d, e)  r == AgainSteps(c, d, e)
           e1 == [kind |-> IF TypeDiffers(d, e) THEN d.kind ELSE e.kind, nullable |-> e.nullable,
                  default |-> e.default, computed |-> e.computed]
           e2 == [kind |-> IF TypeDiffers(d, e) THEN d.kind ELSE e.kind, nullable |-> d.nullable,
                  default |-> e.default, computed |-> e.computed]
           f1 == [f EXCEPT ![c] = e1]  f2 == [f EXCEPT ![c] = e2]
           f3 == [f EXCEPT ![c] = Changed(d, e)]
           u1 == Execute(u, Ups(p))  u2 == Execute(u1, Ups(q))  u3 == Execute(u2, Ups(r))
<1>1. /\ p \in StepsOver(AnyStatement) /\ q \in StepsOver(AnyStatement)
      /\ r \in StepsOver(AnyStatement) /\ AddedAgain(d, e) \in ColumnDef
      /\ PutBack(d, e) \in ColumnDef
  BY PartsAreSteps
<1>2. ModifyColumn(c, d, e) = p \o q \o r
  BY ModifyInParts
<1>3. Execute(u, Ups(p \o q \o r)) = u3
  <2> HIDE DEF p, q, r
  <2> QED  BY <1>1, PartsInTurn
<1>4. /\ d.kind \in DbKind /\ d.nullable \in BOOLEAN /\ e.nullable \in BOOLEAN
      /\ e1 \in ColumnDef /\ e2 \in ColumnDef /\ e # None /\ e1 # None /\ e2 # None
      /\ e = [kind |-> e.kind, nullable |-> e.nullable, default |-> e.default,
              computed |-> e.computed]
  <2>1. /\ d.kind \in DbKind /\ d.nullable \in BOOLEAN /\ e.nullable \in BOOLEAN
        /\ e1 \in ColumnDef /\ e2 \in ColumnDef
        /\ e = [kind |-> e.kind, nullable |-> e.nullable, default |-> e.default,
                computed |-> e.computed]
    BY DEF ColumnDef
  <2> HIDE DEF e1, e2
  <2> QED  BY <2>1, TablesAre
<1>5. f1 \in [Column -> ColumnDef \cup {None}] /\ f1[c] = e1
      /\ f2 \in [Column -> ColumnDef \cup {None}] /\ f2[c] = e2
  <2> HIDE DEF e1, e2
  <2> QED  BY <1>4
<1>6. u1 \in OrFailed(bad, Stage(key, K, f1))
  <2>1. CASE ~ TypeDiffers(d, e)
    <3>1. p = <<>> /\ e1 = e
      BY <1>4, <2>1 DEF TypeStep
    <3>2. f1 = f
      <4> HIDE DEF e1
      <4> QED  BY <3>1
    <3>3. u1 = u
      BY <3>1, NoSteps
    <3> QED  BY <3>2, <3>3
  <2>2. CASE TypeDiffers(d, e)
    <3>1. p = <<Step(SetTypeSql(c, d.kind), SetTypeSql(c, Convert[e.kind]))>>
      BY <2>2 DEF TypeStep
    <3>2. u1 = Do(u, SetTypeSql(c, d.kind))
      BY <3>1, OneUpOneDown
    <3>3. e1 = [f[c] EXCEPT !.kind = d.kind]
      BY <1>4, <2>2
    <3>4. Do(u, SetTypeSql(c, d.kind)) \in OrFailed(bad, Stage(key, K, [f EXCEPT ![c] = [f[c] EXCEPT !.kind = d.kind]]))
      BY <1>4, <2>2, SetTypeDoes
    <3> HIDE DEF e1, u1
    <3> QED  BY <3>2, <3>3, <3>4
  <2> QED  BY <2>1, <2>2
<1>7. u2 \in OrFailed(bad, Stage(key, K, f2))
  <2>1. CASE ~ NullDiffers(d, e)
    <3>1. q = <<>> /\ e2 = e1
      BY <1>4, <2>1 DEF NullStep, NullDiffers
    <3>2. u2 = u1
      BY <3>1, NoSteps
    <3> HIDE DEF e1, e2, u1, u2
    <3> QED  BY <1>6, <3>1, <3>2
  <2>2. CASE NullDiffers(d, e)
    <3>1. q = <<Step(SetNullSql(c, d.nullable), SetNullSql(c, e.nullable))>>
      BY <2>2 DEF NullStep
    <3>2. u2 = Do(u1, SetNullSql(c, d.nullable))
      BY <3>1, OneUpOneDown
    <3>3. e2 = [e1 EXCEPT !.nullable = d.nullable]
      BY <1>4, <2>2
    <3>4. [f1 EXCEPT ![c] = [f1[c] EXCEPT !.nullable = d.nullable]] = f2
      <4> HIDE DEF e1, e2
      <4> QED  BY <1>5, <3>3
    <3> HIDE DEF e1, e2, u1, u2, f1, f2
    <3>5. Do(u1, SetNullSql(c, d.nullable)) \in OrFailed(bad, Stage(key, K, [f1 EXCEPT ![c] = [f1[c] EXCEPT !.nullable = d.nullable]]))
      BY <1>4, <1>5, <1>6, <2>2, SetNullDoes
    <3> QED  BY <3>2, <3>4, <3>5
  <2> QED  BY <2>1, <2>2
<1>8. u3 \in OrFailed(bad, Stage(key, K, f3))
  <2>1. CASE ~ Recreates(d, e)
    <3>1. r = <<>> /\ Changed(d, e) = e2
      BY <2>1 DEF AgainSteps, Changed
    <3>2. u3 = u2
      BY <3>1, NoSteps
    <3> HIDE DEF e2, u2, u3
    <3> QED  BY <1>7, <3>1, <3>2
  <2>2. CASE Recreates(d, e)
    <3>1. r = <<Step(DropColumnSql(c), AddColumnSql(c, PutBack(d, e))),
                Step(AddColumnSql(c, AddedAgain(d, e)), DropColumnSql(c))>>
      BY <2>2, ModifyInParts DEF AgainSteps
    <3> DEFINE st1 == DropColumnSql(c)  st2 == AddColumnSql(c, AddedAgain(d, e))
               st3 == AddColumnSql(c, PutBack(d, e))
    <3>2. st1 \in AnyStatement /\ st2 \in AnyStatement /\ st3 \in AnyStatement
      BY <1>1, ColumnIsAny, StatementsAre
    <3>3. u3 = Do(Do(u2, st1), st2)
      <4> HIDE DEF st1, st2, st3, u2
      <4> QED  BY <3>1, <3>2, TwoUpsTwoDowns DEF st1, st2, st3
    <3> HIDE DEF u1, u2, u3, e1, e2, f1, f2
    <3>4. Do(u2, st1) \in OrFailed(bad, Stage(key, K, [f2 EXCEPT ![c] = None]))
      BY <1>4, <1>5, <1>7, <2>2, DropDoes
    <3> DEFINE u4 == Do(u2, st1)  f4 == [f2 EXCEPT ![c] = None]  again == AddedAgain(d, e)
    <3>5. again \in ColumnDef /\ (again.default = None \/ again.computed = None)
      BY <1>1, <2>2 DEF AddedAgain, Recreates
    <3>6. f4[c] = None
      BY <1>5
    <3> HIDE DEF u4, f4, again
    <3>7. Do(u4, AddColumnSql(c, again)) \in OrFailed(bad, Stage(key, K, [f4 EXCEPT ![c] = Stored(again)]))
      BY <3>4, <3>5, <3>6, AddDoes DEF u4, f4
    <3>8. [f4 EXCEPT ![c] = Stored(again)] = f3
      <4>1. Changed(d, e) = Stored(again)
        BY <2>2 DEF Changed, again
      <4> HIDE DEF e2
      <4> QED  BY <4>1 DEF f4, f2
    <3> QED  BY <3>3, <3>7, <3>8 DEF u4, again
  <2> QED  BY <2>1, <2>2
<1> QED  BY <1>2, <1>3, <1>8

--------------------------------------------------------------------------------
(* Up, on the table that the snapshot tells: what becomes of the columns.      *)

Tells(s, o, n, t) ==
  /\ Legal(s, o, n) /\ o.on /\ n.exists /\ t \in SoundTable
  /\ IntrospectsColumns(o) => n.columns = t.columns
  /\ IF IntrospectsIndexes(o) THEN n.indexes = t.indexes /\ n.key = t.primaryKey
     ELSE n.indexes = NoIndexes /\ n.key = {}

(* Columns the migration drops, and those it drops the NOT NULL of.            *)
Lost(s, o, n) ==
  IF IntrospectsColumns(o)
  THEN ExtraColumns(s, n)
         \cup {c \in ModifiedColumns(s, o, n) : Recreates(s.columns[c], n.columns[c])}
  ELSE {}
Loosened(s, o, n) ==
  IF IntrospectsColumns(o)
  THEN {c \in ModifiedColumns(s, o, n) :
          NullDiffers(s.columns[c], n.columns[c]) /\ s.columns[c].nullable}
  ELSE {}
Arrays(s, o, n) ==
  IF IntrospectsColumns(o)
  THEN {c \in ModifiedColumns(s, o, n) :
          TypeDiffers(s.columns[c], n.columns[c]) /\ s.columns[c].kind = "array"}
  ELSE {}

(* The cases in which up may be refused, in terms of the tables.               *)
BadColumns(s, o, n, t) ==
  t.primaryKey \cap (Lost(s, o, n) \cup Loosened(s, o, n)) # {} \/ Arrays(s, o, n) # {}
BadDrops(s, o, n, t) ==
  IntrospectsIndexes(o) /\ \E i \in ExtraIndexes(s, o, n) : t.indexes[i].on \cap Lost(s, o, n) # {}
Wanting(o, t, c) ==
  /\ ~ IntrospectsColumns(o) \/ IgnoresColumn(o, c)
  /\ t.columns[c] = None \/ t.columns[c].nullable
BadNeeds(s, o, n, t) ==
  \E c \in Column :
    /\ Wanting(o, t, c)
    /\ \/ KeyDiffers(s, n) /\ c \in s.primaryKey
       \/ IntrospectsIndexes(o) /\ \E i \in MissingIndexes(s, o, n) : c \in s.indexes[i].on
Bad(s, o, n, t) == BadColumns(s, o, n, t) \/ BadDrops(s, o, n, t) \/ BadNeeds(s, o, n, t)

(* The indexes of h, some that are on a column of L gone.                      *)
Spared(h, L) ==
  {g \in [Index -> IndexDef \cup {None}] :
     \A i \in Index : \/ g[i] = h[i]
                      \/ g[i] = None /\ h[i] # None /\ \E c \in L : c \in h[i].on}

LEMMA SparedWithout ==
  ASSUME NEW h \in [Index -> IndexDef \cup {None}], NEW L, NEW c \in L, NEW g \in Spared(h, L)
  PROVE Without(g, c) \in Spared(h, L)
<1>1. Without(g, c) \in [Index -> IndexDef \cup {None}]
  BY DEF Spared, Without
<1>2. ASSUME NEW i \in Index
      PROVE \/ Without(g, c)[i] = h[i]
            \/ Without(g, c)[i] = None /\ h[i] # None /\ \E x \in L : x \in h[i].on
  BY DEF Spared, Without
<1> QED  BY <1>1, <1>2 DEF Spared

(* What is to become of a column, and the columns when that is done for some.  *)
Target(s, n, c) ==
  IF c \in ExtraColumns(s, n) THEN None
  ELSE IF n.columns[c] = None THEN Stored(s.columns[c])
  ELSE Changed(s.columns[c], n.columns[c])
Reached(s, n, f, C) == [c \in Column |-> IF c \in C THEN Target(s, n, c) ELSE f[c]]
Changes(s, o, n) ==
  IF IntrospectsColumns(o)
  THEN ExtraColumns(s, n) \cup MissingColumns(s, o, n) \cup ModifiedColumns(s, o, n) ELSE {}
FinalColumns(s, o, n, t) == Reached(s, n, t.columns, Changes(s, o, n))

LEMMA ChangedIsColumn ==
  ASSUME NEW d \in ColumnDef, NEW e \in ColumnDef
  PROVE Changed(d, e) \in ColumnDef
<1>1. CASE Recreates(d, e)
  <2>1. AddedAgain(d, e) \in ColumnDef
    <3>1. NullDiffers(d, e) \in BOOLEAN /\ "varchar" \in DbKind
      BY DEF NullDiffers, DbKind, SchemaKind
    <3> QED  BY <3>1 DEF AddedAgain, ColumnDef
  <2> QED  BY <1>1, <2>1, StoredIsColumn DEF Changed
<1>2. CASE ~ Recreates(d, e)
  BY <1>2 DEF Changed, ColumnDef
<1> QED  BY <1>1, <1>2

LEMMA TargetIs ==
  ASSUME NEW s, NEW o, NEW n, Legal(s, o, n), o.on, n.exists
  PROVE /\ \A c \in ExtraColumns(s, n) :
             /\ c \notin MissingColumns(s, o, n) \cup ModifiedColumns(s, o, n)
             /\ Target(s, n, c) = None
        /\ \A c \in MissingColumns(s, o, n) :
             /\ c \notin ExtraColumns(s, n) \cup ModifiedColumns(s, o, n)
             /\ Target(s, n, c) = Stored(s.columns[c]) /\ Stored(s.columns[c]) \in ColumnDef
        /\ \A c \in ModifiedColumns(s, o, n) :
             /\ c \notin ExtraColumns(s, n) \cup MissingColumns(s, o, n)
             /\ Target(s, n, c) = Changed(s.columns[c], n.columns[c])
             /\ Changed(s.columns[c], n.columns[c]) \in ColumnDef
<1>1. ASSUME NEW c \in ExtraColumns(s, n)
      PROVE /\ c \notin MissingColumns(s, o, n) \cup ModifiedColumns(s, o, n)
            /\ Target(s, n, c) = None
  BY DEF ExtraColumns, MissingColumns, ModifiedColumns, Compared, Target
<1>2. ASSUME NEW c \in MissingColumns(s, o, n)
      PROVE /\ c \notin ExtraColumns(s, n) \cup ModifiedColumns(s, o, n)
            /\ Target(s, n, c) = Stored(s.columns[c]) /\ Stored(s.columns[c]) \in ColumnDef
  <2>1. s.columns[c] \in ColumnDef /\ n.columns[c] = None
    BY ColumnPairs
  <2>2. c \notin ExtraColumns(s, n) \cup ModifiedColumns(s, o, n)
    BY <2>1 DEF ExtraColumns, MissingColumns, ModifiedColumns, Compared
  <2> QED  BY <2>1, <2>2, StoredIsColumn DEF Target
<1>3. ASSUME NEW c \in ModifiedColumns(s, o, n)
      PROVE /\ c \notin ExtraColumns(s, n) \cup MissingColumns(s, o, n)
            /\ Target(s, n, c) = Changed(s.columns[c], n.columns[c])
            /\ Changed(s.columns[c], n.columns[c]) \in ColumnDef
  <2>1. s.columns[c] \in ColumnDef /\ n.columns[c] \in ColumnDef
    BY ColumnPairs
  <2>2. c \notin ExtraColumns(s, n) \cup MissingColumns(s, o, n) /\ n.columns[c] # None
    BY DEF ExtraColumns, MissingColumns, ModifiedColumns, Compared
  <2> QED  BY <2>1, <2>2, ChangedIsColumn DEF Target
<1> QED  BY <1>1, <1>2, <1>3

LEMMA ReachedNext ==
  \A s, n, f, C : \A c \in Column \ C :
    /\ Reached(s, n, f, C)[c] = f[c]
    /\ Reached(s, n, f, C \cup {c}) = [Reached(s, n, f, C) EXCEPT ![c] = Target(s, n, c)]
<1> SUFFICES ASSUME NEW s, NEW n, NEW f, NEW C, NEW c \in Column \ C
             PROVE  /\ Reached(s, n, f, C)[c] = f[c]
                    /\ Reached(s, n, f, C \cup {c})
                         = [Reached(s, n, f, C) EXCEPT ![c] = Target(s, n, c)]
  BY Zenon
<1> DEFINE F == Reached(s, n, f, C)  x == Target(s, n, c)
<1>1. F = [b \in Column |-> IF b \in C THEN Target(s, n, b) ELSE f[b]]
  BY DEF Reached
<1>2. Reached(s, n, f, C \cup {c})
        = [b \in Column |-> IF b \in C \cup {c} THEN Target(s, n, b) ELSE f[b]]
  BY DEF Reached
<1> QED  BY <1>1, <1>2

LEMMA ReachedType ==
  ASSUME NEW s, NEW o, NEW n, Legal(s, o, n), o.on, n.exists,
         NEW f \in [Column -> ColumnDef \cup {None}],
         NEW C \in SUBSET (ExtraColumns(s, n) \cup MissingColumns(s, o, n) \cup ModifiedColumns(s, o, n))
  PROVE Reached(s, n, f, C) \in [Column -> ColumnDef \cup {None}]
<1>1. \A c \in C : Target(s, n, c) \in ColumnDef \cup {None}
  BY TargetIs
<1> QED  BY <1>1 DEF Reached

(* The columns once the changes of C are made: OrFailed for a whole block.     *)
Then(bad, key, K, s, n, f, C) == OrFailed(bad, Stage(key, K, Reached(s, n, f, C)))

LEMMA DropBlockUp ==
  ASSUME NEW s, NEW o, NEW n, Legal(s, o, n), o.on, n.exists,
         NEW bad, NEW key, NEW K, NEW u \in Then(bad, key, K, s, n, n.columns, {}),
         \A c \in ExtraColumns(s, n) : c \in key => bad,
         \A c \in ExtraColumns(s, n) : \A g \in K : Without(g, c) \in K
  PROVE Execute(u, Ups(InOrder(DropBlock(s, n))))
          \in Then(bad, key, K, s, n, n.columns, ExtraColumns(s, n))
<1> DEFINE X == ExtraColumns(s, n)  f == n.columns  steps == DropBlock(s, n)
           T == [C \in SUBSET X |-> Then(bad, key, K, s, n, f, C)]
<1>1. /\ DOMAIN steps = X /\ IsFiniteSet(X)
      /\ \A c \in X : steps[c] = <<DropColumn(c, f[c])>>
      /\ \A c \in X : steps[c] \in StepsOver(AnyStatement)
      /\ \A c \in X : c \in Column /\ f[c] \in ColumnDef
  <2>1. DOMAIN steps = X /\ \A c \in X : steps[c] = <<DropColumn(c, f[c])>>
    BY DEF DropBlock
  <2> QED  BY <2>1, BlocksAreSteps, BlocksAreFinite, ColumnPairs DEF StepsOver, AnyStep
<1> HIDE DEF X, steps
<1>2. ASSUME NEW C \in SUBSET X, NEW c \in X \ C, NEW v \in T[C]
      PROVE Execute(v, Ups(steps[c])) \in T[C \cup {c}]
  <2> DEFINE F == Reached(s, n, f, C)
  <2>1. Execute(v, Ups(steps[c])) = Do(v, DropColumnSql(c))
    BY <1>1, OneUpOneDown DEF DropColumn
  <2>2. F[c] = f[c] /\ Reached(s, n, f, C \cup {c}) = [F EXCEPT ![c] = None]
    <3>1. Target(s, n, c) = None
      BY TargetIs DEF X
    <3>2. c \in Column \ C
      BY <1>1
    <3>3. /\ Reached(s, n, f, C)[c] = f[c]
          /\ Reached(s, n, f, C \cup {c}) = [Reached(s, n, f, C) EXCEPT ![c] = Target(s, n, c)]
      <4> HIDE DEF f, X, T
      <4>1. Reached(s, n, f, C)[c] = f[c]
        BY <3>2 DEF Reached
      <4>2. Reached(s, n, f, C \cup {c}) = [Reached(s, n, f, C) EXCEPT ![c] = Target(s, n, c)]
        BY <3>2, ReachedNext
      <4> QED  BY <4>1, <4>2
    <3> QED  BY <3>1, <3>3
  <2>3. F[c] # None
    BY <1>1, <2>2, TablesAre
  <2>4. v \in OrFailed(bad, Stage(key, K, F))
    BY DEF Then
  <2> HIDE DEF F
  <2>5. Do(v, DropColumnSql(c)) \in OrFailed(bad, Stage(key, K, [F EXCEPT ![c] = None]))
    <3>1. /\ c \in Column
          /\ c \in key => bad
          /\ \A g \in K : Without(g, c) \in K
      BY <1>1 DEF X
    <3> QED  BY <2>3, <2>4, <3>1, DropDoes
  <2>6. C \cup {c} \in SUBSET X
    OBVIOUS
  <2> QED  BY <2>1, <2>2, <2>5, <2>6 DEF Then, F
<1>3. u \in T[{}]
  OBVIOUS
<1> HIDE DEF T
<1>4. Execute(u, Ups(InOrder(steps))) \in T[DOMAIN steps]
  BY <1>1, <1>2, <1>3, InOrderExecutes
<1> QED  BY <1>1, <1>4 DEF T, steps, X

LEMMA AddBlockUp ==
  ASSUME NEW s, NEW o, NEW n, Legal(s, o, n), o.on, n.exists,
         NEW bad, NEW key, NEW K, NEW B, B \cap MissingColumns(s, o, n) = {},
         NEW u \in Then(bad, key, K, s, n, n.columns, B)
  PROVE Execute(u, Ups(InOrder(AddBlock(s, o, n))))
          \in Then(bad, key, K, s, n, n.columns, B \cup MissingColumns(s, o, n))
<1> DEFINE X == MissingColumns(s, o, n)  f == n.columns  steps == AddBlock(s, o, n)
           T == [C \in SUBSET X |-> Then(bad, key, K, s, n, f, B \cup C)]
<1>1. /\ DOMAIN steps = X /\ IsFiniteSet(X)
      /\ \A c \in X : steps[c] = <<AddColumn(c, s.columns[c])>>
      /\ \A c \in X : steps[c] \in StepsOver(AnyStatement)
      /\ \A c \in X : c \in Column /\ f[c] = None /\ s.columns[c] \in ColumnDef
      /\ \A c \in X : s.columns[c].default = None \/ s.columns[c].computed = None
  <2>1. DOMAIN steps = X /\ \A c \in X : steps[c] = <<AddColumn(c, s.columns[c])>>
    BY DEF AddBlock
  <2>2. \A c \in X : s.columns[c].default = None \/ s.columns[c].computed = None
    BY DEF MissingColumns, Legal, IsDeclarable
  <2>3. IsFiniteSet(X)
    BY <2>1, BlocksAreFinite
  <2>4. \A c \in X : steps[c] \in StepsOver(AnyStatement)
    BY <2>1, BlocksAreSteps DEF StepsOver, AnyStep
  <2>5. \A c \in X : c \in Column /\ f[c] = None /\ s.columns[c] \in ColumnDef
    BY ColumnPairs
  <2> HIDE DEF X, steps, f
  <2> QED  BY <2>1, <2>2, <2>3, <2>4, <2>5
<1> HIDE DEF X, steps
<1>2. ASSUME NEW C \in SUBSET X, NEW c \in X \ C, NEW v \in T[C]
      PROVE Execute(v, Ups(steps[c])) \in T[C \cup {c}]
  <2> DEFINE F == Reached(s, n, f, B \cup C)  d == s.columns[c]
  <2>1. Execute(v, Ups(steps[c])) = Do(v, AddColumnSql(c, d))
    <3>1. steps[c] = <<Step(AddColumnSql(c, d), DropColumnSql(c))>>
      BY <1>1 DEF AddColumn
    <3> HIDE DEF d
    <3> QED  BY <3>1, OneUpOneDown
  <2>2. F[c] = f[c] /\ Reached(s, n, f, (B \cup C) \cup {c}) = [F EXCEPT ![c] = Stored(d)]
    <3>1. Target(s, n, c) = Stored(d)
      BY TargetIs DEF X
    <3>2. c \notin B \cup C
      BY DEF X
    <3>3. c \in Column \ (B \cup C)
      BY <1>1, <3>2
    <3> QED  BY <3>1, <3>3, ReachedNext
  <2>3. F[c] = None /\ c \in Column /\ d \in ColumnDef /\ (d.default = None \/ d.computed = None)
    BY <1>1, <2>2
  <2>4. v \in OrFailed(bad, Stage(key, K, F))
    BY DEF Then
  <2> HIDE DEF F, d
  <2>5. Do(v, AddColumnSql(c, d)) \in OrFailed(bad, Stage(key, K, [F EXCEPT ![c] = Stored(d)]))
    BY <2>3, <2>4, AddDoes
  <2>6. C \cup {c} \in SUBSET X /\ (B \cup C) \cup {c} = B \cup (C \cup {c})
    OBVIOUS
  <2> QED  BY <2>1, <2>2, <2>5, <2>6 DEF Then, F
<1>3. u \in T[{}]
  <2>1. B \cup {} = B
    OBVIOUS
  <2> QED  BY <2>1
<1> HIDE DEF T
<1>4. Execute(u, Ups(InOrder(steps))) \in T[DOMAIN steps]
  BY <1>1, <1>2, <1>3, InOrderExecutes
<1> QED  BY <1>1, <1>4 DEF T, steps, X

LEMMA ModifyBlockUp ==
  ASSUME NEW s, NEW o, NEW n, Legal(s, o, n), o.on, n.exists,
         NEW bad, NEW key, NEW K,
         NEW B \in SUBSET (ExtraColumns(s, n) \cup MissingColumns(s, o, n)),
         NEW u \in Then(bad, key, K, s, n, n.columns, B),
         \A c \in ModifiedColumns(s, o, n) :
           /\ TypeDiffers(s.columns[c], n.columns[c]) /\ s.columns[c].kind = "array" => bad
           /\ NullDiffers(s.columns[c], n.columns[c]) /\ s.columns[c].nullable /\ c \in key => bad
           /\ Recreates(s.columns[c], n.columns[c]) /\ c \in key => bad
           /\ Recreates(s.columns[c], n.columns[c]) => \A g \in K : Without(g, c) \in K
  PROVE Execute(u, Ups(InOrder(ModifyBlock(s, o, n))))
          \in Then(bad, key, K, s, n, n.columns, B \cup ModifiedColumns(s, o, n))
<1> DEFINE X == ModifiedColumns(s, o, n)  f == n.columns  steps == ModifyBlock(s, o, n)
           T == [C \in SUBSET X |-> Then(bad, key, K, s, n, f, B \cup C)]
<1>1. /\ DOMAIN steps = X /\ IsFiniteSet(X)
      /\ \A c \in X : steps[c] = ModifyColumn(c, s.columns[c], f[c])
      /\ \A c \in X : steps[c] \in StepsOver(AnyStatement)
      /\ \A c \in X : c \in Column /\ f[c] \in ColumnDef /\ s.columns[c] \in ColumnDef
      /\ \A c \in X : Convert[f[c].kind] # "unknown"
      /\ \A c \in X : s.columns[c].default = None \/ s.columns[c].computed = None
      /\ f \in [Column -> ColumnDef \cup {None}]
  <2>1. DOMAIN steps = X /\ \A c \in X : steps[c] = ModifyColumn(c, s.columns[c], f[c])
    BY DEF ModifyBlock
  <2>2. \A c \in X : s.columns[c].default = None \/ s.columns[c].computed = None
    BY DEF ModifiedColumns, Compared, Legal, IsDeclarable
  <2>3. f \in [Column -> ColumnDef \cup {None}]
    BY DEF Legal, Snapshot
  <2>4. IsFiniteSet(X)
    BY <2>1, BlocksAreFinite
  <2>5. \A c \in X : steps[c] \in StepsOver(AnyStatement)
    BY <2>1, BlocksAreSteps DEF StepsOver, AnyStep
  <2>6. /\ \A c \in X : c \in Column /\ f[c] \in ColumnDef /\ s.columns[c] \in ColumnDef
        /\ \A c \in X : Convert[f[c].kind] # "unknown"
    BY ColumnPairs
  <2> HIDE DEF X, steps, f
  <2> QED  BY <2>1, <2>2, <2>3, <2>4, <2>5, <2>6
<1> HIDE DEF X, steps
<1>2. ASSUME NEW C \in SUBSET X, NEW c \in X \ C, NEW v \in T[C]
      PROVE Execute(v, Ups(steps[c])) \in T[C \cup {c}]
  <2> DEFINE F == Reached(s, n, f, B \cup C)  d == s.columns[c]  e == f[c]
  <2>1. Execute(v, Ups(steps[c])) = Execute(v, Ups(ModifyColumn(c, d, e)))
    BY <1>1
  <2>2. F[c] = e /\ Reached(s, n, f, (B \cup C) \cup {c}) = [F EXCEPT ![c] = Changed(d, e)]
    <3>1. Target(s, n, c) = Changed(d, e) /\ c \notin ExtraColumns(s, n) \cup MissingColumns(s, o, n)
      BY TargetIs DEF X
    <3>2. c \notin B \cup C
      BY <3>1
    <3>3. c \in Column \ (B \cup C)
      BY <1>1, <3>2
    <3>4. /\ Reached(s, n, f, B \cup C)[c] = f[c]
          /\ Reached(s, n, f, (B \cup C) \cup {c})
               = [Reached(s, n, f, B \cup C) EXCEPT ![c] = Target(s, n, c)]
      <4> HIDE DEF f, X, T
      <4>1. Reached(s, n, f, B \cup C)[c] = f[c]
        BY <3>3 DEF Reached
      <4>2. Reached(s, n, f, (B \cup C) \cup {c})
               = [Reached(s, n, f, B \cup C) EXCEPT ![c] = Target(s, n, c)]
        BY <3>3, ReachedNext
      <4> QED  BY <4>1, <4>2
    <3> QED  BY <3>1, <3>4
  <2>3. F \in [Column -> ColumnDef \cup {None}]
    <3>1. B \cup C \in SUBSET (ExtraColumns(s, n) \cup MissingColumns(s, o, n) \cup ModifiedColumns(s, o, n))
      BY DEF X
    <3> QED  BY <1>1, <3>1, ReachedType
  <2>4. v \in OrFailed(bad, Stage(key, K, F))
    BY DEF Then
  <2>5. /\ c \in Column /\ d \in ColumnDef /\ e \in ColumnDef /\ Convert[e.kind] # "unknown"
        /\ d.default = None \/ d.computed = None
        /\ TypeDiffers(d, e) /\ d.kind = "array" => bad
        /\ NullDiffers(d, e) /\ d.nullable /\ c \in key => bad
        /\ Recreates(d, e) /\ c \in key => bad
        /\ Recreates(d, e) => \A g \in K : Without(g, c) \in K
    BY <1>1 DEF X
  <2> HIDE DEF F, d, e
  <2>6. Execute(v, Ups(ModifyColumn(c, d, e)))
          \in OrFailed(bad, Stage(key, K, [F EXCEPT ![c] = Changed(d, e)]))
    BY <2>2, <2>3, <2>4, <2>5, ModifyDoes
  <2>7. C \cup {c} \in SUBSET X /\ (B \cup C) \cup {c} = B \cup (C \cup {c})
    OBVIOUS
  <2> QED  BY <2>1, <2>2, <2>6, <2>7 DEF Then, F
<1>3. u \in T[{}]
  <2>1. B \cup {} = B
    OBVIOUS
  <2> QED  BY <2>1
<1> HIDE DEF T
<1>4. Execute(u, Ups(InOrder(steps))) \in T[DOMAIN steps]
  BY <1>1, <1>2, <1>3, InOrderExecutes
<1> QED  BY <1>1, <1>4 DEF T, steps, X

LEMMA ColumnsUp ==
  ASSUME NEW s, NEW o, NEW n, NEW t, Tells(s, o, n, t), NEW bad, BadColumns(s, o, n, t) => bad
  PROVE Execute(t, Ups(ColumnSteps(s, o, n)))
          \in OrFailed(bad, Stage(t.primaryKey, Spared(t.indexes, Lost(s, o, n)),
                                  FinalColumns(s, o, n, t)))
<1> DEFINE key == t.primaryKey  L == Lost(s, o, n)  K == Spared(t.indexes, L)
           f == t.columns
<1>1. Legal(s, o, n) /\ o.on /\ n.exists /\ t \in SoundTable
  BY DEF Tells
<1>2. /\ f \in [Column -> ColumnDef \cup {None}]
      /\ t.indexes \in [Index -> IndexDef \cup {None}]
  BY <1>1, SoundFields
<1>3. Reached(s, n, f, {}) = f
  BY <1>2 DEF Reached
<1>4. t \in OrFailed(bad, Stage(key, K, f))
  <2>1. t.indexes \in K
    BY <1>2 DEF Spared
  <2> QED  BY <1>1, <2>1 DEF Stage, OrFailed
<1>5. CASE ~ IntrospectsColumns(o)
  <2>1. ColumnSteps(s, o, n) = <<>>
    BY <1>5, StepsInBlocks
  <2>2. FinalColumns(s, o, n, t) = f
    BY <1>3, <1>5 DEF FinalColumns, Changes
  <2>3. Execute(t, Ups(ColumnSteps(s, o, n))) = t
    BY <2>1, NoSteps
  <2> QED  BY <1>4, <2>2, <2>3
<1>6. CASE IntrospectsColumns(o)
  <2> DEFINE X == ExtraColumns(s, n)  A == MissingColumns(s, o, n)  M == ModifiedColumns(s, o, n)
             p == InOrder(DropBlock(s, n))  q == InOrder(AddBlock(s, o, n))
             r == InOrder(ModifyBlock(s, o, n))
             u1 == Execute(t, Ups(p))  u2 == Execute(u1, Ups(q))  u3 == Execute(u2, Ups(r))
  <2>1. n.columns = f
    BY <1>6 DEF Tells
  <2>2. Execute(t, Ups(ColumnSteps(s, o, n))) = u3
    <3>1. ColumnSteps(s, o, n) = p \o q \o r
      BY <1>6, StepsInBlocks
    <3>2. /\ p \in StepsOver(AnyStatement) /\ q \in StepsOver(AnyStatement)
          /\ r \in StepsOver(AnyStatement)
      BY <1>1, AlterStepsAreSteps DEF StepsOver, AnyStep
    <3> HIDE DEF p, q, r
    <3> QED  BY <3>1, <3>2, PartsInTurn
  <2>3. /\ L = X \cup {c \in M : Recreates(s.columns[c], n.columns[c])}
        /\ \A c \in key : c \in Loosened(s, o, n) => bad
        /\ \A c \in key : c \in L => bad
        /\ \A c \in Arrays(s, o, n) : bad
    BY <1>6 DEF Lost, BadColumns
  <2>4. \A c \in L : \A g \in K : Without(g, c) \in K
    BY <1>2, SparedWithout
  <2>5. u1 \in Then(bad, key, K, s, n, n.columns, X)
    <3>1. t \in Then(bad, key, K, s, n, n.columns, {})
      BY <1>3, <1>4, <2>1 DEF Then
    <3>2. \A c \in X : c \in L
      BY <2>3
    <3>3. /\ \A c \in X : c \in key => bad
          /\ \A c \in X : \A g \in K : Without(g, c) \in K
      BY <2>3, <2>4, <3>2
    <3> HIDE DEF key, K
    <3> QED  BY <1>1, <3>1, <3>3, DropBlockUp
  <2>6. u2 \in Then(bad, key, K, s, n, n.columns, X \cup A)
    <3>1. X \cap A = {}
      BY <1>1, TargetIs
    <3> HIDE DEF key, K, u1
    <3> QED  BY <1>1, <2>5, <3>1, AddBlockUp
  <2>7. u3 \in Then(bad, key, K, s, n, n.columns, (X \cup A) \cup M)
    <3>1. ASSUME NEW c \in M
          PROVE /\ TypeDiffers(s.columns[c], n.columns[c]) /\ s.columns[c].kind = "array" => bad
                /\ NullDiffers(s.columns[c], n.columns[c]) /\ s.columns[c].nullable /\ c \in key => bad
                /\ Recreates(s.columns[c], n.columns[c]) /\ c \in key => bad
                /\ Recreates(s.columns[c], n.columns[c]) => \A g \in K : Without(g, c) \in K
      <4>1. TypeDiffers(s.columns[c], n.columns[c]) /\ s.columns[c].kind = "array" => bad
        BY <1>6, <2>3 DEF Arrays
      <4>2. NullDiffers(s.columns[c], n.columns[c]) /\ s.columns[c].nullable /\ c \in key => bad
        BY <1>6, <2>3 DEF Loosened
      <4>3. Recreates(s.columns[c], n.columns[c]) => c \in L
        BY <2>3
      <4> HIDE DEF key, K, L, M
      <4> QED  BY <2>3, <2>4, <4>1, <4>2, <4>3
    <3>2. X \cup A \in SUBSET (X \cup A)
      OBVIOUS
    <3> HIDE DEF key, K, u2
    <3> QED  BY <1>1, <2>6, <3>1, <3>2, ModifyBlockUp
  <2>8. Reached(s, n, n.columns, (X \cup A) \cup M) = FinalColumns(s, o, n, t)
    <3>1. (X \cup A) \cup M = Changes(s, o, n)
      BY <1>6 DEF Changes
    <3> HIDE DEF X, A, M
    <3> QED  BY <2>1, <3>1 DEF FinalColumns
  <2> QED  BY <2>2, <2>7, <2>8 DEF Then
<1> QED  BY <1>5, <1>6

LEMMA FinalColumnsAre ==
  ASSUME NEW s, NEW o, NEW n, NEW t, Tells(s, o, n, t)
  PROVE /\ FinalColumns(s, o, n, t) \in [Column -> ColumnDef \cup {None}]
        /\ \A c \in Has(s.columns) :
             Wanting(o, t, c)
               \/ (FinalColumns(s, o, n, t)[c] # None
                    /\ (s.columns[c].nullable \/ ~ FinalColumns(s, o, n, t)[c].nullable))
<1> DEFINE F == FinalColumns(s, o, n, t)
<1>1. Legal(s, o, n) /\ o.on /\ n.exists /\ t \in SoundTable
  BY DEF Tells
<1>2. t.columns \in [Column -> ColumnDef \cup {None}]
  BY <1>1, SoundFields
<1>3. Changes(s, o, n) \in SUBSET (ExtraColumns(s, n) \cup MissingColumns(s, o, n) \cup ModifiedColumns(s, o, n))
  BY DEF Changes
<1>4. F \in [Column -> ColumnDef \cup {None}]
  BY <1>1, <1>2, <1>3, ReachedType DEF FinalColumns
<1>5. ASSUME NEW c \in Has(s.columns), ~ Wanting(o, t, c)
      PROVE F[c] # None /\ (s.columns[c].nullable \/ ~ F[c].nullable)
  <2>1. c \in Column /\ s.columns[c] \in ColumnDef /\ c \notin ExtraColumns(s, n)
    BY <1>1, Parts DEF ExtraColumns
  <2>2. F[c] = IF c \in Changes(s, o, n) THEN Target(s, n, c) ELSE t.columns[c]
    BY <2>1 DEF FinalColumns, Reached
  <2>3. CASE ~ IntrospectsColumns(o) \/ IgnoresColumn(o, c)
    <3>1. c \notin Changes(s, o, n)
      BY <2>1, <2>3 DEF Changes, MissingColumns, ModifiedColumns, Compared
    <3> QED  BY <1>5, <2>2, <2>3, <3>1 DEF Wanting
  <2>4. CASE IntrospectsColumns(o) /\ ~ IgnoresColumn(o, c)
    <3>0. n.columns = t.columns
      BY <2>4 DEF Tells
    <3>1. CASE n.columns[c] = None
      <4>1. c \in MissingColumns(s, o, n) /\ c \in Changes(s, o, n)
        BY <2>4, <3>1 DEF MissingColumns, Changes
      <4>2. Target(s, n, c) = Stored(s.columns[c]) /\ Stored(s.columns[c]) \in ColumnDef
        BY <1>1, <4>1, TargetIs
      <4> QED  BY <2>1, <2>2, <4>1, <4>2, StoredIsColumn, TablesAre
    <3>2. CASE n.columns[c] # None
      <4> DEFINE d == s.columns[c]  e == n.columns[c]
      <4>1. c \in Compared(s, o, n)
        BY <2>4, <3>2 DEF Compared
      <4>2. CASE c \in ModifiedColumns(s, o, n)
        <5>1. /\ Target(s, n, c) = Changed(d, e) /\ Changed(d, e) \in ColumnDef
              /\ c \in Changes(s, o, n) /\ e \in ColumnDef
          BY <1>1, <2>4, <4>2, TargetIs, ColumnPairs DEF Changes
        <5>2. d.nullable \/ ~ Changed(d, e).nullable
          <6>1. CASE Recreates(d, e)
            <7>1. AddedAgain(d, e) \in ColumnDef
              BY <1>1, <2>1, <4>2, ColumnPairs, PartsAreSteps
            <7>2. Changed(d, e).nullable = AddedAgain(d, e).nullable
              BY <6>1, <7>1, StoredIsColumn DEF Changed
            <7> QED  BY <7>2 DEF AddedAgain
          <6>2. CASE ~ Recreates(d, e)
            BY <6>2 DEF Changed
          <6> QED  BY <6>1, <6>2
        <5> HIDE DEF d, e
        <5>3. F[c] = Changed(d, e)
          BY <2>2, <5>1
        <5> HIDE DEF F
        <5> QED  BY <5>1, <5>2, <5>3, TablesAre DEF d
      <4>3. CASE c \notin ModifiedColumns(s, o, n)
        <5>1. ~ NullDiffers(d, e)
          BY <4>1, <4>3 DEF ModifiedColumns
        <5>2. c \notin Changes(s, o, n)
          BY <2>1, <3>2, <4>3 DEF Changes, MissingColumns
        <5>3. F[c] = e
          BY <2>2, <3>0, <5>2
        <5> HIDE DEF F
        <5> QED  BY <3>2, <5>1, <5>3 DEF NullDiffers
      <4> QED  BY <4>2, <4>3
    <3> QED  BY <3>1, <3>2
  <2> QED  BY <2>3, <2>4
<1> QED  BY <1>4, <1>5

--------------------------------------------------------------------------------
(* What becomes of the key, and of the indexes once those of C are made and    *)
(* those of D dropped: an index may be gone with a column, and the old key may *)
(* have become one.                                                            *)

Settled(s, o, n, t, C, D) ==
  {g \in [Index -> IndexDef \cup {None}] : \A i \in Index :
     /\ i \in C => g[i] = s.indexes[i]
     /\ i \in D => g[i] = None
     /\ i \notin C \cup D =>
          \/ g[i] = t.indexes[i]
          \/ g[i] = None /\ t.indexes[i] # None /\ \E c \in Lost(s, o, n) : c \in t.indexes[i].on
          \/ g[i] # None /\ i = KeptIndex[t.primaryKey] /\ s.primaryKey # t.primaryKey}

LEMMA SettledFirst ==
  ASSUME NEW s, NEW o, NEW n, NEW t, Tells(s, o, n, t), NEW g \in Spared(t.indexes, Lost(s, o, n))
  PROVE WithKept(g, t.primaryKey, s.primaryKey) \in Settled(s, o, n, t, {}, {})
<1> DEFINE key == t.primaryKey  cs == s.primaryKey  h == WithKept(g, key, cs)
           kept == [on |-> key, unique |-> TRUE, rest |-> FALSE]
<1>1. key \in SUBSET Column
  BY SoundFields DEF Tells
<1>2. kept \in IndexDef /\ kept # None
  <2>1. kept \in IndexDef
    BY <1>1 DEF IndexDef
  <2> HIDE DEF kept
  <2> QED  BY <2>1, TablesAre
<1>3. /\ g \in [Index -> IndexDef \cup {None}]
      /\ h = [i \in Index |-> IF cs # key /\ i = KeptIndex[key] /\ g[i] = None THEN kept ELSE g[i]]
  BY DEF Spared, WithKept
<1> HIDE DEF kept, h
<1>4. h \in [Index -> IndexDef \cup {None}]
  BY <1>2, <1>3
<1>5. ASSUME NEW i \in Index
      PROVE \/ h[i] = t.indexes[i]
            \/ h[i] = None /\ t.indexes[i] # None /\ \E c \in Lost(s, o, n) : c \in t.indexes[i].on
            \/ h[i] # None /\ i = KeptIndex[t.primaryKey] /\ s.primaryKey # t.primaryKey
  <2>1. CASE cs # key /\ i = KeptIndex[key] /\ g[i] = None
    BY <1>2, <1>3, <2>1
  <2>2. CASE ~ (cs # key /\ i = KeptIndex[key] /\ g[i] = None)
    <3>1. h[i] = g[i]
      BY <1>3, <2>2
    <3> QED  BY <3>1 DEF Spared
  <2> QED  BY <2>1, <2>2
<1>6. h \in Settled(s, o, n, t, {}, {})
  BY <1>4, <1>5 DEF Settled
<1> QED  BY <1>6 DEF h

LEMMA KeyUp ==
  ASSUME NEW s, NEW o, NEW n, NEW t, Tells(s, o, n, t), NEW bad, BadNeeds(s, o, n, t) => bad,
         NEW u \in OrFailed(bad, Stage(t.primaryKey, Spared(t.indexes, Lost(s, o, n)),
                                       FinalColumns(s, o, n, t)))
  PROVE Execute(u, Ups(KeySteps(s, n)))
          \in OrFailed(bad, Stage(s.primaryKey, Settled(s, o, n, t, {}, {}),
                                  FinalColumns(s, o, n, t)))
<1> DEFINE K == Spared(t.indexes, Lost(s, o, n))  F == FinalColumns(s, o, n, t)
           L == Settled(s, o, n, t, {}, {})  cs == s.primaryKey
<1>1. Legal(s, o, n) /\ cs \in SUBSET Column /\ cs # {} /\ IsSound(s)
  <2>1. Legal(s, o, n)
    BY DEF Tells
  <2> QED  BY <2>1, Parts DEF Legal, IsDeclarable
<1>2. \A g \in K : WithKept(g, t.primaryKey, cs) \in L
  BY SettledFirst
<1>3. CASE ~ KeyDiffers(s, n)
  <2>1. KeySteps(s, n) = <<>> /\ cs = n.key
    BY <1>3 DEF KeySteps, KeyDiffers
  <2>2. cs = t.primaryKey
    BY <1>1, <2>1 DEF Tells
  <2>3. K \subseteq L
    <3>1. \A g \in K : WithKept(g, t.primaryKey, cs) = g
      BY <2>2 DEF WithKept, Spared
    <3> QED  BY <1>2, <3>1
  <2>4. Stage(t.primaryKey, K, F) \subseteq Stage(cs, L, F)
    BY <2>2, <2>3 DEF Stage
  <2>5. Execute(u, Ups(KeySteps(s, n))) = u
    BY <2>1, NoSteps
  <2> QED  BY <2>4, <2>5 DEF OrFailed
<1>4. CASE KeyDiffers(s, n)
  <2>1. Execute(u, Ups(KeySteps(s, n))) = Do(u, AlterKeySql(cs))
    BY <1>4, OneUpOneDown DEF KeySteps
  <2>2. (cs # {} /\ \A c \in cs : F[c] # None /\ ~ F[c].nullable) \/ bad
    <3> SUFFICES ASSUME ~ bad, NEW c \in cs  PROVE F[c] # None /\ ~ F[c].nullable
      BY <1>1
    <3>1. c \in Column /\ s.columns[c] # None /\ ~ s.columns[c].nullable
      BY <1>1 DEF IsSound
    <3>2. ~ Wanting(o, t, c)
      BY <1>4, <3>1 DEF BadNeeds
    <3>3. c \in Has(s.columns)
      BY <1>1, <3>1 DEF Has, Legal, Table
    <3> QED  BY <3>1, <3>2, <3>3, FinalColumnsAre
  <2> HIDE DEF F, K, L, cs
  <2>3. Do(u, AlterKeySql(cs)) \in OrFailed(bad, Stage(cs, L, F))
    BY <1>1, <1>2, <2>2, KeyDoes DEF F, K
  <2> QED  BY <2>1, <2>3 DEF F, L, cs
<1> QED  BY <1>3, <1>4

NewIndexes(s, o, n) == IF IntrospectsIndexes(o) THEN MissingIndexes(s, o, n) ELSE {}
OldIndexes(s, o, n) == IF IntrospectsIndexes(o) THEN ExtraIndexes(s, o, n) ELSE {}

LEMMA IndexesUp ==
  ASSUME NEW s, NEW o, NEW n, NEW t, Tells(s, o, n, t), NEW bad,
         BadNeeds(s, o, n, t) => bad, BadDrops(s, o, n, t) => bad,
         NEW u \in OrFailed(bad, Stage(s.primaryKey, Settled(s, o, n, t, {}, {}),
                                       FinalColumns(s, o, n, t)))
  PROVE Execute(u, Ups(IndexSteps(s, o, n)))
          \in OrFailed(bad, Stage(s.primaryKey,
                                  Settled(s, o, n, t, NewIndexes(s, o, n), OldIndexes(s, o, n)),
                                  FinalColumns(s, o, n, t)))
<1> DEFINE F == FinalColumns(s, o, n, t)  key == s.primaryKey
           X == MissingIndexes(s, o, n)  Y == ExtraIndexes(s, o, n)
           At(C, D) == OrFailed(bad, Stage(key, Settled(s, o, n, t, C, D), F))
           p == InOrder(NewIndexBlock(s, o, n))  q == InOrder(OldIndexBlock(s, o, n))
           u1 == Execute(u, Ups(p))  u2 == Execute(u1, Ups(q))
<1>1. Legal(s, o, n) /\ o.on /\ n.exists /\ IsDeclarable(s)
  BY DEF Tells, Legal
<1>2. CASE ~ IntrospectsIndexes(o)
  <2>1. IndexSteps(s, o, n) = <<>> /\ NewIndexes(s, o, n) = {} /\ OldIndexes(s, o, n) = {}
    BY <1>2, StepsInBlocks DEF NewIndexes, OldIndexes
  <2> QED  BY <2>1, NoSteps
<1>3. CASE IntrospectsIndexes(o)
  <2>1. /\ NewIndexes(s, o, n) = X /\ OldIndexes(s, o, n) = Y /\ n.indexes = t.indexes
        /\ IndexSteps(s, o, n) = p \o q
    BY <1>3, StepsInBlocks DEF NewIndexes, OldIndexes, Tells
  <2>2. Execute(u, Ups(IndexSteps(s, o, n))) = u2
    <3>1. p \in StepsOver(AnyStatement) /\ q \in StepsOver(AnyStatement)
      BY <1>1, AlterStepsAreSteps DEF StepsOver, AnyStep
    <3> HIDE DEF p, q
    <3> QED  BY <2>1, <3>1, TwoParts
  <2>3. /\ \A i \in X : i \in Has(s.indexes) /\ i \in Index /\ s.indexes[i] \in IndexDef
        /\ \A i \in X : t.indexes[i] = None
        /\ \A i \in X : KeptIndex[t.primaryKey] # i
        /\ \A i \in Y : i \in Index /\ i \in Has(t.indexes) /\ i \notin Has(s.indexes)
    <3>1. t.primaryKey \in SUBSET Column
      BY SoundFields DEF Tells
    <3>2. \A i \in X : i \in Has(s.indexes) /\ t.indexes[i] = None
      BY <2>1 DEF MissingIndexes
    <3>3. \A i \in Y : i \in Has(n.indexes) /\ i \notin Has(s.indexes)
      BY DEF ExtraIndexes
    <3>4. \A i \in X : KeptIndex[t.primaryKey] # i
      BY <1>1, <3>1, <3>2 DEF IsDeclarable
    <3>5. /\ \A i \in X : i \in Index /\ s.indexes[i] \in IndexDef
          /\ \A i \in Y : i \in Index
      BY <1>1, <3>2, <3>3, Parts
    <3> HIDE DEF X, Y
    <3> QED  BY <2>1, <3>2, <3>3, <3>4, <3>5
  <2> HIDE DEF X, Y
  <2>4. u1 \in At(X, {})
    <3> DEFINE steps == NewIndexBlock(s, o, n)  T == [C \in SUBSET X |-> At(C, {})]
    <3>1. /\ DOMAIN steps = X /\ IsFiniteSet(X)
          /\ \A i \in X : steps[i] \in StepsOver(AnyStatement)
          /\ \A i \in X : steps[i] = <<CreateIndex(i, s.indexes[i])>>
      <4>1. DOMAIN steps = X /\ \A i \in X : steps[i] = <<CreateIndex(i, s.indexes[i])>>
        BY DEF NewIndexBlock, X
      <4>2. IsFiniteSet(X)
        BY <1>1, <4>1, BlocksAreFinite
      <4>3. \A i \in X : steps[i] \in StepsOver(AnyStatement)
        BY <1>1, <4>1, BlocksAreSteps DEF StepsOver, AnyStep
      <4> HIDE DEF steps
      <4> QED  BY <4>1, <4>2, <4>3
    <3> HIDE DEF steps
    <3>2. ASSUME NEW C \in SUBSET X, NEW i \in X \ C, NEW v \in T[C]
          PROVE Execute(v, Ups(steps[i])) \in T[C \cup {i}]
      <4> DEFINE d == s.indexes[i]  KC == Settled(s, o, n, t, C, {})
                 LC == Settled(s, o, n, t, C \cup {i}, {})
      <4>1. Execute(v, Ups(steps[i])) = Do(v, CreateIndexSql(i, d, TRUE))
        <5>1. steps[i] = <<Step(CreateIndexSql(i, d, TRUE), DropIndexSql(i))>>
          BY <3>1 DEF CreateIndex
        <5> DEFINE up == CreateIndexSql(i, d, TRUE)  down == DropIndexSql(i)
        <5>2. steps[i] = <<Step(up, down)>>
          BY <5>1
        <5> HIDE DEF up, down
        <5>3. Execute(v, Ups(steps[i])) = Do(v, up)
          BY <5>2, OneUpOneDown
        <5> QED  BY <5>3 DEF up
      <4>2. i \in Index /\ d \in IndexDef /\ i \in Has(s.indexes) /\ t.indexes[i] = None
            /\ KeptIndex[t.primaryKey] # i
        BY <2>3
      <4>3. (\A c \in d.on : F[c] # None) \/ bad
        <5> SUFFICES ASSUME ~ bad, NEW c \in d.on  PROVE F[c] # None
          OBVIOUS
        <5>1. c \in Has(s.columns) /\ c \in Column
          <6>1. d.on \subseteq Has(s.columns)
            BY <1>1, <4>2 DEF IsDeclarable, IsSound
          <6> QED  BY <1>1, <6>1, Parts
        <5>2. ~ Wanting(o, t, c)
          BY <1>3, <5>1 DEF BadNeeds, X
        <5> QED  BY <5>1, <5>2, FinalColumnsAre
      <4>4. \A g \in KC : g[i] = None /\ [g EXCEPT ![i] = d] \in LC
        <5> SUFFICES ASSUME NEW g \in KC
                     PROVE  g[i] = None /\ [g EXCEPT ![i] = d] \in LC
          OBVIOUS
        <5>1. g \in [Index -> IndexDef \cup {None}] /\ g[i] = None
          BY <4>2 DEF Settled
        <5>2. [g EXCEPT ![i] = d] \in LC
          BY <4>2, <5>1 DEF Settled
        <5> QED  BY <5>1, <5>2
      <4>5. v \in OrFailed(bad, Stage(key, KC, F))
        OBVIOUS
      <4>6. C \cup {i} \in SUBSET X
        OBVIOUS
      <4> HIDE DEF KC, LC, d, F, key
      <4>7. TRUE \in BOOLEAN /\ (TRUE \/ d.on \cap Quoted = {} \/ bad)
        OBVIOUS
      <4>8. Do(v, CreateIndexSql(i, d, TRUE)) \in OrFailed(bad, Stage(key, LC, F))
        BY <4>2, <4>3, <4>4, <4>5, <4>7, NewIndexDoes
      <4> QED  BY <4>1, <4>6, <4>8 DEF LC
    <3>3. u \in T[{}]
      OBVIOUS
    <3> HIDE DEF T
    <3>4. Execute(u, Ups(InOrder(steps))) \in T[DOMAIN steps]
      BY <3>1, <3>2, <3>3, InOrderExecutes
    <3> QED  BY <3>1, <3>4 DEF T, steps
  <2>5. u2 \in At(X, Y)
    <3> DEFINE steps == OldIndexBlock(s, o, n)  T == [D \in SUBSET Y |-> At(X, D)]
    <3>1. /\ DOMAIN steps = Y /\ IsFiniteSet(Y)
          /\ \A i \in Y : steps[i] \in StepsOver(AnyStatement)
          /\ \A i \in Y : steps[i] = <<DropIndex(i, n.indexes[i])>>
      <4>1. DOMAIN steps = Y /\ \A i \in Y : steps[i] = <<DropIndex(i, n.indexes[i])>>
        BY DEF OldIndexBlock, Y
      <4>2. IsFiniteSet(Y)
        BY <1>1, <4>1, BlocksAreFinite
      <4>3. \A i \in Y : steps[i] \in StepsOver(AnyStatement)
        BY <1>1, <4>1, BlocksAreSteps DEF StepsOver, AnyStep
      <4> HIDE DEF steps
      <4> QED  BY <4>1, <4>2, <4>3
    <3> HIDE DEF steps
    <3>2. ASSUME NEW D \in SUBSET Y, NEW i \in Y \ D, NEW v \in T[D]
          PROVE Execute(v, Ups(steps[i])) \in T[D \cup {i}]
      <4> DEFINE KD == Settled(s, o, n, t, X, D)  LD == Settled(s, o, n, t, X, D \cup {i})
      <4>1. Execute(v, Ups(steps[i])) = Do(v, DropIndexSql(i))
        <5> DEFINE up == DropIndexSql(i)
                   down == CreateIndexSql(i, [n.indexes[i] EXCEPT !.rest = FALSE], FALSE)
        <5>1. steps[i] = <<Step(up, down)>>
          BY <3>1 DEF DropIndex
        <5> HIDE DEF up, down
        <5>2. Execute(v, Ups(steps[i])) = Do(v, up)
          BY <5>1, OneUpOneDown
        <5> QED  BY <5>2 DEF up
      <4>2. /\ i \in Index /\ i \notin X
            /\ t.indexes[i] # None
            /\ (\E c \in Lost(s, o, n) : c \in t.indexes[i].on) => bad
        <5>1. i \in Has(t.indexes) /\ i \in Index /\ i \notin X
          BY <2>3
        <5>2. t.indexes[i] # None
          BY <5>1 DEF Has
        <5>3. (\E c \in Lost(s, o, n) : c \in t.indexes[i].on) => bad
          BY <1>3 DEF BadDrops, Y
        <5> QED  BY <5>1, <5>2, <5>3
      <4>3. \A g \in KD : (g[i] # None \/ bad) /\ [g EXCEPT ![i] = None] \in LD
        <5> SUFFICES ASSUME NEW g \in KD
                     PROVE  (g[i] # None \/ bad) /\ [g EXCEPT ![i] = None] \in LD
          OBVIOUS
        <5>1. g \in [Index -> IndexDef \cup {None}] /\ (g[i] # None \/ bad)
          BY <4>2 DEF Settled
        <5>2. [g EXCEPT ![i] = None] \in LD
          BY <4>2, <5>1 DEF Settled
        <5> QED  BY <5>1, <5>2
      <4>4. v \in OrFailed(bad, Stage(key, KD, F)) /\ D \cup {i} \in SUBSET Y
        OBVIOUS
      <4> HIDE DEF KD, LD, F, key
      <4>5. Do(v, DropIndexSql(i)) \in OrFailed(bad, Stage(key, LD, F))
        BY <4>2, <4>3, <4>4, NoIndexDoes
      <4> QED  BY <4>1, <4>4, <4>5 DEF LD
    <3>3. u1 \in T[{}]
      BY <2>4
    <3> HIDE DEF T, u1
    <3>4. Execute(u1, Ups(InOrder(steps))) \in T[DOMAIN steps]
      BY <3>1, <3>2, <3>3, InOrderExecutes
    <3> QED  BY <3>1, <3>4 DEF T, steps
  <2> QED  BY <2>1, <2>2, <2>5
<1> QED  BY <1>2, <1>3

LEMMA AlterUp ==
  ASSUME NEW s, NEW o, NEW n, NEW t, Tells(s, o, n, t)
  PROVE Execute(t, Ups(AlterSteps(s, o, n)))
          \in OrFailed(Bad(s, o, n, t),
                Stage(s.primaryKey,
                      Settled(s, o, n, t, NewIndexes(s, o, n), OldIndexes(s, o, n)),
                      FinalColumns(s, o, n, t)))
<1> DEFINE p == ColumnSteps(s, o, n)  q == KeySteps(s, n)  r == IndexSteps(s, o, n)
           bad == Bad(s, o, n, t)
           u1 == Execute(t, Ups(p))  u2 == Execute(u1, Ups(q))  u3 == Execute(u2, Ups(r))
<1>1. Execute(t, Ups(AlterSteps(s, o, n))) = u3
  <2>1. /\ p \in StepsOver(AnyStatement) /\ q \in StepsOver(AnyStatement)
        /\ r \in StepsOver(AnyStatement)
    BY AlterStepsAreSteps DEF StepsOver, AnyStep, Tells
  <2>2. AlterSteps(s, o, n) = p \o q \o r
    BY DEF AlterSteps
  <2> HIDE DEF p, q, r
  <2> QED  BY <2>1, <2>2, PartsInTurn
<1>2. /\ BadColumns(s, o, n, t) => bad
      /\ BadDrops(s, o, n, t) => bad
      /\ BadNeeds(s, o, n, t) => bad
  BY DEF Bad
<1> HIDE DEF bad
<1>3. u1 \in OrFailed(bad, Stage(t.primaryKey, Spared(t.indexes, Lost(s, o, n)),
                                 FinalColumns(s, o, n, t)))
  BY <1>2, ColumnsUp
<1> HIDE DEF u1
<1>4. u2 \in OrFailed(bad, Stage(s.primaryKey, Settled(s, o, n, t, {}, {}),
                                 FinalColumns(s, o, n, t)))
  BY <1>2, <1>3, KeyUp
<1> HIDE DEF u2
<1>5. u3 \in OrFailed(bad, Stage(s.primaryKey,
                 Settled(s, o, n, t, NewIndexes(s, o, n), OldIndexes(s, o, n)),
                 FinalColumns(s, o, n, t)))
  BY <1>2, <1>4, IndexesUp
<1> QED  BY <1>1, <1>5 DEF bad

(* A table that is missing is created, with its indexes.                       *)
CreatedColumns(s)    == [c \in Column |-> Created(s.columns[c], c \in s.primaryKey)]
CreatedIndexes(s, C) == [i \in Index |-> IF i \in C THEN s.indexes[i] ELSE None]

LEMMA OneUp ==
  ASSUME NEW v, NEW up
  PROVE Execute(v, Ups(<<[up |-> up, down |-> <<>>]>>)) = Do(v, up)
<1> DEFINE x == [up |-> up, down |-> <<>>]
<1>1. x.up = up
  OBVIOUS
<1> HIDE DEF x
<1>2. Ups(<<x>>) = <<up>>
  BY <1>1 DEF Ups
<1> QED  BY <1>2, ExecuteFew DEF x

LEMMA TableUp ==
  ASSUME NEW s \in Table, IsDeclarable(s)
  PROVE Do(None, CreateTableSql(s)) \in Stage(s.primaryKey, {CreatedIndexes(s, {})}, CreatedColumns(s))
<1> DEFINE st == CreateTableSql(s)  F == CreatedColumns(s)  key == s.primaryKey
           u == [columns |-> F, indexes |-> CreatedIndexes(s, {}), primaryKey |-> key]
<1>1. /\ s.columns \in [Column -> ColumnDef \cup {None}] /\ key \in SUBSET Column
      /\ \A c \in key : s.columns[c] # None /\ ~ s.columns[c].nullable
  BY DEF Table, IsDeclarable, IsSound
<1>2. st.op = "CREATE TABLE" /\ st.columns = s.columns /\ st.key = key
  BY DEF CreateTableSql
<1>3. Accepts(None, st)
  <2>1. key \subseteq Has(s.columns)
    BY <1>1 DEF Has
  <2> HIDE DEF st
  <2> QED  BY <1>2, <2>1 DEF Accepts
<1>4. After(None, st) = u
  <2>1. CreatedIndexes(s, {}) = [i \in Index |-> None]
    BY DEF CreatedIndexes
  <2> HIDE DEF st
  <2> QED  BY <1>2, <2>1 DEF After, CreatedColumns
<1>5. Do(None, st) = u
  <2> HIDE DEF st, u
  <2> QED  BY <1>3, <1>4, TablesAre DEF Do
<1>6. u \in SoundTable
  <2>1. \A c \in Column : F[c] = Created(s.columns[c], c \in key)
    BY DEF CreatedColumns
  <2>2. F \in [Column -> ColumnDef \cup {None}]
    <3>1. \A c \in Column : F[c] \in ColumnDef \cup {None}
      <4> SUFFICES ASSUME NEW c \in Column  PROVE F[c] \in ColumnDef \cup {None}
        OBVIOUS
      <4>1. s.columns[c] \in ColumnDef \cup {None} /\ (c \in key) \in BOOLEAN
        BY <1>1
      <4>2. Created(s.columns[c], c \in key) \in ColumnDef \cup {None}
        BY <4>1, CreatedIsColumn
      <4> QED  BY <2>1, <4>2
    <3> QED  BY <3>1 DEF CreatedColumns
  <2>3. CreatedIndexes(s, {}) \in [Index -> IndexDef \cup {None}]
        /\ \A i \in Index : CreatedIndexes(s, {})[i] = None
    BY DEF CreatedIndexes
  <2>4. \A c \in key : F[c] # None /\ ~ F[c].nullable
    <3> SUFFICES ASSUME NEW c \in key  PROVE F[c] # None /\ ~ F[c].nullable
      OBVIOUS
    <3>1. c \in Column /\ s.columns[c] \in ColumnDef \cup {None} /\ s.columns[c] # None
      BY <1>1
    <3>2. F[c] = Created(s.columns[c], TRUE)
      BY <2>1, <3>1
    <3>3. /\ Created(s.columns[c], TRUE) = None <=> s.columns[c] = None
          /\ ~ Created(s.columns[c], TRUE).nullable
      BY <3>1, CreatedIsColumn
    <3> HIDE DEF F
    <3> QED  BY <3>1, <3>2, <3>3
  <2> HIDE DEF F
  <2> QED  BY <1>1, <2>2, <2>3, <2>4, SoundByFields
<1> QED  BY <1>5, <1>6 DEF Stage

FirstIndexes(s, o) == IF IntrospectsIndexes(o) THEN Has(s.indexes) ELSE {}

LEMMA CreateUp ==
  ASSUME NEW s \in Table, IsDeclarable(s), NEW o
  PROVE Execute(None, Ups(CreateSteps(s, o)))
          \in Stage(s.primaryKey, {CreatedIndexes(s, FirstIndexes(s, o))}, CreatedColumns(s))
<1> DEFINE first == <<Step(CreateTableSql(s), DropTableSql)>>
           more == IF IntrospectsIndexes(o) THEN InOrder(FirstIndexBlock(s)) ELSE <<>>
           F == CreatedColumns(s)  key == s.primaryKey
           At(C) == Stage(key, {CreatedIndexes(s, C)}, F)
           u == Do(None, CreateTableSql(s))
<1>1. Execute(None, Ups(CreateSteps(s, o))) = Execute(u, Ups(more))
  <2>1. CreateSteps(s, o) = first \o more
    BY StepsInBlocks
  <2>2. first \in StepsOver(AnyStatement) /\ <<>> \in StepsOver(AnyStatement)
    BY StatementsAre, OneStep DEF StepsOver, AnyStep
  <2>3. more \in StepsOver(AnyStatement)
    BY <2>2, CreateStepsAreSteps DEF StepsOver, AnyStep
  <2>4. Execute(None, Ups(first)) = u
    BY OneUpOneDown
  <2> HIDE DEF first, more, u
  <2> QED  BY <2>1, <2>2, <2>3, <2>4, TwoParts
<1>2. u \in At({})
  BY TableUp
<1> HIDE DEF u
<1>3. CASE ~ IntrospectsIndexes(o)
  BY <1>1, <1>2, <1>3, NoSteps DEF FirstIndexes
<1>4. CASE IntrospectsIndexes(o)
  <2> DEFINE X == Has(s.indexes)  steps == FirstIndexBlock(s)  T == [C \in SUBSET X |-> At(C)]
  <2>1. /\ DOMAIN steps = X /\ IsFiniteSet(X)
        /\ \A i \in X : steps[i] \in StepsOver(AnyStatement)
        /\ \A i \in X : steps[i] = <<[up |-> CreateIndexSql(i, s.indexes[i], TRUE), down |-> <<>>]>>
    <3>1. /\ DOMAIN steps = X
          /\ \A i \in X : steps[i] = <<[up |-> CreateIndexSql(i, s.indexes[i], TRUE), down |-> <<>>]>>
      BY DEF FirstIndexBlock
    <3>2. IsFiniteSet(X)
      <4>1. X \in SUBSET Index
        BY DEF Has, Table
      <4> QED  BY <4>1, FiniteParts
    <3>3. \A i \in X : steps[i] \in StepsOver(AnyStatement)
      BY <3>1, FirstIndexesAreSteps DEF StepsOver, AnyStep
    <3> HIDE DEF steps, X
    <3> QED  BY <3>1, <3>2, <3>3
  <2>2. \A i \in X : /\ i \in Index /\ s.indexes[i] \in IndexDef
                     /\ \A c \in s.indexes[i].on : c \in Column /\ s.columns[c] # None
    <3>1. /\ s.indexes \in [Index -> IndexDef \cup {None}]
          /\ s.columns \in [Column -> ColumnDef \cup {None}]
      BY DEF Table
    <3>2. \A i \in X : i \in Index /\ s.indexes[i] # None /\ s.indexes[i].on \subseteq Has(s.columns)
      BY <3>1 DEF IsDeclarable, IsSound, Has
    <3> QED  BY <3>1, <3>2 DEF Has
  <2> HIDE DEF steps, X
  <2>3. ASSUME NEW C \in SUBSET X, NEW i \in X \ C, NEW v \in T[C]
        PROVE Execute(v, Ups(steps[i])) \in T[C \cup {i}]
    <3> DEFINE d == s.indexes[i]  g == CreatedIndexes(s, C)  h == CreatedIndexes(s, C \cup {i})
    <3>1. Execute(v, Ups(steps[i])) = Do(v, CreateIndexSql(i, d, TRUE))
      <4> DEFINE up == CreateIndexSql(i, d, TRUE)
      <4>1. steps[i] = <<[up |-> up, down |-> <<>>]>>
        BY <2>1
      <4> HIDE DEF up
      <4>2. Execute(v, Ups(steps[i])) = Do(v, up)
        BY <4>1, OneUp
      <4> QED  BY <4>2 DEF up
    <3>2. i \in Index /\ d \in IndexDef
      BY <2>2
    <3>3. \A c \in d.on : F[c] # None
      <4> SUFFICES ASSUME NEW c \in d.on  PROVE F[c] # None
        OBVIOUS
      <4>1. c \in Column /\ s.columns[c] # None /\ s.columns[c] \in ColumnDef \cup {None}
        BY <2>2 DEF Table
      <4>2. Created(s.columns[c], c \in key) # None
        <5>1. (c \in key) \in BOOLEAN
          OBVIOUS
        <5> QED  BY <4>1, <5>1, CreatedIsColumn
      <4> QED  BY <4>1, <4>2 DEF CreatedColumns
    <3>4. g[i] = None /\ [g EXCEPT ![i] = d] = h
      BY <3>2 DEF CreatedIndexes
    <3>5. v \in Stage(key, {g}, F) /\ C \cup {i} \in SUBSET X
      OBVIOUS
    <3> HIDE DEF d, g, h, F, key
    <3>6. Do(v, CreateIndexSql(i, d, TRUE)) \in OrFailed(FALSE, Stage(key, {h}, F))
      <4>1. v \in OrFailed(FALSE, Stage(key, {g}, F))
        BY <3>5 DEF OrFailed
      <4>2. \A k \in {g} : k[i] = None /\ [k EXCEPT ![i] = d] \in {h}
        BY <3>4
      <4>3. /\ (\A c \in d.on : F[c] # None) \/ FALSE
            /\ TRUE \/ d.on \cap Quoted = {} \/ FALSE
            /\ TRUE \in BOOLEAN
        BY <3>3
      <4> QED  BY <3>2, <4>1, <4>2, <4>3, NewIndexDoes
    <3> QED  BY <3>1, <3>5, <3>6 DEF OrFailed, h
  <2>4. u \in T[{}]
    BY <1>2
  <2> HIDE DEF T
  <2>5. Execute(u, Ups(InOrder(steps))) \in T[DOMAIN steps]
    BY <2>1, <2>3, <2>4, InOrderExecutes
  <2>6. T[DOMAIN steps] = At(Has(s.indexes))
    BY <2>1 DEF T, X
  <2>7. more = InOrder(steps) /\ FirstIndexes(s, o) = Has(s.indexes)
    BY <1>4 DEF steps, FirstIndexes
  <2> QED  BY <1>1, <2>5, <2>6, <2>7
<1> QED  BY <1>3, <1>4

--------------------------------------------------------------------------------
(* The migration at hand, and the table it was generated for.                  *)

LEMMA AtHand ==
  ASSUME IInv, HasGenerated, Fresh
  PROVE /\ ~ Throws /\ Legal(schema, options, snap)
        /\ migration.up = Ups(Steps(schema, options, snap))
        /\ migration.down = Downs(Steps(schema, options, snap))
        /\ migration.up \in Seq(AnyStatement) /\ migration.down \in Seq(AnyStatement)
        /\ Describes(snap, source) /\ source \in Database
        /\ snap.exists <=> source # None
        /\ options.on /\ snap.exists => Tells(schema, options, snap, source)
<1>1. ~ Throws /\ migration = MigrationOf(Steps(schema, options, snap))
  BY DEF IInv, MigrationFits
<1>2. Legal(schema, options, snap)
  BY <1>1, LegalAtHand DEF IInv
<1>3. /\ migration.up = Ups(Steps(schema, options, snap))
      /\ migration.down = Downs(Steps(schema, options, snap))
  BY <1>1 DEF MigrationOf
<1>4. migration.up \in Seq(AnyStatement) /\ migration.down \in Seq(AnyStatement)
  BY <1>1, MigrationIsProper DEF IInv
<1>5. Describes(snap, source)
  BY DEF IInv, TableFits
<1>6. source \in Database
  BY DatabaseIs DEF IInv, TypeOK
<1>7. snap.exists <=> source # None
  BY <1>5 DEF Describes, ColumnsFit
<1>8. ASSUME options.on, snap.exists PROVE Tells(schema, options, snap, source)
  BY <1>2, <1>5, <1>6, <1>7, <1>8 DEF Tells, Describes, ColumnsFit, Database
<1> QED  BY <1>1, <1>2, <1>3, <1>4, <1>5, <1>6, <1>7, <1>8

(* The statements that the changes of a table put into the migration.          *)
LEMMA SeenInUp ==
  ASSUME IInv, HasGenerated, Fresh, options.on, snap.exists
  PROVE LET s == schema
            o == options
            n == snap
        IN /\ Lost(s, o, n) \subseteq DroppedColumns
           /\ Loosened(s, o, n) \subseteq
                {st.column : st \in {u \in Statements("SET NULLABLE") : u.nullable}}
           /\ Arrays(s, o, n) # {} => NeedsArray
           /\ IntrospectsIndexes(o) =>
                /\ \A i \in ExtraIndexes(s, o, n) :
                     \E st \in Statements("DROP INDEX") : st.index = i
                /\ \A i \in MissingIndexes(s, o, n) :
                     \E st \in Statements("CREATE INDEX") : st.def = s.indexes[i]
           /\ KeyDiffers(s, n) =>
                \E st \in Statements("ALTER PRIMARY KEY") : st.columns = s.primaryKey
<1> DEFINE s == schema  o == options  n == snap
           says(st) == \/ SaysOfColumns(s, o, n, st) \/ SaysOfKey(s, n, st)
                       \/ SaysOfIndexes(s, o, n, st)
<1>1. \A st : st \in ToSet(migration.up) <=> says(st)
  <2>1. migration.up = Ups(AlterSteps(s, o, n)) /\ Legal(s, o, n)
    BY AtHand DEF Steps
  <2> QED  BY <2>1, AlterSays
<1>2. \A st : says(st) => st \in Statements(st.op)
  BY <1>1, AtHand, StatementsOf
<1>3. ASSUME NEW c \in Lost(s, o, n) PROVE c \in DroppedColumns
  <2>1. SaysOfColumns(s, o, n, DropColumnSql(c))
    BY <1>3 DEF Lost, SaysOfColumns, SaysOfChange
  <2>2. DropColumnSql(c) \in Statements("DROP COLUMN") /\ DropColumnSql(c).column = c
    BY <1>2, <2>1, DropColumnSays
  <2> QED  BY <2>2, Zenon DEF DroppedColumns
<1>4. ASSUME NEW c \in Loosened(s, o, n)
      PROVE c \in {st.column : st \in {u \in Statements("SET NULLABLE") : u.nullable}}
  <2> DEFINE st == SetNullSql(c, TRUE)
  <2>0. /\ IntrospectsColumns(o) /\ c \in ModifiedColumns(s, o, n)
        /\ NullDiffers(s.columns[c], n.columns[c]) /\ s.columns[c].nullable
    BY <1>4 DEF Loosened
  <2>1. s.columns[c].nullable = TRUE
    <3>1. s.columns[c] \in ColumnDef
      BY <2>0, AtHand, ColumnPairs
    <3> QED  BY <2>0, <3>1 DEF ColumnDef
  <2>2. SaysOfColumns(s, o, n, st)
    BY <2>0, <2>1 DEF SaysOfColumns, SaysOfChange
  <2>3. st \in Statements("SET NULLABLE") /\ st.column = c /\ st.nullable = TRUE
    BY <1>2, <2>2, SetNullSays
  <2> HIDE DEF st
  <2> QED  BY <2>3
<1>5. ASSUME Arrays(s, o, n) # {} PROVE NeedsArray
  <2>1. PICK c \in Arrays(s, o, n) : TRUE
    BY <1>5
  <2> DEFINE st == SetTypeSql(c, "array")
  <2>2. SaysOfColumns(s, o, n, st)
    BY <2>1 DEF Arrays, SaysOfColumns, SaysOfChange
  <2>3. st \in Statements("SET DATA TYPE") /\ st.kind = "array"
    BY <1>2, <2>2, SetTypeSays
  <2> HIDE DEF st
  <2> QED  BY <2>3 DEF NeedsArray
<1>6. ASSUME IntrospectsIndexes(o), NEW i \in ExtraIndexes(s, o, n)
      PROVE \E st \in Statements("DROP INDEX") : st.index = i
  <2>1. SaysOfIndexes(s, o, n, DropIndexSql(i))
    BY <1>6 DEF SaysOfIndexes
  <2>2. DropIndexSql(i) \in Statements("DROP INDEX") /\ DropIndexSql(i).index = i
    BY <1>2, <2>1, DropIndexSays
  <2> QED  BY <2>2
<1>7. ASSUME IntrospectsIndexes(o), NEW i \in MissingIndexes(s, o, n)
      PROVE \E st \in Statements("CREATE INDEX") : st.def = s.indexes[i]
  <2> DEFINE st == CreateIndexSql(i, s.indexes[i], TRUE)
  <2>1. SaysOfIndexes(s, o, n, st)
    BY <1>7 DEF SaysOfIndexes
  <2>2. st.op = "CREATE INDEX" /\ st.def = s.indexes[i]
    BY DEF CreateIndexSql
  <2>3. st \in Statements(st.op)
    <3> HIDE DEF st
    <3> QED  BY <1>2, <2>1
  <2> HIDE DEF st
  <2> QED  BY <2>2, <2>3
<1>8. ASSUME KeyDiffers(s, n)
      PROVE \E st \in Statements("ALTER PRIMARY KEY") : st.columns = s.primaryKey
  <2>1. SaysOfKey(s, n, AlterKeySql(s.primaryKey))
    BY <1>8 DEF SaysOfKey
  <2>2. /\ AlterKeySql(s.primaryKey) \in Statements("ALTER PRIMARY KEY")
        /\ AlterKeySql(s.primaryKey).columns = s.primaryKey
    BY <1>2, <2>1, AlterKeySays
  <2> QED  BY <2>2
<1> QED  BY <1>3, <1>4, <1>5, <1>6, <1>7, <1>8

(* A migration is refused by the table it was generated for in the four cases  *)
(* only.                                                                       *)
LEMMA UpAppliesWithin == IInv => UpApplies
<1> SUFFICES ASSUME IInv, phase = "failed", Fresh
             PROVE source # None /\ (DropsIndexTwice \/ TouchesKey \/ NeedsArray \/ NeedsUnenforced)
  BY DEF UpApplies
<1> DEFINE s == schema  o == options  n == snap
<1>1. HasGenerated
  BY DEF HasGenerated, Reading
<1>2. Execute(source, migration.up) = Failed
  BY <1>1 DEF IInv, TableFits
<1>3. migration.up = Ups(Steps(s, o, n)) /\ Legal(s, o, n) /\ source \in Database
  BY <1>1, AtHand
<1>4. o.on
  <2> SUFFICES ASSUME ~ o.on PROVE FALSE
    OBVIOUS
  <2>1. migration.up = <<>>
    BY <1>3, UpsAndDownsFew DEF Steps
  <2>2. source = Failed
    BY <1>2, <2>1, ExecuteFew
  <2> QED  BY <1>3, <2>2, TablesAre DEF Database, SoundTable
<1>5. n.exists
  <2> SUFFICES ASSUME ~ n.exists PROVE FALSE
    OBVIOUS
  <2>1. source = None /\ migration.up = Ups(CreateSteps(s, o))
    BY <1>1, <1>3, <1>4, AtHand DEF Steps
  <2>2. Execute(source, migration.up) \in SoundTable
    BY <1>3, <2>1, CreateUp DEF Legal, Stage
  <2> QED  BY <1>2, <2>2, TablesAre DEF SoundTable
<1>6. Tells(s, o, n, source) /\ source # None
  BY <1>1, <1>4, <1>5, AtHand
<1>7. Bad(s, o, n, source)
  <2>1. Failed \in OrFailed(Bad(s, o, n, source),
                Stage(s.primaryKey,
                      Settled(s, o, n, source, NewIndexes(s, o, n), OldIndexes(s, o, n)),
                      FinalColumns(s, o, n, source)))
    <3>1. Failed = Execute(source, Ups(AlterSteps(s, o, n)))
      BY <1>2, <1>3, <1>4, <1>5 DEF Steps
    <3> QED  BY <1>6, <3>1, AlterUp
  <2> QED  BY <2>1, TablesAre DEF OrFailed, Stage, SoundTable
<1>8. CASE BadColumns(s, o, n, source)
  <2>1. \/ source.primaryKey \cap (Lost(s, o, n) \cup Loosened(s, o, n)) # {}
        \/ Arrays(s, o, n) # {}
    BY <1>8 DEF BadColumns
  <2>2. /\ Lost(s, o, n) \subseteq DroppedColumns
        /\ Loosened(s, o, n) \subseteq
             {st.column : st \in {u \in Statements("SET NULLABLE") : u.nullable}}
        /\ Arrays(s, o, n) # {} => NeedsArray
    BY <1>1, <1>4, <1>5, SeenInUp
  <2>3. NeedsArray \/ TouchesKey
    BY <2>1, <2>2 DEF TouchesKey
  <2> QED  BY <1>6, <2>3
<1>9. CASE BadDrops(s, o, n, source)
  <2>1. PICK i \in ExtraIndexes(s, o, n) : source.indexes[i].on \cap Lost(s, o, n) # {}
    BY <1>9 DEF BadDrops
  <2>2. PICK st \in Statements("DROP INDEX") : st.index = i
    BY <1>1, <1>4, <1>5, <1>9, SeenInUp DEF BadDrops
  <2>3. Lost(s, o, n) \subseteq DroppedColumns
    BY <1>1, <1>4, <1>5, SeenInUp
  <2>4. source.indexes[st.index].on \cap DroppedColumns # {}
    BY <2>1, <2>2, <2>3
  <2> QED  BY <1>6, <2>4 DEF DropsIndexTwice
<1>10. CASE BadNeeds(s, o, n, source)
  <2>1. PICK c \in Column :
          /\ Wanting(o, source, c)
          /\ \/ KeyDiffers(s, n) /\ c \in s.primaryKey
             \/ IntrospectsIndexes(o) /\ \E i \in MissingIndexes(s, o, n) : c \in s.indexes[i].on
    BY <1>10 DEF BadNeeds
  <2>2. c \in Unenforced /\ (source.columns[c] = None \/ source.columns[c].nullable)
    BY <2>1 DEF Wanting, Unenforced
  <2>3. CASE KeyDiffers(s, n) /\ c \in s.primaryKey
    <3>1. \E st \in Statements("ALTER PRIMARY KEY") : st.columns = s.primaryKey
      BY <1>1, <1>4, <1>5, <2>3, SeenInUp
    <3>2. \E st \in Statements("ALTER PRIMARY KEY") : c \in st.columns
      BY <2>3, <3>1
    <3> QED  BY <1>6, <2>2, <3>2, Zenon DEF NeedsUnenforced
  <2>4. CASE IntrospectsIndexes(o) /\ \E i \in MissingIndexes(s, o, n) : c \in s.indexes[i].on
    <3>1. PICK i \in MissingIndexes(s, o, n) : c \in s.indexes[i].on
      BY <2>4
    <3>2. \E st \in Statements("CREATE INDEX") : st.def = s.indexes[i]
      BY <1>1, <1>4, <1>5, <2>4, SeenInUp
    <3>3. \E st \in Statements("CREATE INDEX") : c \in st.def.on
      BY <3>1, <3>2
    <3> QED  BY <1>6, <2>2, <3>3, Zenon DEF NeedsUnenforced
  <2> QED  BY <2>1, <2>3, <2>4
<1> QED  BY <1>7, <1>8, <1>9, <1>10 DEF Bad

(* Up is accepted by the table the migration was generated for: statements are *)
(* in an order in which each finds what it needs, but for an index that went   *)
(* with its column, a column of the old key, an array, and what the options    *)
(* keep out of the migration (generateMigrations).                             *)
THEOREM UpAppliesAlways == Spec => []UpApplies
BY SchemaSyncInvariant, UpAppliesWithin, PTL

--------------------------------------------------------------------------------
(* One migration is enough: a table agrees with the declared one when only the *)
(* index that was the key x may still be dropped.                              *)

ColumnsAgree(s, o, f) ==
  \A c \in Column :
    /\ f[c] # None => s.columns[c] # None
    /\ s.columns[c] # None /\ ~ IgnoresColumn(o, c) =>
         /\ f[c] # None
         /\ ~ TypeDiffers(s.columns[c], f[c]) /\ ~ NullDiffers(s.columns[c], f[c])

IndexesAgree(s, o, g, left) ==
  \A i \in Index : ~ IgnoresIndex(o, i) =>
    /\ s.indexes[i] # None => /\ g[i] # None
                              /\ g[i].on = s.indexes[i].on /\ g[i].unique = s.indexes[i].unique
    /\ s.indexes[i] = None /\ g[i] # None /\ ~ o.additive => i \in left

(* What a schema without computed columns asks of a snapshot that agrees.      *)
LEMMA LittleIsLeft ==
  ASSUME NEW s \in Table, IsDeclarable(s), ~ Computes(s),
         NEW o \in Options, IntrospectsIndexes(o), NEW left,
         NEW f \in [Column -> ColumnDef \cup {None}], NEW g \in [Index -> IndexDef \cup {None}],
         NEW n, n = [exists |-> TRUE, columns |-> f, indexes |-> g, key |-> s.primaryKey],
         IntrospectsColumns(o) => ColumnsAgree(s, o, f), IndexesAgree(s, o, g, left),
         NEW j \in 1 .. Len(Ups(Steps(s, o, n)))
  PROVE \E i \in left : Ups(Steps(s, o, n))[j] = DropIndexSql(i)
<1> DEFINE f1 == IF IntrospectsColumns(o) THEN f ELSE NoColumns
           m == [exists |-> TRUE, columns |-> f1, indexes |-> g, key |-> s.primaryKey]
           ups == Ups(Steps(s, o, n))
<1>0. /\ s.columns \in [Column -> ColumnDef \cup {None}]
      /\ s.indexes \in [Index -> IndexDef \cup {None}] /\ s.primaryKey \in SUBSET Column
      /\ s.primaryKey # {} /\ o.on
  BY DEF Table, IsDeclarable, IntrospectsIndexes
<1>1. f1 \in [Column -> ColumnDef \cup {None}] /\ m \in Snapshot
  <2>1. f1 \in [Column -> ColumnDef \cup {None}]
    BY DEF NoColumns
  <2> HIDE DEF f1
  <2> QED  BY <1>0, <2>1 DEF Snapshot
<1>2. m.exists = TRUE /\ m.columns = f1 /\ m.indexes = g /\ m.key = s.primaryKey
  OBVIOUS
<1>3. n.exists = TRUE /\ n.columns = f /\ n.indexes = g /\ n.key = s.primaryKey
  OBVIOUS
<1>4. Steps(s, o, n) = AlterSteps(s, o, m)
  <2>1. Steps(s, o, n) = AlterSteps(s, o, n)
    BY <1>0, <1>3 DEF Steps
  <2>2. ColumnSteps(s, o, n) = ColumnSteps(s, o, m)
    <3>1. CASE IntrospectsColumns(o)
      <4>1. n = m
        BY <3>1
      <4> HIDE DEF m
      <4> QED  BY <4>1
    <3>2. CASE ~ IntrospectsColumns(o)
      BY <3>2 DEF ColumnSteps
    <3> QED  BY <3>1, <3>2
  <2>3. KeySteps(s, n) = KeySteps(s, m)
    <3> HIDE DEF m
    <3> QED  BY <1>2, <1>3 DEF KeySteps, KeyDiffers
  <2>4. IndexSteps(s, o, n) = IndexSteps(s, o, m)
    <3>1. /\ MissingIndexes(s, o, n) = MissingIndexes(s, o, m)
          /\ ExtraIndexes(s, o, n) = ExtraIndexes(s, o, m)
      <4> HIDE DEF m
      <4> QED  BY <1>2, <1>3 DEF MissingIndexes, ExtraIndexes
    <3>2. n.indexes = m.indexes
      BY <1>2, <1>3
    <3> HIDE DEF m
    <3> QED  BY <3>1, <3>2 DEF IndexSteps
  <2> HIDE DEF m
  <2> QED  BY <2>1, <2>2, <2>3, <2>4 DEF AlterSteps
<1> HIDE DEF m
<1>5. \A c \in Column : s.columns[c] # None =>
        s.columns[c].kind \in SchemaKind /\ s.columns[c].computed = None
  BY <1>0 DEF IsDeclarable, Computes, Has
<1>6. \A c \in ModifiedColumns(s, o, m) : IntrospectsColumns(o) /\ s.columns[c] # None /\ c \in Column
        /\ ~ TypeDiffers(s.columns[c], f[c]) /\ ~ NullDiffers(s.columns[c], f[c])
        /\ m.columns[c] = f[c]
  <2> SUFFICES ASSUME NEW c \in ModifiedColumns(s, o, m)
               PROVE  IntrospectsColumns(o) /\ s.columns[c] # None /\ c \in Column
                      /\ ~ TypeDiffers(s.columns[c], f[c]) /\ ~ NullDiffers(s.columns[c], f[c])
                      /\ m.columns[c] = f[c]
    OBVIOUS
  <2>1. c \in Has(s.columns) /\ m.columns[c] # None /\ ~ IgnoresColumn(o, c)
    BY DEF ModifiedColumns, Compared
  <2>2. c \in Column /\ s.columns[c] # None
    BY <1>0, <2>1 DEF Has
  <2>3. IntrospectsColumns(o)
    BY <1>2, <2>1, <2>2 DEF NoColumns
  <2> QED  BY <1>2, <2>1, <2>2, <2>3 DEF ColumnsAgree
<1>7. ~ DiffThrows(s, o, m)
  <2>1. ASSUME NEW c \in Compared(s, o, m) PROVE Convert[m.columns[c].kind] # "unknown"
    <3>1. c \in Has(s.columns) /\ m.columns[c] # None /\ ~ IgnoresColumn(o, c)
      BY DEF Compared
    <3>2. c \in Column /\ s.columns[c] # None
      BY <1>0, <3>1 DEF Has
    <3>3. IntrospectsColumns(o)
      BY <1>2, <3>1, <3>2 DEF NoColumns
    <3>4. ~ TypeDiffers(s.columns[c], f[c]) /\ m.columns[c] = f[c]
      BY <1>2, <3>1, <3>2, <3>3 DEF ColumnsAgree
    <3> QED  BY <1>5, <3>2, <3>4 DEF TypeDiffers, SchemaKind
  <2>2. ASSUME NEW i \in Has(s.indexes) \cap Has(m.indexes), ~ IgnoresIndex(o, i)
        PROVE  s.indexes[i].on = m.indexes[i].on /\ s.indexes[i].unique = m.indexes[i].unique
    BY <1>0, <1>2, <2>2 DEF Has, IndexesAgree
  <2> QED  BY <2>1, <2>2 DEF DiffThrows
<1>8. Legal(s, o, m)
  BY <1>1, <1>7 DEF Legal
<1>9. ups \in Seq(AnyStatement) /\ \A st : st \in ToSet(ups) <=>
        \/ SaysOfColumns(s, o, m, st) \/ SaysOfKey(s, m, st) \/ SaysOfIndexes(s, o, m, st)
  <2>1. AlterSteps(s, o, m) \in StepsOver(AnyStatement)
    BY <1>0, <1>2, <1>8, AlterSays
  <2>2. ups \in Seq(AnyStatement)
    BY <1>4, <2>1, UpsAndDowns
  <2> QED  BY <1>0, <1>2, <1>4, <1>8, <2>2, AlterSays
<1> HIDE DEF ups
<1>10. ups[j] \in ToSet(ups)
  <2>1. DOMAIN ups = 1 .. Len(ups)
    BY <1>9, LenProperties
  <2> QED  BY <2>1 DEF ToSet, ups
<1> DEFINE st == ups[j]
<1> HIDE DEF st
<1>11. ~ SaysOfColumns(s, o, m, st)
  <2> SUFFICES ASSUME SaysOfColumns(s, o, m, st) PROVE FALSE
    OBVIOUS
  <2>1. IntrospectsColumns(o) /\ m.columns = f /\ ColumnsAgree(s, o, f)
    BY <1>2 DEF SaysOfColumns
  <2>2. ExtraColumns(s, m) = {}
    BY <1>0, <2>1 DEF ExtraColumns, Has, ColumnsAgree
  <2>3. MissingColumns(s, o, m) = {}
    BY <1>0, <2>1 DEF MissingColumns, Has, ColumnsAgree
  <2>4. \A c \in ModifiedColumns(s, o, m) : ~ SaysOfChange(c, s.columns[c], m.columns[c], st)
    BY <1>5, <1>6 DEF SaysOfChange, Recreates
  <2> QED  BY <2>2, <2>3, <2>4 DEF SaysOfColumns
<1>12. ~ SaysOfKey(s, m, st)
  BY <1>0, <1>2 DEF SaysOfKey, KeyDiffers
<1>13. PICK i \in ExtraIndexes(s, o, m) : st = DropIndexSql(i)
  <2>1. MissingIndexes(s, o, m) = {}
    BY <1>0, <1>2 DEF MissingIndexes, IndexesAgree, Has
  <2>2. SaysOfIndexes(s, o, m, st)
    BY <1>9, <1>10, <1>11, <1>12 DEF st
  <2> QED  BY <2>1, <2>2 DEF SaysOfIndexes
<1>14. i \in left
  <2>1. i \in Has(g) /\ i \notin Has(s.indexes) /\ ~ IgnoresIndex(o, i) /\ ~ o.additive
    BY <1>2, <1>13 DEF ExtraIndexes
  <2>2. i \in Index /\ g[i] # None /\ s.indexes[i] = None
    BY <1>0, <2>1 DEF Has
  <2> QED  BY <2>1, <2>2 DEF IndexesAgree
<1> QED  BY <1>13, <1>14 DEF st, ups

(* A table that was altered agrees.                                            *)
LEMMA AlteredAgrees ==
  ASSUME NEW s, NEW o, NEW n, NEW t, Tells(s, o, n, t), ~ Computes(s), IntrospectsIndexes(o),
         NEW g \in Settled(s, o, n, t, NewIndexes(s, o, n), OldIndexes(s, o, n))
  PROVE /\ IntrospectsColumns(o) => ColumnsAgree(s, o, FinalColumns(s, o, n, t))
        /\ IndexesAgree(s, o, g, {KeptIndex[t.primaryKey]})
<1> DEFINE F == FinalColumns(s, o, n, t)
<1>1. /\ Legal(s, o, n) /\ o.on /\ n.exists /\ t \in SoundTable /\ s \in Table /\ IsDeclarable(s)
      /\ n.indexes = t.indexes
      /\ s.columns \in [Column -> ColumnDef \cup {None}]
      /\ s.indexes \in [Index -> IndexDef \cup {None}]
      /\ ~ DiffThrows(s, o, n)
  BY DEF Tells, Legal, Table
<1>2. /\ t.indexes \in [Index -> IndexDef \cup {None}] /\ t.primaryKey \in SUBSET Column
      /\ t.columns \in [Column -> ColumnDef \cup {None}]
  BY <1>1, SoundFields
<1>3. \A c \in Column : s.columns[c] # None =>
        s.columns[c].kind \in SchemaKind /\ s.columns[c].computed = None
  BY <1>1 DEF IsDeclarable, Computes, Has
<1>4. \A c \in Column : s.columns[c] # None => c \notin Lost(s, o, n)
  <2> SUFFICES ASSUME NEW c \in Column, s.columns[c] # None, c \in Lost(s, o, n) PROVE FALSE
    OBVIOUS
  <2>1. c \in Has(s.columns)
    BY <1>1 DEF Has
  <2>2. c \notin ExtraColumns(s, n)
    BY <2>1 DEF ExtraColumns
  <2>3. Recreates(s.columns[c], n.columns[c])
    BY <2>2 DEF Lost
  <2> QED  BY <1>3, <2>3 DEF Recreates
<1>5. ASSUME IntrospectsColumns(o), NEW c \in Column, F[c] # None PROVE s.columns[c] # None
  <2> SUFFICES ASSUME s.columns[c] = None PROVE FALSE
    OBVIOUS
  <2>1. n.columns = t.columns
    BY <1>5 DEF Tells
  <2>2. CASE n.columns[c] # None
    <3>1. c \in ExtraColumns(s, n) /\ c \in Changes(s, o, n)
      BY <1>2, <1>5, <2>1, <2>2 DEF ExtraColumns, Has, Changes
    <3>2. F[c] = None
      BY <3>1 DEF FinalColumns, Reached, Target
    <3> QED  BY <1>5, <3>2
  <2>3. CASE n.columns[c] = None
    <3>1. c \notin Changes(s, o, n)
      BY <2>3 DEF Changes, ExtraColumns, MissingColumns, ModifiedColumns, Compared, Has
    <3>2. F[c] = None
      BY <2>1, <2>3, <3>1 DEF FinalColumns, Reached
    <3> QED  BY <1>5, <3>2
  <2> QED  BY <2>2, <2>3
<1>6. ASSUME IntrospectsColumns(o), NEW c \in Column, s.columns[c] # None, ~ IgnoresColumn(o, c)
      PROVE F[c] # None /\ ~ TypeDiffers(s.columns[c], F[c]) /\ ~ NullDiffers(s.columns[c], F[c])
  <2> DEFINE d == s.columns[c]  e == n.columns[c]
  <2>1. n.columns = t.columns /\ c \in Has(s.columns)
    BY <1>1, <1>6 DEF Tells, Has
  <2>2. F[c] # None
    <3>1. ~ Wanting(o, t, c)
      BY <1>6 DEF Wanting
    <3> QED  BY <2>1, <3>1, FinalColumnsAre
  <2>3. F[c] = IF c \in Changes(s, o, n) THEN Target(s, n, c) ELSE t.columns[c]
    BY DEF FinalColumns, Reached
  <2>4. CASE c \in MissingColumns(s, o, n)
    <3>1. F[c] = Stored(d) /\ d \in ColumnDef
      BY <1>1, <1>6, <2>3, <2>4, TargetIs, ColumnPairs DEF Changes
    <3>2. F[c].kind = d.kind /\ F[c].nullable = d.nullable
      BY <3>1, StoredIsColumn
    <3>3. Convert[d.kind] = d.kind
      BY <1>3, <1>6 DEF Convert, SchemaKind, DbKind
    <3> QED  BY <2>2, <3>2, <3>3 DEF TypeDiffers, NullDiffers
  <2>5. CASE c \in ModifiedColumns(s, o, n)
    <3>1. F[c] = Changed(d, e) /\ ~ Recreates(d, e)
      BY <1>1, <1>3, <1>6, <2>3, <2>5, TargetIs DEF Changes, Recreates
    <3>2. F[c].kind = (IF TypeDiffers(d, e) THEN d.kind ELSE e.kind) /\ F[c].nullable = d.nullable
      BY <3>1 DEF Changed
    <3>3. Convert[d.kind] = d.kind
      BY <1>3, <1>6 DEF Convert, SchemaKind, DbKind
    <3> QED  BY <2>2, <3>2, <3>3 DEF TypeDiffers, NullDiffers
  <2>6. CASE c \notin MissingColumns(s, o, n) /\ c \notin ModifiedColumns(s, o, n)
    <3>1. e # None /\ c \in Compared(s, o, n)
      BY <1>6, <2>1, <2>6 DEF MissingColumns, Compared
    <3>2. ~ TypeDiffers(d, e) /\ ~ NullDiffers(d, e)
      BY <2>6, <3>1 DEF ModifiedColumns
    <3>3. F[c] = e
      BY <2>1, <2>3, <2>6 DEF Changes, ExtraColumns
    <3> QED  BY <2>2, <3>2, <3>3
  <2> QED  BY <2>4, <2>5, <2>6
<1>7. ASSUME NEW i \in Index, ~ IgnoresIndex(o, i), s.indexes[i] # None
      PROVE g[i] # None /\ g[i].on = s.indexes[i].on /\ g[i].unique = s.indexes[i].unique
  <2>1. i \in Has(s.indexes) /\ i \notin OldIndexes(s, o, n)
    BY <1>1, <1>7 DEF Has, OldIndexes, ExtraIndexes
  <2>2. CASE i \in NewIndexes(s, o, n)
    BY <1>7, <2>2 DEF Settled
  <2>3. CASE i \notin NewIndexes(s, o, n)
    <3>1. n.indexes[i] # None
      BY <1>7, <2>1, <2>3 DEF NewIndexes, MissingIndexes
    <3>2. s.indexes[i].on = t.indexes[i].on /\ s.indexes[i].unique = t.indexes[i].unique
      <4>1. i \in Has(n.indexes)
        BY <1>1, <1>2, <3>1 DEF Has
      <4> QED  BY <1>1, <1>7, <2>1, <4>1 DEF DiffThrows
    <3>3. ~ \E c \in Lost(s, o, n) : c \in t.indexes[i].on
      <4>1. \A c \in s.indexes[i].on : c \in Column /\ s.columns[c] # None
        BY <1>1, <2>1 DEF IsDeclarable, IsSound, Has
      <4> QED  BY <1>4, <3>2, <4>1
    <3>4. i # KeptIndex[t.primaryKey]
      BY <1>1, <1>2, <2>1 DEF IsDeclarable
    <3>5. g[i] = t.indexes[i]
      BY <2>1, <2>3, <3>3, <3>4 DEF Settled
    <3> QED  BY <1>1, <3>1, <3>2, <3>5
  <2> QED  BY <2>2, <2>3
<1>8. ASSUME NEW i \in Index, ~ IgnoresIndex(o, i), s.indexes[i] = None, g[i] # None, ~ o.additive
      PROVE i \in {KeptIndex[t.primaryKey]}
  <2>1. i \notin NewIndexes(s, o, n)
    BY <1>8 DEF NewIndexes, MissingIndexes, Has
  <2>2. i \notin OldIndexes(s, o, n)
    BY <1>8 DEF Settled
  <2>3. t.indexes[i] = None
    BY <1>1, <1>2, <1>8, <2>2 DEF OldIndexes, ExtraIndexes, Has
  <2> QED  BY <1>8, <2>1, <2>2, <2>3 DEF Settled
<1> QED  BY <1>5, <1>6, <1>7, <1>8, Zenon DEF ColumnsAgree, IndexesAgree

(* A table that was created agrees.                                            *)
LEMMA CreatedAgrees ==
  ASSUME NEW s \in Table, IsDeclarable(s), ~ Computes(s), NEW o, IntrospectsIndexes(o)
  PROVE /\ ColumnsAgree(s, o, CreatedColumns(s))
        /\ IndexesAgree(s, o, CreatedIndexes(s, FirstIndexes(s, o)), {})
<1> DEFINE F == CreatedColumns(s)  g == CreatedIndexes(s, FirstIndexes(s, o))  key == s.primaryKey
<1>1. /\ s.columns \in [Column -> ColumnDef \cup {None}]
      /\ s.indexes \in [Index -> IndexDef \cup {None}]
  BY DEF Table
<1>2. \A c \in Column : s.columns[c] # None =>
        /\ s.columns[c].kind \in SchemaKind /\ s.columns[c].computed = None
        /\ c \in key => ~ s.columns[c].nullable
  BY <1>1 DEF IsDeclarable, IsSound, Computes, Has
<1>3. ASSUME NEW c \in Column PROVE F[c] = Created(s.columns[c], c \in key)
  BY DEF CreatedColumns
<1>4. ASSUME NEW c \in Column, F[c] # None PROVE s.columns[c] # None
  <2>1. Created(None, c \in key) = None
    BY DEF Created
  <2> QED  BY <1>3, <1>4, <2>1
<1>5. ASSUME NEW c \in Column, s.columns[c] # None
      PROVE F[c] # None /\ ~ TypeDiffers(s.columns[c], F[c]) /\ ~ NullDiffers(s.columns[c], F[c])
  <2> DEFINE d == s.columns[c]  b == c \in key
             x == [kind |-> d.kind, nullable |-> d.nullable /\ ~ b, default |-> d.default,
                   computed |-> d.computed]
  <2>1. d \in ColumnDef /\ d.computed = None /\ d.kind \in SchemaKind
        /\ (b => ~ d.nullable) /\ d.nullable \in BOOLEAN
    BY <1>1, <1>2, <1>5 DEF ColumnDef
  <2>2. x \in ColumnDef
    BY <2>1 DEF ColumnDef
  <2>3. [d EXCEPT !.nullable = @ /\ ~ b] = x
    BY <2>1 DEF ColumnDef
  <2>4. F[c] = Stored(x)
    BY <1>3, <1>5, <2>1, <2>3 DEF Created
  <2>5. F[c] \in ColumnDef /\ F[c].kind = x.kind /\ F[c].nullable = x.nullable
    <3> HIDE DEF x
    <3> QED  BY <2>2, <2>4, StoredIsColumn
  <2>6. F[c].kind = d.kind
    BY <2>5
  <2>7. F[c].nullable = d.nullable
    <3>1. x.nullable = (d.nullable /\ ~ b)
      BY Zenon
    <3>2. (d.nullable /\ ~ b) = d.nullable
      <4> HIDE DEF d, b
      <4> QED  BY <2>1
    <3> QED  BY <2>5, <3>1, <3>2
  <2>8. Convert[d.kind] = d.kind
    BY <2>1 DEF Convert, SchemaKind, DbKind
  <2>9. F[c] # None
    BY <2>5, TablesAre
  <2> HIDE DEF F, d
  <2> QED  BY <2>6, <2>7, <2>8, <2>9 DEF TypeDiffers, NullDiffers, d
<1>6. ASSUME NEW i \in Index PROVE g[i] = s.indexes[i]
  BY <1>1 DEF CreatedIndexes, FirstIndexes, Has
<1> HIDE DEF F, g
<1>7. ColumnsAgree(s, o, F)
  BY <1>4, <1>5 DEF ColumnsAgree
<1>8. IndexesAgree(s, o, g, {})
  BY <1>6 DEF IndexesAgree
<1> QED  BY <1>7, <1>8 DEF F, g

(* Run again on the table a migration has been applied to, qb generate writes  *)
(* statements about the index that was the old key only.                       *)
LEMMA OneMigrationIsEnoughWithin == IInv => OneMigrationIsEnough
<1> SUFFICES ASSUME IInv, phase = "applied", Fresh, IntrospectsIndexes(options), ~ Computes(schema),
                    NEW j \in 1 .. Len(Ups(Steps(schema, options, SnapshotOf(db))))
             PROVE /\ source # None
                   /\ Ups(Steps(schema, options, SnapshotOf(db)))[j]
                        = DropIndexSql(KeptIndex[source.primaryKey])
  BY DEF OneMigrationIsEnough
<1> DEFINE s == schema  o == options  n == snap
<1>1. HasGenerated
  BY DEF HasGenerated, Reading
<1>2. db = Execute(source, migration.up) /\ db # Failed
  BY <1>1 DEF IInv, TableFits
<1>3. /\ migration.up = Ups(Steps(s, o, n)) /\ Legal(s, o, n) /\ o.on
      /\ s \in Table /\ IsDeclarable(s) /\ o \in Options
      /\ n.exists <=> source # None
  BY <1>1, AtHand DEF Legal, IntrospectsIndexes
<1>4. ASSUME NEW left, NEW F, NEW g, db \in Stage(s.primaryKey, {g}, F),
             IntrospectsColumns(o) => ColumnsAgree(s, o, F), IndexesAgree(s, o, g, left)
      PROVE \E i \in left : Ups(Steps(s, o, SnapshotOf(db)))[j] = DropIndexSql(i)
  <2>1. /\ F \in [Column -> ColumnDef \cup {None}] /\ g \in [Index -> IndexDef \cup {None}]
        /\ db # None /\ db.columns = F /\ db.indexes = g /\ db.primaryKey = s.primaryKey
    BY <1>4, StageFields
  <2>2. SnapshotOf(db) = [exists |-> TRUE, columns |-> F, indexes |-> g, key |-> s.primaryKey]
    BY <2>1 DEF SnapshotOf
  <2> QED  BY <1>3, <1>4, <2>1, <2>2, LittleIsLeft
<1>5. CASE n.exists
  <2>1. Tells(s, o, n, source) /\ source # None
    BY <1>1, <1>3, <1>5, AtHand
  <2> DEFINE F == FinalColumns(s, o, n, source)
             K == Settled(s, o, n, source, NewIndexes(s, o, n), OldIndexes(s, o, n))
  <2>2. db \in Stage(s.primaryKey, K, F)
    <3>1. db = Execute(source, Ups(AlterSteps(s, o, n)))
      BY <1>2, <1>3, <1>5 DEF Steps
    <3>2. db \in OrFailed(Bad(s, o, n, source), Stage(s.primaryKey, K, F))
      BY <2>1, <3>1, AlterUp
    <3> QED  BY <1>2, <3>2 DEF OrFailed
  <2>3. db \in Stage(s.primaryKey, {db.indexes}, F) /\ db.indexes \in K
    BY <2>2 DEF Stage
  <2>4. /\ IntrospectsColumns(o) => ColumnsAgree(s, o, F)
        /\ IndexesAgree(s, o, db.indexes, {KeptIndex[source.primaryKey]})
    BY <2>1, <2>3, AlteredAgrees
  <2> HIDE DEF F
  <2>5. \E i \in {KeptIndex[source.primaryKey]} :
          Ups(Steps(s, o, SnapshotOf(db)))[j] = DropIndexSql(i)
    BY <1>4, <2>3, <2>4
  <2> QED  BY <2>1, <2>5
<1>6. CASE ~ n.exists
  <2> DEFINE F == CreatedColumns(s)  g == CreatedIndexes(s, FirstIndexes(s, o))
  <2>1. source = None /\ Steps(s, o, n) = CreateSteps(s, o)
    BY <1>3, <1>6 DEF Steps
  <2>2. db \in Stage(s.primaryKey, {g}, F)
    BY <1>2, <1>3, <2>1, CreateUp
  <2>3. ColumnsAgree(s, o, F) /\ IndexesAgree(s, o, g, {})
    BY <1>3, CreatedAgrees
  <2> HIDE DEF F, g
  <2>4. \E i \in {} : Ups(Steps(s, o, SnapshotOf(db)))[j] = DropIndexSql(i)
    BY <1>4, <2>2, <2>3
  <2> QED  BY <2>4
<1> QED  BY <1>5, <1>6

(* Run again after its migration was applied, qb generate has nothing left to  *)
(* do: what it changes is no longer a difference to it (diffSchemas after      *)
(* generateMigrations), but for the index the database makes of the old key.   *)
THEOREM OneMigrationIsEnoughAlways == Spec => []OneMigrationIsEnough
BY SchemaSyncInvariant, OneMigrationIsEnoughWithin, PTL

--------------------------------------------------------------------------------
(* Down.  A statement that no table of S accepts, among others that keep S,    *)
(* has the migration refused.                                                  *)

LEMMA ExecuteRefuses ==
  ASSUME NEW S, NEW t \in S, NEW Z, NEW q \in Seq(Z),
         \A st \in ToSet(q) : \A u \in S : Do(u, st) \in S,
         NEW su \in ToSet(q), \A u \in S : Do(u, su) = Failed
  PROVE Execute(t, q) = Failed
<1> DEFINE N == Len(q)  course == Course(t, q)
<1>1. N \in Nat /\ DOMAIN q = 1 .. N
  BY LenProperties
<1>2. course[0] = t /\ \A n \in 1 .. N : course[n] = Do(course[n - 1], q[n])
  BY CourseSteps
<1>3. \A n \in 1 .. N : q[n] \in ToSet(q)
  BY <1>1 DEF ToSet
<1>4. PICK k \in 1 .. N : q[k] = su
  BY <1>1 DEF ToSet
<1> DEFINE A == {n \in 0 .. N : course[n] \in S /\ (k <= n => course[n] = Failed)}
<1> HIDE DEF N, course
<1>5. 0 \in A
  BY <1>1, <1>2, <1>4
<1>6. ASSUME NEW n \in 1 .. N, n - 1 \in A PROVE n \in A
  <2>1. course[n] = Do(course[n - 1], q[n]) /\ course[n - 1] \in S
    BY <1>2, <1>6
  <2>2. course[n] \in S
    BY <1>3, <2>1
  <2>3. k <= n => course[n] = Failed
    <3>1. CASE k = n
      BY <1>4, <2>1, <3>1
    <3>2. CASE k <= n - 1
      <4>1. course[n - 1] = Failed
        BY <1>6, <3>2
      <4> QED  BY <2>1, <4>1 DEF Do
    <3>3. k <= n => k = n \/ k <= n - 1
      BY <1>1, <1>4
    <3> QED  BY <3>1, <3>2, <3>3
  <2>4. n \in 0 .. N
    BY <1>1
  <2> QED  BY <2>2, <2>3, <2>4
<1> HIDE DEF A
<1>7. N \in A
  <2>1. \A n \in 0 .. N : n \in A
    BY <1>1, <1>5, <1>6, UpTo
  <2> QED  BY <1>1, <2>1
<1>8. k <= N
  BY <1>1, <1>4
<1> QED  BY <1>7, <1>8 DEF A, N, course, Execute

(* The steps of a migration, whose downs are remembered.                       *)
LEMMA StepsThere ==
  ASSUME NEW s, NEW o, NEW n, Legal(s, o, n), o.on, n.exists
  PROVE /\ AlterSteps(s, o, n) \in StepsOver(AnyStatement)
        /\ IntrospectsColumns(o) =>
             /\ \A c \in ExtraColumns(s, n) :
                  DropColumn(c, n.columns[c]) \in ToSet(AlterSteps(s, o, n))
             /\ \A c \in ModifiedColumns(s, o, n) : TypeDiffers(s.columns[c], n.columns[c]) =>
                  Step(SetTypeSql(c, s.columns[c].kind), SetTypeSql(c, Convert[n.columns[c].kind]))
                    \in ToSet(AlterSteps(s, o, n))
        /\ KeyDiffers(s, n) =>
             Step(AlterKeySql(s.primaryKey), AlterKeySql(n.key)) \in ToSet(AlterSteps(s, o, n))
        /\ IntrospectsIndexes(o) => \A i \in ExtraIndexes(s, o, n) :
             DropIndex(i, n.indexes[i]) \in ToSet(AlterSteps(s, o, n))
<1> DEFINE p == ColumnSteps(s, o, n)  q == KeySteps(s, n)  r == IndexSteps(s, o, n)
           whole == AlterSteps(s, o, n)
<1>1. p \in Seq(AnyStep) /\ q \in Seq(AnyStep) /\ r \in Seq(AnyStep) /\ whole = p \o q \o r
  BY AlterStepsAreSteps DEF AlterSteps
<1> HIDE DEF p, q, r, whole
<1>2. whole \in Seq(AnyStep) /\ ToSet(whole) = ToSet(p) \cup ToSet(q) \cup ToSet(r)
  BY <1>1, ThreeParts
<1>3. ASSUME IntrospectsColumns(o)
      PROVE /\ \A c \in ExtraColumns(s, n) : DropColumn(c, n.columns[c]) \in ToSet(p)
            /\ \A c \in ModifiedColumns(s, o, n) : TypeDiffers(s.columns[c], n.columns[c]) =>
                 Step(SetTypeSql(c, s.columns[c].kind), SetTypeSql(c, Convert[n.columns[c].kind]))
                   \in ToSet(p)
  <2> DEFINE p1 == InOrder(DropBlock(s, n))  p2 == InOrder(AddBlock(s, o, n))
             p3 == InOrder(ModifyBlock(s, o, n))
  <2>1. p1 \in Seq(AnyStep) /\ p2 \in Seq(AnyStep) /\ p3 \in Seq(AnyStep) /\ p = p1 \o p2 \o p3
    BY <1>3, AlterStepsAreSteps, StepsInBlocks DEF p
  <2>2. /\ \A x : x \in ToSet(p1) <=> \E c \in DOMAIN DropBlock(s, n) : x \in ToSet(DropBlock(s, n)[c])
        /\ \A x : x \in ToSet(p3) <=>
             \E c \in DOMAIN ModifyBlock(s, o, n) : x \in ToSet(ModifyBlock(s, o, n)[c])
    BY BlocksAreSteps, BlocksAreFinite, InOrderSteps
  <2> HIDE DEF p1, p2, p3
  <2>3. ToSet(p) = ToSet(p1) \cup ToSet(p2) \cup ToSet(p3)
    BY <2>1, ThreeParts
  <2>4. ASSUME NEW c \in ExtraColumns(s, n) PROVE DropColumn(c, n.columns[c]) \in ToSet(p)
    <3>1. c \in DOMAIN DropBlock(s, n) /\ ToSet(DropBlock(s, n)[c]) = {DropColumn(c, n.columns[c])}
      BY ToSetFew DEF DropBlock
    <3> QED  BY <2>2, <2>3, <3>1
  <2>5. ASSUME NEW c \in ModifiedColumns(s, o, n), TypeDiffers(s.columns[c], n.columns[c])
        PROVE Step(SetTypeSql(c, s.columns[c].kind), SetTypeSql(c, Convert[n.columns[c].kind]))
                \in ToSet(p)
    <3> DEFINE d == s.columns[c]  e == n.columns[c]
               x == Step(SetTypeSql(c, d.kind), SetTypeSql(c, Convert[e.kind]))
               a == TypeStep(c, d, e)  b == NullStep(c, d, e)  z == AgainSteps(c, d, e)
    <3>1. a \in Seq(AnyStep) /\ b \in Seq(AnyStep) /\ z \in Seq(AnyStep)
      <4>1. c \in Column /\ d \in ColumnDef /\ e \in ColumnDef /\ Convert[e.kind] # "unknown"
        BY ColumnPairs
      <4> HIDE DEF d, e
      <4> QED  BY <4>1, PartsAreSteps DEF StepsOver, AnyStep
    <3>2. c \in DOMAIN ModifyBlock(s, o, n) /\ ModifyBlock(s, o, n)[c] = a \o b \o z
      BY ModifyInParts DEF ModifyBlock
    <3>3. x \in ToSet(a)
      <4>1. a = <<x>>
        BY <2>5 DEF TypeStep
      <4> HIDE DEF x, a
      <4> QED  BY <4>1, ToSetFew
    <3> HIDE DEF a, b, z, x
    <3>4. x \in ToSet(ModifyBlock(s, o, n)[c])
      BY <3>1, <3>2, <3>3, ThreeParts
    <3>5. x \in ToSet(p3)
      BY <2>2, <3>2, <3>4
    <3> QED  BY <2>3, <3>5 DEF x
  <2> QED  BY <2>4, <2>5
<1>4. ASSUME KeyDiffers(s, n)
      PROVE Step(AlterKeySql(s.primaryKey), AlterKeySql(n.key)) \in ToSet(q)
  <2> DEFINE x == Step(AlterKeySql(s.primaryKey), AlterKeySql(n.key))
  <2>1. q = <<x>>
    BY <1>4 DEF KeySteps, q
  <2> HIDE DEF x
  <2>2. x \in ToSet(q)
    BY <2>1, ToSetFew
  <2> QED  BY <2>2 DEF x
<1>5. ASSUME IntrospectsIndexes(o), NEW i \in ExtraIndexes(s, o, n)
      PROVE DropIndex(i, n.indexes[i]) \in ToSet(r)
  <2> DEFINE r1 == InOrder(NewIndexBlock(s, o, n))  r2 == InOrder(OldIndexBlock(s, o, n))
  <2>1. r1 \in Seq(AnyStep) /\ r2 \in Seq(AnyStep) /\ r = r1 \o r2
    BY <1>5, AlterStepsAreSteps, StepsInBlocks DEF r
  <2>2. \A x : x \in ToSet(r2) <=>
          \E k \in DOMAIN OldIndexBlock(s, o, n) : x \in ToSet(OldIndexBlock(s, o, n)[k])
    BY BlocksAreSteps, BlocksAreFinite, InOrderSteps
  <2> HIDE DEF r1, r2
  <2>3. ToSet(r) = ToSet(r1) \cup ToSet(r2)
    BY <2>1, ToSetConcat
  <2>4. i \in DOMAIN OldIndexBlock(s, o, n)
        /\ ToSet(OldIndexBlock(s, o, n)[i]) = {DropIndex(i, n.indexes[i])}
    BY ToSetFew DEF OldIndexBlock
  <2> QED  BY <2>2, <2>3, <2>4
<1>6. whole \in StepsOver(AnyStatement)
  BY <1>2 DEF StepsOver, AnyStep
<1> QED  BY <1>2, <1>3, <1>4, <1>5, <1>6 DEF whole

LEMMA DownThere ==
  ASSUME NEW W, NEW q \in StepsOver(W), NEW x \in ToSet(q), NEW down, x.down = <<down>>
  PROVE down \in ToSet(Downs(q))
<1>1. ToSet(Downs(q)) = UNION {ToSet(y.down) : y \in ToSet(q)}
  BY UpsAndDowns
<1>2. ToSet(x.down) = {down}
  BY ToSetFew
<1> QED  BY <1>1, <1>2

LEMMA ColumnStatement ==
  ASSUME NEW s, NEW o, NEW n, Legal(s, o, n), o.on, n.exists, NEW st, SaysOfColumns(s, o, n, st)
  PROVE IsStatement(st) /\ st.op \in {"ADD COLUMN", "DROP COLUMN", "SET DATA TYPE", "SET NULLABLE"}
<1>1. st.op \in {"ADD COLUMN", "DROP COLUMN", "SET DATA TYPE", "SET NULLABLE"}
  BY OpsSaid, Zenon
<1>2. CASE \E c \in ExtraColumns(s, n) : st = DropColumnSql(c)
  <2>1. PICK c \in ExtraColumns(s, n) : st = DropColumnSql(c)
    BY <1>2
  <2>2. c \in Column
    BY ColumnPairs
  <2> QED  BY <1>1, <2>1, <2>2 DEF DropColumnSql, IsStatement
<1>3. CASE \E c \in MissingColumns(s, o, n) : st = AddColumnSql(c, s.columns[c])
  <2>1. PICK c \in MissingColumns(s, o, n) : st = AddColumnSql(c, s.columns[c])
    BY <1>3
  <2>2. c \in Column /\ s.columns[c] \in ColumnDef
    BY ColumnPairs
  <2> QED  BY <1>1, <2>1, <2>2 DEF AddColumnSql, IsStatement
<1>4. CASE \E c \in ModifiedColumns(s, o, n) : SaysOfChange(c, s.columns[c], n.columns[c], st)
  <2>1. PICK c \in ModifiedColumns(s, o, n) : SaysOfChange(c, s.columns[c], n.columns[c], st)
    BY <1>4
  <2> DEFINE d == s.columns[c]  e == n.columns[c]
  <2>2. c \in Column /\ d \in ColumnDef /\ e \in ColumnDef /\ Convert[e.kind] # "unknown"
    BY ColumnPairs
  <2>3. SaysOfChange(c, d, e, st)
    BY <2>1
  <2> HIDE DEF d, e
  <2>4. AddedAgain(d, e) \in ColumnDef /\ d.kind \in DbKind /\ d.nullable \in BOOLEAN
    BY <2>2, PartsAreSteps DEF ColumnDef
  <2>5. CASE st = SetTypeSql(c, d.kind)
    BY <2>2, <2>4, <2>5 DEF SetTypeSql, IsStatement
  <2>6. CASE st = SetNullSql(c, d.nullable)
    BY <2>2, <2>4, <2>6 DEF SetNullSql, IsStatement
  <2>7. CASE st = DropColumnSql(c)
    BY <2>2, <2>7 DEF DropColumnSql, IsStatement
  <2>8. CASE st = AddColumnSql(c, AddedAgain(d, e))
    BY <2>2, <2>4, <2>8 DEF AddColumnSql, IsStatement
  <2> QED  BY <1>1, <2>3, <2>5, <2>6, <2>7, <2>8 DEF SaysOfChange
<1> QED  BY <1>1, <1>2, <1>3, <1>4 DEF SaysOfColumns

LEMMA ColumnStatementsKeepKey ==
  ASSUME NEW u \in SoundTable, NEW st, IsStatement(st), Accepts(u, st),
         st.op \in {"ADD COLUMN", "DROP COLUMN", "SET DATA TYPE", "SET NULLABLE"}
  PROVE After(u, st) \in SoundTable /\ After(u, st).primaryKey = u.primaryKey
<1>1. After(u, st) \in SoundTable
  BY AfterIsSound DEF Database
<1>2. u = [columns |-> u.columns, indexes |-> u.indexes, primaryKey |-> u.primaryKey]
  BY SoundFields
<1>3. CASE st.op = "DROP COLUMN"
  BY <1>1, <1>3 DEF After, WithoutColumn
<1>4. CASE st.op = "ADD COLUMN"
  <2>1. After(u, st) = [u EXCEPT !.columns[st.column] = Stored(st.def)]
    BY <1>4 DEF After
  <2> QED  BY <1>1, <1>2, <2>1
<1>5. CASE st.op = "SET DATA TYPE"
  <2>1. After(u, st) = [u EXCEPT !.columns[st.column].kind = st.kind]
    BY <1>5 DEF After
  <2> QED  BY <1>1, <1>2, <2>1
<1>6. CASE st.op = "SET NULLABLE"
  <2>1. After(u, st) = [u EXCEPT !.columns[st.column].nullable = st.nullable]
    BY <1>6 DEF After
  <2> QED  BY <1>1, <1>2, <2>1
<1> QED  BY <1>3, <1>4, <1>5, <1>6

(* What an accepted migration says of the table it was generated for.          *)
LEMMA AcceptedKeeps ==
  ASSUME NEW s, NEW o, NEW n, NEW t, Tells(s, o, n, t),
         Execute(t, Ups(AlterSteps(s, o, n))) # Failed
  PROVE /\ \A c \in t.primaryKey : /\ FinalColumns(s, o, n, t)[c] # None
                                   /\ ~ FinalColumns(s, o, n, t)[c].nullable
        /\ Lost(s, o, n) \cap t.primaryKey = {}
<1> DEFINE p == ColumnSteps(s, o, n)  q == KeySteps(s, n)  r == IndexSteps(s, o, n)
           F == FinalColumns(s, o, n, t)  K == Spared(t.indexes, Lost(s, o, n))
           u1 == Execute(t, Ups(p))  u2 == Execute(u1, Ups(q))  u3 == Execute(u2, Ups(r))
<1>1. Legal(s, o, n) /\ o.on /\ n.exists /\ t \in SoundTable
  BY DEF Tells
<1>2. /\ p \in StepsOver(AnyStatement) /\ q \in StepsOver(AnyStatement)
      /\ r \in StepsOver(AnyStatement)
  BY <1>1, AlterStepsAreSteps DEF StepsOver, AnyStep
<1>3. u1 # Failed
  <2>1. AlterSteps(s, o, n) = p \o q \o r
    BY DEF AlterSteps
  <2> HIDE DEF p, q, r
  <2>2. Execute(t, Ups(AlterSteps(s, o, n))) = u3
    BY <1>2, <2>1, PartsInTurn
  <2>3. Ups(q) \in Seq(AnyStatement) /\ Ups(r) \in Seq(AnyStatement)
    BY <1>2, UpsAndDowns
  <2>4. Execute(Failed, Ups(q)) = Failed /\ Execute(Failed, Ups(r)) = Failed
    BY <2>3, ExecuteFailed
  <2> QED  BY <2>2, <2>4
<1>4. u1 \in Stage(t.primaryKey, K, F)
  <2>1. u1 \in OrFailed(TRUE, Stage(t.primaryKey, K, F))
    BY ColumnsUp
  <2> QED  BY <1>3, <2>1 DEF OrFailed
<1>5. \A c \in t.primaryKey : F[c] # None /\ ~ F[c].nullable
  <2> HIDE DEF F, K, u1
  <2> QED  BY <1>4, StageFields
<1>6. ASSUME NEW c \in Lost(s, o, n) \cap t.primaryKey PROVE FALSE
  <2> DEFINE H == {Failed} \cup {u \in SoundTable : u.primaryKey = t.primaryKey}
             su == DropColumnSql(c)
  <2>1. SaysOfColumns(s, o, n, su)
    BY <1>6 DEF Lost, SaysOfColumns, SaysOfChange
  <2>2. \A st : st \in ToSet(Ups(p)) <=> SaysOfColumns(s, o, n, st)
    <3>1. ToSet(Ups(p)) = {x.up : x \in ToSet(p)}
      BY <1>2, UpsAndDowns
    <3>2. \A st : (\E x \in ToSet(p) : x.up = st) <=> SaysOfColumns(s, o, n, st)
      BY <1>1, ColumnSaid
    <3> HIDE DEF p
    <3> QED  BY <3>1, <3>2, Zenon
  <2>3. ASSUME NEW st \in ToSet(Ups(p)), NEW u \in H PROVE Do(u, st) \in H
    <3>1. /\ IsStatement(st)
          /\ st.op \in {"ADD COLUMN", "DROP COLUMN", "SET DATA TYPE", "SET NULLABLE"}
      BY <1>1, <2>2, ColumnStatement
    <3>2. CASE u # Failed /\ Accepts(u, st)
      <4>1. u \in SoundTable /\ u.primaryKey = t.primaryKey /\ Do(u, st) = After(u, st)
        BY <3>2 DEF Do
      <4>2. After(u, st) \in SoundTable /\ After(u, st).primaryKey = u.primaryKey
        BY <3>1, <3>2, <4>1, ColumnStatementsKeepKey
      <4> QED  BY <4>1, <4>2
    <3>3. CASE ~ (u # Failed /\ Accepts(u, st))
      BY <3>3 DEF Do
    <3> QED  BY <3>2, <3>3
  <2>4. ASSUME NEW u \in H PROVE Do(u, su) = Failed
    <3>1. su.op = "DROP COLUMN" /\ su.column = c
      BY DropColumnSays
    <3>2. CASE u = Failed
      BY <3>2 DEF Do
    <3>3. CASE u # Failed
      <4>1. c \in u.primaryKey
        BY <3>3
      <4> HIDE DEF su
      <4>2. ~ Accepts(u, su)
        BY <3>1, <4>1 DEF Accepts
      <4> QED  BY <4>2 DEF Do
    <3> QED  BY <3>2, <3>3
  <2>5. t \in H /\ Ups(p) \in Seq(AnyStatement) /\ su \in ToSet(Ups(p))
    BY <1>1, <1>2, <2>1, <2>2, UpsAndDowns
  <2> HIDE DEF H, su, p
  <2>6. Execute(t, Ups(p)) = Failed
    BY <2>3, <2>4, <2>5, ExecuteRefuses
  <2> QED  BY <1>3, <2>6
<1> QED  BY <1>5, <1>6

(* What the downs of a change leave of a column.                               *)
Returned(d, e) == IF Recreates(d, e) THEN PutBack(d, e) ELSE Changed(d, e)
Restored(d, e) ==
  [kind |-> IF TypeDiffers(d, e) THEN Convert[e.kind] ELSE Returned(d, e).kind,
   nullable |-> IF NullDiffers(d, e) THEN e.nullable ELSE Returned(d, e).nullable,
   default |-> Returned(d, e).default, computed |-> Returned(d, e).computed]

LEMMA StoredPlain ==
  ASSUME NEW k, NEW b
  PROVE Stored(Plain(k, b)) = Plain(k, b)
<1>1. Show(None) = None
  BY DEF Show
<1>2. Stored(Plain(k, b)) = [Plain(k, b) EXCEPT !.default = None, !.computed = None]
  BY <1>1 DEF Stored, Plain
<1> QED  BY <1>2 DEF Plain

LEMMA RestoredIsColumn ==
  ASSUME NEW c \in Column, NEW d \in ColumnDef, NEW e \in ColumnDef, Convert[e.kind] # "unknown"
  PROVE /\ Returned(d, e) \in ColumnDef /\ Restored(d, e) \in ColumnDef
        /\ Convert[e.kind] \in DbKind
<1>1. PutBack(d, e) \in ColumnDef /\ Changed(d, e) \in ColumnDef
  BY PartsAreSteps, ChangedIsColumn
<1>2. Convert[e.kind] \in DbKind
  BY ColumnIsAny
<1>3. Returned(d, e) \in ColumnDef
  BY <1>1 DEF Returned
<1>4. Restored(d, e) \in ColumnDef
  BY <1>2, <1>3 DEF Restored, ColumnDef
<1> QED  BY <1>2, <1>3, <1>4

LEMMA ModifyUndoes ==
  ASSUME NEW bad, NEW key, NEW K, NEW f \in [Column -> ColumnDef \cup {None}], NEW c \in Column,
         NEW d \in ColumnDef, NEW e \in ColumnDef, Convert[e.kind] # "unknown",
         f[c] = Changed(d, e),
         TypeDiffers(d, e) /\ Convert[e.kind] = "array" => bad,
         NullDiffers(d, e) /\ e.nullable /\ c \in key => bad,
         Recreates(d, e) /\ c \in key => bad,
         Recreates(d, e) => \A g \in K : Without(g, c) \in K,
         NEW u \in OrFailed(bad, Stage(key, K, f))
  PROVE Execute(u, Downs(ModifyColumn(c, d, e)))
          \in OrFailed(bad, Stage(key, K, [f EXCEPT ![c] = Restored(d, e)]))
<1> DEFINE p == TypeStep(c, d, e)  q == NullStep(c, d, e)  r == AgainSteps(c, d, e)
           e1 == Returned(d, e)
           e2 == [kind |-> e1.kind, nullable |-> IF NullDiffers(d, e) THEN e.nullable ELSE e1.nullable,
                  default |-> e1.default, computed |-> e1.computed]
           e3 == Restored(d, e)
           f1 == [f EXCEPT ![c] = e1]  f2 == [f EXCEPT ![c] = e2]  f3 == [f EXCEPT ![c] = e3]
           u1 == Execute(u, Downs(r))  u2 == Execute(u1, Downs(q))  u3 == Execute(u2, Downs(p))
<1>1. /\ p \in StepsOver(AnyStatement) /\ q \in StepsOver(AnyStatement)
      /\ r \in StepsOver(AnyStatement) /\ AddedAgain(d, e) \in ColumnDef
      /\ PutBack(d, e) \in ColumnDef
  BY PartsAreSteps
<1>2. Execute(u, Downs(ModifyColumn(c, d, e))) = u3
  <2>1. ModifyColumn(c, d, e) = p \o q \o r
    BY ModifyInParts
  <2> HIDE DEF p, q, r
  <2> QED  BY <1>1, <2>1, PartsInTurn
<1>3. /\ e1 \in ColumnDef /\ e3 \in ColumnDef /\ Convert[e.kind] \in DbKind
      /\ e.nullable \in BOOLEAN
  BY RestoredIsColumn DEF ColumnDef
<1>4. /\ e2 \in ColumnDef /\ e1 # None /\ e2 # None
      /\ e1 = [kind |-> e1.kind, nullable |-> e1.nullable, default |-> e1.default,
               computed |-> e1.computed]
  <2> HIDE DEF e1
  <2>1. e2 \in ColumnDef
    BY <1>3 DEF ColumnDef
  <2>2. e1 = [kind |-> e1.kind, nullable |-> e1.nullable, default |-> e1.default,
              computed |-> e1.computed]
    BY <1>3 DEF ColumnDef
  <2> HIDE DEF e2
  <2> QED  BY <1>3, <2>1, <2>2, TablesAre
<1>5. /\ f1 \in [Column -> ColumnDef \cup {None}] /\ f1[c] = e1
      /\ f2 \in [Column -> ColumnDef \cup {None}] /\ f2[c] = e2
  <2> HIDE DEF e1, e2
  <2> QED  BY <1>3, <1>4
<1>6. u1 \in OrFailed(bad, Stage(key, K, f1))
  <2>1. CASE ~ Recreates(d, e)
    <3>1. r = <<>> /\ e1 = f[c]
      BY <2>1 DEF AgainSteps, Returned
    <3>2. u1 = u
      BY <3>1, NoSteps
    <3>3. f1 = f
      <4> HIDE DEF e1
      <4> QED  BY <3>1
    <3> QED  BY <3>2, <3>3
  <2>2. CASE Recreates(d, e)
    <3>1. r = <<Step(DropColumnSql(c), AddColumnSql(c, PutBack(d, e))),
                Step(AddColumnSql(c, AddedAgain(d, e)), DropColumnSql(c))>>
      BY <2>2, ModifyInParts DEF AgainSteps
    <3> DEFINE st1 == DropColumnSql(c)  st2 == AddColumnSql(c, AddedAgain(d, e))
               st3 == AddColumnSql(c, PutBack(d, e))
    <3>2. st1 \in AnyStatement /\ st2 \in AnyStatement /\ st3 \in AnyStatement
      BY <1>1, ColumnIsAny, StatementsAre
    <3>3. u1 = Do(Do(u, st1), st3)
      <4> HIDE DEF st1, st2, st3
      <4> QED  BY <3>1, <3>2, TwoUpsTwoDowns DEF st1, st2, st3
    <3> HIDE DEF u1
    <3>4. Do(u, st1) \in OrFailed(bad, Stage(key, K, [f EXCEPT ![c] = None]))
      <4>1. f[c] # None
        BY ChangedIsColumn, TablesAre
      <4> QED  BY <2>2, <4>1, DropDoes
    <3> DEFINE u4 == Do(u, st1)  f4 == [f EXCEPT ![c] = None]  back == PutBack(d, e)
    <3>5. /\ back \in ColumnDef /\ (back.default = None \/ back.computed = None)
          /\ Stored(back) = back /\ e1 = back
      BY <1>1, <2>2, StoredPlain DEF PutBack, Plain, Returned
    <3>6. f4[c] = None
      OBVIOUS
    <3> HIDE DEF u4, f4, back, e1
    <3>7. Do(u4, AddColumnSql(c, back)) \in OrFailed(bad, Stage(key, K, [f4 EXCEPT ![c] = Stored(back)]))
      BY <3>4, <3>5, <3>6, AddDoes DEF u4, f4
    <3>8. [f4 EXCEPT ![c] = Stored(back)] = f1
      BY <3>5 DEF f4
    <3> QED  BY <3>3, <3>7, <3>8 DEF u4, back
  <2> QED  BY <2>1, <2>2
<1>7. u2 \in OrFailed(bad, Stage(key, K, f2))
  <2>1. CASE ~ NullDiffers(d, e)
    <3>1. q = <<>>
      BY <2>1 DEF NullStep
    <3>2. e2 = e1
      <4> HIDE DEF e1
      <4> QED  BY <1>4, <2>1
    <3>3. u2 = u1
      BY <3>1, NoSteps
    <3> HIDE DEF e1, e2, u1, u2
    <3> QED  BY <1>6, <3>2, <3>3
  <2>2. CASE NullDiffers(d, e)
    <3>1. q = <<Step(SetNullSql(c, d.nullable), SetNullSql(c, e.nullable))>>
      BY <2>2 DEF NullStep
    <3>2. u2 = Do(u1, SetNullSql(c, e.nullable))
      BY <3>1, OneUpOneDown
    <3>3. e2 = [e1 EXCEPT !.nullable = e.nullable]
      <4> HIDE DEF e1
      <4> QED  BY <1>4, <2>2
    <3>4. [f1 EXCEPT ![c] = [f1[c] EXCEPT !.nullable = e.nullable]] = f2
      <4> HIDE DEF e1, e2
      <4> QED  BY <1>5, <3>3
    <3> HIDE DEF e1, e2, u1, u2, f1, f2
    <3>5. Do(u1, SetNullSql(c, e.nullable))
            \in OrFailed(bad, Stage(key, K, [f1 EXCEPT ![c] = [f1[c] EXCEPT !.nullable = e.nullable]]))
      BY <1>3, <1>4, <1>5, <1>6, <2>2, SetNullDoes
    <3> QED  BY <3>2, <3>4, <3>5
  <2> QED  BY <2>1, <2>2
<1>8. u3 \in OrFailed(bad, Stage(key, K, f3))
  <2>1. CASE ~ TypeDiffers(d, e)
    <3>1. p = <<>>
      BY <2>1 DEF TypeStep
    <3>2. e3 = e2
      <4> HIDE DEF e1
      <4> QED  BY <2>1 DEF Restored, e1
    <3>3. u3 = u2
      BY <3>1, NoSteps
    <3> HIDE DEF e2, e3, u2, u3
    <3> QED  BY <1>7, <3>2, <3>3
  <2>2. CASE TypeDiffers(d, e)
    <3>1. p = <<Step(SetTypeSql(c, d.kind), SetTypeSql(c, Convert[e.kind]))>>
      BY <2>2 DEF TypeStep
    <3>2. u3 = Do(u2, SetTypeSql(c, Convert[e.kind]))
      BY <3>1, OneUpOneDown
    <3>3. e3 = [e2 EXCEPT !.kind = Convert[e.kind]]
      <4>1. e3 = [kind |-> Convert[e.kind], nullable |-> e2.nullable, default |-> e2.default,
                  computed |-> e2.computed]
        BY <2>2 DEF Restored
      <4> HIDE DEF e1, e3
      <4> QED  BY <4>1
    <3>4. [f2 EXCEPT ![c] = [f2[c] EXCEPT !.kind = Convert[e.kind]]] = f3
      <4> HIDE DEF e2, e3
      <4> QED  BY <1>5, <3>3
    <3> HIDE DEF e1, e2, e3, u2, u3, f2, f3
    <3>5. Do(u2, SetTypeSql(c, Convert[e.kind]))
            \in OrFailed(bad, Stage(key, K, [f2 EXCEPT ![c] = [f2[c] EXCEPT !.kind = Convert[e.kind]]]))
      BY <1>3, <1>4, <1>5, <1>7, <2>2, SetTypeDoes
    <3> QED  BY <3>2, <3>4, <3>5
  <2> QED  BY <2>1, <2>2
<1> QED  BY <1>2, <1>8

--------------------------------------------------------------------------------
(* Down, from the table that up left: the columns F, those of U as down leaves *)
(* them.  No down looks at the indexes but to make one or drop one.            *)

AnyIndexes == [Index -> IndexDef \cup {None}]

Back(s, n, c) ==
  IF c \in ExtraColumns(s, n)
  THEN Plain(Recreate[n.columns[c].kind], n.columns[c].nullable)
  ELSE IF n.columns[c] = None THEN None ELSE Restored(s.columns[c], n.columns[c])
Undone(s, n, F, U) == [c \in Column |-> IF c \in U THEN Back(s, n, c) ELSE F[c]]
Undoing(bad, key, s, n, F, U) == OrFailed(bad, Stage(key, AnyIndexes, Undone(s, n, F, U)))

LEMMA UndoneNext ==
  \A s, n, F, U : \A c \in Column \ U :
    Undone(s, n, F, U \cup {c}) = [Undone(s, n, F, U) EXCEPT ![c] = Back(s, n, c)]
<1> SUFFICES ASSUME NEW s, NEW n, NEW F, NEW U, NEW c \in Column \ U
             PROVE  Undone(s, n, F, U \cup {c})
                      = [Undone(s, n, F, U) EXCEPT ![c] = Back(s, n, c)]
  BY Zenon
<1> DEFINE G == Undone(s, n, F, U)
<1>1. G = [b \in Column |-> IF b \in U THEN Back(s, n, b) ELSE F[b]]
  BY DEF Undone
<1>2. Undone(s, n, F, U \cup {c})
        = [b \in Column |-> IF b \in U \cup {c} THEN Back(s, n, b) ELSE F[b]]
  BY DEF Undone
<1> QED  BY <1>1, <1>2

LEMMA WithoutIsAny ==
  ASSUME NEW g \in AnyIndexes, NEW c
  PROVE Without(g, c) \in AnyIndexes
BY DEF AnyIndexes, Without

LEMMA BackIs ==
  ASSUME NEW s, NEW o, NEW n, Legal(s, o, n), o.on, n.exists
  PROVE /\ \A c \in ExtraColumns(s, n) :
             Back(s, n, c) = Plain(Recreate[n.columns[c].kind], n.columns[c].nullable)
        /\ \A c \in MissingColumns(s, o, n) : Back(s, n, c) = None
        /\ \A c \in ModifiedColumns(s, o, n) :
             /\ Back(s, n, c) = Restored(s.columns[c], n.columns[c])
             /\ Restored(s.columns[c], n.columns[c]) \in ColumnDef
<1>1. ASSUME NEW c \in MissingColumns(s, o, n) PROVE Back(s, n, c) = None
  <2>1. c \notin ExtraColumns(s, n) /\ n.columns[c] = None
    BY TargetIs, ColumnPairs
  <2> QED  BY <2>1 DEF Back
<1>2. ASSUME NEW c \in ModifiedColumns(s, o, n)
      PROVE /\ Back(s, n, c) = Restored(s.columns[c], n.columns[c])
            /\ Restored(s.columns[c], n.columns[c]) \in ColumnDef
  <2>1. c \notin ExtraColumns(s, n) /\ n.columns[c] # None
    BY TargetIs DEF ModifiedColumns, Compared
  <2>2. /\ c \in Column /\ s.columns[c] \in ColumnDef /\ n.columns[c] \in ColumnDef
        /\ Convert[n.columns[c].kind] # "unknown"
    BY ColumnPairs
  <2> QED  BY <2>1, <2>2, RestoredIsColumn DEF Back
<1>3. ASSUME NEW c \in ExtraColumns(s, n)
      PROVE Back(s, n, c) = Plain(Recreate[n.columns[c].kind], n.columns[c].nullable)
  BY DEF Back
<1> QED  BY <1>1, <1>2, <1>3

(* The changes of columns go back first,                                       *)
LEMMA ModifyBlockDown ==
  ASSUME NEW s, NEW o, NEW n, Legal(s, o, n), o.on, n.exists,
         NEW bad, NEW key, NEW F \in [Column -> ColumnDef \cup {None}],
         \A c \in ModifiedColumns(s, o, n) : F[c] = Target(s, n, c),
         \A c \in ModifiedColumns(s, o, n) :
           /\ TypeDiffers(s.columns[c], n.columns[c]) /\ Convert[n.columns[c].kind] = "array" => bad
           /\ NullDiffers(s.columns[c], n.columns[c]) /\ n.columns[c].nullable /\ c \in key => bad
           /\ Recreates(s.columns[c], n.columns[c]) /\ c \in key => bad,
         NEW u \in Undoing(bad, key, s, n, F, {})
  PROVE Execute(u, Downs(InOrder(ModifyBlock(s, o, n))))
          \in Undoing(bad, key, s, n, F, ModifiedColumns(s, o, n))
<1> DEFINE X == ModifiedColumns(s, o, n)  f == n.columns  steps == ModifyBlock(s, o, n)
           T == [C \in SUBSET X |-> Undoing(bad, key, s, n, F, X \ C)]
<1>1. /\ DOMAIN steps = X /\ IsFiniteSet(X)
      /\ \A c \in X : steps[c] = ModifyColumn(c, s.columns[c], f[c])
      /\ \A c \in X : steps[c] \in StepsOver(AnyStatement)
      /\ \A c \in X : c \in Column /\ f[c] \in ColumnDef /\ s.columns[c] \in ColumnDef
      /\ \A c \in X : Convert[f[c].kind] # "unknown"
  <2>1. DOMAIN steps = X /\ \A c \in X : steps[c] = ModifyColumn(c, s.columns[c], f[c])
    BY DEF ModifyBlock
  <2>2. IsFiniteSet(X)
    BY <2>1, BlocksAreFinite
  <2>3. \A c \in X : steps[c] \in StepsOver(AnyStatement)
    BY <2>1, BlocksAreSteps DEF StepsOver, AnyStep
  <2>4. /\ \A c \in X : c \in Column /\ f[c] \in ColumnDef /\ s.columns[c] \in ColumnDef
        /\ \A c \in X : Convert[f[c].kind] # "unknown"
    BY ColumnPairs
  <2> HIDE DEF X, steps, f
  <2> QED  BY <2>1, <2>2, <2>3, <2>4
<1> HIDE DEF X, steps
<1>2. ASSUME NEW C \in SUBSET X, NEW c \in X \ C, NEW v \in T[C \cup {c}]
      PROVE Execute(v, Downs(steps[c])) \in T[C]
  <2> DEFINE U == X \ (C \cup {c})  G == Undone(s, n, F, U)  d == s.columns[c]  e == f[c]
  <2>1. Execute(v, Downs(steps[c])) = Execute(v, Downs(ModifyColumn(c, d, e)))
    BY <1>1
  <2>2. c \in Column \ U /\ U \cup {c} = X \ C /\ C \cup {c} \in SUBSET X
    BY <1>1
  <2>3. /\ F[c] = Changed(d, e) /\ Back(s, n, c) = Restored(d, e)
        /\ \A b \in U : Back(s, n, b) \in ColumnDef
    BY TargetIs, BackIs DEF X
  <2>4. G[c] = Changed(d, e) /\ Undone(s, n, F, X \ C) = [G EXCEPT ![c] = Restored(d, e)]
    <3>1. /\ Undone(s, n, F, U)[c] = F[c]
          /\ Undone(s, n, F, U \cup {c}) = [Undone(s, n, F, U) EXCEPT ![c] = Back(s, n, c)]
      <4> HIDE DEF U, X, T
      <4>1. Undone(s, n, F, U)[c] = F[c]
        BY <2>2 DEF Undone
      <4>2. Undone(s, n, F, U \cup {c}) = [Undone(s, n, F, U) EXCEPT ![c] = Back(s, n, c)]
        BY <2>2, UndoneNext
      <4> QED  BY <4>1, <4>2
    <3> QED  BY <2>2, <2>3, <3>1
  <2>5. G \in [Column -> ColumnDef \cup {None}]
    BY <2>3 DEF Undone
  <2>6. v \in OrFailed(bad, Stage(key, AnyIndexes, G))
    BY <2>2 DEF Undoing
  <2>7. /\ c \in Column /\ d \in ColumnDef /\ e \in ColumnDef /\ Convert[e.kind] # "unknown"
        /\ TypeDiffers(d, e) /\ Convert[e.kind] = "array" => bad
        /\ NullDiffers(d, e) /\ e.nullable /\ c \in key => bad
        /\ Recreates(d, e) /\ c \in key => bad
    BY <1>1 DEF X
  <2>8. Recreates(d, e) => \A g \in AnyIndexes : Without(g, c) \in AnyIndexes
    BY WithoutIsAny
  <2> HIDE DEF G, d, e
  <2>9. Execute(v, Downs(ModifyColumn(c, d, e)))
          \in OrFailed(bad, Stage(key, AnyIndexes, [G EXCEPT ![c] = Restored(d, e)]))
    BY <2>4, <2>5, <2>6, <2>7, <2>8, ModifyUndoes
  <2>10. Execute(v, Downs(steps[c])) \in Undoing(bad, key, s, n, F, X \ C)
    BY <2>1, <2>4, <2>9 DEF Undoing
  <2> QED  BY <2>10
<1>3. u \in T[X]
  <2>1. X \ X = {}
    OBVIOUS
  <2> QED  BY <2>1
<1>4. T[{}] = Undoing(bad, key, s, n, F, X)
  <2>1. X \ {} = X
    OBVIOUS
  <2> QED  BY <2>1
<1> HIDE DEF T
<1>5. Execute(u, Downs(InOrder(steps))) \in T[{}]
  BY <1>1, <1>2, <1>3, InOrderUndoes
<1> QED  BY <1>4, <1>5 DEF steps, X

(* then those that were added go,                                              *)
LEMMA AddBlockDown ==
  ASSUME NEW s, NEW o, NEW n, Legal(s, o, n), o.on, n.exists,
         NEW bad, NEW key, NEW F, NEW B, B \cap MissingColumns(s, o, n) = {},
         \A c \in MissingColumns(s, o, n) : F[c] # None /\ (c \in key => bad),
         NEW u \in Undoing(bad, key, s, n, F, B)
  PROVE Execute(u, Downs(InOrder(AddBlock(s, o, n))))
          \in Undoing(bad, key, s, n, F, B \cup MissingColumns(s, o, n))
<1> DEFINE X == MissingColumns(s, o, n)  steps == AddBlock(s, o, n)
           T == [C \in SUBSET X |-> Undoing(bad, key, s, n, F, B \cup (X \ C))]
<1>1. /\ DOMAIN steps = X /\ IsFiniteSet(X)
      /\ \A c \in X : steps[c] = <<AddColumn(c, s.columns[c])>>
      /\ \A c \in X : steps[c] \in StepsOver(AnyStatement)
      /\ \A c \in X : c \in Column
  <2>1. DOMAIN steps = X /\ \A c \in X : steps[c] = <<AddColumn(c, s.columns[c])>>
    BY DEF AddBlock
  <2>2. IsFiniteSet(X)
    BY <2>1, BlocksAreFinite
  <2>3. \A c \in X : steps[c] \in StepsOver(AnyStatement)
    BY <2>1, BlocksAreSteps DEF StepsOver, AnyStep
  <2>4. \A c \in X : c \in Column
    BY ColumnPairs
  <2> HIDE DEF X, steps
  <2> QED  BY <2>1, <2>2, <2>3, <2>4
<1> HIDE DEF X, steps
<1>2. ASSUME NEW C \in SUBSET X, NEW c \in X \ C, NEW v \in T[C \cup {c}]
      PROVE Execute(v, Downs(steps[c])) \in T[C]
  <2> DEFINE U == B \cup (X \ (C \cup {c}))  G == Undone(s, n, F, U)
  <2>1. Execute(v, Downs(steps[c])) = Do(v, DropColumnSql(c))
    <3> DEFINE up == AddColumnSql(c, s.columns[c])
    <3>1. steps[c] = <<Step(up, DropColumnSql(c))>>
      BY <1>1 DEF AddColumn
    <3> HIDE DEF up
    <3> QED  BY <3>1, OneUpOneDown
  <2>2. c \in Column \ U /\ U \cup {c} = B \cup (X \ C) /\ C \cup {c} \in SUBSET X
    <3>1. c \notin B
      BY DEF X
    <3> QED  BY <1>1, <3>1
  <2>3. F[c] # None /\ (c \in key => bad) /\ Back(s, n, c) = None
    BY BackIs DEF X
  <2>4. G[c] # None /\ Undone(s, n, F, B \cup (X \ C)) = [G EXCEPT ![c] = None]
    <3>1. /\ Undone(s, n, F, U)[c] = F[c]
          /\ Undone(s, n, F, U \cup {c}) = [Undone(s, n, F, U) EXCEPT ![c] = Back(s, n, c)]
      <4> HIDE DEF U, X, T
      <4>1. Undone(s, n, F, U)[c] = F[c]
        BY <2>2 DEF Undone
      <4>2. Undone(s, n, F, U \cup {c}) = [Undone(s, n, F, U) EXCEPT ![c] = Back(s, n, c)]
        BY <2>2, UndoneNext
      <4> QED  BY <4>1, <4>2
    <3> QED  BY <2>2, <2>3, <3>1
  <2>5. v \in OrFailed(bad, Stage(key, AnyIndexes, G))
    BY <2>2 DEF Undoing
  <2>6. \A g \in AnyIndexes : Without(g, c) \in AnyIndexes
    BY WithoutIsAny
  <2> HIDE DEF G
  <2>7. Do(v, DropColumnSql(c)) \in OrFailed(bad, Stage(key, AnyIndexes, [G EXCEPT ![c] = None]))
    BY <2>2, <2>3, <2>4, <2>5, <2>6, DropDoes
  <2>8. Execute(v, Downs(steps[c])) \in Undoing(bad, key, s, n, F, B \cup (X \ C))
    BY <2>1, <2>4, <2>7 DEF Undoing
  <2> QED  BY <2>8
<1>3. u \in T[X]
  <2>1. B \cup (X \ X) = B
    OBVIOUS
  <2> QED  BY <2>1
<1>4. T[{}] = Undoing(bad, key, s, n, F, B \cup X)
  <2>1. X \ {} = X
    OBVIOUS
  <2> QED  BY <2>1
<1> HIDE DEF T
<1>5. Execute(u, Downs(InOrder(steps))) \in T[{}]
  BY <1>1, <1>2, <1>3, InOrderUndoes
<1> QED  BY <1>4, <1>5 DEF steps, X

(* and those that were dropped come back.                                      *)
LEMMA DropBlockDown ==
  ASSUME NEW s, NEW o, NEW n, Legal(s, o, n), o.on, n.exists,
         NEW bad, NEW key, NEW F, NEW B, B \cap ExtraColumns(s, n) = {},
         \A c \in ExtraColumns(s, n) : F[c] = None /\ Recreate[n.columns[c].kind] \in DbKind,
         NEW u \in Undoing(bad, key, s, n, F, B)
  PROVE Execute(u, Downs(InOrder(DropBlock(s, n))))
          \in Undoing(bad, key, s, n, F, B \cup ExtraColumns(s, n))
<1> DEFINE X == ExtraColumns(s, n)  f == n.columns  steps == DropBlock(s, n)
           T == [C \in SUBSET X |-> Undoing(bad, key, s, n, F, B \cup (X \ C))]
<1>1. /\ DOMAIN steps = X /\ IsFiniteSet(X)
      /\ \A c \in X : steps[c] = <<DropColumn(c, f[c])>>
      /\ \A c \in X : steps[c] \in StepsOver(AnyStatement)
      /\ \A c \in X : c \in Column /\ f[c] \in ColumnDef
  <2>1. DOMAIN steps = X /\ \A c \in X : steps[c] = <<DropColumn(c, f[c])>>
    BY DEF DropBlock
  <2>2. IsFiniteSet(X)
    BY <2>1, BlocksAreFinite
  <2>3. \A c \in X : steps[c] \in StepsOver(AnyStatement)
    BY <2>1, BlocksAreSteps DEF StepsOver, AnyStep
  <2>4. \A c \in X : c \in Column /\ f[c] \in ColumnDef
    BY ColumnPairs
  <2> HIDE DEF X, steps, f
  <2> QED  BY <2>1, <2>2, <2>3, <2>4
<1> HIDE DEF X, steps
<1>2. ASSUME NEW C \in SUBSET X, NEW c \in X \ C, NEW v \in T[C \cup {c}]
      PROVE Execute(v, Downs(steps[c])) \in T[C]
  <2> DEFINE U == B \cup (X \ (C \cup {c}))  G == Undone(s, n, F, U)
             back == Plain(Recreate[f[c].kind], f[c].nullable)
  <2>1. Execute(v, Downs(steps[c])) = Do(v, AddColumnSql(c, back))
    <3>1. steps[c] = <<Step(DropColumnSql(c), AddColumnSql(c, back))>>
      BY <1>1 DEF DropColumn
    <3> HIDE DEF back
    <3> QED  BY <3>1, OneUpOneDown
  <2>2. c \in Column \ U /\ U \cup {c} = B \cup (X \ C) /\ C \cup {c} \in SUBSET X
    <3>1. c \notin B
      BY DEF X
    <3> QED  BY <1>1, <3>1
  <2>3. F[c] = None /\ Back(s, n, c) = back
    BY BackIs DEF X
  <2>4. back \in ColumnDef /\ back.default = None /\ Stored(back) = back
    <3>1. Recreate[f[c].kind] \in DbKind /\ f[c].nullable \in BOOLEAN
      BY <1>1 DEF X, ColumnDef
    <3> QED  BY <3>1, StoredPlain DEF Plain, ColumnDef
  <2>5. G[c] = None /\ Undone(s, n, F, B \cup (X \ C)) = [G EXCEPT ![c] = back]
    <3>1. /\ Undone(s, n, F, U)[c] = F[c]
          /\ Undone(s, n, F, U \cup {c}) = [Undone(s, n, F, U) EXCEPT ![c] = Back(s, n, c)]
      <4> HIDE DEF U, X, T
      <4>1. Undone(s, n, F, U)[c] = F[c]
        BY <2>2 DEF Undone
      <4>2. Undone(s, n, F, U \cup {c}) = [Undone(s, n, F, U) EXCEPT ![c] = Back(s, n, c)]
        BY <2>2, UndoneNext
      <4> QED  BY <4>1, <4>2
    <3> QED  BY <2>2, <2>3, <3>1
  <2>6. v \in OrFailed(bad, Stage(key, AnyIndexes, G))
    BY <2>2 DEF Undoing
  <2> HIDE DEF G, back
  <2>7. Do(v, AddColumnSql(c, back))
          \in OrFailed(bad, Stage(key, AnyIndexes, [G EXCEPT ![c] = Stored(back)]))
    BY <2>2, <2>4, <2>5, <2>6, AddDoes
  <2>8. Execute(v, Downs(steps[c])) \in Undoing(bad, key, s, n, F, B \cup (X \ C))
    BY <2>1, <2>4, <2>5, <2>7 DEF Undoing
  <2> QED  BY <2>8
<1>3. u \in T[X]
  <2>1. B \cup (X \ X) = B
    OBVIOUS
  <2> QED  BY <2>1
<1>4. T[{}] = Undoing(bad, key, s, n, F, B \cup X)
  <2>1. X \ {} = X
    OBVIOUS
  <2> QED  BY <2>1
<1> HIDE DEF T
<1>5. Execute(u, Downs(InOrder(steps))) \in T[{}]
  BY <1>1, <1>2, <1>3, InOrderUndoes
<1> QED  BY <1>4, <1>5 DEF steps, X

(* Before that, the indexes: those made go, those dropped come back.           *)
LEMMA IndexesDown ==
  ASSUME NEW s, NEW o, NEW n, Legal(s, o, n), o.on, n.exists, IntrospectsIndexes(o),
         NEW bad, NEW key, NEW F, NEW L \in SUBSET AnyIndexes,
         \A g \in L : /\ \A i \in MissingIndexes(s, o, n) : g[i] # None
                      /\ \A i \in ExtraIndexes(s, o, n) : g[i] = None,
         \A i \in ExtraIndexes(s, o, n) :
           (\A c \in n.indexes[i].on : F[c] # None /\ c \notin Quoted) \/ bad,
         NEW u \in OrFailed(bad, Stage(key, L, F))
  PROVE Execute(u, Downs(IndexSteps(s, o, n))) \in OrFailed(bad, Stage(key, AnyIndexes, F))
<1> DEFINE X == MissingIndexes(s, o, n)  Y == ExtraIndexes(s, o, n)
           K(C) == {g \in AnyIndexes : (\A i \in X : g[i] # None) /\ \A i \in C : g[i] = None}
           H(C) == {g \in AnyIndexes : \A i \in C : g[i] # None}
           p == InOrder(NewIndexBlock(s, o, n))  q == InOrder(OldIndexBlock(s, o, n))
           u1 == Execute(u, Downs(q))  u2 == Execute(u1, Downs(p))
<1>1. Execute(u, Downs(IndexSteps(s, o, n))) = u2
  <2>1. IndexSteps(s, o, n) = p \o q
    BY StepsInBlocks
  <2>2. p \in StepsOver(AnyStatement) /\ q \in StepsOver(AnyStatement)
    BY AlterStepsAreSteps DEF StepsOver, AnyStep
  <2> HIDE DEF p, q
  <2> QED  BY <2>1, <2>2, TwoParts
<1>2. /\ \A i \in X : i \in Index
      /\ \A i \in Y : i \in Index /\ i \notin X /\ n.indexes[i] \in IndexDef
  <2>1. /\ \A i \in X : i \in Has(s.indexes)
        /\ \A i \in Y : i \in Has(n.indexes) /\ i \notin Has(s.indexes)
    BY DEF MissingIndexes, ExtraIndexes
  <2> HIDE DEF X, Y
  <2> QED  BY <2>1, Parts
<1>3. u1 \in OrFailed(bad, Stage(key, K({}), F))
  <2> DEFINE steps == OldIndexBlock(s, o, n)  T == [C \in SUBSET Y |-> OrFailed(bad, Stage(key, K(C), F))]
  <2>1. /\ DOMAIN steps = Y /\ IsFiniteSet(Y)
        /\ \A i \in Y : steps[i] \in StepsOver(AnyStatement)
        /\ \A i \in Y : steps[i] = <<DropIndex(i, n.indexes[i])>>
    <3>1. DOMAIN steps = Y /\ \A i \in Y : steps[i] = <<DropIndex(i, n.indexes[i])>>
      BY DEF OldIndexBlock
    <3>2. IsFiniteSet(Y)
      BY <3>1, BlocksAreFinite
    <3>3. \A i \in Y : steps[i] \in StepsOver(AnyStatement)
      BY <3>1, BlocksAreSteps DEF StepsOver, AnyStep
    <3> HIDE DEF steps, Y
    <3> QED  BY <3>1, <3>2, <3>3
  <2>2. \A i \in Y : (\A c \in n.indexes[i].on : F[c] # None /\ c \notin Quoted) \/ bad
    OBVIOUS
  <2> HIDE DEF steps, X, Y
  <2>3. ASSUME NEW C \in SUBSET Y, NEW i \in Y \ C, NEW v \in T[C \cup {i}]
        PROVE Execute(v, Downs(steps[i])) \in T[C]
    <3> DEFINE d == [n.indexes[i] EXCEPT !.rest = FALSE]  KC == K(C)  KD == K(C \cup {i})
    <3>1. Execute(v, Downs(steps[i])) = Do(v, CreateIndexSql(i, d, FALSE))
      <4> DEFINE up == DropIndexSql(i)  down == CreateIndexSql(i, d, FALSE)
      <4>1. steps[i] = <<Step(up, down)>>
        BY <2>1 DEF DropIndex
      <4> HIDE DEF up, down
      <4>2. Execute(v, Downs(steps[i])) = Do(v, down)
        BY <4>1, OneUpOneDown
      <4> QED  BY <4>2 DEF down
    <3>2. i \in Index /\ i \notin X /\ d \in IndexDef /\ d.on = n.indexes[i].on
      BY <1>2 DEF IndexDef
    <3>3. ((\A c \in d.on : F[c] # None) \/ bad) /\ (d.on \cap Quoted = {} \/ bad)
      BY <2>2, <3>2
    <3>4. d # None
      BY <3>2, TablesAre
    <3> HIDE DEF d
    <3>5. \A g \in KD : g[i] = None /\ [g EXCEPT ![i] = d] \in KC
      <4> SUFFICES ASSUME NEW g \in KD PROVE g[i] = None /\ [g EXCEPT ![i] = d] \in KC
        OBVIOUS
      <4> DEFINE h == [g EXCEPT ![i] = d]
      <4>1. g \in [Index -> IndexDef \cup {None}] /\ g[i] = None
        BY DEF AnyIndexes
      <4>2. h \in AnyIndexes
        BY <3>2, <4>1 DEF AnyIndexes
      <4>3. \A j \in X : h[j] # None
        BY <1>2, <3>2, <4>1
      <4>4. \A j \in C : h[j] = None
        BY <1>2, <3>2, <4>1
      <4> HIDE DEF h
      <4>5. h \in KC
        BY <4>2, <4>3, <4>4
      <4> QED  BY <4>1, <4>5 DEF h
    <3>6. v \in OrFailed(bad, Stage(key, KD, F)) /\ C \cup {i} \in SUBSET Y
      OBVIOUS
    <3> HIDE DEF KC, KD
    <3>7. Do(v, CreateIndexSql(i, d, FALSE)) \in OrFailed(bad, Stage(key, KC, F))
      <4>1. FALSE \in BOOLEAN /\ (FALSE \/ d.on \cap Quoted = {} \/ bad)
        BY <3>3
      <4> QED  BY <3>2, <3>3, <3>5, <3>6, <4>1, NewIndexDoes
    <3> QED  BY <3>1, <3>7 DEF KC
  <2>4. u \in T[Y]
    <3>1. L \subseteq K(Y)
      BY DEF X, Y
    <3>2. Stage(key, L, F) \subseteq Stage(key, K(Y), F)
      <4> HIDE DEF K
      <4> QED  BY <3>1 DEF Stage
    <3> QED  BY <3>2 DEF OrFailed
  <2>5. T[{}] = OrFailed(bad, Stage(key, K({}), F))
    OBVIOUS
  <2> HIDE DEF T
  <2>6. Execute(u, Downs(InOrder(steps))) \in T[{}]
    BY <2>1, <2>3, <2>4, InOrderUndoes
  <2> QED  BY <2>5, <2>6 DEF steps
<1> HIDE DEF u1
<1>4. u2 \in OrFailed(bad, Stage(key, H({}), F))
  <2> DEFINE steps == NewIndexBlock(s, o, n)  T == [C \in SUBSET X |-> OrFailed(bad, Stage(key, H(C), F))]
  <2>1. /\ DOMAIN steps = X /\ IsFiniteSet(X)
        /\ \A i \in X : steps[i] \in StepsOver(AnyStatement)
        /\ \A i \in X : steps[i] = <<CreateIndex(i, s.indexes[i])>>
    <3>1. DOMAIN steps = X /\ \A i \in X : steps[i] = <<CreateIndex(i, s.indexes[i])>>
      BY DEF NewIndexBlock
    <3>2. IsFiniteSet(X)
      BY <3>1, BlocksAreFinite
    <3>3. \A i \in X : steps[i] \in StepsOver(AnyStatement)
      BY <3>1, BlocksAreSteps DEF StepsOver, AnyStep
    <3> HIDE DEF steps, X
    <3> QED  BY <3>1, <3>2, <3>3
  <2> HIDE DEF steps, X
  <2>2. ASSUME NEW C \in SUBSET X, NEW i \in X \ C, NEW v \in T[C \cup {i}]
        PROVE Execute(v, Downs(steps[i])) \in T[C]
    <3> DEFINE HC == H(C)  HD == H(C \cup {i})
    <3>1. Execute(v, Downs(steps[i])) = Do(v, DropIndexSql(i))
      <4> DEFINE up == CreateIndexSql(i, s.indexes[i], TRUE)  down == DropIndexSql(i)
      <4>1. steps[i] = <<Step(up, down)>>
        BY <2>1 DEF CreateIndex
      <4> HIDE DEF up, down
      <4>2. Execute(v, Downs(steps[i])) = Do(v, down)
        BY <4>1, OneUpOneDown
      <4> QED  BY <4>2 DEF down
    <3>2. i \in Index
      BY <1>2
    <3>3. \A g \in HD : (g[i] # None \/ bad) /\ [g EXCEPT ![i] = None] \in HC
      <4> SUFFICES ASSUME NEW g \in HD PROVE g[i] # None /\ [g EXCEPT ![i] = None] \in HC
        OBVIOUS
      <4>1. g \in [Index -> IndexDef \cup {None}] /\ g[i] # None
        BY DEF AnyIndexes
      <4>2. [g EXCEPT ![i] = None] \in AnyIndexes
        BY <3>2, <4>1 DEF AnyIndexes
      <4>3. \A j \in C : [g EXCEPT ![i] = None][j] # None
        BY <1>2, <3>2, <4>1
      <4> QED  BY <4>1, <4>2, <4>3
    <3>4. v \in OrFailed(bad, Stage(key, HD, F)) /\ C \cup {i} \in SUBSET X
      OBVIOUS
    <3> HIDE DEF HC, HD
    <3>5. Do(v, DropIndexSql(i)) \in OrFailed(bad, Stage(key, HC, F))
      BY <3>2, <3>3, <3>4, NoIndexDoes
    <3> QED  BY <3>1, <3>5 DEF HC
  <2>3. u1 \in T[X]
    <3>1. K({}) \subseteq H(X)
      OBVIOUS
    <3>2. Stage(key, K({}), F) \subseteq Stage(key, H(X), F)
      <4> HIDE DEF K, H
      <4> QED  BY <3>1 DEF Stage
    <3> QED  BY <1>3, <3>2 DEF OrFailed
  <2>4. T[{}] = OrFailed(bad, Stage(key, H({}), F))
    OBVIOUS
  <2> HIDE DEF T
  <2>5. Execute(u1, Downs(InOrder(steps))) \in T[{}]
    BY <2>1, <2>2, <2>3, InOrderUndoes
  <2> QED  BY <2>4, <2>5 DEF steps
<1>5. H({}) = AnyIndexes
  OBVIOUS
<1> QED  BY <1>1, <1>4, <1>5

LEMMA KeyDown ==
  ASSUME NEW s, NEW o, NEW n, NEW t, Tells(s, o, n, t), NEW F,
         \A c \in t.primaryKey : F[c] # None /\ ~ F[c].nullable,
         NEW bad, KeyDiffers(s, n) /\ n.key = {} => bad,
         NEW u \in OrFailed(bad, Stage(s.primaryKey, AnyIndexes, F))
  PROVE Execute(u, Downs(KeySteps(s, n))) \in OrFailed(bad, Stage(t.primaryKey, AnyIndexes, F))
<1>1. t \in SoundTable /\ t.primaryKey \in SUBSET Column /\ Legal(s, o, n) /\ s.primaryKey # {}
  BY SoundFields DEF Tells, Legal, IsDeclarable
<1>2. n.key # {} => n.key = t.primaryKey
  BY DEF Tells
<1>3. CASE ~ KeyDiffers(s, n)
  <2>1. KeySteps(s, n) = <<>> /\ s.primaryKey = n.key
    BY <1>3 DEF KeySteps, KeyDiffers
  <2> QED  BY <1>1, <1>2, <2>1, NoSteps
<1>4. CASE KeyDiffers(s, n)
  <2> DEFINE st == AlterKeySql(n.key)
  <2>1. Execute(u, Downs(KeySteps(s, n))) = Do(u, st)
    BY <1>4, OneUpOneDown DEF KeySteps
  <2>2. CASE n.key = {}
    <3>1. st.op = "ALTER PRIMARY KEY" /\ st.columns = {}
      BY <2>2, AlterKeySays
    <3> HIDE DEF st
    <3>2. ~ Accepts(u, st)
      BY <3>1 DEF Accepts
    <3>3. Do(u, st) = Failed
      BY <3>2 DEF Do
    <3> QED  BY <1>4, <2>1, <2>2, <3>3 DEF OrFailed
  <2>3. CASE n.key # {}
    <3> DEFINE cs == t.primaryKey
    <3>1. st = AlterKeySql(cs) /\ cs # {}
      BY <1>2, <2>3
    <3>2. \A g \in AnyIndexes : WithKept(g, s.primaryKey, cs) \in AnyIndexes
      <4> SUFFICES ASSUME NEW g \in AnyIndexes
                   PROVE  WithKept(g, s.primaryKey, cs) \in AnyIndexes
        OBVIOUS
      <4> DEFINE kept == [on |-> s.primaryKey, unique |-> TRUE, rest |-> FALSE]
      <4>1. kept \in IndexDef
        BY <1>1, Parts DEF IndexDef
      <4> HIDE DEF kept
      <4>2. WithKept(g, s.primaryKey, cs)
              = [i \in Index |-> IF cs # s.primaryKey /\ i = KeptIndex[s.primaryKey] /\ g[i] = None
                                 THEN kept ELSE g[i]]
        BY DEF WithKept, kept
      <4> QED  BY <4>1, <4>2 DEF AnyIndexes
    <3>3. (cs # {} /\ \A c \in cs : F[c] # None /\ ~ F[c].nullable) \/ bad
      BY <3>1
    <3>4. Do(u, AlterKeySql(cs)) \in OrFailed(bad, Stage(cs, AnyIndexes, F))
      BY <1>1, <3>2, <3>3, KeyDoes
    <3> QED  BY <2>1, <3>1, <3>4
  <2> QED  BY <2>2, <2>3
<1> QED  BY <1>3, <1>4

(* The cases in which down may be refused, in terms of the tables.             *)
BadBack(s, o, n) ==
  \/ KeyDiffers(s, n) /\ n.key = {}
  \/ IntrospectsColumns(o) /\ \E c \in ModifiedColumns(s, o, n) :
       TypeDiffers(s.columns[c], n.columns[c]) /\ Convert[n.columns[c].kind] = "array"
  \/ IntrospectsIndexes(o) /\ \E i \in ExtraIndexes(s, o, n) :
       n.indexes[i].on \cap (Quoted \cup Lost(s, o, n)) # {}

LEMMA FinalIsTarget ==
  ASSUME NEW s, NEW o, NEW n, NEW t, Tells(s, o, n, t)
  PROVE /\ \A c \in Changes(s, o, n) : FinalColumns(s, o, n, t)[c] = Target(s, n, c)
        /\ \A c \in Column \ Changes(s, o, n) : FinalColumns(s, o, n, t)[c] = t.columns[c]
        /\ Changes(s, o, n) \subseteq Column
<1>1. Changes(s, o, n) \subseteq Column
  BY ColumnPairs DEF Changes, Tells
<1> QED  BY <1>1 DEF FinalColumns, Reached

LEMMA ColumnsDown ==
  ASSUME NEW s, NEW o, NEW n, NEW t, Tells(s, o, n, t), NEW bad, BadBack(s, o, n) => bad,
         Lost(s, o, n) \cap t.primaryKey = {},
         IntrospectsColumns(o) => \A c \in ExtraColumns(s, n) : Recreate[n.columns[c].kind] \in DbKind,
         NEW u \in OrFailed(bad, Stage(t.primaryKey, AnyIndexes, FinalColumns(s, o, n, t)))
  PROVE Execute(u, Downs(ColumnSteps(s, o, n)))
          \in Undoing(bad, t.primaryKey, s, n, FinalColumns(s, o, n, t), Changes(s, o, n))
<1> DEFINE F == FinalColumns(s, o, n, t)  key == t.primaryKey
<1>1. Legal(s, o, n) /\ o.on /\ n.exists /\ t \in SoundTable
  BY DEF Tells
<1>2. F \in [Column -> ColumnDef \cup {None}]
  BY FinalColumnsAre
<1>3. u \in Undoing(bad, key, s, n, F, {})
  <2>1. Undone(s, n, F, {}) = F
    BY <1>2 DEF Undone
  <2> QED  BY <2>1 DEF Undoing
<1>4. CASE ~ IntrospectsColumns(o)
  <2>1. ColumnSteps(s, o, n) = <<>> /\ Changes(s, o, n) = {}
    BY <1>4, StepsInBlocks DEF Changes
  <2> QED  BY <1>3, <2>1, NoSteps
<1>5. CASE IntrospectsColumns(o)
  <2> DEFINE X == ExtraColumns(s, n)  A == MissingColumns(s, o, n)  M == ModifiedColumns(s, o, n)
             p == InOrder(DropBlock(s, n))  q == InOrder(AddBlock(s, o, n))
             r == InOrder(ModifyBlock(s, o, n))
             u1 == Execute(u, Downs(r))  u2 == Execute(u1, Downs(q))  u3 == Execute(u2, Downs(p))
  <2>1. Execute(u, Downs(ColumnSteps(s, o, n))) = u3
    <3>1. ColumnSteps(s, o, n) = p \o q \o r
      BY <1>5, StepsInBlocks
    <3>2. /\ p \in StepsOver(AnyStatement) /\ q \in StepsOver(AnyStatement)
          /\ r \in StepsOver(AnyStatement)
      BY <1>1, AlterStepsAreSteps DEF StepsOver, AnyStep
    <3> HIDE DEF p, q, r
    <3> QED  BY <3>1, <3>2, PartsInTurn
  <2>2. n.columns = t.columns /\ Changes(s, o, n) = X \cup A \cup M
    BY <1>5 DEF Tells, Changes
  <2>3. \A c \in X \cup A \cup M : F[c] = Target(s, n, c)
    BY <2>2, FinalIsTarget
  <2>4. \A c \in key : c \in Column /\ t.columns[c] # None /\ ~ t.columns[c].nullable
    BY <1>1, SoundFields DEF SoundTable, IsSound
  <2>5. u1 \in Undoing(bad, key, s, n, F, M)
    <3>1. \A c \in M : F[c] = Target(s, n, c)
      BY <2>3
    <3>2. ASSUME NEW c \in M
          PROVE /\ TypeDiffers(s.columns[c], n.columns[c]) /\ Convert[n.columns[c].kind] = "array" => bad
                /\ NullDiffers(s.columns[c], n.columns[c]) /\ n.columns[c].nullable /\ c \in key => bad
                /\ Recreates(s.columns[c], n.columns[c]) /\ c \in key => bad
      <4>1. TypeDiffers(s.columns[c], n.columns[c]) /\ Convert[n.columns[c].kind] = "array" => bad
        BY <1>5 DEF BadBack
      <4>2. c \in key => ~ n.columns[c].nullable
        BY <2>2, <2>4
      <4>3. Recreates(s.columns[c], n.columns[c]) => c \notin key
        BY <1>5 DEF Lost
      <4> HIDE DEF M, key
      <4> QED  BY <4>1, <4>2, <4>3
    <3> HIDE DEF F, key
    <3> QED  BY <1>1, <1>2, <1>3, <3>1, <3>2, ModifyBlockDown
  <2>6. u2 \in Undoing(bad, key, s, n, F, M \cup A)
    <3>1. M \cap A = {}
      BY <1>1, TargetIs
    <3>2. ASSUME NEW c \in A PROVE F[c] # None /\ (c \in key => bad)
      <4>1. F[c] = Stored(s.columns[c]) /\ Stored(s.columns[c]) \in ColumnDef
        BY <1>1, <2>3, TargetIs
      <4>2. n.columns[c] = None
        BY DEF MissingColumns
      <4>3. c \notin key
        BY <2>2, <2>4, <4>2
      <4> HIDE DEF F, key
      <4> QED  BY <4>1, <4>3, TablesAre
    <3> HIDE DEF F, key, u1
    <3> QED  BY <1>1, <2>5, <3>1, <3>2, AddBlockDown
  <2>7. u3 \in Undoing(bad, key, s, n, F, (M \cup A) \cup X)
    <3>1. (M \cup A) \cap X = {}
      BY <1>1, TargetIs
    <3>2. \A c \in X : F[c] = None /\ Recreate[n.columns[c].kind] \in DbKind
      BY <1>1, <1>5, <2>3, TargetIs
    <3> HIDE DEF F, key, u2
    <3> QED  BY <1>1, <2>6, <3>1, <3>2, DropBlockDown
  <2>8. (M \cup A) \cup X = Changes(s, o, n)
    BY <2>2
  <2> HIDE DEF u3
  <2> QED  BY <2>1, <2>7, <2>8
<1> QED  BY <1>4, <1>5

(* What down makes of the table that up left.                                  *)
LEMMA AlterDown ==
  ASSUME NEW s, NEW o, NEW n, NEW t, Tells(s, o, n, t),
         IntrospectsColumns(o) => \A c \in ExtraColumns(s, n) : Recreate[n.columns[c].kind] \in DbKind,
         NEW u, u = Execute(t, Ups(AlterSteps(s, o, n))), u # Failed
  PROVE Execute(u, Downs(AlterSteps(s, o, n)))
          \in Undoing(BadBack(s, o, n), t.primaryKey, s, n, FinalColumns(s, o, n, t),
                      Changes(s, o, n))
<1> DEFINE p == ColumnSteps(s, o, n)  q == KeySteps(s, n)  r == IndexSteps(s, o, n)
           F == FinalColumns(s, o, n, t)  bad == BadBack(s, o, n)
           L == Settled(s, o, n, t, NewIndexes(s, o, n), OldIndexes(s, o, n))
           u1 == Execute(u, Downs(r))  u2 == Execute(u1, Downs(q))  u3 == Execute(u2, Downs(p))
<1>1. Legal(s, o, n) /\ o.on /\ n.exists /\ t \in SoundTable
  BY DEF Tells
<1>2. Execute(u, Downs(AlterSteps(s, o, n))) = u3
  <2>1. /\ p \in StepsOver(AnyStatement) /\ q \in StepsOver(AnyStatement)
        /\ r \in StepsOver(AnyStatement)
    BY <1>1, AlterStepsAreSteps DEF StepsOver, AnyStep
  <2>2. AlterSteps(s, o, n) = p \o q \o r
    BY DEF AlterSteps
  <2> HIDE DEF p, q, r
  <2> QED  BY <2>1, <2>2, PartsInTurn
<1>3. u \in Stage(s.primaryKey, L, F)
  <2>1. u \in OrFailed(Bad(s, o, n, t), Stage(s.primaryKey, L, F))
    BY AlterUp
  <2> QED  BY <2>1 DEF OrFailed
<1>4. /\ \A c \in t.primaryKey : F[c] # None /\ ~ F[c].nullable
      /\ Lost(s, o, n) \cap t.primaryKey = {}
  BY AcceptedKeeps
<1>5. u1 \in OrFailed(bad, Stage(s.primaryKey, AnyIndexes, F))
  <2>1. CASE ~ IntrospectsIndexes(o)
    <3>1. r = <<>>
      BY <2>1, StepsInBlocks
    <3>2. L \subseteq AnyIndexes
      BY DEF Settled, AnyIndexes
    <3> HIDE DEF L, F
    <3> QED  BY <1>3, <3>1, <3>2, NoSteps DEF Stage, OrFailed
  <2>2. CASE IntrospectsIndexes(o)
    <3> DEFINE X == MissingIndexes(s, o, n)  Y == ExtraIndexes(s, o, n)
    <3>1. n.indexes = t.indexes /\ L = Settled(s, o, n, t, X, Y)
      BY <2>2 DEF Tells, NewIndexes, OldIndexes
    <3>2. /\ \A i \in X : i \in Index /\ s.indexes[i] # None
          /\ \A i \in Y : i \in Index /\ i \in Has(t.indexes)
      <4>1. /\ \A i \in X : i \in Has(s.indexes)
            /\ \A i \in Y : i \in Has(n.indexes)
        BY DEF MissingIndexes, ExtraIndexes
      <4> HIDE DEF X, Y
      <4>2. \A i \in X : i \in Index /\ s.indexes[i] # None
        BY <1>1, <4>1, Parts DEF Has
      <4>3. \A i \in Y : i \in Index /\ i \in Has(t.indexes)
        BY <1>1, <3>1, <4>1, Parts
      <4> QED  BY <4>2, <4>3
    <3>3. L \in SUBSET AnyIndexes
      BY DEF Settled, AnyIndexes
    <3>4. \A g \in L : (\A i \in X : g[i] # None) /\ \A i \in Y : g[i] = None
      <4> HIDE DEF X, Y
      <4> QED  BY <3>1, <3>2 DEF Settled
    <3>5. ASSUME NEW i \in Y, ~ bad, NEW c \in n.indexes[i].on
          PROVE F[c] # None /\ c \notin Quoted
      <4>1. c \notin Quoted /\ c \notin Lost(s, o, n)
        BY <2>2, <3>5 DEF BadBack
      <4>2. t.indexes[i].on \subseteq Has(t.columns) /\ t.columns \in [Column -> ColumnDef \cup {None}]
        BY <1>1, <3>2, SoundFields DEF SoundTable, IsSound
      <4>3. c \in Column /\ t.columns[c] # None
        BY <3>1, <4>2 DEF Has
      <4>4. CASE c \notin Changes(s, o, n)
        <5>1. F[c] = t.columns[c]
          BY <4>3, <4>4, FinalIsTarget
        <5> HIDE DEF F
        <5> QED  BY <4>1, <4>3, <5>1
      <4>5. CASE c \in Changes(s, o, n)
        <5>1. F[c] = Target(s, n, c)
          BY <4>5, FinalIsTarget
        <5>2. c \in MissingColumns(s, o, n) \cup ModifiedColumns(s, o, n)
          BY <4>1, <4>5 DEF Changes, Lost
        <5>3. Target(s, n, c) \in ColumnDef
          BY <1>1, <5>2, TargetIs
        <5> HIDE DEF F
        <5> QED  BY <4>1, <5>1, <5>3, TablesAre
      <4> QED  BY <4>4, <4>5
    <3>6. \A i \in Y : (\A c \in n.indexes[i].on : F[c] # None /\ c \notin Quoted) \/ bad
      BY <3>5
    <3>7. u \in OrFailed(bad, Stage(s.primaryKey, L, F))
      BY <1>3 DEF OrFailed
    <3> HIDE DEF L, F, bad
    <3> QED  BY <1>1, <2>2, <3>3, <3>4, <3>6, <3>7, IndexesDown
  <2> QED  BY <2>1, <2>2
<1>6. u2 \in OrFailed(bad, Stage(t.primaryKey, AnyIndexes, F))
  <2>1. KeyDiffers(s, n) /\ n.key = {} => bad
    BY DEF BadBack
  <2> HIDE DEF u1, F, bad
  <2> QED  BY <1>4, <1>5, <2>1, KeyDown
<1>7. u3 \in Undoing(bad, t.primaryKey, s, n, F, Changes(s, o, n))
  <2> HIDE DEF u2
  <2> QED  BY <1>4, <1>6, ColumnsDown
<1> QED  BY <1>2, <1>7

(* A table that up created: its indexes are not dropped one by one.            *)
LEMMA OneUpNoDown ==
  ASSUME NEW v, NEW up
  PROVE Execute(v, Downs(<<[up |-> up, down |-> <<>>]>>)) = v
<1> DEFINE x == [up |-> up, down |-> <<>>]
<1>1. x.down = <<>>
  OBVIOUS
<1> HIDE DEF x
<1>2. Downs(<<x>>) = <<>>
  <2> DEFINE d == <<>>
  <2>1. [j \in 1 .. Len(<<x>>) |-> <<x>>[j].down] = <<d>>
    BY <1>1
  <2>2. Reverse(<<d>>) = <<d>>
    BY DEF Reverse
  <2>3. FlattenSeq(<<d>>) = d
    <3>1. d \in Seq({})
      OBVIOUS
    <3> QED  BY <3>1, FlattenFew
  <2> QED  BY <2>1, <2>2, <2>3 DEF Downs
<1> QED  BY <1>2, ExecuteFew DEF x

LEMMA CreateDown ==
  ASSUME NEW s \in Table, NEW o, NEW u \in SoundTable
  PROVE Execute(u, Downs(CreateSteps(s, o))) = None
<1> DEFINE first == <<Step(CreateTableSql(s), DropTableSql)>>
           more == IF IntrospectsIndexes(o) THEN InOrder(FirstIndexBlock(s)) ELSE <<>>
           v == Execute(u, Downs(more))
<1>1. Execute(u, Downs(CreateSteps(s, o))) = Do(v, DropTableSql)
  <2>1. CreateSteps(s, o) = first \o more
    BY StepsInBlocks
  <2>2. first \in StepsOver(AnyStatement) /\ <<>> \in StepsOver(AnyStatement)
    BY StatementsAre, OneStep DEF StepsOver, AnyStep
  <2>3. more \in StepsOver(AnyStatement)
    BY <2>2, CreateStepsAreSteps DEF StepsOver, AnyStep
  <2>4. \A w : Execute(w, Downs(first)) = Do(w, DropTableSql)
    BY OneUpOneDown
  <2> HIDE DEF first, more
  <2> QED  BY <2>1, <2>2, <2>3, <2>4, TwoParts
<1>2. v = u
  <2>1. CASE ~ IntrospectsIndexes(o)
    BY <2>1, NoSteps
  <2>2. CASE IntrospectsIndexes(o)
    <3> DEFINE steps == FirstIndexBlock(s)  X == DOMAIN steps  T == [C \in SUBSET X |-> {u}]
    <3>1. /\ X = Has(s.indexes)
          /\ \A i \in X : steps[i] = <<[up |-> CreateIndexSql(i, s.indexes[i], TRUE), down |-> <<>>]>>
      BY DEF FirstIndexBlock
    <3>2. IsFiniteSet(X)
      <4>1. X \in SUBSET Index
        BY <3>1 DEF Has, Table
      <4> QED  BY <4>1, FiniteParts
    <3>3. \A i \in X : steps[i] \in StepsOver(AnyStatement)
      BY <3>1, FirstIndexesAreSteps DEF StepsOver, AnyStep
    <3> HIDE DEF steps
    <3>4. ASSUME NEW C \in SUBSET X, NEW i \in X \ C, NEW w \in T[C \cup {i}]
          PROVE Execute(w, Downs(steps[i])) \in T[C]
      <4> DEFINE up == CreateIndexSql(i, s.indexes[i], TRUE)
      <4>1. steps[i] = <<[up |-> up, down |-> <<>>]>>
        BY <3>1
      <4> HIDE DEF up
      <4>2. Execute(w, Downs(steps[i])) = w
        BY <4>1, OneUpNoDown
      <4>3. C \cup {i} \in SUBSET X
        OBVIOUS
      <4>4. w = u
        BY <4>3
      <4> QED  BY <4>2, <4>4
    <3>5. u \in T[X] /\ T[{}] = {u}
      OBVIOUS
    <3> HIDE DEF T
    <3>6. Execute(u, Downs(InOrder(steps))) \in T[{}]
      BY <3>2, <3>3, <3>4, <3>5, InOrderUndoes
    <3> QED  BY <2>2, <3>5, <3>6 DEF steps
  <2> QED  BY <2>1, <2>2
<1>3. u # None /\ u # Failed
  BY TablesAre DEF SoundTable
<1>4. Do(u, DropTableSql) = None
  BY <1>3 DEF Do, DropTableSql, Accepts, After
<1> QED  BY <1>1, <1>2, <1>4

(* The statements with which the changes of a table are undone.                *)
LEMMA SeenInDown ==
  ASSUME IInv, HasGenerated, Fresh, options.on, snap.exists
  PROVE /\ IntrospectsColumns(options) =>
             \A c \in ExtraColumns(schema, snap) : Recreate[snap.columns[c].kind] \in DbKind
        /\ BadBack(schema, options, snap) => Irreversible
<1> DEFINE s == schema  o == options  n == snap  steps == AlterSteps(s, o, n)
           down == migration.down
<1>1. /\ Legal(s, o, n) /\ down = Downs(steps) /\ down \in Seq(AnyStatement)
      /\ steps \in StepsOver(AnyStatement)
  <2>1. Legal(s, o, n) /\ down = Downs(steps) /\ down \in Seq(AnyStatement)
    BY AtHand DEF Steps
  <2> QED  BY <2>1, StepsThere
<1>2. \A x \in ToSet(steps) : \A st : x.down = <<st>> => st \in ToSet(down)
  <2> SUFFICES ASSUME NEW x \in ToSet(steps), NEW st, x.down = <<st>> PROVE st \in ToSet(down)
    OBVIOUS
  <2> HIDE DEF steps
  <2> QED  BY <1>1, DownThere
<1>3. \A st \in ToSet(down) : IsStatement(st) /\ \E j \in 1 .. Len(down) : st = down[j]
  <2>1. \A st \in ToSet(down) : IsStatement(st)
    BY DEF IInv, TypeOK
  <2>2. ToSet(down) = {down[j] : j \in DOMAIN down} /\ DOMAIN down = 1 .. Len(down)
    BY <1>1, LenProperties DEF ToSet
  <2> HIDE DEF down
  <2> QED  BY <2>1, <2>2
<1> HIDE DEF steps
<1>4. ASSUME IntrospectsColumns(o), NEW c \in ExtraColumns(s, n)
      PROVE Recreate[n.columns[c].kind] \in DbKind
  <2> DEFINE d == Plain(Recreate[n.columns[c].kind], n.columns[c].nullable)
             st == AddColumnSql(c, d)
  <2>1. st \in ToSet(down)
    <3>1. DropColumn(c, n.columns[c]) \in ToSet(steps)
      BY <1>1, <1>4, StepsThere DEF steps
    <3>2. DropColumn(c, n.columns[c]).down = <<st>>
      BY DEF DropColumn, Step
    <3> HIDE DEF st
    <3> QED  BY <1>2, <3>1, <3>2
  <2>2. st.op = "ADD COLUMN" /\ st.def = d
    BY AddColumnSays
  <2> HIDE DEF st
  <2>3. d \in ColumnDef
    BY <1>3, <2>1, <2>2 DEF IsStatement
  <2> QED  BY <2>3 DEF Plain, ColumnDef
<1>5. ASSUME BadBack(s, o, n) PROVE Irreversible
  <2>1. CASE KeyDiffers(s, n) /\ n.key = {}
    <3> DEFINE up == AlterKeySql(s.primaryKey)  st == AlterKeySql(n.key)
    <3>1. Step(up, st) \in ToSet(steps)
      BY <1>1, <2>1, StepsThere DEF steps
    <3>2. Step(up, st).down = <<st>>
      BY DEF Step
    <3>3. st.op = "ALTER PRIMARY KEY" /\ st.columns = {}
      BY <2>1, AlterKeySays
    <3> HIDE DEF up, st
    <3>4. st \in ToSet(down)
      BY <1>2, <3>1, <3>2
    <3>5. PICK j \in 1 .. Len(down) : st = down[j]
      BY <1>3, <3>4
    <3> QED  BY <3>3, <3>5 DEF Irreversible
  <2>2. CASE IntrospectsColumns(o) /\ \E c \in ModifiedColumns(s, o, n) :
               TypeDiffers(s.columns[c], n.columns[c]) /\ Convert[n.columns[c].kind] = "array"
    <3>0. PICK c \in ModifiedColumns(s, o, n) :
               TypeDiffers(s.columns[c], n.columns[c]) /\ Convert[n.columns[c].kind] = "array"
      BY <2>2
    <3> DEFINE up == SetTypeSql(c, s.columns[c].kind)  st == SetTypeSql(c, Convert[n.columns[c].kind])
    <3>1. Step(up, st) \in ToSet(steps)
      BY <1>1, <2>2, <3>0, StepsThere DEF steps
    <3>2. Step(up, st).down = <<st>>
      BY DEF Step
    <3>3. st.op = "SET DATA TYPE" /\ st.kind = "array"
      BY <3>0, SetTypeSays
    <3> HIDE DEF up, st
    <3>4. st \in ToSet(down)
      BY <1>2, <3>1, <3>2
    <3>5. PICK j \in 1 .. Len(down) : st = down[j]
      BY <1>3, <3>4
    <3> QED  BY <3>3, <3>5 DEF Irreversible
  <2>3. CASE IntrospectsIndexes(o) /\ \E i \in ExtraIndexes(s, o, n) :
               n.indexes[i].on \cap (Quoted \cup Lost(s, o, n)) # {}
    <3>0. PICK i \in ExtraIndexes(s, o, n) : n.indexes[i].on \cap (Quoted \cup Lost(s, o, n)) # {}
      BY <2>3
    <3> DEFINE d == [n.indexes[i] EXCEPT !.rest = FALSE]
               up == DropIndexSql(i)  st == CreateIndexSql(i, d, FALSE)
    <3>1. DropIndex(i, n.indexes[i]) \in ToSet(steps)
      BY <1>1, <2>3, StepsThere DEF steps
    <3>2. DropIndex(i, n.indexes[i]).down = <<st>>
      BY DEF DropIndex, Step
    <3>3. n.indexes[i] \in IndexDef
      <4>1. i \in Has(n.indexes)
        BY DEF ExtraIndexes
      <4> QED  BY <1>1, <4>1, Parts
    <3>4. d.on = n.indexes[i].on
      BY <3>3 DEF IndexDef
    <3>5. st.op = "CREATE INDEX" /\ st.def = d /\ st.quotes = FALSE
      BY DEF CreateIndexSql
    <3> HIDE DEF d, st
    <3>6. st \in ToSet(down)
      BY <1>2, <3>1, <3>2
    <3>7. PICK j \in 1 .. Len(down) : st = down[j]
      BY <1>3, <3>6
    <3>8. Lost(s, o, n) \subseteq DroppedColumns
      BY SeenInUp
    <3>9. st.def.on \cap Quoted # {} \/ st.def.on \cap DroppedColumns # {}
      BY <3>0, <3>4, <3>5, <3>8
    <3> QED  BY <3>5, <3>7, <3>9 DEF Irreversible
  <2> QED  BY <1>5, <2>1, <2>2, <2>3 DEF BadBack
<1> QED  BY <1>4, <1>5

LEMMA FamilyStays ==
  \A k \in DbKind : /\ Convert[k] # "unknown" => Family(Convert[k]) = Family(k)
                    /\ Recreate[k] # "unknown" => Family(Recreate[k]) = Family(k)
BY DEF DbKind, SchemaKind, Convert, Recreate, Family

(* The outline of a column: what down restores of it.                          *)
OutlineOf(e) ==
  IF e = None THEN None ELSE [kind |-> Family(e.kind), nullable |-> e.nullable]

LEMMA BackInOutline ==
  ASSUME NEW s, NEW o, NEW n, NEW t, Tells(s, o, n, t), NEW c \in Changes(s, o, n),
         c \in ExtraColumns(s, n) => Recreate[n.columns[c].kind] \in DbKind,
         c \in ModifiedColumns(s, o, n) => ~ Recreates(s.columns[c], n.columns[c])
  PROVE OutlineOf(Back(s, n, c)) = OutlineOf(t.columns[c])
<1>1. Legal(s, o, n) /\ o.on /\ n.exists /\ n.columns = t.columns
  BY DEF Tells, Changes
<1>2. CASE c \in MissingColumns(s, o, n)
  <2>1. Back(s, n, c) = None /\ n.columns[c] = None
    BY <1>1, <1>2, BackIs DEF MissingColumns
  <2> QED  BY <1>1, <2>1
<1>3. CASE c \in ExtraColumns(s, n)
  <2> DEFINE e == n.columns[c]  back == Plain(Recreate[e.kind], e.nullable)
  <2>1. Back(s, n, c) = back /\ e \in ColumnDef
    BY <1>1, <1>3, BackIs, ColumnPairs
  <2>2. back.kind = Recreate[e.kind] /\ back.nullable = e.nullable /\ back \in ColumnDef
    <3>1. Recreate[e.kind] \in DbKind /\ e.nullable \in BOOLEAN
      BY <1>3, <2>1 DEF ColumnDef
    <3> QED  BY <3>1 DEF Plain, ColumnDef
  <2>3. Family(Recreate[e.kind]) = Family(e.kind)
    <3>1. Recreate[e.kind] # "unknown"
      BY <1>3 DEF DbKind, SchemaKind
    <3> QED  BY <2>1, <3>1, FamilyStays DEF ColumnDef
  <2> HIDE DEF back
  <2>4. back # None /\ e # None
    BY <2>1, <2>2, TablesAre
  <2> QED  BY <1>1, <2>1, <2>2, <2>3, <2>4 DEF OutlineOf
<1>4. CASE c \in ModifiedColumns(s, o, n)
  <2> DEFINE d == s.columns[c]  e == n.columns[c]  back == Restored(d, e)
  <2>1. /\ Back(s, n, c) = back /\ back \in ColumnDef /\ e \in ColumnDef
        /\ Convert[e.kind] # "unknown" /\ ~ Recreates(d, e)
    BY <1>1, <1>4, BackIs, ColumnPairs
  <2>2. /\ Returned(d, e).kind = IF TypeDiffers(d, e) THEN d.kind ELSE e.kind
        /\ Returned(d, e).nullable = d.nullable
    BY <2>1 DEF Returned, Changed
  <2>3. /\ back.kind = IF TypeDiffers(d, e) THEN Convert[e.kind] ELSE e.kind
        /\ back.nullable = e.nullable
    <3>1. back.kind = IF TypeDiffers(d, e) THEN Convert[e.kind] ELSE e.kind
      BY <2>2 DEF Restored
    <3>2. back.nullable = IF NullDiffers(d, e) THEN e.nullable ELSE d.nullable
      BY <2>2 DEF Restored
    <3> QED  BY <3>1, <3>2 DEF NullDiffers
  <2>4. Family(Convert[e.kind]) = Family(e.kind)
    BY <2>1, FamilyStays DEF ColumnDef
  <2> HIDE DEF back
  <2>5. back # None /\ e # None
    BY <2>1, TablesAre
  <2> QED  BY <1>1, <2>1, <2>3, <2>4, <2>5 DEF OutlineOf
<1> QED  BY <1>2, <1>3, <1>4 DEF Changes

LEMMA DownUndoesWithin == IInv => DownUndoes
<1> SUFFICES ASSUME IInv, Fresh, phase \in {"reverted", "stuck"}
             PROVE /\ phase = "reverted" /\ DroppedColumns \cap AddedColumns = {}
                        => Outline(db) = Outline(source)
                   /\ phase = "stuck" => Irreversible
  BY DEF DownUndoes
<1> DEFINE s == schema  o == options  n == snap
           after == Execute(source, migration.up)  end == Execute(after, migration.down)
<1>1. HasGenerated
  BY DEF HasGenerated, Reading
<1>2. /\ after # Failed
      /\ phase = "reverted" => db = end
      /\ phase = "stuck" => end = Failed
      /\ db \in Database
  BY <1>1, DatabaseIs DEF IInv, TableFits, TypeOK
<1>3. /\ migration.up = Ups(Steps(s, o, n)) /\ migration.down = Downs(Steps(s, o, n))
      /\ Legal(s, o, n) /\ source \in Database
  BY <1>1, AtHand
<1>4. ASSUME end = source PROVE phase = "reverted" /\ Outline(db) = Outline(source)
  <2>1. Failed \notin Database
    BY TablesAre DEF Database, SoundTable
  <2>2. phase # "stuck"
    BY <1>2, <1>3, <1>4, <2>1
  <2> QED  BY <1>2, <1>4, <2>2
<1>5. CASE ~ o.on
  <2>1. migration.up = <<>> /\ migration.down = <<>>
    BY <1>3, <1>5, UpsAndDownsFew DEF Steps
  <2>2. end = source
    BY <2>1, ExecuteFew
  <2> QED  BY <1>4, <2>2
<1>6. CASE o.on /\ ~ n.exists
  <2>1. source = None /\ after = Execute(None, Ups(CreateSteps(s, o)))
    BY <1>1, <1>3, <1>6, AtHand DEF Steps
  <2>2. s \in Table /\ IsDeclarable(s)
    BY <1>3 DEF Legal
  <2>3. after \in SoundTable
    BY <2>1, <2>2, CreateUp DEF Stage
  <2> HIDE DEF after
  <2>4. Execute(after, Downs(CreateSteps(s, o))) = None
    BY <2>2, <2>3, CreateDown
  <2>5. end = source
    BY <1>3, <1>6, <2>1, <2>4 DEF Steps
  <2> QED  BY <1>4, <2>5
<1>7. CASE o.on /\ n.exists
  <2> DEFINE F == FinalColumns(s, o, n, source)  G == Undone(s, n, F, Changes(s, o, n))
             t == source
  <2>1. Tells(s, o, n, t) /\ t \in SoundTable
    BY <1>1, <1>7, AtHand DEF Tells
  <2>2. /\ IntrospectsColumns(o) => \A c \in ExtraColumns(s, n) : Recreate[n.columns[c].kind] \in DbKind
        /\ BadBack(s, o, n) => Irreversible
    BY <1>1, <1>7, SeenInDown
  <2>3. end \in OrFailed(BadBack(s, o, n), Stage(t.primaryKey, AnyIndexes, G))
    <3>1. /\ after = Execute(t, Ups(AlterSteps(s, o, n)))
          /\ end = Execute(after, Downs(AlterSteps(s, o, n)))
      BY <1>3, <1>7 DEF Steps
    <3> HIDE DEF after, end
    <3>2. end \in Undoing(BadBack(s, o, n), t.primaryKey, s, n, F, Changes(s, o, n))
      BY <1>2, <2>1, <2>2, <3>1, AlterDown
    <3> QED  BY <3>2 DEF Undoing
  <2> HIDE DEF F, G, end
  <2>4. ASSUME phase = "stuck" PROVE Irreversible
    <3>1. Failed \notin Stage(t.primaryKey, AnyIndexes, G)
      BY TablesAre DEF Stage, SoundTable
    <3> QED  BY <1>2, <2>2, <2>3, <2>4, <3>1 DEF OrFailed
  <2>5. ASSUME phase = "reverted", DroppedColumns \cap AddedColumns = {}
        PROVE Outline(db) = Outline(source)
    <3>1. db \in Stage(t.primaryKey, AnyIndexes, G)
      <4>1. Failed \notin Database
        BY TablesAre DEF Database, SoundTable
      <4> QED  BY <1>2, <2>3, <2>5, <4>1 DEF OrFailed
    <3>2. db # None /\ db.primaryKey = t.primaryKey /\ db.columns = G
      BY <3>1, StageFields
    <3>3. t # None
      BY <2>1, SoundFields DEF Database
    <3>4. ASSUME NEW c \in Column PROVE OutlineOf(G[c]) = OutlineOf(t.columns[c])
      <4>1. CASE c \notin Changes(s, o, n)
        <5>1. G[c] = F[c] /\ F[c] = t.columns[c]
          BY <2>1, <4>1, FinalIsTarget DEF Undone, F, G
        <5> QED  BY <5>1
      <4>2. CASE c \in Changes(s, o, n)
        <5>1. G[c] = Back(s, n, c)
          BY <4>2 DEF Undone, G
        <5>2. IntrospectsColumns(o)
          BY <4>2 DEF Changes
        <5>3. ASSUME c \in ModifiedColumns(s, o, n), Recreates(s.columns[c], n.columns[c])
              PROVE FALSE
          <6> DEFINE st == AddColumnSql(c, AddedAgain(s.columns[c], n.columns[c]))
          <6>1. SaysOfColumns(s, o, n, st)
            BY <5>2, <5>3 DEF SaysOfColumns, SaysOfChange
          <6>2. st.op = "ADD COLUMN" /\ st.column = c
            BY AddColumnSays
          <6> HIDE DEF st
          <6>3. st \in ToSet(migration.up)
            <7>1. migration.up = Ups(AlterSteps(s, o, n))
              BY <1>3, <1>7 DEF Steps
            <7>2. \A x : x \in ToSet(Ups(AlterSteps(s, o, n))) <=>
                    SaysOfColumns(s, o, n, x) \/ SaysOfKey(s, n, x) \/ SaysOfIndexes(s, o, n, x)
              BY <1>3, <1>7, AlterSays
            <7> QED  BY <6>1, <7>1, <7>2
          <6>4. st \in Statements("ADD COLUMN")
            BY <1>1, <6>2, <6>3, AtHand, StatementsOf
          <6>5. c \in AddedColumns
            BY <6>2, <6>4, Zenon DEF AddedColumns
          <6>6. c \in DroppedColumns
            <7>1. c \in Lost(s, o, n)
              BY <5>2, <5>3 DEF Lost
            <7> QED  BY <1>1, <1>7, <7>1, SeenInUp
          <6> QED  BY <2>5, <6>5, <6>6
        <5> QED  BY <2>1, <2>2, <4>2, <5>1, <5>2, <5>3, BackInOutline
      <4> QED  BY <4>1, <4>2
    <3>5. Outline(db) = [columns |-> [c \in Column |-> OutlineOf(G[c])], primaryKey |-> t.primaryKey]
      BY <3>2 DEF Outline, OutlineOf
    <3>6. Outline(t) = [columns |-> [c \in Column |-> OutlineOf(t.columns[c])], primaryKey |-> t.primaryKey]
      BY <3>3 DEF Outline, OutlineOf
    <3> QED  BY <3>4, <3>5, <3>6
  <2> QED  BY <2>4, <2>5
<1> QED  BY <1>5, <1>6, <1>7

(* Down brings back the outline of the table the migration was generated for,  *)
(* and is refused only where the tool could not remember enough of it, or      *)
(* writes it in a way the database does not take (generateMigrations).         *)
THEOREM DownUndoesAlways == Spec => []DownUndoes
BY SchemaSyncInvariant, DownUndoesWithin, PTL
================================================================================
