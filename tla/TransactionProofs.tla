--------------------------- MODULE TransactionProofs ---------------------------
(* Theorems about Transaction, for every set of tasks, calls, clients, writes  *)
(* and side effects, every runner and every number of attempts.                *)
EXTENDS Transaction, SequenceTheorems, TLAPS

USE DEF NoStore

--------------------------------------------------------------------------------
(* Type correctness.                                                           *)

LEMMA NoStoreInStore == NoStore \in Store
  BY DEF Store

LEMMA InitType == Init => TypeOK
  <1> SUFFICES ASSUME Init PROVE TypeOK
    OBVIOUS
  <1>1. Unissued \in Entry
    BY NoStoreInStore DEF Unissued, Entry
  <1>2. <<>> \in Seq(Added)
    OBVIOUS
  <1> QED
    BY <1>1, <1>2, NoStoreInStore, ConstantsAssumption DEF Init, TypeOK, Flow, Stage, Fate, Reply

LEMMA StoreFields ==
  ASSUME TypeOK, NEW t \in Task
  PROVE  /\ store[t] \in Store
         /\ store[t].client \in Client \cup {NoClient}
         /\ store[t].attempt \in Nat
         /\ store[t] # NoStore => store[t].call \in Call /\ store[t].client \in Client
  BY DEF TypeOK, Store

LEMMA IssuedType ==
  ASSUME TypeOK, NEW t \in Task, NEW via \in {"builder", "raw"}, NEW into \in Call \cup {NoCall}
  PROVE  Issued(t, via, into) \in Entry
  <1>1. (IF into = NoCall THEN 0 ELSE attempt[into]) \in Nat
    BY ConstantsAssumption DEF TypeOK
  <1>2. Live(store[t]) \in BOOLEAN
    BY DEF Live
  <1> QED
    BY <1>1, <1>2, StoreFields DEF Entry, Issued

(* A statement goes to the client of the block, or the pool is asked for one.  *)
LEMMA QueryIsSent ==
  ASSUME TypeOK, NEW t \in Task, NEW w \in Write, RunQuery(t, w) \/ RunRawSql(t, w)
  PROVE  /\ flow[t] = "code" /\ log[w] = Unissued
         /\ \/ store[t].client \in Client /\ Execute(t, w, store[t].client, "builder")
            \/ store[t] = NoStore /\ AskPool(t, w, "builder")
            \/ AskPool(t, w, "raw")
  <1>1. CASE RunQuery(t, w)
    BY <1>1, StoreFields, ConstantsAssumption DEF RunQuery, Query
  <1>2. CASE RunRawSql(t, w)
    BY <1>2 DEF RunRawSql, Query
  <1> QED
    BY <1>1, <1>2

LEMMA ExecuteType ==
  ASSUME TypeOK, NEW t \in Task, NEW w \in Write, NEW c \in Client,
         NEW via \in {"builder", "raw"}, Execute(t, w, c, via)
  PROVE  TypeOK'
  <1>1. Issued(t, via, holder[c]) \in Entry
    <2>1. holder[c] \in Call \cup {NoCall}
      BY DEF TypeOK
    <2> QED
      BY <2>1, IssuedType
  <1>2. log' \in [Write -> Entry]
    BY <1>1 DEF TypeOK, Execute
  <1>3. pending' \in [Client -> SUBSET Write] /\ committed' \subseteq Write
    <2>1. CASE holder[c] = NoCall
      BY <2>1 DEF TypeOK, Execute
    <2>2. CASE holder[c] # NoCall
      <3>1. pending' = [pending EXCEPT ![c] = @ \cup {w}] /\ committed' = committed
        BY <2>2 DEF Execute
      <3> QED
        BY <3>1 DEF TypeOK
    <2> QED
      BY <2>1, <2>2
  <1> QED
    BY <1>2, <1>3 DEF TypeOK, Execute, callVars, taskVars

LEMMA AskPoolType ==
  ASSUME TypeOK, NEW t \in Task, NEW w \in Write,
         NEW via \in {"builder", "raw"}, AskPool(t, w, via)
  PROVE  TypeOK'
  <1>1. Issued(t, via, NoCall) \in Entry
    BY IssuedType
  <1>2. log' \in [Write -> Entry]
    BY <1>1 DEF TypeOK, AskPool
  <1> QED
    BY <1>2 DEF TypeOK, AskPool, callVars, serverVars, Flow

LEMMA ReleaseType ==
  ASSUME TypeOK, Links, NEW x \in Call, stage[x] \in Holding, Release(x)
  PROVE  /\ client[x] \in Client
         /\ pending[client[x]] \subseteq Write
         /\ holder' \in [Client -> Call \cup {NoCall}]
         /\ pending' \in [Client -> SUBSET Write]
         /\ failed' \subseteq Client
         /\ client' \in [Call -> Client \cup {NoClient}]
  BY DEF TypeOK, Links, ClientLink, Release

LEMMA SettlesType ==
  ASSUME TypeOK, NEW x \in Call, NEW end, RunnerSettles(x, end)
  PROVE  /\ stage' \in [Call -> Stage]
         /\ reply' \in [Call -> Reply]
         /\ flow' \in [Task -> Flow]
         /\ owner' \in [Call -> Task \cup {NoTask}]
  BY DEF TypeOK, RunnerSettles, EnterLoop, Reject, Flow, Stage, Reply

LEMMA NextType == TypeOK /\ Links /\ WaitLink /\ [Next]_vars => TypeOK'
  <1> SUFFICES ASSUME TypeOK, Links, WaitLink, [Next]_vars PROVE TypeOK'
    OBVIOUS
  <1> USE ConstantsAssumption
  <1>1. ASSUME NEW t \in Task, JoinTransaction(t) PROVE TypeOK'
    BY <1>1 DEF TypeOK, JoinTransaction, callVars, serverVars, history
  <1>2. ASSUME NEW t \in Task, LeaveNested(t) PROVE TypeOK'
    BY <1>2 DEF TypeOK, LeaveNested, callVars, serverVars, history
  <1>3. ASSUME NEW t \in Task, NEW x \in Call, StartTransaction(t, x) PROVE TypeOK'
    BY <1>3 DEF TypeOK, StartTransaction, serverVars, history, Flow, Stage
  <1>4. ASSUME NEW t \in Task, NEW x \in Call, FuncSettles(t, x) PROVE TypeOK'
    BY <1>4, NoStoreInStore DEF TypeOK, FuncSettles, Leftover, serverVars, Flow, Stage
  <1>5. ASSUME NEW t \in Task, NEW w \in Write, RunQuery(t, w) \/ RunRawSql(t, w)
        PROVE  TypeOK'
    BY <1>5, QueryIsSent, ExecuteType, AskPoolType
  <1>6. ASSUME NEW t \in Task, PoolServes(t) \/ PoolRefuses(t) PROVE TypeOK'
    <2>1. committed' \subseteq Write
      BY <1>6 DEF TypeOK, WaitLink, PoolServes, PoolRefuses, serverVars
    <2> QED
      BY <1>6, <2>1 DEF TypeOK, PoolServes, PoolRefuses, callVars, serverVars, history, Flow
  <1>7. ASSUME NEW t \in Task, QueryFails(t) PROVE TypeOK'
    BY <1>7 DEF TypeOK, QueryFails, callVars, taskVars, history, Store
  <1>8. ASSUME NEW t \in Task, NEW e \in Effect, AddTransactionSideEffect(t, e) PROVE TypeOK'
    <2> DEFINE added == [effect |-> e, attempt |-> store[t].attempt]
    <2>1. added \in Added /\ store[t].call \in Call
      BY <1>8, StoreFields DEF Added, AddTransactionSideEffect
    <2>2. Append(sideEffects[store[t].call], added) \in Seq(Added)
      BY <2>1 DEF TypeOK
    <2>3. sideEffects' \in [Call -> Seq(Added)]
      BY <1>8, <2>1, <2>2 DEF TypeOK, AddTransactionSideEffect
    <2> QED
      BY <1>8, <2>3 DEF TypeOK, AddTransactionSideEffect, taskVars, serverVars, history
  <1>9. ASSUME NEW t \in Task, NEW u \in Task, Spawn(t, u) PROVE TypeOK'
    BY <1>9 DEF TypeOK, Spawn, callVars, serverVars
  <1>10. ASSUME NEW t \in Task, Finish(t) PROVE TypeOK'
    BY <1>10, NoStoreInStore DEF TypeOK, Finish, callVars, serverVars
  <1>11. ASSUME NEW x \in Call, NEW c \in Client, RunFunc(x, c) PROVE TypeOK'
    <2>1. attempt[x] + 1 \in 0 .. MaxAttempts
      BY <1>11 DEF TypeOK, RunFunc
    <2>2. [call |-> x, client |-> c, attempt |-> attempt[x] + 1] \in Store
      BY <2>1 DEF Store
    <2> QED
      BY <1>11, <2>1, <2>2 DEF TypeOK, RunFunc, history, Flow, Stage
  <1>12. ASSUME NEW x \in Call, BeginFails(x) PROVE TypeOK'
    BY <1>12 DEF TypeOK, BeginFails, Reject, serverVars, history, Flow, Stage, Reply
  <1>13. ASSUME NEW x \in Call, CommitSucceeds(x) PROVE TypeOK'
    <2>1. stage[x] \in Holding /\ Release(x) /\ RunnerSettles(x, "commit")
      BY <1>13 DEF CommitSucceeds, Holding
    <2> QED
      BY <1>13, <2>1, ReleaseType, SettlesType DEF TypeOK, CommitSucceeds, history, Fate
  <1>14. ASSUME NEW x \in Call, CommitVoided(x) PROVE TypeOK'
    <2>1. stage[x] \in Holding /\ Release(x) /\ RunnerSettles(x, "void")
      BY <1>14 DEF CommitVoided, Holding
    <2> QED
      BY <1>14, <2>1, ReleaseType, SettlesType DEF TypeOK, CommitVoided, history, Fate
  <1>15. ASSUME NEW x \in Call, CommitAnswerLost(x) PROVE TypeOK'
    <2>1. stage[x] \in Holding /\ Release(x) /\ RunnerSettles(x, "rollback")
      BY <1>15 DEF CommitAnswerLost, Holding
    <2> QED
      BY <1>15, <2>1, ReleaseType, SettlesType DEF TypeOK, CommitAnswerLost, history, Fate
  <1>16. ASSUME NEW x \in Call, CommitRefused(x) PROVE TypeOK'
    BY <1>16 DEF TypeOK, CommitRefused, taskVars, serverVars, history, Stage
  <1>17. ASSUME NEW x \in Call, RollBack(x) PROVE TypeOK'
    <2>1. stage[x] \in Holding /\ Release(x)
      BY <1>17 DEF RollBack, Holding
    <2>2. CASE RunnerSettles(x, "rollback")
      BY <1>17, <2>1, <2>2, ReleaseType, SettlesType DEF TypeOK, RollBack, history, Fate
    <2>3. CASE ~ RunnerSettles(x, "rollback")
      BY <1>17, <2>1, <2>3, ReleaseType DEF TypeOK, RollBack, history, Fate, Stage
    <2> QED
      BY <2>2, <2>3
  <1>18. ASSUME NEW x \in Call, StartEffect(x) PROVE TypeOK'
    BY <1>18 DEF TypeOK, StartEffect, taskVars, serverVars, history, Stage
  <1>19. ASSUME NEW x \in Call, EffectResolves(x) PROVE TypeOK'
    BY <1>19 DEF TypeOK, EffectResolves, taskVars, serverVars, history, Stage
  <1>20. ASSUME NEW x \in Call, EffectRejects(x) PROVE TypeOK'
    BY <1>20 DEF TypeOK, EffectRejects, Reject, serverVars, history, Flow, Stage, Reply
  <1>21. ASSUME NEW x \in Call, ReturnResult(x) PROVE TypeOK'
    BY <1>21 DEF TypeOK, ReturnResult, serverVars, history, Flow, Stage, Reply
  <1>22. CASE UNCHANGED vars
    BY <1>22 DEF TypeOK, vars, callVars, taskVars, serverVars, history
  <1> QED
    BY <1>1, <1>2, <1>3, <1>4, <1>5, <1>6, <1>7, <1>8, <1>9, <1>10, <1>11, <1>12, <1>13,
       <1>14, <1>15, <1>16, <1>17, <1>18, <1>19, <1>20, <1>21, <1>22
       DEF Next, Runner, Loop, Code, Idle

--------------------------------------------------------------------------------
(* The links between calls, tasks and clients.                                 *)

LEMMA InitLinks == Init => Links
  BY ConstantsAssumption DEF Init, Links, ClientLink, OwnerLink, Holding, Awaiting

(* The part of TypeOK, and of the assumptions, that linking is about.          *)
Shape ==
  /\ flow \in [Task -> Flow]
  /\ store \in [Task -> Store]
  /\ stage \in [Call -> Stage]
  /\ owner \in [Call -> Task \cup {NoTask}]
  /\ client \in [Call -> Client \cup {NoClient}]
  /\ holder \in [Client -> Call \cup {NoCall}]
  /\ NoTask \notin Task /\ NoCall \notin Call /\ NoClient \notin Client

LEMMA TypeShape == TypeOK => Shape
  BY ConstantsAssumption DEF TypeOK, Shape

(* The task in which func runs sees the call in its store.                     *)
LEMMA FuncStore ==
  ASSUME Shape, OwnerLink, NEW x \in Call, stage[x] = "func"
  PROVE  store[owner[x]].call = x /\ store[owner[x]] # NoStore
  <1>1. store[owner[x]] = [call |-> x, client |-> client[x], attempt |-> attempt[x]]
    BY DEF OwnerLink
  <1>2. store[owner[x]].call = x
    BY <1>1
  <1>3. NoStore.call = NoCall
    OBVIOUS
  <1> QED
    BY <1>2, <1>3 DEF Shape

(* The runner frees the client and then resolves, rejects or calls back again. *)
LEMMA EndKeepsLinks ==
  ASSUME Shape, attempt \in [Call -> Nat], Links, NEW x \in Call, stage[x] \in {"commit", "rollback"},
         Release(x), UNCHANGED <<attempt, store>>,
         \/ EnterLoop(x)
         \/ Reject(x)
         \/ stage' = [stage EXCEPT ![x] = "begin"] /\ UNCHANGED <<flow, owner>>
  PROVE  Links'
  <1>1. client[x] \in Client /\ owner[x] \in Task
    BY DEF Shape, Links, ClientLink, OwnerLink, Holding, Awaiting
  <1>2. ClientLink'
    <2>1. \A y \in Call : y # x => client'[y] = client[y] /\ stage'[y] = stage[y]
      BY DEF Shape, Release, EnterLoop, Reject
    <2>2. client'[x] = NoClient /\ stage'[x] \notin Holding
      BY DEF Shape, Release, EnterLoop, Reject, Holding
    <2>3. \A c \in Client : holder'[c] = IF c = client[x] THEN NoCall ELSE holder[c]
      BY <1>1 DEF Shape, Release
    <2> QED
      BY <1>1, <2>1, <2>2, <2>3 DEF Shape, Links, ClientLink
  <1>3. OwnerLink'
    <2>1. CASE Reject(x)
      <3>1. stage' = [stage EXCEPT ![x] = "done"]
            /\ flow' = [flow EXCEPT ![owner[x]] = "code"]
            /\ owner' = [owner EXCEPT ![x] = NoTask]
        BY <2>1 DEF Reject
      <3>2. \A y \in Call : y # x => /\ stage'[y] = stage[y] /\ owner'[y] = owner[y]
                                     /\ client'[y] = client[y]
        BY <3>1 DEF Shape, Release
      <3>3. \A y \in Call : y # x => owner[y] # owner[x]
        BY <1>1 DEF Links, OwnerLink, Shape
      <3> QED
        BY <1>1, <3>1, <3>2, <3>3 DEF Shape, Links, OwnerLink, Awaiting
    <2>2. CASE ~ Reject(x)
      <3>1. \/ stage' = [stage EXCEPT ![x] = "loop"]
            \/ stage' = [stage EXCEPT ![x] = "begin"]
        BY <2>2 DEF EnterLoop
      <3>2. flow' = flow /\ owner' = owner
        BY <2>2 DEF EnterLoop
      <3>3. \A y \in Call : y # x => client'[y] = client[y]
        BY DEF Shape, Release
      <3> QED
        BY <3>1, <3>2, <3>3 DEF Shape, Links, OwnerLink, Awaiting
    <2> QED
      BY <2>1, <2>2
  <1> QED
    BY <1>2, <1>3 DEF Links

LEMMA NextLinks == TypeOK /\ Links /\ [Next]_vars => Links'
  <1> SUFFICES ASSUME Shape, attempt \in [Call -> Nat], Links, [Next]_vars PROVE Links'
    BY TypeShape, ConstantsAssumption DEF TypeOK
  <1> USE DEF Links, Holding, Awaiting
  <1>1. ASSUME NEW t \in Task, JoinTransaction(t) \/ LeaveNested(t) \/ QueryFails(t) PROVE Links'
    BY <1>1 DEF ClientLink, OwnerLink, JoinTransaction, LeaveNested, QueryFails,
                callVars, taskVars, serverVars
  <1>2. ASSUME NEW t \in Task,
               \/ \E w \in Write : RunQuery(t, w) \/ RunRawSql(t, w)
               \/ PoolServes(t) \/ PoolRefuses(t)
        PROVE  Links'
    <2>1. /\ flow[t] # "awaits"
          /\ \E now \in {"code", "queries"} : flow' = flow \/ flow' = [flow EXCEPT ![t] = now]
          /\ UNCHANGED <<store, stage, owner, attempt, client, holder>>
      BY <1>2 DEF RunQuery, RunRawSql, Query, Execute, AskPool, PoolServes, PoolRefuses,
                  callVars, taskVars, serverVars
    <2>2. \A u \in Task : flow'[u] = "awaits" <=> flow[u] = "awaits"
      BY <2>1 DEF Shape
    <2>3. \A x \in Call : stage[x] \in Awaiting \cup {"func"} => owner[x] \in Task
      BY DEF Shape, OwnerLink
    <2>4. ClientLink'
      BY <2>1 DEF ClientLink
    <2>5. OwnerLink'
      BY <2>1, <2>2, <2>3 DEF OwnerLink
    <2> QED
      BY <2>4, <2>5
  <1>3. ASSUME NEW t \in Task, NEW x \in Call, StartTransaction(t, x) PROVE Links'
    <2>1. ClientLink'
      BY <1>3 DEF Shape, ClientLink, StartTransaction, serverVars
    <2>2. OwnerLink'
      <3>1. \A y \in Call : owner[y] # t
        <4> SUFFICES ASSUME NEW y \in Call, owner[y] = t PROVE FALSE
          OBVIOUS
        <4>1. stage[y] \in Awaiting \cup {"func"}
          BY DEF OwnerLink, Shape
        <4>2. CASE stage[y] \in Awaiting
          BY <4>2, <1>3 DEF OwnerLink, StartTransaction
        <4>3. CASE stage[y] = "func"
          BY <4>3, <1>3, FuncStore DEF StartTransaction
        <4> QED
          BY <4>1, <4>2, <4>3
      <3> QED
        BY <1>3, <3>1 DEF Shape, OwnerLink, StartTransaction
    <2> QED
      BY <2>1, <2>2
  <1>4. ASSUME NEW t \in Task, NEW x \in Call, FuncSettles(t, x) PROVE Links'
    <2>1. ClientLink'
      BY <1>4 DEF Shape, ClientLink, FuncSettles, RunsFunc, serverVars
    <2>2. OwnerLink'
      <3>1. \A y \in Call : y # x => owner[y] # t
        BY <1>4 DEF OwnerLink, FuncSettles, RunsFunc
      <3> QED
        BY <1>4, <3>1 DEF Shape, OwnerLink, FuncSettles, RunsFunc
    <2> QED
      BY <2>1, <2>2
  <1>5. ASSUME NEW t \in Task, NEW e \in Effect, AddTransactionSideEffect(t, e) PROVE Links'
    BY <1>5 DEF ClientLink, OwnerLink, AddTransactionSideEffect, taskVars, serverVars
  <1>6. ASSUME NEW t \in Task, NEW u \in Task, Spawn(t, u) PROVE Links'
    <2>1. ClientLink'
      BY <1>6 DEF ClientLink, Spawn, callVars, serverVars
    <2>2. \A y \in Call : owner[y] # u
      <3> SUFFICES ASSUME NEW y \in Call, owner[y] = u PROVE FALSE
        OBVIOUS
      <3>1. stage[y] \in Awaiting \cup {"func"}
        BY DEF OwnerLink, Shape
      <3>2. CASE stage[y] \in Awaiting
        BY <3>2, <1>6 DEF OwnerLink, Spawn
      <3>3. CASE stage[y] = "func"
        BY <3>3, <1>6, FuncStore DEF Spawn
      <3> QED
        BY <3>1, <3>2, <3>3
    <2>3. OwnerLink'
      BY <1>6, <2>2 DEF Shape, OwnerLink, Spawn, callVars
    <2> QED
      BY <2>1, <2>3
  <1>7. ASSUME NEW t \in Task, Finish(t) PROVE Links'
    <2>1. ClientLink'
      BY <1>7 DEF ClientLink, Finish, callVars, serverVars
    <2>2. \A y \in Call : owner[y] # t
      <3> SUFFICES ASSUME NEW y \in Call, owner[y] = t PROVE FALSE
        OBVIOUS
      <3>1. stage[y] \in Awaiting \cup {"func"}
        BY DEF OwnerLink, Shape
      <3>2. CASE stage[y] \in Awaiting
        BY <3>2, <1>7 DEF OwnerLink, Finish, RunsFunc
      <3>3. CASE stage[y] = "func"
        BY <3>3, <1>7, FuncStore DEF Finish, RunsFunc
      <3> QED
        BY <3>1, <3>2, <3>3
    <2>3. OwnerLink'
      BY <1>7, <2>2 DEF Shape, OwnerLink, Finish, callVars
    <2> QED
      BY <2>1, <2>3
  <1>8. ASSUME NEW x \in Call, NEW c \in Client, RunFunc(x, c) PROVE Links'
    <2>1. \A y \in Call : y # x => client[y] # c
      BY <1>8 DEF ClientLink, RunFunc, Shape
    <2>2. ClientLink'
      BY <1>8, <2>1 DEF Shape, ClientLink, RunFunc
    <2>3. \A y \in Call : y # x => owner[y] # owner[x]
      BY <1>8 DEF OwnerLink, RunFunc
    <2>4. owner[x] \in Task
      BY <1>8 DEF Shape, OwnerLink, RunFunc
    <2>5. OwnerLink'
      BY <1>8, <2>3, <2>4 DEF Shape, OwnerLink, RunFunc
    <2> QED
      BY <2>2, <2>5
  <1>9. ASSUME NEW x \in Call, BeginFails(x) \/ EffectRejects(x) \/ ReturnResult(x) PROVE Links'
    <2>1. stage[x] \in {"begin", "loop", "effect"}
      BY <1>9 DEF BeginFails, EffectRejects, ReturnResult
    <2>2. /\ stage' = [stage EXCEPT ![x] = "done"]
          /\ flow' = [flow EXCEPT ![owner[x]] = "code"]
          /\ owner' = [owner EXCEPT ![x] = NoTask]
          /\ UNCHANGED <<attempt, client, store, holder>>
      BY <1>9 DEF BeginFails, EffectRejects, ReturnResult, Reject, serverVars
    <2>3. ClientLink'
      BY <2>1, <2>2 DEF Shape, ClientLink
    <2>4. \A y \in Call : y # x => owner[y] # owner[x]
      BY <2>1 DEF OwnerLink
    <2>5. OwnerLink'
      BY <2>1, <2>2, <2>4 DEF Shape, OwnerLink
    <2> QED
      BY <2>3, <2>5
  <1>10. ASSUME NEW x \in Call,
                CommitSucceeds(x) \/ CommitVoided(x) \/ CommitAnswerLost(x) \/ RollBack(x)
         PROVE  Links'
    <2>1. stage[x] \in {"commit", "rollback"} /\ Release(x) /\ UNCHANGED <<attempt, store>>
      BY <1>10 DEF CommitSucceeds, CommitVoided, CommitAnswerLost, RollBack
    <2>2. \/ EnterLoop(x)
          \/ Reject(x)
          \/ stage' = [stage EXCEPT ![x] = "begin"] /\ UNCHANGED <<flow, owner>>
      BY <1>10 DEF CommitSucceeds, CommitVoided, CommitAnswerLost, RollBack, RunnerSettles
    <2> QED
      BY <2>1, <2>2, EndKeepsLinks
  <1>11. ASSUME NEW x \in Call, CommitRefused(x) \/ StartEffect(x) \/ EffectResolves(x) PROVE Links'
    <2>1. UNCHANGED <<flow, owner, attempt, client, store, holder>>
      BY <1>11 DEF CommitRefused, StartEffect, EffectResolves, taskVars, serverVars
    <2>2. \/ stage[x] = "commit" /\ stage' = [stage EXCEPT ![x] = "rollback"]
          \/ stage[x] \in {"loop", "effect"}
             /\ \E s \in {"loop", "effect"} : stage' = [stage EXCEPT ![x] = s]
      BY <1>11 DEF CommitRefused, StartEffect, EffectResolves
    <2>3. ClientLink'
      BY <2>1, <2>2 DEF Shape, ClientLink
    <2>4. OwnerLink'
      BY <2>1, <2>2 DEF Shape, OwnerLink
    <2> QED
      BY <2>3, <2>4
  <1>12. CASE UNCHANGED vars
    BY <1>12 DEF ClientLink, OwnerLink, vars, callVars, taskVars, serverVars
  <1> QED
    BY <1>1, <1>2, <1>3, <1>4, <1>5, <1>6, <1>7, <1>8, <1>9, <1>10, <1>11, <1>12
       DEF Next, Runner, Loop, Code, Idle

(* The queries that wait for a client of the pool.                             *)
LEMMA InitWaits == Init => WaitLink
  BY DEF Init, WaitLink

LEMMA NextWaits ==
  ASSUME TypeOK, Links, WaitLink, [Next]_vars
  PROVE  WaitLink'
  <1>1. /\ flow \in [Task -> Flow] /\ query \in [Task -> Write \cup {NoQuery}]
        /\ store \in [Task -> Store] /\ log \in [Write -> Entry]
    BY DEF TypeOK
  <1>2. ASSUME UNCHANGED <<query, log>>,
               \A t \in Task : flow'[t] = "queries" =>
                 flow[t] = "queries" /\ store'[t] = store[t]
        PROVE  WaitLink'
    BY <1>2 DEF WaitLink
  <1>3. ASSUME NEW t \in Task, NEW w \in Write, RunQuery(t, w) \/ RunRawSql(t, w)
        PROVE  WaitLink'
    <2>1. /\ flow[t] = "code" /\ log[w] = Unissued
          /\ \/ Execute(t, w, store[t].client, "builder")
             \/ store[t] = NoStore /\ AskPool(t, w, "builder")
             \/ AskPool(t, w, "raw")
      BY <1>3, QueryIsSent
    <2>2. /\ store' = store
          /\ \A v \in Write : v # w => log'[v] = log[v]
          /\ \A u \in Task : u # t => flow'[u] = flow[u] /\ query'[u] = query[u]
      BY <1>1, <2>1 DEF Execute, AskPool, taskVars
    <2>3. \A u \in Task : flow[u] = "queries" => query[u] # w
      BY <2>1 DEF WaitLink, Unissued
    <2>4. \/ flow'[t] = "code"
          \/ /\ query'[t] = w /\ log'[w].into = NoCall
             /\ \/ log'[w].via = "raw"
                \/ log'[w].via = "builder" /\ store[t] = NoStore
      BY <1>1, <2>1 DEF Execute, AskPool, taskVars, Issued
    <2> QED
      BY <2>2, <2>3, <2>4 DEF WaitLink
  <1>4. ASSUME NEW t \in Task, PoolServes(t) \/ PoolRefuses(t) PROVE WaitLink'
    <2>1. /\ UNCHANGED <<store, log>> /\ flow'[t] = "code"
          /\ \A u \in Task : u # t => flow'[u] = flow[u] /\ query'[u] = query[u]
      BY <1>1, <1>4 DEF PoolServes, PoolRefuses, history
    <2> QED
      BY <2>1 DEF WaitLink
  <1>5. ASSUME NEW t \in Task,
               \/ JoinTransaction(t) \/ LeaveNested(t) \/ QueryFails(t) \/ Finish(t)
               \/ \E x \in Call : StartTransaction(t, x) \/ FuncSettles(t, x)
               \/ \E e \in Effect : AddTransactionSideEffect(t, e)
               \/ \E u \in Task : Spawn(t, u)
        PROVE  WaitLink'
    <2>1. UNCHANGED <<query, log>>
      BY <1>5 DEF JoinTransaction, LeaveNested, QueryFails, Finish, StartTransaction, FuncSettles,
                  AddTransactionSideEffect, Spawn, taskVars, history
    <2>2. flow' = flow \/ flow' = [flow EXCEPT ![t] = "awaits"]
      BY <1>5 DEF JoinTransaction, LeaveNested, QueryFails, Finish, StartTransaction, FuncSettles,
                  AddTransactionSideEffect, Spawn, taskVars
    <2>3. \/ store' = store
          \/ \E u \in Task : \E s : flow[u] = "code" /\ store' = [store EXCEPT ![u] = s]
      BY <1>5 DEF JoinTransaction, LeaveNested, QueryFails, Finish, StartTransaction, FuncSettles,
                  AddTransactionSideEffect, Spawn, taskVars
    <2> QED
      BY <1>1, <1>2, <2>1, <2>2, <2>3
  <1>6. ASSUME NEW x \in Call, Runner(x) \/ Loop(x) PROVE WaitLink'
    <2>1. UNCHANGED <<query, log>>
      BY <1>6 DEF Runner, Loop, RunFunc, BeginFails, CommitSucceeds, CommitVoided,
                  CommitAnswerLost, CommitRefused, RollBack, StartEffect, EffectResolves,
                  EffectRejects, ReturnResult, taskVars, history
    <2>2. flow' = flow \/ flow' = [flow EXCEPT ![owner[x]] = "code"]
      BY <1>6 DEF Runner, Loop, RunFunc, BeginFails, CommitSucceeds, CommitVoided,
                  CommitAnswerLost, CommitRefused, RollBack, StartEffect, EffectResolves,
                  EffectRejects, ReturnResult, RunnerSettles, EnterLoop, Reject, taskVars
    <2>3. \/ store' = store
          \/ stage[x] = "begin" /\ \E s : store' = [store EXCEPT ![owner[x]] = s]
      BY <1>6 DEF Runner, Loop, RunFunc, BeginFails, CommitSucceeds, CommitVoided,
                  CommitAnswerLost, CommitRefused, RollBack, StartEffect, EffectResolves,
                  EffectRejects, ReturnResult, taskVars
    <2>4. stage[x] = "begin" => owner[x] \in Task /\ flow[owner[x]] = "awaits"
      BY DEF TypeOK, Links, OwnerLink, Awaiting
    <2> QED
      BY <1>1, <1>2, <2>1, <2>2, <2>3, <2>4
  <1>7. CASE UNCHANGED vars
    BY <1>2, <1>7 DEF vars, taskVars, history
  <1> QED
    BY <1>3, <1>4, <1>5, <1>6, <1>7 DEF Next, Code, Idle

LEMMA TypesAndLinks == Spec => [](TypeOK /\ Links /\ WaitLink)
  BY InitType, InitLinks, InitWaits, NextType, NextLinks, NextWaits, PTL DEF Spec

(* Every variable keeps its type, on the way to which calls, tasks and clients *)
(* are shown to stay linked one to one: no two calls share a client, no task   *)
(* owns two calls.                                                             *)
THEOREM TypeCorrect == Spec => [](TypeOK /\ Links)
  BY TypesAndLinks, PTL

(* In a block that holds a client only db.sql waits for one: builders go       *)
(* through the manager and nested calls join, so blocks cannot starve each     *)
(* other of the clients of the pool by either.                                 *)
THEOREM OnlyRawSqlHoldsAndWaits == Spec => []NoHoldAndWait
  <1>1. TypeOK /\ Links /\ WaitLink => NoHoldAndWait
    <2> SUFFICES ASSUME TypeOK, Links, WaitLink, NEW t \in Task, NEW x \in Call,
                        client[x] # NoClient, owner[x] = t \/ store[t].call = x
                 PROVE  /\ \A y \in Call : owner[y] = t => stage[y] # "begin"
                        /\ flow[t] = "queries" => log[query[t]].via = "raw"
      BY DEF NoHoldAndWait
    <2>1. stage[x] \in Holding
      BY DEF Links, ClientLink
    <2>2. store[t].call = x => store[t] # NoStore
      BY ConstantsAssumption
    <2>3. ASSUME NEW y \in Call, owner[y] = t, stage[y] = "begin" PROVE FALSE
      <3>1. store[t] = NoStore
        BY <2>3 DEF Links, OwnerLink, Awaiting
      <3>2. y = x
        BY <2>2, <2>3, <3>1, ConstantsAssumption DEF Links, OwnerLink
      <3> QED
        BY <2>1, <2>3, <3>2 DEF Holding
    <2>4. ASSUME flow[t] = "queries", log[query[t]].via # "raw" PROVE FALSE
      <3>1. store[t] = NoStore
        BY <2>4 DEF WaitLink
      <3>2. owner[x] = t
        BY <2>2, <3>1
      <3>3. CASE stage[x] = "func"
        BY <3>1, <3>2, <3>3, FuncStore, TypeShape DEF Links
      <3>4. CASE stage[x] # "func"
        BY <2>1, <2>4, <3>2, <3>4 DEF Links, OwnerLink, Awaiting, Holding
      <3> QED
        BY <3>3, <3>4
    <2> QED
      BY <2>3, <2>4
  <1> QED
    BY <1>1, TypesAndLinks, PTL

--------------------------------------------------------------------------------
(* The stores of tasks.                                                        *)

LEMMA InitStoreLink == Init => StoreLink
  BY DEF Init, StoreLink

LEMMA NextStoreLink ==
  ASSUME TypeOK, Links, StoreLink, [Next]_vars
  PROVE  StoreLink'
  <1>1. /\ store \in [Task -> Store]
        /\ attempt \in [Call -> Nat]
        /\ client \in [Call -> Client \cup {NoClient}]
        /\ NoCall \notin Call /\ NoClient \notin Client
        /\ \A t \in Task : store[t] # NoStore => store[t].call \in Call
    BY StoreFields, ConstantsAssumption DEF TypeOK
  <1>2. ASSUME UNCHANGED <<attempt, client>>,
               \A t \in Task : store'[t] # NoStore => \E u \in Task : store'[t] = store[u]
        PROVE  StoreLink'
    <2> SUFFICES ASSUME NEW t \in Task, store'[t] # NoStore
                 PROVE  LET s == store'[t]
                        IN  /\ s.attempt \in 1 .. attempt'[s.call]
                            /\ s.attempt = attempt'[s.call] /\ client'[s.call] # NoClient
                                 => s.client = client'[s.call]
      BY DEF StoreLink
    <2>1. PICK u \in Task : store'[t] = store[u]
      BY <1>2
    <2> QED
      BY <2>1, <1>2 DEF StoreLink
  <1>3. ASSUME NEW t \in Task, Code(t) PROVE StoreLink'
    <2>1. UNCHANGED <<attempt, client>>
      BY <1>3 DEF Code, JoinTransaction, LeaveNested, StartTransaction, FuncSettles, RunQuery,
                  RunRawSql, Query, Execute, AskPool, PoolServes, PoolRefuses, QueryFails,
                  AddTransactionSideEffect, Spawn, Finish, callVars
    <2>2. \/ store' = store
          \/ store' = [store EXCEPT ![t] = NoStore]
          \/ \E u \in Task : store' = [store EXCEPT ![u] = store[t]]
      BY <1>3 DEF Code, JoinTransaction, LeaveNested, StartTransaction, FuncSettles, RunQuery,
                  RunRawSql, Query, Execute, AskPool, PoolServes, PoolRefuses, QueryFails,
                  AddTransactionSideEffect, Spawn, Finish, taskVars
    <2>3. \A v \in Task : store'[v] # NoStore => \E u \in Task : store'[v] = store[u]
      BY <1>1, <2>2
    <2> QED
      BY <2>1, <2>3, <1>2
  <1>4. ASSUME NEW x \in Call, NEW c \in Client, RunFunc(x, c) PROVE StoreLink'
    <2> DEFINE new == [call |-> x, client |-> c, attempt |-> attempt[x] + 1]
    <2>1. /\ attempt' = [attempt EXCEPT ![x] = attempt[x] + 1]
          /\ client' = [client EXCEPT ![x] = c]
          /\ store' = [store EXCEPT ![owner[x]] = new]
      BY <1>4 DEF RunFunc
    <2> SUFFICES ASSUME NEW t \in Task, store'[t] # NoStore
                 PROVE  LET s == store'[t]
                        IN  /\ s.attempt \in 1 .. attempt'[s.call]
                            /\ s.attempt = attempt'[s.call] /\ client'[s.call] # NoClient
                                 => s.client = client'[s.call]
      BY DEF StoreLink
    <2>2. CASE t = owner[x]
      <3>1. store'[t] = new /\ attempt'[x] = attempt[x] + 1 /\ client'[x] = c
        BY <1>1, <2>1, <2>2
      <3> QED
        BY <3>1, <1>1
    <2>3. CASE t # owner[x]
      <3>1. store'[t] = store[t] /\ store[t].call \in Call
        BY <1>1, <2>1, <2>3
      <3>2. store[t].attempt \in 1 .. attempt[store[t].call]
        BY <3>1 DEF StoreLink
      <3>3. CASE store[t].call = x
        BY <3>1, <3>2, <3>3, <1>1, <2>1
      <3>4. CASE store[t].call # x
        BY <3>1, <3>2, <3>4, <1>1, <2>1 DEF StoreLink
      <3> QED
        BY <3>3, <3>4
    <2> QED
      BY <2>2, <2>3
  <1>5. ASSUME NEW x \in Call, Release(x), UNCHANGED <<attempt, store>> PROVE StoreLink'
    <2>1. client' = [client EXCEPT ![x] = NoClient]
      BY <1>5 DEF Release
    <2> QED
      BY <1>1, <1>5, <2>1 DEF StoreLink
  <1>6. ASSUME NEW x \in Call, Runner(x) \/ Loop(x) PROVE StoreLink'
    <2>1. \/ \E c \in Client : RunFunc(x, c)
          \/ Release(x) /\ UNCHANGED <<attempt, store>>
          \/ UNCHANGED <<attempt, client, store>>
      BY <1>6 DEF Runner, Loop, BeginFails, CommitSucceeds, CommitVoided, CommitAnswerLost,
                  CommitRefused, RollBack, StartEffect, EffectResolves, EffectRejects,
                  ReturnResult, taskVars
    <2> QED
      BY <2>1, <1>2, <1>4, <1>5
  <1>7. CASE UNCHANGED vars
    BY <1>2, <1>7 DEF vars, callVars, taskVars
  <1> QED
    BY <1>3, <1>6, <1>7 DEF Next, Idle

(* A store outlives its func in a promise that func left running, and in those *)
(* it starts.                                                                  *)
LEMMA InitOutlived == Init => OutlivedLink
  BY DEF Init, OutlivedLink

LEMMA NextOutlived ==
  ASSUME TypeOK, Links, StoreLink, OutlivedLink, [Next]_vars
  PROVE  OutlivedLink'
  <1>1. /\ store \in [Task -> Store]
        /\ stage \in [Call -> Stage]
        /\ attempt \in [Call -> Nat]
        /\ NoCall \notin Call
        /\ \A t \in Task : store[t] # NoStore => store[t].call \in Call
    BY StoreFields, ConstantsAssumption DEF TypeOK
  <1>2. \A t \in Task :
          /\ store[t] = NoStore => t \notin outlived
          /\ store[t] # NoStore =>
               (stage[store[t].call] = "func" /\ attempt[store[t].call] = store[t].attempt
                  <=> t \notin outlived)
    BY DEF OutlivedLink, Live
  <1>3. ASSUME \A t \in Task :
                 /\ store'[t] = NoStore => t \notin outlived'
                 /\ store'[t] # NoStore =>
                      (stage'[store'[t].call] = "func"
                         /\ attempt'[store'[t].call] = store'[t].attempt
                       <=> t \notin outlived')
        PROVE  OutlivedLink'
    BY <1>3 DEF OutlivedLink, Live
  <1>4. ASSUME NEW t \in Task, NEW x \in Call, FuncSettles(t, x) PROVE OutlivedLink'
    <2>1. /\ store' = [store EXCEPT ![t] = NoStore] /\ attempt' = attempt
          /\ stage[x] = "func" /\ owner[x] = t
          /\ \E s \in {"commit", "rollback"} : stage' = [stage EXCEPT ![x] = s]
          /\ outlived' = outlived \cup Leftover(t, x)
      BY <1>4 DEF FuncSettles, RunsFunc
    <2>2. store[t].call = x /\ store[t] # NoStore /\ store[t].attempt = attempt[x]
      <3>1. store[t] = [call |-> x, client |-> client[x], attempt |-> attempt[x]]
        BY <2>1 DEF Links, OwnerLink
      <3>2. store[t].call = x /\ store[t].attempt = attempt[x]
        BY <3>1
      <3> QED
        BY <1>1, <3>2
    <2>3. t \notin outlived'
      BY <1>2, <2>1, <2>2 DEF Leftover
    <2>4. \A u \in Task : u # t =>
            (u \in outlived' <=> u \in outlived \/ store[u].call = x)
      BY <2>1 DEF Leftover
    <2>5. store'[t] = NoStore /\ \A u \in Task : u # t => store'[u] = store[u]
      BY <1>1, <2>1
    <2>6. stage'[x] # "func" /\ \A y \in Call : y # x => stage'[y] = stage[y]
      BY <1>1, <2>1
    <2> QED
      BY <1>1, <1>2, <1>3, <2>1, <2>3, <2>4, <2>5, <2>6
  <1>5. ASSUME NEW t \in Task, NEW u \in Task, Spawn(t, u) PROVE OutlivedLink'
    <2>1. /\ store[t] # NoStore /\ store[u] = NoStore
          /\ store'[u] = store[t] /\ \A v \in Task : v # u => store'[v] = store[v]
          /\ outlived' = IF t \in outlived THEN outlived \cup {u} ELSE outlived
          /\ UNCHANGED <<stage, attempt>>
      BY <1>1, <1>5 DEF Spawn, callVars
    <2> QED
      BY <1>2, <1>3, <2>1
  <1>6. ASSUME NEW t \in Task, Finish(t) PROVE OutlivedLink'
    <2>1. /\ store'[t] = NoStore /\ \A v \in Task : v # t => store'[v] = store[v]
          /\ outlived' = outlived \ {t}
          /\ UNCHANGED <<stage, attempt>>
      BY <1>1, <1>6 DEF Finish, callVars
    <2> QED
      BY <1>2, <1>3, <2>1
  <1>7. ASSUME UNCHANGED <<store, attempt, outlived>>,
               \/ stage' = stage
               \/ \E x \in Call, s \in Stage \ {"func"} :
                    stage[x] # "func" /\ stage' = [stage EXCEPT ![x] = s]
        PROVE  OutlivedLink'
    <2>1. \A y \in Call : stage'[y] = "func" <=> stage[y] = "func"
      BY <1>1, <1>7
    <2> QED
      BY <1>1, <1>2, <1>3, <1>7, <2>1
  <1>8. ASSUME NEW t \in Task,
               \/ JoinTransaction(t) \/ LeaveNested(t) \/ QueryFails(t)
               \/ \E w \in Write : RunQuery(t, w) \/ RunRawSql(t, w)
               \/ PoolServes(t) \/ PoolRefuses(t)
               \/ \E e \in Effect : AddTransactionSideEffect(t, e)
               \/ \E x \in Call : StartTransaction(t, x)
        PROVE  OutlivedLink'
    <2>1. UNCHANGED <<store, attempt, outlived>>
      BY <1>8 DEF JoinTransaction, LeaveNested, QueryFails, RunQuery, RunRawSql, Query,
                  Execute, AskPool, PoolServes, PoolRefuses, AddTransactionSideEffect,
                  StartTransaction, callVars, taskVars, history
    <2>2. \/ stage' = stage
          \/ \E x \in Call : stage[x] = "unused" /\ stage' = [stage EXCEPT ![x] = "begin"]
      BY <1>8 DEF JoinTransaction, LeaveNested, QueryFails, RunQuery, RunRawSql, Query,
                  Execute, AskPool, PoolServes, PoolRefuses, AddTransactionSideEffect,
                  StartTransaction, callVars
    <2> QED
      BY <1>7, <2>1, <2>2 DEF Stage
  <1>9. ASSUME NEW x \in Call, NEW c \in Client, RunFunc(x, c) PROVE OutlivedLink'
    <2> DEFINE o == owner[x]
    <2>1. /\ stage[x] = "begin" /\ stage' = [stage EXCEPT ![x] = "func"]
          /\ attempt' = [attempt EXCEPT ![x] = attempt[x] + 1]
          /\ store' = [store EXCEPT ![o] =
                         [call |-> x, client |-> c, attempt |-> attempt[x] + 1]]
          /\ outlived' = outlived
      BY <1>9 DEF RunFunc, history
    <2>2. o \in Task /\ store[o] = NoStore
      BY <2>1 DEF TypeOK, Links, OwnerLink, Awaiting
    <2>3. /\ store'[o].call = x /\ store'[o].attempt = attempt[x] + 1
          /\ stage'[x] = "func" /\ attempt'[x] = attempt[x] + 1 /\ o \notin outlived'
      BY <1>1, <1>2, <2>1, <2>2
    <2>4. ASSUME NEW t \in Task, t # o
          PROVE  /\ store'[t] = NoStore => t \notin outlived'
                 /\ store'[t] # NoStore =>
                      (stage'[store'[t].call] = "func"
                         /\ attempt'[store'[t].call] = store'[t].attempt
                       <=> t \notin outlived')
      <3>1. store'[t] = store[t]
        BY <1>1, <2>1, <2>4
      <3>2. CASE store[t] = NoStore
        BY <1>2, <2>1, <3>1, <3>2
      <3>3. CASE store[t] # NoStore
        <4>1. store[t].attempt \in 1 .. attempt[store[t].call] /\ store[t].call \in Call
          BY <1>1, <3>3 DEF StoreLink
        <4>2. CASE store[t].call = x
          BY <1>1, <1>2, <2>1, <2>3, <3>1, <3>3, <4>1, <4>2
        <4>3. CASE store[t].call # x
          BY <1>1, <1>2, <2>1, <3>1, <3>3, <4>1, <4>3
        <4> QED
          BY <4>2, <4>3
      <3> QED
        BY <3>2, <3>3
    <2>5. store'[o] # NoStore
      BY <1>1, <2>3
    <2> QED
      BY <1>3, <2>3, <2>4, <2>5
  <1>10. ASSUME NEW x \in Call, Runner(x) \/ Loop(x), ~ \E c \in Client : RunFunc(x, c)
         PROVE  OutlivedLink'
    <2>1. UNCHANGED <<attempt, store, outlived>> /\ stage[x] # "func"
      BY <1>10 DEF Runner, Loop, BeginFails, CommitSucceeds, CommitVoided, CommitAnswerLost,
                   CommitRefused, RollBack, StartEffect, EffectResolves, EffectRejects,
                   ReturnResult, taskVars, history
    <2>2. \E s \in Stage \ {"func"} : stage' = [stage EXCEPT ![x] = s]
      BY <1>10 DEF Runner, Loop, BeginFails, CommitSucceeds, CommitVoided, CommitAnswerLost,
                   CommitRefused, RollBack, StartEffect, EffectResolves, EffectRejects,
                   ReturnResult, RunnerSettles, EnterLoop, Reject, Stage
    <2> QED
      BY <1>7, <2>1, <2>2
  <1>11. CASE UNCHANGED vars
    BY <1>7, <1>11 DEF vars, callVars, taskVars, history
  <1> QED
    BY <1>4, <1>5, <1>6, <1>8, <1>9, <1>10, <1>11 DEF Next, Runner, Code, Idle

--------------------------------------------------------------------------------
(* Where writes go.                                                            *)

LEMMA InitWrites == Init => WriteLink /\ QueryLink
  <1> SUFFICES ASSUME Init PROVE WriteLink /\ QueryLink
    OBVIOUS
  <1>1. \A w \in Write : log[w].into = NoCall /\ log[w].via = "none"
    BY DEF Init, Unissued
  <1>2. WriteLink
    BY <1>1 DEF Init, WriteLink
  <1>3. QueryLink
    BY <1>1 DEF QueryLink
  <1> QED
    BY <1>2, <1>3

(* Only builders and db.sql write to the history.                              *)
LEMMA LogStays ==
  ASSUME [Next]_vars, ~ \E t \in Task, w \in Write : RunQuery(t, w) \/ RunRawSql(t, w)
  PROVE  UNCHANGED log
  BY DEF Next, Code, Runner, Loop, Idle, vars, history, JoinTransaction, LeaveNested,
         StartTransaction, FuncSettles, PoolServes, PoolRefuses, QueryFails,
         AddTransactionSideEffect, Spawn, Finish, RunFunc, BeginFails, CommitSucceeds,
         CommitVoided, CommitAnswerLost, CommitRefused, RollBack, StartEffect, EffectResolves,
         EffectRejects, ReturnResult

LEMMA NextQueryLink ==
  ASSUME TypeOK, Links, StoreLink, QueryLink, [Next]_vars
  PROVE  QueryLink'
  <1>1. ASSUME NEW t \in Task, NEW w \in Write, store[t].client \in Client,
               Execute(t, w, store[t].client, "builder")
        PROVE  QueryLink'
    <2> DEFINE s == store[t]
    <2>1. s # NoStore => s.call \in Call /\ s.client \in Client
      BY StoreFields
    <2>2. log' = [log EXCEPT ![w] = Issued(t, "builder", holder[s.client])]
      BY <1>1 DEF Execute
    <2>3. /\ \A v \in Write : v # w => log'[v] = log[v]
          /\ log'[w].by = s
          /\ log'[w].live = Live(s)
          /\ log'[w].into = holder[s.client]
          /\ log'[w].into # NoCall => log'[w].attempt = attempt[log'[w].into]
      BY <2>2 DEF TypeOK, Issued
    <2>4. ASSUME Live(s)
          PROVE  /\ s # NoStore
                 /\ log'[w].into = s.call
                 /\ log'[w].attempt = s.attempt
      <3>1. s # NoStore /\ stage[s.call] = "func" /\ attempt[s.call] = s.attempt
        BY <2>4 DEF Live
      <3>2. s.call \in Call /\ s.client \in Client
        BY <2>1, <3>1
      <3>3. client[s.call] # NoClient /\ holder[client[s.call]] = s.call
        BY <3>1, <3>2 DEF Links, ClientLink, Holding
      <3>4. s.client = client[s.call]
        BY <3>1, <3>3 DEF StoreLink
      <3>5. s.call # NoCall
        BY <3>2, ConstantsAssumption
      <3> QED
        BY <2>3, <3>1, <3>3, <3>4, <3>5
    <2> QED
      BY <2>3, <2>4 DEF QueryLink
  <1>2. ASSUME NEW t \in Task, NEW w \in Write, NEW via, AskPool(t, w, via),
               via = "raw" \/ store[t] = NoStore
        PROVE  QueryLink'
    <2>1. log' = [log EXCEPT ![w] = Issued(t, via, NoCall)]
      BY <1>2 DEF AskPool
    <2>2. /\ \A v \in Write : v # w => log'[v] = log[v]
          /\ log'[w].via = via /\ log'[w].live = Live(store[t])
      BY <2>1 DEF TypeOK, Issued
    <2>3. log'[w].via = "raw" \/ ~ log'[w].live
      BY <1>2, <2>2 DEF Live
    <2> QED
      BY <2>2, <2>3 DEF QueryLink
  <1>3. CASE UNCHANGED log
    BY <1>3 DEF QueryLink
  <1>4. ASSUME NEW t \in Task, NEW w \in Write, RunQuery(t, w) \/ RunRawSql(t, w)
        PROVE  QueryLink'
    BY <1>1, <1>2, <1>4, QueryIsSent
  <1> QED
    BY <1>3, <1>4, LogStays

Over == {"loop", "effect", "done"}   \* stages of a call the runner has settled

(* The part of TypeOK that is about writes.                                    *)
WriteShape ==
  /\ stage \in [Call -> Stage]
  /\ attempt \in [Call -> Nat]
  /\ client \in [Call -> Client \cup {NoClient}]
  /\ fate \in [Call -> Fate]
  /\ holder \in [Client -> Call \cup {NoCall}]
  /\ pending \in [Client -> SUBSET Write]
  /\ committed \subseteq Write
  /\ \A w \in Write : log[w].into \in Call \cup {NoCall} /\ log[w].attempt \in Nat
  /\ NoCall \notin Call /\ NoClient \notin Client

LEMMA TypeWriteShape == TypeOK => WriteShape
  BY ConstantsAssumption DEF TypeOK, WriteShape, Entry

(* A statement is executed.                                                    *)
LEMMA ExecuteKeepsWrites ==
  ASSUME TypeOK, Links, WriteLink, NEW t \in Task, NEW w \in Write,
         NEW c \in Client, NEW via \in {"builder", "raw"},
         log[w] = Unissued, Execute(t, w, c, via)
  PROVE  WriteLink'
  <1> DEFINE into == holder[c]
  <1>s. WriteShape
    BY TypeWriteShape
  <1>0. UNCHANGED <<stage, attempt, client, fate, holder>>
    BY DEF Execute, callVars
  <1>1. /\ \A v \in Write : v # w => log'[v] = log[v]
        /\ log'[w].via = via
        /\ log'[w].into = into
        /\ into # NoCall => log'[w].attempt = attempt[into]
    BY DEF TypeOK, Issued, Execute
  <1>2. w \notin committed /\ \A d \in Client : w \notin pending[d]
    <2>1. log[w].into = NoCall
      BY DEF Unissued
    <2> QED
      BY <2>1 DEF WriteLink
  <1>3. log'[w] # Unissued
    BY <1>1 DEF Unissued
  <1>4. CASE into = NoCall
    <2>1. committed' = committed \cup {w} /\ pending' = pending
      BY <1>4 DEF Execute
    <2>2. log'[w].into = NoCall
      BY <1>1, <1>4
    <2> QED
      BY <1>s, <1>0, <1>1, <1>2, <1>3, <2>1, <2>2 DEF WriteLink, WriteShape
  <1>5. CASE into # NoCall
    <2>1. into \in Call
      BY <1>5, <1>s DEF WriteShape
    <2>2. committed' = committed /\ pending' = [pending EXCEPT ![c] = @ \cup {w}]
      BY <1>5 DEF Execute
    <2>3. client[into] = c /\ stage[into] \in Holding
      BY <2>1, <1>s DEF Links, ClientLink, WriteShape
    <2>4. fate[into] # "committed"
      BY <2>1, <2>3 DEF WriteLink, Holding
    <2>5. attempt[into] \in 1 .. attempt[into]
      <3>1. attempt[into] > 0
        BY <1>s, <2>1, <2>3 DEF WriteLink, WriteShape
      <3> QED
        BY <1>s, <2>1, <3>1 DEF WriteShape
    <2>6. \A d \in Client : d # c => pending'[d] = pending[d]
      BY <1>s, <2>2 DEF WriteShape
    <2>7. pending'[c] = pending[c] \cup {w}
      BY <1>s, <2>1, <2>2 DEF WriteShape
    <2> QED
      BY <1>s, <1>0, <1>1, <1>2, <1>3, <1>5, <2>1, <2>2, <2>3, <2>4, <2>5, <2>6, <2>7
         DEF WriteLink, WriteShape
  <1> QED
    BY <1>4, <1>5

(* A statement waits for the pool: it is in no transaction and not durable.    *)
LEMMA AskPoolKeepsWrites ==
  ASSUME TypeOK, WriteLink, NEW t \in Task, NEW w \in Write,
         NEW via \in {"builder", "raw"}, log[w] = Unissued, AskPool(t, w, via)
  PROVE  WriteLink'
  <1>1. /\ \A v \in Write : v # w => log'[v] = log[v]
        /\ log'[w].via = via /\ log'[w].into = NoCall
    BY DEF TypeOK, Issued, AskPool
  <1>2. UNCHANGED <<stage, attempt, client, fate, holder, pending, committed>>
    BY DEF AskPool, callVars, serverVars
  <1>3. log[w].into = NoCall
    BY DEF Unissued
  <1>4. log'[w] # Unissued
    BY <1>1 DEF Unissued
  <1> QED
    BY <1>1, <1>2, <1>3, <1>4 DEF WriteLink

(* The pool serves it: it is durable at once, in no transaction.               *)
LEMMA PoolServesKeepsWrites ==
  ASSUME WaitLink, WriteLink, NEW t \in Task, PoolServes(t)
  PROVE  WriteLink'
  <1>1. /\ log[query[t]].via # "none" /\ log[query[t]].into = NoCall
        /\ committed' = committed \cup {query[t]}
        /\ UNCHANGED <<stage, attempt, client, fate, holder, pending, log>>
    BY DEF WaitLink, PoolServes, callVars, history
  <1>2. log[query[t]] # Unissued
    BY <1>1 DEF Unissued
  <1> QED
    BY <1>1, <1>2 DEF WriteLink

(* The callback begins an attempt: none of the writes known is of it.          *)
LEMMA RunFuncKeepsWrites ==
  ASSUME TypeOK, Links, WriteLink, NEW x \in Call, NEW c \in Client, RunFunc(x, c)
  PROVE  WriteLink'
  <1>1. WriteShape
    BY TypeWriteShape
  <1>2. /\ stage[x] = "begin" /\ stage' = [stage EXCEPT ![x] = "func"]
        /\ attempt' = [attempt EXCEPT ![x] = @ + 1]
        /\ client' = [client EXCEPT ![x] = c]
        /\ holder[c] = NoCall /\ holder' = [holder EXCEPT ![c] = x]
        /\ UNCHANGED <<fate, pending, committed, log>>
    BY DEF RunFunc, history
  <1>3. fate[x] # "committed"
    BY <1>2 DEF WriteLink
  <1>4. attempt'[x] = attempt[x] + 1 /\ \A y \in Call : y # x =>
          attempt'[y] = attempt[y] /\ client'[y] = client[y] /\ stage'[y] = stage[y]
    BY <1>1, <1>2 DEF WriteShape
  <1>5. \A w \in Write : log[w].into = NoCall => \A d \in Client : w \notin pending[d]
    BY DEF WriteLink
  <1>6. ASSUME NEW w \in Write, log[w].into # NoCall
        PROVE  /\ log[w].attempt \in 1 .. attempt'[log[w].into]
               /\ w \in committed <=> /\ fate[log[w].into] = "committed"
                                      /\ log[w].attempt = attempt'[log[w].into]
               /\ log[w].attempt = attempt'[log[w].into] /\ client'[log[w].into] # NoClient
                    => w \in pending[client'[log[w].into]]
               /\ \A d \in Client : w \in pending[d] =>
                    holder'[d] = log[w].into /\ log[w].attempt = attempt'[log[w].into]
    <2>1. /\ log[w].into \in Call /\ log[w].attempt \in Nat
          /\ log[w].attempt \in 1 .. attempt[log[w].into]
          /\ w \in committed <=> /\ fate[log[w].into] = "committed"
                                 /\ log[w].attempt = attempt[log[w].into]
          /\ \A d \in Client : w \in pending[d] =>
               holder[d] = log[w].into /\ log[w].attempt = attempt[log[w].into]
      BY <1>1, <1>6 DEF WriteLink, WriteShape
    <2>2. \A d \in Client : w \in pending[d] => d # c /\ log[w].into # x
      <3>1. \A d \in Client : w \in pending[d] => d # c
        BY <1>2, <1>6, <2>1
      <3>2. client[x] = NoClient
        BY <1>2 DEF Links, ClientLink, Holding
      <3> QED
        BY <1>1, <1>6, <2>1, <3>1, <3>2 DEF Links, ClientLink, WriteShape
    <2>3. CASE log[w].into = x
      <3>1. log[w].attempt # attempt'[x] /\ log[w].attempt \in 1 .. attempt'[x]
        BY <1>1, <1>4, <2>1, <2>3 DEF WriteShape
      <3> QED
        BY <1>3, <2>1, <2>2, <2>3, <3>1
    <2>4. CASE log[w].into # x
      <3>1. holder'[client[log[w].into]] = holder[client[log[w].into]]
            \/ client[log[w].into] = NoClient \/ client[log[w].into] = c
        BY <1>1, <1>2, <2>1 DEF WriteShape
      <3>2. \A d \in Client : d # c => holder'[d] = holder[d]
        BY <1>1, <1>2 DEF WriteShape
      <3> QED
        BY <1>4, <1>6, <2>1, <2>2, <2>4, <3>2 DEF WriteLink
    <2> QED
      BY <2>3, <2>4
  <1>7. \A y \in Call : client'[y] # NoClient => attempt'[y] > 0
    BY <1>1, <1>4 DEF WriteLink, WriteShape
  <1>8. \A y \in Call : fate'[y] = "committed" => stage'[y] \in {"loop", "effect", "done"}
    BY <1>2, <1>3, <1>4 DEF WriteLink
  <1> QED
    BY <1>2, <1>5, <1>6, <1>7, <1>8 DEF WriteLink

(* An attempt ends: its writes are committed all together, or forgotten.       *)
LEMMA EndKeepsWrites ==
  ASSUME TypeOK, Links, WriteLink, NEW x \in Call, stage[x] \in {"commit", "rollback"},
         Release(x), UNCHANGED <<attempt, log>>,
         NEW end \in {"committed", "voided", "rolledback"},
         fate' = [fate EXCEPT ![x] = end],
         committed' = IF end = "committed" THEN committed \cup pending[client[x]]
                                           ELSE committed,
         \A y \in Call : y # x => stage'[y] = stage[y],
         end = "committed" => stage'[x] \in Over
  PROVE  WriteLink'
  <1>1. WriteShape
    BY TypeWriteShape
  <1>2. client[x] \in Client /\ holder[client[x]] = x /\ fate[x] # "committed"
    BY <1>1 DEF Links, ClientLink, Holding, WriteLink, WriteShape
  <1>3. /\ client'[x] = NoClient
        /\ \A y \in Call : y # x => client'[y] = client[y] /\ fate'[y] = fate[y]
        /\ fate'[x] = end
    BY <1>1 DEF Release, WriteShape
  <1>4. /\ pending'[client[x]] = {} /\ holder'[client[x]] = NoCall
        /\ \A d \in Client : d # client[x] =>
             pending'[d] = pending[d] /\ holder'[d] = holder[d]
    BY <1>1, <1>2 DEF Release, WriteShape
  <1>5. \A w \in Write : log[w].into = NoCall => \A d \in Client : w \notin pending'[d]
    BY <1>4 DEF WriteLink
  <1>6. \A w \in Write : log[w] = Unissued => w \notin committed'
    BY <1>2 DEF WriteLink, Unissued
  <1>7. ASSUME NEW w \in Write, log[w].into # NoCall
        PROVE  /\ log[w].attempt \in 1 .. attempt[log[w].into]
               /\ w \in committed' <=> /\ fate'[log[w].into] = "committed"
                                       /\ log[w].attempt = attempt[log[w].into]
               /\ log[w].attempt = attempt[log[w].into] /\ client'[log[w].into] # NoClient
                    => w \in pending'[client'[log[w].into]]
               /\ \A d \in Client : w \in pending'[d] =>
                    holder'[d] = log[w].into /\ log[w].attempt = attempt[log[w].into]
    <2>1. /\ log[w].into \in Call
          /\ log[w].attempt \in 1 .. attempt[log[w].into]
          /\ w \in committed <=> /\ fate[log[w].into] = "committed"
                                 /\ log[w].attempt = attempt[log[w].into]
          /\ log[w].attempt = attempt[log[w].into] /\ client[log[w].into] # NoClient
               => w \in pending[client[log[w].into]]
          /\ \A d \in Client : w \in pending[d] =>
               holder[d] = log[w].into /\ log[w].attempt = attempt[log[w].into]
      BY <1>1, <1>7 DEF WriteLink, WriteShape
    <2>2. CASE log[w].into = x
      <3>1. client[x] # NoClient
        BY <1>1, <1>2 DEF WriteShape
      <3>2. w \in pending[client[x]] <=> log[w].attempt = attempt[x]
        BY <1>2, <2>1, <2>2, <3>1
      <3> QED
        BY <1>2, <1>3, <1>4, <2>1, <2>2, <3>2
    <2>3. CASE log[w].into # x
      <3>1. w \notin pending[client[x]]
        BY <1>2, <2>1, <2>3
      <3>2. client[log[w].into] # client[x] \/ client[log[w].into] = NoClient
        BY <1>1, <1>2, <2>1, <2>3 DEF Links, ClientLink, WriteShape
      <3>3. client[log[w].into] \in Client \cup {NoClient}
        BY <1>1, <2>1 DEF WriteShape
      <3> QED
        BY <1>3, <1>4, <2>1, <2>3, <3>1, <3>2, <3>3
    <2> QED
      BY <2>2, <2>3
  <1>8. \A y \in Call : client'[y] # NoClient => attempt'[y] > 0
    BY <1>3 DEF WriteLink
  <1>9. \A y \in Call : fate'[y] = "committed" => stage'[y] \in {"loop", "effect", "done"}
    BY <1>3 DEF WriteLink, Over
  <1> QED
    BY <1>5, <1>6, <1>7, <1>8, <1>9 DEF WriteLink

(* A step that leaves the server and the history alone.                        *)
LEMMA OtherStepsKeepWrites ==
  ASSUME WriteLink, UNCHANGED <<attempt, client, fate, holder, pending, committed, log>>,
         \A y \in Call : fate[y] = "committed" => stage'[y] \in Over
  PROVE  WriteLink'
  BY DEF WriteLink, Over

LEMMA NextWriteLink ==
  ASSUME TypeOK, Links, WaitLink, WriteLink, [Next]_vars
  PROVE  WriteLink'
  <1>1. ASSUME NEW t \in Task, NEW w \in Write, RunQuery(t, w) \/ RunRawSql(t, w)
        PROVE  WriteLink'
    BY <1>1, QueryIsSent, ExecuteKeepsWrites, AskPoolKeepsWrites
  <1>2. ASSUME NEW x \in Call, NEW c \in Client, RunFunc(x, c) PROVE WriteLink'
    BY <1>2, RunFuncKeepsWrites
  <1>3. ASSUME NEW x \in Call,
               CommitSucceeds(x) \/ CommitVoided(x) \/ CommitAnswerLost(x) \/ RollBack(x)
        PROVE  WriteLink'
    <2>1. stage[x] \in {"commit", "rollback"} /\ Release(x) /\ UNCHANGED <<attempt, log>>
      BY <1>3 DEF CommitSucceeds, CommitVoided, CommitAnswerLost, RollBack, history
    <2>2. \/ EnterLoop(x)
          \/ Reject(x)
          \/ RollBack(x) /\ stage' = [stage EXCEPT ![x] = "begin"]
      BY <1>3 DEF CommitSucceeds, CommitVoided, CommitAnswerLost, RollBack, RunnerSettles
    <2>3. /\ \A y \in Call : y # x => stage'[y] = stage[y]
          /\ stage'[x] \in Over \/ RollBack(x)
      <3>1. \/ stage' = [stage EXCEPT ![x] = "loop"]
            \/ stage' = [stage EXCEPT ![x] = "done"]
            \/ RollBack(x) /\ stage' = [stage EXCEPT ![x] = "begin"]
        BY <2>2 DEF EnterLoop, Reject
      <3> QED
        BY <3>1, TypeWriteShape DEF WriteShape, Over
    <2>4. CASE CommitSucceeds(x) \/ CommitAnswerLost(x)
      <3>1. /\ fate' = [fate EXCEPT ![x] = "committed"]
            /\ committed' = committed \cup pending[client[x]]
            /\ stage[x] = "commit"
        BY <2>4 DEF CommitSucceeds, CommitAnswerLost
      <3>2. stage'[x] \in Over
        BY <3>1, <2>3 DEF RollBack
      <3> QED
        BY <2>1, <2>3, <3>1, <3>2, EndKeepsWrites
    <2>5. CASE CommitVoided(x)
      <3>1. fate' = [fate EXCEPT ![x] = "voided"] /\ committed' = committed
        BY <2>5 DEF CommitVoided
      <3> QED
        BY <2>1, <2>3, <3>1, EndKeepsWrites
    <2>6. CASE RollBack(x)
      <3>1. fate' = [fate EXCEPT ![x] = "rolledback"] /\ committed' = committed
        BY <2>6 DEF RollBack
      <3> QED
        BY <2>1, <2>3, <3>1, EndKeepsWrites
    <2> QED
      BY <1>3, <2>4, <2>5, <2>6
  <1>4. ASSUME NEW x \in Call,
               \/ BeginFails(x) \/ CommitRefused(x)
               \/ StartEffect(x) \/ EffectResolves(x) \/ EffectRejects(x) \/ ReturnResult(x)
        PROVE  WriteLink'
    <2>1. UNCHANGED <<attempt, client, fate, holder, pending, committed, log>>
      BY <1>4 DEF BeginFails, CommitRefused, StartEffect, EffectResolves, EffectRejects,
                  ReturnResult, serverVars, history
    <2>2. \/ stage[x] = "begin"
          \/ stage[x] = "commit"
          \/ \E s \in Over : stage' = [stage EXCEPT ![x] = s]
      BY <1>4 DEF BeginFails, CommitRefused, StartEffect, EffectResolves, EffectRejects,
                  ReturnResult, Reject, Over
    <2>3. \E s \in Stage : stage' = [stage EXCEPT ![x] = s]
      BY <1>4 DEF BeginFails, CommitRefused, StartEffect, EffectResolves, EffectRejects,
                  ReturnResult, Reject, Stage
    <2>4. stage[x] \in {"begin", "commit"} => fate[x] # "committed"
      BY DEF WriteLink
    <2>5. \A y \in Call : fate[y] = "committed" => stage'[y] \in Over
      BY <2>2, <2>3, <2>4, TypeWriteShape DEF WriteLink, WriteShape, Over
    <2> QED
      BY <2>1, <2>5, OtherStepsKeepWrites
  <1>5. ASSUME NEW t \in Task, NEW x \in Call, StartTransaction(t, x) \/ FuncSettles(t, x)
        PROVE  WriteLink'
    <2>1. UNCHANGED <<attempt, client, fate, holder, pending, committed, log>>
      BY <1>5 DEF StartTransaction, FuncSettles, serverVars, history
    <2>2. /\ stage[x] \in {"unused", "func"}
          /\ \E s \in Stage : stage' = [stage EXCEPT ![x] = s]
      BY <1>5 DEF StartTransaction, FuncSettles, RunsFunc, Stage
    <2>3. \A y \in Call : fate[y] = "committed" => stage'[y] \in Over
      BY <2>2, TypeWriteShape DEF WriteLink, WriteShape, Over
    <2> QED
      BY <2>1, <2>3, OtherStepsKeepWrites
  <1>6. CASE UNCHANGED <<stage, attempt, client, fate, holder, pending, committed, log>>
    BY <1>6, OtherStepsKeepWrites DEF WriteLink, Over
  <1>7. ASSUME NEW t \in Task,
               \/ JoinTransaction(t) \/ LeaveNested(t) \/ QueryFails(t) \/ Finish(t)
               \/ PoolRefuses(t)
               \/ \E e \in Effect : AddTransactionSideEffect(t, e)
               \/ \E u \in Task : Spawn(t, u)
        PROVE  WriteLink'
    BY <1>6, <1>7 DEF JoinTransaction, LeaveNested, QueryFails, Finish, PoolRefuses,
                      AddTransactionSideEffect, Spawn, callVars, taskVars, serverVars, history
  <1>8. CASE UNCHANGED vars
    BY <1>6, <1>8 DEF vars, callVars, serverVars, history
  <1>9. ASSUME NEW t \in Task, PoolServes(t) PROVE WriteLink'
    BY <1>9, PoolServesKeepsWrites
  <1> QED
    BY <1>1, <1>2, <1>3, <1>4, <1>5, <1>7, <1>8, <1>9 DEF Next, Runner, Loop, Code, Idle

--------------------------------------------------------------------------------
(* What the invariant is for.                                                  *)

(* The conjunction that every step preserves: types, the one-to-one links of   *)
(* calls, tasks and clients, and where every store and every write belongs.    *)
THEOREM Invariant == Spec => []IInv
  <1>1. Init => IInv
    BY InitType, InitLinks, InitStoreLink, InitOutlived, InitWaits, InitWrites DEF IInv
  <1>2. IInv /\ [Next]_vars => IInv'
    BY NextType, NextLinks, NextStoreLink, NextOutlived, NextWaits, NextWriteLink,
       NextQueryLink DEF IInv
  <1> QED
    BY <1>1, <1>2, PTL DEF Spec

(* Transaction blocks are atomic and isolated from each other's fate: a query  *)
(* a builder sent from a running block is durable exactly when the attempt of  *)
(* func it was issued in is the one that committed.                            *)
THEOREM BlocksAreAtomic == Spec => []BlockIsAtomic
  <1>1. IInv => BlockIsAtomic
    <2> SUFFICES ASSUME IInv, NEW w \in Write, log[w].via = "builder", log[w].live
                 PROVE  w \in committed <=> /\ fate[log[w].by.call] = "committed"
                                           /\ attempt[log[w].by.call] = log[w].by.attempt
      BY DEF BlockIsAtomic
    <2>1. /\ log[w].by \in Store /\ log[w].by # NoStore
          /\ log[w].into = log[w].by.call
          /\ log[w].attempt = log[w].by.attempt
      BY DEF IInv, TypeOK, Entry, QueryLink
    <2>2. log[w].into # NoCall
      BY <2>1, ConstantsAssumption DEF Store
    <2> QED
      BY <2>1, <2>2 DEF IInv, WriteLink
  <1> QED
    BY <1>1, Invariant, PTL

--------------------------------------------------------------------------------
(* Side effects, under a runner that resolves only when its COMMIT succeeded.  *)

LEMMA NextEffectLink ==
  ASSUME ResolvesAfter = {"commit"}, TypeOK, WriteLink, EffectLink, [Next]_vars
  PROVE  EffectLink'
  <1>1. /\ stage \in [Call -> Stage]
        /\ fate \in [Call -> Fate]
        /\ cursor \in [Call -> Nat]
    BY DEF TypeOK
  <1>2. ASSUME NEW x \in Call, UNCHANGED <<fate, cursor>>,
               \/ stage' = stage
               \/ \E s \in Stage :
                    /\ stage' = [stage EXCEPT ![x] = s]
                    /\ stage[x] \in {"loop", "effect"} =>
                         s \in {"loop", "effect", "done"}
                    /\ stage[x] \notin {"loop", "effect"} =>
                         stage[x] # "done" /\ s \notin {"loop", "effect"}
        PROVE  EffectLink'
    BY <1>1, <1>2 DEF EffectLink
  <1>3. ASSUME NEW x \in Call, StartEffect(x) PROVE EffectLink'
    BY <1>1, <1>3 DEF EffectLink, StartEffect
  <1>4. ASSUME NEW x \in Call,
               CommitSucceeds(x) \/ CommitVoided(x) \/ CommitAnswerLost(x) \/ RollBack(x)
        PROVE  EffectLink'
    <2>1. stage[x] \in {"commit", "rollback"} /\ cursor' = cursor
      BY <1>4 DEF CommitSucceeds, CommitVoided, CommitAnswerLost, RollBack
    <2>2. cursor[x] = 0
      BY <1>1, <2>1 DEF EffectLink
    <2>3. \/ /\ stage' = [stage EXCEPT ![x] = "loop"]
             /\ fate' = [fate EXCEPT ![x] = "committed"]
          \/ \E s \in {"done", "begin"}, f \in Fate :
               stage' = [stage EXCEPT ![x] = s] /\ fate' = [fate EXCEPT ![x] = f]
      BY <1>4 DEF CommitSucceeds, CommitVoided, CommitAnswerLost, RollBack, RunnerSettles,
                  EnterLoop, Reject, Fate
    <2> QED
      BY <1>1, <2>1, <2>2, <2>3 DEF EffectLink
  <1>5. ASSUME NEW x \in Call, Runner(x) \/ Loop(x) PROVE EffectLink'
    <2>1. CASE \/ \E c \in Client : RunFunc(x, c)
               \/ BeginFails(x) \/ CommitRefused(x)
               \/ EffectResolves(x) \/ EffectRejects(x) \/ ReturnResult(x)
      <3>1. UNCHANGED <<fate, cursor>>
        BY <2>1 DEF RunFunc, BeginFails, CommitRefused, EffectResolves, EffectRejects,
                    ReturnResult
      <3>2. \/ /\ stage[x] \in {"begin", "commit"}
               /\ \E s \in {"func", "done", "rollback"} : stage' = [stage EXCEPT ![x] = s]
            \/ /\ stage[x] \in {"loop", "effect"}
               /\ \E s \in {"loop", "done"} : stage' = [stage EXCEPT ![x] = s]
        BY <2>1 DEF RunFunc, BeginFails, CommitRefused, EffectResolves, EffectRejects,
                    ReturnResult, Reject
      <3> QED
        BY <3>1, <3>2, <1>2 DEF Stage
    <2> QED
      BY <1>3, <1>4, <1>5, <2>1 DEF Runner, Loop
  <1>6. ASSUME NEW t \in Task, Code(t) PROVE EffectLink'
    <2>1. UNCHANGED <<fate, cursor>>
      BY <1>6 DEF Code, JoinTransaction, LeaveNested, StartTransaction, FuncSettles, RunQuery,
                  RunRawSql, Query, Execute, AskPool, PoolServes, PoolRefuses, QueryFails,
                  AddTransactionSideEffect, Spawn, Finish, callVars
    <2>2. \/ stage' = stage
          \/ \E x \in Call, s \in {"begin", "commit", "rollback"} :
               stage[x] \in {"unused", "func"} /\ stage' = [stage EXCEPT ![x] = s]
      BY <1>6 DEF Code, JoinTransaction, LeaveNested, StartTransaction, FuncSettles, RunsFunc,
                  RunQuery, RunRawSql, Query, Execute, AskPool, PoolServes, PoolRefuses,
                  QueryFails, AddTransactionSideEffect, Spawn, Finish, callVars
    <2>3. CASE stage' = stage
      BY <2>1, <2>3 DEF EffectLink
    <2> QED
      BY <1>2, <2>1, <2>2, <2>3 DEF Stage
  <1>7. CASE UNCHANGED vars
    BY <1>7 DEF EffectLink, vars, callVars
  <1> QED
    BY <1>5, <1>6, <1>7 DEF Next, Idle

(* A side effect runs only after its transaction is committed, provided the    *)
(* runner's promise resolves only when COMMIT took effect: a runner that       *)
(* swallows an error, or takes the answer to the COMMIT of a failed            *)
(* transaction for success, breaks it.                                         *)
THEOREM EffectsOnlyAfterCommit ==
  ASSUME ResolvesAfter = {"commit"}
  PROVE  Spec => []EffectsFollowCommit
  <1>1. Init => EffectLink
    BY DEF Init, EffectLink
  <1>2. IInv /\ EffectLink /\ [Next]_vars => EffectLink'
    BY NextEffectLink DEF IInv
  <1>3. EffectLink => EffectsFollowCommit
    BY DEF EffectLink, EffectsFollowCommit
  <1> QED
    BY <1>1, <1>2, <1>3, Invariant, PTL DEF Spec

--------------------------------------------------------------------------------
(* Stores.                                                                     *)

(* Code sees the store of an attempt that is running, on the client that holds *)
(* its transaction; only what func left running sees a store that is over, and *)
(* keeps seeing that one through every later attempt.                          *)
THEOREM StoresAreLiveOrOutlived == Spec => []StoresAreLive
  <1>1. IInv => StoresAreLive
    <2> SUFFICES ASSUME IInv, NEW t \in Task, store[t] # NoStore, Live(store[t])
                 PROVE  holder[store[t].client] = store[t].call
      BY DEF StoresAreLive, IInv, OutlivedLink
    <2>1. store[t].call \in Call
      BY StoreFields DEF IInv
    <2>2. client[store[t].call] # NoClient
      BY <2>1 DEF Live, IInv, Links, ClientLink, Holding
    <2>3. store[t].client = client[store[t].call]
      BY <2>1, <2>2 DEF Live, IInv, StoreLink
    <2> QED
      BY <2>1, <2>2, <2>3 DEF IInv, Links, ClientLink
  <1> QED
    BY <1>1, Invariant, PTL

(* When the application awaits every promise it starts in func, none outlives  *)
(* it.                                                                         *)
NoneOutlives == outlived = {}

LEMMA NextNoneOutlives ==
  ASSUME Structured, NoneOutlives, [Next]_vars
  PROVE  NoneOutlives'
  <1>1. ASSUME NEW t \in Task, Code(t) PROVE NoneOutlives'
    BY <1>1 DEF NoneOutlives, Code, JoinTransaction, LeaveNested, StartTransaction, FuncSettles,
                RunQuery, RunRawSql, Query, Execute, AskPool, PoolServes, PoolRefuses,
                QueryFails, AddTransactionSideEffect, Spawn, Finish, history
  <1>2. ASSUME NEW x \in Call, Runner(x) \/ Loop(x) PROVE NoneOutlives'
    BY <1>2 DEF NoneOutlives, Runner, Loop, RunFunc, BeginFails, CommitSucceeds, CommitVoided,
                CommitAnswerLost, CommitRefused, RollBack, StartEffect, EffectResolves,
                EffectRejects, ReturnResult, history
  <1>3. CASE UNCHANGED vars
    BY <1>3 DEF NoneOutlives, vars, history
  <1> QED
    BY <1>1, <1>2, <1>3 DEF Next, Idle

StoresRun == \A t \in Task : store[t] # NoStore => Live(store[t])

LEMMA StructuredStoresRun == OutlivedLink /\ NoneOutlives => StoresRun
  BY DEF OutlivedLink, NoneOutlives, StoresRun

--------------------------------------------------------------------------------
(* What an answer promises, under both assumptions.                            *)

LEMMA NextReplyLink ==
  ASSUME TypeOK, StoresRun, EffectLink, ReplyLink, [Next]_vars
  PROVE  ReplyLink'
  <1>1. /\ stage \in [Call -> Stage]
        /\ fate \in [Call -> Fate]
        /\ reply \in [Call -> Reply]
        /\ cursor \in [Call -> Nat]
        /\ sideEffects \in [Call -> Seq(Added)]
    BY DEF TypeOK
  <1>2. ASSUME NEW x \in Call, ReturnResult(x) PROVE ReplyLink'
    <2>1. /\ stage[x] = "loop" /\ cursor[x] = Len(sideEffects[x])
          /\ stage' = [stage EXCEPT ![x] = "done"]
          /\ reply' = [reply EXCEPT ![x] = "resolved"]
          /\ UNCHANGED <<fate, cursor, sideEffects>>
      BY <1>2 DEF ReturnResult
    <2>2. fate[x] = "committed"
      BY <2>1 DEF EffectLink
    <2> QED
      BY <1>1, <2>1, <2>2 DEF ReplyLink
  <1>3. ASSUME \A y \in Call :
                 /\ reply'[y] = "resolved" => reply[y] = "resolved"
                 /\ stage[y] = "done" => /\ stage'[y] = "done" /\ fate'[y] = fate[y]
                                         /\ cursor'[y] = cursor[y]
                                         /\ sideEffects'[y] = sideEffects[y]
        PROVE  ReplyLink'
    BY <1>3 DEF ReplyLink
  <1>4. ASSUME NEW t \in Task, NEW e \in Effect, AddTransactionSideEffect(t, e)
        PROVE  ReplyLink'
    <2>1. stage[store[t].call] = "func"
      BY <1>4 DEF AddTransactionSideEffect, StoresRun, Live
    <2>2. /\ UNCHANGED <<stage, fate, cursor, reply>>
          /\ \E new : sideEffects' = [sideEffects EXCEPT ![store[t].call] = new]
      BY <1>4 DEF AddTransactionSideEffect
    <2> QED
      BY <1>1, <1>3, <2>1, <2>2
  <1>5. ASSUME NEW t \in Task, Code(t), \A e \in Effect : ~ AddTransactionSideEffect(t, e)
        PROVE  ReplyLink'
    <2>1. UNCHANGED <<fate, cursor, reply, sideEffects>>
      BY <1>5 DEF Code, JoinTransaction, LeaveNested, StartTransaction, FuncSettles, RunQuery,
                  RunRawSql, Query, Execute, AskPool, PoolServes, PoolRefuses, QueryFails,
                  Spawn, Finish, callVars
    <2>2. \/ stage' = stage
          \/ \E x \in Call, s \in Stage :
               stage[x] # "done" /\ stage' = [stage EXCEPT ![x] = s]
      BY <1>5 DEF Code, JoinTransaction, LeaveNested, StartTransaction, FuncSettles, RunsFunc,
                  RunQuery, RunRawSql, Query, Execute, AskPool, PoolServes, PoolRefuses,
                  QueryFails, Spawn, Finish, callVars, Stage
    <2> QED
      BY <1>1, <1>3, <2>1, <2>2
  <1>6. ASSUME NEW x \in Call, Runner(x) \/ Loop(x), ~ ReturnResult(x) PROVE ReplyLink'
    <2>1. /\ stage[x] # "done"
          /\ \E s \in Stage : stage' = [stage EXCEPT ![x] = s]
          /\ \/ reply' = reply
             \/ reply' = [reply EXCEPT ![x] = "rejected"]
      BY <1>6 DEF Runner, Loop, RunFunc, BeginFails, CommitSucceeds, CommitVoided,
                  CommitAnswerLost, CommitRefused, RollBack, StartEffect, EffectResolves,
                  EffectRejects, RunnerSettles, EnterLoop, Reject, Stage
    <2>2. /\ sideEffects' = sideEffects
          /\ \E f, n : /\ fate' = fate \/ fate' = [fate EXCEPT ![x] = f]
                       /\ cursor' = cursor \/ cursor' = [cursor EXCEPT ![x] = n]
      BY <1>6 DEF Runner, Loop, RunFunc, BeginFails, CommitSucceeds, CommitVoided,
                  CommitAnswerLost, CommitRefused, RollBack, StartEffect, EffectResolves,
                  EffectRejects
    <2> QED
      BY <1>1, <1>3, <2>1, <2>2
  <1>7. CASE UNCHANGED vars
    BY <1>3, <1>7 DEF vars, callVars
  <1> QED
    BY <1>2, <1>4, <1>5, <1>6, <1>7 DEF Next, Idle

(* A resolved transaction() is a committed one whose side effects have all     *)
(* run, provided the runner resolves only on a COMMIT that took effect and the *)
(* application awaits its promises.                                            *)
THEOREM AnswersAreTrue ==
  ASSUME ResolvesAfter = {"commit"}, Structured
  PROVE  Spec => []ResolvedMeansDone
  <1>1. Init => EffectLink /\ NoneOutlives /\ ReplyLink
    BY DEF Init, EffectLink, NoneOutlives, ReplyLink
  <1>2. IInv /\ EffectLink /\ NoneOutlives /\ ReplyLink /\ [Next]_vars
          => EffectLink' /\ NoneOutlives' /\ ReplyLink'
    BY NextEffectLink, NextNoneOutlives, StructuredStoresRun, NextReplyLink DEF IInv
  <1>3. ReplyLink => ResolvedMeansDone
    BY DEF ReplyLink, ResolvedMeansDone
  <1> QED
    BY <1>1, <1>2, <1>3, Invariant, PTL DEF Spec

--------------------------------------------------------------------------------
(* Transaction implements TransactionContract, for any number of tasks, calls, *)
(* clients and writes, under a runner that resolves only when its COMMIT took  *)
(* effect: each step maps to a step of the contract, or to none.               *)

(* The part of the invariant that the mapping rests on.  A store names an      *)
(* attempt that has begun, so side effects are added only to calls that have.  *)
UnusedLink == \A x \in Call : stage[x] = "unused" => attempt[x] = 0

LEMMA InitUnused == Init => UnusedLink
  BY DEF Init, UnusedLink

LEMMA NextUnused ==
  ASSUME TypeOK, UnusedLink, [Next]_vars
  PROVE  UnusedLink'
  <1>1. stage \in [Call -> Stage] /\ attempt \in [Call -> Nat]
    BY ConstantsAssumption DEF TypeOK
  <1>2. ASSUME NEW x \in Call, Runner(x) \/ Loop(x) PROVE UnusedLink'
    <2>1. \E s \in Stage \ {"unused"} : stage' = [stage EXCEPT ![x] = s]
      BY <1>2 DEF Runner, Loop, RunFunc, BeginFails, CommitSucceeds, CommitVoided,
                  CommitAnswerLost, CommitRefused, RollBack, StartEffect, EffectResolves,
                  EffectRejects, ReturnResult, RunnerSettles, EnterLoop, Reject, Stage
    <2>2. attempt' = attempt \/ attempt' = [attempt EXCEPT ![x] = @ + 1]
      BY <1>2 DEF Runner, Loop, RunFunc, BeginFails, CommitSucceeds, CommitVoided,
                  CommitAnswerLost, CommitRefused, RollBack, StartEffect, EffectResolves,
                  EffectRejects, ReturnResult
    <2> QED
      BY <1>1, <2>1, <2>2 DEF UnusedLink
  <1>3. ASSUME NEW t \in Task, Code(t) PROVE UnusedLink'
    <2>1. attempt' = attempt
      BY <1>3 DEF Code, JoinTransaction, LeaveNested, StartTransaction, FuncSettles, RunQuery,
                  RunRawSql, Query, Execute, AskPool, PoolServes, PoolRefuses, QueryFails,
                  AddTransactionSideEffect, Spawn, Finish, callVars
    <2>2. \/ stage' = stage
          \/ \E x \in Call, s \in {"begin", "commit", "rollback"} :
               stage' = [stage EXCEPT ![x] = s]
      BY <1>3 DEF Code, JoinTransaction, LeaveNested, StartTransaction, FuncSettles, RunQuery,
                  RunRawSql, Query, Execute, AskPool, PoolServes, PoolRefuses, QueryFails,
                  AddTransactionSideEffect, Spawn, Finish, callVars
    <2> QED
      BY <1>1, <2>1, <2>2 DEF UnusedLink
  <1>4. CASE UNCHANGED vars
    BY <1>4 DEF UnusedLink, vars, callVars
  <1> QED
    BY <1>2, <1>3, <1>4 DEF Next, Idle

--------------------------------------------------------------------------------
(* What a change of the state is to the contract.                              *)

(* A call moves from one stage to another.                                     *)
LEMMA StatusMoves ==
  ASSUME stage \in [Call -> Stage], NEW x \in Call, NEW s,
         stage' = [stage EXCEPT ![x] = s]
  PROVE  /\ contractStatus[x] = StatusOf(stage[x])
         /\ contractStatus' = [contractStatus EXCEPT ![x] = StatusOf(s)]
         /\ StatusOf(s) = StatusOf(stage[x]) => contractStatus' = contractStatus
  BY DEF contractStatus

(* Nothing is pending on a client whose transaction is not open.               *)
LEMMA FreeClientIsEmpty ==
  ASSUME TypeOK, WriteLink, NEW c \in Client, holder[c] = NoCall
  PROVE  pending[c] = {}
  <1> SUFFICES ASSUME NEW w \in pending[c] PROVE FALSE
    OBVIOUS
  <1>1. w \in Write /\ log[w].into \in Call \cup {NoCall} /\ NoCall \notin Call
    BY TypeWriteShape DEF WriteShape
  <1> QED
    BY <1>1 DEF WriteLink

(* The transaction of x ends: what it staged is gone, and only that.           *)
LEMMA StagedIsReleased ==
  ASSUME TypeOK, Links, NEW x \in Call, client[x] # NoClient, Release(x)
  PROVE  /\ contractStaged[x] = pending[client[x]]
         /\ contractStaged' = [contractStaged EXCEPT ![x] = {}]
  <1>1. WriteShape
    BY TypeWriteShape
  <1>2. client[x] \in Client /\ client'[x] = NoClient
    BY <1>1 DEF WriteShape, Release
  <1>3. ASSUME NEW y \in Call, y # x PROVE contractStaged'[y] = contractStaged[y]
    <2>1. client'[y] = client[y] /\ (client[y] # NoClient => client[y] # client[x])
      BY <1>1, <1>3 DEF WriteShape, Release, Links, ClientLink
    <2>2. client[y] # NoClient => pending'[client[y]] = pending[client[y]]
      BY <1>1, <1>2, <2>1 DEF WriteShape, Release
    <2> QED
      BY <2>1, <2>2 DEF contractStaged
  <1> QED
    BY <1>2, <1>3 DEF contractStaged

(* The contract's list of side effects is that of the call, without attempts.  *)
LEMMA AddedIsTheList ==
  ASSUME sideEffects \in [Call -> Seq(Added)], NEW x \in Call
  PROVE  /\ contractAdded[x] \in Seq(Effect)
         /\ Len(contractAdded[x]) = Len(sideEffects[x])
         /\ \A i \in 1 .. Len(sideEffects[x]) :
              contractAdded[x][i] = sideEffects[x][i].effect
  <1>1. sideEffects[x] \in Seq(Added)
    OBVIOUS
  <1>2. Len(sideEffects[x]) \in Nat
        /\ \A i \in 1 .. Len(sideEffects[x]) : sideEffects[x][i].effect \in Effect
    <2>1. Len(sideEffects[x]) \in Nat
      BY <1>1, LenProperties
    <2>2. \A i \in 1 .. Len(sideEffects[x]) : sideEffects[x][i] \in Added
      BY <1>1, ElementOfSeq
    <2> QED
      BY <2>1, <2>2 DEF Added
  <1>3. contractAdded[x] = [i \in 1 .. Len(sideEffects[x]) |-> sideEffects[x][i].effect]
    BY DEF contractAdded
  <1>4. contractAdded[x] \in [1 .. Len(sideEffects[x]) -> Effect]
    BY <1>2, <1>3
  <1>5. contractAdded[x] \in Seq(Effect)
    BY <1>2, <1>4, SeqDef
  <1>6. Len(contractAdded[x]) = Len(sideEffects[x])
    BY <1>2, <1>4, <1>5, LenProperties
  <1> QED
    BY <1>3, <1>5, <1>6

(* Adding commutes with forgetting the attempts.                               *)
LEMMA AppendEffect ==
  ASSUME NEW list \in Seq(Added), NEW new \in Added, NEW effects \in Seq(Effect),
         Len(effects) = Len(list), \A i \in 1 .. Len(list) : effects[i] = list[i].effect
  PROVE  [i \in 1 .. Len(Append(list, new)) |-> Append(list, new)[i].effect]
           = Append(effects, new.effect)
  <1> DEFINE longer == Append(list, new)
  <1> DEFINE effect == Append(effects, new.effect)
  <1>1. /\ Len(list) \in Nat /\ Len(longer) = Len(list) + 1
        /\ \A i \in 1 .. Len(list) : longer[i] = list[i]
        /\ longer[Len(list) + 1] = new
    BY AppendProperties, LenProperties
  <1>2. new.effect \in Effect
    BY DEF Added
  <1>3. /\ effect \in Seq(Effect) /\ Len(effect) = Len(list) + 1
        /\ \A i \in 1 .. Len(list) : effect[i] = effects[i]
        /\ effect[Len(list) + 1] = new.effect
    BY <1>2, AppendProperties
  <1>4. effect \in [1 .. Len(list) + 1 -> Effect]
    BY <1>3, LenProperties
  <1> HIDE DEF longer, effect
  <1>5. \A i \in 1 .. Len(list) + 1 : longer[i].effect = effect[i]
    BY <1>1, <1>3
  <1>6. [i \in 1 .. Len(longer) |-> longer[i].effect] = effect
    BY <1>1, <1>4, <1>5
  <1> QED
    BY <1>6 DEF longer, effect

(* Parts of the mapping that a step leaves alone.                              *)
LEMMA StagedStays == UNCHANGED <<client, pending>> => UNCHANGED contractStaged
  BY DEF contractStaged

LEMMA AddedStays == UNCHANGED sideEffects => UNCHANGED contractAdded
  BY DEF contractAdded

LEMMA StatusStays == UNCHANGED stage => UNCHANGED contractStatus
  BY DEF contractStatus

--------------------------------------------------------------------------------
(* Steps.                                                                      *)

ContractStep == [Contract!ContractNext]_(Contract!contractVars)

(* The runner calls back, on a client that nothing is pending on.              *)
LEMMA RunFuncStutters ==
  ASSUME TypeOK, Links, WriteLink, NEW x \in Call, NEW c \in Client, RunFunc(x, c)
  PROVE  ContractStep
  <1>1. WriteShape /\ pending[c] = {}
    BY TypeWriteShape, FreeClientIsEmpty DEF RunFunc
  <1>2. UNCHANGED contractStatus
    <2>1. stage[x] = "begin" /\ stage' = [stage EXCEPT ![x] = "func"]
      BY DEF RunFunc
    <2>2. StatusOf("func") = StatusOf("begin")
      BY DEF StatusOf
    <2> QED
      BY <1>1, <2>1, <2>2, StatusMoves DEF WriteShape
  <1>3. UNCHANGED contractStaged
    <2>1. client' = [client EXCEPT ![x] = c] /\ pending' = pending /\ client[x] = NoClient
      BY DEF RunFunc, Links, ClientLink, Holding
    <2> QED
      BY <1>1, <2>1 DEF contractStaged, WriteShape
  <1> QED
    BY <1>2, <1>3, AddedStays DEF RunFunc, ContractStep, Contract!contractVars

(* The attempt ends: its writes become durable together, or never.             *)
LEMMA EndImplements ==
  ASSUME ResolvesAfter = {"commit"}, TypeOK, Links, NEW x \in Call,
         CommitSucceeds(x) \/ CommitVoided(x) \/ CommitAnswerLost(x) \/ RollBack(x)
  PROVE  Contract!CommitAll(x) \/ Contract!DiscardAll(x)
  <1>1. /\ stage[x] \in {"commit", "rollback"} /\ Release(x)
        /\ UNCHANGED <<sideEffects, cursor>>
    BY DEF CommitSucceeds, CommitVoided, CommitAnswerLost, RollBack
  <1>2. client[x] # NoClient
    BY <1>1 DEF Links, ClientLink, Holding
  <1>3. /\ contractStaged[x] = pending[client[x]]
        /\ contractStaged' = [contractStaged EXCEPT ![x] = {}]
    BY <1>1, <1>2, StagedIsReleased
  <1>4. contractStatus[x] = "active"
    BY <1>1 DEF contractStatus, StatusOf
  <1>5. UNCHANGED contractAdded
    BY <1>1, AddedStays
  <1>6. ASSUME NEW s \in Stage, stage' = [stage EXCEPT ![x] = s]
        PROVE  contractStatus' = [contractStatus EXCEPT ![x] = StatusOf(s)]
    BY <1>6, StatusMoves DEF TypeOK
  <1>7. CASE CommitSucceeds(x) \/ CommitAnswerLost(x)
    <2>1. \E s \in {"loop", "done"} : stage' = [stage EXCEPT ![x] = s]
      BY <1>7 DEF CommitSucceeds, CommitAnswerLost, RunnerSettles, EnterLoop, Reject
    <2>2. \E s \in {"committed", "answered"} :
            contractStatus' = [contractStatus EXCEPT ![x] = s]
      BY <1>6, <2>1 DEF StatusOf, Stage
    <2>3. committed' = committed \cup pending[client[x]]
      BY <1>7 DEF CommitSucceeds, CommitAnswerLost
    <2> QED
      BY <1>1, <1>3, <1>4, <1>5, <2>2, <2>3 DEF Contract!CommitAll
  <1>8. CASE CommitVoided(x) \/ RollBack(x)
    <2>1. \E s \in {"begin", "done"} : stage' = [stage EXCEPT ![x] = s]
      BY <1>8 DEF CommitVoided, RollBack, RunnerSettles, EnterLoop, Reject
    <2>2. \E s \in {"active", "answered"} :
            contractStatus' = [contractStatus EXCEPT ![x] = s]
      BY <1>6, <2>1 DEF StatusOf, Stage
    <2>3. committed' = committed
      BY <1>8 DEF CommitVoided, RollBack
    <2> QED
      BY <1>1, <1>3, <1>4, <1>5, <2>2, <2>3 DEF Contract!DiscardAll
  <1> QED
    BY <1>7, <1>8

(* The call settles without an open transaction.                               *)
LEMMA SettlingAnswers ==
  ASSUME TypeOK, Links, NEW x \in Call, BeginFails(x) \/ EffectRejects(x) \/ ReturnResult(x)
  PROVE  Contract!Answer(x)
  <1>1. /\ stage[x] \in {"begin", "effect", "loop"}
        /\ stage' = [stage EXCEPT ![x] = "done"]
        /\ UNCHANGED <<client, pending, committed, sideEffects, cursor>>
    BY DEF BeginFails, EffectRejects, ReturnResult, Reject, serverVars
  <1>2. contractStatus[x] \in {"active", "committed"}
    BY <1>1 DEF contractStatus, StatusOf
  <1>3. contractStatus' = [contractStatus EXCEPT ![x] = "answered"]
    <2>1. StatusOf("done") = "answered"
      BY DEF StatusOf
    <2> QED
      BY <1>1, <2>1, StatusMoves DEF TypeOK
  <1>4. contractStaged[x] = {}
    BY <1>1 DEF contractStaged, Links, ClientLink, Holding
  <1> QED
    BY <1>1, <1>2, <1>3, <1>4, StagedStays, AddedStays DEF Contract!Answer

(* The loop starts a side effect.                                              *)
LEMMA StartEffectFires ==
  ASSUME TypeOK, NEW x \in Call, StartEffect(x)
  PROVE  Contract!Fire(x)
  <1>1. contractStatus[x] = "committed" /\ UNCHANGED contractStatus
    <2>1. StatusOf("loop") = "committed" /\ StatusOf("effect") = "committed"
      BY DEF StatusOf
    <2> QED
      BY <2>1, StatusMoves DEF StartEffect, TypeOK
  <1>2. cursor[x] < Len(contractAdded[x])
    BY AddedIsTheList DEF StartEffect, TypeOK
  <1> QED
    BY <1>1, <1>2, StagedStays, AddedStays DEF StartEffect, serverVars, Contract!Fire

(* A statement goes into the transaction open on its client, or is durable at  *)
(* once.                                                                       *)
LEMMA ExecuteImplements ==
  ASSUME TypeOK, Links, NEW t \in Task, NEW w \in Write,
         NEW c \in Client, NEW via, Execute(t, w, c, via)
  PROVE  Contract!AutoCommit(w) \/ \E x \in Call : Contract!Stage(x, w)
  <1> DEFINE into == holder[c]
  <1>1. WriteShape /\ UNCHANGED <<stage, client, sideEffects, cursor>>
    BY TypeWriteShape DEF Execute, callVars
  <1>2. UNCHANGED <<contractStatus, contractAdded>>
    BY <1>1, StatusStays, AddedStays
  <1>3. CASE into = NoCall
    <2>1. committed' = committed \cup {w} /\ pending' = pending
      BY <1>3 DEF Execute
    <2> QED
      BY <1>1, <1>2, <2>1, StagedStays DEF Contract!AutoCommit
  <1>4. CASE into # NoCall
    <2>1. into \in Call /\ client[into] = c
      BY <1>1, <1>4 DEF WriteShape, Links, ClientLink
    <2>2. committed' = committed /\ pending' = [pending EXCEPT ![c] = @ \cup {w}]
      BY <1>4 DEF Execute
    <2>3. contractStatus[into] = "active"
      <3>1. stage[into] \in Holding
        BY <1>1, <2>1 DEF WriteShape, Links, ClientLink
      <3> QED
        BY <2>1, <3>1 DEF contractStatus, StatusOf, Holding
    <2>4. contractStaged'[into] = contractStaged[into] \cup {w}
      BY <1>1, <2>1, <2>2 DEF contractStaged, WriteShape
    <2>5. ASSUME NEW y \in Call, y # into PROVE contractStaged'[y] = contractStaged[y]
      <3>1. client[y] # c
        BY <1>1, <2>1, <2>5 DEF Links, ClientLink, WriteShape
      <3> QED
        BY <1>1, <2>1, <2>2, <3>1 DEF contractStaged, WriteShape
    <2>6. contractStaged' = [contractStaged EXCEPT ![into] = @ \cup {w}]
      BY <2>1, <2>4, <2>5 DEF contractStaged
    <2> QED
      BY <1>1, <1>2, <2>1, <2>2, <2>3, <2>6 DEF Contract!Stage
  <1> QED
    BY <1>3, <1>4

(* A side effect is added to a call that has begun.                            *)
LEMMA AddingAdds ==
  ASSUME TypeOK, StoreLink, UnusedLink, NEW t \in Task, NEW e \in Effect,
         AddTransactionSideEffect(t, e)
  PROVE  \E x \in Call : Contract!Add(x, e)
  <1> DEFINE x == store[t].call
  <1> DEFINE new == [effect |-> e, attempt |-> store[t].attempt]
  <1>1. x \in Call /\ new \in Added
    BY StoreFields DEF AddTransactionSideEffect, Added
  <1>2. contractStatus[x] # "idle"
    <2>1. attempt[x] # 0
      <3>1. store[t].attempt \in 1 .. attempt[x] /\ attempt[x] \in Nat
        BY <1>1, ConstantsAssumption DEF AddTransactionSideEffect, StoreLink, TypeOK
      <3> QED
        BY <3>1
    <2>2. stage[x] \in Stage /\ stage[x] # "unused"
      BY <1>1, <2>1 DEF UnusedLink, TypeOK
    <2> QED
      BY <1>1, <2>2 DEF contractStatus, StatusOf, Stage
  <1>3. contractAdded' = [contractAdded EXCEPT ![x] = Append(@, e)]
    <2>1. sideEffects' = [sideEffects EXCEPT ![x] = Append(@, new)]
      BY DEF AddTransactionSideEffect
    <2>2. sideEffects \in [Call -> Seq(Added)]
      BY DEF TypeOK
    <2>3. ASSUME NEW y \in Call, y # x PROVE contractAdded'[y] = contractAdded[y]
      <3>1. sideEffects'[y] = sideEffects[y]
        BY <2>1, <2>2, <2>3
      <3> QED
        BY <3>1 DEF contractAdded
    <2>4. contractAdded'[x] = Append(contractAdded[x], e)
      <3> DEFINE old == sideEffects[x]
      <3>1. old \in Seq(Added) /\ sideEffects'[x] = Append(old, new)
        BY <1>1, <2>1, <2>2
      <3>2. contractAdded'[x] =
              [i \in 1 .. Len(Append(old, new)) |-> Append(old, new)[i].effect]
        BY <1>1, <3>1 DEF contractAdded
      <3>3. /\ contractAdded[x] \in Seq(Effect) /\ Len(contractAdded[x]) = Len(old)
            /\ \A i \in 1 .. Len(old) : contractAdded[x][i] = old[i].effect
        BY <1>1, <2>2, AddedIsTheList
      <3>4. new.effect = e
        OBVIOUS
      <3> HIDE DEF old, new, x
      <3> QED
        BY <1>1, <3>1, <3>2, <3>3, <3>4, AppendEffect
    <2> QED
      BY <1>1, <2>3, <2>4 DEF contractAdded
  <1> QED
    BY <1>1, <1>2, <1>3, StatusStays, StagedStays
       DEF AddTransactionSideEffect, serverVars, Contract!Add

(* Every other step of the application's code is none of the contract's, but   *)
(* for the call of transaction() itself.                                       *)
LEMMA CodeImplements ==
  ASSUME IInv, UnusedLink, NEW t \in Task, Code(t)
  PROVE  ContractStep
  <1>1. TypeOK /\ Links /\ StoreLink
    BY DEF IInv
  <1>2. ASSUME NEW x \in Call, StartTransaction(t, x) PROVE ContractStep
    <2>1. /\ stage[x] = "unused" /\ stage' = [stage EXCEPT ![x] = "begin"]
          /\ UNCHANGED <<client, pending, committed, sideEffects, cursor>>
      BY <1>2 DEF StartTransaction, serverVars
    <2>2. StatusOf("unused") = "idle" /\ StatusOf("begin") = "active"
      BY DEF StatusOf
    <2>3. contractStatus[x] = "idle"
          /\ contractStatus' = [contractStatus EXCEPT ![x] = "active"]
      BY <1>1, <2>1, <2>2, StatusMoves DEF TypeOK
    <2>4. Contract!Open(x)
      BY <2>1, <2>3, StagedStays, AddedStays DEF Contract!Open
    <2> QED
      BY <2>4 DEF ContractStep, Contract!ContractNext
  <1>3. ASSUME NEW x \in Call, FuncSettles(t, x) PROVE ContractStep
    <2>1. /\ stage[x] = "func"
          /\ \E s \in {"commit", "rollback"} : stage' = [stage EXCEPT ![x] = s]
          /\ UNCHANGED <<client, pending, committed, sideEffects, cursor>>
      BY <1>3 DEF FuncSettles, RunsFunc, serverVars
    <2>2. \A s \in {"commit", "rollback"} : StatusOf(s) = StatusOf("func")
      BY DEF StatusOf
    <2>3. UNCHANGED contractStatus
      BY <1>1, <2>1, <2>2, StatusMoves DEF TypeOK
    <2> QED
      BY <2>1, <2>3, StagedStays, AddedStays DEF ContractStep, Contract!contractVars
  <1>4. ASSUME NEW w \in Write, RunQuery(t, w) \/ RunRawSql(t, w) PROVE ContractStep
    <2>1. CASE store[t].client \in Client /\ Execute(t, w, store[t].client, "builder")
      BY <1>1, <2>1, ExecuteImplements DEF ContractStep, Contract!ContractNext
    <2>2. CASE \E via \in {"builder", "raw"} : AskPool(t, w, via)
      <3>1. UNCHANGED <<stage, client, pending, committed, sideEffects, cursor>>
        BY <2>2 DEF AskPool, callVars, serverVars
      <3> QED
        BY <3>1, StatusStays, StagedStays, AddedStays DEF ContractStep, Contract!contractVars
    <2> QED
      BY <1>1, <1>4, <2>1, <2>2, QueryIsSent
  <1>7. ASSUME PoolServes(t) PROVE ContractStep
    <2>1. /\ query[t] \in Write /\ committed' = committed \cup {query[t]}
          /\ UNCHANGED <<stage, client, pending, sideEffects, cursor>>
      BY <1>7 DEF IInv, WaitLink, PoolServes, callVars
    <2>2. Contract!AutoCommit(query[t])
      BY <2>1, StatusStays, StagedStays, AddedStays DEF Contract!AutoCommit
    <2> QED
      BY <2>1, <2>2 DEF ContractStep, Contract!ContractNext
  <1>5. ASSUME NEW e \in Effect, AddTransactionSideEffect(t, e) PROVE ContractStep
    <2>1. \E x \in Call : Contract!Add(x, e)
      BY <1>1, <1>5, AddingAdds
    <2> QED
      BY <2>1 DEF ContractStep, Contract!ContractNext
  <1>6. ASSUME \/ JoinTransaction(t) \/ LeaveNested(t) \/ QueryFails(t) \/ Finish(t)
               \/ PoolRefuses(t)
               \/ \E u \in Task : Spawn(t, u)
        PROVE  ContractStep
    <2>1. UNCHANGED <<stage, client, pending, committed, sideEffects, cursor>>
      BY <1>6 DEF JoinTransaction, LeaveNested, QueryFails, Finish, PoolRefuses, Spawn,
                  callVars, serverVars
    <2> QED
      BY <2>1, StatusStays, StagedStays, AddedStays DEF ContractStep, Contract!contractVars
  <1> QED
    BY <1>2, <1>3, <1>4, <1>5, <1>6, <1>7 DEF Code

(* The runner and the loop.                                                    *)
LEMMA CallImplements ==
  ASSUME ResolvesAfter = {"commit"}, IInv, NEW x \in Call, Runner(x) \/ Loop(x)
  PROVE  ContractStep
  <1>1. TypeOK /\ Links /\ WriteLink
    BY DEF IInv
  <1>2. CASE \E c \in Client : RunFunc(x, c)
    BY <1>1, <1>2, RunFuncStutters
  <1>3. CASE CommitSucceeds(x) \/ CommitVoided(x) \/ CommitAnswerLost(x) \/ RollBack(x)
    BY <1>1, <1>3, EndImplements DEF ContractStep, Contract!ContractNext
  <1>4. CASE BeginFails(x) \/ EffectRejects(x) \/ ReturnResult(x)
    BY <1>1, <1>4, SettlingAnswers DEF ContractStep, Contract!ContractNext
  <1>5. CASE StartEffect(x)
    BY <1>1, <1>5, StartEffectFires DEF ContractStep, Contract!ContractNext
  <1>6. CASE CommitRefused(x) \/ EffectResolves(x)
    <2>1. /\ \/ stage[x] = "commit" /\ stage' = [stage EXCEPT ![x] = "rollback"]
             \/ stage[x] = "effect" /\ stage' = [stage EXCEPT ![x] = "loop"]
          /\ UNCHANGED <<client, pending, committed, sideEffects, cursor>>
      BY <1>6 DEF CommitRefused, EffectResolves, serverVars
    <2>2. StatusOf("commit") = StatusOf("rollback") /\ StatusOf("effect") = StatusOf("loop")
      BY DEF StatusOf
    <2>3. UNCHANGED contractStatus
      BY <1>1, <2>1, <2>2, StatusMoves DEF TypeOK
    <2> QED
      BY <2>1, <2>3, StagedStays, AddedStays DEF ContractStep, Contract!contractVars
  <1> QED
    BY <1>2, <1>3, <1>4, <1>5, <1>6 DEF Runner, Loop

--------------------------------------------------------------------------------
(* transaction() and addTransactionSideEffect() keep the contract, whatever    *)
(* tasks, calls and clients there are, when the runner's promise resolves only *)
(* after a COMMIT that took effect.                                            *)
THEOREM ContractIsImplemented ==
  ASSUME ResolvesAfter = {"commit"}
  PROVE  Spec => ImplementsContract
  <1>1. Init => Contract!ContractInit
    <2> SUFFICES ASSUME Init PROVE Contract!ContractInit
      OBVIOUS
    <2>1. contractStatus = [x \in Call |-> "idle"]
      BY DEF Init, contractStatus, StatusOf
    <2>2. contractStaged = [x \in Call |-> {}]
      BY DEF Init, contractStaged
    <2>3. contractAdded = [x \in Call |-> <<>>]
      <3>1. \A x \in Call : contractAdded[x] = <<>>
        BY AddedIsTheList, EmptySeq DEF Init
      <3> QED
        BY <3>1 DEF contractAdded
    <2> QED
      BY <2>1, <2>2, <2>3 DEF Init, Contract!ContractInit
  <1>2. IInv /\ UnusedLink /\ [Next]_vars => ContractStep
    <2> SUFFICES ASSUME IInv, UnusedLink, [Next]_vars PROVE ContractStep
      OBVIOUS
    <2>1. CASE UNCHANGED vars
      BY <2>1, StatusStays, StagedStays, AddedStays
         DEF vars, callVars, serverVars, ContractStep, Contract!contractVars
    <2> QED
      BY <2>1, CodeImplements, CallImplements DEF Next, Idle
  <1>3. Spec => []UnusedLink
    <2>1. IInv /\ UnusedLink /\ [Next]_vars => UnusedLink'
      BY NextUnused DEF IInv
    <2> QED
      BY <2>1, InitUnused, Invariant, PTL DEF Spec
  <1> QED
    BY <1>1, <1>2, <1>3, Invariant, PTL
       DEF Spec, ContractStep, ImplementsContract, Contract!ContractSpec
================================================================================
