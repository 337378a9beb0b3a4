------------------------------ MODULE Transaction ------------------------------
(***************************************************************************)
(* Transactions of the query builder: createTransaction, the              *)
(* AsyncLocalStorage that carries the manager, the builders that read it,  *)
(* addTransactionSideEffect, and the runQueriesInTransaction function the  *)
(* user supplies, driven against a server.                                 *)
(*                                                                         *)
(* A Task is an asynchronous flow.  JavaScript runs the code between two   *)
(* awaits without interruption, so a step of a task is one such stretch,   *)
(* and tasks interleave only at awaits.  store[t] is what                  *)
(* managerLocalStorage.getStore() returns in the code of t; a promise      *)
(* started and not awaited (Spawn) inherits it and may outlive the func.   *)
(***************************************************************************)
EXTENDS Naturals, Sequences, FiniteSets

CONSTANTS
  Task,          \* asynchronous flows of the application
  Call,          \* calls of transaction() that find no manager in the store
  Client,        \* connections the runner hands out as managers
  Write,         \* data changing statements, each issued at most once
  Effect,        \* calls of addTransactionSideEffect, each with its callback
  NoTask, NoCall, NoClient, NoQuery,
  ResolvesAfter, \* ends of an attempt after which the runner's promise resolves
  MaxAttempts,   \* how often the runner may call its callback
  MaxNesting,    \* bound on the nested transaction() calls of one task
  Structured     \* TRUE: the application awaits every promise it starts in func

(* An attempt ends with COMMIT answered, with COMMIT of a transaction the     *)
(* server had already failed (answered too, but nothing is committed), or in  *)
(* the runner's catch block, which sends ROLLBACK.                            *)
Ends == {"commit", "void", "rollback"}

ASSUME ConstantsAssumption ==
  /\ NoTask \notin Task /\ NoCall \notin Call /\ NoClient \notin Client
  /\ NoQuery \notin Write
  /\ "commit" \in ResolvesAfter /\ ResolvesAfter \subseteq Ends
  /\ MaxAttempts \in Nat \ {0}
  /\ MaxNesting \in Nat
  /\ Structured \in BOOLEAN

VARIABLES
  flow,         \* is the task running code, or what does it await?
  query,        \* the statement for which it awaits a client of the pool
  store,        \* what getStore() returns in the task's code
  joins,        \* nested transaction() calls of the task that have not returned
  stage,        \* where a call of transaction() stands
  owner,        \* the task that awaits the call
  attempt,      \* how often the runner has called back for the call
  client,       \* the manager of the current attempt
  fate,         \* what the server did with the last attempt
  sideEffects,  \* the sideEffects array of the call
  cursor,       \* how many of them the loop has started
  reply,        \* what transaction() answers its caller
  holder,       \* the call whose transaction is open on a client
  failed,       \* clients whose open transaction the server has failed
  pending,      \* uncommitted writes on a client
  committed,    \* writes every reader sees
  log,          \* history: how each write was issued and where it went
  outlived      \* history: tasks whose store is of a func that has settled

callVars   == <<stage, owner, attempt, client, fate, sideEffects, cursor, reply>>
taskVars   == <<flow, query, store, joins>>
serverVars == <<holder, failed, pending, committed>>
history    == <<log, outlived>>
vars       == <<callVars, taskVars, serverVars, history>>

--------------------------------------------------------------------------------
(* State.                                                                      *)

(* The stored value of managerLocalStorage.run: the manager, and through the   *)
(* call the sideEffects array; attempt tells the stores of two attempts apart. *)
NoStore == [call |-> NoCall, client |-> NoClient, attempt |-> 0]
Store   == [call : Call, client : Client, attempt : Nat] \cup {NoStore}

Stage ==
  {"unused",    \* transaction() not called yet
   "begin",     \* the runner wants a client and sends BEGIN
   "func",      \* the user's func is running
   "commit",    \* func resolved, the runner sends COMMIT
   "rollback",  \* the runner is in its catch block and sends ROLLBACK
   "loop",      \* the runner resolved, between two side effects
   "effect",    \* a side effect is running
   "done"}      \* transaction() has settled

(* A task runs code, awaits the transaction() call it made, or a query that the*)
(* pool has not given a client yet.                                            *)
Flow == {"code", "awaits", "queries"}

Fate  == {"none", "committed", "voided", "rolledback"}
Reply == {"none", "resolved", "rejected"}

(* A side effect remembers, for the properties, the attempt that added it.     *)
Added == [effect : Effect, attempt : Nat]

(* via: not issued yet, through a builder, or through db.sql; by: the store it *)
(* was issued with; live: was the func of that store still running?  into: the *)
(* transaction it went into, NoCall when it was committed by itself.           *)
Unissued == [via |-> "none", by |-> NoStore, live |-> FALSE,
             into |-> NoCall, attempt |-> 0]
Entry == [via : {"none", "builder", "raw"}, by : Store, live : BOOLEAN,
          into : Call \cup {NoCall}, attempt : Nat]

TypeOK ==
  /\ flow \in [Task -> Flow]
  /\ query \in [Task -> Write \cup {NoQuery}]
  /\ store \in [Task -> Store]
  /\ joins \in [Task -> 0 .. MaxNesting]
  /\ stage \in [Call -> Stage]
  /\ owner \in [Call -> Task \cup {NoTask}]
  /\ attempt \in [Call -> 0 .. MaxAttempts]
  /\ client \in [Call -> Client \cup {NoClient}]
  /\ fate \in [Call -> Fate]
  /\ sideEffects \in [Call -> Seq(Added)]
  /\ cursor \in [Call -> Nat]
  /\ reply \in [Call -> Reply]
  /\ holder \in [Client -> Call \cup {NoCall}]
  /\ failed \subseteq Client
  /\ pending \in [Client -> SUBSET Write]
  /\ committed \subseteq Write
  /\ log \in [Write -> Entry]
  /\ outlived \subseteq Task

Init ==
  /\ flow = [t \in Task |-> "code"]
  /\ query = [t \in Task |-> NoQuery]
  /\ store = [t \in Task |-> NoStore]
  /\ joins = [t \in Task |-> 0]
  /\ stage = [x \in Call |-> "unused"]
  /\ owner = [x \in Call |-> NoTask]
  /\ attempt = [x \in Call |-> 0]
  /\ client = [x \in Call |-> NoClient]
  /\ fate = [x \in Call |-> "none"]
  /\ sideEffects = [x \in Call |-> <<>>]
  /\ cursor = [x \in Call |-> 0]
  /\ reply = [x \in Call |-> "none"]
  /\ holder = [c \in Client |-> NoCall]
  /\ failed = {}
  /\ pending = [c \in Client |-> {}]
  /\ committed = {}
  /\ log = [w \in Write |-> Unissued]
  /\ outlived = {}

(* Is s the store of an attempt whose func is still running?                   *)
Live(s) ==
  /\ s # NoStore
  /\ stage[s.call] = "func"
  /\ attempt[s.call] = s.attempt

(* Is t the task in which the func of x runs?                                  *)
RunsFunc(t, x) == stage[x] = "func" /\ owner[x] = t

--------------------------------------------------------------------------------
(* Calls of transaction().                                                     *)

(* getStore()?.manager is set: func runs right away, in the caller's store.    *)
(* Whether the manager's transaction is still open is not asked.  A store has  *)
(* a manager: the runner calls back with a client, which is truthy.            *)
JoinTransaction(t) ==
  /\ flow[t] = "code"
  /\ store[t] # NoStore
  /\ joins[t] < MaxNesting
  /\ joins' = [joins EXCEPT ![t] = @ + 1]
  /\ UNCHANGED <<callVars, flow, query, store, serverVars, history>>

(* Mutant: a nested call that returns twice.                                   *)
LeaveNestedUnguarded(t) ==
  /\ flow[t] = "code"
  /\ joins' = [joins EXCEPT ![t] = @ - 1]
  /\ UNCHANGED <<callVars, flow, query, store, serverVars, history>>

(* The func of a nested call returns or throws.  Either way only the caller's  *)
(* code learns of it, and may catch the error: the parent goes on.             *)
LeaveNested(t) ==
  /\ flow[t] = "code"
  /\ joins[t] > 0
  /\ joins' = [joins EXCEPT ![t] = @ - 1]
  /\ UNCHANGED <<callVars, flow, query, store, serverVars, history>>

(* Mutant: forgets to ask for a manager in the store.                          *)
StartTransactionAlways(t, x) ==
  /\ flow[t] = "code"
  /\ stage[x] = "unused"
  /\ stage' = [stage EXCEPT ![x] = "begin"]
  /\ owner' = [owner EXCEPT ![x] = t]
  /\ flow' = [flow EXCEPT ![t] = "awaits"]
  /\ UNCHANGED <<attempt, client, fate, sideEffects, cursor, reply,
                 query, store, joins, serverVars, history>>

(* No manager in the store: a sideEffects array is made and the runner called. *)
(* The config has a runner; without one every call throws and changes nothing. *)
StartTransaction(t, x) ==
  /\ flow[t] = "code"
  /\ store[t] = NoStore
  /\ stage[x] = "unused"
  /\ stage' = [stage EXCEPT ![x] = "begin"]
  /\ owner' = [owner EXCEPT ![x] = t]
  /\ flow' = [flow EXCEPT ![t] = "awaits"]
  /\ UNCHANGED <<attempt, client, fate, sideEffects, cursor, reply,
                 query, store, joins, serverVars, history>>

(* The callback of runQueriesInTransaction: managerLocalStorage.run with a new *)
(* store object, around func.  BEGIN has gone out on a client of its own.      *)
RunFunc(x, c) ==
  /\ stage[x] = "begin"
  /\ attempt[x] < MaxAttempts
  /\ holder[c] = NoCall
  /\ holder' = [holder EXCEPT ![c] = x]
  /\ client' = [client EXCEPT ![x] = c]
  /\ attempt' = [attempt EXCEPT ![x] = @ + 1]
  /\ stage' = [stage EXCEPT ![x] = "func"]
  /\ flow' = [flow EXCEPT ![owner[x]] = "code"]
  /\ store' = [store EXCEPT ![owner[x]] =
                 [call |-> x, client |-> c, attempt |-> attempt[x] + 1]]
  /\ UNCHANGED <<owner, fate, sideEffects, cursor, reply, query, joins,
                 failed, pending, committed, history>>

(* The promises of x, other than t, that are still running.                    *)
Leftover(t, x) == {u \in Task \ {t} : store[u].call = x}

(* Mutant: enterWith instead of run, which leaves the store behind.            *)
FuncSettlesKeepsStore(t, x) ==
  /\ RunsFunc(t, x)
  /\ flow[t] = "code"
  /\ joins[t] = 0
  /\ Structured => Leftover(t, x) = {}
  /\ flow' = [flow EXCEPT ![t] = "awaits"]
  /\ stage' \in {[stage EXCEPT ![x] = s] : s \in {"commit", "rollback"}}
  /\ outlived' = outlived \cup Leftover(t, x)
  /\ UNCHANGED <<owner, attempt, client, fate, sideEffects, cursor, reply,
                 query, store, joins, serverVars, log>>

(* func resolves (its value becomes result) or rejects.  The await in the      *)
(* runner's callback resumes, outside the store.                               *)
FuncSettles(t, x) ==
  /\ RunsFunc(t, x)
  /\ flow[t] = "code"
  /\ joins[t] = 0
  /\ Structured => Leftover(t, x) = {}
  /\ store' = [store EXCEPT ![t] = NoStore]
  /\ flow' = [flow EXCEPT ![t] = "awaits"]
  /\ stage' \in {[stage EXCEPT ![x] = s] : s \in {"commit", "rollback"}}
  /\ outlived' = outlived \cup Leftover(t, x)
  /\ UNCHANGED <<owner, attempt, client, fate, sideEffects, cursor, reply,
                 query, joins, serverVars, log>>

(* The promise of runQueriesInTransaction resolves: the loop is entered.       *)
EnterLoop(x) ==
  /\ stage' = [stage EXCEPT ![x] = "loop"]
  /\ UNCHANGED <<reply, flow, owner>>

(* Mutant: the loop runs in a finally block.                                   *)
RejectThroughLoop(x) == EnterLoop(x)

(* The promise of runQueriesInTransaction rejects, and transaction() with it.  *)
Reject(x) ==
  /\ stage' = [stage EXCEPT ![x] = "done"]
  /\ reply' = [reply EXCEPT ![x] = "rejected"]
  /\ flow' = [flow EXCEPT ![owner[x]] = "code"]
  /\ owner' = [owner EXCEPT ![x] = NoTask]

(* Mutant: the loop does not advance.                                          *)
StartEffectAgain(x) ==
  /\ stage[x] = "loop"
  /\ cursor[x] < Len(sideEffects[x])
  /\ stage' = [stage EXCEPT ![x] = "effect"]
  /\ UNCHANGED <<owner, attempt, client, fate, sideEffects, cursor, reply,
                 taskVars, serverVars, history>>

(* for (const sideEffect of sideEffects) { await sideEffect(); }               *)
StartEffect(x) ==
  /\ stage[x] = "loop"
  /\ cursor[x] < Len(sideEffects[x])
  /\ cursor' = [cursor EXCEPT ![x] = @ + 1]
  /\ stage' = [stage EXCEPT ![x] = "effect"]
  /\ UNCHANGED <<owner, attempt, client, fate, sideEffects, reply,
                 taskVars, serverVars, history>>

EffectResolves(x) ==
  /\ stage[x] = "effect"
  /\ stage' = [stage EXCEPT ![x] = "loop"]
  /\ UNCHANGED <<owner, attempt, client, fate, sideEffects, cursor, reply,
                 taskVars, serverVars, history>>

(* Mutant: the error of a side effect is swallowed with the rest of the loop.  *)
EffectRejectionSwallowed(x) ==
  /\ stage[x] = "effect"
  /\ stage' = [stage EXCEPT ![x] = "done"]
  /\ reply' = [reply EXCEPT ![x] = "resolved"]
  /\ flow' = [flow EXCEPT ![owner[x]] = "code"]
  /\ owner' = [owner EXCEPT ![x] = NoTask]
  /\ UNCHANGED <<attempt, client, fate, sideEffects, cursor, query, store, joins,
                 serverVars, history>>

(* The rejection leaves the loop: the side effects behind it never run.        *)
EffectRejects(x) ==
  /\ stage[x] = "effect"
  /\ Reject(x)
  /\ UNCHANGED <<attempt, client, fate, sideEffects, cursor, query, store, joins,
                 serverVars, history>>

ReturnResult(x) ==
  /\ stage[x] = "loop"
  /\ cursor[x] = Len(sideEffects[x])
  /\ stage' = [stage EXCEPT ![x] = "done"]
  /\ reply' = [reply EXCEPT ![x] = "resolved"]
  /\ flow' = [flow EXCEPT ![owner[x]] = "code"]
  /\ owner' = [owner EXCEPT ![x] = NoTask]
  /\ UNCHANGED <<attempt, client, fate, sideEffects, cursor, query, store, joins,
                 serverVars, history>>

--------------------------------------------------------------------------------
(* The runner the user supplies, and the server.  Neither is in the            *)
(* repository; the runner is modelled from docs/overview.md and from the one   *)
(* tests/run-in-transaction.test.ts uses, with a client per open transaction.  *)

(* BEGIN fails, or no connection is to be had.                                 *)
BeginFails(x) ==
  /\ stage[x] = "begin"
  /\ Reject(x)
  /\ UNCHANGED <<attempt, client, fate, sideEffects, cursor, query, store, joins,
                 serverVars, history>>

(* The transaction on the client of x is over and the client free again.       *)
Release(x) ==
  /\ holder' = [holder EXCEPT ![client[x]] = NoCall]
  /\ pending' = [pending EXCEPT ![client[x]] = {}]
  /\ failed' = failed \ {client[x]}
  /\ client' = [client EXCEPT ![x] = NoClient]

RunnerSettles(x, end) ==
  IF end \in ResolvesAfter THEN EnterLoop(x) ELSE Reject(x)

CommitSucceeds(x) ==
  /\ stage[x] = "commit"
  /\ client[x] \notin failed
  /\ committed' = committed \cup pending[client[x]]
  /\ fate' = [fate EXCEPT ![x] = "committed"]
  /\ Release(x)
  /\ RunnerSettles(x, "commit")
  /\ UNCHANGED <<attempt, sideEffects, cursor, query, store, joins, history>>

(* COMMIT of a failed transaction: the server answers ROLLBACK, without error. *)
CommitVoided(x) ==
  /\ stage[x] = "commit"
  /\ client[x] \in failed
  /\ fate' = [fate EXCEPT ![x] = "voided"]
  /\ Release(x)
  /\ RunnerSettles(x, "void")
  /\ UNCHANGED <<attempt, sideEffects, cursor, query, store, joins, committed, history>>

(* The server commits, but the answer is lost: the runner takes its catch      *)
(* block, whose ROLLBACK finds nothing to undo.                                *)
CommitAnswerLost(x) ==
  /\ stage[x] = "commit"
  /\ client[x] \notin failed
  /\ committed' = committed \cup pending[client[x]]
  /\ fate' = [fate EXCEPT ![x] = "committed"]
  /\ Release(x)
  /\ RunnerSettles(x, "rollback")
  /\ UNCHANGED <<attempt, sideEffects, cursor, query, store, joins, history>>

(* COMMIT is refused (a serialization failure): the runner takes its catch     *)
(* block.                                                                      *)
CommitRefused(x) ==
  /\ stage[x] = "commit"
  /\ stage' = [stage EXCEPT ![x] = "rollback"]
  /\ UNCHANGED <<owner, attempt, client, fate, sideEffects, cursor, reply,
                 taskVars, serverVars, history>>

(* ROLLBACK; then the runner settles, or calls its callback once more.         *)
RollBack(x) ==
  /\ stage[x] = "rollback"
  /\ fate' = [fate EXCEPT ![x] = "rolledback"]
  /\ Release(x)
  /\ \/ RunnerSettles(x, "rollback")
     \/ /\ attempt[x] < MaxAttempts
        /\ stage' = [stage EXCEPT ![x] = "begin"]
        /\ UNCHANGED <<reply, flow, owner>>
  /\ UNCHANGED <<attempt, sideEffects, cursor, query, store, joins, committed, history>>

--------------------------------------------------------------------------------
(* The code of a task: what it does in func, in nested calls, in promises it   *)
(* started, and outside of transactions.                                       *)

(* What the history says of a statement that goes into a transaction, or none. *)
Issued(t, via, into) ==
  [via |-> via, by |-> store[t], live |-> Live(store[t]), into |-> into,
   attempt |-> IF into = NoCall THEN 0 ELSE attempt[into]]

(* A statement on client c: into the transaction open there, or committed by   *)
(* itself when there is none.  Statements of a failed transaction are refused  *)
(* and leave no trace.                                                         *)
Execute(t, w, c, via) ==
  /\ c \notin failed
  /\ log' = [log EXCEPT ![w] = Issued(t, via, holder[c])]
  /\ IF holder[c] = NoCall
     THEN /\ committed' = committed \cup {w}
          /\ UNCHANGED pending
     ELSE /\ pending' = [pending EXCEPT ![c] = @ \cup {w}]
          /\ UNCHANGED committed
  /\ UNCHANGED <<callVars, taskVars, holder, failed, outlived>>

(* A statement for the pool: its task awaits a client.                         *)
AskPool(t, w, via) ==
  /\ log' = [log EXCEPT ![w] = Issued(t, via, NoCall)]
  /\ flow' = [flow EXCEPT ![t] = "queries"]
  /\ query' = [query EXCEPT ![t] = w]
  /\ UNCHANGED <<callVars, store, joins, serverVars, outlived>>

(* config.query of the documentation: manager ?? pool.                         *)
Query(t, w, manager, via) ==
  IF manager = NoClient THEN AskPool(t, w, via) ELSE Execute(t, w, manager, via)

(* Mutant: the builder does not hand the manager to config.query.              *)
RunQueryWithoutManager(t, w) ==
  /\ flow[t] = "code"
  /\ log[w] = Unissued
  /\ Query(t, w, NoClient, "builder")

(* A builder is awaited: config.query(name, sql, getStore()?.manager).         *)
RunQuery(t, w) ==
  /\ flow[t] = "code"
  /\ log[w] = Unissued
  /\ Query(t, w, store[t].client, "builder")

(* db.sql: config.query('raw_query', sql), with no manager, in a block too.    *)
RunRawSql(t, w) ==
  /\ flow[t] = "code"
  /\ log[w] = Unissued
  /\ Query(t, w, NoClient, "raw")

(* The pool has a client free: the statement is committed by itself.           *)
PoolServes(t) ==
  /\ flow[t] = "queries"
  /\ \E c \in Client : holder[c] = NoCall
  /\ committed' = committed \cup {query[t]}
  /\ flow' = [flow EXCEPT ![t] = "code"]
  /\ query' = [query EXCEPT ![t] = NoQuery]
  /\ UNCHANGED <<callVars, store, joins, holder, failed, pending, history>>

(* The pool gives no client in time, or the server rejects the statement.      *)
PoolRefuses(t) ==
  /\ flow[t] = "queries"
  /\ flow' = [flow EXCEPT ![t] = "code"]
  /\ query' = [query EXCEPT ![t] = NoQuery]
  /\ UNCHANGED <<callVars, store, joins, serverVars, history>>

(* The server rejects a statement, and with it the transaction it was in.      *)
QueryFails(t) ==
  /\ flow[t] = "code"
  /\ store[t].client # NoClient
  /\ holder[store[t].client] # NoCall
  /\ failed' = failed \cup {store[t].client}
  /\ UNCHANGED <<callVars, taskVars, holder, pending, committed, history>>

(* Mutant: unshift instead of push.                                            *)
AddTransactionSideEffectFirst(t, e) ==
  /\ flow[t] = "code"
  /\ store[t] # NoStore
  /\ \A x \in Call : \A i \in 1 .. Len(sideEffects[x]) : sideEffects[x][i].effect # e
  /\ sideEffects' = [sideEffects EXCEPT ![store[t].call] =
                       <<[effect |-> e, attempt |-> store[t].attempt]>> \o @]
  /\ UNCHANGED <<stage, owner, attempt, client, fate, cursor, reply,
                 taskVars, serverVars, history>>

(* db.addTransactionSideEffect; without a store it throws and nothing changes. *)
AddTransactionSideEffect(t, e) ==
  /\ flow[t] = "code"
  /\ store[t] # NoStore
  /\ \A x \in Call : \A i \in 1 .. Len(sideEffects[x]) : sideEffects[x][i].effect # e
  /\ sideEffects' = [sideEffects EXCEPT ![store[t].call] =
                       Append(@, [effect |-> e, attempt |-> store[t].attempt])]
  /\ UNCHANGED <<stage, owner, attempt, client, fate, cursor, reply,
                 taskVars, serverVars, history>>

(* The code of t starts a promise u and goes on; u inherits the store.         *)
Spawn(t, u) ==
  /\ flow[t] = "code" /\ flow[u] = "code"
  /\ store[t] # NoStore
  /\ store[u] = NoStore
  /\ store' = [store EXCEPT ![u] = store[t]]
  /\ outlived' = IF t \in outlived THEN outlived \cup {u} ELSE outlived
  /\ UNCHANGED <<callVars, flow, query, joins, serverVars, log>>

(* A promise that inherited a store settles.                                   *)
Finish(u) ==
  /\ flow[u] = "code"
  /\ store[u] # NoStore
  /\ ~ RunsFunc(u, store[u].call)
  /\ joins[u] = 0
  /\ store' = [store EXCEPT ![u] = NoStore]
  /\ outlived' = outlived \ {u}
  /\ UNCHANGED <<callVars, flow, query, joins, serverVars, log>>

--------------------------------------------------------------------------------
Runner(x) ==
  \/ \E c \in Client : RunFunc(x, c)
  \/ BeginFails(x)
  \/ CommitSucceeds(x) \/ CommitVoided(x) \/ CommitAnswerLost(x) \/ CommitRefused(x)
  \/ RollBack(x)

Loop(x) == StartEffect(x) \/ EffectResolves(x) \/ EffectRejects(x) \/ ReturnResult(x)

Code(t) ==
  \/ JoinTransaction(t) \/ LeaveNested(t)
  \/ \E x \in Call : StartTransaction(t, x) \/ FuncSettles(t, x)
  \/ \E w \in Write : RunQuery(t, w) \/ RunRawSql(t, w)
  \/ PoolServes(t) \/ PoolRefuses(t) \/ QueryFails(t)
  \/ \E e \in Effect : AddTransactionSideEffect(t, e)
  \/ \E u \in Task : Spawn(t, u)
  \/ Finish(t)

(* The application may stop between requests, when no call is under way.       *)
Idle ==
  /\ \A x \in Call : stage[x] \in {"unused", "done"}
  /\ UNCHANGED vars

Next ==
  \/ \E x \in Call : Runner(x) \/ Loop(x)
  \/ \E t \in Task : Code(t)
  \/ Idle

Spec == Init /\ [][Next]_vars
--------------------------------------------------------------------------------
(* Correctness.                                                                *)

(* A query issued through a builder inside a transaction block, by func itself,*)
(* by a nested call or by a promise started there, is durable exactly when the *)
(* attempt it was issued in is the one that committed: it went through the     *)
(* manager of its own block, however tasks interleave and clients are reused.  *)
BlockIsAtomic ==
  \A w \in Write :
    LET s == log[w].by
    IN  log[w].via = "builder" /\ log[w].live =>
          (w \in committed <=> /\ fate[s.call] = "committed"
                               /\ attempt[s.call] = s.attempt)

(* A side effect starts only after its transaction has been committed.         *)
EffectsFollowCommit ==
  \A x \in Call : cursor[x] > 0 => fate[x] = "committed"

(* transaction() resolves only when its writes are committed and every side    *)
(* effect that was added has been run: none is lost.                           *)
ResolvedMeansDone ==
  \A x \in Call :
    reply[x] = "resolved" => fate[x] = "committed" /\ cursor[x] = Len(sideEffects[x])

(* The store that code sees is that of an attempt whose func is running, on a  *)
(* client that still has its transaction open.  The one exception are promises *)
(* that func left running when it settled: they, and what they start, see a    *)
(* store that is over, and it never becomes that of a later attempt.           *)
StoresAreLive ==
  \A t \in Task : store[t] # NoStore =>
    /\ Live(store[t]) <=> t \notin outlived
    /\ Live(store[t]) => holder[store[t].client] = store[t].call

(* A task in a block that holds a client waits for no client: nested calls     *)
(* join and builders use the manager, so that blocks cannot starve each other  *)
(* of the clients of a pool.  The exception is a db.sql in the block, which    *)
(* takes no manager and does wait.                                             *)
NoHoldAndWait ==
  \A t \in Task, x \in Call :
    client[x] # NoClient /\ (owner[x] = t \/ store[t].call = x) =>
      /\ \A y \in Call : owner[y] = t => stage[y] # "begin"
      /\ flow[t] = "queries" => log[query[t]].via = "raw"

(* Writes become durable together at commit, side effects fire in order and    *)
(* after commit: the detailed specification implements the contract.           *)
StatusOf(s) ==
  CASE s = "unused" -> "idle"
    [] s \in {"begin", "func", "commit", "rollback"} -> "active"
    [] s \in {"loop", "effect"} -> "committed"
    [] OTHER -> "answered"

contractStatus == [x \in Call |-> StatusOf(stage[x])]

contractStaged ==
  [x \in Call |-> IF client[x] = NoClient THEN {} ELSE pending[client[x]]]

contractAdded ==
  [x \in Call |-> [i \in 1 .. Len(sideEffects[x]) |-> sideEffects[x][i].effect]]

Contract == INSTANCE TransactionContract WITH
  status <- contractStatus, staged <- contractStaged, durable <- committed,
  added <- contractAdded, fired <- cursor

ImplementsContract == Contract!ContractSpec

(* Once func has settled, transaction() settles.                               *)
CallSettles ==
  \A x \in Call : stage[x] \in {"commit", "rollback"} ~> stage[x] = "done"

(* The runner's promise settles (server and driver answer), and so does that   *)
(* of every side effect; the event loop runs what is ready.  Nothing is        *)
(* assumed of the application's func.                                          *)
FairSpec ==
  /\ Spec
  /\ \A x \in Call : WF_vars(Runner(x)) /\ WF_vars(Loop(x))
--------------------------------------------------------------------------------
(* The inductive invariant of the proofs (TransactionProofs).                  *)

(* How calls, tasks and clients are linked.  Type correctness needs it: COMMIT *)
(* publishes what is pending on the client of the call, which must be one.     *)

Holding   == {"func", "commit", "rollback"}   \* stages of a call with a client
Awaiting  == {"begin", "commit", "rollback", "loop", "effect"}

(* A call has a client exactly while its transaction is open there.            *)
ClientLink ==
  /\ \A x \in Call : client[x] # NoClient <=> stage[x] \in Holding
  /\ \A x \in Call : client[x] # NoClient => holder[client[x]] = x
  /\ \A c \in Client : holder[c] # NoCall => client[holder[c]] = c

(* A call under way has an owner, which awaits it with no store, or runs func  *)
(* with the store of the current attempt.  A task owns one call at a time.     *)
OwnerLink ==
  /\ \A x \in Call : owner[x] # NoTask <=> stage[x] \in Awaiting \cup {"func"}
  /\ \A x \in Call : stage[x] \in Awaiting =>
       flow[owner[x]] = "awaits" /\ store[owner[x]] = NoStore
  /\ \A x \in Call : stage[x] = "func" =>
       /\ flow[owner[x]] # "awaits"
       /\ store[owner[x]] = [call |-> x, client |-> client[x], attempt |-> attempt[x]]
  /\ \A x, y \in Call : owner[x] = owner[y] /\ owner[x] # NoTask => x = y

Links == ClientLink /\ OwnerLink

(* A task's store names an attempt the runner has begun, with its client.      *)
StoreLink ==
  \A t \in Task : store[t] # NoStore =>
    LET s == store[t]
    IN  /\ s.attempt \in 1 .. attempt[s.call]
        /\ s.attempt = attempt[s.call] /\ client[s.call] # NoClient
             => s.client = client[s.call]

(* A task's store is over exactly when the func it was made for has settled.   *)
OutlivedLink ==
  \A t \in Task :
    /\ store[t] = NoStore => t \notin outlived
    /\ store[t] # NoStore => (Live(store[t]) <=> t \notin outlived)

(* The pool is asked by db.sql, and by builders outside of transactions.       *)
WaitLink ==
  \A t \in Task : flow[t] = "queries" =>
    /\ query[t] \in Write
    /\ log[query[t]].via \in {"builder", "raw"} /\ log[query[t]].into = NoCall
    /\ log[query[t]].via = "builder" => store[t] = NoStore

(* Where the writes are.  One that went into a transaction is pending there    *)
(* while the attempt lasts, and committed exactly when that attempt committed. *)
WriteLink ==
  /\ \A x \in Call : fate[x] = "committed" => stage[x] \in {"loop", "effect", "done"}
  /\ \A x \in Call : client[x] # NoClient => attempt[x] > 0
  /\ \A w \in Write : log[w].into = NoCall => \A c \in Client : w \notin pending[c]
  /\ \A w \in Write : log[w] = Unissued => w \notin committed
  /\ \A w \in Write : log[w].into # NoCall =>
       LET x == log[w].into
           now == log[w].attempt = attempt[x]
       IN  /\ log[w].attempt \in 1 .. attempt[x]
           /\ w \in committed <=> fate[x] = "committed" /\ now
           /\ now /\ client[x] # NoClient => w \in pending[client[x]]
           /\ \A c \in Client : w \in pending[c] => holder[c] = x /\ now

(* A builder's query of a running block went into the transaction of the block.*)
QueryLink ==
  \A w \in Write : log[w].via = "builder" /\ log[w].live =>
    /\ log[w].by # NoStore
    /\ log[w].into = log[w].by.call
    /\ log[w].attempt = log[w].by.attempt

(* With a runner that resolves only when its COMMIT took effect, the loop is   *)
(* reached only by committed calls.                                            *)
EffectLink ==
  /\ \A x \in Call : stage[x] \in {"loop", "effect"} => fate[x] = "committed"
  /\ \A x \in Call : cursor[x] > 0 =>
       fate[x] = "committed" /\ stage[x] \in {"loop", "effect", "done"}

(* A call that has answered "resolved" is over, and no side effect is left. *)
ReplyLink ==
  \A x \in Call : reply[x] = "resolved" =>
    /\ stage[x] = "done" /\ fate[x] = "committed"
    /\ cursor[x] = Len(sideEffects[x])

IInv ==
  /\ TypeOK /\ Links
  /\ StoreLink /\ OutlivedLink
  /\ WaitLink /\ WriteLink /\ QueryLink
================================================================================
