------------------------- MODULE TransactionContract -------------------------
(***************************************************************************)
(* What db.transaction() and db.addTransactionSideEffect() promise, with   *)
(* no task, client, runner or AsyncLocalStorage in sight:                  *)
(*                                                                         *)
(*   - the writes staged by a call become durable together, when the call  *)
(*     commits, or never;                                                  *)
(*   - the side effects of a call fire in the order they were added, each  *)
(*     once, and only after the call committed;                            *)
(*   - nothing starts to fire once the call has answered its caller.       *)
(***************************************************************************)
EXTENDS Naturals, Sequences

CONSTANTS
  Call,    \* calls of transaction() that open a transaction of their own
  Write,   \* data changing statements
  Effect   \* side effect callbacks

VARIABLES
  status,    \* where each call stands
  staged,    \* writes of the call that only its own transaction can see
  durable,   \* writes every reader sees
  added,     \* side effects of the call, in the order they were added
  fired      \* how many of them have been started

contractVars == <<status, staged, durable, added, fired>>

Status == {"idle", "active", "committed", "answered"}

ContractInit ==
  /\ status  = [x \in Call |-> "idle"]
  /\ staged  = [x \in Call |-> {}]
  /\ durable = {}
  /\ added   = [x \in Call |-> <<>>]
  /\ fired   = [x \in Call |-> 0]

(* A caller invokes transaction(). *)
Open(x) ==
  /\ status[x] = "idle"
  /\ status' = [status EXCEPT ![x] = "active"]
  /\ UNCHANGED <<staged, durable, added, fired>>

(* A write joins the transaction of x. *)
Stage(x, w) ==
  /\ status[x] = "active"
  /\ staged' = [staged EXCEPT ![x] = @ \cup {w}]
  /\ UNCHANGED <<status, durable, added, fired>>

(* A write outside every transaction is durable at once. *)
AutoCommit(w) ==
  /\ durable' = durable \cup {w}
  /\ UNCHANGED <<status, staged, added, fired>>

(* All staged writes of x become durable in one step. *)
CommitAll(x) ==
  /\ status[x] = "active"
  /\ durable' = durable \cup staged[x]
  /\ staged' = [staged EXCEPT ![x] = {}]
  /\ status' \in {[status EXCEPT ![x] = s] : s \in {"committed", "answered"}}
  /\ UNCHANGED <<added, fired>>

(* All staged writes of x are forgotten; the call may be tried again. *)
DiscardAll(x) ==
  /\ status[x] = "active"
  /\ staged' = [staged EXCEPT ![x] = {}]
  /\ status' \in {[status EXCEPT ![x] = s] : s \in {"active", "answered"}}
  /\ UNCHANGED <<durable, added, fired>>

(* A side effect is added to x. *)
Add(x, e) ==
  /\ status[x] # "idle"
  /\ added' = [added EXCEPT ![x] = Append(@, e)]
  /\ UNCHANGED <<status, staged, durable, fired>>

(* The next side effect of x starts, in the order of the list. *)
Fire(x) ==
  /\ status[x] = "committed"
  /\ fired[x] < Len(added[x])
  /\ fired' = [fired EXCEPT ![x] = @ + 1]
  /\ UNCHANGED <<status, staged, durable, added>>

(* The call resolves or rejects. *)
Answer(x) ==
  /\ status[x] \in {"active", "committed"}
  /\ staged[x] = {}
  /\ status' = [status EXCEPT ![x] = "answered"]
  /\ UNCHANGED <<staged, durable, added, fired>>

ContractNext ==
  \/ \E x \in Call :
       \/ Open(x) \/ CommitAll(x) \/ DiscardAll(x) \/ Fire(x) \/ Answer(x)
       \/ \E w \in Write : Stage(x, w)
       \/ \E e \in Effect : Add(x, e)
  \/ \E w \in Write : AutoCommit(w)

ContractSpec == ContractInit /\ [][ContractNext]_contractVars
==============================================================================
