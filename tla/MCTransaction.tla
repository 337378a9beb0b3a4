----------------------------- MODULE MCTransaction -----------------------------
(* Small instances of Transaction for TLC.                                     *)
EXTENDS Transaction, TLC

CONSTANTS t1, t2, t3, x1, x2, c1, c2, w1, w2, e1, e2

TwoTasks   == {t1, t2}
ThreeTasks == {t1, t2, t3}
TwoCalls   == {x1, x2}
OneClient  == {c1}
TwoClients == {c1, c2}
OneWrite   == {w1}
TwoWrites  == {w1, w2}
OneEffect  == {e1}
TwoEffects == {e1, e2}

(* A runner that resolves only when its COMMIT has taken effect.               *)
Honest == {"commit"}
(* The runner of docs/overview.md: its catch block logs the error and returns. *)
Documented == {"commit", "void", "rollback"}

(* Tasks, calls, clients, writes and side effects are interchangeable.         *)
Symmetry ==
  Permutations(Task) \cup Permutations(Call) \cup Permutations(Client)
    \cup Permutations(Write) \cup Permutations(Effect)
================================================================================
