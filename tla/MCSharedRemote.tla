--------------------------- MODULE MCSharedRemote ---------------------------
(* SharedRemote for TLC: two files, an edit in each and a failure in one.    *)
EXTENDS SharedRemote

CONSTANTS f1, f2, old

MCBaseTree == [f \in Files |-> old]
Spending(edit, fault) ==
    [edit |-> edit, push |-> 0, rewrite |-> 0, git |-> 0, fault |-> fault,
     restart |-> 0]
MCHereBudget == Spending(1, 1)
MCThereBudget == Spending(1, 0)
MCFailAt == {"fetch", "ours", "merge"}
MCRaiseAt == {"fetch", "push"}
MCKillAt == {"push", "commit"}
====
