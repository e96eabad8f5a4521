---------------------------- MODULE MCSyncAsset ----------------------------
(* Instances of SyncAsset for TLC: two files, what user and colleague write, *)
(* and how much of everything a behaviour may hold.                          *)
EXTENDS SyncAsset

CONSTANTS f1, f2, old, mine, pushed, side

MCBaseTree == [f \in Files |-> old]
MCSideTree == [f \in Files |-> IF f = f1 THEN side ELSE old]

Spending(edit, push, rewrite, git, fault, restart) ==
    [edit |-> edit, push |-> push, rewrite |-> rewrite, git |-> git,
     fault |-> fault, restart |-> restart]

EditsBudget == Spending(2, 1, 0, 1, 1, 1)
UserBudget == Spending(1, 1, 0, 2, 1, 0)
LockBudget == Spending(2, 1, 0, 1, 0, 0)
LiveBudget == Spending(2, 1, 1, 0, 1, 0)

NoSteps == {}
AllSteps == Steps
FailSteps == GitSteps
MergeSteps == {"merge"} \cup MergeWindow

\* Outside the merge and its resolution, where what is left open blocks every
\* later cycle; git's refusal to merge leaves nothing.
LiveFailSteps == {"check", "reset", "fetch", "merge", "push"}
LiveRaiseSteps == {"commit", "fetch", "push"}
LiveKillSteps == {"add", "reset", "commit", "fetch", "push"}
====
