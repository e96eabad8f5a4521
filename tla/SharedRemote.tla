---------------------------- MODULE SharedRemote ----------------------------
(* Two workspaces that configure the same `common' remote: two backups, each *)
(* with its clone, its user and its failures (SyncAsset), over one branch.   *)
(* To each the other is what the colleague is in SyncAsset, with the         *)
(* difference that it merges too, and every conflict in its own favour.      *)
(* They meet only in the remote's branch, which only grows, so two of their  *)
(* commits still have one latest common ancestor, as GitRepo!MergeBase has   *)
(* it.                                                                       *)
EXTENDS Naturals

CONSTANTS
    Files, Contents, Marked, Absent, BaseTree,
    FailAt, RaiseAt, KillAt,
    HereTo, ThereTo,            \* what each user may save in a file
    HereBudget, ThereBudget

VARIABLES
    history, remote,
    headH, tipH, workH, indexH, unmergedH, mergingH, mergerH, trackingH,
    lockH, lockOldH, pcH, keptH, removedH, changedH, outcomeH, stoppingH,
    budgetH, unsavedH, touchedH, openBeforeH,
    headT, tipT, workT, indexT, unmergedT, mergingT, mergerT, trackingT,
    lockT, lockOldT, pcT, keptT, removedT, changedT, outcomeT, stoppingT,
    budgetT, unsavedT, touchedT, openBeforeT

hereVars ==
    <<headH, tipH, workH, indexH, unmergedH, mergingH, mergerH, trackingH,
      lockH, lockOldH, pcH, keptH, removedH, changedH, outcomeH, stoppingH,
      budgetH, unsavedH, touchedH, openBeforeH>>
thereVars ==
    <<headT, tipT, workT, indexT, unmergedT, mergingT, mergerT, trackingT,
      lockT, lockOldT, pcT, keptT, removedT, changedT, outcomeT, stoppingT,
      budgetT, unsavedT, touchedT, openBeforeT>>
vars == <<history, remote, hereVars, thereVars>>

Here == INSTANCE SyncAsset WITH
    SideTree <- BaseTree, EditTo <- HereTo, PushTo <- {}, UserGit <- {},
    Budget <- HereBudget,
    head <- headH, tip <- tipH, work <- workH, index <- indexH,
    unmerged <- unmergedH, merging <- mergingH, merger <- mergerH,
    tracking <- trackingH, lock <- lockH, lockOld <- lockOldH, pc <- pcH,
    kept <- keptH, removed <- removedH, changed <- changedH,
    outcome <- outcomeH, stopping <- stoppingH, budget <- budgetH,
    unsaved <- unsavedH, touched <- touchedH,
    openBefore <- openBeforeH

There == INSTANCE SyncAsset WITH
    SideTree <- BaseTree, EditTo <- ThereTo, PushTo <- {}, UserGit <- {},
    Budget <- ThereBudget,
    head <- headT, tip <- tipT, work <- workT, index <- indexT,
    unmerged <- unmergedT, merging <- mergingT, merger <- mergerT,
    tracking <- trackingT, lock <- lockT, lockOld <- lockOldT, pc <- pcT,
    kept <- keptT, removed <- removedT, changed <- changedT,
    outcome <- outcomeT, stopping <- stoppingT, budget <- budgetT,
    unsaved <- unsavedT, touched <- touchedT,
    openBefore <- openBeforeT

ASSUME SharersAssumption ==
    /\ Absent \notin Contents /\ Marked \notin Contents /\ Marked # Absent
    /\ BaseTree \in Here!Tree
    /\ HereTo \subseteq Here!Versions /\ ThereTo \subseteq Here!Versions
    /\ FailAt \subseteq Here!Steps /\ RaiseAt \subseteq Here!Steps
    /\ KillAt \subseteq Here!Steps
    /\ HereBudget \in [Here!Spendings -> Nat]
    /\ ThereBudget \in [Here!Spendings -> Nat]

Init == Here!Init /\ There!Init

\* A user saves nothing that is in the history already.
NewIn(f, v) == \A c \in Here!Commits : Here!TreeOf(c)[f] # v

HereStep ==
    /\ \/ Here!Service \/ Here!FaultStep
       \/ \E f \in Files, v \in HereTo : NewIn(f, v) /\ Here!UserEdits(f, v)
    /\ UNCHANGED thereVars
ThereStep ==
    /\ \/ There!Service \/ There!FaultStep
       \/ \E f \in Files, v \in ThereTo : NewIn(f, v) /\ There!UserEdits(f, v)
    /\ UNCHANGED hereVars

Next == HereStep \/ ThereStep

Spec == Init /\ [][Next]_vars

(* Each service runs on, whatever the other does.                            *)
FairSpec == Spec /\ Here!Fairness /\ There!Fairness

-----------------------------------------------------------------------------
(* Properties.                                                               *)

(* To each workspace the other is a colleague who changes the remote: both   *)
(* implement the two replicas of one history over the same remote, and what  *)
(* one published the other never drops.                                      *)
BothReplicate == Here!ReplicatesHistory /\ There!ReplicatesHistory

(* Whatever one workspace merges in its own favour, nothing is undone: the   *)
(* remote's version of a file is replaced only by one it never held before.  *)
NothingReverted ==
    [][\A f \in Files :
         Here!TreeOf(remote)[f] # history'[remote'].tree[f] =>
           \A c \in Here!Anc(remote) :
              Here!TreeOf(c)[f] # history'[remote'].tree[f]]_vars

(* Though each resolves every conflict in favour of its own files, the two   *)
(* do not overwrite each other for ever: once both users stop, both clones   *)
(* and the remote hold the same commit and the same files, for good.         *)
BothInSync ==
    <>[](/\ workH = workT /\ workH = Here!TreeOf(remote)
         /\ tipH["branch"] = remote /\ tipT["branch"] = remote)
====
