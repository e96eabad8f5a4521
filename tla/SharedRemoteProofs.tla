------------------------- MODULE SharedRemoteProofs -------------------------
(* Two workspaces on one branch, for any users, failures and kills: each is  *)
(* a SharerProofs, and to each the other is the somebody else of that        *)
(* module.                                                                   *)
EXTENDS SharedRemote, TLAPS

HereP == INSTANCE SharerProofs WITH
    SideTree <- BaseTree, EditTo <- HereTo, PushTo <- {}, UserGit <- {},
    Budget <- HereBudget,
    head <- headH, tip <- tipH, work <- workH, index <- indexH,
    unmerged <- unmergedH, merging <- mergingH, merger <- mergerH,
    tracking <- trackingH, lock <- lockH, lockOld <- lockOldH, pc <- pcH,
    kept <- keptH, removed <- removedH, changed <- changedH,
    outcome <- outcomeH, stopping <- stoppingH, budget <- budgetH,
    unsaved <- unsavedH, touched <- touchedH,
    openBefore <- openBeforeH

ThereP == INSTANCE SharerProofs WITH
    SideTree <- BaseTree, EditTo <- ThereTo, PushTo <- {}, UserGit <- {},
    Budget <- ThereBudget,
    head <- headT, tip <- tipT, work <- workT, index <- indexT,
    unmerged <- unmergedT, merging <- mergingT, merger <- mergerT,
    tracking <- trackingT, lock <- lockT, lockOld <- lockOldT, pc <- pcT,
    kept <- keptT, removed <- removedT, changed <- changedT,
    outcome <- outcomeT, stopping <- stoppingT, budget <- budgetT,
    unsaved <- unsavedT, touched <- touchedT,
    openBefore <- openBeforeT

-----------------------------------------------------------------------------
(* SharedRemote's workspaces are those of SharerProofs.                      *)

LEMMA HereAssumption ==
    /\ Absent \notin Contents /\ Marked \notin Contents /\ Marked # Absent
    /\ FailAt \subseteq HereP!Steps /\ RaiseAt \subseteq HereP!Steps
    /\ KillAt \subseteq HereP!Steps
    /\ HereBudget \in [HereP!Spendings -> Nat]
    /\ BaseTree \in HereP!Tree /\ BaseTree \in HereP!Tree
    /\ HereTo \subseteq HereP!Versions /\ {} \subseteq HereP!Versions
    /\ {} \subseteq {"merge", "switch", "commit", "lock"}
BY SharersAssumption
   DEF Here!Tree, Here!Versions, Here!Steps, Here!Spendings, Here!GateSteps,
       Here!CommitSteps, Here!PullSteps, Here!TryBlock, Here!PushSteps,
       HereP!Tree, HereP!Versions, HereP!Steps, HereP!Spendings,
       HereP!GateSteps, HereP!CommitSteps, HereP!PullSteps, HereP!TryBlock,
       HereP!PushSteps

LEMMA ThereAssumption ==
    /\ Absent \notin Contents /\ Marked \notin Contents /\ Marked # Absent
    /\ FailAt \subseteq ThereP!Steps /\ RaiseAt \subseteq ThereP!Steps
    /\ KillAt \subseteq ThereP!Steps
    /\ ThereBudget \in [ThereP!Spendings -> Nat]
    /\ BaseTree \in ThereP!Tree /\ BaseTree \in ThereP!Tree
    /\ ThereTo \subseteq ThereP!Versions /\ {} \subseteq ThereP!Versions
    /\ {} \subseteq {"merge", "switch", "commit", "lock"}
BY SharersAssumption
   DEF Here!Tree, Here!Versions, Here!Steps, Here!Spendings, Here!GateSteps,
       Here!CommitSteps, Here!PullSteps, Here!TryBlock, Here!PushSteps,
       ThereP!Tree, ThereP!Versions, ThereP!Steps, ThereP!Spendings,
       ThereP!GateSteps, ThereP!CommitSteps, ThereP!PullSteps,
       ThereP!TryBlock, ThereP!PushSteps

LEMMA HereSteps ==
    /\ Here!Init => HereP!Init
    /\ HereStep => HereP!OwnStep
BY DEF HereStep, NewIn, Here!Commits, HereP!OwnStep, HereP!New, HereP!Commits,
       Here!refVars, HereP!refVars, Here!fileVars, HereP!fileVars,
       Here!mergeVars, HereP!mergeVars, Here!repoVars, HereP!repoVars,
       Here!netVars, HereP!netVars, Here!lockVars, HereP!lockVars, Here!Heads,
       HereP!Heads, Here!Anc, HereP!Anc, Here!TreeOf, HereP!TreeOf,
       Here!HeadTree, HereP!HeadTree, Here!Commit, HereP!Commit, Here!NextId,
       HereP!NextId, Here!Record, HereP!Record, Here!MergeBase,
       HereP!MergeBase, Here!ConflictsOf, HereP!ConflictsOf, Here!ThreeWay,
       HereP!ThreeWay, Here!MergedFile, HereP!MergedFile, Here!Changes,
       HereP!Changes, Here!StageAll, HereP!StageAll, Here!Unstage,
       HereP!Unstage, Here!CanCommit, HereP!CanCommit, Here!CommitIndex,
       HereP!CommitIndex, Here!UpToDate, HereP!UpToDate, Here!CanFastForward,
       HereP!CanFastForward, Here!Merged, HereP!Merged, Here!MergeConflicts,
       HereP!MergeConflicts, Here!InTheWay, HereP!InTheWay, Here!MergeRefused,
       HereP!MergeRefused, Here!MergeFiles, HereP!MergeFiles, Here!MergeClean,
       HereP!MergeClean, Here!MergeStops, HereP!MergeStops,
       Here!MergeFindsLock, HereP!MergeFindsLock, Here!CanAbort,
       HereP!CanAbort, Here!AbortMerge, HereP!AbortMerge, Here!CheckoutOurs,
       HereP!CheckoutOurs, Here!AddKept, HereP!AddKept, Here!RemoveDeleted,
       HereP!RemoveDeleted, Here!PushAccepted, HereP!PushAccepted,
       Here!Publish, HereP!Publish, Here!GateSteps, HereP!GateSteps,
       Here!CommitSteps, HereP!CommitSteps, Here!PullSteps, HereP!PullSteps,
       Here!TryBlock, HereP!TryBlock, Here!PushSteps, HereP!PushSteps,
       Here!Steps, HereP!Steps, Here!GitSteps, HereP!GitSteps, Here!cycleVars,
       HereP!cycleVars, Here!Spend, HereP!Spend, Here!Goto, HereP!Goto,
       Here!End, HereP!End, Here!Raise, HereP!Raise, Here!StepFrame,
       HereP!StepFrame, Here!ReadOnly, HereP!ReadOnly, Here!StartCycle,
       HereP!StartCycle, Here!CheckLock, HereP!CheckLock,
       Here!RemoveStaleLock, HereP!RemoveStaleLock, Here!CheckMarker,
       HereP!CheckMarker, Here!EnsureOnBranch, HereP!EnsureOnBranch,
       Here!CheckBranch, HereP!CheckBranch, Here!CheckUnmerged,
       HereP!CheckUnmerged, Here!CheckStatus, HereP!CheckStatus, Here!AddAll,
       HereP!AddAll, Here!NewlyMarked, HereP!NewlyMarked, Here!CheckStaged,
       HereP!CheckStaged, Here!ResetIndex, HereP!ResetIndex,
       Here!CommitChanges, HereP!CommitChanges, Here!StopIfRequested,
       HereP!StopIfRequested, Here!Fetch, HereP!Fetch, Here!Incoming,
       HereP!Incoming, Here!Outgoing, HereP!Outgoing, Here!CountIncoming,
       HereP!CountIncoming, Here!RecheckBranch, HereP!RecheckBranch,
       Here!MergeRemote, HereP!MergeRemote, Here!ListConflicts,
       HereP!ListConflicts, Here!TakeOurs, HereP!TakeOurs, Here!StageOurs,
       HereP!StageOurs, Here!KeepDeletions, HereP!KeepDeletions,
       Here!ConcludeMerge, HereP!ConcludeMerge, Here!Abort, HereP!Abort,
       Here!Result, HereP!Result, Here!CountOutgoing, HereP!CountOutgoing,
       Here!Push, HereP!Push, Here!CommandFails, HereP!CommandFails,
       Here!Done, HereP!Done, Here!DoneByThen, HereP!DoneByThen,
       Here!IndexWriters, HereP!IndexWriters, Here!LockAfterKill,
       HereP!LockAfterKill, Here!MergeGhosts, HereP!MergeGhosts,
       Here!CommandRaises, HereP!CommandRaises, Here!CommandTimesOut,
       HereP!CommandTimesOut, Here!Crash, HereP!Crash, Here!RequestStop,
       HereP!RequestStop, Here!LoopEnds, HereP!LoopEnds, Here!Restart,
       HereP!Restart, Here!LockAges, HereP!LockAges, Here!EnvFrame,
       HereP!EnvFrame, Here!Untouched, HereP!Untouched, Here!MergeWindow,
       HereP!MergeWindow, Here!UserEdits, HereP!UserEdits, Here!Init,
       HereP!Init, Here!CycleStep, HereP!CycleStep, Here!Service,
       HereP!Service, Here!FaultStep, HereP!FaultStep

LEMMA ThereSteps ==
    /\ There!Init => ThereP!Init
    /\ ThereStep => ThereP!OwnStep
BY DEF ThereStep, NewIn, Here!Commits, Here!TreeOf, ThereP!OwnStep,
       ThereP!New, ThereP!Commits, There!refVars, ThereP!refVars,
       There!fileVars, ThereP!fileVars, There!mergeVars, ThereP!mergeVars,
       There!repoVars, ThereP!repoVars, There!netVars, ThereP!netVars,
       There!lockVars, ThereP!lockVars, There!Heads, ThereP!Heads, There!Anc,
       ThereP!Anc, There!TreeOf, ThereP!TreeOf, There!HeadTree,
       ThereP!HeadTree, There!Commit, ThereP!Commit, There!NextId,
       ThereP!NextId, There!Record, ThereP!Record, There!MergeBase,
       ThereP!MergeBase, There!ConflictsOf, ThereP!ConflictsOf,
       There!ThreeWay, ThereP!ThreeWay, There!MergedFile, ThereP!MergedFile,
       There!Changes, ThereP!Changes, There!StageAll, ThereP!StageAll,
       There!Unstage, ThereP!Unstage, There!CanCommit, ThereP!CanCommit,
       There!CommitIndex, ThereP!CommitIndex, There!UpToDate, ThereP!UpToDate,
       There!CanFastForward, ThereP!CanFastForward, There!Merged,
       ThereP!Merged, There!MergeConflicts, ThereP!MergeConflicts,
       There!InTheWay, ThereP!InTheWay, There!MergeRefused,
       ThereP!MergeRefused, There!MergeFiles, ThereP!MergeFiles,
       There!MergeClean, ThereP!MergeClean, There!MergeStops,
       ThereP!MergeStops, There!MergeFindsLock, ThereP!MergeFindsLock,
       There!CanAbort, ThereP!CanAbort, There!AbortMerge, ThereP!AbortMerge,
       There!CheckoutOurs, ThereP!CheckoutOurs, There!AddKept, ThereP!AddKept,
       There!RemoveDeleted, ThereP!RemoveDeleted, There!PushAccepted,
       ThereP!PushAccepted, There!Publish, ThereP!Publish, There!GateSteps,
       ThereP!GateSteps, There!CommitSteps, ThereP!CommitSteps,
       There!PullSteps, ThereP!PullSteps, There!TryBlock, ThereP!TryBlock,
       There!PushSteps, ThereP!PushSteps, There!Steps, ThereP!Steps,
       There!GitSteps, ThereP!GitSteps, There!cycleVars, ThereP!cycleVars,
       There!Spend, ThereP!Spend, There!Goto, ThereP!Goto, There!End,
       ThereP!End, There!Raise, ThereP!Raise, There!StepFrame,
       ThereP!StepFrame, There!ReadOnly, ThereP!ReadOnly, There!StartCycle,
       ThereP!StartCycle, There!CheckLock, ThereP!CheckLock,
       There!RemoveStaleLock, ThereP!RemoveStaleLock, There!CheckMarker,
       ThereP!CheckMarker, There!EnsureOnBranch, ThereP!EnsureOnBranch,
       There!CheckBranch, ThereP!CheckBranch, There!CheckUnmerged,
       ThereP!CheckUnmerged, There!CheckStatus, ThereP!CheckStatus,
       There!AddAll, ThereP!AddAll, There!NewlyMarked, ThereP!NewlyMarked,
       There!CheckStaged, ThereP!CheckStaged, There!ResetIndex,
       ThereP!ResetIndex, There!CommitChanges, ThereP!CommitChanges,
       There!StopIfRequested, ThereP!StopIfRequested, There!Fetch,
       ThereP!Fetch, There!Incoming, ThereP!Incoming, There!Outgoing,
       ThereP!Outgoing, There!CountIncoming, ThereP!CountIncoming,
       There!RecheckBranch, ThereP!RecheckBranch, There!MergeRemote,
       ThereP!MergeRemote, There!ListConflicts, ThereP!ListConflicts,
       There!TakeOurs, ThereP!TakeOurs, There!StageOurs, ThereP!StageOurs,
       There!KeepDeletions, ThereP!KeepDeletions, There!ConcludeMerge,
       ThereP!ConcludeMerge, There!Abort, ThereP!Abort, There!Result,
       ThereP!Result, There!CountOutgoing, ThereP!CountOutgoing, There!Push,
       ThereP!Push, There!CommandFails, ThereP!CommandFails, There!Done,
       ThereP!Done, There!DoneByThen, ThereP!DoneByThen, There!IndexWriters,
       ThereP!IndexWriters, There!LockAfterKill, ThereP!LockAfterKill,
       There!MergeGhosts, ThereP!MergeGhosts, There!CommandRaises,
       ThereP!CommandRaises, There!CommandTimesOut, ThereP!CommandTimesOut,
       There!Crash, ThereP!Crash, There!RequestStop, ThereP!RequestStop,
       There!LoopEnds, ThereP!LoopEnds, There!Restart, ThereP!Restart,
       There!LockAges, ThereP!LockAges, There!EnvFrame, ThereP!EnvFrame,
       There!Untouched, ThereP!Untouched, There!MergeWindow,
       ThereP!MergeWindow, There!UserEdits, ThereP!UserEdits, There!Init,
       ThereP!Init, There!CycleStep, ThereP!CycleStep, There!Service,
       ThereP!Service, There!FaultStep, ThereP!FaultStep

LEMMA HereReplicas ==
    /\ HereP!Replicas!Init => Here!Replicas!Init
    /\ [HereP!Replicas!Next]_(HereP!Replicas!vars) => [Here!Replicas!Next]_(Here!Replicas!vars)
BY DEF Here!Replicas!Init, HereP!Replicas!Init, Here!Replicas!vars,
       HereP!Replicas!vars, Here!Replicas!Next, HereP!Replicas!Next,
       Here!Replicas!Extend, HereP!Replicas!Extend, Here!Replicas!Fetch,
       HereP!Replicas!Fetch, Here!Replicas!Publish, HereP!Replicas!Publish,
       Here!Replicas!OthersChange, HereP!Replicas!OthersChange, Here!Anc,
       HereP!Anc

LEMMA ThereReplicas ==
    /\ ThereP!Replicas!Init => There!Replicas!Init
    /\ [ThereP!Replicas!Next]_(ThereP!Replicas!vars) => [There!Replicas!Next]_(There!Replicas!vars)
BY DEF There!Replicas!Init, ThereP!Replicas!Init, There!Replicas!vars,
       ThereP!Replicas!vars, There!Replicas!Next, ThereP!Replicas!Next,
       There!Replicas!Extend, ThereP!Replicas!Extend, There!Replicas!Fetch,
       ThereP!Replicas!Fetch, There!Replicas!Publish, ThereP!Replicas!Publish,
       There!Replicas!OthersChange, ThereP!Replicas!OthersChange, There!Anc,
       ThereP!Anc

LEMMA OtherUntouched ==
    /\ UNCHANGED thereVars => UNCHANGED ThereP!OwnVars
    /\ UNCHANGED hereVars => UNCHANGED HereP!OwnVars
BY DEF thereVars, hereVars, HereP!OwnVars, ThereP!OwnVars, HereP!fileVars,
       ThereP!fileVars, HereP!mergeVars, ThereP!mergeVars, HereP!lockVars,
       ThereP!lockVars, HereP!cycleVars, ThereP!cycleVars

\* Both workspaces speak of the same commits.
LEMMA SameMove ==
    ASSUME NEW b
    PROVE  HereP!SharedMove(b) <=> ThereP!SharedMove(b)
BY DEF HereP!SharedMove, ThereP!SharedMove, HereP!CommitRecord,
       ThereP!CommitRecord, HereP!Tree, ThereP!Tree, HereP!Versions,
       ThereP!Versions, HereP!Actors, ThereP!Actors, HereP!Grows, ThereP!Grows,
       HereP!HistoryClosed, ThereP!HistoryClosed, HereP!Rooted, ThereP!Rooted,
       HereP!Commits, ThereP!Commits, HereP!Anc, ThereP!Anc

-----------------------------------------------------------------------------
(* What both have in common is published: a commit of one gets to the other  *)
(* through the remote alone.                                                 *)

Anc(c) == history[c].anc
CommonPublished == Anc(tipH["branch"]) \cap Anc(tipT["branch"]) \subseteq Anc(remote)

Sharing == HereP!BInv /\ ThereP!BInv /\ CommonPublished

LEMMA SharingInit ==
    ASSUME Init
    PROVE  Sharing
<1>1. HereP!BInv /\ HereP!Anc(HereP!Branch) \subseteq HereP!Anc(remote)
  BY HereAssumption, HereSteps, HereP!SharerInit DEF Init
<1>2. ThereP!BInv
  BY ThereAssumption, ThereSteps, ThereP!SharerInit DEF Init
<1> QED
  BY <1>1, <1>2 DEF Sharing, CommonPublished, Anc, HereP!Anc, HereP!Branch

LEMMA HereShares ==
    ASSUME Sharing, HereStep
    PROVE  /\ Sharing'
           /\ [HereP!Replicas!Next]_(HereP!Replicas!vars)
           /\ [ThereP!Replicas!Next]_(ThereP!Replicas!vars)
           /\ ThereP!OthersMove
<1> DEFINE b == tipT["branch"]
<1>1. HereP!BInv /\ ThereP!BInv /\ HereP!OwnStep /\ UNCHANGED thereVars
  BY HereSteps DEF Sharing, HereStep
<1>2. b \in HereP!Commits
  BY <1>1, ThereAssumption, ThereP!BInvTypes
     DEF ThereP!Branch, ThereP!Commits, HereP!Commits
<1>3. HereP!Anc(HereP!Branch) \cap HereP!Anc(b) \subseteq HereP!Anc(remote)
  BY DEF Sharing, CommonPublished, Anc, HereP!Anc, HereP!Branch
<1> HIDE DEF b
<1>4. HereP!BInv'
  BY <1>1, HereAssumption, HereP!OwnBranch
<1>5. /\ HereP!SharedMove(b)
      /\ HereP!Anc(HereP!Branch)' \cap HereP!Anc(b) \subseteq HereP!Anc(remote)'
  BY <1>1, <1>2, <1>3, HereAssumption, HereP!OwnIsShared
<1>6. ThereP!OthersMove
  BY <1>1, <1>5, SameMove, OtherUntouched
     DEF ThereP!OthersMove, ThereP!Branch, b
<1>7. ThereP!BInv'
  BY <1>1, <1>6, ThereAssumption, ThereP!OthersBranch
<1>8. CommonPublished'
  <2>1. HereP!Anc(b)' = HereP!Anc(b) /\ b' = b
    BY <1>1, <1>2, <1>5
       DEF HereP!SharedMove, HereP!Grows, HereP!Anc, b, thereVars
  <2> QED
    BY <1>5, <2>1 DEF CommonPublished, Anc, HereP!Anc, HereP!Branch, b
<1>9. [HereP!Replicas!Next]_(HereP!Replicas!vars)
  BY <1>1, HereAssumption, HereP!OwnIsStep, HereP!StepReplicates DEF HereP!BInv
<1>10. [ThereP!Replicas!Next]_(ThereP!Replicas!vars)
  BY <1>1, <1>6, ThereAssumption, ThereP!OthersReplicate
<1> QED  BY <1>4, <1>6, <1>7, <1>8, <1>9, <1>10 DEF Sharing

LEMMA ThereShares ==
    ASSUME Sharing, ThereStep
    PROVE  /\ Sharing'
           /\ [ThereP!Replicas!Next]_(ThereP!Replicas!vars)
           /\ [HereP!Replicas!Next]_(HereP!Replicas!vars)
           /\ HereP!OthersMove
<1> DEFINE b == tipH["branch"]
<1>1. ThereP!BInv /\ HereP!BInv /\ ThereP!OwnStep /\ UNCHANGED hereVars
  BY ThereSteps DEF Sharing, ThereStep
<1>2. b \in ThereP!Commits
  BY <1>1, HereAssumption, HereP!BInvTypes
     DEF HereP!Branch, HereP!Commits, ThereP!Commits
<1>3. ThereP!Anc(ThereP!Branch) \cap ThereP!Anc(b) \subseteq ThereP!Anc(remote)
  BY DEF Sharing, CommonPublished, Anc, ThereP!Anc, ThereP!Branch
<1> HIDE DEF b
<1>4. ThereP!BInv'
  BY <1>1, ThereAssumption, ThereP!OwnBranch
<1>5. /\ ThereP!SharedMove(b)
      /\ ThereP!Anc(ThereP!Branch)' \cap ThereP!Anc(b) \subseteq ThereP!Anc(remote)'
  BY <1>1, <1>2, <1>3, ThereAssumption, ThereP!OwnIsShared
<1>6. HereP!OthersMove
  BY <1>1, <1>5, SameMove, OtherUntouched DEF HereP!OthersMove, HereP!Branch, b
<1>7. HereP!BInv'
  BY <1>1, <1>6, HereAssumption, HereP!OthersBranch
<1>8. CommonPublished'
  <2>1. ThereP!Anc(b)' = ThereP!Anc(b) /\ b' = b
    BY <1>1, <1>2, <1>5
       DEF ThereP!SharedMove, ThereP!Grows, ThereP!Anc, b, hereVars
  <2> QED
    BY <1>5, <2>1 DEF CommonPublished, Anc, ThereP!Anc, ThereP!Branch, b
<1>9. [ThereP!Replicas!Next]_(ThereP!Replicas!vars)
  BY <1>1, ThereAssumption, ThereP!OwnIsStep, ThereP!StepReplicates
     DEF ThereP!BInv
<1>10. [HereP!Replicas!Next]_(HereP!Replicas!vars)
  BY <1>1, <1>6, HereAssumption, HereP!OthersReplicate
<1> QED  BY <1>4, <1>6, <1>7, <1>8, <1>9, <1>10 DEF Sharing

LEMMA SharingStays ==
    ASSUME Sharing, UNCHANGED vars
    PROVE  /\ Sharing'
           /\ [HereP!Replicas!Next]_(HereP!Replicas!vars)
           /\ [ThereP!Replicas!Next]_(ThereP!Replicas!vars)
<1>1. HereP!BInv /\ ThereP!BInv
  BY DEF Sharing
<1>2. UNCHANGED HereP!vars
  BY DEF vars, hereVars, HereP!vars, HereP!repoVars, HereP!refVars,
         HereP!fileVars, HereP!mergeVars, HereP!netVars, HereP!lockVars,
         HereP!cycleVars
<1>3. UNCHANGED ThereP!vars
  BY DEF vars, thereVars, ThereP!vars, ThereP!repoVars, ThereP!refVars,
         ThereP!fileVars, ThereP!mergeVars, ThereP!netVars, ThereP!lockVars,
         ThereP!cycleVars
<1>4. HereP!BInv' /\ [HereP!Replicas!Next]_(HereP!Replicas!vars)
  BY <1>1, <1>2, HereAssumption, HereP!SharerStays, HereP!StepReplicates
     DEF HereP!BInv
<1>5. ThereP!BInv' /\ [ThereP!Replicas!Next]_(ThereP!Replicas!vars)
  BY <1>1, <1>3, ThereAssumption, ThereP!SharerStays, ThereP!StepReplicates
     DEF ThereP!BInv
<1>6. CommonPublished'
  BY DEF Sharing, CommonPublished, Anc, vars, hereVars, thereVars
<1> QED  BY <1>4, <1>5, <1>6 DEF Sharing

-----------------------------------------------------------------------------
(* To each workspace the other is a colleague: whatever the users save, the  *)
(* commands that fail or are killed and the moment either service dies, both *)
(* implement two replicas of one history over the same remote.               *)
THEOREM EachReplicates == Spec => BothReplicate
<1>1. Init => Sharing /\ HereP!Replicas!Init /\ ThereP!Replicas!Init
  BY SharingInit, HereAssumption, HereSteps, HereP!InitReplicates,
     ThereAssumption, ThereSteps, ThereP!InitReplicates DEF Init
<1>2. Sharing /\ [Next]_vars
        => /\ Sharing'
           /\ [HereP!Replicas!Next]_(HereP!Replicas!vars)
           /\ [ThereP!Replicas!Next]_(ThereP!Replicas!vars)
  BY HereShares, ThereShares, SharingStays DEF Next
<1>3. Sharing /\ [Next]_vars
        => /\ [Here!Replicas!Next]_(Here!Replicas!vars)
           /\ [There!Replicas!Next]_(There!Replicas!vars)
  BY <1>2, HereReplicas, ThereReplicas
<1>4. Init => Here!Replicas!Init /\ There!Replicas!Init
  BY <1>1, HereReplicas, ThereReplicas
<1> QED
  BY <1>1, <1>2, <1>3, <1>4, PTL
     DEF Spec, BothReplicate, Here!ReplicatesHistory, There!ReplicatesHistory,
         Here!Replicas!Spec, There!Replicas!Spec

-----------------------------------------------------------------------------
(* What nobody undoes.  What one workspace brings into the history is of its *)
(* user or was there, and so, to the other, never what the other's user may  *)
(* save later.                                                               *)

LEMMA SameBrings ==
    ASSUME NEW E
    PROVE  HereP!Brings(E) <=> ThereP!Brings(E)
BY DEF HereP!Brings, ThereP!Brings, HereP!Ordered, ThereP!Ordered,
       HereP!Commits, ThereP!Commits, HereP!Anc, ThereP!Anc, HereP!TreeOf,
       ThereP!TreeOf

\* NothingReverted says of a step what SharerProofs says of each workspace's.
Kept ==
    \A f \in Files :
       Here!TreeOf(remote)[f] # history'[remote'].tree[f] =>
         \A c \in Here!Anc(remote) : Here!TreeOf(c)[f] # history'[remote'].tree[f]

LEMMA SameReverts ==
    (HereP!RevertsNothing => Kept) /\ (ThereP!RevertsNothing => Kept)
BY DEF Kept, HereP!RevertsNothing, ThereP!RevertsNothing, HereP!TreeOf,
       ThereP!TreeOf, Here!TreeOf, HereP!Anc, ThereP!Anc, Here!Anc

AllNew == Sharing /\ HereP!SInv /\ ThereP!SInv

LEMMA AllNewInit ==
    ASSUME Init
    PROVE  AllNew
BY SharingInit, HereAssumption, HereSteps, HereP!NewInit, ThereAssumption,
   ThereSteps, ThereP!NewInit DEF Init, AllNew

LEMMA HereKeepsNew ==
    ASSUME "merge" \notin KillAt, HereTo \cap ThereTo = {}, AllNew, HereStep
    PROVE  AllNew' /\ Kept
<1>1. HereP!OwnStep /\ HereP!SInv /\ ThereP!SInv
  BY HereSteps DEF AllNew
<1>2. HereP!SInv' /\ HereP!Brings(HereTo) /\ HereP!RevertsNothing
  BY <1>1, HereAssumption, HereP!NewKept
<1>3. Sharing' /\ ThereP!OthersMove
  BY HereShares DEF AllNew
<1>4. ThereP!SInv'
  BY <1>1, <1>2, <1>3, SameBrings, ThereAssumption, ThereP!OthersKeepNew
<1> QED  BY <1>2, <1>3, <1>4, SameReverts DEF AllNew

LEMMA ThereKeepsNew ==
    ASSUME "merge" \notin KillAt, HereTo \cap ThereTo = {}, AllNew, ThereStep
    PROVE  AllNew' /\ Kept
<1>1. ThereP!OwnStep /\ HereP!SInv /\ ThereP!SInv
  BY ThereSteps DEF AllNew
<1>2. ThereP!SInv' /\ ThereP!Brings(ThereTo) /\ ThereP!RevertsNothing
  BY <1>1, ThereAssumption, ThereP!NewKept
<1>3. Sharing' /\ HereP!OthersMove
  BY ThereShares DEF AllNew
<1>4. HereP!SInv'
  BY <1>1, <1>2, <1>3, SameBrings, HereAssumption, HereP!OthersKeepNew
<1> QED  BY <1>2, <1>3, <1>4, SameReverts DEF AllNew

LEMMA AllNewStays ==
    ASSUME AllNew, UNCHANGED vars
    PROVE  AllNew' /\ Kept
<1>1. UNCHANGED HereP!vars
  BY DEF vars, hereVars, HereP!vars, HereP!repoVars, HereP!refVars,
         HereP!fileVars, HereP!mergeVars, HereP!netVars, HereP!lockVars,
         HereP!cycleVars
<1>2. UNCHANGED ThereP!vars
  BY DEF vars, thereVars, ThereP!vars, ThereP!repoVars, ThereP!refVars,
         ThereP!fileVars, ThereP!mergeVars, ThereP!netVars, ThereP!lockVars,
         ThereP!cycleVars
<1>3. HereP!SInv' /\ HereP!RevertsNothing
  BY <1>1, HereAssumption, HereP!NewStays DEF AllNew
<1>4. ThereP!SInv'
  BY <1>2, ThereAssumption, ThereP!NewStays DEF AllNew
<1> QED  BY <1>3, <1>4, SharingStays, SameReverts DEF AllNew

-----------------------------------------------------------------------------
(* Nothing is undone.  Where the two users save different things and no      *)
(* `git merge' is killed while it writes its files, the remote's version of  *)
(* a file is replaced only by one that it never held before, however both    *)
(* workspaces merge in their own favour.                                     *)
THEOREM NothingUndone ==
    "merge" \notin KillAt /\ HereTo \cap ThereTo = {} => (Spec => NothingReverted)
<1> SUFFICES ASSUME "merge" \notin KillAt, HereTo \cap ThereTo = {}
             PROVE  Spec => NothingReverted
  OBVIOUS
<1>1. Init => AllNew
  BY AllNewInit
<1>2. AllNew /\ [Next]_vars => AllNew' /\ Kept
  BY HereKeepsNew, ThereKeepsNew, AllNewStays DEF Next
<1>3. Spec => [][Kept]_vars
  BY <1>1, <1>2, PTL DEF Spec
<1> QED  BY <1>3 DEF NothingReverted, Kept
====
