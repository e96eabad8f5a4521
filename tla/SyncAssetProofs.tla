-------------------------- MODULE SyncAssetProofs --------------------------
(* What holds of the backup of one asset for every set of files, contents    *)
(* and tree, every choice of what the user and the colleague may do, and     *)
(* however many commands fail or are killed.                                 *)
EXTENDS SyncAsset, TLAPS

-----------------------------------------------------------------------------
(* The commit store.                                                         *)

\* Nothing that was committed is forgotten or changed.
Grows ==
    /\ Commits \subseteq Commits'
    /\ \A c \in Commits : history'[c] = history[c]

LEMMA CommitTypes ==
    ASSUME RepoTypeOK
    PROVE  /\ Commits = 1 .. Len(history) /\ Len(history) \in Nat
           /\ \A c \in Commits : history[c] \in CommitRecord(Len(history))
           /\ \A c \in Commits : /\ Anc(c) \in SUBSET Commits
                                 /\ TreeOf(c) \in Tree
                                 /\ history[c].parents \in SUBSET Commits
<1>1. history \in Seq(CommitRecord(Len(history)))  BY DEF RepoTypeOK
<1>2. Commits = 1 .. Len(history) /\ Len(history) \in Nat
  BY <1>1 DEF Commits
<1>3. \A c \in Commits : history[c] \in CommitRecord(Len(history))
  BY <1>1, <1>2
<1> QED  BY <1>2, <1>3 DEF CommitRecord, Anc, TreeOf

\* Every commit that is made goes to the end of the store, with the ancestors
\* of its parents.
LEMMA RecordGrows ==
    ASSUME RepoTypeOK,
           NEW parents \in SUBSET Commits, NEW tree \in Tree, NEW by \in Actors,
           Record(parents, tree, by)
    PROVE  /\ history' \in Seq(CommitRecord(Len(history')))
           /\ Commits' = Commits \cup {NextId} /\ NextId \notin Commits
           /\ NextId \in Nat \ {0}
           /\ Grows
           /\ history'[NextId].anc = {NextId} \cup UNION {Anc(p) : p \in parents}
<1> DEFINE n == Len(history)
           new == Commit(NextId, parents, tree, by)
<1>1. /\ Commits = 1 .. n /\ n \in Nat
      /\ \A c \in Commits : history[c] \in CommitRecord(n)
      /\ \A c \in Commits : Anc(c) \in SUBSET Commits
  BY CommitTypes
<1>2. NextId = n + 1 /\ NextId \notin Commits /\ NextId \in Nat \ {0}
  BY <1>1 DEF NextId
<1>3. UNION {Anc(p) : p \in parents} \subseteq 1 .. n
  BY <1>1
<1>4. new \in CommitRecord(n + 1)
  <2>1. {NextId} \cup UNION {Anc(p) : p \in parents} \in SUBSET (1 .. n + 1)
    BY <1>1, <1>2, <1>3
  <2>2. parents \in SUBSET (1 .. n + 1)
    BY <1>1
  <2> QED  BY <2>1, <2>2 DEF Commit, CommitRecord
<1>5. \A c \in Commits : history[c] \in CommitRecord(n + 1)
  <2>1. SUBSET (1 .. n) \subseteq SUBSET (1 .. n + 1)  BY <1>1
  <2> QED  BY <1>1, <2>1 DEF CommitRecord
<1>6. history \in Seq(CommitRecord(n + 1))
  BY <1>1, <1>5 DEF RepoTypeOK
<1>7. history' = Append(history, new)
  BY DEF Record
<1>8. /\ history' \in Seq(CommitRecord(n + 1)) /\ Len(history') = n + 1
      /\ \A c \in 1 .. n : history'[c] = history[c]
      /\ history'[n + 1] = new
  BY <1>1, <1>4, <1>6, <1>7
<1>9. Commits' = 1 .. n + 1
  BY <1>8, <1>1 DEF Commits
<1>10. history'[NextId].anc = {NextId} \cup UNION {Anc(p) : p \in parents}
  BY <1>2, <1>8 DEF Commit
<1> HIDE DEF n, new
<1>11. 1 .. n + 1 = (1 .. n) \cup {n + 1}
  BY <1>1
<1> QED  BY <1>1, <1>2, <1>8, <1>9, <1>10, <1>11 DEF Grows, n

-----------------------------------------------------------------------------
(* The four ways in which git commands in the workspace move its refs.       *)

KeepsRefs ==
    /\ UNCHANGED <<history, tip>>
    /\ merging' \in {0, merging, tracking, tip["side"]}
AddsCommit ==
    /\ \E parents \in SUBSET ({tip[head], merging, tracking} \ {0}),
          tree \in Tree, by \in Actors :
          tip[head] \in parents /\ Record(parents, tree, by)
    /\ tip' = [tip EXCEPT ![head] = NextId]
    /\ merging' \in {0, merging}
FastForwards ==
    /\ tip[head] \in Anc(tracking)
    /\ tip' = [tip EXCEPT ![head] = tracking]
    /\ UNCHANGED <<history, merging>>
Detaches ==
    /\ tip' = [tip EXCEPT !["detached"] = tip[head]]
    /\ UNCHANGED <<history, merging>>
RefStep == KeepsRefs \/ AddsCommit \/ FastForwards \/ Detaches

\* Whatever git does to the files of a merge, they stay files.
LEMMA MergedFileType ==
    ASSUME NEW base, NEW ours \in Tree, NEW theirs \in Tree, NEW f \in Files
    PROVE  MergedFile(base, ours, theirs, f) \in Versions
BY DEF MergedFile, ThreeWay, Tree, Versions

LEMMA MergeFilesType ==
    ASSUME RepoTypeOK, NEW c \in Commits, MergeFiles(c)
    PROVE  work' \in Tree /\ index' \in Tree /\ unmerged' \in SUBSET Files
<1>1. HeadTree \in Tree /\ TreeOf(c) \in Tree
  BY CommitTypes DEF HeadTree, RepoTypeOK
<1>2. \A f \in Files : Merged(c, f) \in Versions
  BY <1>1, MergedFileType DEF Merged
<1>3. work \in Tree /\ index \in Tree
  BY DEF RepoTypeOK
<1>4. work' \in Tree
  BY <1>1, <1>2, <1>3 DEF MergeFiles, Tree
<1>5. index' \in Tree
  BY <1>1, <1>2, <1>3 DEF MergeFiles, Tree
<1>6. unmerged' \in SUBSET Files
  BY DEF MergeFiles, MergeConflicts, ConflictsOf
<1> QED  BY <1>4, <1>5, <1>6

\* The commands that only touch files and the merge state.
LEMMA FileCommands ==
    ASSUME RepoTypeOK, NEW fs \in SUBSET Files,
           \/ StageAll \/ Unstage \/ AbortMerge
           \/ CheckoutOurs(fs) \/ AddKept(fs) \/ RemoveDeleted(fs)
    PROVE  RepoTypeOK' /\ KeepsRefs
<1>1. HeadTree \in Tree
  BY CommitTypes DEF HeadTree, RepoTypeOK
<1>2. KeepsRefs
  BY DEF KeepsRefs, StageAll, Unstage, AbortMerge, CheckoutOurs, AddKept,
         RemoveDeleted, refVars, mergeVars
<1>3. UNCHANGED refVars /\ merging' \in {0, merging} /\ merger' \in {merger, "none"}
  BY DEF StageAll, Unstage, AbortMerge, CheckoutOurs, AddKept,
         RemoveDeleted, refVars, mergeVars
<1>4. work \in Tree /\ index \in Tree /\ unmerged \in SUBSET Files
  BY DEF RepoTypeOK
<1>5. Absent \in Versions
  BY DEF Versions
<1>6. work' \in Tree /\ index' \in Tree /\ unmerged' \in SUBSET Files
  <2>1. CASE StageAll \/ Unstage
    BY <2>1, <1>1, <1>4 DEF StageAll, Unstage
  <2>2. CASE AbortMerge
    BY <2>2, <1>1, <1>4 DEF AbortMerge, Tree
  <2>3. CASE CheckoutOurs(fs)
    BY <2>3, <1>4 DEF CheckoutOurs, Tree
  <2>4. CASE AddKept(fs)
    BY <2>4, <1>4 DEF AddKept, Tree
  <2>5. CASE RemoveDeleted(fs)
    BY <2>5, <1>4, <1>5 DEF RemoveDeleted, Tree
  <2> QED  BY <2>1, <2>2, <2>3, <2>4, <2>5
<1> QED  BY <1>2, <1>3, <1>6 DEF RepoTypeOK, refVars, Commits

\* A new commit on HEAD leaves every variable of the repository well typed.
LEMMA CommitOnHead ==
    ASSUME RepoTypeOK, tracking \in Commits,
           NEW parents \in SUBSET ({tip[head], merging, tracking} \ {0}),
           NEW tree \in Tree, NEW by \in Actors,
           tip[head] \in parents, Record(parents, tree, by),
           tip' = [tip EXCEPT ![head] = NextId],
           merging' \in {0, merging}, merger' \in {merger, "none"},
           head' = head, work' \in Tree, index' \in Tree,
           unmerged' \in SUBSET Files
    PROVE  RepoTypeOK' /\ AddsCommit
<1>1. parents \in SUBSET Commits
  BY DEF RepoTypeOK
<1>2. /\ history' \in Seq(CommitRecord(Len(history')))
      /\ Commits' = Commits \cup {NextId}
  BY <1>1, RecordGrows
<1>3. tip' \in [Heads -> Commits']
  BY <1>2 DEF RepoTypeOK
<1>4. AddsCommit
  BY DEF AddsCommit
<1> QED  BY <1>2, <1>3, <1>4 DEF RepoTypeOK

LEMMA CommitIndexStep ==
    ASSUME RepoTypeOK, tracking \in Commits, NEW by \in Actors, CommitIndex(by)
    PROVE  RepoTypeOK' /\ AddsCommit
<1> DEFINE parents == {tip[head]} \cup ({merging} \ {0})
<1>1. tip[head] \in Commits /\ 0 \notin Commits
  BY CommitTypes DEF RepoTypeOK
<1>2. parents \in SUBSET ({tip[head], merging, tracking} \ {0}) /\ tip[head] \in parents
  BY <1>1
<1>3. Record(parents, index, by) /\ index \in Tree
  BY DEF CommitIndex, RepoTypeOK
<1>4. /\ tip' = [tip EXCEPT ![head] = NextId] /\ merging' = 0 /\ merger' = "none"
      /\ head' = head /\ work' \in Tree /\ index' \in Tree
      /\ unmerged' \in SUBSET Files
  BY DEF CommitIndex, RepoTypeOK, fileVars
<1> HIDE DEF parents
<1> QED  BY <1>2, <1>3, <1>4, CommitOnHead

LEMMA MergeCleanStep ==
    ASSUME RepoTypeOK, tracking \in Commits, NEW by \in Actors,
           MergeClean(tracking, by)
    PROVE  RepoTypeOK' /\ RefStep
<1>1. /\ work' \in Tree /\ index' \in Tree /\ unmerged' \in SUBSET Files
  BY MergeFilesType DEF MergeClean
<1>2. head' = head /\ merging' = merging /\ merger' = merger
  BY DEF MergeClean, mergeVars
<1>3. CASE CanFastForward(tracking)
  <2>1. FastForwards
    BY <1>2, <1>3 DEF FastForwards, MergeClean, CanFastForward
  <2> QED  BY <2>1, <1>1, <1>2 DEF RefStep, FastForwards, RepoTypeOK, Commits
<1>4. CASE ~CanFastForward(tracking)
  <2>1. tip[head] \in Commits /\ 0 \notin Commits
    BY CommitTypes DEF RepoTypeOK
  <2>2. /\ Record({tip[head], tracking}, index', by)
        /\ tip' = [tip EXCEPT ![head] = NextId]
    BY <1>4 DEF MergeClean
  <2>3. {tip[head], tracking} \in SUBSET ({tip[head], merging, tracking} \ {0})
    BY <2>1
  <2> QED  BY <2>2, <2>3, <1>1, <1>2, CommitOnHead DEF RefStep
<1> QED  BY <1>3, <1>4

LEMMA MergeStopsStep ==
    ASSUME RepoTypeOK, NEW c \in Commits, c \in {tracking, tip["side"]},
           NEW by \in {"user", "backup"},
           MergeStops(c, by) \/ MergeFindsLock(c, by)
    PROVE  RepoTypeOK' /\ KeepsRefs
<1>1. work' \in Tree /\ index' \in Tree /\ unmerged' \in SUBSET Files
  BY MergeFilesType DEF MergeStops, MergeFindsLock, fileVars, RepoTypeOK
<1>2. UNCHANGED refVars /\ merging' = c /\ merger' = by
  BY DEF MergeStops, MergeFindsLock
<1> QED  BY <1>1, <1>2 DEF KeepsRefs, refVars, RepoTypeOK, Commits

\* A merge that was killed before it wrote MERGE_HEAD.
LEMMA MergeKilledStep ==
    ASSUME RepoTypeOK, NEW c \in Commits, MergeFiles(c),
           UNCHANGED <<refVars, mergeVars>>
    PROVE  RepoTypeOK' /\ KeepsRefs
<1>1. work' \in Tree /\ index' \in Tree /\ unmerged' \in SUBSET Files
  BY MergeFilesType
<1> QED  BY <1>1 DEF KeepsRefs, refVars, mergeVars, RepoTypeOK, Commits

LEMMA NothingMoved ==
    ASSUME RepoTypeOK, UNCHANGED repoVars
    PROVE  RepoTypeOK' /\ KeepsRefs
<1>1. UNCHANGED <<history, head, tip, work, index, unmerged, merging, merger>>
  BY DEF repoVars, refVars, fileVars, mergeVars
<1> QED  BY <1>1 DEF KeepsRefs, RepoTypeOK, Commits

-----------------------------------------------------------------------------
(* Every step of the system is one of four kinds: something happens in the   *)
(* workspace, the backup fetches, it publishes, or somebody else pushes.     *)

LocalStep == RepoTypeOK' /\ RefStep /\ UNCHANGED netVars
Learns == UNCHANGED repoVars /\ tracking' = remote /\ remote' = remote
Publishes ==
    /\ UNCHANGED repoVars
    /\ PushAccepted /\ remote' = tip["branch"]
    /\ tracking' \in {tracking, tip["branch"]}
OthersPush ==
    /\ \E p \in {remote} \cup history[remote].parents, tree \in Tree :
          Record({p}, tree, "colleague")
    /\ remote' = NextId
    /\ UNCHANGED <<head, tip, fileVars, mergeVars, tracking, pc>>

LEMMA LocalUnmoved ==
    ASSUME RepoTypeOK, UNCHANGED <<repoVars, netVars>>
    PROVE  LocalStep
BY NothingMoved DEF LocalStep, RefStep

LEMMA CycleStepKinds ==
    ASSUME TypeOK, CycleStep
    PROVE  LocalStep \/ Learns \/ Publishes
<1> USE DEF LocalStep, RefStep
<1> tracking \in Commits /\ RepoTypeOK /\ kept \in SUBSET Files /\ removed \in SUBSET Files
  BY DEF TypeOK, NetTypeOK, CycleTypeOK
<1> "backup" \in Actors /\ "user" \in Actors
  BY DEF Actors
<1>1. CASE \/ CheckLock \/ CheckMarker \/ CheckBranch \/ CheckUnmerged
           \/ CheckStatus \/ CheckStaged \/ CountIncoming \/ RecheckBranch
           \/ CountOutgoing
           \/ StopIfRequested("stop1", "fetch")
           \/ StopIfRequested("stop2", "outgoing")
  BY <1>1, LocalUnmoved
     DEF CheckLock, CheckMarker, CheckBranch, CheckUnmerged, CheckStatus,
         CheckStaged, CountIncoming, RecheckBranch, CountOutgoing,
         StopIfRequested, ReadOnly
<1>2. CASE RemoveStaleLock \/ ListConflicts
  BY <1>2, LocalUnmoved DEF RemoveStaleLock, ListConflicts
<1>3. CASE AddAll
  BY <1>3, FileCommands, NothingMoved DEF AddAll
<1>4. CASE ResetIndex
  BY <1>4, FileCommands, NothingMoved DEF ResetIndex
<1>5. CASE CommitChanges
  BY <1>5, CommitIndexStep, NothingMoved DEF CommitChanges
<1>6. CASE Fetch
  BY <1>6 DEF Fetch, Learns
<1>7. CASE MergeRemote
  <2>1. UNCHANGED netVars
    BY <1>7 DEF MergeRemote
  <2>2. \/ UNCHANGED repoVars \/ MergeClean(tracking, "backup")
        \/ MergeStops(tracking, "backup") \/ MergeFindsLock(tracking, "backup")
    BY <1>7 DEF MergeRemote
  <2> QED  BY <2>1, <2>2, NothingMoved, MergeCleanStep, MergeStopsStep
<1>8. CASE TakeOurs
  BY <1>8, FileCommands, NothingMoved DEF TakeOurs
<1>9. CASE StageOurs
  BY <1>9, FileCommands, NothingMoved DEF StageOurs
<1>10. CASE KeepDeletions
  BY <1>10, FileCommands, NothingMoved DEF KeepDeletions
<1>11. CASE ConcludeMerge
  BY <1>11, CommitIndexStep, NothingMoved DEF ConcludeMerge
<1>12. CASE Abort
  BY <1>12, FileCommands, NothingMoved DEF Abort
<1>13. CASE Push
  <2>1. CASE Publish /\ tracking' = tip["branch"]
    BY <2>1 DEF Publish, Publishes
  <2>2. CASE UNCHANGED <<repoVars, netVars>>
    BY <2>2, LocalUnmoved
  <2> QED  BY <1>13, <2>1, <2>2 DEF Push
<1> QED
  BY <1>1, <1>2, <1>3, <1>4, <1>5, <1>6, <1>7, <1>8, <1>9, <1>10, <1>11,
     <1>12, <1>13 DEF CycleStep

\* What a command does in the end.
LEMMA DoneStepKinds ==
    ASSUME TypeOK, NEW step \in Steps, Done(step)
    PROVE  LocalStep \/ Learns \/ Publishes
<1> USE DEF LocalStep, RefStep
<1> tracking \in Commits /\ RepoTypeOK /\ kept \in SUBSET Files /\ removed \in SUBSET Files
  BY DEF TypeOK, NetTypeOK, CycleTypeOK
<1> "backup" \in Actors /\ "user" \in Actors
  BY DEF Actors
<1>1. CASE tracking' = remote /\ UNCHANGED <<repoVars, remote>>
  BY <1>1 DEF Learns
<1>2. CASE Publish /\ tracking' = tip["branch"]
  BY <1>2 DEF Publish, Publishes
<1>3. CASE UNCHANGED netVars /\ (StageAll \/ Unstage \/ AbortMerge)
  BY <1>3, FileCommands
<1>4. CASE UNCHANGED netVars /\ (CheckoutOurs(kept) \/ AddKept(kept) \/ RemoveDeleted(removed))
  BY <1>4, FileCommands
<1>5. CASE UNCHANGED netVars /\ CommitIndex("backup")
  BY <1>5, CommitIndexStep
<1>6. CASE UNCHANGED netVars /\ MergeClean(tracking, "backup")
  BY <1>6, MergeCleanStep
<1>7. CASE /\ UNCHANGED netVars
           /\ MergeStops(tracking, "backup") \/ MergeFindsLock(tracking, "backup")
  BY <1>7, MergeStopsStep
<1> QED
  BY <1>1, <1>2, <1>3, <1>4, <1>5, <1>6, <1>7 DEF Done

\* What a killed command had done by then is nothing, or a part of its step.
LEMMA KilledStepKinds ==
    ASSUME TypeOK, DoneByThen(pc)
    PROVE  LocalStep \/ Learns \/ Publishes
<1> tracking \in Commits /\ RepoTypeOK
  BY DEF TypeOK, NetTypeOK
<1>1. CASE UNCHANGED <<repoVars, netVars>>
  BY <1>1, LocalUnmoved
<1>2. CASE Done(pc)
  <2>1. pc \in Steps
    BY <1>2 DEF Done, Steps, CommitSteps, PullSteps, TryBlock, PushSteps
  <2> QED  BY <1>2, <2>1, DoneStepKinds
<1>3. CASE UNCHANGED <<netVars, refVars, mergeVars>> /\ MergeFiles(tracking)
  BY <1>3, MergeKilledStep DEF LocalStep, RefStep
<1>4. CASE MergeStops(tracking, "backup") /\ UNCHANGED netVars
  BY <1>4, MergeStopsStep DEF LocalStep, RefStep
<1>5. CASE Publish /\ UNCHANGED tracking
  BY <1>5 DEF Publish, Publishes
<1> QED
  BY <1>1, <1>2, <1>3, <1>4, <1>5 DEF DoneByThen

LEMMA UserStepKinds ==
    ASSUME TypeOK, UserStep
    PROVE  LocalStep
<1> USE DEF LocalStep, RefStep
<1> tracking \in Commits /\ RepoTypeOK
  BY DEF TypeOK, NetTypeOK
<1> "user" \in Actors
  BY DEF Actors
<1> HeadTree \in Tree /\ tip \in [Heads -> Commits] /\ head \in Heads
  BY CommitTypes DEF RepoTypeOK, HeadTree
<1>1. CASE \E f \in Files, v \in EditTo : UserEdits(f, v)
  <2>1. PICK f \in Files, v \in EditTo : UserEdits(f, v)
    BY <1>1
  <2>2. UNCHANGED <<history, head, tip, index, unmerged, merging, merger, netVars>>
    BY <2>1 DEF UserEdits, EnvFrame, refVars, mergeVars
  <2>3. work' \in Tree
    BY <2>1, UsersAssumption DEF UserEdits, RepoTypeOK, Tree
  <2> QED  BY <2>2, <2>3 DEF KeepsRefs, RepoTypeOK, Commits
<1>2. CASE UserStartsMerge
  <2>1. MergeStops(tip["side"], "user") /\ UNCHANGED netVars
    BY <1>2 DEF UserStartsMerge, UserRuns, EnvFrame
  <2>2. tip["side"] \in Commits
    BY DEF Heads
  <2> QED  BY <2>1, <2>2, MergeStopsStep
<1>3. CASE UserConcludes
  BY <1>3, CommitIndexStep DEF UserConcludes, EnvFrame
<1>4. CASE UserAborts
  BY <1>4, FileCommands DEF UserAborts, EnvFrame
<1>5. CASE UserCommits
  <2>1. tip[head] \in Commits /\ 0 \notin Commits /\ work \in Tree
    BY CommitTypes DEF RepoTypeOK
  <2>2. {tip[head]} \in SUBSET ({tip[head], merging, tracking} \ {0})
    BY <2>1
  <2>3. /\ Record({tip[head]}, work, "user")
        /\ tip' = [tip EXCEPT ![head] = NextId]
        /\ index' = work /\ UNCHANGED <<head, work, unmerged, mergeVars, netVars>>
    BY <1>5 DEF UserCommits, UserRuns, EnvFrame
  <2>4. merging' = merging /\ merger' = merger
    BY <2>3 DEF mergeVars
  <2>5. unmerged \in SUBSET Files
    BY DEF RepoTypeOK
  <2> QED  BY <2>1, <2>2, <2>3, <2>4, <2>5, CommitOnHead
<1>6. CASE \E f \in Files, v \in Versions : UserResolves(f, v)
  <2>1. PICK f \in Files, v \in Versions : UserResolves(f, v)
    BY <1>6
  <2>2. UNCHANGED <<history, head, tip, merging, merger, netVars>>
    BY <2>1 DEF UserResolves, EnvFrame, refVars, mergeVars
  <2>3. work' \in Tree /\ index' \in Tree /\ unmerged' \in SUBSET Files
    BY <2>1 DEF UserResolves, RepoTypeOK, Tree
  <2> QED  BY <2>2, <2>3 DEF KeepsRefs, RepoTypeOK, Commits
<1>7. CASE \E to \in Heads : UserSwitches(to)
  <2> DEFINE at(to) == IF to = "detached" THEN tip[head] ELSE tip[to]
  <2>1. PICK to \in Heads : UserSwitches(to)
    BY <1>7
  <2>2. at(to) \in Commits /\ TreeOf(at(to)) \in Tree
    BY CommitTypes
  <2>3. /\ head' = to /\ tip' = [tip EXCEPT ![to] = at(to)]
        /\ UNCHANGED <<history, unmerged, merging, merger, netVars>>
    BY <2>1 DEF UserSwitches, UserRuns, EnvFrame, mergeVars
  <2>4. work' \in Tree /\ index' \in Tree
    BY <2>1, <2>2 DEF UserSwitches, RepoTypeOK, Tree
  <2>5. RepoTypeOK'
    BY <2>2, <2>3, <2>4 DEF RepoTypeOK, Commits
  <2>6. CASE to = "detached"
    BY <2>3, <2>5, <2>6 DEF Detaches
  <2>7. CASE to # "detached"
    BY <2>3, <2>5, <2>7 DEF KeepsRefs
  <2> QED  BY <2>6, <2>7
<1>8. CASE UserTakesLock \/ UserFreesLock \/ UserDiesWithLock
  BY <1>8, LocalUnmoved
     DEF UserTakesLock, UserFreesLock, UserDiesWithLock, EnvFrame
<1> QED
  BY <1>1, <1>2, <1>3, <1>4, <1>5, <1>6, <1>7, <1>8 DEF UserStep

LEMMA ColleagueStepKinds ==
    ASSUME TypeOK, ColleagueStep
    PROVE  OthersPush
<1> RepoTypeOK /\ remote \in Commits
  BY DEF TypeOK, NetTypeOK
<1>1. ASSUME NEW t \in Tree, ColleaguePushes(t) PROVE OthersPush
  BY <1>1 DEF ColleaguePushes, ColleagueFrame, OthersPush
<1>2. ASSUME NEW f \in Files, NEW v \in PushTo, ColleagueRewrites(f, v)
      PROVE  OthersPush
  <2>1. v \in Versions
    BY UsersAssumption
  <2>2. ASSUME NEW p \in history[remote].parents
        PROVE  [TreeOf(p) EXCEPT ![f] = v] \in Tree
    <3>1. TreeOf(p) \in Tree
      BY CommitTypes
    <3> QED  BY <3>1, <2>1 DEF Tree
  <2> QED  BY <1>2, <2>2 DEF ColleagueRewrites, ColleagueFrame, OthersPush
<1> QED  BY <1>1, <1>2 DEF ColleagueStep

LEMMA StepKinds ==
    ASSUME TypeOK, [Next]_vars
    PROVE  LocalStep \/ Learns \/ Publishes \/ OthersPush
<1> RepoTypeOK
  BY DEF TypeOK
<1>1. CASE UNCHANGED vars
  BY <1>1, LocalUnmoved DEF vars
<1>2. CASE StartCycle \/ LoopEnds \/ Restart
  BY <1>2, LocalUnmoved DEF StartCycle, LoopEnds, Restart, ReadOnly
<1>3. CASE CommandFails \/ RequestStop \/ LockAges
  BY <1>3, LocalUnmoved DEF CommandFails, RequestStop, LockAges
<1>4. CASE CommandTimesOut \/ Crash
  BY <1>4, KilledStepKinds DEF CommandTimesOut, Crash
<1>5. CASE CommandRaises
  BY <1>5, KilledStepKinds DEF CommandRaises, DoneByThen
<1> QED
  BY <1>1, <1>2, <1>3, <1>4, <1>5, CycleStepKinds, UserStepKinds, ColleagueStepKinds
     DEF Next, Service, FaultStep

-----------------------------------------------------------------------------
(* Histories: what each kind of step does to ancestors.                      *)

LEMMA RecordClosed ==
    ASSUME RepoTypeOK, HistoryClosed,
           NEW parents \in SUBSET Commits, NEW tree \in Tree, NEW by \in Actors,
           Record(parents, tree, by)
    PROVE  HistoryClosed'
<1>1. /\ Commits' = Commits \cup {NextId} /\ NextId \notin Commits /\ Grows
      /\ history'[NextId].anc = {NextId} \cup UNION {Anc(p) : p \in parents}
  BY RecordGrows
<1>2. history'[NextId].parents = parents
  <2>1. Len(history) \in Nat /\ history \in Seq(CommitRecord(Len(history)))
    BY CommitTypes DEF RepoTypeOK
  <2> QED  BY <2>1 DEF Record, Commit, NextId
<1> DEFINE id == NextId
           below == UNION {Anc(p) : p \in parents}
<1>3. \A c \in Commits : Anc(c) \in SUBSET Commits
  BY CommitTypes
<1>4. \A c \in Commits : history'[c] = history[c]
  BY <1>1 DEF Grows
<1>5. \A c \in Commits :
         /\ c \in history'[c].anc /\ history'[c].parents \subseteq history'[c].anc
         /\ \A d \in history'[c].anc : history'[d].anc \subseteq history'[c].anc
  BY <1>3, <1>4 DEF HistoryClosed, Anc
<1>6. parents \subseteq below /\ below \subseteq Commits
  BY <1>3 DEF HistoryClosed
<1>7. \A d \in below : history'[d].anc \subseteq below
  <2> SUFFICES ASSUME NEW p \in parents, NEW d \in Anc(p)
               PROVE  history'[d].anc \subseteq below
    OBVIOUS
  <2>1. d \in Commits /\ history'[d].anc = Anc(d)
    BY <1>3, <1>4 DEF Anc
  <2>2. Anc(d) \subseteq Anc(p)
    BY DEF HistoryClosed
  <2> QED  BY <2>1, <2>2
<1> HIDE DEF below, id
<1>8. /\ id \in history'[id].anc /\ history'[id].parents \subseteq history'[id].anc
      /\ \A d \in history'[id].anc : history'[d].anc \subseteq history'[id].anc
  BY <1>1, <1>2, <1>6, <1>7 DEF id, below
<1> QED  BY <1>1, <1>5, <1>8 DEF HistoryClosed, Anc, id

\* What the workspace's branch may gain: commits nobody else has, and commits
\* of the remote that were fetched.
Gains ==
    LET ours == Anc(tip["branch"])
        ours2 == history'[tip'["branch"]].anc
    IN  /\ ours \subseteq ours2
        /\ (ours2 \ ours) \cap Anc(remote) \subseteq Anc(tracking)

LEMMA LocalHistory ==
    ASSUME TypeOK, HistoryClosed, NothingUnfetched, LocalStep
    PROVE  HistoryClosed' /\ NothingUnfetched' /\ Grows /\ Gains
<1> DEFINE Here == {tip[h] : h \in Heads} \cup ({merging} \ {0})
           seen == Anc(tracking) \cup Anc(tip["branch"])
<1>1. /\ RepoTypeOK /\ tracking \in Commits /\ remote \in Commits
      /\ tip \in [Heads -> Commits] /\ head \in Heads
      /\ merging \in Commits \cup {0} /\ 0 \notin Commits
      /\ "branch" \in Heads /\ "side" \in Heads /\ "detached" \in Heads
  BY CommitTypes DEF TypeOK, RepoTypeOK, NetTypeOK, Heads
<1>2. tracking' = tracking /\ remote' = remote
  BY DEF LocalStep, netVars
<1>3. /\ \A c \in Here \cup {tracking} : Anc(c) \cap Anc(remote) \subseteq seen
      /\ Here \cup {tracking} \subseteq Commits
  BY <1>1 DEF NothingUnfetched
<1>4. \A c \in Commits : Anc(c) \in SUBSET Commits
  BY CommitTypes, <1>1
<1>5. ASSUME history' = history,
             tip'["branch"] = tip["branch"] \/
               (tip'["branch"] = tracking /\ tip["branch"] \in Anc(tracking)),
             \A h \in Heads : tip'[h] \in Here \cup {tracking},
             merging' \in Here \cup {0, tracking}
      PROVE  HistoryClosed' /\ NothingUnfetched' /\ Grows /\ Gains
  <2>1. HistoryClosed' /\ Grows
    BY <1>5 DEF HistoryClosed, Grows, Commits, Anc
  <2>2. Anc(tip["branch"]) \subseteq history'[tip'["branch"]].anc
    BY <1>1, <1>5 DEF HistoryClosed, Anc
  <2>3. Gains
    BY <1>5, <2>2 DEF Gains, Anc
  <2>4. \A c \in {tip'[h] : h \in Heads} \cup ({merging'} \ {0}) :
           Anc(c) \cap Anc(remote) \subseteq seen
    BY <1>3, <1>5
  <2> QED  BY <2>1, <2>2, <2>3, <2>4, <1>2, <1>5 DEF NothingUnfetched, Anc
<1>6. CASE KeepsRefs
  BY <1>1, <1>5, <1>6 DEF KeepsRefs
<1>7. CASE FastForwards
  BY <1>1, <1>5, <1>7 DEF FastForwards
<1>8. CASE Detaches
  BY <1>1, <1>5, <1>8 DEF Detaches
<1>9. CASE AddsCommit
  <2>1. PICK parents \in SUBSET ({tip[head], merging, tracking} \ {0}),
             tree \in Tree, by \in Actors :
                tip[head] \in parents /\ Record(parents, tree, by)
    BY <1>9 DEF AddsCommit
  <2>2. parents \in SUBSET Commits /\ parents \subseteq Here \cup {tracking}
    BY <1>1, <2>1
  <2> DEFINE id == NextId
  <2>3. /\ HistoryClosed' /\ Grows
        /\ Commits' = Commits \cup {id} /\ id \notin Commits
        /\ history'[id].anc = {id} \cup UNION {Anc(p) : p \in parents}
    BY <1>1, <2>1, <2>2, RecordGrows, RecordClosed
  <2>4. tip' = [tip EXCEPT ![head] = id] /\ merging' \in {0, merging}
    BY <1>9 DEF AddsCommit
  <2> HIDE DEF id
  <2>5. \A c \in Commits : history'[c] = history[c]
    BY <2>3 DEF Grows
  <2>6. history'[id].anc \cap Anc(remote) \subseteq seen
    <3>1. id \notin Anc(remote)
      BY <1>1, <1>4, <2>3
    <3>2. \A p \in parents : Anc(p) \cap Anc(remote) \subseteq seen
      BY <1>3, <2>2
    <3> QED  BY <2>3, <3>1, <3>2
  <2>7. Anc(tip[head]) \subseteq history'[id].anc
    BY <2>1, <2>3
  <2>8. Anc(tip["branch"]) \subseteq history'[tip'["branch"]].anc
    <3>1. CASE head = "branch"
      BY <1>1, <2>4, <2>7, <3>1
    <3>2. CASE head # "branch"
      BY <1>1, <2>4, <2>5, <3>2 DEF Anc
    <3> QED  BY <3>1, <3>2
  <2>9. Gains
    <3>1. CASE head = "branch"
      <4>1. tip'["branch"] = id
        BY <1>1, <2>4, <3>1
      <4> QED  BY <2>6, <2>8, <4>1 DEF Gains
    <3>2. CASE head # "branch"
      <4>1. history'[tip'["branch"]].anc = Anc(tip["branch"])
        BY <1>1, <2>4, <2>5, <3>2 DEF Anc
      <4> QED  BY <2>8, <4>1 DEF Gains
    <3> QED  BY <3>1, <3>2
  <2>10. \A c \in {tip'[h] : h \in Heads} \cup ({merging'} \ {0}) :
            history'[c].anc \cap Anc(remote) \subseteq seen
    <3>1. {tip'[h] : h \in Heads} \cup ({merging'} \ {0}) \subseteq Here \cup {id}
      BY <1>1, <2>4
    <3>2. \A c \in Here : history'[c].anc = Anc(c)
      BY <1>3, <2>5 DEF Anc
    <3> QED  BY <1>3, <2>6, <3>1, <3>2
  <2>11. history'[remote].anc = Anc(remote) /\ history'[tracking].anc = Anc(tracking)
    BY <1>1, <2>5 DEF Anc
  <2>12. NothingUnfetched'
    BY <1>2, <2>8, <2>10, <2>11 DEF NothingUnfetched, Anc
  <2> QED  BY <2>3, <2>9, <2>12
<1> QED  BY <1>6, <1>7, <1>8, <1>9 DEF LocalStep, RefStep

LEMMA LearnsHistory ==
    ASSUME TypeOK, HistoryClosed, NothingUnfetched, Learns
    PROVE  /\ RepoTypeOK' /\ HistoryClosed' /\ NothingUnfetched' /\ Grows
           /\ Anc(tip["branch"])' = Anc(tip["branch"])
<1>1. UNCHANGED <<history, head, tip, work, index, unmerged, merging, merger>>
  BY DEF Learns, repoVars, refVars, fileVars, mergeVars
<1>2. tracking' = remote /\ remote' = remote
  BY DEF Learns
<1>3. RepoTypeOK'
  BY NothingMoved DEF Learns, TypeOK
<1>4. HistoryClosed' /\ Grows
  BY <1>1 DEF HistoryClosed, Grows, Commits, Anc
<1>5. NothingUnfetched'
  BY <1>1, <1>2 DEF NothingUnfetched, Anc
<1> QED  BY <1>1, <1>3, <1>4, <1>5 DEF Anc

LEMMA PublishesHistory ==
    ASSUME TypeOK, HistoryClosed, NothingUnfetched, Publishes
    PROVE  /\ RepoTypeOK' /\ HistoryClosed' /\ NothingUnfetched' /\ Grows
           /\ Anc(tip["branch"])' = Anc(tip["branch"])
           /\ Anc(remote) \subseteq Anc(tip["branch"])
<1>1. UNCHANGED <<history, head, tip, work, index, unmerged, merging, merger>>
  BY DEF Publishes, repoVars, refVars, fileVars, mergeVars
<1>2. remote' = tip["branch"]
  BY DEF Publishes
<1>3. RepoTypeOK'
  BY NothingMoved DEF Publishes, TypeOK
<1>4. HistoryClosed' /\ Grows
  BY <1>1 DEF HistoryClosed, Grows, Commits, Anc
<1>5. NothingUnfetched'
  BY <1>1, <1>2 DEF NothingUnfetched, Anc
<1>6. Anc(remote) \subseteq Anc(tip["branch"])
  <2>1. tip["branch"] \in Commits
    BY DEF TypeOK, RepoTypeOK, Heads
  <2> QED  BY <2>1 DEF Publishes, PushAccepted, HistoryClosed
<1> QED  BY <1>1, <1>3, <1>4, <1>5, <1>6 DEF Anc

\* Somebody else's commit is new, and all it builds on was in the remote.
LEMMA OthersHistory ==
    ASSUME TypeOK, HistoryClosed, NothingUnfetched, OthersPush
    PROVE  /\ RepoTypeOK' /\ HistoryClosed' /\ NothingUnfetched' /\ Grows
           /\ remote' = NextId /\ NextId \notin Commits /\ remote' \in Commits'
           /\ Anc(remote)' \subseteq {NextId} \cup Anc(remote)
           /\ NextId \in Anc(remote)'
<1>1. /\ RepoTypeOK /\ tracking \in Commits /\ remote \in Commits
      /\ tip \in [Heads -> Commits] /\ merging \in Commits \cup {0}
      /\ "branch" \in Heads
  BY DEF TypeOK, RepoTypeOK, NetTypeOK, Heads
<1>2. \A c \in Commits : Anc(c) \in SUBSET Commits
  BY CommitTypes, <1>1
<1>3. PICK p \in {remote} \cup history[remote].parents, tree \in Tree :
          Record({p}, tree, "colleague")
  BY DEF OthersPush
<1>4. p \in Anc(remote) /\ Anc(p) \subseteq Anc(remote) /\ p \in Commits
  BY <1>1, <1>2 DEF HistoryClosed
<1>5. "colleague" \in Actors
  BY DEF Actors
<1> DEFINE id == NextId
<1>6. /\ history' \in Seq(CommitRecord(Len(history')))
      /\ Commits' = Commits \cup {id} /\ id \notin Commits /\ Grows
      /\ history'[id].anc = {id} \cup Anc(p)
      /\ HistoryClosed'
  <2>1. {p} \in SUBSET Commits
    BY <1>4
  <2>2. UNION {Anc(q) : q \in {p}} = Anc(p)
    OBVIOUS
  <2> QED  BY <1>1, <1>3, <1>5, <2>1, <2>2, RecordGrows, RecordClosed
<1>7. remote' = id
      /\ UNCHANGED <<head, tip, work, index, unmerged, merging, merger, tracking>>
  BY DEF OthersPush, fileVars, mergeVars
<1> HIDE DEF id
<1>8. \A c \in Commits : history'[c] = history[c]
  BY <1>6 DEF Grows
<1>9. RepoTypeOK'
  BY <1>1, <1>6, <1>7 DEF RepoTypeOK
<1>10. /\ Anc(remote)' \subseteq {id} \cup Anc(remote)
       /\ id \in Anc(remote)'
  BY <1>4, <1>6, <1>7 DEF Anc
<1>11. \A c \in Commits : Anc(c)' = Anc(c)
  BY <1>8 DEF Anc
<1>12. NothingUnfetched'
  <2> SUFFICES ASSUME NEW c \in {tip[h] : h \in Heads} \cup ({merging} \ {0})
               PROVE  Anc(c)' \cap Anc(remote)'
                        \subseteq Anc(tracking) \cup Anc(tip["branch"])
    BY <1>1, <1>7, <1>11 DEF NothingUnfetched, Anc
  <2>1. c \in Commits /\ id \notin Anc(c)
    BY <1>1, <1>2, <1>6
  <2>2. Anc(c) \cap Anc(remote) \subseteq Anc(tracking) \cup Anc(tip["branch"])
    BY DEF NothingUnfetched
  <2> QED  BY <1>10, <1>11, <2>1, <2>2
<1> QED  BY <1>6, <1>7, <1>9, <1>10, <1>12 DEF id

-----------------------------------------------------------------------------
(* Types of the cycle's own variables.                                       *)

\* CycleTypeOK and the lock after a step.
CycleTyped ==
    /\ pc' \in PCs /\ outcome' \in Outcomes
    /\ lock' \in Locks /\ lockOld' \in BOOLEAN
    /\ kept' \in SUBSET Files /\ removed' \in SUBSET Files
    /\ changed' \in BOOLEAN /\ stopping' \in BOOLEAN
    /\ budget' \in [Spendings -> Nat]
    /\ unsaved' \in SUBSET Files /\ touched' \in SUBSET Files
    /\ openBefore' \in BOOLEAN

LEMMA SpendTypes ==
    ASSUME budget \in [Spendings -> Nat], NEW what \in Spendings, Spend(what)
    PROVE  budget' \in [Spendings -> Nat]
<1>1. budget[what] - 1 \in Nat
  BY DEF Spend
<1> QED  BY <1>1 DEF Spend

LEMMA NamesAreSteps ==
    /\ Steps \subseteq PCs /\ Kinds \subseteq Outcomes /\ "abort" \in PCs
    /\ {"idle", "down"} \subseteq PCs
    /\ GateSteps \cup CommitSteps \cup PullSteps \cup TryBlock \cup PushSteps
         \subseteq PCs
    /\ {"none", "changed", "same", "stopped", "killed"} \subseteq Outcomes
BY DEF Steps, PCs, Outcomes

LEMMA CycleStepTypes ==
    ASSUME TypeOK, StartCycle \/ CycleStep \/ LoopEnds \/ Restart
    PROVE  CycleTyped
<1> USE DEF CycleTyped, Goto, End, Raise
<1>0. /\ pc \in PCs /\ outcome \in Outcomes /\ lock \in Locks /\ lockOld \in BOOLEAN
      /\ kept \in SUBSET Files /\ removed \in SUBSET Files
      /\ changed \in BOOLEAN /\ stopping \in BOOLEAN
      /\ budget \in [Spendings -> Nat]
      /\ unsaved \in SUBSET Files /\ touched \in SUBSET Files
      /\ openBefore \in BOOLEAN
      /\ unmerged \in SUBSET Files
  BY DEF TypeOK, CycleTypeOK, NetTypeOK, RepoTypeOK
<1> USE NamesAreSteps DEF GateSteps, CommitSteps, PullSteps, TryBlock, PushSteps, Kinds
<1>1. CASE StartCycle
  BY <1>0, <1>1 DEF StartCycle, lockVars
<1>2. ASSUME ReadOnly, pc' \in PCs, outcome' \in Outcomes  PROVE CycleTyped
  BY <1>0, <1>2 DEF ReadOnly, StepFrame, cycleVars, lockVars
<1>3. CASE \/ CheckLock \/ CheckMarker \/ CheckUnmerged \/ CheckStatus
           \/ CheckStaged \/ CountIncoming \/ CountOutgoing
           \/ StopIfRequested("stop1", "fetch")
           \/ StopIfRequested("stop2", "outgoing") \/ LoopEnds
  BY <1>0, <1>2, <1>3
     DEF CheckLock, CheckMarker, CheckUnmerged, CheckStatus, CheckStaged,
         CountIncoming, CountOutgoing, StopIfRequested, LoopEnds, Result
<1>4. CASE CheckBranch \/ RecheckBranch
  <2>1. head \in {"branch", "side", "detached"}
    BY DEF TypeOK, RepoTypeOK, Heads
  <2> QED
    BY <1>0, <1>2, <1>4, <2>1 DEF CheckBranch, RecheckBranch, EnsureOnBranch
<1>5. CASE RemoveStaleLock
  BY <1>0, <1>5 DEF RemoveStaleLock, cycleVars, Locks
<1>6. CASE Restart
  BY <1>0, <1>6 DEF Restart, cycleVars, lockVars
<1>7. ASSUME StepFrame, UNCHANGED cycleVars, pc' \in PCs, outcome' \in Outcomes
      PROVE  CycleTyped
  BY <1>0, <1>7 DEF StepFrame, cycleVars, lockVars
<1>8. CASE AddAll \/ ResetIndex \/ TakeOurs \/ StageOurs \/ KeepDeletions \/ Abort
  BY <1>0, <1>7, <1>8
     DEF AddAll, ResetIndex, TakeOurs, StageOurs, KeepDeletions, Abort
<1>9. CASE Fetch \/ Push
  BY <1>0, <1>7, <1>9 DEF Fetch, Push, Result
<1>10. CASE CommitChanges \/ ConcludeMerge
  BY <1>0, <1>10 DEF CommitChanges, ConcludeMerge, StepFrame, lockVars
<1>11. CASE MergeRemote
  <2>1. unsaved' \in SUBSET Files /\ touched' \in SUBSET Files
    BY <1>11 DEF MergeRemote
  <2>2. pc' \in {"stop2", "list"} /\ outcome' = outcome
    BY <1>11 DEF MergeRemote
  <2>3. UNCHANGED <<kept, removed, changed>> /\ StepFrame
    BY <1>11 DEF MergeRemote
  <2> QED  BY <1>0, <2>1, <2>2, <2>3 DEF StepFrame, lockVars
<1>12. CASE ListConflicts
  <2>1. kept' \in SUBSET Files /\ removed' \in SUBSET Files
    BY <1>0, <1>12 DEF ListConflicts
  <2>2. pc' \in {"ours", "rm", "abort"} /\ outcome' = outcome
    BY <1>12 DEF ListConflicts
  <2>3. UNCHANGED <<changed, unsaved, touched>> /\ StepFrame
    BY <1>12 DEF ListConflicts
  <2> QED  BY <1>0, <2>1, <2>2, <2>3 DEF StepFrame, lockVars
<1> QED
  BY <1>1, <1>3, <1>4, <1>5, <1>6, <1>8, <1>9, <1>10, <1>11, <1>12 DEF CycleStep

LEMMA OtherStepTypes ==
    ASSUME TypeOK, UserStep \/ ColleagueStep \/ FaultStep
    PROVE  CycleTyped
<1> USE DEF CycleTyped, Goto, End, Raise
<1>0. /\ pc \in PCs /\ outcome \in Outcomes /\ lock \in Locks /\ lockOld \in BOOLEAN
      /\ kept \in SUBSET Files /\ removed \in SUBSET Files
      /\ changed \in BOOLEAN /\ stopping \in BOOLEAN
      /\ budget \in [Spendings -> Nat]
      /\ unsaved \in SUBSET Files /\ touched \in SUBSET Files
      /\ openBefore \in BOOLEAN
  BY DEF TypeOK, CycleTypeOK, NetTypeOK, RepoTypeOK
<1>1. \A what \in Spendings : Spend(what) => budget' \in [Spendings -> Nat]
  BY <1>0, SpendTypes
<1>2. {"edit", "push", "rewrite", "git", "fault", "restart"} \subseteq Spendings
  BY DEF Spendings
<1>3. CASE \E f \in Files, v \in EditTo : UserEdits(f, v)
  BY <1>0, <1>1, <1>2, <1>3 DEF UserEdits, EnvFrame, Untouched, lockVars
<1>4. CASE UserStartsMerge \/ UserCommits \/ \E to \in Heads : UserSwitches(to)
  BY <1>0, <1>1, <1>2, <1>4
     DEF UserStartsMerge, UserCommits, UserSwitches, UserRuns, EnvFrame,
         Untouched, lockVars
<1>5. CASE \/ UserConcludes \/ UserAborts
           \/ \E f \in Files, v \in Versions : UserResolves(f, v)
  BY <1>0, <1>5
     DEF UserConcludes, UserAborts, UserResolves, EnvFrame, Untouched, lockVars
<1>6. CASE UserTakesLock \/ UserFreesLock \/ UserDiesWithLock
  BY <1>0, <1>1, <1>2, <1>6
     DEF UserTakesLock, UserFreesLock, UserDiesWithLock, EnvFrame, cycleVars, Locks
<1>7. CASE ColleagueStep
  BY <1>0, <1>1, <1>2, <1>7
     DEF ColleagueStep, ColleaguePushes, ColleagueRewrites, ColleagueFrame,
         lockVars, cycleVars
<1>8. CASE CommandFails
  <2>1. pc' \in PCs /\ outcome' \in Outcomes
    BY <1>0, <1>8, NamesAreSteps DEF CommandFails, Kinds, TryBlock, GitSteps
  <2> QED  BY <1>0, <1>1, <1>2, <1>8, <2>1 DEF CommandFails, lockVars, cycleVars
<1>9. CASE CommandRaises
  <2>1. unsaved' \in SUBSET Files /\ touched' \in SUBSET Files
    BY <1>0, <1>9 DEF CommandRaises, MergeGhosts
  <2>2. pc' \in PCs /\ outcome' \in Outcomes
    BY <1>9, NamesAreSteps DEF CommandRaises, Kinds
  <2>3. budget' \in [Spendings -> Nat]
    BY <1>1, <1>2, <1>9 DEF CommandRaises
  <2> QED  BY <1>0, <1>9, <2>1, <2>2, <2>3 DEF CommandRaises, lockVars
<1>10. CASE CommandTimesOut \/ Crash
  <2>1. lock' \in Locks /\ lockOld' \in BOOLEAN
    BY <1>0, <1>10 DEF CommandTimesOut, Crash, LockAfterKill, lockVars, Locks
  <2>2. unsaved' \in SUBSET Files /\ touched' \in SUBSET Files
    BY <1>0, <1>10 DEF CommandTimesOut, Crash, MergeGhosts
  <2>3. pc' \in PCs /\ outcome' \in Outcomes /\ stopping' \in BOOLEAN
    BY <1>0, <1>10, NamesAreSteps DEF CommandTimesOut, Crash, Kinds
  <2>4. budget' \in [Spendings -> Nat]
    BY <1>1, <1>2, <1>10 DEF CommandTimesOut, Crash
  <2> QED  BY <1>0, <1>10, <2>1, <2>2, <2>3, <2>4 DEF CommandTimesOut, Crash
<1>11. CASE RequestStop \/ LockAges
  BY <1>0, <1>1, <1>2, <1>11 DEF RequestStop, LockAges, lockVars, cycleVars
<1> QED
  BY <1>3, <1>4, <1>5, <1>6, <1>7, <1>8, <1>9, <1>10, <1>11
     DEF UserStep, FaultStep

-----------------------------------------------------------------------------
(* The inductive invariant.  TypeOK is not inductive without HistoryClosed:  *)
(* a force-push builds on a parent of the remote's commit, and that its      *)
(* ancestors were the remote's already is what HistoryClosed says.           *)

IInv == TypeOK /\ HistoryClosed /\ NothingUnfetched

LEMMA InitHolds == Init => IInv
<1> SUFFICES ASSUME Init PROVE IInv
  OBVIOUS
<1>1. /\ history \in Seq(CommitRecord(2)) /\ Len(history) = 2 /\ Commits = {1, 2}
      /\ Anc(1) = {1} /\ Anc(2) = {1, 2}
      /\ history[1].parents = {} /\ history[2].parents = {1}
  <2> DEFINE c1 == [anc |-> {1}, parents |-> {}, tree |-> BaseTree, by |-> "clone"]
             c2 == [anc |-> {1, 2}, parents |-> {1}, tree |-> SideTree, by |-> "user"]
  <2>1. history = <<c1, c2>>
    BY DEF Init
  <2>2. {1} \in SUBSET (1 .. 2) /\ {1, 2} \in SUBSET (1 .. 2) /\ {} \in SUBSET (1 .. 2)
    OBVIOUS
  <2>3. c1 \in CommitRecord(2) /\ c2 \in CommitRecord(2)
    BY <2>2, UsersAssumption DEF CommitRecord, Actors
  <2>4. /\ c1.anc = {1} /\ c1.parents = {} /\ c2.anc = {1, 2} /\ c2.parents = {1}
    OBVIOUS
  <2> HIDE DEF c1, c2
  <2>5. history \in Seq(CommitRecord(2)) /\ Len(history) = 2
        /\ history[1] = c1 /\ history[2] = c2
    BY <2>1, <2>3
  <2>6. DOMAIN history = 1 .. 2
    BY <2>5
  <2> QED  BY <2>4, <2>5, <2>6 DEF Commits, Anc
<1>2. RepoTypeOK
  BY <1>1, UsersAssumption DEF RepoTypeOK, Init, Heads
<1>3. NetTypeOK
  BY <1>1 DEF NetTypeOK, Init, Locks
<1>4. CycleTypeOK
  BY <1>1, StepsAssumption, NamesAreSteps DEF CycleTypeOK, Init
<1>5. HistoryClosed
  BY <1>1 DEF HistoryClosed
<1>6. NothingUnfetched
  <2>1. tracking = 1 /\ remote = 1
    BY DEF Init
  <2> QED  BY <1>1, <2>1 DEF NothingUnfetched
<1> QED  BY <1>2, <1>3, <1>4, <1>5, <1>6 DEF IInv, TypeOK

LEMMA StepHolds == IInv /\ [Next]_vars => IInv'
<1> SUFFICES ASSUME IInv, [Next]_vars PROVE IInv'
  OBVIOUS
<1> TypeOK /\ HistoryClosed /\ NothingUnfetched
  BY DEF IInv
<1>1. /\ tracking \in Commits /\ remote \in Commits
      /\ tip \in [Heads -> Commits] /\ "branch" \in Heads
  BY DEF TypeOK, RepoTypeOK, NetTypeOK, Heads
<1>2. /\ RepoTypeOK' /\ HistoryClosed' /\ NothingUnfetched' /\ Grows
      /\ tracking' \in Commits' /\ remote' \in Commits'
  <2>1. CASE LocalStep
    BY <1>1, <2>1, LocalHistory DEF LocalStep, netVars, Grows
  <2>2. CASE Learns
    BY <1>1, <2>2, LearnsHistory DEF Learns, Grows
  <2>3. CASE Publishes
    BY <1>1, <2>3, PublishesHistory DEF Publishes, Grows
  <2>4. CASE OthersPush
    BY <1>1, <2>4, OthersHistory DEF OthersPush, Grows
  <2> QED  BY <2>1, <2>2, <2>3, <2>4, StepKinds
<1>3. CycleTyped
  <2>1. CASE UNCHANGED vars
    BY <2>1 DEF CycleTyped, TypeOK, CycleTypeOK, NetTypeOK, vars, lockVars, cycleVars
  <2> QED  BY <2>1, CycleStepTypes, OtherStepTypes DEF Next, Service
<1>4. NetTypeOK' /\ CycleTypeOK'
  BY <1>2, <1>3 DEF CycleTyped, NetTypeOK, CycleTypeOK, Grows
<1> QED  BY <1>2, <1>4 DEF IInv, TypeOK

THEOREM Invariance == Spec => []IInv
<1>1. Init => IInv
  BY InitHolds
<1>2. IInv /\ [Next]_vars => IInv'
  BY StepHolds
<1> QED  BY <1>1, <1>2, PTL DEF Spec

-----------------------------------------------------------------------------
(* What follows from it.                                                     *)

(* Every variable keeps its type: refs name commits that exist, whatever     *)
(* commands fail, are killed or meet the user's.                             *)
THEOREM TypeCorrect == Spec => []TypeOK
<1>1. IInv => TypeOK
  BY DEF IInv
<1> QED  BY <1>1, Invariance, PTL

(* A commit of the remote gets into the workspace only by a fetch.           *)
THEOREM Unfetched == Spec => []NothingUnfetched
<1>1. IInv => NothingUnfetched
  BY DEF IInv
<1> QED  BY <1>1, Invariance, PTL

(* No step of the backup drops a commit from the remote's branch.            *)
THEOREM PublishedKept == Spec => PublishedHistoryKept
<1>1. IInv /\ [Next]_vars
        => [BackupStep => Anc(remote) \subseteq history'[remote'].anc]_vars
  <2> SUFFICES ASSUME IInv, [Next]_vars, BackupStep
               PROVE  Anc(remote) \subseteq history'[remote'].anc
    OBVIOUS
  <2> TypeOK /\ HistoryClosed /\ NothingUnfetched
    BY DEF IInv
  <2>1. remote \in Commits
    BY DEF TypeOK, NetTypeOK
  <2>2. CASE LocalStep
    BY <2>1, <2>2, LocalHistory DEF LocalStep, netVars, Grows, Anc
  <2>3. CASE Learns
    BY <2>1, <2>3, LearnsHistory DEF Learns, Grows, Anc
  <2>4. CASE Publishes
    <3>1. tip["branch"] \in Commits
      BY DEF TypeOK, RepoTypeOK, Heads
    <3>2. Grows /\ Anc(remote) \subseteq Anc(tip["branch"]) /\ remote' = tip["branch"]
      BY <2>4, PublishesHistory DEF Publishes
    <3>3. history'[remote'].anc = Anc(tip["branch"])
      BY <3>1, <3>2 DEF Grows, Anc
    <3> QED  BY <3>2, <3>3
  <2>5. CASE OthersPush
    BY <2>5 DEF OthersPush, BackupStep
  <2> QED  BY <2>2, <2>3, <2>4, <2>5, StepKinds
<1> QED  BY <1>1, Invariance, PTL DEF Spec, PublishedHistoryKept

\* What the git commands do to refs and commits is, seen from the histories,
\* an extension, a fetch or a push that contains all the remote had.
LEMMA InitReplicates == Init => Replicas!Init
<1> SUFFICES ASSUME Init PROVE Replicas!Init
  OBVIOUS
<1>1. tip["branch"] = 1 /\ remote = 1 /\ tracking = 1
  BY DEF Init, Heads
<1>2. Anc(1) = {1}
  BY DEF Init, Anc
<1> QED  BY <1>1, <1>2 DEF Replicas!Init

LEMMA StepReplicates == IInv /\ [Next]_vars => [Replicas!Next]_(Replicas!vars)
<1> SUFFICES ASSUME IInv, [Next]_vars
             PROVE  Replicas!Next \/ UNCHANGED Replicas!vars
  OBVIOUS
<1> TypeOK /\ HistoryClosed /\ NothingUnfetched
  BY DEF IInv
<1>1. /\ tracking \in Commits /\ remote \in Commits /\ tip["branch"] \in Commits
  BY DEF TypeOK, RepoTypeOK, NetTypeOK, Heads
<1>2. CASE LocalStep
  <2>1. Grows /\ Gains /\ tracking' = tracking /\ remote' = remote
    BY <1>2, LocalHistory DEF LocalStep, netVars
  <2>2. Anc(tracking)' = Anc(tracking) /\ Anc(remote)' = Anc(remote)
    BY <1>1, <2>1 DEF Grows, Anc
  <2>3. Anc(tip["branch"])' = history'[tip'["branch"]].anc
    BY DEF Anc
  <2>4. Replicas!Extend
    BY <2>1, <2>2, <2>3 DEF Gains, Replicas!Extend
  <2> QED  BY <2>4 DEF Replicas!Next
<1>3. CASE Learns
  <2>1. /\ Grows /\ tracking' = remote /\ remote' = remote
        /\ Anc(tip["branch"])' = Anc(tip["branch"])
    BY <1>3, LearnsHistory DEF Learns
  <2>2. Anc(tracking)' = Anc(remote) /\ Anc(remote)' = Anc(remote)
    BY <1>1, <2>1 DEF Grows, Anc
  <2>3. Replicas!Fetch
    BY <2>1, <2>2 DEF Replicas!Fetch
  <2> QED  BY <2>3 DEF Replicas!Next
<1>4. CASE Publishes
  <2>1. /\ Grows /\ tracking' \in {tracking, tip["branch"]}
        /\ remote' = tip["branch"] /\ Anc(remote) \subseteq Anc(tip["branch"])
        /\ Anc(tip["branch"])' = Anc(tip["branch"])
    BY <1>4, PublishesHistory DEF Publishes
  <2>2. /\ Anc(remote)' = Anc(tip["branch"])
        /\ Anc(tracking)' \in {Anc(tracking), Anc(tip["branch"])}
    BY <1>1, <2>1 DEF Grows, Anc
  <2>3. Replicas!Publish
    BY <2>1, <2>2 DEF Replicas!Publish
  <2> QED  BY <2>3 DEF Replicas!Next
<1>5. CASE OthersPush
  <2>1. /\ Grows /\ NextId \notin Commits
        /\ Anc(remote)' \subseteq {NextId} \cup Anc(remote)
        /\ NextId \in Anc(remote)'
    BY <1>5, OthersHistory
  <2>2. tip' = tip /\ tracking' = tracking
    BY <1>5 DEF OthersPush
  <2>3. /\ Anc(tip["branch"])' = Anc(tip["branch"])
        /\ Anc(tracking)' = Anc(tracking)
    BY <1>1, <2>1, <2>2 DEF Grows, Anc
  <2>4. NextId \notin Anc(tip["branch"]) /\ NextId \notin Anc(remote)
    BY <1>1, <2>1, CommitTypes DEF TypeOK
  <2>5. Replicas!OthersChange
    BY <2>1, <2>3, <2>4 DEF Replicas!OthersChange
  <2> QED  BY <2>5 DEF Replicas!Next
<1> QED  BY <1>2, <1>3, <1>4, <1>5, StepKinds

(* The cycle implements ReplicatedHistory.                                   *)
THEOREM Refinement == Spec => ReplicatesHistory
BY InitReplicates, StepReplicates, Invariance, PTL
   DEF Spec, ReplicatesHistory, Replicas!Spec

-----------------------------------------------------------------------------
(* The index lock.  Between the look at the lock and its removal another     *)
(* process may act; that the lock is still the stale one is the invariant.   *)

LockHeld ==
    /\ pc = "unlink" => lock = "stale"
    /\ lockOld => lock = "stale"

LiveLockStays == BackupStep /\ lock = "user" => lock' = "user"

LEMMA LockStep ==
    ASSUME TypeOK, LockHeld, [Next]_vars
    PROVE  LockHeld' /\ LiveLockStays
<1> USE DEF LockHeld, LiveLockStays, BackupStep, Goto, End, Raise
<1>0. lock \in Locks /\ lockOld \in BOOLEAN
  BY DEF TypeOK, NetTypeOK
<1>1. ASSUME UNCHANGED lockVars, pc' = pc \/ pc' # "unlink"
      PROVE  LockHeld' /\ LiveLockStays
  BY <1>0, <1>1 DEF lockVars, Locks
<1>2. CASE UNCHANGED vars
  BY <1>1, <1>2 DEF vars
<1>3. CASE CheckLock
  BY <1>0, <1>3 DEF CheckLock, ReadOnly, StepFrame, lockVars, Locks
<1>4. CASE RemoveStaleLock
  BY <1>0, <1>4 DEF RemoveStaleLock
<1>5. CASE \/ CheckMarker \/ CheckBranch \/ CheckUnmerged \/ CheckStatus
           \/ CheckStaged \/ CountIncoming \/ RecheckBranch \/ CountOutgoing
           \/ StopIfRequested("stop1", "fetch")
           \/ StopIfRequested("stop2", "outgoing") \/ LoopEnds
  <2>1. UNCHANGED lockVars
    BY <1>5
       DEF CheckMarker, CheckBranch, CheckUnmerged, CheckStatus, CheckStaged,
           CountIncoming, RecheckBranch, CountOutgoing, StopIfRequested,
           LoopEnds, ReadOnly, StepFrame
  <2>2. head \in {"branch", "side", "detached"}
    BY DEF TypeOK, RepoTypeOK, Heads
  <2>3. pc' # "unlink"
    BY <1>5, <2>2
       DEF CheckMarker, CheckBranch, CheckUnmerged, CheckStatus, CheckStaged,
           CountIncoming, RecheckBranch, CountOutgoing, StopIfRequested,
           LoopEnds, EnsureOnBranch
  <2> QED  BY <1>1, <2>1, <2>3
<1>6. CASE \/ AddAll \/ ResetIndex \/ CommitChanges \/ Fetch \/ MergeRemote
           \/ TakeOurs \/ StageOurs \/ KeepDeletions \/ ConcludeMerge
           \/ Abort \/ Push
  <2>1. UNCHANGED lockVars
    BY <1>6
       DEF AddAll, ResetIndex, CommitChanges, Fetch, MergeRemote, TakeOurs,
           StageOurs, KeepDeletions, ConcludeMerge, Abort, Push, StepFrame
  <2>2. pc' # "unlink"
    BY <1>6
       DEF AddAll, ResetIndex, CommitChanges, Fetch, MergeRemote, TakeOurs,
           StageOurs, KeepDeletions, ConcludeMerge, Abort, Push
  <2> QED  BY <1>1, <2>1, <2>2
<1>7. CASE ListConflicts
  <2>1. UNCHANGED lockVars
    BY <1>7 DEF ListConflicts, StepFrame
  <2>2. pc' \in {"ours", "rm", "abort"}
    BY <1>7 DEF ListConflicts
  <2> QED  BY <1>1, <2>1, <2>2
<1>8. CASE StartCycle \/ Restart \/ CommandFails \/ CommandRaises \/ RequestStop
  BY <1>1, <1>8
     DEF StartCycle, Restart, CommandFails, CommandRaises, RequestStop, lockVars
<1>9. CASE CommandTimesOut \/ Crash
  <2>1. pc' # "unlink"
    BY <1>9 DEF CommandTimesOut, Crash
  <2>2. CASE UNCHANGED lockVars
    BY <1>1, <2>1, <2>2
  <2>3. CASE lock = "free" /\ lock' = "stale" /\ lockOld' = FALSE
    BY <2>1, <2>3
  <2> QED  BY <1>9, <2>2, <2>3 DEF CommandTimesOut, Crash, LockAfterKill
<1>10. CASE LockAges
  BY <1>0, <1>10 DEF LockAges
<1>11. CASE ColleagueStep
  BY <1>1, <1>11
     DEF ColleagueStep, ColleaguePushes, ColleagueRewrites, ColleagueFrame
<1>12. CASE UserTakesLock \/ UserFreesLock \/ UserDiesWithLock
  BY <1>0, <1>12 DEF UserTakesLock, UserFreesLock, UserDiesWithLock, EnvFrame
<1>13. CASE \/ \E f \in Files, v \in EditTo : UserEdits(f, v)
            \/ UserStartsMerge \/ UserConcludes \/ UserAborts \/ UserCommits
            \/ \E f \in Files, v \in Versions : UserResolves(f, v)
            \/ \E to \in Heads : UserSwitches(to)
  BY <1>1, <1>13
     DEF UserEdits, UserStartsMerge, UserConcludes, UserAborts, UserCommits,
         UserResolves, UserSwitches, UserRuns, EnvFrame
<1> QED
  BY <1>2, <1>3, <1>4, <1>5, <1>6, <1>7, <1>8, <1>9, <1>10, <1>11, <1>12, <1>13
     DEF Next, Service, CycleStep, UserStep, FaultStep

(* A lock that a running git command of the user's holds is never removed.   *)
THEOREM LiveLocksKept == Spec => LiveLockKept
<1>1. Init => LockHeld
  BY DEF Init, LockHeld
<1>2. TypeOK /\ LockHeld /\ [Next]_vars => LockHeld' /\ [LiveLockStays]_vars
  BY LockStep
<1>3. LiveLockKept <=> [][LiveLockStays]_vars
  BY DEF LiveLockKept, LiveLockStays
<1> QED  BY <1>1, <1>2, <1>3, TypeCorrect, PTL DEF Spec

-----------------------------------------------------------------------------
(* The user's merge.  A cycle that began with it open never gets past the    *)
(* gate, whoever does what while it looks.                                   *)

AtTheGate == {"idle", "down", "lock", "unlink", "marker"}
MergeHasHead == merger # "none" => merging # 0
OpenMergeKept == openBefore => merger = "user" /\ pc \in AtTheGate
OpenMergeAlone == BackupStep /\ openBefore => UNCHANGED <<repoVars, remote>>

(* A merge that somebody started has a commit in MERGE_HEAD: every command   *)
(* sets both, resets both or leaves both alone.                              *)
LEMMA MergeHasHeadStep ==
    ASSUME TypeOK, MergeHasHead, [Next]_vars
    PROVE  MergeHasHead'
<1> USE DEF MergeHasHead, mergeVars
<1>0. /\ 0 \notin Commits /\ tracking \in Commits
      /\ \A h \in Heads : tip[h] \in Commits
  BY DEF TypeOK, RepoTypeOK, NetTypeOK, Commits
<1>1. ASSUME UNCHANGED mergeVars \/ merger' = "none" \/ merging' \in Commits
      PROVE  MergeHasHead'
  BY <1>0, <1>1
<1>2. CASE UNCHANGED vars
  BY <1>1, <1>2 DEF vars, repoVars
<1>3. CASE \/ StartCycle \/ CheckLock \/ RemoveStaleLock \/ CheckMarker
           \/ CheckBranch \/ CheckUnmerged \/ CheckStatus \/ CheckStaged
           \/ StopIfRequested("stop1", "fetch")
           \/ StopIfRequested("stop2", "outgoing")
           \/ Fetch \/ CountIncoming \/ RecheckBranch \/ ListConflicts
           \/ CountOutgoing \/ LoopEnds \/ Restart
           \/ CommandFails \/ RequestStop \/ LockAges
  BY <1>1, <1>3
     DEF StartCycle, CheckLock, RemoveStaleLock, CheckMarker, CheckBranch,
         CheckUnmerged, CheckStatus, CheckStaged, StopIfRequested, Fetch,
         CountIncoming, RecheckBranch, ListConflicts, CountOutgoing, LoopEnds,
         Restart, CommandFails, RequestStop, LockAges, ReadOnly, repoVars
<1>4. CASE \/ AddAll \/ ResetIndex \/ CommitChanges \/ TakeOurs \/ StageOurs
           \/ KeepDeletions \/ ConcludeMerge \/ Abort \/ Push
  BY <1>1, <1>4
     DEF AddAll, ResetIndex, CommitChanges, TakeOurs, StageOurs, KeepDeletions,
         ConcludeMerge, Abort, Push, StageAll, Unstage, CommitIndex,
         CheckoutOurs, AddKept, RemoveDeleted, AbortMerge, Publish, repoVars
<1>5. CASE MergeRemote
  BY <1>0, <1>1, <1>5
     DEF MergeRemote, MergeClean, MergeStops, MergeFindsLock, repoVars
<1>6. CASE CommandRaises \/ CommandTimesOut \/ Crash
  <2>1. DoneByThen(pc)
    BY <1>6 DEF CommandRaises, CommandTimesOut, Crash, DoneByThen
  <2>2. CASE Done(pc)
    BY <1>0, <1>1, <2>2
       DEF Done, StageAll, Unstage, CommitIndex, MergeClean, MergeStops,
           MergeFindsLock, CheckoutOurs, AddKept, RemoveDeleted, AbortMerge,
           Publish, repoVars
  <2>3. CASE MergeStops(tracking, "backup")
    BY <1>0, <1>1, <2>3 DEF MergeStops, repoVars
  <2> QED  BY <1>1, <2>1, <2>2, <2>3 DEF DoneByThen, Publish, repoVars
<1>7. CASE UserStep
  BY <1>0, <1>1, <1>7
     DEF UserStep, UserEdits, UserStartsMerge, UserConcludes, UserAborts,
         UserCommits, UserResolves, UserSwitches, UserTakesLock, UserFreesLock,
         UserDiesWithLock, MergeStops, CommitIndex, AbortMerge, repoVars, Heads
<1>8. CASE ColleagueStep
  BY <1>1, <1>8
     DEF ColleagueStep, ColleaguePushes, ColleagueRewrites, ColleagueFrame
<1> QED
  BY <1>2, <1>3, <1>4, <1>5, <1>6, <1>7, <1>8
     DEF Next, Service, CycleStep, FaultStep

LEMMA OpenMergeStep ==
    ASSUME TypeOK, MergeHasHead, OpenMergeKept, [Next]_vars
    PROVE  OpenMergeKept' /\ OpenMergeAlone
<1> USE DEF OpenMergeKept, OpenMergeAlone, BackupStep, AtTheGate, mergeVars
<1>0. openBefore \in BOOLEAN
  BY DEF TypeOK, CycleTypeOK
<1>1. ASSUME UNCHANGED <<pc, mergeVars, openBefore>>
      PROVE  OpenMergeKept' /\ OpenMergeAlone
  BY <1>1
<1>2. ASSUME UNCHANGED <<repoVars, remote, openBefore>>,
             openBefore => pc' \in AtTheGate
      PROVE  OpenMergeKept' /\ OpenMergeAlone
  BY <1>2 DEF repoVars
<1>3. ASSUME pc \notin AtTheGate, UNCHANGED openBefore
      PROVE  OpenMergeKept' /\ OpenMergeAlone
  BY <1>0, <1>3
<1>4. ASSUME pc' = pc, openBefore' = FALSE
      PROVE  OpenMergeKept' /\ OpenMergeAlone
  BY <1>4
<1>5. CASE UNCHANGED vars
  BY <1>1, <1>5 DEF vars, repoVars
<1>6. CASE StartCycle
  BY <1>6 DEF StartCycle, repoVars, netVars
<1>7. CASE CheckLock \/ RemoveStaleLock \/ LoopEnds \/ Restart
  BY <1>2, <1>7
     DEF CheckLock, RemoveStaleLock, LoopEnds, Restart, Goto, End, ReadOnly,
         StepFrame, netVars
\* Here the merge is seen: MERGE_HEAD is there since the user began it.
<1>8. CASE CheckMarker
  <2>1. openBefore => merging # 0
    BY DEF MergeHasHead
  <2> QED
    BY <1>2, <1>8, <2>1
       DEF CheckMarker, Goto, End, ReadOnly, StepFrame, netVars
<1>9. CASE \/ CheckBranch \/ CheckUnmerged \/ CheckStatus \/ AddAll
           \/ CheckStaged \/ ResetIndex \/ CommitChanges \/ Fetch
           \/ CountIncoming \/ RecheckBranch \/ MergeRemote \/ ListConflicts
           \/ TakeOurs \/ StageOurs \/ KeepDeletions \/ ConcludeMerge
           \/ Abort \/ CountOutgoing \/ Push
           \/ StopIfRequested("stop1", "fetch")
           \/ StopIfRequested("stop2", "outgoing")
  BY <1>3, <1>9
     DEF CheckBranch, CheckUnmerged, CheckStatus, AddAll, CheckStaged,
         ResetIndex, CommitChanges, Fetch, CountIncoming, RecheckBranch,
         MergeRemote, ListConflicts, TakeOurs, StageOurs, KeepDeletions,
         ConcludeMerge, Abort, CountOutgoing, Push, StopIfRequested,
         ReadOnly, StepFrame
<1>10. CASE CommandFails
  <2>1. pc \in AtTheGate => pc' = "idle"
    BY <1>10, StepsAssumption
       DEF CommandFails, Raise, End, TryBlock, Steps, GateSteps, CommitSteps,
           PullSteps, PushSteps
  <2> QED  BY <1>2, <1>3, <1>10, <2>1 DEF CommandFails, netVars
<1>11. CASE CommandRaises \/ CommandTimesOut \/ Crash
  <2>1. pc \in AtTheGate => UNCHANGED <<repoVars, netVars>>
    BY <1>11 DEF CommandRaises, CommandTimesOut, Crash, DoneByThen, Done
  <2>2. pc \in AtTheGate => pc' \in {"idle", "down"}
    BY <1>11 DEF CommandRaises, CommandTimesOut, Crash, Raise, End, TryBlock
  <2> QED
    BY <1>2, <1>3, <1>11, <2>1, <2>2
       DEF CommandRaises, CommandTimesOut, Crash, netVars
<1>12. CASE RequestStop \/ LockAges \/ ColleagueStep
  BY <1>1, <1>12
     DEF RequestStop, LockAges, ColleagueStep, ColleaguePushes,
         ColleagueRewrites, ColleagueFrame, repoVars
<1>13. CASE UserStartsMerge \/ UserConcludes \/ UserAborts
  BY <1>4, <1>13
     DEF UserStartsMerge, UserConcludes, UserAborts, UserRuns, EnvFrame
<1>14. CASE \/ \E f \in Files, v \in EditTo : UserEdits(f, v)
            \/ \E f \in Files, v \in Versions : UserResolves(f, v)
            \/ \E to \in Heads : UserSwitches(to)
            \/ UserCommits \/ UserTakesLock \/ UserFreesLock
            \/ UserDiesWithLock
  BY <1>1, <1>14
     DEF UserEdits, UserResolves, UserSwitches, UserCommits, UserTakesLock,
         UserFreesLock, UserDiesWithLock, UserRuns, EnvFrame, repoVars
<1> QED
  BY <1>5, <1>6, <1>7, <1>8, <1>9, <1>10, <1>11, <1>12, <1>13, <1>14
     DEF Next, Service, CycleStep, UserStep, FaultStep

(* A merge the user had open when the cycle began is not touched by any step *)
(* of that cycle, a command of it that fails or is killed included.          *)
THEOREM OpenMergesWait == Spec => OpenMergeWaits
<1>1. Init => MergeHasHead /\ OpenMergeKept
  BY DEF Init, MergeHasHead, OpenMergeKept
<1>2. TypeOK /\ MergeHasHead /\ OpenMergeKept /\ [Next]_vars
        => MergeHasHead' /\ OpenMergeKept' /\ [OpenMergeAlone]_vars
  BY MergeHasHeadStep, OpenMergeStep
<1>3. OpenMergeWaits <=> [][OpenMergeAlone]_vars
  BY DEF OpenMergeWaits, OpenMergeAlone
<1> QED  BY <1>1, <1>2, <1>3, TypeCorrect, PTL DEF Spec


-----------------------------------------------------------------------------
(* The cycle and its phases.                                                 *)

LEMMA PhaseIs ==
    /\ pc \in CommitPhase => PhaseOf = "commit"
    /\ pc \in PullPhase => PhaseOf = "pull"
    /\ pc \in PushPhase => PhaseOf = "push"
    /\ pc = "idle" => PhaseOf = "idle"
    /\ pc = "down" => PhaseOf = "off"
    /\ pc # "idle" => ResultOf = "none"
    /\ pc \in CommitPhase \cup PullPhase \cup PushPhase => pc # "idle"
BY DEF PhaseOf, ResultOf, CommitPhase, PullPhase, PushPhase, GateSteps, CommitSteps,
       PullSteps, MergeWindow, TryBlock, PushSteps

LEMMA PhaseWas ==
    /\ pc' \in CommitPhase => PhaseOf' = "commit"
    /\ pc' \in PullPhase => PhaseOf' = "pull"
    /\ pc' \in PushPhase => PhaseOf' = "push"
    /\ pc' = "idle" => PhaseOf' = "idle"
    /\ pc' = "down" => PhaseOf' = "off"
    /\ pc' # "idle" => ResultOf' = "none"
    /\ pc' = "idle" /\ outcome' \in Kinds => ResultOf' = "failed"
    /\ pc' = "idle" /\ outcome' \in {"changed", "same"} => ResultOf' = "ok"
    /\ pc' = "idle" /\ outcome' = "none" => ResultOf' = "none"
    /\ pc' \in CommitPhase \cup PullPhase \cup PushPhase => pc' # "idle"
BY DEF PhaseOf, ResultOf, CommitPhase, PullPhase, PushPhase, GateSteps, CommitSteps,
       PullSteps, MergeWindow, TryBlock, PushSteps, Kinds

\* The ways a step of the cycle moves: on within its phase, to the next one,
\* or to one of its ends.
Moves(Phase) ==
    \/ pc \in Phase /\ pc' \in Phase
    \/ pc \in Phase /\ pc' = "idle" /\ outcome' \in Kinds
Within == Moves(CommitPhase) \/ Moves(PullPhase) \/ Moves(PushPhase)

LEMMA WithinPhases ==
    ASSUME Within, stopping' = stopping
    PROVE  [Cycle!Next]_(Cycle!vars)
<1> USE PhaseIs, PhaseWas DEF Moves
<1>1. CASE \/ pc \in CommitPhase /\ pc' \in CommitPhase
           \/ pc \in PullPhase /\ pc' \in PullPhase
           \/ pc \in PushPhase /\ pc' \in PushPhase
  BY <1>1 DEF Cycle!vars
<1>2. CASE /\ pc \in CommitPhase \cup PullPhase \cup PushPhase
           /\ pc' = "idle" /\ outcome' \in Kinds
  <2>1. Cycle!Fail
    BY <1>2 DEF Cycle!Fail, Cycle!Phases
  <2> QED  BY <2>1 DEF Cycle!Next
<1> QED  BY <1>1, <1>2 DEF Within

LEMMA CycleStepPhases ==
    ASSUME TypeOK, CycleStep
    PROVE  [Cycle!Next]_(Cycle!vars)
<1> USE DEF Goto, End, Raise, Moves, CommitPhase, PullPhase, PushPhase, GateSteps,
            CommitSteps, PullSteps, MergeWindow, TryBlock, PushSteps, Kinds
<1>1. stopping' = stopping
  BY DEF CycleStep, CheckLock, RemoveStaleLock, CheckMarker, CheckBranch,
         CheckUnmerged, CheckStatus, AddAll, CheckStaged, ResetIndex, CommitChanges,
         StopIfRequested, Fetch, CountIncoming, RecheckBranch, MergeRemote,
         ListConflicts, TakeOurs, StageOurs, KeepDeletions, ConcludeMerge, Abort,
         CountOutgoing, Push, ReadOnly, StepFrame
<1>2. head \in {"branch", "side", "detached"}
  BY DEF TypeOK, RepoTypeOK, Heads
<1>3. CASE \/ CheckLock \/ RemoveStaleLock \/ CheckMarker \/ CheckBranch
           \/ CheckUnmerged \/ CheckStatus
  <2>1. Moves(CommitPhase)
    BY <1>2, <1>3 DEF CheckLock, RemoveStaleLock, CheckMarker, CheckBranch,
          CheckUnmerged, CheckStatus, EnsureOnBranch
  <2> QED  BY <1>1, <2>1, WithinPhases DEF Within
<1>4. CASE AddAll \/ CheckStaged \/ ResetIndex \/ CommitChanges
  <2>1. Moves(CommitPhase)
    BY <1>4 DEF AddAll, CheckStaged, ResetIndex, CommitChanges
  <2> QED  BY <1>1, <2>1, WithinPhases DEF Within
<1>5. CASE Fetch \/ CountIncoming \/ RecheckBranch \/ MergeRemote
  <2>1. Moves(PullPhase)
    BY <1>2, <1>5 DEF Fetch, CountIncoming, RecheckBranch, MergeRemote, EnsureOnBranch
  <2> QED  BY <1>1, <2>1, WithinPhases DEF Within
<1>6. CASE \/ ListConflicts \/ TakeOurs \/ StageOurs \/ KeepDeletions
           \/ ConcludeMerge \/ Abort
  <2>1. Moves(PullPhase)
    BY <1>6 DEF ListConflicts, TakeOurs, StageOurs, KeepDeletions, ConcludeMerge, Abort
  <2> QED  BY <1>1, <2>1, WithinPhases DEF Within
<1>7. CASE CountOutgoing \/ Push
  <2>1. \/ Moves(PushPhase)
        \/ pc \in PushPhase /\ pc' = "idle" /\ outcome' \in {"changed", "same"}
    BY <1>7 DEF CountOutgoing, Push, Result
  <2>2. CASE pc \in PushPhase /\ pc' = "idle" /\ outcome' \in {"changed", "same"}
    <3>1. Cycle!Succeed
      BY <1>1, <2>2, PhaseIs, PhaseWas DEF Cycle!Succeed
    <3> QED  BY <3>1 DEF Cycle!Next
  <2> QED  BY <1>1, <2>1, <2>2, WithinPhases DEF Within
<1>8. CASE StopIfRequested("stop1", "fetch") \/ StopIfRequested("stop2", "outgoing")
  <2>1. \/ pc \in CommitPhase /\ ~stopping /\ pc' \in PullPhase
        \/ pc \in PullPhase /\ ~stopping /\ pc' \in PushPhase
        \/ pc \in CommitPhase \cup PullPhase /\ stopping /\ pc' = "down"
    BY <1>8 DEF StopIfRequested
  <2>2. CASE pc \in CommitPhase /\ ~stopping /\ pc' \in PullPhase
    <3>1. Cycle!Advance("commit", "pull")
      BY <1>1, <2>2, PhaseIs, PhaseWas DEF Cycle!Advance
    <3> QED  BY <3>1 DEF Cycle!Next
  <2>3. CASE pc \in PullPhase /\ ~stopping /\ pc' \in PushPhase
    <3>1. Cycle!Advance("pull", "push")
      BY <1>1, <2>3, PhaseIs, PhaseWas DEF Cycle!Advance
    <3> QED  BY <3>1 DEF Cycle!Next
  <2>4. CASE pc \in CommitPhase \cup PullPhase /\ stopping /\ pc' = "down"
    <3>1. Cycle!CutShort
      BY <1>1, <2>4, PhaseIs, PhaseWas DEF Cycle!CutShort
    <3> QED  BY <3>1 DEF Cycle!Next
  <2> QED  BY <2>1, <2>2, <2>3, <2>4
<1> QED  BY <1>3, <1>4, <1>5, <1>6, <1>7, <1>8 DEF CycleStep

\* What is not a step of a cycle: a failure inside one, the beginning of one,
\* the end of the service and its return, and everybody else.
LEMMA OtherPhases ==
    ASSUME TypeOK, StartCycle \/ LoopEnds \/ Restart \/ FaultStep
                   \/ UserStep \/ ColleagueStep
    PROVE  [Cycle!Next]_(Cycle!vars)
<1> USE PhaseIs, PhaseWas
<1>0. stopping \in BOOLEAN
  BY DEF TypeOK, CycleTypeOK
<1>1. CASE StartCycle
  <2>1. pc = "idle" /\ ~stopping /\ stopping' = stopping /\ pc' \in CommitPhase
    BY <1>1 DEF StartCycle, CommitPhase, GateSteps
  <2>2. Cycle!Begin
    BY <2>1 DEF Cycle!Begin
  <2> QED  BY <2>2 DEF Cycle!Next
<1>2. CASE LoopEnds \/ Crash
  <2>1. Cycle!TurnOff
    BY <1>2 DEF LoopEnds, Crash, Goto, Cycle!TurnOff
  <2> QED  BY <2>1 DEF Cycle!Next
<1>3. CASE Restart
  <2>1. Cycle!TurnOn
    BY <1>3 DEF Restart, Cycle!TurnOn
  <2> QED  BY <2>1 DEF Cycle!Next
<1>4. CASE CommandFails \/ CommandRaises \/ CommandTimesOut
  <2>1. Within
    BY <1>4, StepsAssumption
       DEF CommandFails, CommandRaises, CommandTimesOut, Goto, End, Raise, Within, Moves, CommitPhase,
           PullPhase, PushPhase, GateSteps, CommitSteps, PullSteps, MergeWindow,
           TryBlock, PushSteps, Kinds, GitSteps, Steps
  <2> QED
    BY <1>4, <2>1, WithinPhases DEF CommandFails, CommandRaises, CommandTimesOut
<1>5. CASE RequestStop
  <2>1. pc' = pc /\ outcome' = outcome /\ stopping' = TRUE
    BY <1>5 DEF RequestStop
  <2>2. PhaseOf' = PhaseOf /\ ResultOf' = ResultOf
    BY <2>1 DEF PhaseOf, ResultOf
  <2>3. CASE PhaseOf = "off"
    BY <2>1, <2>2, <2>3 DEF Cycle!vars
  <2>4. CASE PhaseOf # "off"
    <3>1. Cycle!RequestStop
      BY <2>1, <2>2, <2>4 DEF Cycle!RequestStop
    <3> QED  BY <3>1 DEF Cycle!Next
  <2> QED  BY <2>3, <2>4
<1>6. CASE UNCHANGED <<pc, outcome, stopping>>
  BY <1>6 DEF PhaseOf, ResultOf, Cycle!vars
<1>7. LockAges \/ UserStep \/ ColleagueStep => UNCHANGED <<pc, outcome, stopping>>
  BY DEF LockAges, UserStep, UserEdits, UserStartsMerge, UserConcludes, UserAborts,
         UserCommits, UserResolves, UserSwitches, UserTakesLock, UserFreesLock,
         UserDiesWithLock, UserRuns, EnvFrame, ColleagueStep, ColleaguePushes,
         ColleagueRewrites, ColleagueFrame
<1> QED  BY <1>1, <1>2, <1>3, <1>4, <1>5, <1>6, <1>7 DEF FaultStep

(* Seen from the scheduler, sync_once with all that fails or is killed in it *)
(* runs through three phases and can be cut short only between them.         *)
THEOREM PhasesFollowed == Spec => FollowsPhases
<1>1. Init => Cycle!Init
  BY PhaseIs DEF Init, Cycle!Init, ResultOf
<1>2. IInv /\ [Next]_vars => [Cycle!Next]_(Cycle!vars)
  <2> SUFFICES ASSUME TypeOK, [Next]_vars PROVE [Cycle!Next]_(Cycle!vars)
    BY DEF IInv
  <2>1. CASE UNCHANGED vars
    BY <2>1 DEF vars, PhaseOf, ResultOf, Cycle!vars
  <2>2. CASE Next
    BY <2>2, CycleStepPhases, OtherPhases DEF Next, Service
  <2> QED  BY <2>1, <2>2
<1> QED  BY <1>1, <1>2, Invariance, PTL DEF Spec, FollowsPhases, Cycle!Spec
====
