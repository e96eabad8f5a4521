-------------------------- MODULE ResolutionProofs --------------------------
(* What gets into the commits the backup makes: whole local files in a       *)
(* conflict, and no conflict markers.  Both rest on what the index holds     *)
(* between `git merge' and `git commit --no-edit', for any files, trees and  *)
(* failures, and whatever the user does except merge by himself: the index   *)
(* of his merge is his.                                                      *)
EXTENDS SyncAssetProofs, WellFoundedInduction

-----------------------------------------------------------------------------
(* Two commits have a latest common ancestor, since all descend from the     *)
(* first.                                                                    *)

Rooted == \A c \in Commits : 1 \in Anc(c)

LEMMA LargestNatural ==
    ASSUME NEW n \in Nat, NEW S \in SUBSET (1 .. n), S # {}
    PROVE  \E b \in S : \A a \in S : a <= b
<1> DEFINE T == {n - s : s \in S}
           R == {ss \in Nat \X Nat : ss[1] < ss[2]}
<1>1. T \subseteq Nat /\ T # {}
  <2>1. \A s \in S : n - s \in Nat
    OBVIOUS
  <2>2. PICK s \in S : TRUE
    OBVIOUS
  <2> QED  BY <2>1, <2>2
<1>2. PICK t \in T : \A u \in T : ~(<<u, t>> \in R)
  <2>1. IsWellFoundedOn(R, Nat)
    BY NatLessThanWellFounded DEF OpToRel
  <2> HIDE DEF T, R
  <2> QED  BY <1>1, <2>1, WFMin
<1>3. PICK b \in S : t = n - b
  OBVIOUS
<1>4. ASSUME NEW a \in S PROVE a <= b
  <2>1. a \in Nat /\ b \in Nat /\ a <= n /\ b <= n
    OBVIOUS
  <2>2. n - a \in T /\ n - a \in Nat /\ n - b \in Nat
    BY <2>1
  <2>3. ~(n - a < n - b)
    BY <1>2, <1>3, <2>2
  <2> QED  BY <2>1, <2>3
<1> QED  BY <1>4

\* `git merge-base' as a function of the two histories.
Latest(A, B) == CHOOSE b \in A \cap B : \A a \in A \cap B : a <= b

LEMMA MergeBaseIsCommit ==
    ASSUME RepoTypeOK, Rooted, NEW c \in Commits, NEW d \in Commits
    PROVE  MergeBase(c, d) \in Commits
<1>1. /\ Commits = 1 .. Len(history) /\ Len(history) \in Nat
      /\ Anc(c) \in SUBSET Commits /\ Anc(d) \in SUBSET Commits
  BY CommitTypes
<1>2. 1 \in Anc(c) \cap Anc(d)
  BY DEF Rooted
<1>3. \E b \in Anc(c) \cap Anc(d) : \A a \in Anc(c) \cap Anc(d) : a <= b
  <2> DEFINE S == Anc(c) \cap Anc(d)
  <2>1. S \in SUBSET (1 .. Len(history)) /\ S # {}
    BY <1>1, <1>2
  <2> HIDE DEF S
  <2>2. \E b \in S : \A a \in S : a <= b
    BY <1>1, <2>1, LargestNatural
  <2> QED  BY <2>2 DEF S
<1>4. MergeBase(c, d) \in Anc(c) \cap Anc(d)
  BY <1>3 DEF MergeBase
<1> QED  BY <1>1, <1>4

\* A commit keeps the tree and the parents it was made with.
LEMMA RecordedAs ==
    ASSUME RepoTypeOK, NEW parents \in SUBSET Commits, NEW tree \in Tree,
           NEW by \in Actors, Record(parents, tree, by)
    PROVE  history'[NextId].tree = tree /\ history'[NextId].parents = parents
<1>1. Len(history) \in Nat /\ history \in Seq(CommitRecord(Len(history)))
  BY CommitTypes DEF RepoTypeOK
<1>2. history' = Append(history, Commit(NextId, parents, tree, by))
  BY DEF Record
<1> HIDE DEF Commit
<1>3. history'[Len(history) + 1] = Commit(NextId, parents, tree, by)
  BY <1>1, <1>2
<1> QED  BY <1>3 DEF NextId, Commit

LEMMA RootedStep ==
    ASSUME TypeOK, Rooted, [Next]_vars
    PROVE  Rooted' /\ Grows
<1> USE DEF Rooted
<1> RepoTypeOK /\ tracking \in Commits /\ remote \in Commits
  BY DEF TypeOK, NetTypeOK
<1>1. CASE history' = history
  BY <1>1 DEF Commits, Anc, Grows
<1>2. ASSUME NEW parents \in SUBSET Commits, parents # {}, NEW tree \in Tree,
             NEW by \in Actors, Record(parents, tree, by)
      PROVE  Rooted' /\ Grows
  <2>1. /\ Commits' = Commits \cup {NextId} /\ Grows
        /\ history'[NextId].anc = {NextId} \cup UNION {Anc(p) : p \in parents}
    BY <1>2, RecordGrows
  <2>2. 1 \in history'[NextId].anc
    BY <1>2, <2>1
  <2>3. \A c \in Commits : Anc(c)' = Anc(c)
    BY <2>1 DEF Grows, Anc
  <2> QED  BY <2>1, <2>2, <2>3 DEF Anc
<1>3. CASE AddsCommit
  <2>1. tip[head] \in Commits /\ merging \in Commits \cup {0}
    BY DEF RepoTypeOK
  <2> QED  BY <1>2, <1>3, <2>1 DEF AddsCommit
<1>4. CASE OthersPush
  <2>1. "colleague" \in Actors /\ history[remote].parents \in SUBSET Commits
    BY CommitTypes DEF Actors
  <2>2. PICK p \in {remote} \cup history[remote].parents, tree \in Tree :
            Record({p}, tree, "colleague")
    BY <1>4 DEF OthersPush
  <2>3. {p} \in SUBSET Commits /\ {p} # {}
    BY <2>1
  <2> QED  BY <1>2, <2>1, <2>2, <2>3
<1>5. CASE (LocalStep /\ ~AddsCommit) \/ Learns \/ Publishes
  BY <1>1, <1>5
     DEF LocalStep, RefStep, KeepsRefs, FastForwards, Detaches, Learns,
         Publishes, repoVars, refVars
<1> QED  BY <1>3, <1>4, <1>5, StepKinds

-----------------------------------------------------------------------------
(* The invariant.                                                            *)

\* What becomes of a file in the merge in progress.
Resolved(f) ==
    IF f \in MergeConflicts(merging) THEN HeadTree[f]
    ELSE ThreeWay(TreeOf(MergeBase(tip[head], merging)), HeadTree, TreeOf(merging))[f]
AsResolved == \A f \in Files \ touched : index[f] = Resolved(f)

Resolution == {"ours", "addours", "rm", "conclude"}
Watched == PullSteps \cup {"commit", "list"} \cup Resolution

\* Nothing is staged from the end of the commit to `git merge'.
Ready == pc \in PullSteps => index = HeadTree /\ unmerged = {}

\* What was looked through for markers is what is committed.
Inspected ==
    pc = "commit" => \A f \in Files : index[f] = Marked => HeadTree[f] = Marked

\* The index holds the resolution from `git merge' on: what `add' and `rm'
\* bring into it has been there.
Resolving ==
    merging # 0 =>
      /\ pc = "list" /\ unmerged # {} => AsResolved
      /\ pc \in Resolution => AsResolved
      /\ pc \in Resolution \ {"conclude"} => \A f \in removed : index[f] = Absent
      /\ pc = "addours" => \A f \in kept \ touched : work[f] = index[f]

RInv ==
    /\ Rooted /\ merger # "user" /\ kept \cap removed = {}
    /\ Ready /\ Inspected /\ Resolving

-----------------------------------------------------------------------------
(* The resolution does not change while the merge is in progress.            *)

LEMMA ResolutionStays ==
    ASSUME RepoTypeOK, Rooted, Grows, merging # 0,
           UNCHANGED <<head, tip, merging>>
    PROVE  HeadTree' = HeadTree /\ \A f \in Files : Resolved(f)' = Resolved(f)
<1>1. tip[head] \in Commits /\ merging \in Commits
  BY DEF RepoTypeOK
<1>2. /\ Anc(tip[head])' = Anc(tip[head]) /\ Anc(merging)' = Anc(merging)
      /\ TreeOf(tip[head])' = TreeOf(tip[head])
      /\ TreeOf(merging)' = TreeOf(merging)
  BY <1>1 DEF Grows, Anc, TreeOf
<1>3. MergeBase(tip[head], merging)' = MergeBase(tip[head], merging)
  <2>1. MergeBase(tip[head], merging) = Latest(Anc(tip[head]), Anc(merging))
    BY DEF MergeBase, Latest
  <2>2. MergeBase(tip[head], merging)' = Latest(Anc(tip[head])', Anc(merging)')
    BY DEF MergeBase, Latest
  <2> QED  BY <1>2, <2>1, <2>2
<1>4. TreeOf(MergeBase(tip[head], merging))' = TreeOf(MergeBase(tip[head], merging))
  <2>1. MergeBase(tip[head], merging) \in Commits
    BY <1>1, MergeBaseIsCommit
  <2> HIDE DEF MergeBase
  <2> QED  BY <1>3, <2>1 DEF Grows, TreeOf
<1>5. HeadTree' = HeadTree
  BY <1>2 DEF HeadTree
<1>6. MergeConflicts(merging)' = MergeConflicts(merging)
  BY <1>2, <1>4, <1>5 DEF MergeConflicts, ConflictsOf
<1>7. ASSUME NEW f \in Files PROVE Resolved(f)' = Resolved(f)
  BY <1>2, <1>4, <1>5, <1>6 DEF Resolved, ThreeWay
<1> QED  BY <1>5, <1>7

\* `git merge' that stops puts the resolution into the index at once.
LEMMA MergeStagesResolution ==
    ASSUME RepoTypeOK, NEW c \in Commits, index = HeadTree, MergeFiles(c),
           UNCHANGED refVars, merging' = c
    PROVE  \A f \in Files : index'[f] = Resolved(f)'
<1>1. /\ HeadTree' = HeadTree /\ MergeConflicts(merging)' = MergeConflicts(c)
      /\ TreeOf(merging)' = TreeOf(c)
      /\ TreeOf(MergeBase(tip[head], merging))' = TreeOf(MergeBase(tip[head], c))
  BY DEF refVars, HeadTree, MergeConflicts, ConflictsOf, TreeOf, MergeBase, Anc
<1>2. ASSUME NEW f \in Files PROVE index'[f] = Resolved(f)'
  <2>1. Resolved(f)' = IF f \in MergeConflicts(c) THEN HeadTree[f]
          ELSE ThreeWay(TreeOf(MergeBase(tip[head], c)), HeadTree, TreeOf(c))[f]
    BY <1>1 DEF Resolved, ThreeWay
  <2>2. f \notin MergeConflicts(c) => Merged(c, f)
          = ThreeWay(TreeOf(MergeBase(tip[head], c)), HeadTree, TreeOf(c))[f]
    BY DEF Merged, MergedFile, MergeConflicts
  <2>3. index'[f] = IF f \in MergeConflicts(c) \/ Merged(c, f) = HeadTree[f]
                    THEN HeadTree[f] ELSE Merged(c, f)
    BY DEF MergeFiles
  <2> QED  BY <2>1, <2>2, <2>3
<1> QED  BY <1>2

-----------------------------------------------------------------------------
(* The steps.  Most leave what the invariant is about, or leave it alone.    *)

LEMMA Leaves ==
    ASSUME RInv, Rooted', pc' \notin Watched, merger' # "user",
           kept' \cap removed' = {}
    PROVE  RInv'
BY DEF RInv, Ready, Inspected, Resolving, Watched, Resolution

\* A pull that has not merged yet.
LEMMA StaysReady ==
    ASSUME RInv, Rooted', pc \in PullSteps, UNCHANGED <<repoVars, kept, removed>>,
           pc' \notin Resolution \cup {"commit"}
    PROVE  RInv'
<1>1. UNCHANGED <<index, unmerged, merger, HeadTree>>
  BY DEF repoVars, refVars, fileVars, mergeVars, HeadTree, TreeOf
<1> QED
  BY <1>1
     DEF RInv, Ready, Inspected, Resolving, Watched, Resolution, PullSteps

\* Whoever acts, the index, the refs and the cycle stay where they are.
LEMMA IndexUntouched ==
    ASSUME TypeOK, RInv, Rooted', Grows,
           UNCHANGED <<head, tip, index, unmerged, merging, merger, kept,
                       removed, pc>>,
           touched \subseteq touched',
           \A f \in Files \ touched' : pc \in MergeWindow => work'[f] = work[f]
    PROVE  RInv'
<1>1. RepoTypeOK /\ tip[head] \in Commits /\ kept \in SUBSET Files
  BY DEF TypeOK, RepoTypeOK, CycleTypeOK
<1>2. HeadTree' = HeadTree
  BY <1>1 DEF Grows, HeadTree, TreeOf
<1>3. Ready' /\ Inspected'
  BY <1>2 DEF RInv, Ready, Inspected
<1>4. ASSUME merging # 0, AsResolved PROVE AsResolved'
  <2>1. \A f \in Files : Resolved(f)' = Resolved(f)
    BY <1>1, <1>4, ResolutionStays DEF RInv
  <2> QED  BY <1>4, <2>1 DEF AsResolved
<1>5. merging # 0 /\ pc = "addours" => \A f \in kept \ touched' : work'[f] = index[f]
  BY <1>1 DEF RInv, Resolving, MergeWindow, TryBlock, Resolution
<1>6. Resolving'
  BY <1>4, <1>5 DEF RInv, Resolving
<1> QED  BY <1>3, <1>6 DEF RInv

\* A commit on HEAD leaves nothing staged.
LEMMA CommitTakesIndex ==
    ASSUME RepoTypeOK, NEW by \in Actors, CommitIndex(by)
    PROVE  /\ history'[tip'[head]].tree = index
           /\ history'[NextId].tree = index /\ tip'[head] = NextId
           /\ history'[NextId].parents = {tip[head]} \cup ({merging} \ {0})
           /\ HeadTree' = index /\ UNCHANGED <<head, index, unmerged, work>>
           /\ unmerged = {} /\ merger' = "none"
<1>1. /\ tip \in [Heads -> Commits] /\ head \in Heads /\ index \in Tree
      /\ {tip[head]} \cup ({merging} \ {0}) \in SUBSET Commits
  BY DEF RepoTypeOK
<1>2. /\ Record({tip[head]} \cup ({merging} \ {0}), index, by)
      /\ tip' = [tip EXCEPT ![head] = NextId]
      /\ UNCHANGED <<head, index, unmerged, work>>
      /\ unmerged = {} /\ merger' = "none"
  BY DEF CommitIndex, CanCommit, fileVars
<1>3. tip'[head] = NextId
  BY <1>1, <1>2
<1>4. /\ history'[NextId].tree = index
      /\ history'[NextId].parents = {tip[head]} \cup ({merging} \ {0})
  BY <1>1, <1>2, RecordedAs
<1> QED  BY <1>2, <1>3, <1>4 DEF HeadTree, TreeOf

\* The user, who may commit and switch branches: then no merge is open.
LEMMA UserKeepsResolution ==
    ASSUME "merge" \notin UserGit, TypeOK, RInv, Rooted', Grows, UserStep
    PROVE  RInv'
<1> RepoTypeOK /\ pc \in PCs
  BY DEF TypeOK, CycleTypeOK
<1> merger # "user"
  BY DEF RInv
<1>1. CASE \E f \in Files, v \in EditTo : UserEdits(f, v)
  <2>1. PICK f \in Files, v \in EditTo : UserEdits(f, v)
    BY <1>1
  <2>2. UNCHANGED <<head, tip, index, unmerged, merging, merger, kept, removed, pc>>
    BY <2>1 DEF UserEdits, Untouched, EnvFrame, refVars, mergeVars
  <2>3. /\ touched \subseteq touched'
        /\ \A g \in Files \ touched' : pc \in MergeWindow => work'[g] = work[g]
    BY <2>1 DEF UserEdits, RepoTypeOK, Tree
  <2> QED  BY <2>2, <2>3, IndexUntouched
<1>2. CASE UserTakesLock \/ UserFreesLock \/ UserDiesWithLock
  <2>1. UNCHANGED <<head, tip, index, unmerged, merging, merger, kept, removed,
                    pc, touched, work>>
    BY <1>2
       DEF UserTakesLock, UserFreesLock, UserDiesWithLock, EnvFrame, repoVars,
           refVars, fileVars, mergeVars, cycleVars
  <2> QED  BY <2>1, IndexUntouched
<1>3. ASSUME UNCHANGED <<kept, removed, pc, merger, unmerged>>, merging' = 0,
             pc \in PullSteps /\ index = HeadTree => index' = HeadTree',
             \A f \in Files : index'[f] = Marked /\ HeadTree'[f] # Marked
                              => index[f] = Marked /\ HeadTree[f] # Marked
      PROVE  RInv'
  BY <1>3 DEF RInv, Ready, Inspected, Resolving
<1>4. CASE UserCommits
  <2>1. /\ UNCHANGED <<head, unmerged, merging, merger, kept, removed, pc>>
        /\ merging = 0 /\ index' = work
        /\ Record({tip[head]}, work, "user")
        /\ tip' = [tip EXCEPT ![head] = NextId]
    BY <1>4 DEF UserCommits, UserRuns, Untouched, EnvFrame, mergeVars
  <2>2. {tip[head]} \in SUBSET Commits /\ work \in Tree /\ "user" \in Actors
    BY DEF RepoTypeOK, Actors
  <2>3. history'[NextId].tree = work
    BY <2>1, <2>2, RecordedAs
  <2>4. tip'[head'] = NextId
    BY <2>1 DEF RepoTypeOK
  <2>5. HeadTree' = index'
    BY <2>1, <2>3, <2>4 DEF HeadTree, TreeOf
  <2> QED  BY <1>3, <2>1, <2>5
<1>5. CASE \E to \in Heads : UserSwitches(to)
  <2> DEFINE at(to) == IF to = "detached" THEN tip[head] ELSE tip[to]
             dirty == {f \in Files : work[f] # HeadTree[f] \/ index[f] # HeadTree[f]}
  <2>1. PICK to \in Heads : UserSwitches(to)
    BY <1>5
  <2>2. at(to) \in Commits /\ TreeOf(at(to)) \in Tree /\ HeadTree \in Tree
    BY CommitTypes DEF RepoTypeOK, HeadTree
  <2>3. /\ UNCHANGED <<history, unmerged, merging, merger, kept, removed, pc>>
        /\ merging = 0 /\ head' = to /\ tip' = [tip EXCEPT ![to] = at(to)]
        /\ \A f \in dirty : TreeOf(at(to))[f] = HeadTree[f]
        /\ index' = [f \in Files |-> IF f \in dirty THEN index[f]
                                     ELSE TreeOf(at(to))[f]]
    BY <2>1 DEF UserSwitches, UserRuns, Untouched, EnvFrame, mergeVars
  <2>4. tip'[head'] = at(to)
    BY <2>3 DEF RepoTypeOK
  <2>5. HeadTree' = TreeOf(at(to))
    BY <2>3, <2>4 DEF HeadTree, TreeOf
  <2>6. ASSUME index = HeadTree PROVE index' = HeadTree'
    <3> HIDE DEF at
    <3>1. \A f \in Files : index'[f] = TreeOf(at(to))[f]
      BY <2>3, <2>6
    <3>2. TreeOf(at(to)) = [f \in Files |-> TreeOf(at(to))[f]]
      BY <2>2 DEF Tree
    <3>3. index' = [f \in Files |-> TreeOf(at(to))[f]]
      BY <2>3, <3>1
    <3> QED  BY <2>5, <3>2, <3>3
  <2>7. \A f \in Files : index'[f] = Marked /\ HeadTree'[f] # Marked
                         => index[f] = Marked /\ HeadTree[f] # Marked
    <3> HIDE DEF at
    <3> QED  BY <2>3, <2>5
  <2> QED  BY <1>3, <2>3, <2>6, <2>7
<1>6. CASE \/ UserStartsMerge \/ UserConcludes \/ UserAborts
           \/ \E f \in Files, v \in Versions : UserResolves(f, v)
  BY <1>6 DEF UserStartsMerge, UserRuns, UserConcludes, UserAborts, UserResolves
<1> QED  BY <1>1, <1>2, <1>4, <1>5, <1>6 DEF UserStep

-----------------------------------------------------------------------------
(* The cycle itself: first the steps outside the resolution of a conflict.   *)

\* A step that begins at the merge or after it.
AfterTheFetch == {"merge"} \cup TryBlock

LEMMA BeforeTheMerge ==
    ASSUME TypeOK, RInv, Rooted', Grows, Service, pc \notin AfterTheFetch
    PROVE  RInv'
<1> USE DEF Goto, End, Raise
<1> RepoTypeOK /\ head \in {"branch", "side", "detached"}
  BY DEF TypeOK, RepoTypeOK, Heads
<1>0. merger # "user" /\ kept \cap removed = {}
  BY DEF RInv
<1>1. CASE StartCycle \/ LoopEnds \/ Restart
  <2>1. pc' \notin Watched
    BY <1>1
       DEF StartCycle, LoopEnds, Restart, Watched, PullSteps, Resolution
  <2>2. merger' # "user" /\ kept' \cap removed' = {}
    BY <1>0, <1>1
       DEF StartCycle, LoopEnds, Restart, ReadOnly, StepFrame, repoVars,
           mergeVars, cycleVars
  <2> QED  BY <2>1, <2>2, Leaves
<1>2. CASE \/ CheckLock \/ RemoveStaleLock \/ CheckMarker \/ CheckBranch
           \/ CheckUnmerged \/ CountOutgoing
           \/ StopIfRequested("stop2", "outgoing")
  <2>1. pc' \notin Watched
    BY <1>2
       DEF CheckLock, RemoveStaleLock, CheckMarker, CheckBranch, EnsureOnBranch,
           CheckUnmerged, CountOutgoing, StopIfRequested, Watched, PullSteps,
           Resolution
  <2>2. merger' # "user" /\ kept' \cap removed' = {}
    BY <1>0, <1>2
       DEF CheckLock, RemoveStaleLock, CheckMarker, CheckBranch, CheckUnmerged,
           CountOutgoing, StopIfRequested, ReadOnly, repoVars, mergeVars, cycleVars
  <2> QED  BY <2>1, <2>2, Leaves
<1>3. CASE AddAll \/ ResetIndex \/ Abort \/ Push
  <2>1. pc' \notin Watched
    BY <1>3
       DEF AddAll, ResetIndex, Abort, Push, Watched, PullSteps, Resolution, TryBlock
  <2>2. merger' # "user" /\ kept' \cap removed' = {}
    BY <1>0, <1>3
       DEF AddAll, ResetIndex, Abort, Push, StageAll, Unstage, AbortMerge,
           Publish, repoVars, mergeVars, cycleVars
  <2> QED  BY <2>1, <2>2, Leaves
<1>4. CASE CheckStatus
  <2>1. /\ UNCHANGED <<index, unmerged, merger, kept, removed>>
        /\ HeadTree' = HeadTree
    BY <1>4
       DEF CheckStatus, ReadOnly, repoVars, refVars, fileVars, mergeVars,
           cycleVars, HeadTree, TreeOf
  <2>2. \/ pc' = "add"
        \/ pc' = "stop1" /\ index = HeadTree /\ unmerged = {}
    BY <1>4 DEF CheckStatus, Changes
  <2> QED
    BY <1>0, <2>1, <2>2
       DEF RInv, Ready, Inspected, Resolving, PullSteps, Resolution
<1>5. CASE CheckStaged
  <2>1. /\ UNCHANGED <<index, merger, kept, removed>> /\ HeadTree' = HeadTree
    BY <1>5
       DEF CheckStaged, ReadOnly, repoVars, refVars, fileVars, mergeVars,
           cycleVars, HeadTree, TreeOf
  <2>2. \/ pc' = "reset"
        \/ pc' = "commit" /\ NewlyMarked = {}
    BY <1>5 DEF CheckStaged
  <2> QED
    BY <1>0, <2>1, <2>2
       DEF RInv, Ready, Inspected, Resolving, PullSteps, Resolution, NewlyMarked
<1>6. CASE CommitChanges
  <2>1. UNCHANGED <<kept, removed>>
    BY <1>6 DEF CommitChanges
  <2>2. CASE CommitIndex("backup") /\ pc' = "stop1"
    <3>1. /\ HeadTree' = index /\ UNCHANGED <<index, unmerged>> /\ unmerged = {}
          /\ merger' = "none"
      BY <2>2, CommitTakesIndex DEF Actors
    <3> QED
      BY <1>0, <2>1, <2>2, <3>1
         DEF RInv, Ready, Inspected, Resolving, PullSteps, Resolution
  <2>3. CASE UNCHANGED repoVars /\ pc' = "idle"
    BY <1>0, <2>1, <2>3, Leaves
       DEF repoVars, mergeVars, Watched, PullSteps, Resolution
  <2> QED  BY <1>6, <2>2, <2>3 DEF CommitChanges, TryBlock
<1>7. CASE \/ StopIfRequested("stop1", "fetch") \/ Fetch \/ CountIncoming
           \/ RecheckBranch
  <2>1. UNCHANGED <<repoVars, kept, removed>>
    BY <1>7
       DEF StopIfRequested, Fetch, CountIncoming, RecheckBranch, ReadOnly, cycleVars
  <2>2. pc \in PullSteps /\ pc' \notin Resolution \cup {"commit"}
    BY <1>7
       DEF StopIfRequested, Fetch, CountIncoming, RecheckBranch, EnsureOnBranch,
           PullSteps, Resolution
  <2> QED  BY <2>1, <2>2, StaysReady
<1>8. CASE \/ MergeRemote \/ ListConflicts \/ TakeOurs \/ StageOurs
           \/ KeepDeletions \/ ConcludeMerge
  BY <1>8
     DEF MergeRemote, ListConflicts, TakeOurs, StageOurs, KeepDeletions,
         ConcludeMerge, AfterTheFetch, TryBlock
<1> QED
  BY <1>1, <1>2, <1>3, <1>4, <1>5, <1>6, <1>7, <1>8 DEF Service, CycleStep

-----------------------------------------------------------------------------
(* The merge and its resolution.                                             *)

\* Steps that leave the refs and the merge alone leave the resolution alone.
LEMMA ResolutionKept ==
    ASSUME TypeOK, RInv, Rooted', Grows, UNCHANGED <<head, tip, mergeVars>>,
           UNCHANGED touched, merging # 0, AsResolved,
           \A f \in Files \ touched : index'[f] = index[f]
    PROVE  AsResolved'
<1>1. \A f \in Files : Resolved(f)' = Resolved(f)
  BY ResolutionStays DEF TypeOK, RInv, mergeVars
<1> QED  BY <1>1 DEF AsResolved

\* A step from one command of the resolution to the next.
LEMMA NextCommand ==
    ASSUME RInv, Rooted', merger' # "user", UNCHANGED <<kept, removed>>,
           pc' \in Resolution,
           merging' # 0 =>
             /\ AsResolved'
             /\ pc' # "conclude" => \A f \in removed' : index'[f] = Absent
             /\ pc' = "addours" => \A f \in (kept \ touched)' : work'[f] = index'[f]
    PROVE  RInv'
<1>1. pc' \notin PullSteps \cup {"commit", "list"}
  BY DEF Resolution, PullSteps
<1>2. Resolving'
  BY <1>1 DEF Resolving
<1> QED  BY <1>1, <1>2 DEF RInv, Ready, Inspected

\* `git merge' puts it there.
LEMMA MergeResolves ==
    ASSUME TypeOK, RInv, Rooted', MergeRemote
    PROVE  RInv'
<1> USE DEF Goto
<1> RepoTypeOK /\ tracking \in Commits
  BY DEF TypeOK, NetTypeOK
<1>0. /\ pc = "merge" /\ merger # "user" /\ kept \cap removed = {}
      /\ index = HeadTree /\ unmerged = {} /\ UNCHANGED <<kept, removed>>
      /\ touched' = {}
  BY DEF MergeRemote, RInv, Ready, PullSteps
<1>1. CASE pc' = "stop2"
  <2>1. merger' # "user"
    BY <1>0, <1>1 DEF MergeRemote, MergeClean, repoVars, mergeVars
  <2>2. pc' \notin Watched
    BY <1>1 DEF Watched, PullSteps, Resolution
  <2> QED  BY <1>0, <2>1, <2>2, Leaves
<1>2. ASSUME pc' = "list", merger' # "user",
             unmerged' = {} \/ \A f \in Files : index'[f] = Resolved(f)'
      PROVE  RInv'
  <2>1. unmerged' = {} \/ AsResolved'
    BY <1>2 DEF AsResolved
  <2> QED
    BY <1>0, <1>2, <2>1
       DEF RInv, Ready, Inspected, Resolving, PullSteps, Resolution
<1>3. CASE MergeStops(tracking, "backup") /\ pc' = "list"
  <2>1. MergeFiles(tracking) /\ UNCHANGED refVars /\ merging' = tracking
        /\ merger' = "backup"
    BY <1>3 DEF MergeStops
  <2>2. \A f \in Files : index'[f] = Resolved(f)'
    BY <1>0, <2>1, MergeStagesResolution
  <2> QED  BY <1>2, <1>3, <2>1, <2>2
<1>4. CASE (MergeFindsLock(tracking, "backup") \/ UNCHANGED repoVars) /\ pc' = "list"
  <2>1. unmerged' = {} /\ merger' # "user"
    BY <1>0, <1>4 DEF MergeFindsLock, repoVars, fileVars, mergeVars
  <2> QED  BY <1>2, <1>4, <2>1
<1> QED  BY <1>1, <1>3, <1>4 DEF MergeRemote

\* The commands of the resolution leave it there, and none brings in more.
LEMMA CommandsKeepResolution ==
    ASSUME TypeOK, RInv, Rooted', Grows,
           ListConflicts \/ TakeOurs \/ StageOurs \/ KeepDeletions
    PROVE  RInv'
<1> USE DEF Goto, Raise, TryBlock
<1> RepoTypeOK
  BY DEF TypeOK
<1>0. /\ merger # "user" /\ kept \cap removed = {} /\ Resolving
      /\ index \in Tree /\ unmerged \in SUBSET Files
      /\ kept \in SUBSET Files /\ removed \in SUBSET Files
  BY DEF RInv, RepoTypeOK, TypeOK, CycleTypeOK
<1>1. UNCHANGED <<head, tip, mergeVars, touched>>
  BY DEF ListConflicts, TakeOurs, StageOurs, KeepDeletions, CheckoutOurs,
         AddKept, RemoveDeleted, repoVars, refVars, cycleVars
<1>2. merger' # "user" /\ merging' = merging
  BY <1>0, <1>1 DEF mergeVars
<1>3. CASE pc' = "abort"
  <2>1. kept' \cap removed' = {}
    BY <1>0 DEF ListConflicts, TakeOurs, StageOurs, KeepDeletions, cycleVars
  <2>2. pc' \notin Watched
    BY <1>3 DEF Watched, PullSteps, Resolution
  <2> QED  BY <1>2, <2>1, <2>2, Leaves
<1>4. CASE ListConflicts /\ pc' # "abort"
  <2>1. /\ pc = "list" /\ UNCHANGED <<index, unmerged>>
        /\ kept' = {f \in unmerged : index[f] # Absent}
        /\ removed' = {f \in unmerged : index[f] = Absent}
        /\ pc' \in {"ours", "rm"} /\ unmerged # {}
    BY <1>4 DEF ListConflicts, repoVars, fileVars
  <2>2. merging # 0 => AsResolved
    BY <1>0, <2>1 DEF Resolving
  <2>3. merging # 0 => AsResolved'
    BY <1>1, <2>1, <2>2, ResolutionKept
  <2> QED
    BY <1>2, <2>1, <2>3
       DEF RInv, Ready, Inspected, Resolving, PullSteps, Resolution
<1>5. CASE TakeOurs /\ pc' # "abort"
  <2>1. /\ pc = "ours" /\ UNCHANGED <<index, kept, removed>> /\ pc' = "addours"
        /\ \A f \in kept : work'[f] = index[f]
    BY <1>0, <1>5 DEF TakeOurs, CheckoutOurs, cycleVars
  <2>2. merging # 0 => AsResolved /\ \A f \in removed : index[f] = Absent
    BY <1>0, <2>1 DEF Resolving, Resolution
  <2>3. merging # 0 => AsResolved'
    BY <1>1, <2>1, <2>2, ResolutionKept
  <2> QED  BY <1>2, <2>1, <2>2, <2>3, NextCommand DEF Resolution
<1>6. CASE StageOurs /\ pc' # "abort"
  <2>1. /\ pc = "addours" /\ UNCHANGED <<kept, removed>> /\ pc' \in {"rm", "conclude"}
        /\ index' = [f \in Files |-> IF f \in kept THEN work[f] ELSE index[f]]
    BY <1>6 DEF StageOurs, AddKept, cycleVars
  <2>2. merging # 0 => /\ AsResolved /\ \A f \in removed : index[f] = Absent
                       /\ \A f \in kept \ touched : work[f] = index[f]
    BY <1>0, <2>1 DEF Resolving, Resolution
  <2>3. merging # 0 => \A f \in Files \ touched : index'[f] = index[f]
    BY <2>1, <2>2
  <2>4. merging # 0 => AsResolved'
    BY <1>1, <2>2, <2>3, ResolutionKept
  <2>5. merging # 0 => \A f \in removed : index'[f] = Absent
    BY <1>0, <2>1, <2>2
  <2> QED  BY <1>2, <2>1, <2>4, <2>5, NextCommand DEF Resolution
<1>7. CASE KeepDeletions /\ pc' # "abort"
  <2>1. /\ pc = "rm" /\ UNCHANGED <<kept, removed>> /\ pc' = "conclude"
        /\ index' = [f \in Files |-> IF f \in removed THEN Absent ELSE index[f]]
    BY <1>7 DEF KeepDeletions, RemoveDeleted, cycleVars
  <2>2. merging # 0 => AsResolved /\ \A f \in removed : index[f] = Absent
    BY <1>0, <2>1 DEF Resolving, Resolution
  <2>3. merging # 0 => \A f \in Files \ touched : index'[f] = index[f]
    BY <2>1, <2>2
  <2>4. merging # 0 => AsResolved'
    BY <1>1, <2>2, <2>3, ResolutionKept
  <2> QED  BY <1>2, <2>1, <2>4, NextCommand DEF Resolution
<1> QED  BY <1>3, <1>4, <1>5, <1>6, <1>7

LEMMA ConcludeLeaves ==
    ASSUME RInv, Rooted', ConcludeMerge
    PROVE  RInv'
<1>1. merger' # "user" /\ kept' \cap removed' = {}
  BY DEF RInv, ConcludeMerge, CommitIndex, repoVars, mergeVars
<1>2. pc' \notin Watched
  BY DEF ConcludeMerge, Raise, Goto, TryBlock, Watched, PullSteps, Resolution
<1> QED  BY <1>1, <1>2, Leaves

\* A command that fails, raises or is killed ends the cycle, or the resolution,
\* or is the merge, which then has left nothing in the index.
LEMMA FaultsLeave ==
    ASSUME TypeOK, RInv, Rooted',
           CommandFails \/ CommandRaises \/ CommandTimesOut \/ Crash
    PROVE  RInv'
<1> USE DEF Goto, End, Raise
<1>0. merger # "user" /\ kept \cap removed = {}
  BY DEF RInv
<1>1. CASE CommandFails /\ pc = "merge"
  <2>1. /\ UNCHANGED <<repoVars, kept, removed>> /\ pc' = "list"
    BY <1>1 DEF CommandFails, cycleVars, GitSteps, Steps, TryBlock
  <2> QED  BY <2>1, StaysReady, <1>1 DEF PullSteps, Resolution
<1>2. CASE CommandFails /\ pc # "merge"
  <2>1. UNCHANGED <<merger, kept, removed>>
    BY <1>2 DEF CommandFails, repoVars, mergeVars, cycleVars
  <2>2. pc' \notin Watched
    BY <1>2 DEF CommandFails, TryBlock, Watched, PullSteps, Resolution
  <2> QED  BY <1>0, <2>1, <2>2, Leaves
<1>3. CASE CommandRaises \/ CommandTimesOut \/ Crash
  <2>1. DoneByThen(pc) /\ UNCHANGED <<kept, removed>>
    BY <1>3 DEF CommandRaises, CommandTimesOut, Crash, DoneByThen
  <2>2. merger' # "user"
    <3>1. CASE Done(pc)
      BY <1>0, <3>1
         DEF Done, StageAll, Unstage, CommitIndex, MergeClean, MergeStops,
             MergeFindsLock, CheckoutOurs, AddKept, RemoveDeleted, AbortMerge,
             Publish, repoVars, mergeVars
    <3> QED
      BY <1>0, <2>1, <3>1 DEF DoneByThen, MergeStops, Publish, repoVars, mergeVars
  <2>3. pc' \notin Watched
    BY <1>3
       DEF CommandRaises, CommandTimesOut, Crash, TryBlock, Watched, PullSteps,
           Resolution
  <2> QED  BY <1>0, <2>1, <2>2, <2>3, Leaves
<1> QED  BY <1>1, <1>2, <1>3

LEMMA OthersLeaveIndex ==
    ASSUME TypeOK, RInv, Rooted', Grows,
           RequestStop \/ LockAges \/ ColleagueStep \/ UNCHANGED vars
    PROVE  RInv'
<1>1. UNCHANGED <<head, tip, index, unmerged, merging, merger, kept, removed,
                  pc, touched, work>>
  BY DEF RequestStop, LockAges, ColleagueStep, ColleaguePushes,
         ColleagueRewrites, ColleagueFrame, vars, repoVars, refVars, fileVars,
         mergeVars, cycleVars
<1> QED  BY <1>1, IndexUntouched

LEMMA ResolutionStep ==
    ASSUME "merge" \notin UserGit, TypeOK, RInv, [Next]_vars
    PROVE  RInv'
<1>1. Rooted' /\ Grows
  BY RootedStep DEF RInv
<1>2. CASE Service /\ pc \notin AfterTheFetch
  BY <1>1, <1>2, BeforeTheMerge
<1>3. CASE Service /\ pc \in AfterTheFetch
  <2>1. \/ MergeRemote \/ ListConflicts \/ TakeOurs \/ StageOurs
        \/ KeepDeletions \/ ConcludeMerge
    BY <1>3
       DEF Service, CycleStep, AfterTheFetch, TryBlock, StartCycle, CheckLock,
           RemoveStaleLock, CheckMarker, CheckBranch, CheckUnmerged, CheckStatus,
           AddAll, CheckStaged, ResetIndex, CommitChanges, StopIfRequested,
           Fetch, CountIncoming, RecheckBranch, Abort, CountOutgoing, Push,
           LoopEnds, Restart
  <2> QED  BY <1>1, <2>1, MergeResolves, CommandsKeepResolution, ConcludeLeaves
<1>4. CASE UserStep
  BY <1>1, <1>4, UserKeepsResolution
<1>5. CASE CommandFails \/ CommandRaises \/ CommandTimesOut \/ Crash
  BY <1>1, <1>5, FaultsLeave
<1>6. CASE RequestStop \/ LockAges \/ ColleagueStep \/ UNCHANGED vars
  BY <1>1, <1>6, OthersLeaveIndex
<1> QED  BY <1>2, <1>3, <1>4, <1>5, <1>6 DEF Next, FaultStep

-----------------------------------------------------------------------------
(* What the backup commits.                                                  *)

LEMMA BackupCommits ==
    ASSUME TypeOK, [Next]_vars, BackupStep, <<history, tip>>' # <<history, tip>>
    PROVE  \/ pc \in {"commit", "conclude"} /\ CommitIndex("backup")
              /\ (pc = "conclude" => merging # 0)
           \/ pc = "merge" /\ MergeClean(tracking, "backup")
<1> USE DEF BackupStep
<1>1. CASE \/ StartCycle \/ CheckLock \/ RemoveStaleLock \/ CheckMarker
           \/ CheckBranch \/ CheckUnmerged \/ CheckStatus \/ CheckStaged
           \/ StopIfRequested("stop1", "fetch")
           \/ StopIfRequested("stop2", "outgoing")
           \/ Fetch \/ CountIncoming \/ RecheckBranch \/ ListConflicts
           \/ CountOutgoing \/ LoopEnds \/ Restart
           \/ CommandFails \/ RequestStop \/ LockAges \/ UNCHANGED vars
  BY <1>1
     DEF StartCycle, CheckLock, RemoveStaleLock, CheckMarker, CheckBranch,
         CheckUnmerged, CheckStatus, CheckStaged, StopIfRequested, Fetch,
         CountIncoming, RecheckBranch, ListConflicts, CountOutgoing, LoopEnds,
         Restart, CommandFails, RequestStop, LockAges, ReadOnly, vars, repoVars,
         refVars
<1>2. CASE \/ AddAll \/ ResetIndex \/ TakeOurs \/ StageOurs \/ KeepDeletions
           \/ Abort \/ Push
  BY <1>2
     DEF AddAll, ResetIndex, TakeOurs, StageOurs, KeepDeletions, Abort, Push,
         StageAll, Unstage, CheckoutOurs, AddKept, RemoveDeleted, AbortMerge,
         Publish, repoVars, refVars
<1>3. CASE CommitChanges \/ ConcludeMerge
  BY <1>3 DEF CommitChanges, ConcludeMerge, repoVars, refVars
<1>4. CASE MergeRemote
  BY <1>4 DEF MergeRemote, MergeStops, MergeFindsLock, repoVars, refVars
<1>5. CASE CommandRaises \/ CommandTimesOut \/ Crash
  <2>1. DoneByThen(pc)
    BY <1>5 DEF CommandRaises, CommandTimesOut, Crash, DoneByThen
  <2>2. CASE Done(pc)
    BY <2>2
       DEF Done, StageAll, Unstage, MergeStops, MergeFindsLock, CheckoutOurs,
           AddKept, RemoveDeleted, AbortMerge, Publish, repoVars, refVars
  <2> QED
    BY <2>1, <2>2 DEF DoneByThen, MergeStops, Publish, repoVars, refVars
<1>6. CASE UserStep \/ ColleagueStep
  BY <1>6
     DEF UserStep, UserEdits, UserStartsMerge, UserConcludes, UserAborts,
         UserCommits, UserResolves, UserSwitches, UserRuns, UserTakesLock,
         UserFreesLock, UserDiesWithLock, EnvFrame, ColleagueStep,
         ColleaguePushes, ColleagueRewrites, ColleagueFrame
<1> QED
  BY <1>1, <1>2, <1>3, <1>4, <1>5, <1>6 DEF Next, Service, CycleStep, FaultStep

ConcludesAsResolved ==
    BackupStep /\ pc = "conclude" /\ tip' # tip =>
         LET ours == HeadTree
             theirs == TreeOf(merging)
             base == TreeOf(MergeBase(tip[head], merging))
         IN  \A f \in Files \ touched :
               history'[tip'[head]].tree[f] =
                 IF f \in ConflictsOf(base, ours, theirs) THEN ours[f]
                 ELSE ThreeWay(base, ours, theirs)[f]

CommitsNoMarkers ==
    BackupStep /\ history' # history =>
         LET new == history'[NextId]
         IN  \A f \in Files : new.tree[f] = Marked =>
               \/ \E p \in new.parents : TreeOf(p)[f] = Marked
               \/ pc = "conclude" /\ f \in touched

LEMMA ConcludedAsResolved ==
    ASSUME TypeOK, RInv, [Next]_vars
    PROVE  ConcludesAsResolved
<1> SUFFICES ASSUME BackupStep, pc = "conclude", tip' # tip, NEW f \in Files \ touched
             PROVE  history'[tip'[head]].tree[f] = Resolved(f)
  BY DEF ConcludesAsResolved, Resolved, MergeConflicts
<1>1. CommitIndex("backup") /\ merging # 0
  BY BackupCommits
<1>2. history'[tip'[head]].tree = index
  BY <1>1, CommitTakesIndex DEF TypeOK, Actors
<1>3. AsResolved
  BY <1>1 DEF RInv, Resolving, Resolution
<1> QED  BY <1>2, <1>3 DEF AsResolved

LEMMA CommittedNoMarkers ==
    ASSUME TypeOK, RInv, [Next]_vars
    PROVE  CommitsNoMarkers
<1> SUFFICES ASSUME BackupStep, history' # history, NEW f \in Files,
                    history'[NextId].tree[f] = Marked
             PROVE  \/ \E p \in history'[NextId].parents : TreeOf(p)[f] = Marked
                    \/ pc = "conclude" /\ f \in touched
  BY DEF CommitsNoMarkers
<1> RepoTypeOK /\ tracking \in Commits
  BY DEF TypeOK, NetTypeOK
<1>1. CASE CommitIndex("backup") /\ pc \in {"commit", "conclude"}
                /\ (pc = "conclude" => merging # 0)
  <2>1. /\ history'[NextId].tree = index
        /\ history'[NextId].parents = {tip[head]} \cup ({merging} \ {0})
    BY <1>1, CommitTakesIndex DEF Actors
  <2>2. CASE pc = "commit"
    BY <2>1, <2>2 DEF RInv, Inspected, HeadTree
  <2>3. CASE pc = "conclude" /\ merging # 0 /\ f \notin touched
    <3>1. Resolved(f) = Marked
      BY <2>1, <2>3 DEF RInv, Resolving, Resolution, AsResolved
    <3>2. HeadTree[f] = Marked \/ TreeOf(merging)[f] = Marked
      BY <3>1 DEF Resolved, ThreeWay
    <3> QED  BY <2>1, <2>3, <3>2 DEF HeadTree
  <2> QED  BY <1>1, <2>2, <2>3
<1>2. CASE pc = "merge" /\ MergeClean(tracking, "backup")
  <2>1. /\ Record({tip[head], tracking}, index', "backup")
        /\ MergeFiles(tracking) /\ MergeConflicts(tracking) = {}
    BY <1>2 DEF MergeClean
  <2>2. index = HeadTree
    BY <1>2 DEF RInv, Ready, PullSteps
  <2>3. {tip[head], tracking} \in SUBSET Commits /\ index' \in Tree
    BY <2>1, MergeFilesType DEF RepoTypeOK
  <2>4. /\ history'[NextId].tree = index'
        /\ history'[NextId].parents = {tip[head], tracking}
    BY <2>1, <2>3, RecordedAs DEF Actors
  <2>5. index'[f] = HeadTree[f] \/ index'[f] = Merged(tracking, f)
    BY <2>1, <2>2 DEF MergeFiles
  <2>6. Merged(tracking, f) \in {HeadTree[f], TreeOf(tracking)[f]}
    BY <2>1 DEF Merged, MergedFile, MergeConflicts, ThreeWay
  <2> QED  BY <2>4, <2>5, <2>6 DEF HeadTree
<1> QED  BY <1>1, <1>2, BackupCommits

LEMMA ResolutionInit ==
    ASSUME Init
    PROVE  RInv
BY DEF Init, RInv, Rooted, Ready, Inspected, Resolving, Commits, Anc, PullSteps

(* Local files win, whole file, for every user who leaves merging to the     *)
(* backup: what `git commit --no-edit' records is what `git merge' staged.   *)
THEOREM LocalFilesWin == "merge" \notin UserGit => (Spec => LocalSideWins)
<1> SUFFICES ASSUME "merge" \notin UserGit PROVE Spec => LocalSideWins
  OBVIOUS
<1>1. Init => RInv
  BY ResolutionInit
<1>2. TypeOK /\ RInv /\ [Next]_vars => RInv' /\ [ConcludesAsResolved]_vars
  BY ResolutionStep, ConcludedAsResolved
<1>3. LocalSideWins <=> [][ConcludesAsResolved]_vars
  BY DEF LocalSideWins, ConcludesAsResolved
<1> QED  BY <1>1, <1>2, <1>3, TypeCorrect, PTL DEF Spec

(* No commit of the backup adds a conflict marker, for every such user,      *)
(* except in a file he edits while its conflict is being resolved.           *)
THEOREM MarkersStayOut == "merge" \notin UserGit => (Spec => NoMarkersCommitted)
<1> SUFFICES ASSUME "merge" \notin UserGit PROVE Spec => NoMarkersCommitted
  OBVIOUS
<1>1. Init => RInv
  BY ResolutionInit
<1>2. TypeOK /\ RInv /\ [Next]_vars => RInv' /\ [CommitsNoMarkers]_vars
  BY ResolutionStep, CommittedNoMarkers
<1>3. NoMarkersCommitted <=> [][CommitsNoMarkers]_vars
  BY DEF NoMarkersCommitted, CommitsNoMarkers
<1> QED  BY <1>1, <1>2, <1>3, TypeCorrect, PTL DEF Spec

-----------------------------------------------------------------------------
(* The merges the backup starts: one command of a resolution may fail, and   *)
(* the merge is concluded or aborted all the same, unless it failed with an  *)
(* exception that is no SyncError or the user edited a file meanwhile.  That the abort works when it is needed depends on what   *)
(* the commands before it left in index and working tree, and that no second *)
(* command fails on what the first ones left there.                          *)

\* One failing command, none killed, and nobody else who merges or holds the
\* index.
OneFailure ==
    /\ KillAt = {} /\ UserGit \cap {"merge", "lock"} = {}
    /\ Budget["fault"] <= 1

Calm == lock = "free" /\ budget["fault"] <= 1

\* CanAbort, as far as it is about files.
Abortable ==
    \A f \in Files \ unmerged :
        index[f] # HeadTree[f] => work[f] \in {index[f], Absent}

\* What each command of the resolution finds, so that it does not fail of
\* itself: an abort is due to the one command that failed.
OnCourse ==
    /\ pc = "list" => unmerged # {}
    /\ pc \in {"ours", "addours"} => unmerged = kept \cup removed
    /\ pc = "ours" => \A f \in kept : index[f] # Absent
    /\ pc = "rm" => unmerged = removed
    /\ pc = "conclude" => unmerged = {}
    /\ pc = "abort" => budget["fault"] = 0

\* A merge of the backup is being resolved, or it was left behind and keeps the
\* cycles that follow at the gate.
OwnMergeFollowed ==
    merger = "backup" =>
      \/ pc \in MergeWindow /\ (touched = {} => Abortable /\ OnCourse)
      \/ pc \in AtTheGate

\* What OwnMergeEnded says of a step.
NotLeftBehind ==
    pc' \in {"idle", "down"} =>
      merger' # "backup" \/ touched' # {} \/ outcome' = "unexpected"

-----------------------------------------------------------------------------
(* Nobody but the backup takes the index, and at most one command fails.     *)

LEMMA Spending ==
    ASSUME TypeOK, NEW what \in Spendings, Spend(what)
    PROVE  /\ budget["fault"] \in Nat /\ budget'["fault"] \in Nat
           /\ budget'["fault"] <= budget["fault"]
           /\ what = "fault" => /\ budget["fault"] > 0
                                /\ budget'["fault"] = budget["fault"] - 1
           /\ what # "fault" => budget'["fault"] = budget["fault"]
<1>1. budget \in [Spendings -> Nat] /\ "fault" \in Spendings
  BY DEF TypeOK, CycleTypeOK, Spendings
<1> QED  BY <1>1 DEF Spend

LEMMA CalmStep ==
    ASSUME OneFailure, TypeOK, Calm, [Next]_vars
    PROVE  Calm'
<1> USE DEF Calm
<1>0. /\ budget["fault"] \in Nat
      /\ {"edit", "push", "rewrite", "git", "fault", "restart"} \subseteq Spendings
  BY DEF TypeOK, CycleTypeOK, Spendings
<1>1. ASSUME UNCHANGED <<lock, budget>> PROVE Calm'
  BY <1>1
<1>2. ASSUME lock' = "free", UNCHANGED budget PROVE Calm'
  BY <1>2
<1>3. ASSUME UNCHANGED lock, NEW what \in Spendings, Spend(what) PROVE Calm'
  BY <1>0, <1>3, Spending
<1>4. CASE Service \/ UNCHANGED vars
  <2>1. UNCHANGED budget /\ (UNCHANGED lock \/ lock' = "free")
    BY <1>4
       DEF Service, CycleStep, StartCycle, CheckLock, RemoveStaleLock, CheckMarker,
           CheckBranch, CheckUnmerged, CheckStatus, AddAll, CheckStaged,
           ResetIndex, CommitChanges, StopIfRequested, Fetch, CountIncoming,
           RecheckBranch, MergeRemote, ListConflicts, TakeOurs, StageOurs,
           KeepDeletions, ConcludeMerge, Abort, CountOutgoing, Push, LoopEnds,
           Restart, ReadOnly, StepFrame, vars, lockVars
  <2> QED  BY <1>1, <1>2, <2>1
<1>5. CASE UserStep
  <2>1. CASE UserTakesLock \/ UserFreesLock \/ UserDiesWithLock
    BY <1>2, <2>1
       DEF OneFailure, UserTakesLock, UserFreesLock, UserDiesWithLock
  <2>2. CASE \/ UserConcludes \/ UserAborts
             \/ \E f \in Files, v \in Versions : UserResolves(f, v)
    BY <1>1, <2>2 DEF UserConcludes, UserAborts, UserResolves, lockVars
  <2>3. CASE \E f \in Files, v \in EditTo : UserEdits(f, v)
    BY <1>0, <1>3, <2>3 DEF UserEdits, lockVars
  <2>4. CASE UserStartsMerge \/ UserCommits \/ \E to \in Heads : UserSwitches(to)
    <3>1. Spend("git") /\ UNCHANGED lock
      BY <2>4 DEF UserStartsMerge, UserCommits, UserSwitches, UserRuns, lockVars
    <3> QED  BY <1>0, <1>3, <3>1
  <2> QED  BY <1>5, <2>1, <2>2, <2>3, <2>4 DEF UserStep
<1>6. CASE ColleagueStep
  <2>1. UNCHANGED lock /\ (Spend("push") \/ Spend("rewrite"))
    BY <1>6
       DEF ColleagueStep, ColleaguePushes, ColleagueRewrites, ColleagueFrame, lockVars
  <2> QED  BY <1>0, <1>3, <2>1
<1>7. CASE CommandFails \/ CommandRaises \/ RequestStop
  <2>1. UNCHANGED lock /\ (Spend("fault") \/ Spend("restart"))
    BY <1>7 DEF CommandFails, CommandRaises, RequestStop, lockVars
  <2> QED  BY <1>0, <1>3, <2>1
<1>8. CASE LockAges \/ CommandTimesOut \/ Crash
  BY <1>1, <1>8 DEF LockAges, CommandTimesOut, Crash, OneFailure
<1> QED  BY <1>4, <1>5, <1>6, <1>7, <1>8 DEF Next, FaultStep

-----------------------------------------------------------------------------
(* The merge, step by step.                                                  *)

\* A cycle without a merge of its own starts none, and one that is left open
\* is not passed by.
LEMMA OutsideTheWindow ==
    ASSUME OwnMergeFollowed, pc \notin MergeWindow,
           merger' = merger \/ merger' = "none",
           merger = "backup" /\ pc \in AtTheGate => pc' \in AtTheGate
    PROVE  OwnMergeFollowed'
BY DEF OwnMergeFollowed

\* Whoever acts, neither the cycle nor what it finds is moved.
LEMMA FollowedOn ==
    ASSUME TypeOK, Grows, OwnMergeFollowed, UNCHANGED <<pc, merger>>,
           touched \subseteq touched',
           pc \in MergeWindow /\ merger = "backup" /\ touched' = {} =>
             UNCHANGED <<head, tip, work, index, unmerged, kept, removed,
                         budget["fault"]>>
    PROVE  OwnMergeFollowed'
<1>1. SUFFICES ASSUME merger = "backup", pc \in MergeWindow, touched' = {}
               PROVE  Abortable' /\ OnCourse'
  BY DEF OwnMergeFollowed
<1>2. Abortable /\ OnCourse
  BY <1>1 DEF OwnMergeFollowed, MergeWindow, TryBlock, AtTheGate
<1>3. UNCHANGED <<head, tip, work, index, unmerged, kept, removed,
                  budget["fault"]>>
  BY <1>1
<1>4. tip[head] \in Commits
  BY DEF TypeOK, RepoTypeOK
<1>5. HeadTree' = HeadTree
  BY <1>3, <1>4 DEF Grows, HeadTree, TreeOf
<1>6. Abortable'
  BY <1>2, <1>3, <1>5 DEF Abortable
<1>7. OnCourse'
  BY <1>2, <1>3 DEF OnCourse
<1> QED  BY <1>6, <1>7

LEMMA ServiceOutside ==
    ASSUME MergeHasHead, OwnMergeFollowed, Service,
           pc \notin MergeWindow \cup {"merge"}
    PROVE  OwnMergeFollowed'
<1> USE DEF Goto, End, Raise
<1>1. CASE \/ AddAll \/ ResetIndex \/ CommitChanges \/ Push
  <2>1. (merger' = merger \/ merger' = "none") /\ pc \notin AtTheGate
    BY <1>1
       DEF AddAll, ResetIndex, CommitChanges, Push, StageAll, Unstage, CommitIndex,
           Publish, repoVars, mergeVars, cycleVars, AtTheGate
  <2> QED  BY <2>1, OutsideTheWindow
<1>2. CASE \/ StartCycle \/ CheckLock \/ RemoveStaleLock \/ CheckMarker
           \/ LoopEnds \/ Restart
  <2>1. merger' = merger
    BY <1>2
       DEF StartCycle, CheckLock, RemoveStaleLock, CheckMarker, LoopEnds, Restart,
           ReadOnly, repoVars, mergeVars, cycleVars
  <2>2. merger = "backup" => pc' \in AtTheGate
    BY <1>2
       DEF StartCycle, CheckLock, RemoveStaleLock, CheckMarker, LoopEnds, Restart,
           MergeHasHead, AtTheGate
  <2> QED  BY <2>1, <2>2, OutsideTheWindow
<1>3. CASE \/ CheckBranch \/ CheckUnmerged \/ CheckStatus \/ CheckStaged
           \/ StopIfRequested("stop1", "fetch")
           \/ StopIfRequested("stop2", "outgoing")
           \/ Fetch \/ CountIncoming \/ RecheckBranch \/ CountOutgoing
  <2>1. merger' = merger /\ pc \notin AtTheGate
    BY <1>3
       DEF CheckBranch, CheckUnmerged, CheckStatus, CheckStaged, StopIfRequested,
           Fetch, CountIncoming, RecheckBranch, CountOutgoing, ReadOnly, repoVars,
           mergeVars, cycleVars, AtTheGate
  <2> QED  BY <2>1, OutsideTheWindow
<1>4. CASE \/ MergeRemote \/ ListConflicts \/ TakeOurs \/ StageOurs
           \/ KeepDeletions \/ ConcludeMerge \/ Abort
  BY <1>4
     DEF MergeRemote, ListConflicts, TakeOurs, StageOurs, KeepDeletions,
         ConcludeMerge, Abort, MergeWindow, TryBlock
<1> QED  BY <1>1, <1>2, <1>3, <1>4 DEF Service, CycleStep

\* `git merge' that stops: what it wrote it staged, except in the conflicts.
LEMMA MergeIsAbortable ==
    ASSUME RInv, pc = "merge", MergeStops(tracking, "backup")
    PROVE  Abortable'
<1>1. index = HeadTree /\ MergeFiles(tracking) /\ UNCHANGED refVars
  BY DEF RInv, Ready, PullSteps, MergeStops
<1>2. HeadTree' = HeadTree
  BY <1>1 DEF refVars, HeadTree, TreeOf
<1>3. ASSUME NEW f \in Files \ unmerged', index'[f] # HeadTree'[f]
      PROVE  work'[f] = index'[f]
  <2>1. f \notin MergeConflicts(tracking)
    BY <1>1, <1>3 DEF MergeFiles
  <2>2. index'[f] = IF Merged(tracking, f) = HeadTree[f]
                    THEN index[f] ELSE Merged(tracking, f)
    BY <1>1, <2>1 DEF MergeFiles
  <2>3. Merged(tracking, f) # HeadTree[f]
    BY <1>1, <1>2, <1>3, <2>2
  <2>4. work'[f] = Merged(tracking, f)
    BY <1>1, <2>3 DEF MergeFiles
  <2> QED  BY <2>2, <2>3, <2>4
<1> QED  BY <1>3 DEF Abortable

LEMMA MergeFollowed ==
    ASSUME TypeOK, RInv, Calm, OwnMergeFollowed, MergeRemote
    PROVE  OwnMergeFollowed' /\ NotLeftBehind
<1> USE DEF Goto
<1>0. merger # "backup" /\ lock = "free" /\ NotLeftBehind
  BY DEF OwnMergeFollowed, Calm, MergeRemote, MergeWindow, TryBlock, AtTheGate,
         NotLeftBehind
<1>1. CASE MergeStops(tracking, "backup") /\ MergeConflicts(tracking) # {}
             /\ pc' = "list"
  <2>1. Abortable'
    BY <1>1, MergeIsAbortable DEF MergeRemote
  <2>2. unmerged' # {}
    BY <1>1 DEF MergeStops, MergeFiles
  <2>3. OnCourse'
    BY <1>1, <2>2 DEF OnCourse
  <2> QED
    BY <1>0, <1>1, <2>1, <2>3 DEF OwnMergeFollowed, MergeWindow, TryBlock
<1>2. CASE UNCHANGED repoVars \/ MergeClean(tracking, "backup")
  BY <1>0, <1>2 DEF OwnMergeFollowed, MergeClean, repoVars, mergeVars
<1>3. CASE MergeFindsLock(tracking, "backup")
  BY <1>0, <1>3 DEF MergeFindsLock
<1> QED  BY <1>1, <1>2, <1>3 DEF MergeRemote

\* The commands of the resolution: none of them fails of itself.
LEMMA ResolutionFollowed ==
    ASSUME TypeOK, RInv, MergeHasHead, Calm, OwnMergeFollowed,
           \/ ListConflicts \/ TakeOurs \/ StageOurs \/ KeepDeletions
           \/ ConcludeMerge \/ Abort
    PROVE  OwnMergeFollowed' /\ NotLeftBehind
<1> USE DEF Goto, End, Raise
<1>0. /\ pc \in MergeWindow /\ lock = "free" /\ touched' = touched
      /\ "abort" \in MergeWindow /\ TryBlock \subseteq MergeWindow
      /\ merger' = merger \/ merger' = "none"
  BY DEF Calm, ListConflicts, TakeOurs, StageOurs, KeepDeletions, ConcludeMerge,
         Abort, CheckoutOurs, AddKept, RemoveDeleted, CommitIndex, AbortMerge,
         MergeWindow, TryBlock, cycleVars, repoVars, mergeVars
<1>1. CASE merger' # "backup"
  BY <1>1 DEF OwnMergeFollowed, NotLeftBehind
<1>2. CASE merger' = "backup" /\ touched # {}
  <2>1. pc' \in MergeWindow \/ pc' = "idle" \/ merger' = "none"
    BY <1>0
       DEF ListConflicts, TakeOurs, StageOurs, KeepDeletions, ConcludeMerge, Abort,
           CommitIndex, TryBlock
  <2> QED  BY <1>0, <1>2, <2>1 DEF OwnMergeFollowed, AtTheGate, NotLeftBehind
<1>3. CASE merger' = "backup" /\ touched = {}
  <2>0. /\ merger = "backup" /\ merging # 0 /\ Abortable /\ OnCourse
        /\ kept \cap removed = {}
        /\ index \in Tree /\ work \in Tree /\ unmerged \in SUBSET Files
    BY <1>0, <1>3
       DEF OwnMergeFollowed, MergeHasHead, AtTheGate, MergeWindow, TryBlock, RInv,
           TypeOK, RepoTypeOK
  <2>1. ASSUME Abortable', OnCourse', pc' \in MergeWindow
        PROVE  OwnMergeFollowed' /\ NotLeftBehind
    BY <2>1 DEF OwnMergeFollowed, NotLeftBehind, MergeWindow, TryBlock
  <2>2. CASE ListConflicts
    <3>1. /\ pc = "list" /\ UNCHANGED <<head, tip, history, work, index, unmerged>>
          /\ kept' = {f \in unmerged : index[f] # Absent}
          /\ removed' = {f \in unmerged : index[f] = Absent}
      BY <2>2 DEF ListConflicts, repoVars, refVars, fileVars
    <3>2. unmerged = kept' \cup removed' /\ unmerged # {}
      BY <2>0, <3>1 DEF OnCourse
    <3>3. pc' = "ours" \/ (pc' = "rm" /\ kept' = {})
      BY <2>2, <3>2 DEF ListConflicts
    <3>4. OnCourse'
      BY <3>1, <3>2, <3>3 DEF OnCourse
    <3>5. Abortable'
      BY <2>0, <3>1 DEF Abortable, HeadTree, TreeOf
    <3> QED  BY <1>0, <2>1, <3>3, <3>4, <3>5 DEF TryBlock
  <2>3. CASE TakeOurs
    <3>1. pc = "ours" /\ CheckoutOurs(kept) /\ pc' = "addours"
      BY <1>0, <2>0, <2>3 DEF TakeOurs, OnCourse
    <3>2. /\ UNCHANGED <<head, tip, history, index, unmerged, kept, removed>>
          /\ work' = [f \in Files |-> IF f \in kept THEN index[f] ELSE work[f]]
      BY <2>3, <3>1 DEF TakeOurs, CheckoutOurs, refVars, cycleVars
    <3>3. OnCourse'
      BY <2>0, <3>1, <3>2 DEF OnCourse
    <3>4. Abortable'
      BY <2>0, <3>2 DEF Abortable, HeadTree, TreeOf
    <3> QED  BY <1>0, <2>1, <3>1, <3>3, <3>4 DEF TryBlock
  <2>4. CASE StageOurs
    <3>1. /\ pc = "addours" /\ AddKept(kept)
          /\ pc' = IF removed = {} THEN "conclude" ELSE "rm"
      BY <1>0, <2>4 DEF StageOurs
    <3>2. /\ UNCHANGED <<head, tip, history, work, kept, removed>>
          /\ index' = [f \in Files |-> IF f \in kept THEN work[f] ELSE index[f]]
          /\ unmerged' = unmerged \ kept
      BY <2>4, <3>1 DEF StageOurs, AddKept, refVars, cycleVars
    <3>3. unmerged' = removed
      BY <2>0, <3>1, <3>2 DEF OnCourse
    <3>4. OnCourse'
      BY <3>1, <3>2, <3>3 DEF OnCourse
    <3>5. Abortable'
      BY <2>0, <3>2 DEF Abortable, HeadTree, TreeOf
    <3> QED  BY <1>0, <2>1, <3>1, <3>4, <3>5 DEF TryBlock
  <2>5. CASE KeepDeletions
    <3>1. pc = "rm" /\ RemoveDeleted(removed) /\ pc' = "conclude"
      BY <1>0, <2>0, <2>5 DEF KeepDeletions, OnCourse
    <3>2. /\ UNCHANGED <<head, tip, history, kept, removed>>
          /\ work' = [f \in Files |-> IF f \in removed THEN Absent ELSE work[f]]
          /\ index' = [f \in Files |-> IF f \in removed THEN Absent ELSE index[f]]
          /\ unmerged' = unmerged \ removed
      BY <2>5, <3>1 DEF KeepDeletions, RemoveDeleted, refVars, cycleVars
    <3>3. unmerged' = {}
      BY <2>0, <3>1, <3>2 DEF OnCourse
    <3>4. OnCourse'
      BY <3>1, <3>3 DEF OnCourse
    <3>5. Abortable'
      BY <2>0, <3>2 DEF Abortable, HeadTree, TreeOf
    <3> QED  BY <1>0, <2>1, <3>1, <3>4, <3>5 DEF TryBlock
  <2>6. CASE ConcludeMerge
    <3>1. unmerged = {} /\ CanCommit
      BY <1>0, <2>0, <2>6 DEF ConcludeMerge, OnCourse, CanCommit
    <3>2. CommitIndex("backup")
      BY <2>0, <2>6, <3>1 DEF ConcludeMerge
    <3> QED  BY <1>3, <3>2 DEF CommitIndex
  <2>7. CASE Abort
    <3>1. CanAbort
      BY <1>0, <2>0 DEF CanAbort, Abortable
    <3>2. AbortMerge
      BY <2>7, <3>1 DEF Abort
    <3> QED  BY <1>3, <3>2 DEF AbortMerge
  <2> QED  BY <2>2, <2>3, <2>4, <2>5, <2>6, <2>7
<1> QED  BY <1>0, <1>1, <1>2, <1>3

\* The one command that fails: the abort that follows cannot be it.
LEMMA FailureFollowed ==
    ASSUME TypeOK, Grows, Calm, OwnMergeFollowed, CommandFails
    PROVE  OwnMergeFollowed' /\ (pc \in MergeWindow \cup {"merge"} => NotLeftBehind)
<1> USE DEF Goto, End, Raise
<1>1. /\ UNCHANGED <<head, tip, history, work, index, unmerged, merging, merger,
                     kept, removed, touched>>
      /\ "fault" \in Spendings /\ Spend("fault") /\ HeadTree' = HeadTree
  BY DEF CommandFails, repoVars, refVars, fileVars, mergeVars, cycleVars,
         Spendings, HeadTree, TreeOf
<1>2. budget["fault"] = 1 /\ budget'["fault"] = 0
  BY <1>1, Spending DEF Calm
<1>3. CASE pc \notin MergeWindow
  <2>1. /\ pc \in AtTheGate => pc' = "idle"
        /\ pc = "merge" => pc' = "list"
    BY <1>3
       DEF CommandFails, AtTheGate, GitSteps, Steps, GateSteps, MergeWindow, TryBlock
  <2> QED  BY <1>1, <1>3, <2>1, OutsideTheWindow DEF AtTheGate, NotLeftBehind
<1>4. CASE pc \in TryBlock
  <2>1. pc' = "abort"
    BY <1>4 DEF CommandFails, TryBlock
  <2>2. merger = "backup" /\ touched = {} => Abortable
    BY <1>4 DEF OwnMergeFollowed, TryBlock, AtTheGate
  <2>3. merger = "backup" /\ touched = {} => Abortable'
    BY <1>1, <2>2 DEF Abortable
  <2>4. OnCourse'
    BY <1>2, <2>1 DEF OnCourse
  <2> QED
    BY <1>1, <2>1, <2>3, <2>4 DEF OwnMergeFollowed, MergeWindow, NotLeftBehind
<1>5. CASE pc = "abort"
  <2>1. merger = "backup" => touched # {}
    BY <1>2, <1>5 DEF OwnMergeFollowed, OnCourse, AtTheGate
  <2>2. pc' = "idle"
    BY <1>5 DEF CommandFails, TryBlock
  <2> QED  BY <1>1, <2>1, <2>2 DEF OwnMergeFollowed, AtTheGate, NotLeftBehind
<1> QED  BY <1>3, <1>4, <1>5 DEF MergeWindow

LEMMA OthersFollowed ==
    ASSUME OneFailure, TypeOK, RInv, MergeHasHead, Calm, Grows, OwnMergeFollowed,
           UserStep \/ ColleagueStep \/ RequestStop \/ LockAges \/ UNCHANGED vars
    PROVE  OwnMergeFollowed'
<1> USE DEF EnvFrame, Untouched
<1>0. {"edit", "push", "rewrite", "git", "restart"} \subseteq Spendings \ {"fault"}
  BY DEF Spendings
<1>1. CASE \E f \in Files, v \in EditTo : UserEdits(f, v)
  <2>1. /\ UNCHANGED <<pc, merger>> /\ touched \subseteq touched'
        /\ pc \in MergeWindow => touched' # {}
    BY <1>1 DEF UserEdits, mergeVars
  <2> QED  BY <2>1, FollowedOn
<1>2. CASE UserCommits \/ \E to \in Heads : UserSwitches(to)
  <2>1. UNCHANGED <<merger, touched, pc>> /\ merging = 0
    BY <1>2 DEF UserCommits, UserSwitches, UserRuns, mergeVars
  <2>2. merger # "backup"
    BY <2>1 DEF MergeHasHead
  <2> QED  BY <2>1, <2>2, FollowedOn
<1>3. CASE \/ UserStartsMerge \/ UserConcludes \/ UserAborts \/ UserTakesLock
           \/ \E f \in Files, v \in Versions : UserResolves(f, v)
           \/ UserFreesLock \/ UserDiesWithLock
  BY <1>3
     DEF OneFailure, RInv, Calm, UserStartsMerge, UserRuns, UserConcludes,
         UserAborts, UserTakesLock, UserResolves, UserFreesLock, UserDiesWithLock
<1>4. CASE ColleagueStep \/ RequestStop \/ LockAges \/ UNCHANGED vars
  <2>1. UNCHANGED <<pc, merger, touched, head, tip, work, index, unmerged, kept,
                    removed>>
    BY <1>4
       DEF ColleagueStep, ColleaguePushes, ColleagueRewrites, ColleagueFrame,
           RequestStop, LockAges, vars, repoVars, refVars, fileVars, mergeVars,
           cycleVars
  <2>2. \/ UNCHANGED budget
        \/ \E what \in Spendings \ {"fault"} : Spend(what)
    BY <1>0, <1>4
       DEF ColleagueStep, ColleaguePushes, ColleagueRewrites, RequestStop,
           LockAges, vars
  <2>3. UNCHANGED budget["fault"]
    BY <2>2, Spending
  <2> QED  BY <2>1, <2>3, FollowedOn
<1> QED  BY <1>1, <1>2, <1>3, <1>4 DEF UserStep

-----------------------------------------------------------------------------
LEMMA OwnMergeStep ==
    ASSUME OneFailure, TypeOK, RInv, MergeHasHead, Calm, OwnMergeFollowed,
           [Next]_vars
    PROVE  OwnMergeFollowed' /\ (pc \in {"merge"} \cup MergeWindow => NotLeftBehind)
<1>1. Grows
  BY RootedStep DEF RInv
<1>2. CASE Service /\ pc \notin MergeWindow \cup {"merge"}
  BY <1>2, ServiceOutside
<1>3. CASE Service /\ pc \in MergeWindow \cup {"merge"}
  <2>1. \/ MergeRemote \/ ListConflicts \/ TakeOurs \/ StageOurs
        \/ KeepDeletions \/ ConcludeMerge \/ Abort
    BY <1>3
       DEF Service, CycleStep, MergeWindow, TryBlock, StartCycle, CheckLock,
           RemoveStaleLock, CheckMarker, CheckBranch, CheckUnmerged, CheckStatus,
           AddAll, CheckStaged, ResetIndex, CommitChanges, StopIfRequested,
           Fetch, CountIncoming, RecheckBranch, CountOutgoing, Push, LoopEnds,
           Restart
  <2> QED  BY <2>1, MergeFollowed, ResolutionFollowed
<1>4. CASE CommandFails
  BY <1>1, <1>4, FailureFollowed
<1>5. CASE CommandRaises
  BY <1>5 DEF CommandRaises, End, OwnMergeFollowed, AtTheGate, NotLeftBehind
<1>6. CASE CommandTimesOut \/ Crash
  BY <1>6 DEF CommandTimesOut, Crash, OneFailure
<1>7. CASE UserStep \/ ColleagueStep \/ RequestStop \/ LockAges \/ UNCHANGED vars
  <2>1. UNCHANGED pc
    BY <1>7
       DEF UserStep, UserEdits, UserStartsMerge, UserConcludes, UserAborts,
           UserCommits, UserResolves, UserSwitches, UserRuns, UserTakesLock,
           UserFreesLock, UserDiesWithLock, EnvFrame, ColleagueStep, ColleaguePushes,
           ColleagueRewrites, ColleagueFrame, RequestStop, LockAges, vars
  <2> QED
    BY <1>1, <1>7, <2>1, OthersFollowed DEF NotLeftBehind, MergeWindow, TryBlock
<1> QED  BY <1>2, <1>3, <1>4, <1>5, <1>6, <1>7 DEF Next, FaultStep

(* The backup leaves no merge of its own behind, whichever one command fails *)
(* at whichever step, with an error or with an exception, for any files,     *)
(* trees, edits and foreign pushes, as long as nobody else merges or holds   *)
(* the index: a cycle ends with its merge concluded or aborted, unless it    *)
(* ends with an exception that is no SyncError or the user edited a file     *)
(* after `git merge'.                                                        *)
THEOREM OwnMergesEnd == OneFailure => (Spec => OwnMergeEnded)
<1> SUFFICES ASSUME OneFailure PROVE Spec => OwnMergeEnded
  OBVIOUS
<1>1. Init => RInv /\ MergeHasHead /\ Calm /\ OwnMergeFollowed
  BY ResolutionInit
     DEF Init, MergeHasHead, Calm, OwnMergeFollowed, OneFailure
<1>2. "merge" \notin UserGit
  BY DEF OneFailure
<1>3. TypeOK /\ RInv /\ MergeHasHead /\ Calm /\ OwnMergeFollowed /\ [Next]_vars
        => /\ RInv' /\ MergeHasHead' /\ Calm' /\ OwnMergeFollowed'
           /\ [(pc \in {"merge"} \cup MergeWindow /\ pc' \in {"idle", "down"}) =>
                 \/ merger' # "backup" \/ touched' # {}
                 \/ outcome' = "unexpected"]_vars
  BY <1>2, ResolutionStep, MergeHasHeadStep, CalmStep, OwnMergeStep
     DEF NotLeftBehind
<1> QED  BY <1>1, <1>3, TypeCorrect, PTL DEF Spec, OwnMergeEnded
====
