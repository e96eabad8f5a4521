---------------------------- MODULE SharerProofs ----------------------------
(* One workspace of several that push to the same branch of a remote: what   *)
(* its backup keeps when it acts, and what it still has when another one     *)
(* has acted.  Nothing else is assumed of the others than what they, being   *)
(* backups themselves, are shown to do here.  SharedRemoteProofs puts two    *)
(* of them together.                                                         *)
EXTENDS ResolutionProofs

\* What the user saves is new to the history (SharedRemote!NewIn).
New(f, v) == v \in EditTo /\ \A c \in Commits : TreeOf(c)[f] # v

\* The steps of this workspace: SharedRemote's HereStep and ThereStep.
OwnStep ==
    \/ Service \/ FaultStep
    \/ \E f \in Files, v \in EditTo : New(f, v) /\ UserEdits(f, v)

Branch == tip["branch"]

-----------------------------------------------------------------------------
(* The invariant of the histories.                                           *)

\* The user of a shared branch stays on it and leaves merging to the backup.
OnBranch == head = "branch" /\ merger # "user"

\* His other branch is not published.
Aside ==
    /\ 2 \in Commits /\ 2 \notin Anc(Branch) \cup Anc(remote)
    /\ \A h \in {"side", "detached"} : Anc(tip[h]) \subseteq {1, 2}

\* The remote's branch only grows: all that was fetched, or is being merged,
\* is still in it.
Behind ==
    /\ Anc(tracking) \subseteq Anc(remote)
    /\ merging # 0 => Anc(merging) \subseteq Anc(tracking)

BInv == IInv /\ Rooted /\ OnBranch /\ Aside /\ Behind

LEMMA OwnIsStep ==
    ASSUME OwnStep
    PROVE  Next
BY DEF OwnStep, Next, UserStep

-----------------------------------------------------------------------------
(* The steps of the workspace: of the four kinds they are without somebody   *)
(* else's push, and of the ways to move refs without those of the user.      *)

OwnRefs ==
    /\ head' = head /\ merger' # "user" /\ merging' \in {0, merging, tracking}
    /\ \A h \in {"side", "detached"} : tip'[h] = tip[h]

LEMMA OwnKinds ==
    ASSUME TypeOK, OnBranch, OwnStep
    PROVE  OwnRefs /\ (LocalStep \/ Learns \/ Publishes)
<1> USE DEF OnBranch, OwnRefs
<1>0. tip \in [Heads -> Commits] /\ {"branch", "side", "detached"} \subseteq Heads
  BY DEF TypeOK, RepoTypeOK, Heads
<1>1. ASSUME UNCHANGED repoVars PROVE OwnRefs
  BY <1>1 DEF repoVars, refVars, mergeVars
<1>2. ASSUME UNCHANGED refVars, merger' \in {merger, "none", "backup"},
             merging' \in {0, merging, tracking}
      PROVE  OwnRefs
  BY <1>2 DEF refVars
<1>3. ASSUME head' = head, NEW c, tip' = [tip EXCEPT ![head] = c],
             merger' \in {merger, "none"}, merging' \in {0, merging}
      PROVE  OwnRefs
  BY <1>0, <1>3
<1>4. OwnRefs
  <2>1. CASE \/ StartCycle \/ CheckLock \/ RemoveStaleLock \/ CheckMarker
             \/ CheckBranch \/ CheckUnmerged \/ CheckStatus \/ CheckStaged
             \/ StopIfRequested("stop1", "fetch")
             \/ StopIfRequested("stop2", "outgoing")
             \/ Fetch \/ CountIncoming \/ RecheckBranch \/ ListConflicts
             \/ CountOutgoing \/ Push \/ LoopEnds \/ Restart
             \/ CommandFails \/ RequestStop \/ LockAges
    <3>1. UNCHANGED repoVars
      BY <2>1
         DEF StartCycle, CheckLock, RemoveStaleLock, CheckMarker, CheckBranch,
             CheckUnmerged, CheckStatus, CheckStaged, StopIfRequested, Fetch,
             CountIncoming, RecheckBranch, ListConflicts, CountOutgoing, Push,
             Publish, LoopEnds, Restart, CommandFails, RequestStop, LockAges,
             ReadOnly
    <3> QED  BY <1>1, <3>1
  <2>2. CASE AddAll \/ ResetIndex \/ TakeOurs \/ StageOurs \/ KeepDeletions \/ Abort
    BY <1>1, <1>2, <2>2
       DEF AddAll, ResetIndex, TakeOurs, StageOurs, KeepDeletions, Abort,
           StageAll, Unstage, CheckoutOurs, AddKept, RemoveDeleted, AbortMerge,
           mergeVars
  <2>3. CASE CommitChanges \/ ConcludeMerge
    BY <1>1, <1>3, <2>3 DEF CommitChanges, ConcludeMerge, CommitIndex
  <2>4. ASSUME \/ MergeClean(tracking, "backup") \/ MergeStops(tracking, "backup")
               \/ MergeFindsLock(tracking, "backup")
        PROVE  OwnRefs
    BY <1>2, <1>3, <2>4 DEF MergeClean, MergeStops, MergeFindsLock, mergeVars
  <2>5. CASE MergeRemote
    BY <1>1, <2>4, <2>5 DEF MergeRemote
  <2>6. CASE CommandRaises \/ CommandTimesOut \/ Crash
    <3>1. DoneByThen(pc)
      BY <2>6 DEF CommandRaises, CommandTimesOut, Crash, DoneByThen
    <3>2. CASE StageAll \/ Unstage \/ CheckoutOurs(kept) \/ AddKept(kept)
               \/ RemoveDeleted(removed) \/ AbortMerge
      BY <1>2, <3>2
         DEF StageAll, Unstage, CheckoutOurs, AddKept, RemoveDeleted,
             AbortMerge, mergeVars
    <3>3. CASE CommitIndex("backup")
      BY <1>3, <3>3 DEF CommitIndex
    <3>4. CASE UNCHANGED <<refVars, mergeVars>>
      BY <1>2, <3>4 DEF mergeVars
    <3> QED
      BY <1>1, <2>4, <3>1, <3>2, <3>3, <3>4 DEF DoneByThen, Done, Publish
  <2>7. CASE \E f \in Files, v \in EditTo : New(f, v) /\ UserEdits(f, v)
    BY <1>2, <2>7 DEF UserEdits, mergeVars
  <2> QED
    BY <2>1, <2>2, <2>3, <2>5, <2>6, <2>7
       DEF OwnStep, Service, CycleStep, FaultStep
<1>5. LocalStep \/ Learns \/ Publishes
  <2>1. CASE StartCycle \/ LoopEnds \/ Restart \/ CommandFails \/ RequestStop \/ LockAges
    BY <2>1, LocalUnmoved
       DEF TypeOK, StartCycle, LoopEnds, Restart, ReadOnly, CommandFails,
           RequestStop, LockAges
  <2>2. CASE CommandRaises \/ CommandTimesOut \/ Crash
    BY <2>2, KilledStepKinds DEF CommandRaises, CommandTimesOut, Crash, DoneByThen
  <2>3. CASE \E f \in Files, v \in EditTo : New(f, v) /\ UserEdits(f, v)
    BY <2>3, UserStepKinds DEF UserStep
  <2> QED  BY <2>1, <2>2, <2>3, CycleStepKinds DEF OwnStep, Service, FaultStep
<1> QED  BY <1>4, <1>5

-----------------------------------------------------------------------------
(* The histories, when the workspace acts.                                   *)

\* What the branch gains is new, or was in the remote.
OwnGains == Anc(Branch)' \cap Commits \subseteq Anc(Branch) \cup Anc(remote)

\* The remote is left alone or gets the branch, with all it had.
OwnPush ==
    \/ remote' = remote
    \/ /\ remote' = Branch /\ UNCHANGED <<history, tip>>
       /\ remote \in Anc(Branch) /\ Anc(remote) \subseteq Anc(Branch)

LEMMA BInvTypes ==
    ASSUME BInv
    PROVE  /\ TypeOK /\ RepoTypeOK /\ HistoryClosed /\ NothingUnfetched
           /\ Branch \in Commits /\ tracking \in Commits /\ remote \in Commits
           /\ merging \in Commits \cup {0} /\ 0 \notin Commits
           /\ tip \in [Heads -> Commits] /\ Heads = {"branch", "side", "detached"}
           /\ \A c \in Commits : Anc(c) \in SUBSET Commits /\ c \in Anc(c)
<1>1. TypeOK /\ RepoTypeOK /\ HistoryClosed /\ NothingUnfetched
  BY DEF BInv, IInv, TypeOK
<1>2. \A c \in Commits : Anc(c) \in SUBSET Commits /\ c \in Anc(c)
  BY <1>1, CommitTypes DEF HistoryClosed
<1>3. 0 \notin Commits
  BY <1>1, CommitTypes
<1> QED
  BY <1>1, <1>2, <1>3 DEF TypeOK, RepoTypeOK, NetTypeOK, Heads, Branch

\* Commits keep their ancestors and trees.
LEMMA GrowsKeeps ==
    ASSUME Grows, NEW c \in Commits
    PROVE  c \in Commits' /\ Anc(c)' = Anc(c) /\ TreeOf(c)' = TreeOf(c)
BY DEF Grows, Anc, TreeOf

LEMMA LocalGains ==
    ASSUME BInv, OwnRefs, LocalStep, Grows
    PROVE  OwnGains
<1> /\ RepoTypeOK /\ Branch \in Commits /\ tracking \in Commits /\ remote \in Commits
    /\ merging \in Commits \cup {0} /\ 0 \notin Commits
    /\ tip \in [Heads -> Commits] /\ Heads = {"branch", "side", "detached"}
    /\ \A c \in Commits : Anc(c) \in SUBSET Commits /\ c \in Anc(c)
  BY BInvTypes
<1>0. head = "branch"
  BY DEF BInv, OnBranch
<1>1. ASSUME tip'["branch"] \in {tip["branch"], tracking} PROVE OwnGains
  <2>1. Anc(Branch)' = Anc(Branch) \/ Anc(Branch)' = Anc(tracking)
    BY <1>1, GrowsKeeps DEF Branch, Anc
  <2> QED  BY <2>1 DEF OwnGains, BInv, Behind
<1>2. CASE KeepsRefs \/ FastForwards \/ Detaches
  BY <1>0, <1>1, <1>2 DEF KeepsRefs, FastForwards, Detaches
<1>3. CASE AddsCommit
  <2>1. PICK parents \in SUBSET ({tip[head], merging, tracking} \ {0}),
             tree \in Tree, by \in Actors :
                tip[head] \in parents /\ Record(parents, tree, by)
    BY <1>3 DEF AddsCommit
  <2>2. parents \in SUBSET Commits
    BY <1>0, <2>1 DEF Branch
  <2>3. /\ NextId \notin Commits
        /\ history'[NextId].anc = {NextId} \cup UNION {Anc(p) : p \in parents}
    BY <2>1, <2>2, RecordGrows
  <2>4. Branch' = NextId
    BY <1>0, <1>3 DEF AddsCommit, Branch
  <2>5. \A p \in parents : Anc(p) \subseteq Anc(Branch) \cup Anc(remote)
    BY <1>0, <2>1 DEF BInv, Behind, Branch
  <2> QED  BY <2>3, <2>4, <2>5 DEF OwnGains, Anc
<1> QED  BY <1>2, <1>3 DEF LocalStep, RefStep

LEMMA OwnBranch ==
    ASSUME BInv, OwnStep
    PROVE  BInv' /\ Grows /\ OwnGains /\ OwnPush
<1> /\ TypeOK /\ RepoTypeOK /\ HistoryClosed /\ NothingUnfetched
    /\ Branch \in Commits /\ tracking \in Commits /\ remote \in Commits
    /\ merging \in Commits \cup {0} /\ 0 \notin Commits
    /\ tip \in [Heads -> Commits] /\ Heads = {"branch", "side", "detached"}
    /\ \A c \in Commits : Anc(c) \in SUBSET Commits /\ c \in Anc(c)
  BY BInvTypes
<1> OnBranch /\ Rooted /\ IInv /\ Aside /\ Behind
  BY DEF BInv
<1>1. Next
  BY OwnIsStep
<1>2. IInv'
  BY <1>1, StepHolds
<1>3. Rooted' /\ Grows
  BY <1>1, RootedStep
<1>4. OwnRefs /\ (LocalStep \/ Learns \/ Publishes)
  BY OwnKinds
<1>5. OnBranch'
  BY <1>4 DEF OwnRefs, OnBranch
<1>6. OwnGains /\ OwnPush
  <2>1. CASE LocalStep
    BY <1>3, <1>4, <2>1, LocalGains DEF OwnPush, LocalStep, netVars
  <2>2. CASE Learns \/ Publishes
    <3>1. UNCHANGED <<history, tip>>
      BY <2>2 DEF Learns, Publishes, repoVars, refVars
    <3>2. OwnGains
      BY <3>1 DEF OwnGains, Anc, Branch
    <3>3. PushAccepted => remote \in Anc(Branch) /\ Anc(remote) \subseteq Anc(Branch)
      BY DEF PushAccepted, HistoryClosed, Branch
    <3> QED  BY <2>2, <3>1, <3>2, <3>3 DEF OwnPush, Learns, Publishes, Branch
  <2> QED  BY <1>4, <2>1, <2>2
<1>7. \/ Anc(remote)' = Anc(remote)
      \/ Anc(remote)' = Anc(Branch) /\ Anc(remote) \subseteq Anc(Branch)
  BY <1>3, <1>6, GrowsKeeps DEF OwnPush, Anc
<1>8. Aside'
  <2>1. 2 \in Commits'
    BY <1>3 DEF Aside, Grows
  <2>2. 2 \notin Anc(Branch)'
    BY <1>6 DEF Aside, OwnGains
  <2>3. ASSUME NEW h \in {"side", "detached"} PROVE Anc(tip[h])' \subseteq {1, 2}
    <3>1. tip'[h] = tip[h] /\ tip[h] \in Commits
      BY <1>4 DEF OwnRefs
    <3> QED  BY <1>3, <3>1 DEF Aside, Grows, Anc
  <2> QED  BY <1>7, <2>1, <2>2, <2>3 DEF Aside
<1>9. Behind'
  <2>1. CASE LocalStep
    <3>1. tracking' = tracking /\ remote' = remote /\ merging' \in {0, merging, tracking}
      BY <1>4, <2>1 DEF LocalStep, netVars, OwnRefs
    <3> QED  BY <1>3, <3>1 DEF Behind, Grows, Anc
  <2>2. CASE Learns \/ Publishes
    <3>1. merging' = merging /\ tracking' \in {tracking, remote, Branch}
      BY <2>2 DEF Learns, Publishes, repoVars, mergeVars, Branch
    <3>2. Anc(tracking) \subseteq Anc(tracking)' /\ Anc(tracking)' \subseteq Anc(remote)'
      BY <1>3, <1>7, <2>2 DEF Learns, Publishes, Behind, Grows, Anc, Branch
    <3> QED  BY <1>3, <3>1, <3>2 DEF Behind, Grows, Anc
  <2> QED  BY <1>4, <2>1, <2>2
<1> QED  BY <1>2, <1>3, <1>5, <1>6, <1>8, <1>9 DEF BInv
-----------------------------------------------------------------------------
(* Another workspace acts: to this one, a step that changes the history and  *)
(* the remote's branch alone.                                                *)

OwnVars == <<head, tip, fileVars, mergeVars, tracking, lockVars, cycleVars, pc,
             outcome, stopping, budget, openBefore>>

\* The step grows the history, and in the remote's branch nothing appears that
\* is in the other branch, b.
SharedMove(b) ==
    /\ history' \in Seq(CommitRecord(Len(history'))) /\ Grows
    /\ HistoryClosed' /\ Rooted'
    /\ remote' \in Commits' /\ Anc(remote) \subseteq Anc(remote)'
    /\ 2 \notin Anc(remote)'
    /\ Anc(remote)' \cap Anc(b) \subseteq Anc(remote)

OthersMove == UNCHANGED OwnVars /\ SharedMove(Branch)

\* What is in the workspace and in the remote was fetched or published: on the
\* other branch nothing is but the clone's first commit, and that is in all.
LEMMA UnfetchedFollows ==
    ASSUME TypeOK', HistoryClosed', Rooted', Aside', Behind'
    PROVE  NothingUnfetched'
<1>1. /\ tip' \in [Heads -> Commits'] /\ Heads = {"branch", "side", "detached"}
      /\ tracking' \in Commits'
  BY DEF TypeOK, RepoTypeOK, NetTypeOK, Heads
<1>2. 1 \in Anc(tracking)'
  BY <1>1 DEF Rooted, Anc
<1>3. ASSUME NEW h \in {"side", "detached"}
      PROVE  Anc(tip[h])' \cap Anc(remote)' \subseteq Anc(tracking)'
  BY <1>2, <1>3 DEF Aside
<1> QED  BY <1>1, <1>3 DEF NothingUnfetched, Behind, Anc, Branch

LEMMA OthersBranch ==
    ASSUME BInv, OthersMove
    PROVE  BInv'
<1> /\ TypeOK /\ RepoTypeOK /\ HistoryClosed /\ NothingUnfetched
    /\ Branch \in Commits /\ tracking \in Commits /\ remote \in Commits
    /\ merging \in Commits \cup {0} /\ 0 \notin Commits
    /\ tip \in [Heads -> Commits] /\ Heads = {"branch", "side", "detached"}
    /\ \A c \in Commits : Anc(c) \in SUBSET Commits /\ c \in Anc(c)
  BY BInvTypes
<1> OnBranch /\ Rooted /\ IInv /\ Aside /\ Behind
  BY DEF BInv
<1> UNCHANGED <<head, tip, fileVars, mergeVars, tracking, lockVars, cycleVars, pc,
                outcome, stopping, budget, openBefore>>
  BY DEF OthersMove, SharedMove, OwnVars
<1> Grows /\ Commits \subseteq Commits'
  BY DEF OthersMove, SharedMove, Grows
<1>1. TypeOK'
  BY DEF OthersMove, SharedMove, TypeOK, RepoTypeOK, NetTypeOK, CycleTypeOK,
         fileVars, mergeVars, lockVars, cycleVars
<1>2. OnBranch'
  BY DEF OnBranch, mergeVars
<1>3. \A c \in Commits : Anc(c)' = Anc(c)
  BY DEF Grows, Anc
<1>4. Aside'
  BY <1>3 DEF Aside, OthersMove, SharedMove, Branch
<1>5. Behind'
  BY <1>3 DEF Behind, OthersMove, SharedMove, mergeVars
<1>6. Rooted' /\ HistoryClosed'
  BY DEF OthersMove, SharedMove
<1>7. NothingUnfetched'
  BY <1>1, <1>4, <1>5, <1>6, UnfetchedFollows
<1> QED  BY <1>1, <1>2, <1>4, <1>5, <1>6, <1>7 DEF BInv, IInv

\* The abstract replicas see a step of the others as one, or as none.
LEMMA OthersReplicate ==
    ASSUME BInv, OthersMove
    PROVE  [Replicas!Next]_(Replicas!vars)
<1> Branch \in Commits /\ tracking \in Commits
  BY BInvTypes
<1>1. Anc(Branch)' = Anc(Branch) /\ Anc(tracking)' = Anc(tracking)
  BY GrowsKeeps DEF OthersMove, SharedMove, OwnVars, Anc, Branch
<1>2. Anc(remote)' \cap Anc(Branch) \subseteq Anc(remote)
  BY DEF OthersMove, SharedMove
<1>3. CASE Anc(remote)' = Anc(remote)
  BY <1>1, <1>3 DEF Replicas!vars, Branch
<1>4. CASE Anc(remote)' # Anc(remote)
  BY <1>1, <1>2, <1>4 DEF Replicas!Next, Replicas!OthersChange, Branch
<1> QED  BY <1>3, <1>4

-----------------------------------------------------------------------------
(* What the others see of this one.                                          *)

LEMMA SharerInit ==
    ASSUME Init
    PROVE  BInv /\ Anc(Branch) \subseteq Anc(remote)
<1>1. IInv /\ Rooted
  BY InitHolds, ResolutionInit DEF RInv
<1>2. /\ Commits = {1, 2} /\ Anc(1) = {1} /\ Anc(2) = {1, 2}
      /\ tip["branch"] = 1 /\ tip["detached"] = 1 /\ tip["side"] = 2
      /\ remote = 1 /\ tracking = 1 /\ merging = 0
      /\ head = "branch" /\ merger = "none"
  BY DEF Init, Commits, Anc, Heads
<1> QED  BY <1>1, <1>2 DEF BInv, OnBranch, Aside, Behind, Branch

LEMMA SharerStays ==
    ASSUME BInv, UNCHANGED vars
    PROVE  BInv' /\ [Next]_vars
<1>1. IInv' /\ Rooted'
  BY StepHolds, RootedStep DEF BInv, IInv
<1>2. UNCHANGED <<history, head, tip, merging, merger, tracking, remote>>
  BY DEF vars, repoVars, refVars, mergeVars, netVars
<1> QED  BY <1>1, <1>2 DEF BInv, OnBranch, Aside, Behind, Anc, Commits, Branch

\* To another branch, with which this one shares only what is published, this
\* workspace is one of the others.
LEMMA OwnIsShared ==
    ASSUME BInv, OwnStep, NEW b \in Commits, Anc(Branch) \cap Anc(b) \subseteq Anc(remote)
    PROVE  SharedMove(b) /\ Anc(Branch)' \cap Anc(b) \subseteq Anc(remote)'
<1>1. BInv' /\ Grows /\ OwnGains /\ OwnPush
  BY OwnBranch
<1>2. Branch \in Commits /\ remote \in Commits /\ Anc(b) \subseteq Commits
  BY BInvTypes
<1>3. /\ history' \in Seq(CommitRecord(Len(history'))) /\ HistoryClosed' /\ Rooted'
      /\ remote' \in Commits' /\ 2 \notin Anc(remote)'
  BY <1>1 DEF BInv, IInv, TypeOK, RepoTypeOK, NetTypeOK, Aside
<1>4. \/ Anc(remote)' = Anc(remote)
      \/ Anc(remote)' = Anc(Branch) /\ Anc(remote) \subseteq Anc(Branch)
  BY <1>1, <1>2, GrowsKeeps DEF OwnPush, Anc
<1> QED  BY <1>1, <1>2, <1>3, <1>4 DEF SharedMove, OwnGains

-----------------------------------------------------------------------------
(* What happens to the files.  The step of a workspace does one of the       *)
(* following, and the cycle goes on where it says.                           *)

Waiting == {"incoming", "recheck", "merge"}
Frame == UNCHANGED <<netVars, kept, removed>>

Looks ==
    /\ UNCHANGED <<repoVars, remote>> /\ tracking' \in {tracking, remote}
    /\ pc' \in Waiting => \/ tracking' = remote
                          \/ pc \in Waiting /\ tracking' = tracking
    /\ pc' \in TryBlock => \/ pc' = pc /\ UNCHANGED <<kept, removed>>
                           \/ pc = "merge" /\ pc' = "list"
                           \/ pc = "list" /\ pc' \in {"ours", "rm"} /\ unmerged # {}
    /\ pc' = "abort" => pc \in MergeWindow
    /\ merging # 0 /\ pc \in MergeWindow \cup AtTheGate
         => pc' \in MergeWindow \cup AtTheGate
Edits ==
    \E f \in Files, v \in EditTo :
        /\ New(f, v) /\ work' = [work EXCEPT ![f] = v]
        /\ UNCHANGED <<refVars, mergeVars, index, unmerged, pc>> /\ Frame
Stages == pc = "add" /\ StageAll /\ pc' \in {"check", "idle", "down"} /\ Frame
Unstages == pc = "reset" /\ Unstage /\ pc' \in {"idle", "down"} /\ Frame
Records ==
    /\ pc = "commit" /\ CommitIndex("backup")
    /\ pc' \in {"stop1", "idle", "down"} /\ Frame
Concludes ==
    /\ pc = "conclude" /\ merging # 0 /\ CommitIndex("backup")
    /\ pc' \in {"stop2", "abort", "idle", "down"} /\ Frame
Merges ==
    /\ pc = "merge" /\ MergeClean(tracking, "backup")
    /\ pc' \in {"stop2", "idle"} /\ Frame
Stops ==
    /\ pc = "merge" /\ pc' \in {"list", "idle"} /\ Frame
    /\ \/ MergeStops(tracking, "backup") /\ MergeConflicts(tracking) # {}
       \/ MergeFindsLock(tracking, "backup")
Stopped == {"abort", "idle", "down"}
Resolves ==
    /\ Frame
    /\ \/ pc = "ours" /\ CheckoutOurs(kept) /\ pc' \in {"addours"} \cup Stopped
       \/ pc = "addours" /\ AddKept(kept) /\ pc' \in {"rm", "conclude"} \cup Stopped
       \/ pc = "rm" /\ RemoveDeleted(removed) /\ pc' \in {"conclude"} \cup Stopped
Aborts == pc = "abort" /\ AbortMerge /\ pc' \in {"idle", "down"} /\ Frame
Pushes ==
    /\ pc = "push" /\ Publish /\ pc' \in {"idle", "down"}
    /\ tracking' \in {tracking, Branch}

LEMMA OwnDoes ==
    ASSUME "merge" \notin KillAt, TypeOK, OnBranch, merging = 0 => unmerged = {}, OwnStep
    PROVE  \/ Looks \/ Edits \/ Stages \/ Unstages \/ Records \/ Concludes
           \/ Merges \/ Stops \/ Resolves \/ Aborts \/ Pushes
<1> USE DEF Goto, End, Raise, Frame
<1> pc \in PCs
  BY DEF TypeOK, CycleTypeOK
<1>1. CASE \/ StartCycle \/ CheckLock \/ RemoveStaleLock \/ CheckMarker
           \/ CheckBranch \/ CheckUnmerged \/ CheckStatus \/ CheckStaged
           \/ StopIfRequested("stop1", "fetch")
           \/ StopIfRequested("stop2", "outgoing")
           \/ Fetch \/ CountIncoming \/ RecheckBranch \/ CountOutgoing
           \/ LoopEnds \/ Restart \/ RequestStop \/ LockAges
  <2>1. Looks
    BY <1>1
       DEF Looks, StartCycle, CheckLock, RemoveStaleLock, CheckMarker,
           CheckBranch, EnsureOnBranch, OnBranch, CheckUnmerged, CheckStatus,
           CheckStaged, StopIfRequested, Fetch, CountIncoming, RecheckBranch,
           CountOutgoing, LoopEnds, Restart, RequestStop, LockAges, ReadOnly,
           netVars, cycleVars, Waiting, TryBlock, MergeWindow, AtTheGate
  <2> QED  BY <2>1
<1>2. CASE CommandFails
  <2>1. Looks
    BY <1>2
       DEF Looks, CommandFails, GitSteps, Steps, GateSteps, CommitSteps,
           PullSteps, PushSteps, netVars, cycleVars, Waiting, TryBlock,
           MergeWindow, AtTheGate
  <2> QED  BY <2>1
<1>3. CASE AddAll
  BY <1>3
     DEF AddAll, Stages, Looks, cycleVars, netVars, TryBlock, Waiting,
         MergeWindow, AtTheGate
<1>4. CASE ResetIndex
  BY <1>4
     DEF ResetIndex, Unstages, Looks, cycleVars, netVars, TryBlock, Waiting,
         MergeWindow, AtTheGate
<1>5. CASE CommitChanges
  BY <1>5
     DEF CommitChanges, Records, Looks, cycleVars, netVars, TryBlock, Waiting,
         MergeWindow, AtTheGate
<1>6. CASE MergeRemote
  BY <1>6
     DEF MergeRemote, Merges, Stops, Looks, netVars, TryBlock, Waiting,
         MergeWindow, AtTheGate
<1>7. CASE ListConflicts
  <2>1. unmerged = {} => pc' = "abort"
    BY <1>7 DEF ListConflicts
  <2> QED
    BY <1>7, <2>1
       DEF ListConflicts, Looks, netVars, TryBlock, Waiting, MergeWindow,
           AtTheGate
<1>8. CASE TakeOurs \/ StageOurs \/ KeepDeletions
  BY <1>8
     DEF TakeOurs, StageOurs, KeepDeletions, Resolves, Looks, netVars,
         cycleVars, TryBlock, Waiting, MergeWindow, AtTheGate
<1>9. CASE ConcludeMerge
  BY <1>9
     DEF ConcludeMerge, Concludes, Looks, netVars, cycleVars, TryBlock,
         Waiting, MergeWindow, AtTheGate
<1>10. CASE Abort
  BY <1>10
     DEF Abort, Aborts, Looks, netVars, cycleVars, TryBlock, Waiting,
         MergeWindow, AtTheGate
<1>11. CASE Push
  BY <1>11
     DEF Push, Pushes, Publish, Looks, Branch, netVars, cycleVars, TryBlock,
         Waiting, MergeWindow, AtTheGate
<1>12. CASE CommandRaises \/ CommandTimesOut \/ Crash
  <2>1. /\ DoneByThen(pc) /\ UNCHANGED <<kept, removed>>
        /\ pc = "merge" => pc' = "idle" /\ (UNCHANGED <<repoVars, netVars>> \/ Done(pc))
        /\ \/ pc \in TryBlock /\ pc' = "abort"
           \/ pc' \in {"idle", "down"}
    BY <1>12 DEF CommandRaises, CommandTimesOut, Crash, DoneByThen
  <2>2. pc' \notin Waiting \cup TryBlock /\ (pc' = "abort" => pc \in TryBlock)
        /\ pc' \in Stopped
    BY <2>1 DEF Waiting, TryBlock, Stopped
  <2>3. CASE UNCHANGED <<repoVars, remote>> /\ tracking' \in {tracking, remote}
    BY <2>2, <2>3 DEF Looks, MergeWindow, AtTheGate, Stopped
  <2>4. CASE Done(pc) /\ UNCHANGED netVars /\ ~UNCHANGED repoVars
    BY <2>1, <2>2, <2>4
       DEF Done, Stages, Unstages, Records, Concludes, Merges, Stops, Resolves,
           Aborts, Publish, TryBlock, Stopped
  <2>5. CASE pc = "push" /\ Publish /\ tracking' \in {tracking, Branch}
    BY <2>1, <2>2, <2>5 DEF Pushes, TryBlock, Stopped
  <2>6. Done(pc) =>
           \/ UNCHANGED netVars
           \/ UNCHANGED <<repoVars, remote>> /\ tracking' \in {tracking, remote}
           \/ pc = "push" /\ Publish /\ tracking' \in {tracking, Branch}
    BY DEF Done, Branch
  <2>7. \/ UNCHANGED <<repoVars, netVars>> \/ Done(pc) \/ pc = "merge"
        \/ pc = "push" /\ Publish /\ UNCHANGED tracking
    BY <2>1 DEF DoneByThen
  <2> QED  BY <2>1, <2>3, <2>4, <2>5, <2>6, <2>7 DEF netVars
<1>13. CASE \E f \in Files, v \in EditTo : New(f, v) /\ UserEdits(f, v)
  BY <1>13 DEF UserEdits, Edits, EnvFrame, Untouched
<1> QED
  BY <1>1, <1>2, <1>3, <1>4, <1>5, <1>6, <1>7, <1>8, <1>9, <1>10, <1>11, <1>12,
     <1>13
     DEF OwnStep, Service, CycleStep, FaultStep

-----------------------------------------------------------------------------
(* What is new.  The user saves what is not in the history, so a file that   *)
(* differs from HEAD holds what the remote never had, from the working tree  *)
(* through the index to the commit, and through a merge, which takes from    *)
(* the remote what it does not keep.                                         *)

\* New to the remote, that is.
Fresh(f, v) == v \in EditTo /\ \A c \in Anc(remote) : TreeOf(c)[f] # v

\* A commit comes after those it is made from.
Ordered == \A c \in Commits : \A a \in Anc(c) : a <= c

\* A merge is in progress while it is resolved, or waits at the gate.
MergeTime ==
    /\ merging # 0 => pc \in MergeWindow \cup AtTheGate
    /\ pc \in TryBlock \ {"list"} => merging # 0
    /\ merging = 0 => unmerged = {}

\* What the branch shares with the remote, it shares with what is merged.
Common ==
    /\ pc \in Waiting => Anc(Branch) \cap Anc(remote) \subseteq Anc(tracking)
    /\ merging # 0 => Anc(Branch) \cap Anc(remote) \subseteq Anc(merging)

\* Every file of the branch is the user's or the remote's.
Sources ==
    \A c \in Anc(Branch), f \in Files :
        \/ TreeOf(c)[f] \in EditTo
        \/ \E d \in Anc(remote) : TreeOf(d)[f] = TreeOf(c)[f]

\* The last commit the branch shares with the remote; what differs is new.
MeetsAt(m) ==
    /\ m \in Anc(Branch) \cap Anc(remote)
    /\ Anc(Branch) \cap Anc(remote) \subseteq Anc(m)
    /\ \A f \in Files : \/ TreeOf(Branch)[f] = TreeOf(m)[f]
                         \/ Fresh(f, TreeOf(Branch)[f])
Meeting == \E m \in Commits : MeetsAt(m)

FilesNew ==
    merging = 0 => \A f \in Files :
        /\ index[f] = HeadTree[f] \/ New(f, index[f])
        /\ work[f] = HeadTree[f] \/ New(f, work[f])
        /\ index[f] # HeadTree[f] => work[f] # HeadTree[f]

MergeNew ==
    merging # 0 /\ pc \in MergeWindow => \A f \in Files :
        /\ pc \in TryBlock /\ (pc = "list" => unmerged # {})
             => index[f] = TreeOf(merging)[f] \/ Fresh(f, index[f])
        /\ f \notin unmerged \/ (pc = "addours" /\ f \in kept)
             => work[f] = index[f] \/ New(f, work[f])

HInv == BInv /\ RInv /\ Ordered
SInv ==
    /\ HInv /\ MergeTime /\ Common /\ Sources /\ Meeting
    /\ FilesNew /\ MergeNew

\* What a step brings into the history, or into the remote, was there or is
\* one of E.
Brings(E) ==
    /\ Ordered'
    /\ \A c \in Commits', f \in Files :
          \/ TreeOf(c)'[f] \in E \/ \E d \in Commits : TreeOf(d)[f] = TreeOf(c)'[f]
    /\ \A c \in Anc(remote)', f \in Files :
          \/ TreeOf(c)'[f] \in E
          \/ \E d \in Anc(remote) : TreeOf(d)[f] = TreeOf(c)'[f]

-----------------------------------------------------------------------------
(* A commit on the branch.                                                   *)

LEMMA RecordMeets ==
    ASSUME BInv, Ordered, Sources,
           NEW n, n = NextId,
           NEW m \in Commits, NEW parents \in SUBSET {Branch, m}, Branch \in parents,
           NEW tree \in Tree, NEW by \in Actors, Record(parents, tree, by),
           tip' = [tip EXCEPT !["branch"] = NextId], remote' = remote,
           m \in Anc(remote), m \in parents \cup Anc(Branch),
           Anc(Branch) \cap Anc(remote) \subseteq Anc(m),
           \A f \in Files : tree[f] = TreeOf(m)[f] \/ Fresh(f, tree[f])
    PROVE  /\ Branch' = n /\ TreeOf(n)' = tree
           /\ Sources' /\ Meeting' /\ Brings(EditTo)
<1> /\ RepoTypeOK /\ HistoryClosed
    /\ Branch \in Commits /\ remote \in Commits
    /\ tip \in [Heads -> Commits] /\ Heads = {"branch", "side", "detached"}
    /\ \A c \in Commits : Anc(c) \in SUBSET Commits /\ c \in Anc(c)
  BY BInvTypes
<1> parents \in SUBSET Commits
  OBVIOUS
<1>1. /\ Commits' = Commits \cup {n} /\ n \notin Commits /\ Grows
      /\ Anc(n)' = {n} \cup UNION {Anc(p) : p \in parents}
  BY RecordGrows DEF Anc
<1>2. Branch' = n /\ TreeOf(n)' = tree
  BY RecordedAs DEF Branch, TreeOf
<1>3. \A c \in Commits : Anc(c)' = Anc(c) /\ TreeOf(c)' = TreeOf(c)
  BY <1>1, GrowsKeeps
<1>4. Anc(remote)' = Anc(remote)
  BY <1>3
<1>5. Anc(m) \subseteq Anc(remote)
  BY DEF HistoryClosed
<1>6. Anc(n)' \subseteq {n} \cup Anc(Branch) \cup Anc(m)
  BY <1>1
<1>7. ASSUME NEW f \in Files
      PROVE  tree[f] \in EditTo \/ \E d \in Anc(remote) : TreeOf(d)[f] = tree[f]
  BY DEF Fresh
<1>8. Sources'
  <2>1. ASSUME NEW c \in Anc(Branch)', NEW f \in Files
        PROVE  \/ TreeOf(c)'[f] \in EditTo
               \/ \E d \in Anc(remote) : TreeOf(d)[f] = TreeOf(c)'[f]
    <3>1. c = n \/ c \in Anc(Branch) \/ c \in Anc(remote)
      BY <1>2, <1>5, <1>6, <2>1 DEF Anc
    <3>2. CASE c = n
      BY <1>2, <1>7, <3>2
    <3>3. CASE c \in Anc(Branch)
      BY <1>3, <3>3 DEF Sources
    <3>4. CASE c \in Anc(remote)
      BY <1>3, <3>4
    <3> QED  BY <3>1, <3>2, <3>3, <3>4
  <2>2. \A d \in Anc(remote) : TreeOf(d)' = TreeOf(d)
    BY <1>3
  <2> QED  BY <1>4, <2>1, <2>2 DEF Sources
<1>9. Meeting'
  <2>1. m \in Anc(Branch)' /\ m \in Anc(remote)' /\ m \in Commits'
    BY <1>1, <1>2, <1>4 DEF Anc
  <2>2. Anc(Branch)' \cap Anc(remote)' \subseteq Anc(m)'
    BY <1>1, <1>2, <1>3, <1>4, <1>6 DEF Anc
  <2>3. ASSUME NEW f \in Files
        PROVE  TreeOf(Branch)'[f] = TreeOf(m)'[f] \/ Fresh(f, TreeOf(Branch)[f])'
    <3>1. TreeOf(Branch)' = tree /\ TreeOf(m)' = TreeOf(m)
      BY <1>2, <1>3 DEF TreeOf
    <3>2. Fresh(f, tree[f]) => Fresh(f, tree[f])'
      BY <1>3, <1>4 DEF Fresh
    <3> QED  BY <3>1, <3>2 DEF Fresh
  <2> QED  BY <2>1, <2>2, <2>3 DEF Meeting, MeetsAt
<1>10. Ordered'
  <2>1. Commits = 1 .. Len(history) /\ Len(history) \in Nat /\ n = Len(history) + 1
    BY CommitTypes DEF NextId
  <2>2. \A a \in Anc(n)' : a <= n
    BY <1>6, <2>1
  <2> QED  BY <1>1, <1>3, <2>2 DEF Ordered
<1>11. Brings(EditTo)
  <2>1. ASSUME NEW c \in Commits', NEW f \in Files
        PROVE  TreeOf(c)'[f] \in EditTo \/ \E d \in Commits : TreeOf(d)[f] = TreeOf(c)'[f]
    BY <1>1, <1>2, <1>3, <1>7
  <2>2. ASSUME NEW c \in Anc(remote)', NEW f \in Files
        PROVE  \E d \in Anc(remote) : TreeOf(d)[f] = TreeOf(c)'[f]
    BY <1>3, <1>4
  <2> QED  BY <1>10, <2>1, <2>2 DEF Brings
<1> QED  BY <1>2, <1>8, <1>9, <1>11

-----------------------------------------------------------------------------
(* `git merge-base' of the branch and what was fetched is where the branch   *)
(* meets the remote.                                                         *)

LEMMA BaseIsMeeting ==
    ASSUME BInv, Ordered, NEW m \in Commits, MeetsAt(m),
           Anc(Branch) \cap Anc(remote) \subseteq Anc(tracking)
    PROVE  MergeBase(tip[head], tracking) = m
<1> /\ RepoTypeOK /\ HistoryClosed
    /\ Branch \in Commits /\ remote \in Commits /\ tracking \in Commits
    /\ \A c \in Commits : Anc(c) \in SUBSET Commits /\ c \in Anc(c)
  BY BInvTypes
<1> DEFINE S == Anc(Branch) \cap Anc(tracking)
<1>1. tip[head] = Branch
  BY DEF BInv, OnBranch, Branch
<1>2. m \in S /\ S \subseteq Anc(m)
  BY DEF MeetsAt, BInv, Behind
<1>3. \A a \in S : a <= m
  BY <1>2 DEF Ordered
<1>4. S \subseteq Nat
  BY CommitTypes
<1>5. ASSUME NEW b \in S, \A a \in S : a <= b PROVE b = m
  BY <1>2, <1>3, <1>4, <1>5
<1>6. MergeBase(tip[head], tracking) = CHOOSE b \in S : \A a \in S : a <= b
  BY <1>1 DEF MergeBase
<1> HIDE DEF S
<1>7. (CHOOSE b \in S : \A a \in S : a <= b) = m
  BY <1>2, <1>3, <1>5
<1> QED  BY <1>6, <1>7

\* `git merge' gives a file its version in the remote's branch, or keeps a new
\* one; of the files in conflict the workspace's is new.
LEMMA MergedNew ==
    ASSUME BInv, Ordered, Meeting, pc = "merge", Common, NEW f \in Files
    PROVE  /\ f \notin MergeConflicts(tracking) =>
                 \/ Merged(tracking, f) = TreeOf(tracking)[f]
                 \/ Merged(tracking, f) = HeadTree[f] /\ Fresh(f, HeadTree[f])
           /\ f \in MergeConflicts(tracking) => Fresh(f, HeadTree[f])
           /\ CanFastForward(tracking) =>
                 f \notin MergeConflicts(tracking) /\ Merged(tracking, f) = TreeOf(tracking)[f]
<1>1. PICK m \in Commits : MeetsAt(m)
  BY DEF Meeting
<1>2. Anc(Branch) \cap Anc(remote) \subseteq Anc(tracking)
  BY DEF Common, Waiting
<1>3. MergeBase(tip[head], tracking) = m /\ tip[head] = Branch
  BY <1>1, <1>2, BaseIsMeeting DEF BInv, OnBranch, Branch
<1>4. HeadTree[f] = TreeOf(m)[f] \/ Fresh(f, HeadTree[f])
  BY <1>1, <1>3 DEF MeetsAt, HeadTree
<1>5. ASSUME CanFastForward(tracking) PROVE HeadTree[f] = TreeOf(m)[f]
  <2>1. Branch \in Anc(Branch) /\ Branch \in Commits /\ m \in Commits
    BY BInvTypes
  <2>2. Branch \in Anc(tracking) /\ Anc(tracking) \subseteq Anc(remote)
    BY <1>3, <1>5 DEF CanFastForward, BInv, Behind
  <2>3. Branch \in Anc(m) /\ m \in Anc(Branch)
    BY <1>1, <2>1, <2>2 DEF MeetsAt
  <2>4. Branch <= m /\ m <= Branch
    BY <2>1, <2>3 DEF Ordered
  <2>5. Branch \in Nat /\ m \in Nat
    BY <2>1, CommitTypes, BInvTypes
  <2> QED  BY <1>3, <2>4, <2>5 DEF HeadTree
<1> HIDE DEF MergeBase
<1> QED
  BY <1>3, <1>4, <1>5
     DEF Merged, MergedFile, MergeConflicts, ConflictsOf, ThreeWay

-----------------------------------------------------------------------------
(* The histories, step by step.                                              *)

\* A file of the remote is replaced by a version it never held.
RevertsNothing ==
    \A f \in Files : \/ TreeOf(remote)[f] = TreeOf(remote)'[f]
                     \/ \A c \in Anc(remote) : TreeOf(c)[f] # TreeOf(remote)'[f]

LEMMA HistoryStays ==
    ASSUME HInv, Sources, Meeting, UNCHANGED <<history, tip, remote>>
    PROVE  Sources' /\ Meeting' /\ Brings(EditTo)
BY DEF HInv, Sources, Meeting, MeetsAt, Fresh, Brings, Ordered, Commits, Anc,
       TreeOf, Branch

LEMMA PushMeets ==
    ASSUME HInv, Sources, Meeting, Pushes
    PROVE  /\ Sources' /\ Meeting' /\ Brings(EditTo)
           /\ RevertsNothing
<1> /\ BInv /\ Ordered /\ RepoTypeOK /\ HistoryClosed
    /\ Branch \in Commits /\ remote \in Commits
    /\ \A c \in Commits : Anc(c) \in SUBSET Commits /\ c \in Anc(c)
  BY BInvTypes DEF HInv
<1>1. /\ remote' = Branch /\ UNCHANGED <<history, tip>>
      /\ remote \in Anc(Branch) /\ Anc(remote) \subseteq Anc(Branch)
  BY DEF Pushes, Publish, PushAccepted, repoVars, refVars, Branch,
         HistoryClosed
<1>2. PICK m \in Commits : MeetsAt(m)
  BY DEF Meeting
<1>3. m = remote
  <2>1. remote \in Anc(m) /\ m \in Anc(remote)
    BY <1>1, <1>2 DEF MeetsAt
  <2>2. remote <= m /\ m <= remote /\ m \in Nat /\ remote \in Nat
    BY <2>1, CommitTypes DEF Ordered
  <2> QED  BY <2>2
<1>4. Sources' /\ Meeting'
  BY <1>1 DEF Sources, Meeting, MeetsAt, Anc, TreeOf, Branch, Commits
<1>5. Brings(EditTo)
  BY <1>1 DEF Brings, Sources, Anc, TreeOf, Branch, Commits, Ordered
<1>6. ASSUME NEW f \in Files
      PROVE  \/ TreeOf(remote)[f] = TreeOf(remote)'[f]
             \/ \A c \in Anc(remote) : TreeOf(c)[f] # TreeOf(remote)'[f]
  BY <1>1, <1>2, <1>3 DEF MeetsAt, Fresh, TreeOf, Branch
<1> QED  BY <1>4, <1>5, <1>6 DEF RevertsNothing

LEMMA CommitMeets ==
    ASSUME SInv, Records \/ Concludes
    PROVE  Sources' /\ Meeting' /\ Brings(EditTo)
<1> DEFINE n == NextId
           parents == {Branch} \cup ({merging} \ {0})
<1> /\ BInv /\ RInv /\ Ordered /\ Sources /\ Meeting /\ RepoTypeOK /\ HistoryClosed
    /\ Branch \in Commits /\ remote \in Commits /\ merging \in Commits \cup {0}
    /\ 0 \notin Commits
    /\ \A c \in Commits : Anc(c) \in SUBSET Commits /\ c \in Anc(c)
  BY BInvTypes DEF SInv, HInv
<1>1. /\ head = "branch" /\ tip[head] = Branch /\ HeadTree = TreeOf(Branch)
      /\ index \in Tree /\ "backup" \in Actors
  BY DEF BInv, OnBranch, Branch, HeadTree, RepoTypeOK, Actors
<1>2. /\ Record(parents, index, "backup") /\ tip' = [tip EXCEPT !["branch"] = n]
      /\ remote' = remote /\ Branch \in parents
  BY <1>1 DEF Records, Concludes, CommitIndex, Frame, netVars
<1>3. PICK m \in Commits :
         /\ m \in Anc(remote) /\ m \in parents \cup Anc(Branch)
         /\ parents \subseteq {Branch, m}
         /\ Anc(Branch) \cap Anc(remote) \subseteq Anc(m)
         /\ \A f \in Files : index[f] = TreeOf(m)[f] \/ Fresh(f, index[f])
  <2>1. CASE Records
    <3>1. merging = 0 /\ pc = "commit"
      BY <2>1 DEF Records, SInv, MergeTime, MergeWindow, TryBlock, AtTheGate
    <3>2. PICK m \in Commits : MeetsAt(m)
      BY DEF Meeting
    <3>3. ASSUME NEW f \in Files PROVE index[f] = TreeOf(m)[f] \/ Fresh(f, index[f])
      <4>1. New(f, index[f]) => Fresh(f, index[f])
        BY DEF New, Fresh
      <4> QED  BY <1>1, <3>1, <3>2, <4>1 DEF SInv, FilesNew, MeetsAt
    <3> QED  BY <3>1, <3>2, <3>3 DEF MeetsAt
  <2>2. CASE Concludes
    <3>1. merging # 0 /\ merging \in Commits /\ pc = "conclude"
      BY <2>2 DEF Concludes
    <3>2. merging \in Anc(remote)
      BY <3>1 DEF BInv, Behind
    <3>3. Anc(Branch) \cap Anc(remote) \subseteq Anc(merging)
      BY <3>1 DEF SInv, Common
    <3>4. \A f \in Files : index[f] = TreeOf(merging)[f] \/ Fresh(f, index[f])
      BY <3>1 DEF SInv, MergeNew, MergeWindow, TryBlock
    <3> QED  BY <3>1, <3>2, <3>3, <3>4
  <2> QED  BY <2>1, <2>2
<1>4. PICK k : k = n
  OBVIOUS
<1> HIDE DEF n, parents
<1>5. parents \in SUBSET {Branch, m} /\ k = NextId
  BY <1>3, <1>4 DEF n
<1> QED  BY <1>1, <1>2, <1>3, <1>5, RecordMeets DEF n

LEMMA MergeMeets ==
    ASSUME SInv, Merges
    PROVE  /\ Sources' /\ Meeting' /\ Brings(EditTo)
           /\ index = HeadTree /\ merging = 0
           /\ \A f \in Files : index'[f] = Merged(tracking, f) /\ HeadTree'[f] = index'[f]
           /\ \A f \in Files, v \in EditTo : New(f, v) => New(f, v)' \/ index'[f] = v
<1> /\ BInv /\ RInv /\ Ordered /\ Sources /\ Meeting /\ RepoTypeOK /\ HistoryClosed
    /\ Branch \in Commits /\ remote \in Commits /\ tracking \in Commits
    /\ tip \in [Heads -> Commits] /\ Heads = {"branch", "side", "detached"}
    /\ \A c \in Commits : Anc(c) \in SUBSET Commits /\ c \in Anc(c)
  BY BInvTypes DEF SInv, HInv
<1>1. /\ head = "branch" /\ tip[head] = Branch /\ HeadTree = TreeOf(Branch)
      /\ "backup" \in Actors
  BY DEF BInv, OnBranch, Branch, HeadTree, Actors
<1>2. /\ pc = "merge" /\ MergeFiles(tracking) /\ MergeConflicts(tracking) = {}
      /\ merging = 0 /\ remote' = remote /\ head' = head /\ tracking' = tracking
  BY DEF Merges, MergeClean, MergeRefused, Frame, netVars
<1>3. index = HeadTree /\ index' \in Tree
  BY <1>2, MergeFilesType DEF RInv, Ready, PullSteps
<1>4. \A f \in Files : index'[f] = Merged(tracking, f)
  BY <1>2, <1>3 DEF MergeFiles
<1>5. ASSUME NEW f \in Files
      PROVE  index'[f] = TreeOf(tracking)[f] \/ Fresh(f, index'[f])
  BY <1>2, <1>4, MergedNew DEF SInv
<1>6. Anc(Branch) \cap Anc(remote) \subseteq Anc(tracking) /\ tracking \in Anc(remote)
  BY <1>2 DEF SInv, Common, Waiting, BInv, Behind
<1>7. CASE CanFastForward(tracking)
  <2>1. history' = history /\ tip' = [tip EXCEPT !["branch"] = tracking]
    BY <1>1, <1>7 DEF Merges, MergeClean
  <2>2. /\ Branch' = tracking /\ HeadTree' = TreeOf(tracking)
        /\ Anc(remote)' = Anc(remote) /\ Commits' = Commits
        /\ \A c \in Commits : Anc(c)' = Anc(c) /\ TreeOf(c)' = TreeOf(c)
    BY <1>1, <1>2, <2>1 DEF Branch, HeadTree, TreeOf, Anc, Commits
  <2>3. \A f \in Files : HeadTree'[f] = index'[f]
    BY <1>2, <1>4, <1>7, <2>2, MergedNew DEF SInv
  <2>4. Anc(Branch)' = Anc(tracking) /\ TreeOf(Branch)' = TreeOf(tracking)
    BY <2>1, <2>2 DEF Anc, TreeOf
  <2>5. Anc(tracking) \subseteq Anc(remote)
    BY DEF BInv, Behind
  <2>6. Sources'
    <3>1. ASSUME NEW c \in Anc(Branch)', NEW f \in Files
          PROVE  \E d \in Anc(remote)' : TreeOf(d)'[f] = TreeOf(c)'[f]
      BY <2>2, <2>4, <2>5
    <3> QED  BY <3>1 DEF Sources
  <2>7. MeetsAt(tracking)'
    BY <1>2, <1>6, <2>2, <2>4 DEF MeetsAt, Anc, TreeOf
  <2>8. Brings(EditTo)
    BY <2>1, <2>2 DEF Brings, Ordered
  <2>9. \A f \in Files, v \in EditTo : New(f, v) => New(f, v)'
    BY <2>2 DEF New
  <2>10. Meeting'
    BY <1>2, <2>2, <2>7 DEF Meeting
  <2> QED  BY <1>2, <1>3, <1>4, <2>3, <2>6, <2>8, <2>9, <2>10
<1>8. CASE ~CanFastForward(tracking)
  <2>1. /\ Record({Branch, tracking}, index', "backup")
        /\ tip' = [tip EXCEPT !["branch"] = NextId]
    BY <1>1, <1>8 DEF Merges, MergeClean
  <2>2. PICK k : k = NextId
    OBVIOUS
  <2>3. PICK tree \in Tree : tree = index'
    BY <1>3
  <2>4. {Branch, tracking} \in SUBSET {Branch, tracking}
    OBVIOUS
  <2>5. /\ Branch' = k /\ TreeOf(k)' = tree
        /\ Sources' /\ Meeting' /\ Brings(EditTo)
    BY <1>1, <1>2, <1>5, <1>6, <2>1, <2>2, <2>3, <2>4, RecordMeets
  <2>6. HeadTree' = index'
    BY <1>1, <1>2, <2>3, <2>5 DEF HeadTree, TreeOf, Branch
  <2>7. Commits' = Commits \cup {k} /\ Grows
    BY <1>1, <1>3, <2>1, <2>2, RecordGrows
  <2>8. ASSUME NEW f \in Files, NEW v \in EditTo, New(f, v)
        PROVE  New(f, v)' \/ index'[f] = v
    BY <2>3, <2>5, <2>7, <2>8, GrowsKeeps DEF New
  <2> QED  BY <1>2, <1>3, <1>4, <2>5, <2>6, <2>8
<1> QED  BY <1>7, <1>8

\* The forms that leave the history alone.
Quiet == Looks \/ Edits \/ Stages \/ Unstages \/ Stops \/ Resolves \/ Aborts

LEMMA QuietHistory ==
    ASSUME Quiet
    PROVE  UNCHANGED <<history, head, tip, remote>>
BY DEF Quiet, Looks, Edits, Stages, Unstages, Stops, Resolves, Aborts,
       StageAll, Unstage, MergeStops, MergeFindsLock, CheckoutOurs, AddKept,
       RemoveDeleted, AbortMerge, Frame, repoVars, refVars, netVars

LEMMA SharerDoes ==
    ASSUME "merge" \notin KillAt, SInv, OwnStep
    PROVE  Quiet \/ Records \/ Concludes \/ Merges \/ Pushes
BY OwnDoes DEF Quiet, SInv, HInv, BInv, IInv, MergeTime

LEMMA OwnMeets ==
    ASSUME "merge" \notin KillAt, SInv, OwnStep
    PROVE  Sources' /\ Meeting' /\ Brings(EditTo) /\ RevertsNothing
<1> BInv /\ HInv /\ Sources /\ Meeting
  BY DEF SInv, HInv
<1>1. Grows /\ remote \in Commits
  BY OwnBranch, BInvTypes
<1>2. ASSUME remote' = remote PROVE RevertsNothing
  BY <1>1, <1>2 DEF RevertsNothing, Grows, TreeOf
<1>3. CASE Quiet
  BY <1>2, <1>3, QuietHistory, HistoryStays
<1>4. CASE Records \/ Concludes
  BY <1>2, <1>4, CommitMeets DEF Records, Concludes, Frame, netVars
<1>5. CASE Merges
  BY <1>2, <1>5, MergeMeets DEF Merges, Frame, netVars
<1>6. CASE Pushes
  BY <1>6, PushMeets
<1> QED  BY <1>3, <1>4, <1>5, <1>6, SharerDoes

LEMMA OwnTimes ==
    ASSUME "merge" \notin KillAt, SInv, OwnStep
    PROVE  MergeTime'
<1> USE DEF MergeTime
<1>0. MergeTime /\ tracking # 0
  BY CommitTypes, BInvTypes DEF SInv, HInv
<1>1. CASE Looks
  BY <1>0, <1>1 DEF Looks, repoVars, fileVars, mergeVars, TryBlock
<1>2. CASE Edits
  BY <1>0, <1>2 DEF Edits, mergeVars
<1>3. CASE Stages \/ Unstages \/ Aborts
  BY <1>0, <1>3
     DEF Stages, Unstages, Aborts, StageAll, Unstage, AbortMerge, mergeVars,
         TryBlock, MergeWindow, AtTheGate
<1>4. CASE Stops
  BY <1>0, <1>4
     DEF Stops, MergeStops, MergeFindsLock, TryBlock, MergeWindow, AtTheGate
<1>5. CASE Resolves
  BY <1>0, <1>5
     DEF Resolves, Stopped, CheckoutOurs, AddKept, RemoveDeleted, mergeVars, TryBlock,
         MergeWindow, AtTheGate
<1>6. CASE Records \/ Concludes
  BY <1>0, <1>6
     DEF Records, Concludes, CommitIndex, CanCommit, fileVars, TryBlock
<1>7. CASE Merges
  BY <1>0, <1>7
     DEF Merges, MergeClean, MergeRefused, MergeFiles, mergeVars, TryBlock
<1>8. CASE Pushes
  BY <1>0, <1>8 DEF Pushes, Publish, repoVars, fileVars, mergeVars, TryBlock,
      MergeWindow, AtTheGate
<1> QED
  BY <1>1, <1>2, <1>3, <1>4, <1>5, <1>6, <1>7, <1>8, SharerDoes DEF Quiet

LEMMA OwnCommon ==
    ASSUME "merge" \notin KillAt, SInv, OwnStep
    PROVE  Common'
<1> USE DEF Common
<1>0. /\ BInv /\ Common /\ MergeTime /\ OnBranch /\ Behind
      /\ tip \in [Heads -> Commits] /\ Branch \in Commits
  BY BInvTypes DEF SInv, HInv, BInv
<1>1. CASE Quiet
  <2>1. UNCHANGED <<history, tip, remote>>
    BY <1>1, QuietHistory
  <2>2. (Anc(Branch) \cap Anc(remote))' = Anc(Branch) \cap Anc(remote)
    BY <2>1 DEF Anc, Branch
  <2>3. merging' # 0 => Anc(Branch) \cap Anc(remote) \subseteq Anc(merging)'
    <3>1. CASE merging' = merging
      BY <1>0, <2>1, <3>1 DEF Anc
    <3>2. CASE Unstages \/ Aborts
      BY <3>2 DEF Unstages, Aborts, Unstage, AbortMerge
    <3>3. CASE Stops
      <4>1. merging' = tracking /\ pc = "merge"
        BY <3>3 DEF Stops, MergeStops, MergeFindsLock
      <4> QED  BY <1>0, <2>1, <4>1 DEF Waiting, Anc
    <3> QED
      BY <1>1, <3>1, <3>2, <3>3
         DEF Quiet, Looks, Edits, Stages, Resolves, Stopped, StageAll, CheckoutOurs,
             AddKept, RemoveDeleted, repoVars, mergeVars
  <2>4. pc' \in Waiting => Anc(Branch) \cap Anc(remote) \subseteq Anc(tracking)'
    <3>1. pc' \in Waiting =>
             \/ tracking' = remote
             \/ pc \in Waiting /\ tracking' = tracking
      BY <1>1
         DEF Quiet, Looks, Edits, Stages, Unstages, Stops, Resolves, Aborts,
             Stopped, Waiting, Frame, netVars
    <3> QED  BY <1>0, <2>1, <3>1 DEF Anc
  <2> QED  BY <2>2, <2>3, <2>4
<1>2. CASE Records \/ Concludes \/ Merges \/ Pushes
  <2>1. merging' = 0 /\ pc' \notin Waiting
    BY <1>0, <1>2
       DEF Records, Concludes, Merges, Pushes, CommitIndex, MergeClean,
           MergeRefused, Publish, repoVars, mergeVars, Waiting, MergeTime,
           MergeWindow, TryBlock, AtTheGate
  <2> QED  BY <2>1
<1> QED  BY <1>1, <1>2, SharerDoes

-----------------------------------------------------------------------------
(* The files, step by step.                                                  *)

\* A new commit is all that can make a version old.
LEMMA CommitKeepsNew ==
    ASSUME SInv, Records \/ Concludes
    PROVE  /\ HeadTree' = index /\ UNCHANGED <<index, work>>
           /\ \A f \in Files, v \in EditTo : New(f, v) => New(f, v)' \/ index[f] = v
<1> /\ RepoTypeOK /\ index \in Tree /\ "backup" \in Actors
    /\ tip[head] \in Commits /\ merging \in Commits \cup {0} /\ 0 \notin Commits
  BY BInvTypes DEF SInv, HInv, RepoTypeOK, Actors
<1>1. CommitIndex("backup")
  BY DEF Records, Concludes
<1>2. /\ HeadTree' = index /\ UNCHANGED <<index, work>>
      /\ history'[NextId].tree = index
  BY <1>1, CommitTakesIndex
<1>3. Commits' = Commits \cup {NextId} /\ Grows
  <2>1. {tip[head]} \cup ({merging} \ {0}) \in SUBSET Commits
    OBVIOUS
  <2>2. Record({tip[head]} \cup ({merging} \ {0}), index, "backup")
    BY <1>1 DEF CommitIndex
  <2> QED  BY <2>1, <2>2, RecordGrows
<1>4. ASSUME NEW f \in Files, NEW v \in EditTo, New(f, v), index[f] # v
      PROVE  New(f, v)'
  <2>1. ASSUME NEW c \in Commits' PROVE TreeOf(c)'[f] # v
    BY <1>2, <1>3, <1>4, GrowsKeeps DEF New, TreeOf
  <2> QED  BY <2>1 DEF New
<1> QED  BY <1>2, <1>4

LEMMA OwnFiles ==
    ASSUME "merge" \notin KillAt, SInv, OwnStep
    PROVE  FilesNew'
<1> USE DEF FilesNew
<1>0. /\ BInv /\ RInv /\ FilesNew /\ MergeNew /\ MergeTime /\ RepoTypeOK
      /\ work \in Tree /\ index \in Tree /\ HeadTree \in Tree /\ tip[head] \in Commits
  BY BInvTypes, CommitTypes DEF SInv, HInv, RepoTypeOK, HeadTree
<1>1. ASSUME UNCHANGED <<history, head, tip>>
      PROVE  /\ HeadTree' = HeadTree
             /\ \A f \in Files, v \in EditTo : New(f, v)' <=> New(f, v)
  BY <1>1 DEF HeadTree, New, TreeOf, Commits
<1>2. CASE Looks
  <2>1. UNCHANGED <<history, head, tip, work, index, merging>>
    BY <1>2 DEF Looks, repoVars, refVars, fileVars, mergeVars
  <2> QED  BY <1>0, <2>1 DEF New, HeadTree, TreeOf, Commits
<1>3. CASE Edits
  <2>1. PICK g \in Files, u \in EditTo :
            /\ New(g, u) /\ work' = [work EXCEPT ![g] = u]
            /\ UNCHANGED <<history, head, tip, index, merging>>
    BY <1>3 DEF Edits, refVars, mergeVars
  <2>2. HeadTree[g] # u
    BY <1>0, <2>1 DEF New, HeadTree
  <2>3. work' = [f \in Files |-> IF f = g THEN u ELSE work[f]]
    BY <1>0, <2>1 DEF Tree
  <2> QED  BY <1>0, <2>1, <2>2, <2>3 DEF New, HeadTree, TreeOf, Commits
<1>4. CASE Stages
  <2>1. /\ UNCHANGED <<history, head, tip, work, merging>> /\ index' = work
    BY <1>4 DEF Stages, StageAll, refVars, mergeVars
  <2> QED  BY <1>0, <2>1 DEF New, HeadTree, TreeOf, Commits
<1>5. CASE Unstages
  <2>1. /\ UNCHANGED <<history, head, tip, work>> /\ index' = HeadTree
        /\ pc = "reset"
    BY <1>5 DEF Unstages, Unstage, refVars
  <2>2. merging = 0
    BY <1>0, <2>1 DEF MergeTime, MergeWindow, TryBlock, AtTheGate
  <2> QED  BY <1>0, <2>1, <2>2 DEF New, HeadTree, TreeOf, Commits
<1>6. CASE Stops
  <2>1. merging' = tracking /\ tracking # 0
    BY <1>0, <1>6, BInvTypes DEF Stops, MergeStops, MergeFindsLock
  <2> QED  BY <2>1
<1>7. CASE Resolves
  <2>1. merging' = merging /\ merging # 0
    BY <1>0, <1>7
       DEF Resolves, CheckoutOurs, AddKept, RemoveDeleted, mergeVars,
           MergeTime, TryBlock
  <2> QED  BY <2>1
<1>8. CASE Aborts
  <2>1. /\ UNCHANGED <<history, head, tip>> /\ index' = HeadTree /\ pc = "abort"
        /\ merging # 0
        /\ work' = [f \in Files |-> IF f \in unmerged \/ index[f] # HeadTree[f]
                                     THEN HeadTree[f] ELSE work[f]]
    BY <1>8 DEF Aborts, AbortMerge, CanAbort, refVars
  <2>2. ASSUME NEW f \in Files PROVE work'[f] = HeadTree[f] \/ New(f, work'[f])
    BY <1>0, <2>1 DEF MergeNew, MergeWindow
  <2> QED  BY <2>1, <2>2 DEF New, HeadTree, TreeOf, Commits
<1>9. CASE Records
  <2>1. merging = 0
    BY <1>0, <1>9 DEF Records, MergeTime, MergeWindow, TryBlock, AtTheGate
  <2>2. /\ HeadTree' = index /\ UNCHANGED <<index, work>>
        /\ \A f \in Files, v \in EditTo : New(f, v) => New(f, v)' \/ index[f] = v
    BY <1>9, CommitKeepsNew
  <2>3. ASSUME NEW f \in Files PROVE work[f] = index[f] \/ New(f, work[f])
    BY <1>0, <2>1
  <2>4. ASSUME NEW f \in Files PROVE work'[f] = HeadTree'[f] \/ New(f, work[f])'
    BY <2>2, <2>3 DEF New
  <2> QED  BY <2>2, <2>4
<1>10. CASE Concludes
  <2>1. merging # 0 /\ pc = "conclude" /\ unmerged = {}
    BY <1>10 DEF Concludes, CommitIndex, CanCommit
  <2>2. /\ HeadTree' = index /\ UNCHANGED <<index, work>>
        /\ \A f \in Files, v \in EditTo : New(f, v) => New(f, v)' \/ index[f] = v
    BY <1>10, CommitKeepsNew
  <2>3. ASSUME NEW f \in Files PROVE work[f] = index[f] \/ New(f, work[f])
    BY <1>0, <2>1 DEF MergeNew, MergeWindow, TryBlock
  <2>4. ASSUME NEW f \in Files PROVE work'[f] = HeadTree'[f] \/ New(f, work[f])'
    BY <2>2, <2>3 DEF New
  <2> QED  BY <2>2, <2>4
<1>11. CASE Merges
  <2>1. /\ index = HeadTree /\ merging = 0
        /\ \A f \in Files : index'[f] = Merged(tracking, f) /\ HeadTree'[f] = index'[f]
        /\ \A f \in Files, v \in EditTo : New(f, v) => New(f, v)' \/ index'[f] = v
    BY <1>11, MergeMeets
  <2>2. work' = [f \in Files |-> IF Merged(tracking, f) # HeadTree[f]
                                 THEN Merged(tracking, f) ELSE work[f]]
    BY <1>11 DEF Merges, MergeClean, MergeFiles
  <2>3. ASSUME NEW f \in Files PROVE work'[f] = HeadTree'[f] \/ New(f, work[f])'
    <3>1. CASE Merged(tracking, f) # HeadTree[f]
      BY <2>1, <2>2, <3>1
    <3>2. CASE Merged(tracking, f) = HeadTree[f]
      <4>1. work'[f] = work[f]
        BY <2>2, <3>2
      <4>2. work[f] = HeadTree[f] \/ New(f, work[f])
        BY <1>0, <2>1
      <4> QED  BY <2>1, <3>2, <4>1, <4>2 DEF New
    <3> QED  BY <3>1, <3>2
  <2> QED  BY <2>1, <2>3
<1>12. CASE Pushes
  <2>1. UNCHANGED <<history, head, tip, work, index, merging>>
    BY <1>12 DEF Pushes, Publish, repoVars, refVars, fileVars, mergeVars
  <2> QED  BY <1>0, <2>1 DEF New, HeadTree, TreeOf, Commits
<1> QED
  BY <1>2, <1>3, <1>4, <1>5, <1>6, <1>7, <1>8, <1>9, <1>10, <1>11, <1>12,
     SharerDoes DEF Quiet

\* The merge stops: what it stages is the remote's or new.
LEMMA StopsNew ==
    ASSUME SInv, Stops
    PROVE  MergeNew'
<1> /\ BInv /\ RInv /\ FilesNew /\ Ordered /\ Meeting /\ Common
    /\ RepoTypeOK /\ tracking \in Commits
  BY BInvTypes DEF SInv, HInv
<1>1. /\ pc = "merge" /\ pc' \in {"list", "idle"} /\ merging = 0 /\ merging' = tracking
      /\ UNCHANGED <<history, head, tip, remote, tracking>>
  BY DEF Stops, MergeStops, MergeFindsLock, MergeRefused, Frame, refVars,
         netVars
<1>2. index = HeadTree
  BY <1>1 DEF RInv, Ready, PullSteps
<1>3. ASSUME NEW f \in Files PROVE work[f] = HeadTree[f] \/ New(f, work[f])
  BY <1>1 DEF FilesNew
<1>4. CASE MergeStops(tracking, "backup")
  <2>1. MergeFiles(tracking)
    BY <1>4 DEF MergeStops
  <2>2. ASSUME NEW f \in Files
        PROVE  /\ index'[f] = TreeOf(tracking)[f] \/ Fresh(f, index'[f])
               /\ f \notin unmerged' => work'[f] = index'[f] \/ New(f, work'[f])
    <3> DEFINE merged == Merged(tracking, f)
    <3>1. /\ index'[f] = IF f \in MergeConflicts(tracking) \/ merged = HeadTree[f]
                         THEN HeadTree[f] ELSE merged
          /\ work'[f] = IF merged # HeadTree[f] THEN merged ELSE work[f]
          /\ unmerged' = MergeConflicts(tracking)
      BY <1>2, <2>1 DEF MergeFiles
    <3>2. /\ f \notin MergeConflicts(tracking) =>
                 \/ merged = TreeOf(tracking)[f]
                 \/ merged = HeadTree[f] /\ Fresh(f, HeadTree[f])
          /\ f \in MergeConflicts(tracking) => Fresh(f, HeadTree[f])
      BY <1>1, MergedNew
    <3> HIDE DEF merged
    <3> QED  BY <1>3, <3>1, <3>2
  <2> QED  BY <1>1, <2>2 DEF MergeNew, New, Fresh, TreeOf, Anc, Commits
<1>5. CASE MergeFindsLock(tracking, "backup")
  <2>1. UNCHANGED <<work, index, unmerged>> /\ unmerged = {}
    BY <1>5 DEF MergeFindsLock, MergeRefused, fileVars
  <2>2. HeadTree' = HeadTree
    BY <1>1 DEF HeadTree, TreeOf
  <2>3. ASSUME NEW f \in Files PROVE (work[f] = HeadTree[f] \/ New(f, work[f]))'
    BY <1>1, <1>3, <2>1, <2>2 DEF New, TreeOf, Commits
  <2>4. pc' \in MergeWindow => pc' = "list" /\ unmerged' = {}
    BY <1>1, <2>1 DEF MergeWindow, TryBlock
  <2> QED  BY <1>1, <1>2, <2>1, <2>2, <2>3, <2>4 DEF MergeNew
<1> QED  BY <1>4, <1>5 DEF Stops

\* The commands of the resolution stage nothing that is neither.
LEMMA ResolvesNew ==
    ASSUME SInv, Resolves
    PROVE  MergeNew'
<1> /\ RInv /\ MergeNew /\ MergeTime /\ work \in Tree /\ index \in Tree
  BY BInvTypes DEF SInv, HInv, RepoTypeOK
<1>1. /\ merging # 0 /\ pc \in {"ours", "addours", "rm"} /\ pc \in MergeWindow
      /\ UNCHANGED <<history, head, tip, remote, merging, kept>>
  BY DEF Resolves, CheckoutOurs, AddKept, RemoveDeleted, Frame, refVars,
         mergeVars, netVars, MergeTime, MergeWindow, TryBlock
<1>2. ASSUME NEW f \in Files
      PROVE  /\ index[f] = TreeOf(merging)[f] \/ Fresh(f, index[f])
             /\ f \notin unmerged \/ (pc = "addours" /\ f \in kept)
                  => work[f] = index[f] \/ New(f, work[f])
  BY <1>1 DEF MergeNew, TryBlock
<1>3. \A f \in removed : index[f] = Absent
  BY <1>1 DEF RInv, Resolving, Resolution
<1>4. ASSUME NEW f \in Files, New(f, work[f]) PROVE Fresh(f, work[f])
  <2>1. Anc(remote) \subseteq Commits
    BY BInvTypes DEF SInv, HInv
  <2> QED  BY <1>4, <2>1 DEF New, Fresh
<1>5. ASSUME NEW f \in Files
      PROVE  /\ index'[f] = TreeOf(merging)[f] \/ Fresh(f, index'[f])
             /\ f \notin unmerged' \/ (pc' = "addours" /\ f \in kept)
                  => work'[f] = index'[f] \/ New(f, work'[f])
  <2>1. CASE pc = "ours"
    <3>1. /\ work'[f] = IF f \in kept THEN index[f] ELSE work[f]
          /\ UNCHANGED <<index, unmerged>>
      BY <2>1 DEF Resolves, CheckoutOurs
    <3> QED  BY <1>2, <2>1, <3>1
  <2>2. CASE pc = "addours"
    <3>1. /\ index'[f] = IF f \in kept THEN work[f] ELSE index[f]
          /\ unmerged' = unmerged \ kept /\ UNCHANGED work
          /\ pc' # "addours"
      BY <2>2 DEF Resolves, Stopped, AddKept
    <3> QED  BY <1>2, <1>4, <2>2, <3>1
  <2>3. CASE pc = "rm"
    <3>1. /\ work'[f] = IF f \in removed THEN Absent ELSE work[f]
          /\ index'[f] = IF f \in removed THEN Absent ELSE index[f]
          /\ unmerged' = unmerged \ removed /\ pc' # "addours"
      BY <2>3 DEF Resolves, Stopped, RemoveDeleted
    <3> QED  BY <1>2, <1>3, <2>3, <3>1
  <2> QED  BY <1>1, <2>1, <2>2, <2>3
<1> QED  BY <1>1, <1>5 DEF MergeNew, New, Fresh, TreeOf, Anc, Commits

LEMMA OwnMergeNew ==
    ASSUME "merge" \notin KillAt, SInv, OwnStep
    PROVE  MergeNew'
<1>0. /\ BInv /\ RInv /\ FilesNew /\ MergeNew /\ MergeTime /\ RepoTypeOK
      /\ work \in Tree /\ index \in Tree
  BY BInvTypes DEF SInv, HInv, RepoTypeOK
<1>1. ASSUME merging' = 0 \/ pc' \notin MergeWindow PROVE MergeNew'
  BY <1>1 DEF MergeNew
<1>2. CASE Looks
  <2>1. UNCHANGED <<history, head, tip, work, index, unmerged, merging, remote>>
    BY <1>2 DEF Looks, repoVars, refVars, fileVars, mergeVars
  <2>2. merging # 0 /\ pc' \in MergeWindow => pc \in MergeWindow
    BY <1>0, <1>2 DEF Looks, MergeWindow, TryBlock, MergeTime, AtTheGate
  <2>3. merging # 0 /\ pc' \in TryBlock =>
           \/ pc' = pc /\ UNCHANGED kept
           \/ pc = "list" /\ pc' \in {"ours", "rm"} /\ unmerged # {}
    BY <1>0, <1>2 DEF Looks, MergeWindow, TryBlock, MergeTime, AtTheGate
  <2> QED
    BY <1>0, <2>1, <2>2, <2>3
       DEF MergeNew, New, Fresh, TreeOf, Anc, Commits, MergeWindow, TryBlock
<1>3. CASE Edits
  <2>1. PICK g \in Files, u \in EditTo :
            /\ New(g, u) /\ work' = [work EXCEPT ![g] = u]
            /\ UNCHANGED <<history, head, tip, index, unmerged, merging, remote, kept, pc>>
    BY <1>3 DEF Edits, refVars, mergeVars, Frame, netVars
  <2>2. work' = [f \in Files |-> IF f = g THEN u ELSE work[f]]
    BY <1>0, <2>1 DEF Tree
  <2> QED  BY <1>0, <2>1, <2>2 DEF MergeNew, New, Fresh, TreeOf, Anc, Commits
<1>4. CASE Stages \/ Unstages \/ Aborts \/ Records \/ Concludes \/ Merges \/ Pushes
  <2>1. merging' = 0 \/ pc' \notin MergeWindow
    BY <1>4
       DEF Stages, Unstages, Aborts, Records, Concludes, Merges, Pushes,
           CommitIndex, MergeWindow, TryBlock
  <2> QED  BY <1>1, <2>1
<1> QED
  BY <1>2, <1>3, <1>4, StopsNew, ResolvesNew, SharerDoes DEF Quiet

-----------------------------------------------------------------------------
(* The invariant, whoever acts.                                              *)

LEMMA NewInit ==
    ASSUME Init
    PROVE  SInv
<1> USE UsersAssumption
<1>1. BInv /\ RInv
  BY SharerInit, ResolutionInit
<1>2. /\ Commits = {1, 2} /\ Anc(1) = {1} /\ Anc(2) = {1, 2} /\ TreeOf(1) = BaseTree
      /\ Branch = 1 /\ head = "branch" /\ tip[head] = 1
      /\ remote = 1 /\ merging = 0 /\ unmerged = {} /\ pc = "idle"
      /\ work = BaseTree /\ index = BaseTree
  BY DEF Init, Commits, Anc, TreeOf, Heads, Branch
<1>3. Ordered /\ Sources /\ MeetsAt(1) /\ 1 \in Commits
  BY <1>2 DEF Ordered, Sources, MeetsAt
<1>4. Common /\ MergeTime /\ MergeNew
  BY <1>2 DEF Common, Waiting, MergeTime, MergeNew, TryBlock
<1>5. FilesNew
  BY <1>2 DEF FilesNew, HeadTree
<1> QED  BY <1>1, <1>3, <1>4, <1>5 DEF SInv, HInv, Meeting

LEMMA NewKept ==
    ASSUME "merge" \notin KillAt, "merge" \notin UserGit, SInv, OwnStep
    PROVE  SInv' /\ Brings(EditTo) /\ RevertsNothing
<1>1. BInv /\ RInv /\ TypeOK
  BY BInvTypes DEF SInv, HInv
<1>2. BInv'
  BY <1>1, OwnBranch
<1>3. RInv'
  BY <1>1, OwnIsStep, ResolutionStep
<1>4. Sources' /\ Meeting' /\ Brings(EditTo) /\ RevertsNothing
  BY OwnMeets
<1>5. Ordered'
  BY <1>4 DEF Brings
<1>6. MergeTime' /\ Common' /\ FilesNew' /\ MergeNew'
  BY OwnTimes, OwnCommon, OwnFiles, OwnMergeNew
<1> QED  BY <1>2, <1>3, <1>4, <1>5, <1>6 DEF SInv, HInv

LEMMA NewStays ==
    ASSUME "merge" \notin UserGit, SInv, UNCHANGED vars
    PROVE  SInv' /\ RevertsNothing
<1>1. BInv /\ RInv /\ TypeOK
  BY BInvTypes DEF SInv, HInv
<1>2. BInv' /\ RInv'
  BY <1>1, SharerStays, ResolutionStep
<1>3. UNCHANGED <<history, head, tip, work, index, unmerged, merging, tracking,
                  remote, kept, pc>>
  BY DEF vars, repoVars, refVars, fileVars, mergeVars, netVars, cycleVars
<1>4. Ordered' /\ MergeTime' /\ Common' /\ Sources' /\ Meeting'
  BY <1>3
     DEF SInv, HInv, Ordered, MergeTime, Common, Sources, Meeting, MeetsAt,
         Fresh, Commits, Anc, TreeOf, Branch
<1>5. FilesNew' /\ MergeNew' /\ RevertsNothing
  BY <1>3
     DEF SInv, FilesNew, MergeNew, New, Fresh, HeadTree, Commits, Anc, TreeOf,
         RevertsNothing
<1> QED  BY <1>2, <1>4, <1>5 DEF SInv, HInv

\* What the others bring is theirs or was there: nothing of what is new here
\* gets old.
LEMMA OthersKeepNew ==
    ASSUME SInv, OthersMove, NEW E, E \cap EditTo = {}, Brings(E)
    PROVE  SInv'
<1>0. /\ BInv /\ RInv /\ TypeOK /\ RepoTypeOK /\ MergeTime /\ Common /\ Sources
      /\ Meeting /\ FilesNew /\ MergeNew /\ HistoryClosed
      /\ Branch \in Commits /\ tracking \in Commits /\ remote \in Commits
      /\ merging \in Commits \cup {0} /\ 0 \notin Commits /\ tip[head] \in Commits
      /\ \A c \in Commits : Anc(c) \in SUBSET Commits /\ c \in Anc(c)
  BY BInvTypes DEF SInv, HInv, RepoTypeOK
<1>1. /\ UNCHANGED <<head, tip, work, index, unmerged, merging, merger, tracking,
                     kept, removed, touched, pc>>
      /\ Grows /\ Rooted' /\ Anc(remote) \subseteq Anc(remote)'
      /\ Anc(remote)' \cap Anc(Branch) \subseteq Anc(remote)
  BY DEF OthersMove, SharedMove, OwnVars, fileVars, mergeVars, cycleVars
<1>2. BInv'
  BY <1>0, OthersBranch
<1>3. RInv'
  BY <1>0, <1>1, IndexUntouched
<1>4. Ordered' /\ MergeTime'
  BY <1>0, <1>1 DEF Brings, MergeTime
<1>5. \A c \in Commits : c \in Commits' /\ Anc(c)' = Anc(c) /\ TreeOf(c)' = TreeOf(c)
  BY <1>1, GrowsKeeps
<1>6. /\ Branch' = Branch /\ HeadTree' = HeadTree
      /\ Anc(Branch)' = Anc(Branch) /\ TreeOf(Branch)' = TreeOf(Branch)
      /\ Anc(tracking)' = Anc(tracking)
      /\ merging # 0 => Anc(merging)' = Anc(merging) /\ TreeOf(merging)' = TreeOf(merging)
  BY <1>0, <1>1, <1>5 DEF Branch, HeadTree, Anc, TreeOf
<1>7. Anc(Branch) \cap Anc(remote)' = Anc(Branch) \cap Anc(remote)
  BY <1>1
<1>8. Common'
  BY <1>0, <1>1, <1>6, <1>7 DEF Common
<1>9. Sources'
  <2>1. ASSUME NEW c \in Anc(Branch)', NEW f \in Files
        PROVE  \/ TreeOf(c)'[f] \in EditTo
               \/ \E d \in Anc(remote)' : TreeOf(d)'[f] = TreeOf(c)'[f]
    <3>1. c \in Anc(Branch) /\ TreeOf(c)' = TreeOf(c)
      BY <1>0, <1>5, <1>6
    <3>2. \A d \in Anc(remote) : d \in Anc(remote)' /\ TreeOf(d)' = TreeOf(d)
      BY <1>0, <1>1, <1>5
    <3> QED  BY <1>0, <3>1, <3>2 DEF Sources
  <2> QED  BY <2>1 DEF Sources
<1>10. ASSUME NEW f \in Files, NEW v \in EditTo
       PROVE  /\ New(f, v) => New(f, v)'
              /\ Fresh(f, v) => Fresh(f, v)'
  <2>1. v \notin E
    OBVIOUS
  <2>2. ASSUME NEW c \in Commits', TreeOf(c)'[f] = v PROVE ~New(f, v)
    BY <2>1, <2>2 DEF Brings, New
  <2>3. ASSUME NEW c \in Anc(remote)', TreeOf(c)'[f] = v PROVE ~Fresh(f, v)
    BY <2>1, <2>3 DEF Brings, Fresh
  <2> QED  BY <2>2, <2>3 DEF New, Fresh
<1>11. Meeting'
  <2>1. PICK m \in Commits : MeetsAt(m)
    BY <1>0 DEF Meeting
  <2>2. m \in Commits' /\ Anc(m)' = Anc(m) /\ TreeOf(m)' = TreeOf(m)
    BY <1>5
  <2>3. m \in Anc(Branch)' \cap Anc(remote)' /\ Anc(Branch)' \cap Anc(remote)' \subseteq Anc(m)'
    BY <1>1, <1>6, <1>7, <2>1, <2>2 DEF MeetsAt
  <2>4. ASSUME NEW f \in Files
        PROVE  \/ TreeOf(Branch)'[f] = TreeOf(m)'[f]
               \/ Fresh(f, TreeOf(Branch)[f])'
    <3>1. TreeOf(Branch)[f] = TreeOf(m)[f] \/ Fresh(f, TreeOf(Branch)[f])
      BY <2>1 DEF MeetsAt
    <3> QED  BY <1>6, <1>10, <2>2, <3>1 DEF Fresh
  <2> QED  BY <2>2, <2>3, <2>4 DEF Meeting, MeetsAt
<1>12. FilesNew'
  <2>1. ASSUME NEW f \in Files
        PROVE  /\ New(f, work[f]) => New(f, work[f])'
               /\ New(f, index[f]) => New(f, index[f])'
    BY <1>1, <1>10 DEF New
  <2> QED  BY <1>0, <1>1, <1>6, <2>1 DEF FilesNew
<1>13. MergeNew'
  <2>1. ASSUME NEW f \in Files
        PROVE  /\ New(f, work[f]) => New(f, work[f])'
               /\ Fresh(f, index[f]) => Fresh(f, index[f])'
    BY <1>1, <1>10 DEF New, Fresh
  <2> QED  BY <1>0, <1>1, <1>6, <2>1 DEF MergeNew
<1> QED
  BY <1>2, <1>3, <1>4, <1>8, <1>9, <1>11, <1>12, <1>13 DEF SInv, HInv
====
