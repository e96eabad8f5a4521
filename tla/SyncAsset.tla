----------------------------- MODULE SyncAsset -----------------------------
(* One git asset of a workspace: the backup cycle of SyncCycle together with *)
(* the user, who works on the same working tree at any time, and a colleague *)
(* who pushes to the same branch of the remote; and what must hold of them.  *)
EXTENDS SyncCycle

CONSTANTS
    BaseTree,   \* what was cloned
    SideTree,   \* the tip of a local branch of the user's, forked at the clone
    EditTo,     \* what the user may save in a file
    PushTo,     \* what the colleague may push in a file
    UserGit     \* which git operations of his own the user may use

ASSUME UsersAssumption ==
    /\ BaseTree \in Tree /\ SideTree \in Tree
    /\ EditTo \subseteq Versions /\ PushTo \subseteq Versions
    /\ UserGit \subseteq {"merge", "switch", "commit", "lock"}

-----------------------------------------------------------------------------
(* The user and the colleague.                                               *)

EnvFrame == UNCHANGED <<netVars, pc, outcome, stopping>>
Untouched == UNCHANGED <<kept, removed, changed, unsaved>>

\* The steps between `git merge' and the end of its resolution.
MergeWindow == TryBlock \cup {"abort"}

UserEdits(f, v) ==
    /\ Spend("edit") /\ work[f] # v
    /\ work' = [work EXCEPT ![f] = v]
    /\ touched' = IF pc \in MergeWindow THEN touched \cup {f} ELSE touched
    /\ UNCHANGED <<refVars, mergeVars, index, unmerged, lockVars, openBefore>>
    /\ Untouched /\ EnvFrame

\* A git operation of the user's, which no other git process may be in.
UserRuns(operation) ==
    /\ operation \in UserGit /\ Spend("git") /\ lock = "free"
    /\ Untouched /\ EnvFrame /\ UNCHANGED <<lockVars, touched>>

\* `git merge --no-commit side', or a merge that stopped on a conflict.
UserStartsMerge ==
    /\ UserRuns("merge")
    /\ head = "branch" /\ MergeStops(tip["side"], "user")
    /\ openBefore' = FALSE

\* The user resolves a file as he likes and stages it.
UserResolves(f, v) ==
    /\ merger = "user" /\ f \in unmerged
    /\ lock = "free" /\ v \in EditTo \cup {HeadTree[f], TreeOf(merging)[f]}
    /\ work' = [work EXCEPT ![f] = v] /\ index' = [index EXCEPT ![f] = v]
    /\ unmerged' = unmerged \ {f}
    /\ UNCHANGED <<refVars, mergeVars, lockVars, budget, touched, openBefore>>
    /\ Untouched /\ EnvFrame

UserConcludes ==
    /\ merger = "user" /\ CommitIndex("user")
    /\ openBefore' = FALSE
    /\ UNCHANGED <<lockVars, budget, touched>> /\ Untouched /\ EnvFrame

UserAborts ==
    /\ merger = "user" /\ AbortMerge
    /\ openBefore' = FALSE
    /\ UNCHANGED <<lockVars, budget, touched>> /\ Untouched /\ EnvFrame

\* `git commit -a'.
UserCommits ==
    /\ UserRuns("commit")
    /\ merging = 0 /\ unmerged = {} /\ work # HeadTree
    /\ index' = work
    /\ Record({tip[head]}, work, "user")
    /\ tip' = [tip EXCEPT ![head] = NextId]
    /\ UNCHANGED <<head, work, unmerged, mergeVars, openBefore>>

\* `git checkout': uncommitted changes are carried over where both heads
\* agree on the file, and refused elsewhere.
UserSwitches(to) ==
    LET at == IF to = "detached" THEN tip[head] ELSE tip[to]
        dirty == {f \in Files : work[f] # HeadTree[f] \/ index[f] # HeadTree[f]}
    IN  /\ UserRuns("switch")
        /\ head # to /\ merging = 0 /\ unmerged = {}
        /\ \A f \in dirty : TreeOf(at)[f] = HeadTree[f]
        /\ head' = to /\ tip' = [tip EXCEPT ![to] = at]
        /\ work' = [f \in Files |-> IF f \in dirty THEN work[f] ELSE TreeOf(at)[f]]
        /\ index' = [f \in Files |-> IF f \in dirty THEN index[f] ELSE TreeOf(at)[f]]
        /\ UNCHANGED <<history, unmerged, mergeVars, openBefore>>

\* A git command of the user's that holds the index for a while, such as the
\* `git add' of a large file or a commit whose editor is open.
UserTakesLock ==
    /\ "lock" \in UserGit /\ Spend("git") /\ lock = "free"
    /\ lock' = "user"
    /\ UNCHANGED <<repoVars, lockOld, cycleVars, openBefore>> /\ EnvFrame

UserFreesLock ==
    /\ lock = "user"
    /\ lock' = "free" /\ lockOld' = FALSE
    /\ UNCHANGED <<repoVars, cycleVars, budget, openBefore>> /\ EnvFrame

\* That command is killed and leaves its lock behind.
UserDiesWithLock ==
    /\ lock = "user"
    /\ lock' = "stale"
    /\ UNCHANGED <<repoVars, lockOld, cycleVars, budget, openBefore>> /\ EnvFrame

ColleagueFrame ==
    UNCHANGED <<head, tip, fileVars, mergeVars, lockVars, tracking, cycleVars,
                pc, outcome, stopping, openBefore>>

\* What he pushes, commits of his or a merge, may change several files.
ColleaguePushes(t) ==
    /\ Spend("push") /\ t # TreeOf(remote)
    /\ \A f \in Files : t[f] \in PushTo \cup {TreeOf(remote)[f]}
    /\ Record({remote}, t, "colleague")
    /\ remote' = NextId
    /\ ColleagueFrame

\* A force-push: the remote's last commit is replaced.
ColleagueRewrites(f, v) ==
    \E p \in history[remote].parents :
        /\ Spend("rewrite") /\ TreeOf(p)[f] # v
        /\ Record({p}, [TreeOf(p) EXCEPT ![f] = v], "colleague")
        /\ remote' = NextId
        /\ ColleagueFrame

-----------------------------------------------------------------------------
Init ==
    /\ history = <<[anc |-> {1}, parents |-> {}, tree |-> BaseTree, by |-> "clone"],
                   [anc |-> {1, 2}, parents |-> {1}, tree |-> SideTree, by |-> "user"]>>
    /\ head = "branch"
    /\ tip = [h \in Heads |-> IF h = "side" THEN 2 ELSE 1]
    /\ work = BaseTree /\ index = BaseTree /\ unmerged = {}
    /\ merging = 0 /\ merger = "none"
    /\ tracking = 1 /\ remote = 1
    /\ lock = "free" /\ lockOld = FALSE
    /\ pc = "idle" /\ kept = {} /\ removed = {} /\ changed = FALSE
    /\ outcome = "none" /\ stopping = FALSE /\ budget = Budget
    /\ unsaved = {} /\ touched = {} /\ openBefore = FALSE

CycleStep ==
    \/ CheckLock \/ RemoveStaleLock \/ CheckMarker \/ CheckBranch
    \/ CheckUnmerged \/ CheckStatus \/ AddAll \/ CheckStaged \/ ResetIndex
    \/ CommitChanges
    \/ StopIfRequested("stop1", "fetch") \/ StopIfRequested("stop2", "outgoing")
    \/ Fetch \/ CountIncoming \/ RecheckBranch \/ MergeRemote
    \/ ListConflicts \/ TakeOurs \/ StageOurs \/ KeepDeletions
    \/ ConcludeMerge \/ Abort
    \/ CountOutgoing \/ Push

Service == StartCycle \/ CycleStep \/ LoopEnds \/ Restart

UserStep ==
    \/ \E f \in Files, v \in EditTo : UserEdits(f, v)
    \/ UserStartsMerge \/ UserConcludes \/ UserAborts \/ UserCommits
    \/ \E f \in Files, v \in Versions : UserResolves(f, v)
    \/ \E to \in Heads : UserSwitches(to)
    \/ UserTakesLock \/ UserFreesLock \/ UserDiesWithLock

ColleagueStep ==
    \/ \E t \in Tree : ColleaguePushes(t)
    \/ \E f \in Files, v \in PushTo : ColleagueRewrites(f, v)

FaultStep ==
    \/ CommandFails \/ CommandRaises \/ CommandTimesOut \/ Crash
    \/ RequestStop \/ LockAges

Next == Service \/ UserStep \/ ColleagueStep \/ FaultStep

Spec == Init /\ [][Next]_vars

(* The scheduler runs a cycle every interval and the service is restarted    *)
(* with its container, so the service's own steps are weakly fair; a lock    *)
(* left behind grows old with the clock and the user's command ends.  No     *)
(* edit, push or failure is fair.                                            *)
Fairness ==
    /\ WF_vars(Service) /\ WF_vars(LockAges) /\ WF_vars(UserFreesLock)

FairSpec == Spec /\ Fairness

-----------------------------------------------------------------------------
(* Properties.                                                               *)

(* Every variable has its type: refs name commits that exist, MERGE_HEAD     *)
(* names one or is absent, and pc is a step of sync_once.                    *)
TypeOK == RepoTypeOK /\ NetTypeOK /\ CycleTypeOK

(* Ancestor sets are closed: the history of a commit holds the commit, its   *)
(* parents and the history of everything in it.                              *)
HistoryClosed ==
    \A c \in Commits : /\ c \in Anc(c) /\ history[c].parents \subseteq Anc(c)
                       /\ \A d \in Anc(c) : Anc(d) \subseteq Anc(c)

(* A commit of the remote is in the workspace, on any branch or in a merge   *)
(* in progress, only if pull_changes fetched it or push_if_ahead published   *)
(* it from there, whichever branch the user was on in between.               *)
NothingUnfetched ==
    \A c \in {tip[h] : h \in Heads} \cup ({merging} \ {0}) :
        Anc(c) \cap Anc(remote) \subseteq Anc(tracking) \cup Anc(tip["branch"])

\* Every step of the service moves its program counter; nobody else's does.
BackupStep == pc' # pc

(* What the colleague pushed is never lost: whatever the backup does, every  *)
(* commit the remote's branch holds stays in its history.  _push_refspec is  *)
(* not forced, and a push that lost a race is refused and merged next cycle. *)
PublishedHistoryKept ==
    [][BackupStep => Anc(remote) \subseteq history'[remote'].anc]_vars

(* Local files win, whole file: in the merge commit that ends a conflict     *)
(* every file is the local version where both sides changed it, and the      *)
(* three-way result elsewhere - whatever else happened between `git merge'   *)
(* and `git commit --no-edit', unless the user edited that very file.        *)
LocalSideWins ==
    [][(BackupStep /\ pc = "conclude" /\ tip' # tip) =>
         LET ours == HeadTree
             theirs == TreeOf(merging)
             base == TreeOf(MergeBase(tip[head], merging))
         IN  \A f \in Files \ touched :
               history'[tip'[head]].tree[f] =
                 IF f \in ConflictsOf(base, ours, theirs) THEN ours[f]
                 ELSE ThreeWay(base, ours, theirs)[f]]_vars

(* The backup leaves no merge of its own behind: when a cycle that started   *)
(* one ends, it was concluded or aborted, whichever one command of the       *)
(* resolution failed.  A file the user edits after `git merge' can make the  *)
(* abort itself fail, and an exception that is no SyncError goes past it.    *)
OwnMergeEnded ==
    [][(pc \in {"merge"} \cup MergeWindow /\ pc' \in {"idle", "down"}) =>
         \/ merger' # "backup" \/ touched' # {} \/ outcome' = "unexpected"]_vars

(* The backup adds no conflict markers to the history: a marked file in a    *)
(* commit it makes was already marked in a commit it builds on, whenever the *)
(* user saved, staged or reverted it.  The one gap is the merge commit: a    *)
(* file edited while its conflict is resolved is not inspected again.        *)
NoMarkersCommitted ==
    [][(BackupStep /\ history' # history) =>
         LET new == history'[NextId]
         IN  \A f \in Files : new.tree[f] = Marked =>
               \/ \E p \in new.parents : TreeOf(p)[f] = Marked
               \/ pc = "conclude" /\ f \in touched]_vars

(* A merge the user had open when the cycle began is left alone for the      *)
(* whole cycle: nothing of it is committed, staged, aborted or published.    *)
OpenMergeWaits ==
    [][(BackupStep /\ openBefore) => UNCHANGED <<repoVars, remote>>]_vars

(* The backup removes no index.lock a running git process holds.             *)
LiveLockKept == [][(BackupStep /\ lock = "user") => lock' = "user"]_vars

(* The cycle, with everything that happens around it, implements two         *)
(* replicas of one history: no commit is dropped from the workspace's        *)
(* branch, and the remote's is replaced only by one that contains it.        *)
Replicas == INSTANCE ReplicatedHistory WITH
    ours <- Anc(tip["branch"]), theirs <- Anc(remote), known <- Anc(tracking)
ReplicatesHistory == Replicas!Spec

(* To the scheduler the cycle is the one CyclePhases describes: it succeeds  *)
(* only after its third phase, is cut short only between two of them, and    *)
(* leaves nothing to record then.                                            *)
CommitPhase == GateSteps \cup CommitSteps \cup {"stop1"}
PullPhase == (PullSteps \ {"stop1"}) \cup MergeWindow \cup {"stop2"}
PushPhase == PushSteps \ {"stop2"}
PhaseOf == IF pc \in CommitPhase THEN "commit" ELSE IF pc \in PullPhase THEN "pull"
           ELSE IF pc \in PushPhase THEN "push" ELSE IF pc = "idle" THEN "idle"
           ELSE "off"
ResultOf ==
    IF pc # "idle" \/ outcome \in {"none", "stopped", "killed"} THEN "none"
    ELSE IF outcome \in {"changed", "same"} THEN "ok" ELSE "failed"
Cycle == INSTANCE CyclePhases WITH
    phase <- PhaseOf, stop <- stopping /\ PhaseOf # "off", result <- ResultOf
FollowsPhases == Cycle!Spec

(* Claims of the documentation that the code does not keep.                  *)

(* DOCUMENTATION.md: "our own code never leaves a merge behind".             *)
NoMergeLeftBehind == pc = "idle" => merger # "backup"

(* DOCUMENTATION.md: of two sides that changed a file the backup "keeps the  *)
(* workspace's side": pulling changes no file that held uncommitted changes  *)
(* when `git merge' started.                                                 *)
UncommittedEditsKept ==
    [][/\ pc = "merge" /\ BackupStep =>
            \A f \in Files : work[f] # index[f] => work'[f] = work[f]
       /\ pc \in MergeWindow /\ BackupStep =>
            \A f \in unsaved \ touched : work'[f] = work[f]]_vars

(* Once the user stops editing and no file of his holds conflict markers,    *)
(* the remote ends up with the user's files and the workspace with the       *)
(* colleague's commits, for good - after failed commands, refused commits,   *)
(* lost answers, crashes, stale locks, restarts and a force-push.            *)
EventuallyInSync ==
    \/ <>[](work = TreeOf(remote) /\ tip["branch"] = remote)
    \/ <>[](\E f \in Files : work[f] = Marked)
====
