----------------------------- MODULE SyncCycle -----------------------------
(* The backup cycle of one git asset, admin/git/sync.py: sync_once and all   *)
(* it calls, one action per git command or file it looks at.  The user and   *)
(* everybody else may act between any two of them (SyncAsset), a command may *)
(* fail or be killed, and the service may be stopped or die.                 *)
EXTENDS GitRepo

CONSTANTS
    FailAt,     \* steps that may fail: git's exit status is not 0, or an
                \* OSError that is looked for
    RaiseAt,    \* steps at which git cannot be started, or its output not read
    KillAt,     \* steps at which the git command, or the service, may be killed
    Budget      \* how many edits, pushes, ... a behaviour may hold

GateSteps == {"lock", "unlink", "marker", "onbranch", "unmerged"}
CommitSteps == {"status", "add", "check", "reset", "commit"}
PullSteps == {"stop1", "fetch", "incoming", "recheck", "merge"}
TryBlock == {"list", "ours", "addours", "rm", "conclude"}
PushSteps == {"stop2", "outgoing", "push"}
Steps == GateSteps \cup CommitSteps \cup PullSteps \cup TryBlock
         \cup {"abort"} \cup PushSteps
GitSteps == Steps \ {"unlink", "marker", "stop1", "stop2"}
PCs == Steps \cup {"idle", "down"}
Kinds == {"index_locked", "operation_in_progress", "wrong_branch",
          "detached_head", "unresolved_conflicts", "conflict_markers",
          "git_failed", "auth_failed", "unexpected"}
Outcomes == Kinds \cup {"none", "changed", "same", "stopped", "killed"}
Spendings == {"edit", "push", "rewrite", "git", "fault", "restart"}

ASSUME StepsAssumption ==
    /\ FailAt \subseteq Steps /\ RaiseAt \subseteq Steps /\ KillAt \subseteq Steps
    /\ Budget \in [Spendings -> Nat]

VARIABLES
    pc,         \* the step of the cycle that runs next
    kept,       \* the conflicted files to keep ...
    removed,    \* ... and to delete, as pull_changes listed them
    changed,    \* committed or merged, the locals of sync_once
    outcome,    \* how the last cycle ended
    stopping,   \* stop_event
    budget,     \* what is left of Budget
    unsaved,    \* ghost: files with uncommitted changes when `git merge' ran
    touched,    \* ghost: files the user edited after `git merge' ran
    openBefore  \* ghost: the user's merge was open before the cycle began

cycleVars == <<kept, removed, changed, unsaved, touched>>
vars == <<repoVars, netVars, lockVars, cycleVars, pc, outcome, stopping,
          budget, openBefore>>

Spend(what) ==
    /\ budget[what] > 0
    /\ budget' = [budget EXCEPT ![what] = @ - 1]

-----------------------------------------------------------------------------
(* The cycle: sync_once, one action per step.                                *)

Goto(step) == pc' = step /\ UNCHANGED outcome
End(result) == pc' = "idle" /\ outcome' = result
\* Mutant of Raise: pull_changes without its `except SyncError'.
RaiseWithoutAbort(step, kind) == End(kind)
\* A SyncError, and no other exception: inside pull_changes' try block the merge is aborted first.
Raise(step, kind) ==
    IF step \in TryBlock THEN Goto("abort") ELSE End(kind)

StepFrame == UNCHANGED <<lockVars, stopping, budget, openBefore>>
ReadOnly == UNCHANGED <<repoVars, netVars, cycleVars>> /\ StepFrame

\* The scheduler starts a cycle; stop_event ends its loop instead.
StartCycle ==
    /\ pc = "idle" /\ ~stopping
    /\ pc' = "lock" /\ outcome' = "none"
    /\ changed' = FALSE /\ kept' = {} /\ removed' = {}
    /\ openBefore' = (merger = "user")
    /\ UNCHANGED <<repoVars, netVars, lockVars, unsaved, touched, stopping, budget>>

\* Mutant of CheckLock: every lock is taken for a stale one.
CheckLockAnyAge ==
    /\ pc = "lock"
    /\ IF lock = "free" THEN Goto("marker") ELSE Goto("unlink")
    /\ ReadOnly

\* _git_dir asks git where the repository is, and _ensure_index_unlocked looks
\* at its index.lock: a recent lock ends the cycle, an old one is removed.
CheckLock ==
    /\ pc = "lock"
    /\ IF lock = "free" THEN Goto("marker")
       ELSE IF lockOld THEN Goto("unlink")
       ELSE End("index_locked")
    /\ ReadOnly

RemoveStaleLock ==
    /\ pc = "unlink"
    /\ lock' = "free" /\ lockOld' = FALSE
    /\ Goto("marker")
    /\ UNCHANGED <<repoVars, netVars, cycleVars, stopping, budget, openBefore>>

\* Mutant of CheckMarker: the gate asks only for unmerged files.
SkipMarker == pc = "marker" /\ Goto("onbranch") /\ ReadOnly

\* _operation_in_progress.
CheckMarker ==
    /\ pc = "marker"
    /\ IF merging = 0 THEN Goto("onbranch") ELSE End("operation_in_progress")
    /\ ReadOnly

\* Mutant of EnsureOnBranch: a kind of failure that SyncErrorKind does not have.
EnsureOnSomeBranch(next) ==
    CASE head = "branch" -> Goto(next)
      [] head = "side"   -> End("wrong_branch")
      [] OTHER           -> End("no_branch")

\* _ensure_on_branch, in the gate and again after the fetch.
EnsureOnBranch(next) ==
    CASE head = "branch"   -> Goto(next)
      [] head = "side"     -> End("wrong_branch")
      [] head = "detached" -> End("detached_head")

CheckBranch == pc = "onbranch" /\ EnsureOnBranch("unmerged") /\ ReadOnly

CheckUnmerged ==
    /\ pc = "unmerged"
    /\ IF unmerged = {} THEN Goto("status") ELSE End("unresolved_conflicts")
    /\ ReadOnly

CheckStatus ==
    /\ pc = "status"
    /\ IF Changes THEN Goto("add") ELSE Goto("stop1")
    /\ ReadOnly

AddAll ==
    /\ pc = "add"
    /\ \/ StageAll /\ Goto("check")
       \/ lock # "free" /\ UNCHANGED repoVars /\ Raise("add", "git_failed")
    /\ UNCHANGED <<netVars, cycleVars>> /\ StepFrame

\* Mutant of NewlyMarked: `git diff --check' without `--cached'.
UnstagedMarked == {f \in Files : work[f] = Marked /\ index[f] # Marked}

\* _staged_conflict_markers: only what the commit would add is inspected.
NewlyMarked == {f \in Files : index[f] = Marked /\ HeadTree[f] # Marked}
CheckStaged ==
    /\ pc = "check"
    /\ IF NewlyMarked = {} THEN Goto("commit") ELSE Goto("reset")
    /\ ReadOnly

\* check=False: the refusal is raised whether or not the reset works.
ResetIndex ==
    /\ pc = "reset"
    /\ Unstage \/ (lock # "free" /\ UNCHANGED repoVars)
    /\ Raise("reset", "conflict_markers")
    /\ UNCHANGED <<netVars, cycleVars>> /\ StepFrame

CommitChanges ==
    /\ pc = "commit"
    /\ \/ CommitIndex("backup") /\ changed' = TRUE /\ Goto("stop1")
       \/ /\ ~CanCommit /\ UNCHANGED <<repoVars, changed>>
          /\ Raise("commit", "git_failed")
    /\ UNCHANGED <<netVars, kept, removed, unsaved, touched>>
    /\ StepFrame

\* Mutant of StopIfRequested: stop_event is not looked at.
GoOn(step, next) == pc = step /\ Goto(next) /\ ReadOnly

\* _stop_if_requested, before pull and before push: SyncStopped ends the
\* scheduler's loop, and the service with it.
StopIfRequested(step, next) ==
    /\ pc = step
    /\ IF stopping THEN pc' = "down" /\ outcome' = "stopped" ELSE Goto(next)
    /\ ReadOnly

\* Mutant of Fetch: the refspec without its leading `+'.
FetchUnforced ==
    /\ pc = "fetch"
    /\ IF tracking \in Anc(remote)
       THEN tracking' = remote /\ Goto("incoming")
       ELSE tracking' = tracking /\ Raise("fetch", "git_failed")
    /\ UNCHANGED <<repoVars, remote, cycleVars>> /\ StepFrame

Fetch ==
    /\ pc = "fetch"
    /\ tracking' = remote
    /\ Goto("incoming")
    /\ UNCHANGED <<repoVars, remote, cycleVars>> /\ StepFrame

\* HEAD..origin/<branch> and origin/<branch>..refs/heads/<branch>.
Incoming == Anc(tracking) \ Anc(tip[head])
Outgoing == Anc(tip["branch"]) \ Anc(tracking)

CountIncoming ==
    /\ pc = "incoming"
    /\ IF Incoming = {} THEN Goto("stop2") ELSE Goto("recheck")
    /\ ReadOnly

RecheckBranch == pc = "recheck" /\ EnsureOnBranch("merge") /\ ReadOnly

\* `git merge origin/<branch>', check=False.  pull_changes returns [] for a
\* merge without conflicts, so sync_once does not count it as a change.
MergeRemote ==
    /\ pc = "merge"
    /\ \/ UpToDate(tracking) /\ ~MergeRefused(tracking)
          /\ UNCHANGED repoVars /\ Goto("stop2")
       \/ MergeClean(tracking, "backup") /\ Goto("stop2")
       \/ /\ MergeStops(tracking, "backup") /\ MergeConflicts(tracking) # {}
          /\ Goto("list")
       \/ MergeFindsLock(tracking, "backup") /\ Goto("list")
       \/ /\ \/ MergeRefused(tracking)
             \/ /\ lock # "free" /\ ~UpToDate(tracking)
                /\ \/ CanFastForward(tracking)
                   \/ \E f \in Files : index[f] # Absent /\ work[f] # index[f]
          /\ UNCHANGED repoVars /\ Goto("list")
    /\ unsaved' = {f \in Files : work[f] # index[f]} /\ touched' = {}
    /\ UNCHANGED <<netVars, kept, removed, changed>> /\ StepFrame

\* _local_side_of_conflicts, and the merge that failed without a conflict.
ListConflicts ==
    /\ pc = "list"
    /\ kept' = {f \in unmerged : index[f] # Absent}
    /\ removed' = {f \in unmerged : index[f] = Absent}
    /\ CASE kept' # {}     -> Goto("ours")
         [] kept' = {} /\ removed' # {} -> Goto("rm")
         [] kept' = {} /\ removed' = {} -> Goto("abort")
    /\ UNCHANGED <<repoVars, netVars, changed, unsaved, touched>>
    /\ StepFrame

\* _take_local_side.
TakeOurs ==
    /\ pc = "ours"
    /\ \/ CheckoutOurs(kept) /\ Goto("addours")
       \/ /\ lock # "free" \/ \E f \in kept : index[f] = Absent
          /\ UNCHANGED repoVars /\ Raise("ours", "git_failed")
    /\ UNCHANGED <<netVars, cycleVars>> /\ StepFrame

StageOurs ==
    /\ pc = "addours"
    /\ \/ AddKept(kept) /\ Goto(IF removed = {} THEN "conclude" ELSE "rm")
       \/ lock # "free" /\ UNCHANGED repoVars /\ Raise("addours", "git_failed")
    /\ UNCHANGED <<netVars, cycleVars>> /\ StepFrame

KeepDeletions ==
    /\ pc = "rm"
    /\ \/ RemoveDeleted(removed) /\ Goto("conclude")
       \/ /\ lock # "free" \/ ~(removed \subseteq unmerged)
          /\ UNCHANGED repoVars /\ Raise("rm", "git_failed")
    /\ UNCHANGED <<netVars, cycleVars>> /\ StepFrame

\* `git commit --no-edit' has a message only while a merge is in progress.
ConcludeMerge ==
    /\ pc = "conclude"
    /\ \/ /\ merging # 0 /\ CommitIndex("backup")
          /\ changed' = TRUE /\ Goto("stop2")
       \/ /\ merging = 0 \/ ~CanCommit
          /\ UNCHANGED <<repoVars, changed>> /\ Raise("conclude", "git_failed")
    /\ UNCHANGED <<netVars, kept, removed, unsaved, touched>>
    /\ StepFrame

\* check=False: the first error is the one that is raised.
Abort ==
    /\ pc = "abort"
    /\ AbortMerge \/ (~CanAbort /\ UNCHANGED repoVars)
    /\ End("git_failed")
    /\ UNCHANGED <<netVars, cycleVars>> /\ StepFrame

Result(did) == IF did THEN "changed" ELSE "same"

\* Mutant of CountOutgoing: only a cycle that committed something pushes.
PushIfChanged ==
    /\ pc = "outgoing"
    /\ IF changed THEN Goto("push") ELSE End("same")
    /\ ReadOnly

CountOutgoing ==
    /\ pc = "outgoing"
    /\ IF Outgoing = {} THEN End(Result(changed)) ELSE Goto("push")
    /\ ReadOnly

\* A push that lost the race against a colleague's is retried next cycle.
Push ==
    /\ pc = "push"
    /\ \/ Publish /\ tracking' = tip["branch"] /\ End(Result(TRUE))
       \/ /\ ~PushAccepted /\ UNCHANGED <<repoVars, netVars>>
          /\ Raise("push", "git_failed")
    /\ UNCHANGED cycleVars /\ StepFrame

-----------------------------------------------------------------------------
(* Failures, kills, stop and restart.                                        *)

\* A git command exits with an error and has done nothing.  The merge and the
\* two commands run with check=False go on as their callers do, a lock that
\* cannot be deleted is no failure of git's, and the remote may have refused
\* the token.
CommandFails ==
    /\ pc \in FailAt /\ Spend("fault")
    /\ \/ pc = "merge" /\ Goto("list")
       \/ pc = "reset" /\ End("conflict_markers")
       \/ pc = "unlink" /\ End("index_locked")
       \/ pc \in {"fetch", "push"} /\ End("auth_failed")
       \/ pc \in GitSteps \ {"merge", "reset"} /\ Raise(pc, "git_failed")
    /\ UNCHANGED <<repoVars, netVars, lockVars, cycleVars, stopping, openBefore>>

\* What the command of a step does when it comes to its end.
Done(step) ==
    \/ /\ UNCHANGED netVars
       /\ \/ step = "add" /\ StageAll
          \/ step = "reset" /\ Unstage
          \/ step = "commit" /\ CommitIndex("backup")
          \/ step = "conclude" /\ merging # 0 /\ CommitIndex("backup")
          \/ step = "merge" /\ MergeClean(tracking, "backup")
          \/ /\ step = "merge" /\ MergeConflicts(tracking) # {}
             /\ MergeStops(tracking, "backup")
          \/ step = "merge" /\ MergeFindsLock(tracking, "backup")
          \/ step = "ours" /\ CheckoutOurs(kept)
          \/ step = "addours" /\ AddKept(kept)
          \/ step = "rm" /\ RemoveDeleted(removed)
          \/ step = "abort" /\ AbortMerge
    \/ step = "fetch" /\ tracking' = remote /\ UNCHANGED <<repoVars, remote>>
    \/ step = "push" /\ Publish /\ tracking' = tip["branch"]

\* What the command that is killed at a step may have done by then.
DoneByThen(step) ==
    \/ UNCHANGED <<repoVars, netVars>>
    \/ Done(step)
    \/ step = "merge" /\ MergeStops(tracking, "backup") /\ UNCHANGED netVars
    \/ /\ step = "merge" /\ lock = "free" /\ ~MergeRefused(tracking)
       /\ ~UpToDate(tracking)   \* files and index written, no more
       /\ MergeFiles(tracking) /\ UNCHANGED <<refVars, mergeVars, netVars>>
    \/ step = "push" /\ Publish /\ UNCHANGED tracking

\* A killed command that writes the index may leave its index.lock behind.
IndexWriters ==
    {"add", "reset", "commit", "merge", "abort"} \cup (TryBlock \ {"list"})
LockAfterKill ==
    \/ UNCHANGED lockVars
    \/ /\ pc \in IndexWriters /\ lock = "free"
       /\ lock' = "stale" /\ lockOld' = FALSE

MergeGhosts ==
    IF pc = "merge"
    THEN unsaved' = {f \in Files : work[f] # index[f]} /\ touched' = {}
    ELSE UNCHANGED <<unsaved, touched>>

\* The command cannot be started (OSError) or what it printed is not UTF-8
\* (UnicodeDecodeError), as a file's name may be.  _execute makes no SyncError
\* of either: it goes past every handler of the cycle, the abort of a merge
\* included, and only the scheduler catches it.
CommandRaises ==
    /\ pc \in RaiseAt \cap GitSteps /\ Spend("fault")
    /\ UNCHANGED <<repoVars, netVars>> \/ Done(pc)
    /\ MergeGhosts
    /\ End("unexpected")
    /\ UNCHANGED <<lockVars, kept, removed, changed, stopping, openBefore>>

\* run_git gives up on the command: GitTimeoutError, which is a SyncError
\* whatever check is.
CommandTimesOut ==
    /\ pc \in KillAt \cap GitSteps /\ Spend("fault")
    /\ DoneByThen(pc) /\ LockAfterKill /\ MergeGhosts
    /\ Raise(pc, "git_failed")
    /\ UNCHANGED <<kept, removed, changed, stopping, openBefore>>

\* The container goes away in the middle of the command.
Crash ==
    /\ pc \in KillAt /\ Spend("fault")
    /\ DoneByThen(pc) /\ LockAfterKill /\ MergeGhosts
    /\ pc' = "down" /\ outcome' = "killed" /\ stopping' = TRUE
    /\ UNCHANGED <<kept, removed, changed, openBefore>>

RequestStop ==
    /\ ~stopping /\ Spend("restart")
    /\ stopping' = TRUE
    /\ UNCHANGED <<repoVars, netVars, lockVars, cycleVars, pc, outcome, openBefore>>

LoopEnds ==
    /\ pc = "idle" /\ stopping
    /\ Goto("down")
    /\ ReadOnly

Restart ==
    /\ pc = "down"
    /\ pc' = "idle" /\ outcome' = "none" /\ stopping' = FALSE
    /\ UNCHANGED <<repoVars, netVars, lockVars, cycleVars, budget, openBefore>>

LockAges ==
    /\ lock = "stale" /\ ~lockOld
    /\ lockOld' = TRUE
    /\ UNCHANGED <<repoVars, netVars, lock, cycleVars, pc, outcome, stopping,
                   budget, openBefore>>

-----------------------------------------------------------------------------
CycleTypeOK ==
    /\ pc \in PCs /\ kept \in SUBSET Files /\ removed \in SUBSET Files
    /\ changed \in BOOLEAN /\ outcome \in Outcomes /\ stopping \in BOOLEAN
    /\ budget \in [Spendings -> Nat]
    /\ unsaved \in SUBSET Files /\ touched \in SUBSET Files
    /\ openBefore \in BOOLEAN

====
