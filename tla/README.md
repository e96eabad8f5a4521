# Workspace backup in TLA+

The repository builds a digital-twin workspace container. The part of it with
logic of its own is `workspaces/src/admin`: a service that clones up to two git
repositories ("assets", `private` and `common`) into the user's workspace and
then, every few minutes, commits what the user changed, merges the remote in
and pushes. Nobody runs it by hand, nobody watches it, and it works on the same
working tree as the user. Around it there is a shell script that keeps the
container's services running. This directory holds the models of both, what TLC
checks of them and what TLAPS proves.

All source paths below are relative to `src/workspaces/src/`; `sync.py`,
`scheduler.py` and the like are in `admin/src/admin/git/`.

## The system

| Component | State | Operations | Interacts with | What makes it correct |
| --- | --- | --- | --- | --- |
| Backup cycle (`sync.py`) | none of its own between cycles; locals of `sync_once` and `pull_changes` | the gate (`_ensure_safe_to_sync`), `commit_local_changes`, `pull_changes`, `push_if_ahead` | git, through about twenty kinds of command; the files `index.lock` and `MERGE_HEAD` and its kin, which it looks at itself | published commits stay; local files win; nothing half done is committed; a user at work is left alone; workspaces and remote agree in the end |
| git (external) | refs, index, working tree, `MERGE_HEAD`, `index.lock`, remote-tracking ref, remote branch | each command the cycle issues | cycle, user, colleague, other workspaces | - |
| Command runner (`runner.py`) | one process group per command | `run_git`, `_stop`, `_signal_group` | git, its helpers, the process table | a call ends, git with it, and no signal goes elsewhere |
| Scheduler (`scheduler.py`) | its thread, `stop_event` | `_sync_loop`, `sync_all` | cycle, status | every asset is served, whatever the others do |
| Bootstrap (`bootstrap.py`, `clone.py`, `provision.py`) | its thread; git directories; `config.toml` | provision, clone, start scheduling, stop | scheduler, status, `config.toml` | assets are independent; a stop ends all threads; a clone is not disturbed by the next one |
| Status (`status.py`) | `enabled`, per asset the times of attempt, success and error | `enable`, `record_*`, `snapshot` | written by scheduler, read by the HTTP API | it tells how the last cycle ended |
| Config (`config.py`, `--sync-interval` in `main.py`) | none | `load_config`, `load_sync_interval` | read three times by bootstrap | what it accepts can be backed up; what it names the user can mend |
| HTTP API and command line (`api.py`, `main.py`) | none | read-only routes, start, shutdown | status, bootstrap | - |
| Supervisor (`startup/custom_startup.sh`, and the keepalive loop of the base image, `install/kasm_fixes.sh`) | pids, `RESTART_QUEUE` | start, monitor loop, restart, `cleanup` | all services of the container | a dead service comes back, a living one is not doubled, what one script leaves behind does not keep the next one's services down |
| Set-up (`configure_nginx.py`, `dtaas_shim.sh`, install scripts) | none | straight-line set-up | - | - |

What is hard here:

* **Interleaving.** Every git command of the cycle is a separate process, and
  between any two of them the user may save, delete, stage, commit, merge,
  switch branches or hold `index.lock`. The fetch alone can take minutes.
  Everything the cycle has found out by then is stale.
* **Competition.** A colleague pushes, or force-pushes, to the same branch; or
  a second workspace backs up to it, resolving every conflict in its own favour.
* **Failure.** Any command fails, runs out of time and is killed, or goes away
  with its container, leaving its lock, half a merge, or a push whose answer is
  lost. The next cycle has to cope with what it finds.
* **Processes.** git starts helpers that ignore signals, leave its group or hold
  its output; process ids are given out again; git outlives a service that dies.
* **Stopping.** Three threads wait for one another, one event ends them, and
  the main thread waits for a limited time only.
* **Re-reading.** `config.toml` is read three times by one start, and the clones
  on disk remember what it said when they were made.
* **Time.** The status goes by the time of day, in whole seconds.

`PROJECT.json` lists each hazard at its line, with the properties that would
show it going wrong.

## The modules

```
ReplicatedHistory        what the backup of one asset promises about commits
CyclePhases              what a cycle is to the scheduler
      ^ refinement of both
SyncAsset                cycle + user + colleague + faults; the properties
  EXTENDS SyncCycle      sync_once, one action per command; fail, kill, stop
    EXTENDS GitRepo      git: state and commands
SharedRemote             two SyncAssets over one branch of one remote

BackupService            bootstrap, clone, scheduler, status, process
      v refinement
CyclePhases

RunGit                   run_git, processes and process ids
Supervisor               custom_startup.sh and the keepalive loop
ConfigRules              load_config, the interval, and a user who mends

SyncAssetProofs          published history, refinements, locks, open merges
ResolutionProofs         what the backup commits; how its own merges end
SharerProofs             one workspace beside somebody who merges too
SharedRemoteProofs       two of those on one branch
BackupServiceProofs, RunGitProofs, SupervisorProofs, ConfigRulesProofs

MCSyncAsset, MCSharedRemote, MCBackupService, MCConfigRules   instances for TLC
```

**GitRepo** is git as the cycle uses it, an external program. A commit is a
number with its set of ancestors, its parents and its tree; `tip` maps the
three things `HEAD` may name (the configured branch, another branch of the
user's, nothing) to commits. The index holds stage 2 for an unmerged file. Each
operator is a command with its own conditions for being refused: `MergeRefused`
(over uncommitted changes or an open merge), `CanAbort`, `PushAccepted` and so
on. `MergeFindsLock` is what git really does to a merge while somebody holds
`index.lock`: it sets `MERGE_HEAD`, then fails. How each command behaves was
observed on git itself.

**SyncCycle** is `sync_once` with all it calls. `pc` is the command or look at
a file that comes next: the gate (`lock`, `unlink`, `marker`, `onbranch`,
`unmerged`), the commit (`status`, `add`, `check`, `reset`, `commit`), the pull
(`stop1`, `fetch`, `incoming`, `recheck`, `merge`), the `try` block around the
resolution of a conflict (`list`, `ours`, `addours`, `rm`, `conclude`), its
`except` (`abort`), and the push (`stop2`, `outgoing`, `push`). A command that
does not do its work ends in one of two ways. `Raise` is a `SyncError`, which is
what `_execute` makes of an exit status and of a time-out: inside the `try` block
it goes through the abort, and `check=False` calls go on as their callers do.
`CommandRaises` is everything else, an `OSError` from starting git or a
`UnicodeDecodeError` from what it printed: it passes `except SyncError`, so there
is no abort, and the scheduler records it as `unexpected` (`scheduler.py:59`).
`FailAt`, `RaiseAt` and `KillAt` say at which steps what may happen. Around the
cycle: `StartCycle` (the scheduler), `CommandFails`, `CommandRaises`,
`CommandTimesOut` (killed by `run_git`, with any part of its work done and
perhaps its lock left), `Crash` (killed with the service), `RequestStop`,
`Restart`, `LockAges`.

**SyncAsset** adds the user and the colleague, whose push may change several
files at once, Init and Next, and states the properties.

**ReplicatedHistory** is the promise without git: the workspace's history only
grows, a commit of the remote enters it only after a fetch, and the remote's
history is replaced only by one that contains it, or by somebody else.

**CyclePhases** is the cycle as the scheduler sees it: three phases, a stop
that takes effect between two of them only, and an outcome that is that of the
last phase. SyncAsset and BackupService both implement it (`FollowsPhases`), so
the three-step cycle inside BackupService is the one SyncCycle runs command by
command, and neither model can drift from the other.

**SharedRemote** instantiates SyncAsset twice, with the commits and the remote
in common: what a colleague is to SyncAsset, each workspace is to the other,
and it merges too.

**BackupService** is everything around the cycle: `boot` walks through
`_clone_then_sync`, `cloning` being what `clone_configured_repos` has still to
look at; `sync` walks through `_sync_loop` and `sync_all`; `enabled` and
`status` are `SyncStatus`; `main` is the process, which is told to stop, leaves
its lifespan, crashes, is killed with its container and is started again by the
supervisor. `disk` is what a look at an asset's git directory would find,
`origin` the remote written in it, `orphans` the clones that outlived their
service. `config` may be edited at any moment, between its three readings too
(the third is left out when `--sync-interval` is given). There are two clocks:
`clock` is the one a wait goes by, `wall` the one the status goes by, which
somebody may set.

**RunGit** is one command: `caller` is where the thread in `run_git` is
(`communicate` with the limit, the grace after SIGTERM, the wait after
SIGKILL), `process` what runs under each process id. git forks helpers into its
own group or into a session of their own, with its output or without; others
start processes under the same ids; a child that has exited keeps its id until
it is waited for. `CommunicateReturns` needs the output's end, as `communicate`
does, while `KillEnds` waits for git alone, as `wait` does.

**Supervisor** is the script: bash handles a signal between two commands
(`Runs`, `HandleSignal`), a round takes the services one by one (`Check`), then
restarts what it queued (`Restart`, `RestartNginx`). nginx has workers in a
group of its own, which `kill -- -<pid>` signals first, and which may be gone:
then the `kill` fails and, by `set -e` and the ERR trap, so does the script
(`NoSuchGroup`). `Cleanup` signals the script's children and nobody else: they
are `told` to end, while the workers of an nginx whose master has gone become
`strays`. Both hold their port until they end, and a service that finds its port
taken ends as well (`OpensPort`, `FindsPortTaken`); the script starts services in
the background and does not see what comes of it. A link that cannot be made
(`blocked`) ends every script that is started until somebody clears the desktop.
`KeepAlive` is the loop that starts the script again.

**ConfigRules** lists the faults of a file in the order `load_config` looks for
them (`Faults`); the first is the answer. The user starts the service, reads
what it names, mends exactly that with any good value, and starts again.

### Abstractions

* A file is one hunk: two different changes of one file conflict. Renames,
  modes and `.gitignore` are left out.
* `Marked` is any content the conflict-marker check would refuse.
* The gate's list of markers (`MERGE_HEAD`, `REBASE_HEAD`, ...) is the open
  merge; the others take the same branch of the code.
* A lock that a running command holds is younger than an hour, as
  DOCUMENTATION.md:686-688 takes for granted, and nobody removes a stale lock by
  hand between the cycle's `stat` and its `unlink`.
* A git command is one step. That it takes time shows where it is killed:
  `DoneByThen` lists what may have been done by then. A clone is two: git writes
  `HEAD` when it starts, and fetches.
* ConfigRules works on classes of values, one for each branch of the checks:
  a URL is acceptable, missing, no string, blank, not https, with a user in it,
  without a host, not readable by `urlsplit`, or the template's.
* A process either heeds SIGTERM or ignores it, and every process heeds SIGKILL.
* In SharedRemote the users of the two workspaces write different contents, and
  no content that is in the history already.

Ghost variables, which the code does not have: `merger` (who started the open
merge), `unsaved`, `touched`, `openBefore` in the cycle; `last`, `edited`,
`orphans` in the service; `call`, `outcome` in RunGit; `named` in ConfigRules.

## The runs

| Run | Question | Properties |
| --- | --- | --- |
| `edits` | whatever is saved, deleted or left half resolved, and whichever command fails or cannot be started: is the history sound, and is the cycle the one the scheduler takes it for? | `OwnMergeEnded`, `PublishedHistoryKept`, `LocalSideWins`, `NoMarkersCommitted`, `FollowsPhases` |
| `usergit` | the user runs git himself and the cycle is killed anywhere: is he left alone, and is the promise kept? | `TypeOK`, `NothingUnfetched`, `OpenMergeWaits`, `LiveLockKept`, `ReplicatesHistory` |
| `sync` | does the work arrive in the end? | `EventuallyInSync` |
| `shared` | two workspaces back up to one branch: is anything dropped or undone, and do they ever agree? | `BothReplicate`, `NothingReverted`, `BothInSync` |
| `service` | do threads, clones and assets keep out of each other's way? | `ServiceTypeOK`, `EnabledMeansScheduled`, `OneCloneAtATime`, `StopWaitsForAll`, `EveryRepoServed`, `StopCompletes`, `FollowsPhases` |
| `status` | do times in whole seconds tell how the last cycle ended? | `StatusTellsOutcome` |
| `rungit` | does each call end, git with it, and nobody else? | `RunGitTypeOK`, `CommandHasEnded`, `SignalsReachOwnCommand`, `CallsEnd` |
| `supervisor` | do services come back, once, and does it ever come to rest? | `SupervisorTypeOK`, `NoneStartedTwice`, `ServicesComeBack`, `ServicesSettle` |
| `config` | is what is accepted usable, and does mending what is named lead there? | `ConfigTypeOK`, `AcceptedIsUsable`, `SectionsAreIndependent`, `IntervalAsGiven`, `NothingNamedTwice`, `RepairsConverge` |

Three more runs (`left_merge`, `lost_edit`, `old_origin`) check one claim each
that the documentation makes and the code does not keep; see the findings.

**Bounds.**

* SyncAsset: two files. A conflict needs one, a mixed merge (one conflicting,
  one not; one kept, one deleted) two. Contents: what was cloned, what the user
  writes, what the colleague writes, what the user's other branch holds, a marked
  file, no file. Events are limited by `Budget`: `edits` has two saves, one
  foreign push, which may change or delete one file or both, one commit of the
  user's, one command that fails at any step, or raises in the merge or its
  resolution, and one stop. Two saves and a push of both files make a merge with
  two conflicts of different kinds. `usergit` has one save, one push, two git
  operations of the user's (enough to start a merge and, in the middle of the
  cycle, to do something else, a branch switch included) and one command that is
  killed or raises, anywhere; `sync` two saves, of which one may bring conflict
  markers, so that a commit is refused and unstaged, a push, a force-push and one
  fault. Every conflict needs one save and one push, and every race of the hazards
  list one more event.
  Cycles are not limited: the behaviour goes on until the events are spent and
  the cycle finds nothing to do.
* SharedRemote: each user saves or deletes a file once, so that the two may meet
  in one file or not, and one command of one workspace fails, raises or is killed.
* BackupService: `service` has two assets with a remote each, one edit of
  `config.toml`, one crash and one stop, and ticks of the shortest interval the
  configuration accepts, with time for two rounds. `status` has ticks of half
  that interval and of half a second, because what could go wrong is two
  outcomes in one second; three rounds; a stop; and, as a control, one setting of
  the clock, after which the property says nothing more.
* RunGit: two calls, so that the ids of the first are there to be given out
  again during the second, and four process ids: git, two helpers and a stranger.
* Supervisor: nginx, which is handled apart, and two others, so that one may die
  while the other is restarted. There is no bound on deaths, signals and failures:
  its states are finitely many.
* ConfigRules: two URLs, all pairs of faults in two sections together with those
  of the file and its place; apart from those, all intervals at and beyond both
  limits, in the file and on the command line.

Deadlock is not checked in `service`, `status` and `old_origin`: a service with
nothing configured, at the end of its clock, rightly does nothing. Nor is it in
`config`: a user whose file is accepted has nothing more to do.

**Fairness.** In SyncAsset, and in both halves of SharedRemote, the service's own
steps are weakly fair: the scheduler loops for ever, every command has a time
limit (`runner.py:105`), and the supervisor restarts the service. `LockAges` is
the clock and `UserFreesLock` says that the user's git command ends. No edit,
push, failure or restart request is fair. In BackupService both threads are
fair, and so are the end of the lifespan and the main thread's return from its
join once the thread has ended; the time limit of that join, crashes, signals
and the clock are not, so `StopCompletes` does not lean on the limit. In RunGit
the limits of the thread arrive and a process that has to end does; git need not
finish of itself, and no helper ever needs to. In Supervisor bash runs on, the
keepalive loop looks again and again, a service that was started comes to opening
its port, and a process that was sent SIGTERM ends; no service ends because it
must, no stray does, and nobody need clear the desktop. Its liveness properties
say what they need of the world instead: that signals stop and the desktop is
clear at some time (`ScriptLeftAlone`) and, for `ServicesSettle`, that services
stop dying. In ConfigRules the user goes on mending.

For `EventuallyInSync` and `BothInSync`, `sync` and `shared` let commands fail,
raise or be killed on both sides of the merge: at the steps `LiveFailSteps`,
`LiveRaiseSteps`, `LiveKillSteps` and their like in MCSharedRemote name, one or
more of each phase. Inside the merge they have a refused `git merge` and, in
`shared`, a failure at `ours`, which the abort undoes, and no kill and no
exception: these may leave a merge open that blocks every later cycle until the
user aborts it, which is the code's behaviour (see the first finding and below)
and which no liveness survives. The safety runs have no such limit. `EventuallyInSync`
is of a user who does not leave conflict markers in a file for good.

**Exceptions in the properties.** `OwnMergeEnded` excepts a merge one of whose
files the user edited while it was being resolved (git then refuses
`merge --abort`), and a cycle that ended with an exception that is no
`SyncError`: raised by the merge or by a command of its resolution, it goes past
the abort, the merge stays open, and the next cycles are refused until the user
ends it. The property tells this outcome from all others; it does not promise
that it does not happen. It holds for *one* failing command: when a second one fails,
when `run_git` kills the abort, or when a git command of the user's holds the
index, the merge stays, as `left_merge` shows; `edits` has none of these.
`NoMarkersCommitted` excepts a file the user edits during the resolution: the
merge commit is not inspected again. It and `LocalSideWins` are checked and
proved for a user who leaves merging to the backup; of a merge of his that the
backup takes over they say nothing, for its index is his. `StatusTellsOutcome`
excepts a clock that somebody has set. `CommandHasEnded` speaks of calls that
returned or raised; a git whose service died goes on. `ServicesSettle` excepts an
nginx whose workers outlive both it and the script: without that hypothesis TLC
finds the services restarted for ever (see below). `RepairsConverge` counts as
an end a value that makes a library raise something else than `ConfigError`.

## What is proved

For any files, contents, trees, budgets and any choice of failing and killed
steps, `SyncAssetProofs` proves:

* `Invariance`: `Spec => []IInv`, the inductive invariant
  `TypeOK /\ HistoryClosed /\ NothingUnfetched`, and its parts `TypeCorrect`,
  `Unfetched`.
* `PublishedKept`: `Spec => PublishedHistoryKept`.
* `Refinement`: `Spec => ReplicatesHistory`.
* `PhasesFollowed`: `Spec => FollowsPhases`.
* `LiveLocksKept`: `Spec => LiveLockKept`.
* `OpenMergesWait`: `Spec => OpenMergeWaits`.

`ResolutionProofs`, for every user who commits, switches branches, edits and
holds the index as he likes but starts no merge (`"merge" \notin UserGit`):

* `LocalFilesWin`: `Spec => LocalSideWins`.
* `MarkersStayOut`: `Spec => NoMarkersCommitted`.

And, under `OneFailure` (one command at most that fails or raises, none killed,
nobody else who merges or holds the index, which is what `edits` checks):

* `OwnMergesEnd`: `OneFailure => (Spec => OwnMergeEnded)`: each step that ends a
  cycle in the merge or its resolution leaves the merge concluded or aborted, or
  the outcome is `unexpected`, or the user has edited a file after `git merge`.

`SharedRemoteProofs`, from the lemmas of `SharerProofs`, for any two users:

* `EachReplicates`: `Spec => BothReplicate`, whatever fails or is killed.
* `NothingUndone`: `Spec => NothingReverted`, if no `git merge` is killed
  (`"merge" \notin KillAt`) and the two users save different things
  (`HereTo \cap ThereTo = {}`), any number of times each. Neither hypothesis can
  be dropped, as the argument below tells; `shared` satisfies both.

`BackupServiceProofs`, for any assets, remotes, interval of at least a second,
bounds and budgets: `ServiceTypes`, `EnabledIsScheduled`, `StopWaits`,
`StatusTold`, `OneClone`, `ServicePhases` (the refinement of CyclePhases).

`RunGitProofs`, for any process ids and any number of calls: `RunGitTypes`,
`CallEndsCommand`, `SignalsStayInside`.

`SupervisorProofs`, for any set of services:
`SupervisorTypes`, `StartedOnce`.

`ConfigRulesProofs`, for any remotes, branches, faulty values and intervals:
`ConfigTypes`, `AcceptedUsable`, `IndependentSections`, `WaitsAsGiven`,
`NamedOnce`.

The assumptions are the named ones of the modules (`ContentsAssumption`,
`StepsAssumption`, `UsersAssumption`, `ServiceAssumption`, `RunGitAssumption`,
`SupervisorAssumption`, `ConfigAssumption`, and `SharersAssumption`, which is
SyncAsset's for both workspaces); `Files` is any set. TLC evaluates
them on the runs. `ConfigAssumption` says that a good value is no bad one.

### The arguments

*Published history.* That the remote's history is only extended by the backup
looks like a matter of the guard of `git push`: the remote's commit is an
ancestor of what is sent. But the property speaks of *sets* of commits, and an
ancestor's history is part of the descendant's only if ancestor sets are closed:
so `HistoryClosed` has to be invariant, through commits, merges, kills in the
middle of either, and everything the user and the colleague add. For the
refinement every step must also explain where the workspace's new commits come
from: a commit of the remote may appear in the branch only if it had been
fetched. The user may merge or switch to any of his heads, and an open merge is
concluded later, so this needs `NothingUnfetched` of all heads and of
`MERGE_HEAD` at once, not of the branch alone. `StepKinds` then reduces the
forty actions to four kinds, seen from refs and commits only (a local step, a
fetch, a push, somebody else's push), and `LearnsHistory`, `PublishesHistory`
and `OthersHistory` preserve the invariant per kind. Types of the remaining
variables are proved action by action in `CycleStepTypes` and `OtherStepTypes`.

*Locks and open merges.* `LiveLocksKept` rests on a fact of its own, `LockHeld`:
the cycle is at `unlink` only while the lock it looked at is there and stale.
`OpenMergesWait` needs that an open merge has its `MERGE_HEAD` (`MergeHasHead`),
so that a cycle which began with it open stays at the gate (`OpenMergeKept`).

*What is committed* is settled much earlier than it is committed. `RInv`
follows the index: from the end of the commit to `git merge` it is HEAD's tree
(`Ready`), at `commit` it holds no marker HEAD does not (`Inspected`), and from
`git merge` to `git commit --no-edit` it holds the resolution already
(`AsResolved`): `git merge` leaves stage 2 of the conflicting files and the
three-way result of the others there, and what `checkout --ours`, `add` and `rm`
do brings into the index only what is in it, except for the files the user
touched. That the resolution itself does not change meanwhile rests on the
latest common ancestor being the same as commits are added, which needs that one
exists (`MergeBaseIsCommit`: every commit descends from the first, `Rooted`).

*The backup's own merges.* `OwnMergeEnded` is about the steps that end a cycle. Of
these the commit concludes the merge, an exception is excepted, and the abort is
left: it must work when it is called, and it must not be called for a second
reason. `OwnMergeFollowed` says both: while the merge is
being resolved, every file that is not in conflict and was changed is in the
working tree as it is in the index, or deleted (`Abortable`, git's own condition
for an abort), and each command finds what it needs (`OnCourse`): the unmerged
files at `addours` are those listed, at `rm` those to delete, at `conclude` none.
So only the one failure leads to `abort`, and the budget is spent there. A merge
that was left behind all the same stays at the gate: `git merge` is not reached
again while it is open.

*Two workspaces.* What SyncAsset proves with a colleague does not hold for a
second workspace as it stands: the colleague pushes one commit on top of what he
fetched, the other workspace merges, has commits of its own that the remote does
not know, and dies half-way. `SharerProofs` therefore speaks of *one* workspace
and of what it needs of somebody else. `SharedMove(b)` is what a step may do to
what both see, told from the branch `b` of whoever does not take it: commits are
added, the remote's history only grows, and no commit of `b` gets published that
was not published before. `OwnIsShared` says that every step of a workspace is
one, `OthersMove` that it leaves the workspace's own state alone, and
`OthersBranch` and `OthersReplicate` that the invariant `BInv` and the promise
survive it. Each half assumes of the other only what `OwnIsShared` proves of it.
The one fact about both is `CommonPublished`: what the two branches share, the
remote has. Without it, a push by one could publish a commit that the other had
never fetched and holds all the same, and `BothReplicate` would be false of the
other. SharedRemoteProofs instantiates SharerProofs once per workspace
(`HereP`, `ThereP`), shows that the steps of SharedRemote are theirs (`HereSteps`,
`ThereSteps`), and puts the halves together (`HereShares`, `ThereShares`).

*Nothing is undone.* A push replaces a file of the remote by that of the branch,
so the question is where the branch has it from. `Meeting` answers it: the branch
and the remote have one latest common commit `m`, and each file of the branch is
as in `m` or `Fresh`: a content of this user's that no commit of the remote's
holds. A branch that is pushed contains the remote, which then is `m`, so the
push changes a file only to a fresh content. That this is kept needs all of
`SInv`. A merge takes the three-way result against the merge
base, and `BaseIsMeeting` shows that the base is `m`; for that, what the branch
shares with the remote must be in what is being merged (`Common`), also when the
remote moves on between fetch and push, and ancestors must have smaller numbers
(`Ordered`) for `m` to be unique. What is saved is not yet committed: `FilesNew`
and `MergeNew` say of working tree and index, outside a merge and while one is
resolved, that each file is the head's or the remote's or a new one of the
user's.
`MergeTime` ties the open merge to the steps that resolve it, and `Sources` says
that the branch holds nothing but contents of its user's and of the remote's, so
that what the other workspace publishes of its own stays new here. Finally a content
must stay new to the remote while the *other* workspace works: `Brings(E)` says
that a step brings nothing into the history that was not there or in `E`, and
the two users' contents are disjoint. TLC checked the invariant on an instance
with two files and two edits on one side and one on the other before it was
proved.

Both hypotheses are needed. If both users may save the same content, one may
publish it and go back from it before the other, who saved it too, merges in his
own favour: the remote gets back what it had held before. And a `git merge` that
is killed after writing its files leaves the remote's files in the working tree
without a merge; the next cycle takes them for the user's and commits them, and
if the remote has moved on meanwhile, the conflict between the remote's older
and its newer version is resolved in favour of the older one. TLC finds the first
with two edits in one workspace, the second with two edits and
`KillAt = {"merge"}`. No sentence of the repository promises anything for these
cases, so the killed merge is listed among the hazards and not as a
finding.

*Threads and status.* `Threads` says which thread outlives which: the bootstrap
thread reaches `join` only with the scheduler's running and leaves it only when
that has ended, so a bootstrap thread that has ended is one of a service that
stops or that schedules nothing; with it go `EnabledMeansScheduled` and
`StopWaitsForAll`. `StatusTold` needs an order in time: `Apart` says that while
the clock is as it was, an asset still to be served in this round was last
recorded before the wait of the last round began, and that the wait was a whole
interval; `Told` carries what the status says of each asset from one record to
the next, and two records are in different seconds because the interval is at
least one. `OneClone` rests on `Clones`: where a clone runs, of this process or
of an earlier one, something is in the directory, and `is_cloned` sees it.

*Signals.* `LeadsItsGroup` says that the group `_stop` signals has the id of a
git nobody has waited for, is led by it, and holds nobody's process but this
call's; `Belongs` ties each git to its call. The system gives out no id that is
still a process's or a group's: that is all the argument needs of it.

*The monitor loop.* `FoundEnded`: what a round found ended stays ended until
that round restarts it, since nobody but the script starts a service.

*Configuration.* `Wrong` says of each answer what is wrong with the file when it
is given; each fault in `Faults` is wrong where it says (`FaultsOfSection` and
its like), and a list without faults leaves nothing wrong. `Mended` says of what
was named that it is right by now and will stay so: a new URL is a good one
though it may bring about that two assets have one remote, which is named later
and once, because by then everything else is right.

Only model-checked: liveness (`EventuallyInSync`, `BothInSync`,
`EveryRepoServed`, `StopCompletes`, `CallsEnd`, `ServicesComeBack`,
`ServicesSettle`, `RepairsConverge`), which is out of the prover's reach,
as is everything under fairness. Every invariant and every action property that a
passing run checks is also a theorem, and so is every refinement.

## Findings

Each is a sentence of the repository that a run refutes; `PROJECT.json` quotes
them in full.

1. `left_merge`: a git command of the user's that takes `index.lock` while the
   backup merges makes the merge fail with `MERGE_HEAD` set, and the abort fail
   too. Every later cycle is refused, until the user aborts a merge he never
   started.
2. `lost_edit`: a file edited during the cycle, and deleted on the remote, is
   put back to its last committed version: the edit is lost.
3. `old_origin`: an asset that is moved to another URL in `config.toml` goes on
   being pushed to the old one after a restart, since a directory that is cloned
   is skipped and the cycle goes by the `origin` in it.

### Where documentation and code differ, beyond the findings

Met while modelling. The models hold each of these behaviours, and the properties
except them where they would say otherwise.

* The `try` block around the resolution has one handler, `except SyncError`
  (`sync.py:808`). `_execute` (159-182) turns a time-out and an exit status into a
  `SyncError`, and nothing else: when git cannot be started (`OSError`), or when a
  conflicted file's name is not UTF-8 and `ls-files --unmerged -z` is decoded
  (`UnicodeDecodeError`), the exception leaves `pull_changes` without
  `merge --abort`, and is caught as `unexpected` at `scheduler.py:59-63`. The merge
  stays open and each later cycle ends with `operation_in_progress`. With such a
  file name that is what every merge that conflicts in it comes to.
  DOCUMENTATION.md:1104-1105: "Any failure on the way aborts the merge, as before";
  916-918: "our own code never leaves a merge behind". `CommandRaises` models it;
  `OwnMergeEnded` excepts it.
* A merge the user starts during the backup's fetch is neither looked for nor
  left alone: after the fetch only the branch is checked again (`sync.py:765`),
  `git merge` is refused, and the error path resolves and commits the user's
  merge, or aborts it. DOCUMENTATION.md:542-543: "as long as your merge is
  unfinished, the backup waits for it instead of interfering".
* `sync_once` returns False after a merge without conflicts (`sync.py:916`); its
  docstring (907) says "True if anything changed - a commit, a merge or a push".
* After a stop the remaining commands of the running step are still started,
  commit or merge included (`sync.py:914`), and so is the clone of the next asset
  (`bootstrap.py:115`). DOCUMENTATION.md:743-744: "No new git command is started
  after that".
* The outcome of a push, or of any step that fails, is recorded though the stop
  came during it (`scheduler.py:65`); `sync_all` says (39-40) "nothing more is
  recorded".
* `is_cloned` looks only for `HEAD` (`clone.py:35`), which `git clone` writes
  first: a clone that was killed passes for a finished one, is scheduled and
  never cloned again. `bootstrap.py:133-135`: "schedules every repository that
  has actually been cloned".
* The directories of a clone are made outside its `try` block (`clone.py:90`) and
  only `CloneError` is caught (`bootstrap.py:118`): an `OSError`, such as a file
  in the directory's place, ends the bootstrap thread, and with it the backup of
  the other asset. DOCUMENTATION.md:465-466: "Each repository is cloned on its
  own".
* The status goes by the time of day (`status.py:98`): after the clock was set,
  DOCUMENTATION.md:137-138, "If `last_success` is newer than `last_error.at`, the
  error has since cleared", does not hold.
* `_stop` sends SIGKILL only if git itself outlives SIGTERM (`runner.py:97`): a
  helper that ignores SIGTERM, or that is in a session of its own, stays.
  `runner.py:14-15`: "the command and every process it started are stopped".
* When nginx has gone with its whole group, the `kill` before its restart fails
  (`custom_startup.sh:88`), the script ends by its ERR trap and takes the healthy
  services down with it; the keepalive loop brings them back (`ServicesComeBack`).
* `cleanup` (`custom_startup.sh:14`) signals the script's children only: workers of
  an nginx whose master has gone stay, though line 18 says "Takes all subprocesses
  with it if this dies". They keep the port, the next script's nginx ends because
  of it, with nobody in its group, the `kill` at 88 fails, and `cleanup` takes the
  healthy services down once more: the container's services restart in every round
  for as long as those workers live. `ServicesSettle` excepts exactly this.
* A link that cannot be made (`custom_startup.sh:59`), as when a file is in its
  place, ends every script that is started, before it starts a service: nothing
  comes up until somebody clears the desktop (`ScriptLeftAlone`).
* Two assets are compared by the text of URL and branch (`config.py:329`): one
  remote in two spellings is accepted for both, and both then back up to one
  branch. They are then to each other what the workspaces of SharedRemote are.
  `config.py:315`: "Refuse two repositories that back up to the same remote
  branch".
* A file that is not UTF-8, a URL such as `https://[host` and a branch with a NUL
  raise something else than `ConfigError`, and the bootstrap thread ends without
  naming a key. `config.py:74-75`: the message "names the file, the section and
  the key at fault".

## Not modelled

* `thread.start()` that fails after `enable` (`scheduler.py:115-123`): the status
  would then say enabled while nothing is scheduled. BackupService takes it that
  the system can start a thread.
* `auth.py`: an argument list, and a message classified by its text: no state.
* `services.py`, the routes of `api.py`: a catalogue and read-only views of it
  and of the status.
* The `.gitignore` provisioning writes beside `config.toml`: nothing in
  the service reads it.
* Two backup services at work in one repository at once, as when the restarted
  script's service begins while the old one finishes a command. git's own
  `index.lock` keeps their commands apart, and `UserTakesLock` stands for the
  other one's; a composition of two cycles over one working tree would need git's
  commands in finer steps than GitRepo has them.
* Helpers' own work in the repository: what a killed command leaves behind is in
  SyncCycle, who is still alive in RunGit; the two are not composed.
* Set-up and install scripts: straight lines. nginx, Jupyter, VS Code: services
  like any other to the supervisor, but that nginx has workers; that Jupyter would
  look for another port when it finds its own taken is left out. Tests.

## Plan

Done, in this order: GitRepo, SyncCycle, SyncAsset with its runs;
ReplicatedHistory and the proofs of SyncAsset; BackupService; SharedRemote;
RunGit; Supervisor; ConfigRules; CyclePhases, which ties BackupService to the
detailed cycle; the proofs of BackupService, RunGit, Supervisor, ConfigRules and
of the backup's own merges; the proofs of SharedRemote.

Next:

1. Two services on one repository, with git's commands split where they take and
   release `index.lock`.
2. `LocalSideWins` and `NoMarkersCommitted` for a workspace beside another one:
   `RInv` is kept beside somebody else already (`SInv` contains it), their
   theorems are stated for SyncAsset only.
3. `OwnMergeEnded` without `OneFailure`: which pairs of failures leave a merge
   open, and what of it the next cycles find, as an invariant that names them.
