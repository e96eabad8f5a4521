--------------------------- MODULE BackupService ---------------------------
(* The admin service around the backup cycle: the bootstrap thread that      *)
(* clones the configured assets and starts the scheduler (git/bootstrap.py,  *)
(* git/provision.py, git/clone.py), the scheduler's thread                   *)
(* (git/scheduler.py), the status the HTTP API serves (git/status.py), and   *)
(* the process that starts, stops, dies and is started again (main.py,       *)
(* api.py, startup/custom_startup.sh).                                       *)
(*                                                                           *)
(* What the cycle of one asset does to its repository is SyncCycle's part;   *)
(* here it is three steps that succeed or fail, as CyclePhases has it, which *)
(* both modules implement.                                                   *)
(* Time is counted in ticks, several to the second the status is served in.  *)
EXTENDS Naturals, Sequences

CONSTANTS
    Assets,     \* the assets' names in the order they are handled
    Urls,       \* the remotes the user may write down for each asset
    Second,     \* ticks in a second
    Interval,   \* ticks between two rounds
    MaxTime,    \* bound of both clocks
    Budget      \* how many of each kind of event a behaviour may hold

Repos == {Assets[i] : i \in DOMAIN Assets}
Remotes == UNION {Urls[a] : a \in Repos}
NoUrl == "none"
Events == {"config", "crash", "stop", "clock"}

\* sync_interval_problem refuses an interval below a second.
ASSUME ServiceAssumption ==
    /\ Second \in Nat \ {0} /\ Interval \in Nat /\ Interval >= Second
    /\ MaxTime \in Nat /\ MaxTime >= Second
    /\ Assets \in Seq(Repos)
    /\ \A i, j \in DOMAIN Assets : Assets[i] = Assets[j] => i = j
    /\ DOMAIN Urls = Repos /\ NoUrl \notin Remotes
    /\ Budget \in [Events -> Nat]

VARIABLES
    config,     \* config.toml
    edited,     \* ghost: whether it was edited since the service started
    disk,       \* each asset's git directory
    origin,     \* the remote named in it
    orphans,    \* assets whose clone outlived the process that ran it
    main,       \* the process: its main thread
    stop,       \* stop_event
    boot,       \* the bootstrap thread
    url,        \* the remotes it read last
    cloning,    \* assets clone_configured_repos has still to look at
    repos,      \* the assets start_git_sync scheduled
    sync,       \* the scheduler's thread
    todo,       \* assets left in this round
    result,     \* how sync_once ended, before it is recorded
    since,      \* when the wait between two rounds began
    enabled,    \* SyncStatus
    status,     \* SyncStatus, per asset; 0 is None
    last,       \* ghost: how the last cycle of each asset really ended
    clock,      \* monotonic: what a wait goes by
    wall,       \* the time of day: what the status goes by
    budget

bootVars == <<boot, url, cloning, repos>>
syncVars == <<sync, todo, result, since, last>>
statusVars == <<enabled, status>>
processVars == <<main, stop>>
diskVars == <<disk, origin, orphans>>
worldVars == <<config, edited, diskVars, clock, wall, budget>>
vars == <<bootVars, syncVars, statusVars, processVars, worldVars>>

Spend(what) ==
    /\ budget[what] > 0
    /\ budget' = [budget EXCEPT ![what] = @ - 1]

Nowhere == [a \in Repos |-> NoUrl]
\* A file that is TOML may still name no usable asset: the template does.
Configs == [state : {"missing", "invalid"}, url : {Nowhere}]
           \cup [state : {"toml"},
                 url : {u \in [Repos -> Remotes \cup {NoUrl}] :
                          \A a \in Repos : u[a] \in Urls[a] \cup {NoUrl}}]
Invalid == [state |-> "invalid", url |-> Nowhere]
Template == [state |-> "toml", url |-> Nowhere]
Disk == {"none", "partial", "cloned"}
Unsynced == [attempt |-> 0, success |-> 0, errorAt |-> 0]
Steps == {"commit", "pull", "push"}

\* The first asset of S in ASSET_NAMES order.
First(S) ==
    Assets[CHOOSE i \in DOMAIN Assets :
             /\ Assets[i] \in S
             /\ \A j \in DOMAIN Assets : Assets[j] \in S => i <= j]

-----------------------------------------------------------------------------
(* The bootstrap thread: _clone_then_sync.                                   *)

BootRuns(step) ==
    /\ main # "off" /\ boot = step
    /\ UNCHANGED <<syncVars, processVars>>

\* _load_repos; every error leaves nothing configured, two assets with one
\* remote among them.
Loaded ==
    IF /\ config.state = "toml"
       /\ \A a, b \in Repos : config.url[a] = config.url[b] =>
                                a = b \/ config.url[a] = NoUrl
    THEN config.url ELSE Nowhere
Configured == {a \in Repos : Loaded[a] # NoUrl}

\* provision_config: a missing file is created when there is a template and
\* the file can be made, and either way nothing is cloned now.  One that
\* could not be written to the end is taken for the user's.
Provision ==
    /\ BootRuns("provision")
    /\ \/ /\ config.state # "missing" /\ UNCHANGED config
          /\ boot' = "load"
       \/ /\ config.state = "missing" /\ config' \in {config, Template}
          /\ boot' = "ended"
       \/ /\ config.state = "missing" /\ config' \in {Invalid, Template}
          /\ boot' = "load"
    /\ UNCHANGED <<url, cloning, repos, statusVars, edited, diskVars, clock, wall,
                   budget>>

\* Only ConfigError is caught: some values raise an exception of another
\* kind, and the thread ends (ConfigRules).
LoadToClone ==
    /\ BootRuns("load")
    /\ url' = Loaded /\ cloning' = Configured
    /\ \/ boot' = "clone"
       \/ Configured = {} /\ config.state # "missing" /\ boot' = "ended"
    /\ UNCHANGED <<repos, statusVars, worldVars>>

\* Mutant of IsCloned: only a finished clone counts.
IsWhole(a) == disk[a] = "cloned"
\* is_cloned looks for HEAD, which git writes before it fetches anything.
IsCloned(a) == disk[a] # "none"

\* clone_asset.  The directories are created before git runs, and only
\* CloneError is caught: an OSError ends the thread.
SkipClone ==
    /\ BootRuns("clone")
    /\ cloning # {} /\ IsCloned(First(cloning))
    /\ cloning' = cloning \ {First(cloning)}
    /\ UNCHANGED <<boot, url, repos, statusVars, worldVars>>
StartClone ==
    /\ BootRuns("clone")
    /\ cloning # {} /\ ~IsCloned(First(cloning))
    /\ disk' = [disk EXCEPT ![First(cloning)] = "partial"]
    /\ origin' = [origin EXCEPT ![First(cloning)] = url[First(cloning)]]
    /\ boot' = "cloning"
    /\ UNCHANGED <<url, cloning, repos, statusVars, config, edited, orphans,
                   clock, wall, budget>>
CannotMakeDirectory ==
    /\ BootRuns("clone")
    /\ cloning # {} /\ ~IsCloned(First(cloning))
    /\ boot' = "ended"
    /\ UNCHANGED <<url, cloning, repos, statusVars, worldVars>>

\* Git empties the directories of a clone that failed or was terminated; one
\* that had to be killed leaves them as they are.
CloneBecomes(a, found) ==
    /\ disk' = [disk EXCEPT ![a] = found]
    /\ origin' = IF found = "none" THEN [origin EXCEPT ![a] = NoUrl] ELSE origin
CloneEnds ==
    /\ BootRuns("cloning")
    /\ \E found \in Disk : CloneBecomes(First(cloning), found)
    /\ cloning' = cloning \ {First(cloning)} /\ boot' = "clone"
    /\ UNCHANGED <<url, repos, statusVars, config, edited, orphans, clock, wall,
                   budget>>

CheckStop ==
    /\ BootRuns("clone") /\ cloning = {}
    /\ boot' = IF stop THEN "ended" ELSE "reload"
    /\ UNCHANGED <<url, cloning, repos, statusVars, worldVars>>

\* start_git_sync reads the file again: once for the assets and, unless the
\* command line gave it, once for the interval.
LoadToSync ==
    /\ BootRuns("reload")
    /\ url' = Loaded /\ repos' = {a \in Configured : IsCloned(a)}
    /\ boot' \in IF repos' = {} THEN {"ended"} ELSE {"interval", "enable"}
    /\ UNCHANGED <<cloning, statusVars, worldVars>>
\* Mutant of LoadInterval: the status is enabled before the interval is read.
EnableEarly ==
    /\ BootRuns("interval")
    /\ boot' = IF config.state = "toml" THEN "enable" ELSE "ended"
    /\ enabled' = TRUE
    /\ UNCHANGED <<url, cloning, repos, status, worldVars>>
LoadInterval ==
    /\ BootRuns("interval")
    /\ boot' = IF config.state = "toml" THEN "enable" ELSE "ended"
    /\ UNCHANGED <<url, cloning, repos, statusVars, worldVars>>
Enable ==
    /\ BootRuns("enable")
    /\ enabled' = TRUE
    /\ boot' = "start"
    /\ UNCHANGED <<url, cloning, repos, status, worldVars>>

StartThread ==
    /\ main # "off" /\ boot = "start"
    /\ sync' = "waiting" /\ since' = clock
    /\ boot' = "join"
    /\ UNCHANGED <<url, cloning, repos, todo, result, last, statusVars,
                   processVars, worldVars>>

\* Mutant of Join: the sync thread is not waited for.
ReturnAtOnce ==
    /\ BootRuns("join")
    /\ boot' = "ended"
    /\ UNCHANGED <<url, cloning, repos, statusVars, worldVars>>
Join ==
    /\ BootRuns("join") /\ sync = "ended"
    /\ boot' = "ended"
    /\ UNCHANGED <<url, cloning, repos, statusVars, worldVars>>

BootThread ==
    \/ Provision \/ LoadToClone \/ SkipClone \/ StartClone
    \/ CannotMakeDirectory \/ CloneEnds \/ CheckStop \/ LoadToSync
    \/ LoadInterval \/ Enable \/ StartThread \/ Join

-----------------------------------------------------------------------------
(* The scheduler's thread: _sync_loop and sync_all.                          *)

SyncRuns(step) ==
    /\ main # "off" /\ sync = step
    /\ UNCHANGED <<bootVars, processVars, worldVars>>

\* sync_all returns to the loop, which waits.
RoundEnds == sync' = "waiting" /\ since' = clock /\ todo' = {}

\* Mutant of WaitIsOver: a round follows the last one at once.
WaitIsNone == clock >= since
WaitIsOver == clock >= since + Interval
StartRound ==
    /\ SyncRuns("waiting") /\ ~stop /\ WaitIsOver
    /\ sync' = "round" /\ todo' = repos
    /\ UNCHANGED <<result, since, last, statusVars>>

\* Mutant of LoopEnds: the loop sleeps instead of waiting for the event.
SleepOn == SyncRuns("waiting") /\ stop /\ UNCHANGED <<syncVars, statusVars>>
LoopEnds ==
    /\ SyncRuns("waiting") /\ stop
    /\ sync' = "ended"
    /\ UNCHANGED <<todo, result, since, last, statusVars>>

NextRepo ==
    /\ SyncRuns("round")
    /\ IF todo = {} \/ stop THEN RoundEnds
       ELSE sync' = "commit" /\ UNCHANGED <<todo, since>>
    /\ UNCHANGED <<result, last, statusVars>>

\* sync_once: each step ends well, and the next begins unless the service is
\* stopping; or it raises.  SyncStopped ends the round, unrecorded.
Ends(how) ==
    /\ sync' = "record" /\ result' = how
    /\ last' = [last EXCEPT ![First(todo)] = how]
    /\ UNCHANGED <<todo, since>>
\* Mutant of CutShort: SyncStopped is handled like any other error.
CutShortFails ==
    /\ sync' = "record" /\ result' = "stopped"
    /\ UNCHANGED <<todo, since, last>>
CutShort == RoundEnds /\ UNCHANGED <<result, last>>

\* Mutant of StepEnds: stop_event is not looked at.
StepLeadsOn(step, next) ==
    /\ SyncRuns(step)
    /\ sync' = next
    /\ UNCHANGED <<todo, result, since, last, statusVars>>
StepEnds(step, next) ==
    /\ SyncRuns(step)
    /\ IF stop THEN CutShort
       ELSE sync' = next /\ UNCHANGED <<todo, result, since, last>>
    /\ UNCHANGED statusVars
PushEnds == SyncRuns("push") /\ Ends("ok") /\ UNCHANGED statusVars
StepRaises(step) == SyncRuns(step) /\ Ends("failed") /\ UNCHANGED statusVars

\* record_success and record_failure.  Mutant of RestOfRound: a failure ends
\* the round.
StopAtFailure == IF result = "failed" THEN {} ELSE todo \ {First(todo)}
RestOfRound == todo \ {First(todo)}
Recorded(was) ==
    [attempt |-> wall,
     success |-> IF result = "ok" THEN wall ELSE was.success,
     errorAt |-> IF result = "ok" THEN was.errorAt ELSE wall]
Record ==
    /\ SyncRuns("record")
    /\ status' = [status EXCEPT ![First(todo)] = Recorded(@)]
    /\ todo' = RestOfRound /\ sync' = "round"
    /\ UNCHANGED <<result, since, last, enabled>>

SyncThread ==
    \/ StartRound \/ LoopEnds \/ NextRepo \/ Record \/ PushEnds
    \/ StepEnds("commit", "pull") \/ StepEnds("pull", "push")
    \/ \E step \in Steps : StepRaises(step)

-----------------------------------------------------------------------------
(* The process, its main thread, and what surrounds it.                      *)

\* What a process has in memory goes with it.
Forgotten ==
    /\ boot' = "ended" /\ url' = Nowhere /\ cloning' = {} /\ repos' = {}
    /\ sync' = "none" /\ todo' = {} /\ result' = "ok" /\ since' = 0
    /\ last' = [a \in Repos |-> "none"]
    /\ enabled' = FALSE /\ status' = [a \in Repos |-> Unsynced]
    /\ main' = "off" /\ stop' = FALSE

\* cli and start_git_backup; the supervisor starts the service again when it
\* has gone.
StartService ==
    /\ main = "off"
    /\ main' = "serving" /\ boot' = "provision" /\ edited' = FALSE
    /\ UNCHANGED <<url, cloning, repos, syncVars, statusVars, stop, config,
                   diskVars, clock, wall, budget>>

\* SIGTERM, or a port that is taken: uvicorn stops serving, and then leaves
\* the application's lifespan, which calls stop_git_backup: the event is set
\* and the bootstrap thread waited for, for a limited time.
StopServing ==
    /\ main = "serving" /\ Spend("stop")
    /\ main' = "closing"
    /\ UNCHANGED <<bootVars, syncVars, statusVars, stop, config, edited,
                   diskVars, clock, wall>>
LifespanEnds ==
    /\ main = "closing"
    /\ main' = "stopping" /\ stop' = TRUE
    /\ UNCHANGED <<bootVars, syncVars, statusVars, worldVars>>

\* A config file that was being written stays as far as it was written.
ConfigRemains ==
    \/ UNCHANGED config
    \/ /\ boot = "provision" /\ config.state = "missing"
       /\ config' \in {Invalid, Template}

\* The threads are daemons: they end with the process, but a clone in
\* progress, which has a session of its own, goes on.
ProcessEnds ==
    /\ Forgotten /\ ConfigRemains
    /\ orphans' = IF boot = "cloning" THEN orphans \cup {First(cloning)} ELSE orphans
    /\ UNCHANGED <<edited, disk, origin, clock, wall>>
Stopped ==
    /\ main = "stopping" /\ boot = "ended"
    /\ ProcessEnds /\ UNCHANGED budget
JoinTimesOut ==
    /\ main = "stopping" /\ boot # "ended"
    /\ ProcessEnds /\ UNCHANGED budget
Crash ==
    /\ main # "off" /\ Spend("crash")
    /\ ProcessEnds

OrphanEnds(a) ==
    /\ a \in orphans
    /\ orphans' = orphans \ {a}
    /\ \E found \in {"none", "cloned"} : CloneBecomes(a, found)
    /\ UNCHANGED <<bootVars, syncVars, statusVars, processVars, config, edited,
                   clock, wall, budget>>

\* The container goes away, with every process in it.
ContainerKilled ==
    /\ Spend("crash")
    /\ Forgotten /\ ConfigRemains /\ orphans' = {}
    /\ UNCHANGED <<edited, disk, origin, clock, wall>>

EditConfig(c) ==
    /\ Spend("config") /\ config # c
    /\ config' = c /\ edited' = TRUE
    /\ UNCHANGED <<bootVars, syncVars, statusVars, processVars, diskVars,
                   clock, wall>>

Tick ==
    /\ clock < MaxTime
    /\ clock' = clock + 1 /\ wall' = wall + 1
    /\ UNCHANGED <<bootVars, syncVars, statusVars, processVars, config, edited,
                   diskVars, budget>>
\* Somebody, or a time server, sets the clock.
SetTime(time) ==
    /\ Spend("clock") /\ wall # time
    /\ wall' = time
    /\ UNCHANGED <<bootVars, syncVars, statusVars, processVars, config, edited,
                   diskVars, clock>>

-----------------------------------------------------------------------------
Init ==
    /\ config \in Configs /\ edited = FALSE
    /\ disk = [a \in Repos |-> "none"] /\ origin = Nowhere /\ orphans = {}
    /\ main = "off" /\ stop = FALSE
    /\ boot = "ended" /\ url = Nowhere /\ cloning = {} /\ repos = {}
    /\ sync = "none" /\ todo = {} /\ result = "ok" /\ since = 0
    /\ last = [a \in Repos |-> "none"]
    /\ enabled = FALSE /\ status = [a \in Repos |-> Unsynced]
    /\ clock = Second /\ wall = Second /\ budget = Budget

World ==
    \/ Crash \/ ContainerKilled \/ Tick
    \/ \E a \in Repos : OrphanEnds(a)
    \/ \E c \in Configs : EditConfig(c)
    \/ \E time \in Second .. MaxTime : SetTime(time)

Process ==
    StartService \/ StopServing \/ LifespanEnds \/ Stopped \/ JoinTimesOut

Next == BootThread \/ SyncThread \/ Process \/ World

Spec == Init /\ [][Next]_vars

(* The operating system runs the three threads, every git command the two    *)
(* of the backup wait for ends, since run_git gives each a time limit, and   *)
(* the requests the server still has to answer touch nothing but memory.     *)
(* The main thread leaves its join when the thread it waits for has ended.   *)
(* Nothing makes the limit of that join, a crash, a signal or the clock      *)
(* arrive.                                                                   *)
FairSpec ==
    /\ Spec
    /\ WF_vars(BootThread) /\ WF_vars(SyncThread)
    /\ WF_vars(LifespanEnds) /\ WF_vars(Stopped)

-----------------------------------------------------------------------------
(* Properties.                                                               *)

(* Every variable has its type: a thread is at one of its steps, has assets  *)
(* left exactly where its loop has, and only a stopping service is told to   *)
(* stop.                                                                     *)
ServiceTypeOK ==
    /\ config \in Configs /\ edited \in BOOLEAN
    /\ disk \in [Repos -> Disk] /\ orphans \subseteq Repos
    /\ origin \in [Repos -> Remotes \cup {NoUrl}]
    /\ main \in {"off", "serving", "closing", "stopping"} /\ stop \in BOOLEAN
    /\ boot \in {"provision", "load", "clone", "cloning", "reload", "interval",
                 "enable", "start", "join", "ended"}
    /\ url \in [Repos -> Remotes \cup {NoUrl}]
    /\ cloning \subseteq Repos /\ repos \subseteq Repos /\ todo \subseteq Repos
    /\ sync \in {"none", "waiting", "round", "record", "ended"} \cup Steps
    /\ boot = "cloning" => cloning # {}
    /\ sync \in Steps \cup {"record"} => todo # {}
    /\ result \in {"ok", "failed"} /\ since \in 0 .. clock
    /\ enabled \in BOOLEAN
    /\ status \in [Repos -> [attempt : Nat, success : Nat, errorAt : Nat]]
    /\ last \in [Repos -> {"none", "ok", "failed"}]
    /\ clock \in Second .. MaxTime /\ wall \in Nat
    /\ budget \in [Events -> Nat]

\* The status is served to the second.
Stamp(time) == time \div Second

(* The status tells how an asset's last cycle ended, as its documentation    *)
(* says a client may read it: "if last_success is newer than last_error.at,   *)
(* the error has since cleared", and otherwise it has not.                    *)
OutcomeTold ==
    \A a \in Repos : (main # "off" /\ ~(sync = "record" /\ a = First(todo))) =>
        /\ last[a] = "ok" <=> Stamp(status[a].success) > Stamp(status[a].errorAt)
        /\ last[a] = "none" <=> status[a].attempt = 0

(* That holds for times that are served in whole seconds, whatever the       *)
(* interval, as long as nobody sets the clock.                               *)
StatusTellsOutcome == budget["clock"] = Budget["clock"] => OutcomeTold

(* `enabled' is false when the backup is not running: once the bootstrap     *)
(* thread is done, an enabled status means that the service is stopping.     *)
EnabledMeansScheduled ==
    main \in {"serving", "closing"} /\ boot = "ended" => ~enabled

(* When stop_git_backup returns True no thread of the backup is left that    *)
(* could run a git command.                                                  *)
StopWaitsForAll ==
    [][(main = "stopping" /\ boot = "ended" /\ main' = "off")
         => sync \in {"none", "ended"}]_vars

(* One broken asset does not stop the others: each one that is due gets its  *)
(* cycle in the same round, unless the service stops or dies.                *)
EveryRepoServed ==
    \A a \in Repos :
        (sync = "round" /\ a \in todo)
          ~> (sync = "commit" /\ First(todo) = a) \/ stop \/ main = "off"

(* The threads of a stopping service end by themselves, the main thread      *)
(* waiting for one and that one for the other.                               *)
StopCompletes == main \in {"closing", "stopping"} ~> main = "off"

(* A clone that outlived its service is not disturbed: the restarted service *)
(* starts no second one in the same directories, however often it dies.      *)
OneCloneAtATime == boot = "cloning" => First(cloning) \notin orphans

(* The three steps are those of CyclePhases: a cycle goes well only when all *)
(* three have, is cut short by a stop only between two, and is not recorded  *)
(* then.                                                                     *)
PhaseOf == IF sync \in Steps THEN sync
           ELSE IF sync \in {"none", "ended"} THEN "off" ELSE "idle"
Cycle == INSTANCE CyclePhases WITH
    phase <- PhaseOf,
    stop <- stop /\ PhaseOf # "off",
    result <- IF sync = "record" THEN result ELSE "none"
FollowsPhases == Cycle!Spec

(* A claim of the documentation that the code does not keep.                 *)

(* A remote that was changed in config.toml is the one the backup works with *)
(* after the service has been restarted.                                     *)
BacksUpToConfigured ==
    sync = "push" /\ ~edited =>
        origin[First(todo)] \in {url[First(todo)], NoUrl}
====
