------------------------ MODULE BackupServiceProofs ------------------------
(* Proofs about BackupService, for any assets, remotes, interval, bounds and *)
(* budgets: its types, the order in which its threads end, and what the      *)
(* status says.                                                              *)
EXTENDS BackupService, WellFoundedInduction, TLAPS

-----------------------------------------------------------------------------
(* The inductive invariant.                                                  *)

\* Who runs when.  The bootstrap thread outlives the scheduler's, which ends
\* only in a service that stops.
Threads ==
    /\ main = "off" => boot = "ended" /\ sync = "none" /\ ~enabled /\ ~stop
    /\ boot \notin {"join", "ended"} => sync = "none"
    /\ boot = "ended" => sync \in {"none", "ended"}
    /\ boot = "join" => sync # "none"
    /\ enabled => boot \in {"start", "join", "ended"}
    /\ enabled /\ boot = "ended" => sync = "ended"
    /\ sync = "ended" => stop
    /\ stop => main = "stopping"

Untouched == budget["clock"] = Budget["clock"]

InRound == sync \in {"round", "record"} \cup Steps
Pending(a) == sync = "record" /\ a = First(todo)

\* What the status holds of one asset, once its last outcome is recorded.
Told(a) ==
    /\ status[a].success <= status[a].attempt
    /\ status[a].errorAt <= status[a].attempt
    /\ status[a].attempt <= clock
    /\ ~Pending(a) =>
         /\ last[a] = "none" =>
              /\ status[a].attempt = 0
              /\ status[a].success = 0 /\ status[a].errorAt = 0
         /\ last[a] = "ok" =>
              /\ status[a].success = status[a].attempt
              /\ status[a].attempt >= Second
              /\ status[a].errorAt + Second <= status[a].success
         /\ last[a] = "failed" =>
              /\ status[a].errorAt = status[a].attempt
              /\ status[a].attempt >= Second

\* Rounds are apart in time: what is recorded was recorded before the last
\* wait, except for the assets that have had their turn in this round.
Apart ==
    /\ wall = clock
    /\ sync = "waiting" => \A a \in Repos : status[a].attempt <= since
    /\ InRound =>
         /\ clock >= since + Interval
         /\ \A a \in todo : status[a].attempt <= since
    /\ \A a \in Repos : Told(a)
    /\ sync = "record" => result = last[First(todo)]

IInv ==
    /\ ServiceTypeOK /\ Threads
    /\ budget["clock"] <= Budget["clock"]
    /\ Untouched => Apart

-----------------------------------------------------------------------------
(* What the helpers of the specification return.                             *)

\* The first asset of a set is one of the set.
LEMMA FirstIsMember ==
    ASSUME NEW S \in SUBSET Repos, S # {}
    PROVE  First(S) \in S
<1> DEFINE Places == {i \in DOMAIN Assets : Assets[i] \in S}
           R == {ss \in Nat \X Nat : ss[1] < ss[2]}
<1>1. DOMAIN Assets \subseteq Nat
  BY ServiceAssumption
<1>2. Places \subseteq Nat /\ Places # {}
  BY <1>1 DEF Repos
<1>3. PICK i \in Places : \A j \in Places : ~(<<j, i>> \in R)
  <2>1. IsWellFoundedOn(R, Nat)
    BY NatLessThanWellFounded DEF OpToRel
  <2> HIDE DEF Places, R
  <2> QED  BY <1>2, <2>1, WFMin
<1>4. ASSUME NEW j \in Places PROVE i <= j
  <2>1. i \in Nat /\ j \in Nat
    BY <1>2
  <2>2. j < i => <<j, i>> \in R
    BY <2>1
  <2> QED  BY <1>3, <2>1, <2>2
<1>5. /\ i \in DOMAIN Assets /\ Assets[i] \in S
      /\ \A j \in DOMAIN Assets : Assets[j] \in S => i <= j
  BY <1>4
<1> QED  BY <1>5 DEF First

\* A file that is read names only remotes, and the files the service itself
\* may leave are files the user could have written.
LEMMA FilesAreFiles ==
    /\ Invalid \in Configs /\ Template \in Configs
    /\ Nowhere \in [Repos -> Remotes \cup {NoUrl}]
    /\ config \in Configs => Loaded \in [Repos -> Remotes \cup {NoUrl}]
<1>1. Nowhere \in [Repos -> Remotes \cup {NoUrl}]
  BY DEF Nowhere
<1>2. Invalid \in Configs
  BY DEF Invalid, Configs
<1>3. Template \in Configs
  BY <1>1 DEF Template, Configs, Nowhere
<1>4. ASSUME config \in Configs
      PROVE  config.url \in [Repos -> Remotes \cup {NoUrl}]
  BY <1>1, <1>4 DEF Configs
<1> QED  BY <1>1, <1>2, <1>3, <1>4 DEF Loaded

\* A second is long enough for two times to be told apart.
LEMMA StampsApart ==
    ASSUME NEW s \in Nat, NEW t \in Nat
    PROVE  /\ t + Second <= s => Stamp(s) > Stamp(t)
           /\ s <= t => ~(Stamp(s) > Stamp(t))
           /\ Stamp(0) = 0
  BY ServiceAssumption DEF Stamp

-----------------------------------------------------------------------------
(* Types.                                                                    *)

LEMMA BootTypes ==
    ASSUME ServiceTypeOK, BootThread
    PROVE  ServiceTypeOK'
<1> USE DEF ServiceTypeOK, BootRuns, bootVars, syncVars, statusVars, processVars,
            diskVars, worldVars, Disk
<1>1. CASE Provision
  BY <1>1, FilesAreFiles DEF Provision
<1>2. CASE LoadToClone
  BY <1>2, FilesAreFiles DEF LoadToClone, Configured
<1>3. CASE SkipClone
  BY <1>3 DEF SkipClone
<1>4. CASE StartClone
  <2>1. First(cloning) \in cloning
    BY <1>4, FirstIsMember DEF StartClone
  <2> QED  BY <1>4, <2>1 DEF StartClone
<1>5. CASE CannotMakeDirectory
  BY <1>5 DEF CannotMakeDirectory
<1>6. CASE CloneEnds
  <2>1. First(cloning) \in Repos
    BY <1>6, FirstIsMember DEF CloneEnds
  <2> QED  BY <1>6, <2>1 DEF CloneEnds, CloneBecomes
<1>7. CASE CheckStop
  BY <1>7 DEF CheckStop
<1>8. CASE LoadToSync
  BY <1>8, FilesAreFiles DEF LoadToSync, Configured
<1>9. CASE LoadInterval
  BY <1>9 DEF LoadInterval
<1>10. CASE Enable
  BY <1>10 DEF Enable
<1>11. CASE StartThread
  BY <1>11, ServiceAssumption DEF StartThread, Steps
<1>12. CASE Join
  BY <1>12 DEF Join
<1> QED
  BY <1>1, <1>2, <1>3, <1>4, <1>5, <1>6, <1>7, <1>8, <1>9, <1>10, <1>11, <1>12
     DEF BootThread

LEMMA SyncTypes ==
    ASSUME ServiceTypeOK, SyncThread
    PROVE  ServiceTypeOK'
<1> USE DEF ServiceTypeOK, SyncRuns, bootVars, syncVars, statusVars, processVars,
            diskVars, worldVars, Steps
<1>0. clock \in Nat /\ clock \in 0 .. clock
  BY ServiceAssumption
<1>1. CASE StartRound
  BY <1>1 DEF StartRound
<1>2. CASE LoopEnds
  BY <1>2 DEF LoopEnds
<1>3. CASE NextRepo
  BY <1>0, <1>3 DEF NextRepo, RoundEnds
<1>4. CASE Record
  <2>1. First(todo) \in Repos
    BY <1>4, FirstIsMember DEF Record
  <2>2. Recorded(status[First(todo)])
          \in [attempt : Nat, success : Nat, errorAt : Nat]
    BY <2>1 DEF Recorded
  <2>3. status' \in [Repos -> [attempt : Nat, success : Nat, errorAt : Nat]]
    BY <1>4, <2>1, <2>2 DEF Record
  <2> QED  BY <1>4, <2>3 DEF Record, RestOfRound
<1>5. ASSUME NEW step \in Steps, NEW how \in {"ok", "failed"},
             SyncRuns(step), Ends(how), UNCHANGED statusVars
      PROVE  ServiceTypeOK'
  BY <1>5 DEF Ends
<1>6. ASSUME NEW step \in Steps, NEW next \in Steps, StepEnds(step, next)
      PROVE  ServiceTypeOK'
  BY <1>0, <1>6 DEF StepEnds, CutShort, RoundEnds
<1> QED
  BY <1>1, <1>2, <1>3, <1>4, <1>5, <1>6 DEF SyncThread, PushEnds, StepRaises

LEMMA OtherTypes ==
    ASSUME ServiceTypeOK, Process \/ World
    PROVE  ServiceTypeOK'
<1> USE DEF ServiceTypeOK, Spend, bootVars, syncVars, statusVars, processVars,
            diskVars, worldVars, Events
<1>1. CASE StartService
  BY <1>1 DEF StartService
<1>2. CASE StopServing
  BY <1>2 DEF StopServing
<1>3. CASE LifespanEnds
  BY <1>3 DEF LifespanEnds
<1>4. ASSUME Forgotten, ConfigRemains, orphans' \subseteq Repos,
             budget' = budget \/ Spend("crash"),
             UNCHANGED <<edited, disk, origin, clock, wall>>
      PROVE  ServiceTypeOK'
  <2>1. config' \in Configs
    BY <1>4, FilesAreFiles DEF ConfigRemains
  <2>2. budget' \in [Events -> Nat]
    BY <1>4
  <2>3. /\ last' \in [Repos -> {"none", "ok", "failed"}]
        /\ status' \in [Repos -> [attempt : Nat, success : Nat, errorAt : Nat]]
        /\ url' \in [Repos -> Remotes \cup {NoUrl}]
    BY <1>4, FilesAreFiles DEF Forgotten, Unsynced
  <2>4. since' \in 0 .. clock'
    BY <1>4, ServiceAssumption DEF Forgotten
  <2> QED  BY <1>4, <2>1, <2>2, <2>3, <2>4 DEF Forgotten, Steps
<1>5. ASSUME ProcessEnds PROVE orphans' \subseteq Repos
  BY <1>5, FirstIsMember DEF ProcessEnds
<1>6. CASE Stopped \/ JoinTimesOut \/ Crash
  BY <1>4, <1>5, <1>6 DEF Stopped, JoinTimesOut, Crash, ProcessEnds
<1>7. CASE ContainerKilled
  BY <1>4, <1>7 DEF ContainerKilled
<1>8. ASSUME NEW a \in Repos, OrphanEnds(a) PROVE ServiceTypeOK'
  BY <1>8 DEF OrphanEnds, CloneBecomes, Disk
<1>9. ASSUME NEW c \in Configs, EditConfig(c) PROVE ServiceTypeOK'
  BY <1>9 DEF EditConfig
<1>10. CASE Tick
  BY <1>10, ServiceAssumption DEF Tick
<1>11. ASSUME NEW time \in Second .. MaxTime, SetTime(time) PROVE ServiceTypeOK'
  BY <1>11, ServiceAssumption DEF SetTime
<1> QED
  BY <1>1, <1>2, <1>3, <1>6, <1>7, <1>8, <1>9, <1>10, <1>11 DEF Process, World

LEMMA TypesStep ==
    ASSUME ServiceTypeOK, [Next]_vars
    PROVE  ServiceTypeOK'
<1>1. CASE UNCHANGED vars
  BY <1>1 DEF vars, bootVars, syncVars, statusVars, processVars, diskVars,
              worldVars, ServiceTypeOK
<1> QED  BY <1>1, BootTypes, SyncTypes, OtherTypes DEF Next

-----------------------------------------------------------------------------
(* The order in which threads begin and end.                                 *)

LEMMA ThreadsStep ==
    ASSUME ServiceTypeOK, Threads, [Next]_vars
    PROVE  Threads'
<1> USE DEF Threads, BootRuns, SyncRuns, bootVars, syncVars, statusVars,
            processVars, diskVars, worldVars, Steps
<1> main \in {"off", "serving", "closing", "stopping"} /\ stop \in BOOLEAN
      /\ enabled \in BOOLEAN
  BY DEF ServiceTypeOK
<1>1. ASSUME Forgotten PROVE Threads'
  BY <1>1 DEF Forgotten
<1>2. CASE Provision \/ LoadToClone \/ SkipClone \/ StartClone
           \/ CannotMakeDirectory \/ CloneEnds \/ CheckStop
  BY <1>2 DEF Provision, LoadToClone, SkipClone, StartClone,
              CannotMakeDirectory, CloneEnds, CheckStop
<1>3. CASE LoadToSync \/ LoadInterval \/ Enable
  BY <1>3 DEF LoadToSync, LoadInterval, Enable
<1>4. CASE StartThread \/ Join
  BY <1>4 DEF StartThread, Join
<1>5. CASE StartRound \/ LoopEnds \/ NextRepo \/ Record
  BY <1>5 DEF StartRound, LoopEnds, NextRepo, Record, RoundEnds
<1>6. ASSUME NEW step \in Steps, NEW how, SyncRuns(step), Ends(how),
             UNCHANGED statusVars
      PROVE  Threads'
  BY <1>6 DEF Ends
<1>7. ASSUME NEW step \in Steps, NEW next \in Steps, StepEnds(step, next)
      PROVE  Threads'
  BY <1>7 DEF StepEnds, CutShort, RoundEnds
<1>8. CASE StartService \/ StopServing \/ LifespanEnds
  BY <1>8 DEF StartService, StopServing, LifespanEnds
<1>9. CASE Stopped \/ JoinTimesOut \/ Crash \/ ContainerKilled
  BY <1>1, <1>9 DEF Stopped, JoinTimesOut, Crash, ContainerKilled, ProcessEnds
<1>10. ASSUME \/ \E a \in Repos : OrphanEnds(a)
              \/ \E c \in Configs : EditConfig(c)
              \/ \E time \in Second .. MaxTime : SetTime(time)
              \/ Tick \/ UNCHANGED vars
       PROVE  Threads'
  BY <1>10 DEF OrphanEnds, EditConfig, SetTime, Tick, vars
<1> QED
  BY <1>2, <1>3, <1>4, <1>5, <1>6, <1>7, <1>8, <1>9, <1>10
     DEF Next, BootThread, SyncThread, PushEnds, StepRaises, Process, World

-----------------------------------------------------------------------------
(* What the status says.                                                     *)

\* A clock that was set stays set, and nobody else changes what is left of
\* its budget.
LEMMA BudgetStep ==
    ASSUME ServiceTypeOK, budget["clock"] <= Budget["clock"], [Next]_vars
    PROVE  /\ budget'["clock"] <= Budget["clock"]
           /\ Untouched' => Untouched
<1> USE DEF bootVars, syncVars, statusVars, processVars, diskVars, worldVars,
            BootRuns, SyncRuns, Untouched, Events
<1>0. budget \in [Events -> Nat] /\ Budget \in [Events -> Nat]
  BY ServiceAssumption DEF ServiceTypeOK
<1>1. CASE BootThread
  BY <1>1 DEF BootThread, Provision, LoadToClone, SkipClone, StartClone,
              CannotMakeDirectory, CloneEnds, CheckStop, LoadToSync,
              LoadInterval, Enable, StartThread, Join
<1>2. CASE SyncThread
  BY <1>2 DEF SyncThread, StartRound, LoopEnds, NextRepo, Record, PushEnds,
              StepEnds, StepRaises
<1>3. CASE Process
  BY <1>0, <1>3 DEF Process, StartService, StopServing, LifespanEnds, Stopped,
              JoinTimesOut, Spend
<1>4. CASE World
  BY <1>0, <1>4 DEF World, Crash, ContainerKilled, Tick, OrphanEnds, EditConfig,
              SetTime, Spend
<1>5. CASE UNCHANGED vars
  BY <1>5 DEF vars
<1> QED  BY <1>1, <1>2, <1>3, <1>4, <1>5 DEF Next

\* Steps that leave the scheduler's thread, the status and the clocks alone.
LEMMA ApartUnmoved ==
    ASSUME Apart, UNCHANGED <<sync, todo, since, result, last, status, clock, wall>>
    PROVE  Apart'
  BY DEF Apart, Told, Pending, InRound

\* A process that ends takes its status along.
LEMMA ApartForgotten ==
    ASSUME Apart, ServiceTypeOK, Forgotten, UNCHANGED <<clock, wall>>
    PROVE  Apart'
<1>1. \A a \in Repos : status'[a] = Unsynced /\ last'[a] = "none"
  BY DEF Forgotten
<1>2. sync' = "none" /\ clock' \in Nat /\ wall' = clock'
  BY ServiceAssumption DEF Forgotten, Apart, ServiceTypeOK
<1> QED  BY <1>1, <1>2 DEF Apart, Told, Pending, InRound, Unsynced, Steps

LEMMA ApartTick ==
    ASSUME Apart, ServiceTypeOK, Tick
    PROVE  Apart'
<1>1. /\ clock' = clock + 1 /\ wall' = wall + 1
      /\ UNCHANGED <<sync, todo, since, result, last, status>>
  BY DEF Tick, syncVars, statusVars
<1>2. /\ clock \in Nat /\ since \in Nat /\ Interval \in Nat
      /\ \A a \in Repos : status[a].attempt \in Nat
  BY ServiceAssumption DEF ServiceTypeOK
<1>3. ASSUME NEW a \in Repos PROVE Told(a)'
  BY <1>1, <1>2 DEF Apart, Told, Pending
<1> QED  BY <1>1, <1>2, <1>3 DEF Apart, InRound

LEMMA ApartRound ==
    ASSUME Apart, ServiceTypeOK, Threads,
           StartThread \/ StartRound \/ LoopEnds \/ NextRepo
    PROVE  Apart'
<1> USE DEF SyncRuns, worldVars, statusVars
<1>1. UNCHANGED <<last, status, result, clock, wall>>
  BY DEF StartThread, StartRound, LoopEnds, NextRepo
<1>2. sync # "record" /\ sync' # "record"
  BY DEF StartThread, StartRound, LoopEnds, NextRepo, RoundEnds, Threads
<1>3. \A a \in Repos : Told(a)'
  BY <1>1, <1>2 DEF Apart, Told, Pending
<1>4. \A a \in Repos : status[a].attempt <= clock
  BY DEF Apart, Told
<1>5. CASE sync' = "waiting" /\ since' = clock
  BY <1>1, <1>2, <1>3, <1>4, <1>5 DEF Apart, InRound, Steps
<1>6. CASE StartRound
  <2>1. sync = "waiting" /\ sync' = "round" /\ todo' \subseteq Repos
          /\ since' = since /\ clock >= since + Interval
    BY <1>6 DEF StartRound, WaitIsOver, ServiceTypeOK
  <2> QED  BY <1>1, <1>3, <2>1 DEF Apart, InRound
<1>7. CASE sync' = "ended"
  BY <1>1, <1>3, <1>7 DEF Apart, InRound, Steps
<1>8. CASE sync = "round" /\ sync' = "commit" /\ UNCHANGED <<todo, since>>
  BY <1>1, <1>3, <1>8 DEF Apart, InRound
<1> QED
  BY <1>5, <1>6, <1>7, <1>8 DEF StartThread, LoopEnds, NextRepo, RoundEnds

LEMMA ApartStep ==
    ASSUME Apart, ServiceTypeOK, NEW step \in Steps, NEW next \in Steps,
           StepEnds(step, next)
    PROVE  Apart'
<1>1. UNCHANGED <<last, status, result, clock, wall>>
  BY DEF StepEnds, SyncRuns, worldVars, statusVars, CutShort
<1>2. sync \in Steps /\ sync' # "record" /\ sync # "record"
  BY DEF StepEnds, SyncRuns, CutShort, RoundEnds, Steps
<1>3. \A a \in Repos : Told(a)' /\ status[a].attempt <= clock
  BY <1>1, <1>2 DEF Apart, Told, Pending
<1>4. CASE sync' = "waiting" /\ since' = clock
  BY <1>1, <1>3, <1>4 DEF Apart, InRound, Steps
<1>5. CASE sync' \in Steps /\ UNCHANGED <<todo, since>>
  BY <1>1, <1>2, <1>3, <1>5 DEF Apart, InRound, Steps
<1> QED  BY <1>4, <1>5 DEF StepEnds, CutShort, RoundEnds

\* From the end of a cycle to its record the status is one outcome behind.
LEMMA ApartEnds ==
    ASSUME Apart, ServiceTypeOK, NEW step \in Steps, SyncRuns(step),
           NEW how \in {"ok", "failed"}, Ends(how), UNCHANGED statusVars
    PROVE  Apart'
<1> DEFINE a0 == First(todo)
<1>1. /\ UNCHANGED <<todo, since, status, clock, wall>>
      /\ sync \in Steps /\ sync' = "record" /\ result' = how
      /\ last' = [last EXCEPT ![a0] = how]
  BY DEF SyncRuns, Ends, worldVars, statusVars
<1>2. a0 \in todo /\ a0 \in Repos
  BY <1>1, FirstIsMember DEF ServiceTypeOK
<1>3. result' = last'[First(todo')]
  BY <1>1, <1>2 DEF ServiceTypeOK
<1>4. ASSUME NEW a \in Repos PROVE Told(a)'
  <2>1. Told(a) /\ ~Pending(a)
    BY <1>1 DEF Apart, Pending, Steps
  <2>2. CASE a = a0
    BY <1>1, <2>1, <2>2 DEF Told, Pending
  <2>3. CASE a # a0
    BY <1>1, <2>1, <2>3 DEF Told, ServiceTypeOK
  <2> QED  BY <2>2, <2>3
<1> QED  BY <1>1, <1>3, <1>4 DEF Apart, InRound

\* What is recorded is later, by an interval, than all there was.
LEMMA ApartRecord ==
    ASSUME Apart, ServiceTypeOK, Record
    PROVE  Apart'
<1>0. First(todo) \in todo /\ First(todo) \in Repos
  BY FirstIsMember DEF Record, SyncRuns, ServiceTypeOK
<1> PICK a0 \in Repos : a0 = First(todo)
  BY <1>0
<1>1. /\ UNCHANGED <<last, result, since, clock, wall>>
      /\ sync = "record" /\ sync' = "round" /\ todo' = todo \ {a0}
      /\ status' = [status EXCEPT ![a0] = Recorded(@)]
  BY DEF Record, RestOfRound, SyncRuns, worldVars
<1>2. a0 \in todo /\ a0 \in Repos
  BY <1>0
<1>3. /\ clock \in Nat /\ since \in Nat /\ Interval \in Nat /\ Second \in Nat
      /\ Interval >= Second /\ clock >= Second /\ wall = clock
      /\ clock >= since + Interval
  BY <1>1, ServiceAssumption DEF ServiceTypeOK, Apart, InRound
<1>4. ASSUME NEW a \in Repos, a # a0 PROVE Told(a)' /\ status'[a] = status[a]
  <2>1. Told(a) /\ ~Pending(a) /\ status'[a] = status[a]
    BY <1>1, <1>4 DEF Apart, Pending, ServiceTypeOK
  <2> QED  BY <1>1, <2>1 DEF Told
<1>5. Told(a0)'
  <2> DEFINE was == status[a0]
  <2>1. /\ was.attempt \in Nat /\ was.success \in Nat /\ was.errorAt \in Nat
        /\ was.success <= was.attempt /\ was.errorAt <= was.attempt
        /\ was.attempt <= since
    BY <1>1, <1>2 DEF Apart, Told, InRound, ServiceTypeOK
  <2>2. status'[a0] = Recorded(was) /\ result = last[a0]
    BY <1>1, <1>2 DEF Apart, ServiceTypeOK
  <2>3. last'[a0] \in {"ok", "failed"} /\ last'[a0] = result
    BY <1>1, <2>2 DEF ServiceTypeOK
  <2> HIDE DEF was
  <2>4. CASE result = "ok"
    <3>1. /\ status'[a0].attempt = clock /\ status'[a0].success = clock
          /\ status'[a0].errorAt = was.errorAt
      BY <1>3, <2>2, <2>4 DEF Recorded
    <3>2. was.errorAt + Second <= clock /\ was.errorAt <= clock
      BY <1>3, <2>1
    <3> QED  BY <1>1, <1>3, <2>3, <2>4, <3>1, <3>2 DEF Told
  <2>5. CASE result = "failed"
    <3>1. /\ status'[a0].attempt = clock /\ status'[a0].errorAt = clock
          /\ status'[a0].success = was.success
      BY <1>3, <2>2, <2>5 DEF Recorded
    <3>2. was.success <= clock
      BY <1>3, <2>1
    <3> QED  BY <1>1, <1>3, <2>3, <2>5, <3>1, <3>2 DEF Told
  <2> QED  BY <2>3, <2>4, <2>5
<1>6. ASSUME NEW a \in todo' PROVE status'[a].attempt <= since
  <2>1. a \in todo /\ a \in Repos /\ a # a0
    BY <1>1, <1>6 DEF ServiceTypeOK
  <2>2. status[a].attempt <= since
    BY <1>1, <2>1 DEF Apart, InRound
  <2> QED  BY <1>4, <2>1, <2>2
<1> QED  BY <1>1, <1>3, <1>4, <1>5, <1>6 DEF Apart, InRound

\* Every step of a service whose clock nobody sets keeps the rounds apart.
LEMMA ApartNext ==
    ASSUME Apart, ServiceTypeOK, Threads, budget["clock"] <= Budget["clock"],
           [Next]_vars, Untouched, Untouched'
    PROVE  Apart'
<1>1. CASE StartThread \/ SyncThread
  <2>1. CASE StartThread \/ StartRound \/ LoopEnds \/ NextRepo
    BY <2>1, ApartRound
  <2>2. CASE Record
    BY <2>2, ApartRecord
  <2>3. CASE PushEnds \/ \E step \in Steps : StepRaises(step)
    BY <2>3, ApartEnds DEF PushEnds, StepRaises, Steps
  <2>4. CASE StepEnds("commit", "pull") \/ StepEnds("pull", "push")
    BY <2>4, ApartStep DEF Steps
  <2> QED  BY <1>1, <2>1, <2>2, <2>3, <2>4 DEF SyncThread
<1>2. CASE BootThread /\ ~StartThread
  <2>1. UNCHANGED <<sync, todo, since, result, last, status, clock, wall>>
    BY <1>2 DEF BootThread, BootRuns, syncVars, statusVars, worldVars, diskVars,
                Provision, LoadToClone, SkipClone, StartClone,
                CannotMakeDirectory, CloneEnds, CheckStop, LoadToSync,
                LoadInterval, Enable, Join
  <2> QED  BY <2>1, ApartUnmoved
<1>3. CASE StartService \/ StopServing \/ LifespanEnds
  <2>1. UNCHANGED <<sync, todo, since, result, last, status, clock, wall>>
    BY <1>3 DEF bootVars, syncVars, statusVars, worldVars, diskVars,
                StartService, StopServing, LifespanEnds
  <2> QED  BY <2>1, ApartUnmoved
<1>4. CASE Stopped \/ JoinTimesOut \/ Crash \/ ContainerKilled
  <2>1. Forgotten /\ UNCHANGED <<clock, wall>>
    BY <1>4 DEF Stopped, JoinTimesOut, Crash, ContainerKilled, ProcessEnds
  <2> QED  BY <2>1, ApartForgotten
<1>5. CASE \/ \E a \in Repos : OrphanEnds(a)
          \/ \E c \in Configs : EditConfig(c)
  <2>1. UNCHANGED <<sync, todo, since, result, last, status, clock, wall>>
    BY <1>5 DEF OrphanEnds, EditConfig, syncVars, statusVars, worldVars
  <2> QED  BY <2>1, ApartUnmoved
<1>6. CASE Tick
  BY <1>6, ApartTick
<1>7. ASSUME NEW time \in Second .. MaxTime, SetTime(time) PROVE FALSE
  <2>1. budget \in [Events -> Nat] /\ "clock" \in Events
    BY DEF ServiceTypeOK, Events
  <2>2. budget'["clock"] = budget["clock"] - 1 /\ budget["clock"] \in Nat
    BY <1>7, <2>1 DEF SetTime, Spend
  <2> QED  BY <2>2 DEF Untouched
<1>8. CASE Process
  BY <1>3, <1>4, <1>8 DEF Process
<1>9. CASE World
  BY <1>4, <1>5, <1>6, <1>7, <1>9 DEF World
<1>10. CASE BootThread \/ SyncThread
  BY <1>1, <1>2, <1>10
<1>11. CASE UNCHANGED vars
  <2>1. UNCHANGED <<sync, todo, since, result, last, status, clock, wall>>
    BY <1>11 DEF vars, syncVars, statusVars, worldVars
  <2> QED  BY <2>1, ApartUnmoved
<1> QED  BY <1>8, <1>9, <1>10, <1>11 DEF Next

LEMMA InitHolds ==
    ASSUME Init
    PROVE  IInv
<1> USE ServiceAssumption DEF Init
<1>1. ServiceTypeOK
  <2>1. /\ disk \in [Repos -> Disk] /\ last \in [Repos -> {"none", "ok", "failed"}]
        /\ status \in [Repos -> [attempt : Nat, success : Nat, errorAt : Nat]]
    BY DEF Disk, Unsynced
  <2>2. clock \in Second .. MaxTime /\ wall \in Nat /\ since \in 0 .. clock
    OBVIOUS
  <2>3. /\ origin \in [Repos -> Remotes \cup {NoUrl}]
        /\ url \in [Repos -> Remotes \cup {NoUrl}]
    BY FilesAreFiles
  <2> QED  BY <2>1, <2>2, <2>3 DEF ServiceTypeOK, Steps
<1>2. Threads
  BY DEF Threads
<1>3. budget["clock"] <= Budget["clock"]
  BY DEF Events
<1>4. Apart
  BY DEF Apart, Told, Pending, InRound, Unsynced, Steps
<1> QED  BY <1>1, <1>2, <1>3, <1>4 DEF IInv

LEMMA NextKeeps ==
    ASSUME IInv, [Next]_vars
    PROVE  IInv'
<1>1. ServiceTypeOK' /\ Threads'
  BY TypesStep, ThreadsStep DEF IInv
<1>2. budget'["clock"] <= Budget["clock"] /\ (Untouched' => Untouched)
  BY BudgetStep DEF IInv
<1>3. Untouched' => Apart'
  BY <1>2, ApartNext DEF IInv
<1> QED  BY <1>1, <1>2, <1>3 DEF IInv

LEMMA Inductive == Spec => []IInv
<1>1. Init => IInv
  BY InitHolds
<1>2. IInv /\ [Next]_vars => IInv'
  BY NextKeeps
<1> QED  BY <1>1, <1>2, PTL DEF Spec

-----------------------------------------------------------------------------
(* The theorems.                                                             *)

\* The threads of the service are where their loops have them (bootstrap.py,
\* scheduler.py), whatever is edited, stopped or killed.
THEOREM ServiceTypes == Spec => []ServiceTypeOK
<1>1. IInv => ServiceTypeOK
  BY DEF IInv
<1> QED  BY <1>1, Inductive, PTL

\* An enabled status (bootstrap.py, start_git_sync) means that rounds are run
\* until the service is told to stop.
THEOREM EnabledIsScheduled == Spec => []EnabledMeansScheduled
<1>1. IInv => EnabledMeansScheduled
  BY DEF IInv, Threads, EnabledMeansScheduled
<1> QED  BY <1>1, Inductive, PTL

\* A stop that is reported complete (bootstrap.py, stop_git_backup) left no
\* scheduler's thread behind.
THEOREM StopWaits == Spec => StopWaitsForAll
<1>1. IInv /\ [Next]_vars =>
        [(main = "stopping" /\ boot = "ended" /\ main' = "off")
           => sync \in {"none", "ended"}]_vars
  BY DEF IInv, Threads
<1> QED  BY <1>1, Inductive, PTL DEF Spec, StopWaitsForAll

\* The two times of an asset's status (status.py) tell how its last cycle
\* ended, for any interval of a second or more, unless the clock was set.
THEOREM StatusTold == Spec => []StatusTellsOutcome
<1>1. ASSUME IInv, Untouched PROVE OutcomeTold
  <2> SUFFICES ASSUME NEW a \in Repos, main # "off", ~Pending(a)
               PROVE  /\ last[a] = "ok" <=>
                           Stamp(status[a].success) > Stamp(status[a].errorAt)
                      /\ last[a] = "none" <=> status[a].attempt = 0
    BY DEF OutcomeTold, Pending
  <2>1. /\ Told(a) /\ last[a] \in {"none", "ok", "failed"}
        /\ status[a].attempt \in Nat /\ status[a].success \in Nat
        /\ status[a].errorAt \in Nat /\ Second \in Nat \ {0}
    BY <1>1, ServiceAssumption DEF IInv, Apart, ServiceTypeOK
  <2>2. CASE last[a] = "none"
    <3>1. status[a].success = 0 /\ status[a].errorAt = 0
      BY <2>1, <2>2 DEF Told
    <3>2. status[a].success <= status[a].errorAt
      BY <3>1
    <3>3. ~(Stamp(status[a].success) > Stamp(status[a].errorAt))
      BY <2>1, <3>2, StampsApart
    <3> QED  BY <2>1, <2>2, <3>3 DEF Told
  <2>3. CASE last[a] = "ok"
    <3>1. Stamp(status[a].success) > Stamp(status[a].errorAt)
      BY <2>1, <2>3, StampsApart DEF Told
    <3> QED  BY <2>1, <2>3, <3>1 DEF Told
  <2>4. CASE last[a] = "failed"
    <3>1. status[a].success <= status[a].errorAt
      BY <2>1, <2>4 DEF Told
    <3>2. ~(Stamp(status[a].success) > Stamp(status[a].errorAt))
      BY <2>1, <3>1, StampsApart
    <3> QED  BY <2>1, <2>4, <3>2 DEF Told
  <2> QED  BY <2>1, <2>2, <2>3, <2>4
<1>2. IInv => StatusTellsOutcome
  BY <1>1 DEF StatusTellsOutcome, Untouched
<1> QED  BY <1>2, Inductive, PTL

-----------------------------------------------------------------------------
(* One clone at a time.                                                      *)

\* Where a clone runs, of this process or of an earlier one, there is
\* something in the directory.  So is_cloned keeps the next one away.
Clones ==
    /\ boot = "cloning" => /\ disk[First(cloning)] # "none"
                           /\ First(cloning) \notin orphans
    /\ \A a \in orphans : disk[a] # "none"

LEMMA ClonesBoot ==
    ASSUME ServiceTypeOK, Clones, BootThread
    PROVE  Clones'
<1> USE DEF ServiceTypeOK, Clones, BootRuns, worldVars, diskVars
<1>1. CASE StartClone
  <2>1. First(cloning) \in Repos
    BY <1>1, FirstIsMember DEF StartClone
  <2>2. /\ disk[First(cloning)] = "none" /\ cloning' = cloning /\ orphans' = orphans
        /\ disk' = [disk EXCEPT ![First(cloning)] = "partial"]
    BY <1>1 DEF StartClone, IsCloned
  <2>3. First(cloning') = First(cloning)
    BY <2>2
  <2>4. First(cloning) \notin orphans
    BY <2>2
  <2> QED  BY <2>1, <2>2, <2>3, <2>4
<1>2. CASE CloneEnds
  <2>1. First(cloning) \in Repos
    BY <1>2, FirstIsMember DEF CloneEnds
  <2>2. /\ First(cloning) \notin orphans /\ orphans' = orphans
        /\ boot' = "clone" /\ \A a \in orphans : disk'[a] = disk[a]
    BY <1>2, <2>1 DEF CloneEnds, CloneBecomes
  <2> QED  BY <2>2
<1>3. CASE Provision \/ LoadToClone \/ SkipClone \/ CannotMakeDirectory \/ CheckStop
           \/ LoadToSync \/ LoadInterval \/ Enable \/ StartThread \/ Join
  <2>1. disk' = disk /\ orphans' = orphans /\ boot' # "cloning"
    BY <1>3 DEF Provision, LoadToClone, SkipClone, CannotMakeDirectory,
       CheckStop, LoadToSync, LoadInterval, Enable, StartThread, Join
  <2> QED  BY <2>1
<1> QED  BY <1>1, <1>2, <1>3 DEF BootThread

LEMMA ClonesOther ==
    ASSUME ServiceTypeOK, Clones, SyncThread \/ Process \/ World \/ UNCHANGED vars
    PROVE  Clones'
<1> USE DEF ServiceTypeOK, Clones, diskVars
<1> DEFINE Kept == /\ disk' = disk /\ orphans' = orphans
                   /\ (boot' = boot /\ cloning' = cloning) \/ boot' # "cloning"
<1>1. Kept => Clones'
  OBVIOUS
<1>2. CASE ProcessEnds
  <2>1. /\ boot' = "ended" /\ disk' = disk
        /\ \/ orphans' = orphans
           \/ boot = "cloning" /\ orphans' = orphans \cup {First(cloning)}
    BY <1>2 DEF ProcessEnds, Forgotten
  <2> QED  BY <2>1
<1>3. ASSUME NEW a \in Repos, OrphanEnds(a)
      PROVE  Clones'
  <2>1. /\ orphans' = orphans \ {a} /\ boot' = boot /\ cloning' = cloning
        /\ \A b \in Repos \ {a} : disk'[b] = disk[b]
        /\ a \in orphans
    BY <1>3 DEF OrphanEnds, CloneBecomes, bootVars
  <2>2. boot = "cloning" => First(cloning) \in Repos \ {a}
    BY <2>1, FirstIsMember
  <2>3. First(cloning') = First(cloning)
    BY <2>1
  <2> QED  BY <2>1, <2>2, <2>3
<1>4. CASE ContainerKilled
  <2>1. boot' = "ended" /\ orphans' = {}
    BY <1>4 DEF ContainerKilled, Forgotten
  <2> QED  BY <2>1
<1>5. CASE SyncThread \/ UNCHANGED vars
  <2>1. Kept
    BY <1>5 DEF SyncThread, SyncRuns, StartRound, LoopEnds, NextRepo, Record,
       PushEnds, StepEnds, StepRaises, worldVars, bootVars, vars
  <2> QED  BY <1>1, <2>1
<1>6. CASE Process
  <2>1. Kept \/ ProcessEnds
    BY <1>6 DEF Process, StartService, StopServing, LifespanEnds, Stopped,
       JoinTimesOut, worldVars, bootVars
  <2> QED  BY <1>1, <1>2, <2>1
<1>7. CASE World
  <2>1. \/ Kept \/ ProcessEnds \/ ContainerKilled
        \/ \E a \in Repos : OrphanEnds(a)
    BY <1>7 DEF World, Crash, Tick, EditConfig, SetTime, bootVars
  <2> QED  BY <1>1, <1>2, <1>3, <1>4, <2>1
<1> QED  BY <1>5, <1>6, <1>7

\* clone.py: however often the service dies while it clones, and however
\* long the clones it leaves behind go on, no two clones of it run in one
\* asset's directories.
THEOREM OneClone == Spec => []OneCloneAtATime
<1>1. Init => Clones
  BY DEF Init, Clones
<1>2. ServiceTypeOK /\ Clones /\ [Next]_vars => Clones'
  BY ClonesBoot, ClonesOther DEF Next
<1>3. Clones => OneCloneAtATime
  BY DEF Clones, OneCloneAtATime
<1> QED  BY <1>1, <1>2, <1>3, ServiceTypes, PTL DEF Spec

-----------------------------------------------------------------------------
(* The scheduler's thread and the phases of a cycle.                         *)

\* Where the thread is and what it looks like from outside.
LEMMA PhaseIs ==
    /\ sync \in Steps => PhaseOf = sync /\ PhaseOf \in Cycle!Phases
    /\ sync \in {"waiting", "round", "record"} => PhaseOf = "idle"
    /\ sync \in {"none", "ended"} => PhaseOf = "off"
  BY DEF PhaseOf, Steps, Cycle!Phases

\* The scheduler's own steps.
LEMMA SyncPhases ==
    ASSUME IInv, SyncThread
    PROVE  [Cycle!Next]_(Cycle!vars)
<1> USE DEF SyncRuns, bootVars, processVars, worldVars, statusVars
<1>1. stop' = stop /\ stop \in BOOLEAN /\ result \in {"ok", "failed"}
  BY DEF IInv, ServiceTypeOK, SyncThread, StartRound, LoopEnds, NextRepo, Record,
         PushEnds, StepEnds, StepRaises
<1>2. CASE StartRound
  <2>1. sync = "waiting" /\ sync' = "round"
    BY <1>2 DEF StartRound
  <2> QED  BY <1>1, <2>1, PhaseIs DEF PhaseOf, Steps, Cycle!vars
<1>3. CASE LoopEnds
  <2>1. sync = "waiting" /\ sync' = "ended"
    BY <1>3 DEF LoopEnds
  <2>2. Cycle!TurnOff
    BY <2>1 DEF PhaseOf, Steps, Cycle!TurnOff
  <2> QED  BY <2>2 DEF Cycle!Next
<1>4. CASE NextRepo
  <2>1. sync = "round" /\ (sync' = "waiting" \/ (sync' = "commit" /\ ~stop))
    BY <1>4 DEF NextRepo, RoundEnds
  <2>2. CASE sync' = "waiting"
    BY <1>1, <2>1, <2>2 DEF PhaseOf, Steps, Cycle!vars
  <2>3. CASE sync' = "commit" /\ ~stop
    <3>1. Cycle!Begin
      BY <1>1, <2>1, <2>3 DEF PhaseOf, Steps, Cycle!Begin
    <3> QED  BY <3>1 DEF Cycle!Next
  <2> QED  BY <2>1, <2>2, <2>3
<1>5. CASE Record
  <2>1. sync = "record" /\ sync' = "round"
    BY <1>5 DEF Record
  <2>2. Cycle!Report
    BY <1>1, <2>1 DEF PhaseOf, Steps, Cycle!Report
  <2> QED  BY <2>2 DEF Cycle!Next
<1>6. CASE PushEnds
  <2>1. sync = "push" /\ sync' = "record" /\ result' = "ok"
    BY <1>6 DEF PushEnds, Ends
  <2>2. Cycle!Succeed
    BY <1>1, <2>1 DEF PhaseOf, Steps, Cycle!Succeed
  <2> QED  BY <2>2 DEF Cycle!Next
<1>7. ASSUME NEW from \in {"commit", "pull"}, NEW to \in Steps, StepEnds(from, to),
             <<from, to>> \in {<<"commit", "pull">>, <<"pull", "push">>}
      PROVE  [Cycle!Next]_(Cycle!vars)
  <2>1. sync = from /\ IF stop THEN sync' = "waiting" ELSE sync' = to
    BY <1>7 DEF StepEnds, CutShort, RoundEnds
  <2>2. CASE stop
    <3>1. Cycle!CutShort
      BY <1>1, <1>7, <2>1, <2>2 DEF PhaseOf, Steps, Cycle!CutShort
    <3> QED  BY <3>1 DEF Cycle!Next
  <2>3. CASE ~stop
    <3>1. Cycle!Advance(from, to)
      BY <1>1, <1>7, <2>1, <2>3 DEF PhaseOf, Steps, Cycle!Advance
    <3> QED  BY <1>7, <3>1 DEF Cycle!Next
  <2> QED  BY <2>2, <2>3
<1>8. ASSUME NEW step \in Steps, StepRaises(step)
      PROVE  [Cycle!Next]_(Cycle!vars)
  <2>1. sync = step /\ sync' = "record" /\ result' = "failed"
    BY <1>8 DEF StepRaises, Ends
  <2>2. Cycle!Fail
    BY <1>1, <2>1 DEF PhaseOf, Steps, Cycle!Fail, Cycle!Phases
  <2> QED  BY <2>2 DEF Cycle!Next
<1> QED  BY <1>2, <1>3, <1>4, <1>5, <1>6, <1>7, <1>8 DEF SyncThread, Steps

\* Everybody else's: the thread is started, told to stop, or gone.
LEMMA OtherPhases ==
    ASSUME IInv, BootThread \/ Process \/ World
    PROVE  [Cycle!Next]_(Cycle!vars)
<1>1. stop \in BOOLEAN
  BY DEF IInv, ServiceTypeOK
<1>2. CASE UNCHANGED <<sync, result, stop>>
  BY <1>2 DEF PhaseOf, Steps, Cycle!vars
<1>3. CASE StartThread
  <2>1. sync = "none" /\ sync' = "waiting" /\ stop' = stop
    BY <1>3 DEF StartThread, IInv, Threads, processVars
  <2>2. Cycle!TurnOn
    BY <1>1, <2>1 DEF PhaseOf, Steps, Cycle!TurnOn
  <2> QED  BY <2>2 DEF Cycle!Next
<1>4. CASE LifespanEnds
  <2>1. sync' = sync /\ result' = result /\ stop' = TRUE
    BY <1>4 DEF LifespanEnds, syncVars
  <2>2. CASE PhaseOf = "off"
    BY <2>1, <2>2 DEF PhaseOf, Steps, Cycle!vars
  <2>3. CASE PhaseOf # "off"
    <3>1. Cycle!RequestStop
      BY <2>1, <2>3 DEF PhaseOf, Steps, Cycle!RequestStop
    <3> QED  BY <3>1 DEF Cycle!Next
  <2> QED  BY <2>2, <2>3
<1>5. CASE Forgotten
  <2>1. Cycle!TurnOff
    BY <1>5 DEF Forgotten, PhaseOf, Steps, Cycle!TurnOff
  <2> QED  BY <2>1 DEF Cycle!Next
<1>6. BootThread => StartThread \/ UNCHANGED <<sync, result, stop>>
  BY DEF BootThread, BootRuns, syncVars, processVars, Provision, LoadToClone,
         SkipClone, StartClone, CannotMakeDirectory, CloneEnds, CheckStop,
         LoadToSync, LoadInterval, Enable, Join
<1>7. Process => LifespanEnds \/ Forgotten \/ UNCHANGED <<sync, result, stop>>
  BY DEF Process, StartService, StopServing, Stopped, JoinTimesOut, ProcessEnds,
         syncVars
<1>8. World => Forgotten \/ UNCHANGED <<sync, result, stop>>
  BY DEF World, Crash, ContainerKilled, Tick, OrphanEnds, EditConfig, SetTime,
         ProcessEnds, syncVars, processVars
<1> QED  BY <1>2, <1>3, <1>4, <1>5, <1>6, <1>7, <1>8

\* The scheduler's thread (scheduler.py) with all that happens around it
\* implements the phases of a cycle.
THEOREM ServicePhases == Spec => FollowsPhases
<1>1. Init => Cycle!Init
  BY DEF Init, Cycle!Init, PhaseOf, Steps
<1>2. IInv /\ [Next]_vars => [Cycle!Next]_(Cycle!vars)
  <2> SUFFICES ASSUME IInv, [Next]_vars PROVE [Cycle!Next]_(Cycle!vars)
    OBVIOUS
  <2>1. CASE UNCHANGED vars
    BY <2>1 DEF vars, syncVars, processVars, PhaseOf, Cycle!vars
  <2>2. CASE Next
    BY <2>2, SyncPhases, OtherPhases DEF Next
  <2> QED  BY <2>1, <2>2
<1> QED  BY <1>1, <1>2, Inductive, PTL DEF Spec, FollowsPhases, Cycle!Spec
====
