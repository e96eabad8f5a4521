---------------------------- MODULE RunGitProofs ----------------------------
(* Proofs about RunGit, for any process ids and any number of calls: its     *)
(* types, that a call ends with its git, and that signals go nowhere else.   *)
EXTENDS RunGit, TLAPS

\* The process run_git waits for is the git of this call, which leads its
\* group, and nobody else's process is in that group.
LeadsItsGroup ==
    leader # NoPid =>
        /\ process[leader].role = "git" /\ process[leader].state # "free"
        /\ process[leader].group = leader
        /\ call >= 1 /\ outcome[call] = "none"
        /\ \A p \in Pids :
              process[p].group = leader =>
                  process[p].call = call /\ process[p].role # "other"

\* What belongs to a call says so, and a git is either waited for or was
\* abandoned by a service that died.
Belongs ==
    /\ \A p \in Pids : process[p].state = "free" => process[p] = Gone
    /\ \A p \in Pids : process[p].role # "other" => process[p].call \in 1 .. call
    /\ \A c \in 1 .. MaxCalls : c > call => outcome[c] = "none"
    /\ \A p \in Pids :
          process[p].role = "git" =>
              \/ p = leader /\ process[p].call = call
              \/ outcome[process[p].call] = "abandoned"

IInv == RunGitTypeOK /\ LeadsItsGroup /\ Belongs

-----------------------------------------------------------------------------
\* Starting a process under an unused id.
LEMMA UnusedIsNotLeader ==
    ASSUME IInv, NEW p \in Pids, Unused(p)
    PROVE  p # leader /\ \A q \in Pids : process[q].group # p
  BY RunGitAssumption DEF IInv, LeadsItsGroup, Unused, RunGitTypeOK

LEMMA CallKeeps ==
    ASSUME IInv, Call
    PROVE  IInv'
<1> PICK p \in Pids :
      /\ Unused(p) /\ leader' = p
      /\ process' = [process EXCEPT ![p] = Started("git", call', p, TRUE)]
  BY DEF Call
<1>1. /\ caller = "idle" /\ caller' = "waiting" /\ leader = NoPid
      /\ call \in Nat /\ call' = call + 1 /\ call' \in 1 .. MaxCalls
      /\ outcome' = outcome
  BY RunGitAssumption DEF Call, IInv, RunGitTypeOK
<1>2. \A q \in Pids : process'[q] = IF q = p THEN Started("git", call', p, TRUE)
                                    ELSE process[q]
  BY DEF IInv, RunGitTypeOK
<1>3. Started("git", call', p, TRUE) \in Processes
  BY <1>1, RunGitAssumption DEF Started, Processes
<1>4. RunGitTypeOK'
  <2>1. process' \in [Pids -> Processes]
    BY <1>3 DEF IInv, RunGitTypeOK
  <2>2. \A q \in Pids : process'[q].state = "exited" => q = leader'
    BY <1>1, <1>2, RunGitAssumption DEF IInv, RunGitTypeOK, Exited, Started
  <2>3. /\ leader' \in Pids /\ leader' # NoPid /\ call' \in 0 .. MaxCalls
        /\ outcome' \in [1 .. MaxCalls -> {"none", "done", "timeout", "abandoned"}]
    BY <1>1, RunGitAssumption DEF IInv, RunGitTypeOK
  <2> QED  BY <1>1, <2>1, <2>2, <2>3 DEF RunGitTypeOK, Exited
<1>5. LeadsItsGroup'
  <2>1. outcome'[call'] = "none" /\ call' >= 1
    BY <1>1 DEF IInv, Belongs
  <2>2. \A q \in Pids : process'[q].group = p => q = p
    BY <1>2, UnusedIsNotLeader
  <2> QED  BY <1>1, <1>2, <2>1, <2>2 DEF LeadsItsGroup, Started
<1>6. Belongs'
  <2>1. \A q \in Pids : process[q].role = "git" =>
           outcome[process[q].call] = "abandoned" \/ q = leader
    BY DEF IInv, Belongs
  <2>2. leader \notin Pids
    BY <1>1, RunGitAssumption
  <2>3. \A q \in Pids : process[q].role # "other" => process[q].call \in 1 .. call'
    BY <1>1 DEF IInv, Belongs
  <2>4. \A c \in 1 .. MaxCalls : c > call' => outcome'[c] = "none"
    BY <1>1 DEF IInv, Belongs
  <2> QED
    BY <1>1, <1>2, <2>1, <2>2, <2>3, <2>4 DEF Belongs, Started, IInv
<1> QED  BY <1>4, <1>5, <1>6 DEF IInv

\* A call ends with its git: nothing is left that is waited for.
LEMMA EndsKeeps ==
    ASSUME IInv, NEW how \in {"done", "timeout"},
           caller \in {"waiting", "grace", "killing"}, Ends(how)
    PROVE  IInv'
<1>1. /\ leader \in Pids /\ leader' = NoPid /\ caller' = "idle" /\ call' = call
      /\ process' = [process EXCEPT ![leader] = Gone]
      /\ outcome' = [outcome EXCEPT ![call] = how]
      /\ call \in 1 .. MaxCalls
  BY RunGitAssumption DEF Ends, Reaped, IInv, RunGitTypeOK, LeadsItsGroup
<1>2. \A q \in Pids : process'[q] = IF q = leader THEN Gone ELSE process[q]
  BY <1>1 DEF IInv, RunGitTypeOK
<1>3. RunGitTypeOK'
  <2>1. Gone \in Processes
    BY RunGitAssumption DEF Gone, Processes
  <2>2. process' \in [Pids -> Processes]
    BY <1>1, <2>1 DEF IInv, RunGitTypeOK
  <2>3. \A q \in Pids : process'[q].state = "exited" => q = leader'
    BY <1>2 DEF IInv, RunGitTypeOK, Exited, Gone
  <2> QED  BY <1>1, <2>2, <2>3 DEF IInv, RunGitTypeOK, Exited
<1>4. Belongs'
  <2>1. \A c \in 1 .. MaxCalls : c # call => outcome'[c] = outcome[c]
    BY <1>1 DEF IInv, RunGitTypeOK
  <2>2. \A q \in Pids : q # leader /\ process[q].role = "git" =>
           process[q].call # call /\ outcome[process[q].call] = "abandoned"
    BY <1>1 DEF IInv, Belongs, LeadsItsGroup, RunGitTypeOK
  <2>3. call \in Nat /\ \A q \in Pids :
           process[q].role = "git" => process[q].call \in 1 .. MaxCalls
    BY <1>1, RunGitAssumption DEF IInv, Belongs, RunGitTypeOK
  <2>4. \A c \in 1 .. MaxCalls : c > call' => outcome'[c] = "none"
    BY <1>1, <2>1, <2>3 DEF IInv, Belongs
  <2>5. \A q \in Pids : process'[q].role = "git" =>
           q # leader /\ process'[q] = process[q]
    BY <1>2 DEF Gone
  <2>6. \A q \in Pids : process'[q].role = "git" =>
           outcome'[process'[q].call] = "abandoned"
    BY <2>1, <2>2, <2>3, <2>5
  <2>7. \A q \in Pids : process'[q].role # "other" => process'[q].call \in 1 .. call'
    BY <1>1, <1>2 DEF IInv, Belongs, Gone
  <2>8. \A q \in Pids : process'[q].state = "free" => process'[q] = Gone
    BY <1>2 DEF IInv, Belongs
  <2> QED  BY <2>4, <2>6, <2>7, <2>8 DEF Belongs
<1> QED  BY <1>1, <1>3, <1>4, RunGitAssumption DEF IInv, LeadsItsGroup

\* A signal changes nothing but who is on the way out.
LEMMA SignalKeeps ==
    ASSUME IInv, NEW heeding \in SUBSET Group, Signalled(heeding),
           UNCHANGED <<leader, call, outcome>>,
           caller \in {"waiting", "grace"}, caller' \in {"grace", "killing"}
    PROVE  IInv'
<1>1. \A q \in Pids :
        process'[q] = IF q \in heeding THEN [process[q] EXCEPT !.ending = TRUE]
                      ELSE process[q]
  BY DEF Signalled
<1>2. \A q \in Pids :
        /\ process'[q] \in Processes
        /\ process'[q].state = process[q].state /\ process'[q].role = process[q].role
        /\ process'[q].call = process[q].call /\ process'[q].group = process[q].group
  <2> SUFFICES ASSUME NEW q \in Pids
               PROVE  /\ process'[q] \in Processes
                      /\ process'[q].state = process[q].state
                      /\ process'[q].role = process[q].role
                      /\ process'[q].call = process[q].call
                      /\ process'[q].group = process[q].group
    OBVIOUS
  <2>1. process[q] \in Processes
    BY DEF IInv, RunGitTypeOK
  <2>2. CASE q \in heeding
    <3>1. process'[q] = [process[q] EXCEPT !.ending = TRUE]
      BY <1>1, <2>2
    <3> QED  BY <2>1, <3>1 DEF Processes
  <2> QED  BY <1>1, <2>1, <2>2
<1>3. \A q \in Pids : process[q].state = "free" => process'[q] = process[q]
  BY <1>1 DEF Group, Running
<1>4. process' \in [Pids -> Processes]
  BY <1>2 DEF Signalled
<1>5. RunGitTypeOK'
  BY <1>2, <1>4 DEF IInv, RunGitTypeOK, Exited
<1>6. LeadsItsGroup'
  BY <1>2 DEF IInv, LeadsItsGroup, RunGitTypeOK
<1>7. Belongs'
  BY <1>2, <1>3 DEF IInv, Belongs
<1> QED  BY <1>5, <1>6, <1>7 DEF IInv

LEMMA StartKeeps ==
    ASSUME IInv, NEW p \in Pids, Unused(p), UNCHANGED callerVars,
           NEW new \in Processes, process' = [process EXCEPT ![p] = new],
           new.state = "running",
           \/ new.role = "other" /\ new.group = p
           \/ /\ new.role = "helper" /\ new.call \in 1 .. call
              /\ \/ new.group = p
                 \/ \E q \in Pids : /\ process[q].group = new.group
                                    /\ process[q].call = new.call
    PROVE  IInv'
<1>1. \A q \in Pids : process'[q] = IF q = p THEN new ELSE process[q]
  BY DEF IInv, RunGitTypeOK
<1>2. UNCHANGED <<caller, leader, call, outcome>> /\ p # leader
  BY UnusedIsNotLeader DEF callerVars
<1>3. RunGitTypeOK'
  <2>1. process' \in [Pids -> Processes]
    BY DEF IInv, RunGitTypeOK
  <2> QED  BY <1>1, <1>2, <2>1 DEF IInv, RunGitTypeOK, Exited
<1>4. LeadsItsGroup'
  <2>1. leader # NoPid /\ new.group = leader => new.call = call /\ new.role # "other"
    BY <1>2 DEF IInv, LeadsItsGroup
  <2> QED  BY <1>1, <1>2, <2>1 DEF IInv, LeadsItsGroup, RunGitTypeOK
<1>5. Belongs'
  BY <1>1, <1>2 DEF IInv, Belongs
<1> QED  BY <1>3, <1>4, <1>5 DEF IInv

LEMMA ForkKeeps ==
    ASSUME IInv, NEW parent \in Pids, Fork(parent)
    PROVE  IInv'
<1>1. PICK p \in Pids, pipe \in {FALSE, process[parent].pipe},
           group \in Pids \cup {process[parent].group} :
        /\ Unused(p) /\ group \in {p, process[parent].group}
        /\ process' = [process EXCEPT
                         ![p] = Started("helper", process[parent].call, group, pipe)]
  BY DEF Fork
<1>2. /\ process[parent] \in Processes /\ UNCHANGED callerVars
      /\ process[parent].call \in 1 .. call
  BY DEF Fork, IInv, RunGitTypeOK, Belongs
<1> DEFINE new == Started("helper", process[parent].call, group, pipe)
<1>3. /\ new \in Processes /\ new.state = "running" /\ new.role = "helper"
      /\ new.call = process[parent].call /\ new.group = group
  BY <1>1, <1>2 DEF Started, Processes
<1>4. process' = [process EXCEPT ![p] = new] /\ Unused(p)
  BY <1>1
<1> HIDE DEF new
<1> QED  BY <1>1, <1>2, <1>3, <1>4, StartKeeps

LEMMA OtherStartsKeeps ==
    ASSUME IInv, NEW p \in Pids, OtherStarts(p)
    PROVE  IInv'
<1> DEFINE new == Started("other", 0, p, FALSE)
<1>1. /\ new \in Processes /\ new.state = "running" /\ new.role = "other"
      /\ new.group = p
  BY RunGitAssumption DEF Started, Processes
<1>2. /\ process' = [process EXCEPT ![p] = new]
      /\ Unused(p) /\ UNCHANGED callerVars
  BY DEF OtherStarts
<1> HIDE DEF new
<1> QED  BY <1>1, <1>2, StartKeeps

LEMMA ExitKeeps ==
    ASSUME IInv, NEW p \in Pids, Exit(p)
    PROVE  IInv'
<1> DEFINE left == IF p = leader
                   THEN [process[p] EXCEPT !.state = "exited", !.pipe = FALSE]
                   ELSE Gone
<1>1. /\ UNCHANGED <<caller, leader, call, outcome>>
      /\ process' = [process EXCEPT ![p] = left]
      /\ process[p] \in Processes
  BY DEF Exit, callerVars, IInv, RunGitTypeOK
<1>2. left \in Processes
  <2>1. Gone \in Processes
    BY RunGitAssumption DEF Gone, Processes
  <2>2. [process[p] EXCEPT !.state = "exited", !.pipe = FALSE] \in Processes
    BY <1>1 DEF Processes
  <2> QED  BY <2>1, <2>2
<1>3. /\ p # leader => left = Gone
      /\ p = leader => /\ left.state = "exited" /\ left.role = process[p].role
                       /\ left.call = process[p].call
                       /\ left.group = process[p].group
  BY <1>1 DEF Processes
<1>4. Gone.role = "other" /\ Gone.state = "free" /\ Gone.group = NoPid
  BY DEF Gone
<1> HIDE DEF left
<1>5. \A q \in Pids : process'[q] = IF q = p THEN left ELSE process[q]
  BY <1>1 DEF IInv, RunGitTypeOK
<1>6. RunGitTypeOK'
  <2>1. process' \in [Pids -> Processes]
    BY <1>1, <1>2 DEF IInv, RunGitTypeOK
  <2> QED  BY <1>1, <1>3, <1>4, <1>5, <2>1 DEF IInv, RunGitTypeOK, Exited
<1>7. LeadsItsGroup'
  BY <1>1, <1>3, <1>4, <1>5 DEF IInv, LeadsItsGroup, RunGitTypeOK
<1>8. Belongs'
  BY <1>1, <1>3, <1>4, <1>5 DEF IInv, Belongs, LeadsItsGroup, RunGitTypeOK
<1> QED  BY <1>6, <1>7, <1>8 DEF IInv

LEMMA ServiceDiesKeeps ==
    ASSUME IInv, ServiceDies
    PROVE  IInv'
<1> DEFINE left == IF Exited(leader) THEN Gone ELSE process[leader]
<1>1. /\ leader \in Pids /\ leader' = NoPid /\ caller' = "off" /\ call' = call
      /\ process' = [process EXCEPT ![leader] = left]
      /\ outcome' = [outcome EXCEPT ![call] = "abandoned"]
      /\ call \in 1 .. MaxCalls
  BY RunGitAssumption DEF ServiceDies, IInv, RunGitTypeOK, LeadsItsGroup
<1>2. left \in Processes /\ left.state # "exited"
  BY <1>1, RunGitAssumption DEF IInv, RunGitTypeOK, Gone, Processes, Exited
<1>3. left = process[leader] \/ left = Gone
  OBVIOUS
<1> HIDE DEF left
<1>4. \A q \in Pids : process'[q] = IF q = leader THEN left ELSE process[q]
  BY <1>1 DEF IInv, RunGitTypeOK
<1>5. RunGitTypeOK'
  <2>1. process' \in [Pids -> Processes]
    BY <1>1, <1>2 DEF IInv, RunGitTypeOK
  <2>2. \A q \in Pids : process'[q].state # "exited"
    BY <1>2, <1>4 DEF IInv, RunGitTypeOK, Exited
  <2> QED  BY <1>1, <2>1, <2>2 DEF IInv, RunGitTypeOK, Exited
<1>6. Belongs'
  <2>1. call \in Nat /\ \A q \in Pids :
           process[q].role = "git" => process[q].call \in 1 .. MaxCalls
    BY <1>1, RunGitAssumption DEF IInv, Belongs, RunGitTypeOK
  <2>2. \A c \in 1 .. MaxCalls :
           outcome'[c] = IF c = call THEN "abandoned" ELSE outcome[c]
    BY <1>1 DEF IInv, RunGitTypeOK
  <2>3. \A q \in Pids : process[q].role = "git" =>
           outcome'[process[q].call] = "abandoned"
    BY <1>1, <2>1, <2>2 DEF IInv, Belongs
  <2>4. Gone.role = "other"
    BY DEF Gone
  <2> QED  BY <1>1, <1>3, <1>4, <2>3, <2>4 DEF IInv, Belongs
<1> QED  BY <1>1, <1>5, <1>6 DEF IInv, LeadsItsGroup

LEMMA NextKeeps ==
    ASSUME IInv, [Next]_vars
    PROVE  IInv'
<1>1. CASE Call
  BY <1>1, CallKeeps
<1>2. CASE CommunicateReturns \/ GraceEnds \/ KillEnds
  BY <1>2, EndsKeeps DEF CommunicateReturns, GraceEnds, KillEnds
<1>3. CASE TimeLimit
  BY <1>3, SignalKeeps DEF TimeLimit
<1>4. CASE GraceOver
  BY <1>4, SignalKeeps DEF GraceOver
<1>5. ASSUME NEW p \in Pids, Fork(p) \/ Exit(p) \/ OtherStarts(p) PROVE IInv'
  BY <1>5, ForkKeeps, ExitKeeps, OtherStartsKeeps
<1>6. CASE ServiceDies
  BY <1>6, ServiceDiesKeeps
<1>7. CASE ServiceStarts
  <2>1. /\ caller = "off" /\ caller' = "idle"
        /\ UNCHANGED <<process, leader, call, outcome>>
    BY <1>7 DEF ServiceStarts
  <2> QED
    BY <2>1 DEF IInv, RunGitTypeOK, LeadsItsGroup, Belongs, Exited
<1>8. CASE UNCHANGED vars
  BY <1>8 DEF vars, callerVars, IInv, RunGitTypeOK, LeadsItsGroup, Belongs, Exited
<1> QED
  BY <1>1, <1>2, <1>3, <1>4, <1>5, <1>6, <1>7, <1>8 DEF Next, Caller, World

LEMMA Inductive == Spec => []IInv
<1>1. Init => IInv
  BY RunGitAssumption
     DEF Init, IInv, RunGitTypeOK, LeadsItsGroup, Belongs, Exited, Gone, Processes
<1>2. IInv /\ [Next]_vars => IInv'
  BY NextKeeps
<1> QED  BY <1>1, <1>2, PTL DEF Spec

-----------------------------------------------------------------------------
(* The theorems.                                                             *)

\* The processes, and the thread in run_git (runner.py), are in states they
\* can be in.
THEOREM RunGitTypes == Spec => []RunGitTypeOK
<1>1. IInv => RunGitTypeOK
  BY DEF IInv
<1> QED  BY <1>1, Inductive, PTL

\* However a call of run_git (runner.py) ends, its git has ended before.
THEOREM CallEndsCommand == Spec => []CommandHasEnded
<1>1. IInv => CommandHasEnded
  BY RunGitAssumption DEF IInv, Belongs, LeadsItsGroup, RunGitTypeOK, CommandHasEnded
<1> QED  BY <1>1, Inductive, PTL

\* _signal_group (runner.py) reaches the processes of this command and no
\* other, however the system gives out its process ids.
THEOREM SignalsStayInside == Spec => SignalsReachOwnCommand
<1>1. ASSUME IInv, [Next]_vars, NEW p \in Pids,
             process'[p].ending, ~process[p].ending
      PROVE  process[p].call = call /\ process[p].role # "other"
  <2>1. ASSUME NEW heeding \in SUBSET Group, Signalled(heeding), leader # NoPid
        PROVE  process[p].call = call /\ process[p].role # "other"
    <3>1. p \in Group
      BY <1>1, <2>1 DEF Signalled
    <3> QED  BY <1>1, <2>1, <3>1 DEF Group, IInv, LeadsItsGroup
  <2>2. CASE TimeLimit \/ GraceOver
    BY <1>1, <2>1, <2>2 DEF TimeLimit, GraceOver, IInv, RunGitTypeOK
  <2>3. ASSUME NEW q \in Pids, NEW new, process' = [process EXCEPT ![q] = new],
               ~new.ending \/ new.ending = process[q].ending
        PROVE  FALSE
    BY <1>1, <2>3 DEF IInv, RunGitTypeOK
  <2>4. /\ Gone.ending = FALSE
        /\ \A role, c, group, pipe : Started(role, c, group, pipe).ending = FALSE
    BY DEF Gone, Started
  <2>5. CASE Call
    BY <2>3, <2>4, <2>5 DEF Call
  <2>6. CASE CommunicateReturns \/ GraceEnds \/ KillEnds
    <3>1. process' = [process EXCEPT ![leader] = Gone] /\ leader \in Pids
      BY <1>1, <2>6 DEF CommunicateReturns, GraceEnds, KillEnds, Ends, Reaped,
                        IInv, RunGitTypeOK
    <3> QED  BY <2>3, <2>4, <3>1
  <2>7. ASSUME NEW q \in Pids, Fork(q) \/ OtherStarts(q) PROVE FALSE
    BY <2>3, <2>4, <2>7 DEF Fork, OtherStarts
  <2>8. ASSUME NEW q \in Pids, Exit(q) PROVE FALSE
    <3>1. process[q] \in Processes
      BY <1>1 DEF IInv, RunGitTypeOK
    <3>2. [process[q] EXCEPT !.state = "exited", !.pipe = FALSE].ending
            = process[q].ending
      BY <3>1 DEF Processes
    <3> QED  BY <2>3, <2>4, <2>8, <3>2 DEF Exit
  <2>9. CASE ServiceDies
    <3>1. leader \in Pids
      BY <1>1, <2>9 DEF ServiceDies, IInv, RunGitTypeOK
    <3> QED  BY <2>3, <2>4, <2>9, <3>1 DEF ServiceDies
  <2>10. CASE ServiceStarts \/ UNCHANGED vars
    BY <1>1, <2>10 DEF ServiceStarts, vars
  <2> QED
    BY <1>1, <2>2, <2>5, <2>6, <2>7, <2>8, <2>9, <2>10 DEF Next, Caller, World
<1>2. IInv /\ [Next]_vars =>
        [\A p \in Pids : process'[p].ending /\ ~process[p].ending =>
                           /\ process[p].call = call
                           /\ process[p].role # "other"]_vars
  BY <1>1
<1> QED  BY <1>2, Inductive, PTL DEF Spec, SignalsReachOwnCommand
====
