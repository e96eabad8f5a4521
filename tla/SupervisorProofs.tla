-------------------------- MODULE SupervisorProofs --------------------------
(* Proofs about Supervisor, for any set of services.                         *)
EXTENDS Supervisor, TLAPS

\* What a round has found ended stays so until the round restarts it: nobody
\* but the script starts a service.
FoundEnded ==
    /\ script = "checking" => \A s \in queue : child[s] = "ended"
    /\ script = "restarting" => \A s \in todo : child[s] = "ended"

IInv == SupervisorTypeOK /\ FoundEnded

-----------------------------------------------------------------------------
\* A script that ends names no process any more.
LEMMA CleanupKeeps ==
    ASSUME IInv, Cleanup
    PROVE  IInv'
<1>1. /\ script' = "off" /\ todo' = {} /\ queue' = {} /\ signalled' = FALSE
      /\ child' = [s \in Services |-> "none"] /\ workers' = FALSE
      /\ blocked' = blocked
  BY DEF Cleanup
<1>2. Orphans \subseteq Services /\ Launched \cup Up \subseteq Services
  BY SupervisorAssumption DEF Orphans, Launched, Up
<1>3. told' \subseteq Services /\ strays' \subseteq Services
  BY <1>2 DEF Cleanup, TakesChildren, IInv, SupervisorTypeOK
<1> QED
  BY <1>1, <1>3 DEF IInv, SupervisorTypeOK, FoundEnded, Launched, Up, Ended

LEMMA StartsType ==
    ASSUME IInv, NEW s \in Services, Starts(s)
    PROVE  /\ child' \in [Services -> {"none", "launched", "up", "ended"}]
           /\ workers' \in BOOLEAN
           /\ \A other \in Services \ {s} : child'[other] = child[other]
  BY DEF Starts, IInv, SupervisorTypeOK

LEMMA ScriptKeeps ==
    ASSUME IInv, Script
    PROVE  IInv'
<1> USE DEF Runs, childVars, oldVars
<1>1. CASE HandleSignal \/ LinkFails \/ NoSuchGroup
  BY <1>1, CleanupKeeps DEF HandleSignal, LinkFails, NoSuchGroup
<1>2. CASE MakeLink
  BY <1>2 DEF MakeLink, IInv, SupervisorTypeOK, FoundEnded, Launched, Up, Ended
<1>3. CASE Start
  <2>1. CASE todo = {}
    BY <1>3, <2>1 DEF Start, IInv, SupervisorTypeOK, FoundEnded, Launched, Up, Ended
  <2>2. CASE todo # {}
    <3>1. PICK s \in todo : Starts(s) /\ todo' = todo \ {s} /\ UNCHANGED script
      BY <1>3, <2>2 DEF Start
    <3>2. s \in Services /\ script = "starting"
      BY <1>3 DEF Start, IInv, SupervisorTypeOK
    <3> QED
      BY <1>3, <3>1, <3>2, StartsType DEF Start, IInv, SupervisorTypeOK, FoundEnded
  <2> QED  BY <2>1, <2>2
<1>4. CASE Wake
  BY <1>4 DEF Wake, NewRound, IInv, SupervisorTypeOK, FoundEnded, Launched, Up, Ended
<1>5. CASE Check
  <2>1. PICK s \in todo : /\ todo' = todo \ {s}
                          /\ queue' = IF s \in Ended THEN queue \cup {s} ELSE queue
    BY <1>5 DEF Check
  <2>2. \A other \in queue' : child'[other] = "ended"
    BY <1>5, <2>1 DEF Check, Ended, IInv, FoundEnded
  <2> QED
    BY <1>5, <2>1, <2>2
       DEF Check, IInv, SupervisorTypeOK, FoundEnded, Launched, Up, Ended
<1>6. CASE Checked \/ Restarted
  BY <1>6 DEF Checked, Restarted, IInv, SupervisorTypeOK, FoundEnded, Launched, Up, Ended
<1>7. ASSUME NEW s \in todo, Runs("restarting"), Starts(s), todo' = todo \ {s},
             UNCHANGED <<script, queue, strays, signalled, blocked>>,
             told' \subseteq Services
      PROVE  IInv'
  <2>1. s \in Services /\ todo' \subseteq todo
    BY <1>7 DEF IInv, SupervisorTypeOK
  <2>2. \A other \in todo' : child'[other] = "ended"
    BY <1>7, <2>1, StartsType DEF IInv, SupervisorTypeOK, FoundEnded
  <2> QED
    BY <1>7, <2>1, <2>2, StartsType DEF IInv, SupervisorTypeOK, FoundEnded
<1>8. CASE RestartNginx
  BY <1>7, <1>8, SupervisorAssumption DEF RestartNginx, IInv, SupervisorTypeOK
<1>9. ASSUME NEW s \in Services, Restart(s) PROVE IInv'
  BY <1>7, <1>9 DEF Restart, IInv, SupervisorTypeOK
<1> QED  BY <1>1, <1>2, <1>3, <1>4, <1>5, <1>6, <1>8, <1>9 DEF Script

\* A service whose process opens its port or ends was started by this script,
\* and what a round found ended is none of them.
LEMMA ChildStepKeeps ==
    ASSUME IInv, ChildStep, NEW s \in Services, NEW state \in {"up", "ended"},
           s \in Launched \cup Up, child' = [child EXCEPT ![s] = state],
           workers' \in BOOLEAN
    PROVE  IInv'
<1>1. /\ UNCHANGED <<script, todo, queue, told, strays, signalled, blocked>>
      /\ script # "off" /\ child[s] # "ended"
  BY DEF ChildStep, scriptVars, oldVars, IInv, SupervisorTypeOK, Launched, Up
<1>2. /\ child' \in [Services -> {"none", "launched", "up", "ended"}]
      /\ \A other \in Services \ {s} : child'[other] = child[other]
  BY DEF IInv, SupervisorTypeOK
<1>3. FoundEnded'
  BY <1>1, <1>2 DEF IInv, SupervisorTypeOK, FoundEnded
<1> QED  BY <1>1, <1>2, <1>3 DEF IInv, SupervisorTypeOK

LEMMA WorldKeeps ==
    ASSUME IInv, World
    PROVE  IInv'
<1> USE DEF scriptVars, childVars, oldVars
<1>1. CASE KeepAlive \/ Signal \/ Blocks \/ Unblocks \/ WorkersEnd
  BY <1>1 DEF KeepAlive, Signal, Blocks, Unblocks, WorkersEnd, ChildStep, IInv,
              SupervisorTypeOK, FoundEnded, Launched, Up, Ended
<1>2. ASSUME NEW s \in Services, OpensPort(s) \/ FindsPortTaken(s) \/ Dies(s)
      PROVE  IInv'
  <2>1. workers' \in BOOLEAN /\ ChildStep /\ s \in Launched \cup Up
    BY <1>2 DEF OpensPort, FindsPortTaken, Dies, Launched, Up, IInv, SupervisorTypeOK
  <2>2. PICK state \in {"up", "ended"} : child' = [child EXCEPT ![s] = state]
    BY <1>2 DEF OpensPort, FindsPortTaken, Dies
  <2> QED  BY <2>1, <2>2, ChildStepKeeps
<1>3. ASSUME NEW s \in Services, ToldEnds(s) \/ StrayEnds(s) PROVE IInv'
  BY <1>3 DEF ToldEnds, StrayEnds, IInv, SupervisorTypeOK, FoundEnded,
              Launched, Up, Ended
<1> QED  BY <1>1, <1>2, <1>3 DEF World

LEMMA Inductive == Spec => []IInv
<1>1. ASSUME Init PROVE IInv
  <2>1. /\ Launched = {} /\ Up = {} /\ Ended = {}
        /\ child \in [Services -> {"none", "launched", "up", "ended"}]
    BY <1>1 DEF Init, Launched, Up, Ended
  <2>2. /\ script = "off" /\ todo = {} /\ queue = {} /\ told = {} /\ strays = {}
        /\ workers = FALSE /\ signalled = FALSE /\ blocked \in BOOLEAN
    BY <1>1 DEF Init
  <2>3. FoundEnded
    BY <2>2 DEF FoundEnded
  <2> QED  BY <2>1, <2>2, <2>3 DEF IInv, SupervisorTypeOK
<1>2. IInv /\ UNCHANGED vars => IInv'
  BY DEF vars, scriptVars, childVars, oldVars, IInv, SupervisorTypeOK,
         FoundEnded, Launched, Up, Ended
<1>3. IInv /\ [Next]_vars => IInv'
  BY <1>2, ScriptKeeps, WorldKeeps DEF Next
<1> QED  BY <1>1, <1>3, PTL DEF Spec

-----------------------------------------------------------------------------
(* The theorems.                                                             *)

\* The script (custom_startup.sh) and its services are in states they can be
\* in.
THEOREM SupervisorTypes == Spec => []SupervisorTypeOK
<1>1. IInv => SupervisorTypeOK
  BY DEF IInv
<1> QED  BY <1>1, Inductive, PTL

\* A round of the loop (custom_startup.sh) starts no service that is there,
\* whichever end while it runs.
THEOREM StartedOnce == Spec => NoneStartedTwice
<1>1. IInv /\ [Next]_vars =>
        [\A s \in Services :
           (script = "restarting" /\ s \in todo /\ s \notin todo')
             => s \notin Launched \cup Up]_vars
  BY DEF IInv, FoundEnded, Launched, Up
<1> QED  BY <1>1, Inductive, PTL DEF Spec, NoneStartedTwice
====
