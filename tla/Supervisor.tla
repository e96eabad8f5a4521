----------------------------- MODULE Supervisor -----------------------------
(* startup/custom_startup.sh: the script that starts the workspace's         *)
(* services, looks every three seconds which of them have gone and starts    *)
(* those again, and takes its children along when it ends; and the keepalive *)
(* loop of the base image that starts the script again (install/             *)
(* kasm_fixes.sh).  The service "nginx" has workers in a group of its own.   *)
(* A service that finds its port taken ends.                                 *)

CONSTANT Services   \* those that are not disabled

ASSUME SupervisorAssumption == "nginx" \in Services

VARIABLES
    script,     \* where the script is
    todo,       \* services left to start, to look at or to restart
    queue,      \* RESTART_QUEUE
    child,      \* the process DTAAS_PROCS names for each service
    workers,    \* whether the group of that nginx has other members
    told,       \* services with an earlier process that was sent SIGTERM
    strays,     \* services with an earlier process nobody has told to end
    signalled,  \* a signal bash has not handled yet
    blocked     \* there is no link on the desktop, and none can be made

scriptVars == <<script, todo, queue>>
childVars == <<child, workers>>
oldVars == <<told, strays>>
vars == <<scriptVars, childVars, oldVars, signalled, blocked>>

Launched == {s \in Services : child[s] = "launched"}
Up == {s \in Services : child[s] = "up"}
Ended == {s \in Services : child[s] = "ended"}
Held == told \cup strays   \* services whose port is taken

-----------------------------------------------------------------------------
(* The script.  Bash handles a signal between two commands.                  *)

Runs(at) == script = at /\ ~signalled

\* The workers of an nginx that has gone are no children of the script's.
Orphans == IF "nginx" \in Ended /\ workers THEN {"nginx"} ELSE {}

\* Mutant of TakesChildren: the script just exits.
LeavesChildren ==
    strays' = strays \cup Launched \cup Up \cup Orphans /\ UNCHANGED told
\* pkill -P sends SIGTERM to the children of the script, and to nobody else.
TakesChildren ==
    /\ told' = told \cup Launched \cup Up
    /\ strays' = strays \cup Orphans

\* cleanup, at a signal or a command that fails (set -e and the ERR trap).
Cleanup ==
    /\ script' = "off" /\ todo' = {} /\ queue' = {} /\ signalled' = FALSE
    /\ TakesChildren
    /\ child' = [s \in Services |-> "none"] /\ workers' = FALSE
    /\ UNCHANGED blocked

HandleSignal == script # "off" /\ signalled /\ Cleanup

\* The link on the desktop is made, unless it is there, before anything else.
MakeLink ==
    /\ Runs("linking") /\ ~blocked
    /\ script' = "starting" /\ todo' = Services
    /\ UNCHANGED <<queue, childVars, oldVars, signalled, blocked>>
LinkFails == Runs("linking") /\ blocked /\ Cleanup

\* start_nginx, start_jupyter, start_admin_server and start_vscode_server: in
\* the background, so that the script does not see what comes of it.
Starts(s) ==
    /\ child' = [child EXCEPT ![s] = "launched"]
    /\ workers' = IF s = "nginx" THEN FALSE ELSE workers

Start ==
    /\ Runs("starting")
    /\ IF todo = {}
       THEN script' = "sleeping" /\ UNCHANGED <<todo, childVars>>
       ELSE \E s \in todo : Starts(s) /\ todo' = todo \ {s} /\ UNCHANGED script
    /\ UNCHANGED <<queue, oldVars, signalled, blocked>>

\* Mutant of NewRound: what was queued in the last round stays.
KeepQueue == todo' = Services /\ UNCHANGED queue
NewRound == todo' = Services /\ queue' = {}
Wake ==
    /\ Runs("sleeping")
    /\ script' = "checking" /\ NewRound
    /\ UNCHANGED <<childVars, oldVars, signalled, blocked>>

\* Mutant of Check: = for +=.
QueueOne ==
    /\ Runs("checking") /\ todo # {}
    /\ \E s \in todo :
          /\ todo' = todo \ {s}
          /\ queue' = IF s \in Ended THEN {s} ELSE queue
    /\ UNCHANGED <<script, childVars, oldVars, signalled, blocked>>
Check ==
    /\ Runs("checking") /\ todo # {}
    /\ \E s \in todo :
          /\ todo' = todo \ {s}
          /\ queue' = IF s \in Ended THEN queue \cup {s} ELSE queue
    /\ UNCHANGED <<script, childVars, oldVars, signalled, blocked>>
\* Mutant of Checked: the loop goes over all services, not over the queue.
RestartAll ==
    /\ Runs("checking") /\ todo = {}
    /\ script' = "restarting" /\ todo' = Services
    /\ UNCHANGED <<queue, childVars, oldVars, signalled, blocked>>
Checked ==
    /\ Runs("checking") /\ todo = {}
    /\ script' = "restarting" /\ todo' = queue
    /\ UNCHANGED <<queue, childVars, oldVars, signalled, blocked>>

Restart(s) ==
    /\ Runs("restarting") /\ s \in todo \ {"nginx"}
    /\ Starts(s)
    /\ todo' = todo \ {s}
    /\ UNCHANGED <<script, queue, oldVars, signalled, blocked>>
\* The group of an nginx that has gone is sent SIGTERM before the next one
\* is started.
RestartNginx ==
    /\ Runs("restarting") /\ "nginx" \in todo /\ workers
    /\ told' = told \cup {"nginx"}
    /\ Starts("nginx")
    /\ todo' = todo \ {"nginx"}
    /\ UNCHANGED <<script, queue, strays, signalled, blocked>>
\* With nobody left in the group, kill fails.
NoSuchGroup ==
    Runs("restarting") /\ "nginx" \in todo /\ ~workers /\ Cleanup
Restarted ==
    /\ Runs("restarting") /\ todo = {}
    /\ script' = "sleeping"
    /\ UNCHANGED <<todo, queue, childVars, oldVars, signalled, blocked>>

Script ==
    \/ HandleSignal \/ MakeLink \/ LinkFails \/ Start \/ Wake \/ Check \/ Checked
    \/ RestartNginx \/ NoSuchGroup \/ Restarted
    \/ \E s \in Services : Restart(s)

-----------------------------------------------------------------------------
(* What surrounds it.                                                        *)

\* vnc_startup.sh starts the script when it finds it gone.
KeepAlive ==
    /\ script = "off"
    /\ script' = "linking"
    /\ UNCHANGED <<todo, queue, childVars, oldVars, signalled, blocked>>

Signal ==
    /\ script # "off" /\ ~signalled
    /\ signalled' = TRUE
    /\ UNCHANGED <<scriptVars, childVars, oldVars, blocked>>

\* Something else is put, or removed, where the link belongs.
Blocks ==
    /\ ~blocked /\ blocked' = TRUE
    /\ UNCHANGED <<scriptVars, childVars, oldVars, signalled>>
Unblocks ==
    /\ blocked /\ blocked' = FALSE
    /\ UNCHANGED <<scriptVars, childVars, oldVars, signalled>>

ChildStep == UNCHANGED <<scriptVars, oldVars, signalled, blocked>>
\* A service that was started opens its port; nginx forks its workers then.
OpensPort(s) ==
    /\ child[s] = "launched" /\ s \notin Held
    /\ child' = [child EXCEPT ![s] = "up"]
    /\ workers' = (workers \/ s = "nginx")
    /\ ChildStep
FindsPortTaken(s) ==
    /\ child[s] = "launched" /\ s \in Held
    /\ child' = [child EXCEPT ![s] = "ended"]
    /\ UNCHANGED workers /\ ChildStep
\* A service ends, nginx with its workers or without them.
Dies(s) ==
    /\ s \in Up
    /\ child' = [child EXCEPT ![s] = "ended"]
    /\ workers' \in IF s = "nginx" THEN BOOLEAN ELSE {workers}
    /\ ChildStep
WorkersEnd ==
    /\ "nginx" \in Ended /\ workers
    /\ workers' = FALSE
    /\ UNCHANGED child /\ ChildStep

\* What was sent SIGTERM ends, and what was not may.
ToldEnds(s) ==
    /\ s \in told
    /\ told' = told \ {s}
    /\ UNCHANGED <<scriptVars, childVars, strays, signalled, blocked>>
StrayEnds(s) ==
    /\ s \in strays
    /\ strays' = strays \ {s}
    /\ UNCHANGED <<scriptVars, childVars, told, signalled, blocked>>

World ==
    \/ KeepAlive \/ Signal \/ Blocks \/ Unblocks \/ WorkersEnd
    \/ \E s \in Services : OpensPort(s) \/ FindsPortTaken(s) \/ Dies(s)
    \/ \E s \in Services : ToldEnds(s) \/ StrayEnds(s)

Init ==
    /\ script = "off" /\ todo = {} /\ queue = {}
    /\ child = [s \in Services |-> "none"] /\ workers = FALSE
    /\ told = {} /\ strays = {}
    /\ signalled = FALSE /\ blocked \in BOOLEAN

Next == Script \/ World

Spec == Init /\ [][Next]_vars

(* Bash runs the script on, the keepalive loop looks again and again, a      *)
(* service that was started comes to opening its port, and a process that    *)
(* was sent SIGTERM ends.  No service ends because it must, no stray either, *)
(* and nobody need clear the desktop.                                        *)
FairSpec ==
    /\ Spec /\ WF_vars(Script) /\ WF_vars(KeepAlive)
    /\ \A s \in Services : /\ WF_vars(OpensPort(s) \/ FindsPortTaken(s))
                            /\ WF_vars(ToldEnds(s))

-----------------------------------------------------------------------------
(* Properties.                                                               *)

(* Every variable has its type; what is left of a round was queued in it,    *)
(* and a script that has ended names no process.                             *)
SupervisorTypeOK ==
    /\ script \in {"off", "linking", "starting", "sleeping", "checking",
                   "restarting"}
    /\ todo \subseteq Services /\ queue \subseteq Services
    /\ child \in [Services -> {"none", "launched", "up", "ended"}]
    /\ workers \in BOOLEAN /\ signalled \in BOOLEAN /\ blocked \in BOOLEAN
    /\ told \subseteq Services /\ strays \subseteq Services
    /\ script = "restarting" => todo \subseteq queue
    /\ script = "off" => Launched = {} /\ Up = {} /\ Ended = {}

(* The loop starts no service a second time while the one it started is      *)
(* there: a round restarts what it found ended, and nothing an earlier one   *)
(* did.                                                                      *)
NoneStartedTwice ==
    [][\A s \in Services :
         (script = "restarting" /\ s \in todo /\ s \notin todo')
           => s \notin Launched \cup Up]_vars

(* From some time on nobody signals the script and its link is in place.     *)
ScriptLeftAlone == <>[][~Signal]_vars /\ <>[]~blocked

(* "Monitor and resurrect DTaaS services": each service that ends is started *)
(* again, by the loop or by the next script, however often the others end,   *)
(* and though an nginx that has gone with its workers ends the script.       *)
ServicesComeBack ==
    ScriptLeftAlone =>
        \A s \in Services : child[s] = "ended" ~> child[s] = "launched"

(* When no service ends of itself any more, all are up for good: a script    *)
(* that ends, by a signal or in the middle of a restart, takes its services  *)
(* along, so that those of the next one get their ports in the end, and no   *)
(* restart brings down the others for ever.  The exception is an nginx whose *)
(* workers outlived both it and the script (cleanup does not reach them).    *)
ServicesSettle ==
    (/\ ScriptLeftAlone
     /\ <>[][\A s \in Services : ~Dies(s)]_vars
     /\ <>[]("nginx" \notin strays))
      => <>[](Up = Services)
====
