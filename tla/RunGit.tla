------------------------------- MODULE RunGit -------------------------------
(* run_git (git/runner.py): one git command at a time, run as a child of the *)
(* service in a session of its own, read until its output ends and stopped   *)
(* when its time is up.  With it go the processes git starts, the processes  *)
(* other programs start, the process ids all of them share, and a service    *)
(* that dies while git runs.                                                 *)
EXTENDS Naturals

CONSTANTS
    Pids,       \* process ids, which the system gives out again
    MaxCalls    \* bound of the calls of run_git

NoPid == "none"

ASSUME RunGitAssumption == MaxCalls \in Nat /\ NoPid \notin Pids

VARIABLES
    process,    \* what runs under each process id
    caller,     \* run_git: where its thread is
    leader,     \* Popen.pid of its command
    call,       \* ghost: how often it has been called
    outcome     \* ghost: how each call ended

callerVars == <<caller, leader, call, outcome>>
vars == <<process, callerVars>>

\* A process leads or is in a group, belongs to a call or to somebody else,
\* holds the pipe run_git reads or does not, and may be on its way out.
Processes ==
    [state : {"free", "running", "exited"}, role : {"git", "helper", "other"},
     call : 0 .. MaxCalls, group : Pids \cup {NoPid}, pipe : BOOLEAN,
     ending : BOOLEAN]
Gone == [state |-> "free", role |-> "other", call |-> 0, group |-> NoPid,
         pipe |-> FALSE, ending |-> FALSE]

Running(p) == process[p].state = "running"
Exited(p) == process[p].state = "exited"
\* The system gives out no id that is still that of a process or of a group.
Unused(p) ==
    /\ process[p].state = "free"
    /\ \A q \in Pids : process[q].group # p
Started(role, of, group, pipe) ==
    [state |-> "running", role |-> role, call |-> of, group |-> group,
     pipe |-> pipe, ending |-> FALSE]

-----------------------------------------------------------------------------
(* run_git and _stop.                                                        *)

Call ==
    /\ caller = "idle" /\ call < MaxCalls
    /\ call' = call + 1
    /\ \E p \in Pids :
          /\ Unused(p)
          /\ leader' = p
          /\ process' = [process EXCEPT ![p] = Started("git", call', p, TRUE)]
    /\ caller' = "waiting"
    /\ UNCHANGED outcome

\* Waiting for a child that has exited takes it off the process table.
Reaped == process' = [process EXCEPT ![leader] = Gone]
\* Mutant of Ends: the call ends without having waited for git.
EndsUnwaited(how) ==
    /\ outcome' = [outcome EXCEPT ![call] = how]
    /\ caller' = "idle" /\ leader' = NoPid
    /\ UNCHANGED <<process, call>>
Ends(how) ==
    /\ Exited(leader) /\ Reaped
    /\ outcome' = [outcome EXCEPT ![call] = how]
    /\ caller' = "idle" /\ leader' = NoPid
    /\ UNCHANGED call

\* communicate reads until nobody holds the pipe any more, and then waits.
PipeClosed == \A p \in Pids : process[p].pipe => process[p].call # call
CommunicateReturns == caller = "waiting" /\ PipeClosed /\ Ends("done")

\* _signal_group: each process of the group either heeds the signal or has
\* it ignored; an empty group is ProcessLookupError, which is passed over.
Group == {p \in Pids : Running(p) /\ process[p].group = leader}
Signalled(heeding) ==
    process' = [p \in Pids |-> IF p \in heeding
                               THEN [process[p] EXCEPT !.ending = TRUE]
                               ELSE process[p]]

\* The limit of communicate arrives, be git done or not.
TimeLimit ==
    /\ caller = "waiting"
    /\ \E heeding \in SUBSET Group : Signalled(heeding)
    /\ caller' = "grace"
    /\ UNCHANGED <<leader, call, outcome>>

\* Mutant of GraceEnds: the group is killed whether or not git has ended.
ReapThenKill ==
    /\ caller = "grace" /\ Exited(leader) /\ Reaped
    /\ UNCHANGED callerVars
GraceEnds == caller = "grace" /\ Ends("timeout")

\* Mutant of GraceOver: git is asked once more.
AskAgain ==
    /\ caller = "grace"
    /\ \E heeding \in SUBSET Group : Signalled(heeding)
    /\ caller' = "killing"
    /\ UNCHANGED <<leader, call, outcome>>
GraceOver ==
    /\ caller = "grace"
    /\ Signalled(Group)
    /\ caller' = "killing"
    /\ UNCHANGED <<leader, call, outcome>>

\* Mutant of KillEnds: the rest of the output is read first.
ReadTheRest == caller = "killing" /\ PipeClosed /\ Ends("timeout")
KillEnds == caller = "killing" /\ Ends("timeout")

Caller ==
    Call \/ CommunicateReturns \/ TimeLimit \/ GraceEnds \/ GraceOver \/ KillEnds

-----------------------------------------------------------------------------
(* What surrounds it.                                                        *)

\* git starts a helper, or a hook, and a helper another: in its own group or
\* in a session of its own, with its output or without it.
Fork(parent) ==
    /\ Running(parent) /\ ~process[parent].ending /\ process[parent].role # "other"
    /\ \E p \in Pids, pipe \in {FALSE, process[parent].pipe} :
          /\ Unused(p)
          /\ \E group \in {p, process[parent].group} :
                process' = [process EXCEPT
                              ![p] = Started("helper", process[parent].call, group, pipe)]
    /\ UNCHANGED callerVars

\* A process ends when it is done, or because of a signal.  Only the service
\* waits for its child; others are waited for by whoever adopts them.
Exit(p) ==
    /\ Running(p)
    /\ process' = [process EXCEPT
                     ![p] = IF p = leader
                            THEN [@ EXCEPT !.state = "exited", !.pipe = FALSE]
                            ELSE Gone]
    /\ UNCHANGED callerVars

OtherStarts(p) ==
    /\ Unused(p)
    /\ process' = [process EXCEPT ![p] = Started("other", 0, p, FALSE)]
    /\ UNCHANGED callerVars

\* The service dies, or its join times out: git stays, and is adopted.
ServiceDies ==
    /\ caller \notin {"idle", "off"}
    /\ process' = [process EXCEPT ![leader] = IF Exited(leader) THEN Gone ELSE @]
    /\ outcome' = [outcome EXCEPT ![call] = "abandoned"]
    /\ caller' = "off" /\ leader' = NoPid
    /\ UNCHANGED call
ServiceStarts ==
    /\ caller = "off"
    /\ caller' = "idle"
    /\ UNCHANGED <<process, leader, call, outcome>>

World ==
    \/ ServiceDies \/ ServiceStarts
    \/ \E p \in Pids : Fork(p) \/ Exit(p) \/ OtherStarts(p)

Init ==
    /\ process = [p \in Pids |-> Gone]
    /\ caller = "idle" /\ leader = NoPid /\ call = 0
    /\ outcome = [c \in 1 .. MaxCalls |-> "none"]

Next == Caller \/ World

Spec == Init /\ [][Next]_vars

(* The thread in run_git runs on: its limits arrive, and so does the end of  *)
(* what it waits for.  A process that has to end does.  Nothing makes git    *)
(* finish on its own, and nothing makes another call.                        *)
FairSpec ==
    /\ Spec
    /\ WF_vars(CommunicateReturns \/ TimeLimit)
    /\ WF_vars(GraceEnds \/ GraceOver) /\ WF_vars(KillEnds)
    /\ \A p \in Pids : WF_vars(process[p].ending /\ Exit(p))

-----------------------------------------------------------------------------
(* Properties.                                                               *)

(* Every variable has its type, and only the git of a call that is being     *)
(* waited for leaves an entry behind when it exits.                          *)
RunGitTypeOK ==
    /\ process \in [Pids -> Processes]
    /\ caller \in {"idle", "waiting", "grace", "killing", "off"}
    /\ leader \in Pids \cup {NoPid} /\ call \in 0 .. MaxCalls
    /\ leader = NoPid <=> caller \in {"idle", "off"}
    /\ outcome \in [1 .. MaxCalls -> {"none", "done", "timeout", "abandoned"}]
    /\ \A p \in Pids : Exited(p) => p = leader

(* GitTimeoutError: "It has been stopped by then."  A call that has returned *)
(* or raised leaves no git behind, running or unwaited for, so that the next *)
(* command never finds the last one at work in the repository.               *)
CommandHasEnded ==
    \A p \in Pids :
        process[p].role = "git" =>
            outcome[process[p].call] \in {"none", "abandoned"}

(* A signal reaches no process of anybody else, and none of another call:    *)
(* the group that is signalled has the id of a git nobody has waited for     *)
(* yet, which the system cannot have given out again.                        *)
SignalsReachOwnCommand ==
    [][\A p \in Pids : process'[p].ending /\ ~process[p].ending =>
                         /\ process[p].call = call
                         /\ process[p].role # "other"]_vars

(* No command waits forever: not for a git that ignores the signal, nor for  *)
(* a helper in a session of its own that never closes its output.            *)
CallsEnd == caller \in {"waiting", "grace", "killing"} ~> caller \in {"idle", "off"}
====
