---------------------------- MODULE CyclePhases -----------------------------
(* One cycle of the backup, seen from the scheduler: three phases, cut short *)
(* only between two of them, and the outcome that is there to be recorded.   *)
(* SyncAsset implements it with the git commands of sync_once, BackupService *)
(* with the threads around it, so that the two agree about the cycle.        *)
EXTENDS Naturals

VARIABLES
    phase,      \* "off" without a thread that could run a cycle
    stop,       \* stop_event, as that thread will find it
    result      \* how the cycle just run has ended

vars == <<phase, stop, result>>

Phases == {"commit", "pull", "push"}

Init == phase \in {"idle", "off"} /\ stop = FALSE /\ result = "none"

Begin ==
    /\ phase = "idle" /\ ~stop
    /\ phase' = "commit" /\ result' = "none" /\ UNCHANGED stop

Advance(from, to) ==
    /\ phase = from /\ ~stop
    /\ phase' = to /\ UNCHANGED <<stop, result>>

\* SyncStopped: there is nothing to record.
CutShort ==
    /\ phase \in {"commit", "pull"} /\ stop
    /\ \/ phase' = "idle" /\ stop' = stop
       \/ phase' = "off" /\ stop' = FALSE
    /\ UNCHANGED result

Succeed ==
    /\ phase = "push"
    /\ phase' = "idle" /\ result' = "ok" /\ UNCHANGED stop

Fail ==
    /\ phase \in Phases
    /\ phase' = "idle" /\ result' = "failed" /\ UNCHANGED stop

Report ==
    /\ phase = "idle" /\ result # "none"
    /\ result' = "none" /\ UNCHANGED <<phase, stop>>

RequestStop ==
    /\ phase # "off"
    /\ stop' = TRUE /\ UNCHANGED <<phase, result>>

TurnOff == phase' = "off" /\ stop' = FALSE /\ result' = "none"
TurnOn ==
    /\ phase = "off" /\ phase' = "idle"
    /\ stop' \in BOOLEAN /\ UNCHANGED result

Next ==
    \/ Begin \/ Advance("commit", "pull") \/ Advance("pull", "push")
    \/ CutShort \/ Succeed \/ Fail \/ Report
    \/ RequestStop \/ TurnOff \/ TurnOn

Spec == Init /\ [][Next]_vars
====
