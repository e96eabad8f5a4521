------------------------- MODULE ReplicatedHistory -------------------------
(* What the backup of one asset promises about commits, without the git      *)
(* commands that keep the promise: two replicas of a history, the            *)
(* workspace's and the remote's, and what the workspace knows of the         *)
(* remote's.                                                                 *)
(*                                                                           *)
(* The workspace's branch only grows, and a commit of the remote enters it   *)
(* only after it was fetched.  The backup publishes the workspace's history  *)
(* whole, and only onto a remote whose every commit it holds.  Somebody else *)
(* may change the remote, with commits the workspace has not seen.           *)
EXTENDS Naturals

VARIABLES
    ours,    \* commits of the workspace's branch
    theirs,  \* commits of the remote's branch
    known    \* commits of the remote's branch as last fetched or pushed

vars == <<ours, theirs, known>>

Init ==
    /\ ours \in (SUBSET Nat) \ {{}}
    /\ theirs = ours /\ known = ours

Extend ==
    /\ ours \subseteq ours'
    /\ (ours' \ ours) \cap theirs \subseteq known
    /\ UNCHANGED <<theirs, known>>

Fetch == known' = theirs /\ UNCHANGED <<ours, theirs>>

\* The answer to the push may be lost: then the workspace still knows only
\* what it fetched.
Publish ==
    /\ theirs \subseteq ours
    /\ theirs' = ours /\ known' \in {known, ours}
    /\ UNCHANGED ours

OthersChange ==
    /\ theirs' \cap ours \subseteq theirs
    /\ theirs' # theirs
    /\ UNCHANGED <<ours, known>>

Next == Extend \/ Fetch \/ Publish \/ OthersChange

Spec == Init /\ [][Next]_vars
====
