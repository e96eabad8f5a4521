-------------------------- MODULE MCBackupService --------------------------
(* Instances of BackupService for TLC: the two assets a workspace may have,  *)
(* each with a remote of its own.                                            *)
EXTENDS BackupService

MCAssets == <<"private", "common">>
MCUrls == [private |-> {"p"}, common |-> {"c"}]
MCBudget == [config |-> 1, crash |-> 1, stop |-> 1, clock |-> 0]

StatusBudget == [config |-> 0, crash |-> 0, stop |-> 1, clock |-> 1]

\* The user may move the private asset to another remote.
MovingUrls == [private |-> {"p", "q"}, common |-> {"c"}]
====
