------------------------------ MODULE GitRepo ------------------------------
(* A git repository with a remote, as far as the backup and the user work on *)
(* it: the state git keeps and what each git command does to it.  git is not *)
(* part of the service; every command here is one that admin/git/sync.py     *)
(* issues, modelled as git behaves on it.                                    *)
(*                                                                           *)
(* Data abstraction.  A file is one hunk: two different changes of the same  *)
(* file since the merge base conflict.  Contents are members of a small set; *)
(* Marked stands for any content with conflict markers, Absent for a file    *)
(* that does not exist.  Commits are numbered in the order of creation and   *)
(* carry their ancestor set.                                                 *)
EXTENDS Naturals, Sequences, FiniteSets

CONSTANTS
    Files,      \* paths of the asset
    Contents,   \* ordinary file contents
    Marked,     \* a content that holds conflict markers
    Absent      \* "the file does not exist"

ASSUME ContentsAssumption ==
    Absent \notin Contents /\ Marked \notin Contents /\ Marked # Absent

VARIABLES
    history,    \* every commit made so far; a commit is its index
    head,       \* what HEAD names
    tip,        \* the commit of each head
    work,       \* the working tree
    index,      \* the index; stage 2 ("ours") for an unmerged file
    unmerged,   \* files with conflict stages in the index
    merging,    \* the commit in MERGE_HEAD, 0 when there is none
    merger,     \* who started that merge (a ghost: git does not record it)
    tracking,   \* refs/remotes/origin/<branch>
    remote,     \* the remote's branch
    lock,       \* who holds index.lock
    lockOld     \* the lock is older than STALE_LOCK_SECONDS

refVars == <<history, head, tip>>
fileVars == <<work, index, unmerged>>
mergeVars == <<merging, merger>>
repoVars == <<refVars, fileVars, mergeVars>>
netVars == <<tracking, remote>>
lockVars == <<lock, lockOld>>

Versions == Contents \cup {Marked, Absent}
Tree == [Files -> Versions]
Actors == {"clone", "user", "colleague", "backup"}
Heads == {"branch", "side", "detached"}   \* "branch" is the configured one
Locks == {"free", "user", "stale"}

-----------------------------------------------------------------------------
(* Commits.                                                                  *)

Commits == DOMAIN history
Anc(c) == history[c].anc
TreeOf(c) == history[c].tree
HeadTree == TreeOf(tip[head])

Commit(id, parents, tree, by) ==
    [anc |-> {id} \cup UNION {Anc(p) : p \in parents},
     parents |-> parents, tree |-> tree, by |-> by]

\* Record a commit; NextId is the name it gets.
NextId == Len(history) + 1
Record(parents, tree, by) ==
    history' = Append(history, Commit(NextId, parents, tree, by))

MergeBase(c, d) ==
    CHOOSE b \in Anc(c) \cap Anc(d) : \A a \in Anc(c) \cap Anc(d) : a <= b

(* The three-way merge of whole files. *)
ConflictsOf(base, ours, theirs) ==
    {f \in Files : /\ ours[f] # theirs[f]
                   /\ ours[f] # base[f] /\ theirs[f] # base[f]}

ThreeWay(base, ours, theirs) ==
    [f \in Files |-> IF ours[f] = base[f] THEN theirs[f] ELSE ours[f]]

(* What `git merge' leaves in the working tree: markers in a file both sides *)
(* changed, the surviving version of one that a side deleted.                *)
MergedFile(base, ours, theirs, f) ==
    IF f \notin ConflictsOf(base, ours, theirs)
    THEN ThreeWay(base, ours, theirs)[f]
    ELSE IF Absent \in {ours[f], theirs[f]}
    THEN IF ours[f] = Absent THEN theirs[f] ELSE ours[f]
    ELSE Marked

-----------------------------------------------------------------------------
(* git commands: what each does to the repository when it succeeds.          *)

\* `git status --porcelain' prints something.
Changes == work # index \/ index # HeadTree \/ unmerged # {}

\* `git add -A'.
StageAll ==
    /\ lock = "free"
    /\ index' = work /\ unmerged' = {}
    /\ UNCHANGED <<refVars, mergeVars, work>>

\* `git reset': the index goes back to HEAD, and a merge in progress ends.
Unstage ==
    /\ lock = "free"
    /\ index' = HeadTree /\ unmerged' = {}
    /\ merging' = 0 /\ merger' = "none"
    /\ UNCHANGED <<refVars, work>>

\* `git commit': commits the index on HEAD and concludes a merge.
CanCommit == /\ lock = "free" /\ unmerged = {}
             /\ merging # 0 \/ index # HeadTree
CommitIndex(by) ==
    /\ CanCommit
    /\ Record({tip[head]} \cup ({merging} \ {0}), index, by)
    /\ tip' = [tip EXCEPT ![head] = NextId]
    /\ merging' = 0 /\ merger' = "none"
    /\ UNCHANGED <<head, fileVars>>

\* `git merge c': git refuses it over a merge in progress and over files it
\* would have to overwrite, except over one deleted from the working tree.
UpToDate(c) == c \in Anc(tip[head])
CanFastForward(c) == tip[head] \in Anc(c)
\* Mutant of Merged: `git merge -s ours'.
MergedAway(c, f) == HeadTree[f]
Merged(c, f) == MergedFile(TreeOf(MergeBase(tip[head], c)), HeadTree, TreeOf(c), f)
MergeConflicts(c) ==
    ConflictsOf(TreeOf(MergeBase(tip[head], c)), HeadTree, TreeOf(c))
InTheWay(c) ==
    {f \in Files : /\ Merged(c, f) # HeadTree[f]
                   /\ \/ work[f] # index[f] /\ work[f] # Absent
                      \/ index[f] # HeadTree[f]}
MergeRefused(c) ==
    \/ merging # 0 \/ unmerged # {} \/ InTheWay(c) # {}
    \/ ~CanFastForward(c) /\ index # HeadTree

\* The files a merge writes, over those it does not.
MergeFiles(c) ==
    /\ work' = [f \in Files |-> IF Merged(c, f) # HeadTree[f]
                                THEN Merged(c, f) ELSE work[f]]
    /\ index' = [f \in Files |-> IF f \in MergeConflicts(c)
                                   \/ Merged(c, f) = HeadTree[f]
                                 THEN index[f] ELSE Merged(c, f)]
    /\ unmerged' = MergeConflicts(c)

MergeClean(c, by) ==
    /\ lock = "free" /\ ~MergeRefused(c) /\ ~UpToDate(c)
    /\ MergeConflicts(c) = {}
    /\ MergeFiles(c)
    /\ IF CanFastForward(c)
       THEN history' = history /\ tip' = [tip EXCEPT ![head] = c]
       ELSE /\ Record({tip[head], c}, index', by)
            /\ tip' = [tip EXCEPT ![head] = NextId]
    /\ UNCHANGED <<head, mergeVars>>

\* The merge stops before committing, MERGE_HEAD set.
MergeStops(c, by) ==
    /\ lock = "free" /\ ~MergeRefused(c) /\ ~UpToDate(c) /\ ~CanFastForward(c)
    /\ MergeFiles(c)
    /\ merging' = c /\ merger' = by
    /\ UNCHANGED refVars

\* Another process holds the index: git sets MERGE_HEAD, writes nothing else
\* and fails - unless it has tracked changes to set aside first, which it
\* cannot, and then nothing happens.
MergeFindsLock(c, by) ==
    /\ lock # "free" /\ ~MergeRefused(c) /\ ~UpToDate(c) /\ ~CanFastForward(c)
    /\ \A f \in Files : index[f] # Absent => work[f] = index[f]
    /\ merging' = c /\ merger' = by
    /\ UNCHANGED <<refVars, fileVars>>

\* `git merge --abort': HEAD's version of every file the merge changed, unless
\* one of them that is not in conflict was edited since.
CanAbort ==
    /\ lock = "free" /\ merging # 0
    /\ \A f \in Files \ unmerged :
          index[f] # HeadTree[f] => work[f] \in {index[f], Absent}
AbortMerge ==
    /\ CanAbort
    /\ work' = [f \in Files |-> IF f \in unmerged \/ index[f] # HeadTree[f]
                                THEN HeadTree[f] ELSE work[f]]
    /\ index' = HeadTree /\ unmerged' = {}
    /\ merging' = 0 /\ merger' = "none"
    /\ UNCHANGED refVars

\* `git checkout --ours -- kept', `git add -- kept', `git rm -- removed'.
\* Mutant of CheckoutOurs: `git checkout --theirs'.
CheckoutTheirs(kept) ==
    /\ lock = "free" /\ \A f \in kept : index[f] # Absent
    /\ work' = [f \in Files |-> IF f \in kept /\ merging # 0
                                THEN TreeOf(merging)[f] ELSE work[f]]
    /\ UNCHANGED <<refVars, mergeVars, index, unmerged>>
CheckoutOurs(kept) ==
    /\ lock = "free" /\ \A f \in kept : index[f] # Absent
    /\ work' = [f \in Files |-> IF f \in kept THEN index[f] ELSE work[f]]
    /\ UNCHANGED <<refVars, mergeVars, index, unmerged>>
AddKept(kept) ==
    /\ lock = "free"
    /\ index' = [f \in Files |-> IF f \in kept THEN work[f] ELSE index[f]]
    /\ unmerged' = unmerged \ kept
    /\ UNCHANGED <<refVars, mergeVars, work>>
RemoveDeleted(removed) ==
    /\ lock = "free" /\ removed \subseteq unmerged
    /\ work' = [f \in Files |-> IF f \in removed THEN Absent ELSE work[f]]
    /\ index' = [f \in Files |-> IF f \in removed THEN Absent ELSE index[f]]
    /\ unmerged' = unmerged \ removed
    /\ UNCHANGED <<refVars, mergeVars>>

\* Mutant of PushAccepted: the refspec starts with `+'.
PushForced == TRUE
\* Mutant of Publish: the push sends HEAD instead of the branch by name.
PublishHead ==
    /\ remote \in Anc(tip[head])
    /\ remote' = tip[head]
    /\ UNCHANGED repoVars

\* `git push' of refs/heads/<branch>, not forced: the remote accepts a
\* descendant of what it has.
PushAccepted == remote \in Anc(tip["branch"])
Publish ==
    /\ PushAccepted
    /\ remote' = tip["branch"]
    /\ UNCHANGED repoVars

-----------------------------------------------------------------------------
CommitRecord(n) ==
    [anc : SUBSET (1 .. n), parents : SUBSET (1 .. n), tree : Tree, by : Actors]

RepoTypeOK ==
    /\ history \in Seq(CommitRecord(Len(history)))
    /\ head \in Heads /\ tip \in [Heads -> Commits]
    /\ work \in Tree /\ index \in Tree /\ unmerged \in SUBSET Files
    /\ merging \in Commits \cup {0} /\ merger \in {"none", "user", "backup"}
NetTypeOK ==
    /\ tracking \in Commits /\ remote \in Commits
    /\ lock \in Locks /\ lockOld \in BOOLEAN

====
