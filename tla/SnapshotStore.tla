---------------------------- MODULE SnapshotStore ----------------------------
(***************************************************************************)
(* The content-addressed snapshots of a workspace: createCheckpoint and    *)
(* getSnapshotFiles (repositories/snapshot.repository.ts), restoreSnapshot *)
(* (services/workspaceSnapshot.service.ts) and the garbage collector       *)
(* (services/casGarbageCollector.service.ts), on one PostgreSQL database   *)
(* with read-committed transactions.                                       *)
(*                                                                         *)
(* A hash is what it is the hash of: a blob is named by its content, a tree*)
(* by its entries.  A commit is named by the call that makes it.  What a   *)
(* transaction has inserted is visible to others when it commits.          *)
(***************************************************************************)
EXTENDS Naturals, FiniteSets

CONSTANTS
    Path, Content,
    Blank,       \* the empty string that stands in for a missing blob
    Absent,      \* no tree, no commit, no content
    Creator,     \* calls of createSnapshot
    Old,         \* the one that is through when the model starts, if any
    Collector,   \* pods that run the cleanup cron
    Restorer,    \* calls of restoreSnapshot, one after the other
    Keep,        \* snapshots kept for a workspace: 10
    MaxFailures  \* bound on failing statements

ASSUME SnapshotAssumption ==
    /\ IsFiniteSet(Creator) /\ Keep \in Nat \ {0} /\ MaxFailures \in Nat
    /\ Blank \notin Content
    /\ Old \subseteq Creator /\ Cardinality(Old) <= 1

Text == Content \cup {Blank}
Tree == [Path -> Text]

VARIABLES
    files,      \* content of the workspace's files
    blobs,      \* git_blobs, committed
    trees,      \* git_trees, committed
    commits,    \* git_commits, committed
    at,         \* how far a createCheckpoint has run
    root,       \* the tree it builds, and its commit has
    began,      \* when its transaction began: created_at of the commit
    newBlobs,   \* blobs it has inserted and not committed
    newTree,    \* whether it has inserted its tree and not committed
    doomed,     \* commits it has deleted and not committed
    sweep,      \* how far a collection has run
    oldTrees,   \* trees a collection has found unreferenced
    oldBlobs,   \* blobs a collection has found unreferenced
    restore,    \* how far a restoreSnapshot has run
    entries,    \* the tree it has read
    failures,   \* failed statements
    overlapped  \* history: a collection of blobs and a creation or restore
                \* were under way at the same time
dbVars == <<files, blobs, trees, commits>>
createVars == <<at, root, began, newBlobs, newTree, doomed>>
sweepVars == <<sweep, oldTrees, oldBlobs>>
restoreVars == <<restore, entries>>
vars == <<dbVars, createVars, sweepVars, restoreVars, failures, overlapped>>

ContentsOf(t) == {t[p] : p \in Path}

TypeOK ==
    /\ files \in Tree
    /\ blobs \subseteq Text /\ trees \subseteq Tree /\ commits \subseteq Creator
    /\ at \in [Creator -> {"new", "hashed", "blobs", "trees", "commit", "trimming",
                           "trimmed", "done", "failed"}]
    /\ root \in [Creator -> Tree \cup {Absent}]
    /\ began \in [Creator -> Nat]
    /\ newBlobs \in [Creator -> SUBSET Text]
    /\ newTree \in [Creator -> BOOLEAN]
    /\ doomed \in [Creator -> SUBSET Creator]
    /\ sweep \in [Collector -> {"idle", "trees", "between", "blobs"}]
    /\ oldTrees \in [Collector -> SUBSET Tree]
    /\ oldBlobs \in [Collector -> SUBSET Text]
    /\ restore \in [Restorer -> {"idle", "read"}]
    /\ entries \in [Restorer -> Tree \cup {Absent}]
    /\ failures \in 0..MaxFailures
    /\ overlapped \in BOOLEAN

(* A workspace without snapshots, or with one that was made of its files. *)
Init ==
    /\ files \in [Path -> Content]
    /\ trees = {files : c \in Old}
    /\ blobs = UNION {ContentsOf(t) : t \in trees}
    /\ commits = Old
    /\ at = [c \in Creator |-> IF c \in Old THEN "done" ELSE "new"]
    /\ root = [c \in Creator |-> IF c \in Old THEN files ELSE Absent]
    /\ began = [c \in Creator |-> 0]
    /\ newBlobs = [c \in Creator |-> {}]
    /\ newTree = [c \in Creator |-> FALSE]
    /\ doomed = [c \in Creator |-> {}]
    /\ sweep = [g \in Collector |-> "idle"]
    /\ oldTrees = [g \in Collector |-> {}]
    /\ oldBlobs = [g \in Collector |-> {}]
    /\ restore = [r \in Restorer |-> "idle"]
    /\ entries = [r \in Restorer |-> Absent]
    /\ failures = 0
    /\ overlapped = FALSE

(* Creations whose blobs were inserted, or found to be there already, and  *)
(* whose commit others cannot see yet.                                     *)
Creating == {c \in Creator : at[c] \in {"blobs", "trees", "commit", "trimming", "trimmed"}}
Sweeping == {g \in Collector : sweep[g] = "blobs"}
Reading == {r \in Restorer : restore[r] = "read"}

Fail ==
    /\ failures < MaxFailures
    /\ failures' = failures + 1

-----------------------------------------------------------------------------
(* The files of the workspace, saved by documents and the file routes. *)

Save(p, x) ==
    /\ files' = [files EXCEPT ![p] = x]
    /\ UNCHANGED <<blobs, trees, commits, createVars, sweepVars, restoreVars,
                   failures, overlapped>>

-----------------------------------------------------------------------------
(* createCheckpoint: one transaction. *)

Goto(c, step) == at' = [at EXCEPT ![c] = step]

Started == {d \in Creator : at[d] # "new"}

(* BEGIN, which is what NOW() says until COMMIT; the files are read and    *)
(* hashed.                                                                 *)
ReadFiles(c) ==
    /\ at[c] = "new"
    /\ began' = [began EXCEPT ![c] = Cardinality(Started) + 1]
    /\ root' = [root EXCEPT ![c] = files]
    /\ Goto(c, "hashed")
    /\ UNCHANGED <<dbVars, newBlobs, newTree, doomed, sweepVars, restoreVars,
                   failures, overlapped>>

(* ON CONFLICT DO NOTHING: what is there already is neither inserted nor   *)
(* locked; a key that another transaction is inserting is waited for.      *)
InsertBlobs(c) ==
    /\ at[c] = "hashed"
    /\ \A d \in Creator \ {c} : newBlobs[d] \cap ContentsOf(root[c]) = {}
    /\ newBlobs' = [newBlobs EXCEPT ![c] = ContentsOf(root[c]) \ blobs]
    /\ overlapped' = (overlapped \/ Sweeping # {})
    /\ Goto(c, "blobs")
    /\ UNCHANGED <<dbVars, root, began, newTree, doomed, sweepVars, restoreVars,
                   failures>>

InsertTree(c) ==
    /\ at[c] = "blobs"
    /\ \A d \in Creator \ {c} : newTree[d] => root[d] # root[c]
    /\ newTree' = [newTree EXCEPT ![c] = root[c] \notin trees]
    /\ Goto(c, "trees")
    /\ UNCHANGED <<dbVars, root, began, newBlobs, doomed, sweepVars, restoreVars,
                   failures, overlapped>>

HasTree(c) == newTree[c] \/ root[c] \in trees

(* root_tree_hash REFERENCES git_trees: the row is there and locked.  The  *)
(* parent, the latest commit, is not one of those that retention deletes   *)
(* when it keeps ten; the lock on it is left out.                          *)
InsertCommit(c) ==
    /\ at[c] = "trees"
    /\ HasTree(c)
    /\ Goto(c, "commit")
    /\ UNCHANGED <<dbVars, root, began, newBlobs, newTree, doomed, sweepVars,
                   restoreVars, failures, overlapped>>

Newer(c, seen) == {d \in seen : began[d] > began[c]}

(* Mutant: the oldest are kept. *)
OldestKept(seen) ==
    {c \in seen : Cardinality({d \in seen : began[d] < began[c]}) >= Keep}

BeyondKeep(seen) == {c \in seen : Cardinality(Newer(c, seen)) >= Keep}

(* The DELETE sees the committed commits and its own ... *)
Trim(c) ==
    /\ at[c] = "commit"
    /\ doomed' = [doomed EXCEPT ![c] = BeyondKeep(commits \cup {c})]
    /\ Goto(c, "trimming")
    /\ UNCHANGED <<dbVars, root, began, newBlobs, newTree, sweepVars, restoreVars,
                   failures, overlapped>>

(* ... and waits for a transaction that has deleted one of them already;   *)
(* what is gone by then it passes over.                                    *)
Trimmed(c) ==
    /\ at[c] = "trimming"
    /\ \A d \in Creator : at[d] = "trimmed" => doomed[d] \cap doomed[c] = {}
    /\ Goto(c, "trimmed")
    /\ UNCHANGED <<dbVars, root, began, newBlobs, newTree, doomed, sweepVars,
                   restoreVars, failures, overlapped>>

(* Nothing that was inserted or deleted is pending any more. *)
EndTransaction(c) ==
    /\ newBlobs' = [newBlobs EXCEPT ![c] = {}]
    /\ newTree' = [newTree EXCEPT ![c] = FALSE]
    /\ doomed' = [doomed EXCEPT ![c] = {}]

Commit(c) ==
    /\ at[c] = "trimmed"
    /\ blobs' = blobs \cup newBlobs[c]
    /\ trees' = IF newTree[c] THEN trees \cup {root[c]} ELSE trees
    /\ commits' = (commits \cup {c}) \ doomed[c]
    /\ root' = [d \in Creator |-> IF d \in doomed[c] THEN Absent ELSE root[d]]
    /\ EndTransaction(c)
    /\ Goto(c, "done")
    /\ UNCHANGED <<files, began, sweepVars, restoreVars, failures, overlapped>>

(* A statement fails, or the tree that was there has been collected. *)
Rollback(c) ==
    /\ at[c] \in {"hashed", "blobs", "trees", "commit", "trimming", "trimmed"}
    /\ \/ Fail
       \/ at[c] = "trees" /\ ~HasTree(c) /\ UNCHANGED failures
    /\ EndTransaction(c)
    /\ Goto(c, "failed")
    /\ root' = [root EXCEPT ![c] = Absent]
    /\ began' = [began EXCEPT ![c] = 0]
    /\ UNCHANGED <<dbVars, sweepVars, restoreVars, overlapped>>

-----------------------------------------------------------------------------
(* runGarbageCollection: four statements, each a transaction of its own.   *)

Roots == {root[c] : c \in commits}

(* Mutant: NOT IN a list with a NULL, which finds nothing. *)
TreesNotInNull == {}

UnreferencedTrees == trees \ Roots

FindTrees(g) ==
    /\ sweep[g] = "idle"
    /\ sweep' = [sweep EXCEPT ![g] = "trees"]
    /\ oldTrees' = [oldTrees EXCEPT ![g] = UnreferencedTrees]
    /\ UNCHANGED <<dbVars, createVars, oldBlobs, restoreVars, failures, overlapped>>

(* Mutant: git_commits does not reference git_trees. *)
AllDeletable(found) == found

(* The foreign key lets the whole DELETE fail when a commit has come to    *)
(* reference one of the trees; the error is caught.                        *)
Deletable(found) == IF found \cap Roots = {} THEN found ELSE {}

(* It waits for transactions that have locked one of the trees by a commit,*)
(* or deleted such a commit.                                               *)
DeleteTrees(g) ==
    /\ sweep[g] = "trees"
    /\ \A c \in Creator : at[c] \in {"commit", "trimming", "trimmed"} =>
          {root[d] : d \in doomed[c] \cup {c}} \cap oldTrees[g] = {}
    /\ \/ trees' = trees \ Deletable(oldTrees[g]) /\ UNCHANGED failures
       \/ Fail /\ UNCHANGED trees
    /\ sweep' = [sweep EXCEPT ![g] = "between"]
    /\ oldTrees' = [oldTrees EXCEPT ![g] = {}]
    /\ UNCHANGED <<files, blobs, commits, createVars, oldBlobs, restoreVars, overlapped>>

(* Mutant: only the blobs of the latest snapshot are spared. *)
BlobsNotOfLatest == {x \in blobs : \E c \in commits :
                     Newer(c, commits) = {} /\ x \notin ContentsOf(root[c])}

UnreferencedBlobs == {x \in blobs : \A t \in trees : x \notin ContentsOf(t)}

FindBlobs(g) ==
    /\ sweep[g] = "between"
    /\ sweep' = [sweep EXCEPT ![g] = "blobs"]
    /\ oldBlobs' = [oldBlobs EXCEPT ![g] = UnreferencedBlobs]
    /\ overlapped' = (overlapped \/ Creating # {} \/ Reading # {})
    /\ UNCHANGED <<dbVars, createVars, oldTrees, restoreVars, failures>>

DeleteBlobs(g) ==
    /\ sweep[g] = "blobs"
    /\ \/ blobs' = blobs \ oldBlobs[g] /\ UNCHANGED failures
       \/ Fail /\ UNCHANGED blobs
    /\ sweep' = [sweep EXCEPT ![g] = "idle"]
    /\ oldBlobs' = [oldBlobs EXCEPT ![g] = {}]
    /\ UNCHANGED <<files, trees, commits, createVars, oldTrees, restoreVars, overlapped>>

-----------------------------------------------------------------------------
(* restoreSnapshot: its transaction reads the tree and the blobs in two    *)
(* statements, each of which sees what is committed by then.               *)

RestoreEnds(r) ==
    /\ restore' = [restore EXCEPT ![r] = "idle"]
    /\ entries' = [entries EXCEPT ![r] = Absent]

(* findSnapshotById and the tree.  A commit that is deleted between the two*)
(* is restored from the legacy tables, where it has no files: no step.     *)
ReadTree(r, c) ==
    /\ restore[r] = "idle"
    /\ c \in commits
    /\ restore' = [restore EXCEPT ![r] = "read"]
    /\ entries' = [entries EXCEPT ![r] = root[c]]
    /\ overlapped' = (overlapped \/ Sweeping # {})
    /\ UNCHANGED <<dbVars, createVars, sweepVars, failures>>

(* Mutant: a missing blob stays undefined. *)
BlobOrUndefined(x) == IF x \in blobs THEN x ELSE Absent

BlobOrBlank(x) == IF x \in blobs THEN x ELSE Blank

(* The blobs are read and the files updated; the updates lock the rows and *)
(* show when the transaction commits.                                      *)
RestoreFiles(r) ==
    /\ restore[r] = "read"
    /\ files' = [p \in Path |-> BlobOrBlank(entries[r][p])]
    /\ RestoreEnds(r)
    /\ UNCHANGED <<blobs, trees, commits, createVars, sweepVars, failures, overlapped>>

RestoreFails(r) ==
    /\ restore[r] # "idle"
    /\ Fail
    /\ RestoreEnds(r)
    /\ UNCHANGED <<dbVars, createVars, sweepVars, overlapped>>

-----------------------------------------------------------------------------
Create(c) ==
    \/ InsertBlobs(c) \/ InsertTree(c) \/ InsertCommit(c)
    \/ Trim(c) \/ Trimmed(c) \/ Commit(c) \/ Rollback(c)

Collect(g) == FindTrees(g) \/ DeleteTrees(g) \/ FindBlobs(g) \/ DeleteBlobs(g)

Next ==
    \/ \E p \in Path, x \in Content : Save(p, x)
    \/ \E c \in Creator : ReadFiles(c) \/ Create(c)
    \/ \E g \in Collector : Collect(g)
    \/ \E r \in Restorer :
         \/ \E c \in Creator : ReadTree(r, c)
         \/ RestoreFiles(r) \/ RestoreFails(r)

Spec == Init /\ [][Next]_vars

(* Awaited statements are answered and the cron runs every day. *)
Fairness ==
    /\ \A c \in Creator : WF_vars(Create(c))
    /\ \A g \in Collector : WF_vars(Collect(g))

FairSpec == Spec /\ Fairness

-----------------------------------------------------------------------------
(* Properties. *)

(* "All-or-nothing" snapshots: a commit that others can see has its tree,  *)
(* whatever collections ran while it was made, and, unless a collection of *)
(* blobs overlapped a creation or restore, all contents of its files,      *)
(* those that it shares with snapshots deleted since included.             *)
CommitsAreWhole ==
    \A c \in commits :
        /\ root[c] \in trees
        /\ overlapped \/ ContentsOf(root[c]) \subseteq blobs

(* Restoring gives back the contents that were saved: without such an      *)
(* overlap no file ever comes back empty, even if retention deletes the    *)
(* snapshot and a collector its tree between the statements of the restore.*)
RestoreBlanksNothing == ~overlapped => \A p \in Path : files[p] # Blank

(* Retention takes a snapshot only for newer ones: a commit that succeeded *)
(* and is gone has Keep newer ones that remain, however many creations     *)
(* trim at the same time and whichever of them fail.                       *)
NewestAreKept ==
    \A c \in Creator :
        at[c] = "done" /\ c \notin commits => Cardinality(Newer(c, commits)) >= Keep

(* The collector keeps up: once creations have ceased, trees and blobs     *)
(* that no snapshot needs are gone for good.                               *)
GarbageIsCollected ==
    <>[](/\ trees \subseteq Roots
         /\ blobs \subseteq UNION {ContentsOf(t) : t \in Roots})

(* "ensuring active git_blobs and git_trees are preserved" while snapshots *)
(* are written and collected at the same time.                             *)
ActiveBlobsArePreserved == \A c \in commits : ContentsOf(root[c]) \subseteq blobs
=============================================================================
