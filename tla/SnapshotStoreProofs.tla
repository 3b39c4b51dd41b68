------------------------- MODULE SnapshotStoreProofs -------------------------
(***************************************************************************)
(* Proofs about SnapshotStore for any paths, contents, creations,          *)
(* collectors and restores: a visible commit has its tree, and until a     *)
(* collection of blobs overlaps a creation or a restore it has all of its  *)
(* contents, and no restore leaves a file blank.  Retention, whatever      *)
(* creations trim at the same time, takes a snapshot only for Keep newer   *)
(* ones that stay.                                                         *)
(***************************************************************************)
EXTENDS SnapshotStore, FiniteSetTheorems, WellFoundedInduction, TLAPS

USE SnapshotAssumption

(* A transaction is open, or its commit is in. *)
Open == {"hashed", "blobs", "trees", "commit", "trimming", "trimmed"}
Referring == {"commit", "trimming", "trimmed"}

(* What a creation has in hand at each of its steps. *)
Shape ==
    /\ \A c \in commits : at[c] = "done" /\ root[c] \in trees
    /\ \A c \in Creator :
         /\ at[c] \in Open => root[c] \in Tree
         /\ at[c] \in Referring => HasTree(c)
         /\ \A d \in doomed[c] : at[d] = "done" \/ d = c
    /\ \A r \in Reading : entries[r] \in Tree

Full == [Path -> Content]

(* Every tree that is seen, built or read has all its contents, and a      *)
(* collector that is about to delete blobs is alone.                       *)
Whole ==
    /\ files \in Full
    /\ trees \subseteq Full
    /\ \A t \in trees : ContentsOf(t) \subseteq blobs
    /\ \A c \in Creator : at[c] \in Open => root[c] \in Full
    /\ \A c \in Creating : ContentsOf(root[c]) \subseteq blobs \cup newBlobs[c]
    /\ \A r \in Reading : entries[r] \in Full /\ ContentsOf(entries[r]) \subseteq blobs
    /\ \A g \in Sweeping :
         /\ Creating = {} /\ Reading = {}
         /\ \A t \in trees : ContentsOf(t) \cap oldBlobs[g] = {}

StoreInv == Shape /\ (overlapped \/ Whole)

LEMMA ContentsAreText ==
    /\ \A t \in Tree : ContentsOf(t) \subseteq Text
    /\ Full \subseteq Tree
  BY DEF ContentsOf, Tree, Text, Full

LEMMA Typing == TypeOK /\ Shape /\ [Next]_vars => TypeOK'
<1> SUFFICES ASSUME TypeOK, Shape, [Next]_vars PROVE TypeOK'
  OBVIOUS
<1> USE DEF TypeOK, dbVars, createVars, sweepVars, restoreVars
<1>1. ASSUME NEW p \in Path, NEW x \in Content, Save(p, x) PROVE TypeOK'
  BY <1>1 DEF Save, Tree, Text
<1>2. ASSUME NEW c \in Creator, ReadFiles(c) PROVE TypeOK'
  <2>1. IsFiniteSet(Started)
    BY FS_Subset DEF Started
  <2>2. Cardinality(Started) + 1 \in Nat
    BY <2>1, FS_CardinalityType
  <2> QED
    BY <1>2, <2>2 DEF ReadFiles, Goto
<1>3. ASSUME NEW c \in Creator, InsertBlobs(c) PROVE TypeOK'
  <2>1. ContentsOf(root[c]) \subseteq Text
    BY <1>3, ContentsAreText DEF InsertBlobs, Shape, Open
  <2> QED
    BY <1>3, <2>1 DEF InsertBlobs, Goto
<1>4. ASSUME NEW c \in Creator, InsertTree(c) \/ InsertCommit(c) \/ Trimmed(c)
      PROVE  TypeOK'
  BY <1>4, ZenonT(60) DEF InsertTree, InsertCommit, Trimmed, Goto
<1>5. ASSUME NEW c \in Creator, Trim(c) PROVE TypeOK'
  <2>1. BeyondKeep(commits \cup {c}) \subseteq Creator
    BY DEF BeyondKeep
  <2> QED
    BY <1>5, <2>1 DEF Trim, Goto
<1>6. ASSUME NEW c \in Creator, Commit(c) PROVE TypeOK'
  <2>1. root[c] \in Tree
    BY <1>6 DEF Commit, Shape, Open
  <2>2. root' \in [Creator -> Tree \cup {Absent}]
    BY <1>6 DEF Commit
  <2> QED
    BY <1>6, <2>1, <2>2 DEF Commit, EndTransaction, Goto
<1>7. ASSUME NEW c \in Creator, Rollback(c) PROVE TypeOK'
  BY <1>7 DEF Rollback, Fail, EndTransaction, Goto
<1>8. ASSUME NEW g \in Collector, FindTrees(g) PROVE TypeOK'
  BY <1>8 DEF FindTrees, UnreferencedTrees
<1>9. ASSUME NEW g \in Collector, DeleteTrees(g) PROVE TypeOK'
  BY <1>9 DEF DeleteTrees, Fail
<1>10. ASSUME NEW g \in Collector, FindBlobs(g) PROVE TypeOK'
  BY <1>10 DEF FindBlobs, UnreferencedBlobs
<1>11. ASSUME NEW g \in Collector, DeleteBlobs(g) PROVE TypeOK'
  BY <1>11 DEF DeleteBlobs, Fail
<1>12. ASSUME NEW r \in Restorer, NEW c \in Creator, ReadTree(r, c) PROVE TypeOK'
  BY <1>12 DEF ReadTree
<1>13. ASSUME NEW r \in Restorer, RestoreFiles(r) PROVE TypeOK'
  <2>1. entries[r] \in Tree
    BY <1>13 DEF RestoreFiles, Shape, Reading
  <2>2. files' \in Tree
    BY <1>13, <2>1 DEF RestoreFiles, BlobOrBlank, Tree, Text
  <2> QED
    BY <1>13, <2>2 DEF RestoreFiles, RestoreEnds
<1>14. ASSUME NEW r \in Restorer, RestoreFails(r) PROVE TypeOK'
  BY <1>14 DEF RestoreFails, RestoreEnds, Fail
<1>15. CASE UNCHANGED vars
  BY <1>15 DEF vars
<1> QED
  BY <1>1, <1>2, <1>3, <1>4, <1>5, <1>6, <1>7, <1>8, <1>9, <1>10, <1>11, <1>12,
     <1>13, <1>14, <1>15 DEF Next, Create, Collect

LEMMA ShapeStep == TypeOK /\ Shape /\ [Next]_vars => Shape'
<1> SUFFICES ASSUME TypeOK, Shape, [Next]_vars PROVE Shape'
  OBVIOUS
<1> USE DEF TypeOK, Shape, Open, Referring, HasTree, Reading, dbVars, createVars,
            sweepVars, restoreVars
<1>1. ASSUME NEW p \in Path, NEW x \in Content, Save(p, x) PROVE Shape'
  BY <1>1 DEF Save
<1>2. ASSUME NEW c \in Creator, ReadFiles(c) PROVE Shape'
  BY <1>2 DEF ReadFiles, Goto
<1>3. ASSUME NEW c \in Creator, InsertBlobs(c) PROVE Shape'
  BY <1>3 DEF InsertBlobs, Goto
<1>4. ASSUME NEW c \in Creator, InsertTree(c) \/ InsertCommit(c) \/ Trimmed(c)
      PROVE  Shape'
  BY <1>4 DEF InsertTree, InsertCommit, Trimmed, Goto
<1>5. ASSUME NEW c \in Creator, Trim(c) PROVE Shape'
  <2>1. \A d \in BeyondKeep(commits \cup {c}) : at[d] = "done" \/ d = c
    BY DEF BeyondKeep
  <2>2. /\ at[c] = "commit" /\ at'[c] = "trimming"
        /\ \A d \in Creator \ {c} : at'[d] = at[d] /\ doomed'[d] = doomed[d]
        /\ doomed'[c] = BeyondKeep(commits \cup {c})
        /\ UNCHANGED <<commits, root, trees, newTree, restore, entries>>
    BY <1>5 DEF Trim, Goto
  <2>3. \A d \in Creator : \A e \in doomed'[d] : at'[e] = "done" \/ e = d
    <3>1. \A d, e \in Creator : at[e] = "done" => at'[e] = "done"
      BY <2>2
    <3>2. ASSUME NEW d \in Creator \ {c}, NEW e \in doomed'[d]
          PROVE  at'[e] = "done" \/ e = d
      BY <2>2, <3>1, <3>2
    <3>3. ASSUME NEW e \in doomed'[c] PROVE at'[e] = "done" \/ e = c
      <4>1. e \in Creator /\ e \in BeyondKeep(commits \cup {c})
        BY <2>2, <3>3 DEF BeyondKeep
      <4> QED
        BY <2>1, <3>1, <4>1
    <3> QED
      BY <3>2, <3>3
  <2> QED
    BY <2>2, <2>3
<1>6. ASSUME NEW c \in Creator, Commit(c) PROVE Shape'
  <2>1. HasTree(c) /\ root[c] \in trees' /\ trees \subseteq trees'
    BY <1>6 DEF Commit
  <2>2. \A d \in Creator \ doomed[c] : root'[d] = root[d]
    BY <1>6 DEF Commit
  <2>3. \A d \in Creator : /\ d # c => at'[d] = at[d] /\ doomed'[d] = doomed[d]
                                       /\ newTree'[d] = newTree[d]
                           /\ at'[c] = "done" /\ doomed'[c] = {}
    BY <1>6 DEF Commit, EndTransaction, Goto
  <2>4. \A d \in commits' : at'[d] = "done" /\ root'[d] \in trees'
    BY <1>6, <2>1, <2>2, <2>3 DEF Commit
  <2>5. ASSUME NEW d \in Creator
        PROVE  /\ at'[d] \in Open => root'[d] \in Tree
               /\ at'[d] \in Referring => HasTree(d)'
               /\ \A e \in doomed'[d] : at'[e] = "done" \/ e = d
    <3>1. CASE d = c
      BY <3>1, <2>3
    <3>2. CASE d # c /\ at[d] \in Open
      <4>1. d \notin doomed[c]
        BY <3>2
      <4> QED
        BY <3>2, <4>1, <2>1, <2>2, <2>3
    <3>3. CASE d # c /\ at[d] \notin Open
      BY <3>3, <2>3
    <3> QED
      BY <3>1, <3>2, <3>3
  <2>6. \A r \in Reading' : entries'[r] \in Tree
    BY <1>6 DEF Commit
  <2> QED
    BY <2>4, <2>5, <2>6
<1>7. ASSUME NEW c \in Creator, Rollback(c) PROVE Shape'
  BY <1>7 DEF Rollback, EndTransaction, Goto
<1>8. ASSUME NEW g \in Collector, FindTrees(g) PROVE Shape'
  BY <1>8 DEF FindTrees
<1>9. ASSUME NEW g \in Collector, DeleteTrees(g) PROVE Shape'
  <2>1. \A c \in commits : root[c] \in trees'
    BY <1>9 DEF DeleteTrees, Deletable, Roots
  <2>2. \A c \in Creator : at[c] \in Referring => HasTree(c)'
    <3>1. \A c \in Creator : at[c] \in Referring => root[c] \notin oldTrees[g]
      BY <1>9 DEF DeleteTrees
    <3>2. trees \ oldTrees[g] \subseteq trees'
      BY <1>9 DEF DeleteTrees, Deletable
    <3> QED
      BY <1>9, <3>1, <3>2 DEF DeleteTrees
  <2> QED
    BY <1>9, <2>1, <2>2 DEF DeleteTrees
<1>10. ASSUME NEW g \in Collector, FindBlobs(g) PROVE Shape'
  BY <1>10 DEF FindBlobs
<1>11. ASSUME NEW g \in Collector, DeleteBlobs(g) PROVE Shape'
  BY <1>11 DEF DeleteBlobs
<1>12. ASSUME NEW r \in Restorer, NEW c \in Creator, ReadTree(r, c) PROVE Shape'
  BY <1>12 DEF ReadTree
<1>13. ASSUME NEW r \in Restorer, RestoreFiles(r) PROVE Shape'
  BY <1>13 DEF RestoreFiles, RestoreEnds
<1>14. ASSUME NEW r \in Restorer, RestoreFails(r) PROVE Shape'
  BY <1>14 DEF RestoreFails, RestoreEnds
<1>15. CASE UNCHANGED vars
  BY <1>15 DEF vars
<1> QED
  BY <1>1, <1>2, <1>3, <1>4, <1>5, <1>6, <1>7, <1>8, <1>9, <1>10, <1>11, <1>12,
     <1>13, <1>14, <1>15 DEF Next, Create, Collect

LEMMA WholeStep ==
    ASSUME TypeOK, Shape, Whole, [Next]_vars, ~overlapped'
    PROVE  Whole'
<1> USE DEF TypeOK, Whole, Open, Creating, Sweeping, Reading, dbVars, createVars,
            sweepVars, restoreVars
<1>1. ASSUME NEW p \in Path, NEW x \in Content, Save(p, x) PROVE Whole'
  <2>1. files' \in Full
    BY <1>1 DEF Save, Full
  <2> QED
    BY <1>1, <2>1 DEF Save
<1>2. ASSUME NEW c \in Creator, ReadFiles(c) PROVE Whole'
  <2>1. Creating' = Creating
    BY <1>2 DEF ReadFiles, Goto
  <2> QED
    BY <1>2, <2>1 DEF ReadFiles, Goto
<1>3. ASSUME NEW c \in Creator, InsertBlobs(c) PROVE Whole'
  <2>1. Sweeping' = {}
    BY <1>3 DEF InsertBlobs
  <2>2. \A d \in Creating' : ContentsOf(root'[d]) \subseteq blobs' \cup newBlobs'[d]
    BY <1>3 DEF InsertBlobs, Goto
  <2> QED
    BY <1>3, <2>1, <2>2 DEF InsertBlobs, Goto
<1>4. ASSUME NEW c \in Creator,
             InsertTree(c) \/ InsertCommit(c) \/ Trim(c) \/ Trimmed(c)
      PROVE  Whole'
  <2>1. Creating' = Creating
    BY <1>4 DEF InsertTree, InsertCommit, Trim, Trimmed, Goto
  <2>2. \A d \in Creator : at'[d] \in Open => at[d] \in Open
    BY <1>4 DEF InsertTree, InsertCommit, Trim, Trimmed, Goto
  <2>3. UNCHANGED <<files, trees, blobs, root, newBlobs, sweep, oldBlobs, restore, entries>>
    BY <1>4 DEF InsertTree, InsertCommit, Trim, Trimmed
  <2> QED
    BY <2>1, <2>2, <2>3
<1>5. ASSUME NEW c \in Creator, Commit(c) PROVE Whole'
  <2>1. c \in Creating /\ root[c] \in Full /\ ContentsOf(root[c]) \subseteq blobs'
    BY <1>5 DEF Commit
  <2>2. blobs \subseteq blobs' /\ trees' \subseteq trees \cup {root[c]}
    BY <1>5 DEF Commit
  <2>3. Sweeping' = {}
    BY <1>5, <2>1 DEF Commit
  <2>4. \A d \in Creator : at'[d] \in Open =>
           at[d] = at'[d] /\ root'[d] = root[d] /\ newBlobs'[d] = newBlobs[d]
    BY <1>5 DEF Commit, EndTransaction, Goto, Shape
  <2>5. UNCHANGED <<files, restore, entries>>
    BY <1>5 DEF Commit
  <2> QED
    BY <2>1, <2>2, <2>3, <2>4, <2>5
<1>6. ASSUME NEW c \in Creator, Rollback(c) PROVE Whole'
  <2>1. \A d \in Creator : at'[d] \in Open =>
           at[d] = at'[d] /\ root'[d] = root[d] /\ newBlobs'[d] = newBlobs[d]
    BY <1>6 DEF Rollback, EndTransaction, Goto
  <2>2. Creating' \subseteq Creating
    BY <1>6 DEF Rollback, Goto
  <2>3. UNCHANGED <<files, trees, blobs, sweep, oldBlobs, restore, entries>>
    BY <1>6 DEF Rollback
  <2> QED
    BY <2>1, <2>2, <2>3
<1>7. ASSUME NEW g \in Collector, FindTrees(g) \/ DeleteTrees(g) PROVE Whole'
  <2>1. trees' \subseteq trees /\ Sweeping' = Sweeping
    BY <1>7 DEF FindTrees, DeleteTrees
  <2>2. UNCHANGED <<files, blobs, at, root, newBlobs, oldBlobs, restore, entries>>
    BY <1>7 DEF FindTrees, DeleteTrees
  <2> QED
    BY <2>1, <2>2
<1>8. ASSUME NEW g \in Collector, FindBlobs(g) PROVE Whole'
  <2>1. Creating = {} /\ Reading = {}
    BY <1>8 DEF FindBlobs
  <2>2. \A t \in trees : ContentsOf(t) \cap UnreferencedBlobs = {}
    BY DEF UnreferencedBlobs
  <2>3. \A h \in Sweeping' : \A t \in trees : ContentsOf(t) \cap oldBlobs'[h] = {}
    BY <1>8, <2>2 DEF FindBlobs
  <2>4. UNCHANGED <<files, blobs, trees, at, root, newBlobs, restore, entries>>
    BY <1>8 DEF FindBlobs
  <2> QED
    BY <2>1, <2>3, <2>4
<1>9. ASSUME NEW g \in Collector, DeleteBlobs(g) PROVE Whole'
  <2>1. g \in Sweeping /\ Creating = {} /\ Reading = {}
    BY <1>9 DEF DeleteBlobs
  <2>2. \A t \in trees : ContentsOf(t) \subseteq blobs'
    BY <1>9, <2>1 DEF DeleteBlobs
  <2>3. \A h \in Sweeping' : h \in Sweeping /\ oldBlobs'[h] = oldBlobs[h]
    BY <1>9 DEF DeleteBlobs
  <2>4. UNCHANGED <<files, trees, at, root, newBlobs, restore, entries>>
    BY <1>9 DEF DeleteBlobs
  <2> QED
    BY <2>1, <2>2, <2>3, <2>4
<1>10. ASSUME NEW r \in Restorer, NEW c \in Creator, ReadTree(r, c) PROVE Whole'
  <2>1. root[c] \in trees
    BY <1>10 DEF ReadTree, Shape
  <2>2. \A q \in Reading' : entries'[q] \in Full /\ ContentsOf(entries'[q]) \subseteq blobs
    BY <1>10, <2>1 DEF ReadTree
  <2>3. Sweeping' = {}
    BY <1>10 DEF ReadTree
  <2> QED
    BY <1>10, <2>2, <2>3 DEF ReadTree
<1>11. ASSUME NEW r \in Restorer, RestoreFiles(r) PROVE Whole'
  <2>1. entries[r] \in Full /\ ContentsOf(entries[r]) \subseteq blobs
    BY <1>11 DEF RestoreFiles
  <2>2. files' \in Full
    BY <1>11, <2>1 DEF RestoreFiles, BlobOrBlank, ContentsOf, Full
  <2>3. Reading' \subseteq Reading /\ \A q \in Reading' : entries'[q] = entries[q]
    BY <1>11 DEF RestoreFiles, RestoreEnds
  <2> QED
    BY <1>11, <2>2, <2>3 DEF RestoreFiles
<1>12. ASSUME NEW r \in Restorer, RestoreFails(r) PROVE Whole'
  <2>1. Reading' \subseteq Reading /\ \A q \in Reading' : entries'[q] = entries[q]
    BY <1>12 DEF RestoreFails, RestoreEnds
  <2> QED
    BY <1>12, <2>1 DEF RestoreFails
<1>13. CASE UNCHANGED vars
  BY <1>13 DEF vars
<1> QED
  BY <1>1, <1>2, <1>3, <1>4, <1>5, <1>6, <1>7, <1>8, <1>9, <1>10, <1>11, <1>12,
     <1>13 DEF Next, Create, Collect

(* The history is not forgotten. *)
LEMMA OverlapStays == TypeOK /\ overlapped /\ [Next]_vars => overlapped'
<1> SUFFICES ASSUME TypeOK, overlapped, [Next]_vars PROVE overlapped'
  OBVIOUS
<1> QED
  BY DEF Next, vars, dbVars, createVars, sweepVars, restoreVars, Save, ReadFiles,
         Create, InsertBlobs, InsertTree, InsertCommit, Trim, Trimmed, Commit,
         Rollback, Collect, FindTrees, DeleteTrees, FindBlobs, DeleteBlobs,
         ReadTree, RestoreFiles, RestoreFails

(* Types and the inductive invariant of the store. *)
THEOREM StoreInvariant == Spec => [](TypeOK /\ StoreInv)
<1>1. Init => TypeOK /\ StoreInv
  <2> SUFFICES ASSUME Init PROVE TypeOK /\ StoreInv
    OBVIOUS
  <2>1. Full \subseteq Tree /\ files \in Full
    BY ContentsAreText DEF Init, Full
  <2>2. trees \subseteq {files} /\ blobs = UNION {ContentsOf(t) : t \in trees}
    BY DEF Init
  <2>3. blobs \subseteq Text
    BY <2>1, <2>2, ContentsAreText
  <2>4. TypeOK
    <3>1. files \in Tree /\ trees \subseteq Tree /\ commits \subseteq Creator
      BY <2>1, <2>2 DEF Init
    <3>2. root \in [Creator -> Tree \cup {Absent}]
      BY <3>1 DEF Init
    <3>3. at \in [Creator -> {"new", "hashed", "blobs", "trees", "commit",
                              "trimming", "trimmed", "done", "failed"}]
      BY DEF Init
    <3>4. /\ began \in [Creator -> Nat] /\ newBlobs \in [Creator -> SUBSET Text]
          /\ newTree \in [Creator -> BOOLEAN] /\ doomed \in [Creator -> SUBSET Creator]
      BY DEF Init
    <3>5. /\ sweep \in [Collector -> {"idle", "trees", "between", "blobs"}]
          /\ oldTrees \in [Collector -> SUBSET Tree]
          /\ oldBlobs \in [Collector -> SUBSET Text]
      BY DEF Init
    <3>6. /\ restore \in [Restorer -> {"idle", "read"}]
          /\ entries \in [Restorer -> Tree \cup {Absent}]
      BY DEF Init
    <3>7. failures = 0 /\ overlapped = FALSE /\ 0 \in 0..MaxFailures
      BY DEF Init
    <3> QED
      BY <2>3, <3>1, <3>2, <3>3, <3>4, <3>5, <3>6, <3>7 DEF TypeOK
  <2>5. Shape
    BY <2>1 DEF Init, Shape, Open, Referring, Reading
  <2>6. \A t \in trees : ContentsOf(t) \subseteq blobs
    BY <2>2
  <2>7. Whole
    BY <2>1, <2>2, <2>6 DEF Init, Whole, Open, Creating, Reading, Sweeping
  <2> QED
    BY <2>4, <2>5, <2>7 DEF StoreInv
<1>2. TypeOK /\ StoreInv /\ [Next]_vars => TypeOK' /\ StoreInv'
  <2> SUFFICES ASSUME TypeOK, StoreInv, [Next]_vars PROVE TypeOK' /\ StoreInv'
    OBVIOUS
  <2>1. TypeOK' /\ Shape'
    BY Typing, ShapeStep DEF StoreInv
  <2>2. overlapped' \/ Whole'
    BY WholeStep, OverlapStays DEF StoreInv
  <2> QED
    BY <2>1, <2>2 DEF StoreInv
<1> QED
  BY <1>1, <1>2, PTL DEF Spec

(* A visible commit has its tree, and its contents until an overlap. *)
THEOREM CommitsStayWhole == Spec => []CommitsAreWhole
<1>1. TypeOK /\ StoreInv => CommitsAreWhole
  BY DEF TypeOK, StoreInv, Shape, Whole, CommitsAreWhole
<1> QED
  BY <1>1, StoreInvariant, PTL

(* Until then no restore leaves a file blank. *)
THEOREM RestoresBlankNothing == Spec => []RestoreBlanksNothing
<1>1. TypeOK /\ StoreInv => RestoreBlanksNothing
  BY DEF TypeOK, StoreInv, Whole, Full, RestoreBlanksNothing
<1> QED
  BY <1>1, StoreInvariant, PTL

-----------------------------------------------------------------------------
(* Retention. *)

(* A set of naturals has a least one. *)
LEMMA LeastNatural ==
    ASSUME NEW T, T \subseteq Nat, T # {}
    PROVE  \E n \in T : \A m \in T : n <= m
<1>1. PICK n \in T : \A m \in T : <<m, n>> \notin OpToRel(<, Nat)
  BY WFMin, NatLessThanWellFounded
<1>2. \A m \in T : m \in Nat /\ n \in Nat /\ ~(m < n)
  BY <1>1 DEF OpToRel
<1> QED
  BY <1>2

(* Retention by the commits there ever were spares the same snapshots as   *)
(* retention by those that it leaves: the newest Keep are among them.      *)
LEMMA NewestRemain ==
    ASSUME TypeOK, NEW S \in SUBSET Creator, NEW x \in Creator,
           NEW R, S \ R \subseteq BeyondKeep(S), R \subseteq S,
           Cardinality(Newer(x, S)) >= Keep
    PROVE  Cardinality(Newer(x, R)) >= Keep
<1> DEFINE Rank(y) == Cardinality(Newer(y, S))
           N == Newer(x, S)
           Top == Newer(x, R)
<1>1. /\ IsFiniteSet(S) /\ IsFiniteSet(N) /\ IsFiniteSet(Top)
      /\ \A y : IsFiniteSet(Newer(y, S)) /\ Rank(y) \in Nat
  BY FS_Subset, FS_CardinalityType DEF Newer
<1>2. Keep \in Nat /\ Cardinality(Top) \in Nat
  BY <1>1, FS_CardinalityType
<1>3. \A y \in S : began[y] \in Nat
  BY DEF TypeOK
<1>4. began[x] \in Nat
  BY DEF TypeOK
<1> SUFFICES ASSUME Cardinality(Top) < Keep PROVE FALSE
  BY <1>2
<1>5. Top \subseteq N /\ N \ Top # {}
  <2>1. Top \subseteq N
    BY DEF Newer
  <2>2. Top # N
    BY <1>1, <1>2
  <2> QED
    BY <2>1, <2>2
<1>6. PICK y \in N \ Top : \A z \in N \ Top : Rank(y) <= Rank(z)
  <2> DEFINE T == {Rank(z) : z \in N \ Top}
  <2>1. T \subseteq Nat /\ T # {}
    BY <1>1, <1>5
  <2> HIDE DEF T
  <2>2. PICK n \in T : \A m \in T : n <= m
    BY <2>1, LeastNatural
  <2> QED
    BY <2>2 DEF T
<1>7. y \in S /\ began[y] > began[x] /\ Rank(y) >= Keep
  BY DEF Newer, BeyondKeep
<1>8. Newer(y, S) \subseteq Top
  <2> SUFFICES ASSUME NEW z \in Newer(y, S), z \notin Top PROVE FALSE
    OBVIOUS
  <2>1. z \in S /\ began[z] > began[y]
    BY DEF Newer
  <2>2. z \in N \ Top
    BY <2>1, <1>3, <1>4, <1>7 DEF Newer
  <2>3. Newer(z, S) \subseteq Newer(y, S) /\ z \notin Newer(z, S)
    BY <2>1, <1>3, <1>7 DEF Newer
  <2>4. Rank(z) <= Rank(y) /\ Rank(z) # Rank(y)
    BY <2>3, <1>1, FS_Subset
  <2> QED
    BY <1>1, <1>6, <2>2, <2>4
<1>9. Rank(y) <= Cardinality(Top)
  BY <1>1, <1>8, FS_Subset
<1> QED
  BY <1>1, <1>2, <1>7, <1>9

(* The creations that have succeeded, whatever became of their commits. *)
Through == {c \in Creator : at[c] = "done"}

(* Retention deletes, and has deleted, only what was beyond Keep among all *)
(* commits there ever were, the deleting one included.                     *)
Retained ==
    /\ commits \subseteq Through
    /\ \A c \in Creator :
         /\ doomed[c] # {} => at[c] \in {"trimming", "trimmed"}
         /\ doomed[c] \subseteq BeyondKeep(Through \cup {c})
    /\ Through \ commits \subseteq BeyondKeep(Through)

(* More commits only put a snapshot further back. *)
LEMMA BackStaysBack ==
    ASSUME TypeOK, NEW S \in SUBSET Creator, NEW T \in SUBSET Creator, S \subseteq T
    PROVE  BeyondKeep(S) \subseteq BeyondKeep(T)
<1> SUFFICES ASSUME NEW x \in BeyondKeep(S) PROVE x \in BeyondKeep(T)
  OBVIOUS
<1>1. IsFiniteSet(Newer(x, T)) /\ Newer(x, S) \subseteq Newer(x, T)
  BY FS_Subset DEF Newer
<1>2. /\ Cardinality(Newer(x, S)) <= Cardinality(Newer(x, T))
      /\ Cardinality(Newer(x, S)) \in Nat /\ Cardinality(Newer(x, T)) \in Nat
  BY <1>1, FS_Subset, FS_CardinalityType
<1> QED
  BY <1>2 DEF BeyondKeep

LEMMA RetainedStep == TypeOK /\ Retained /\ [Next]_vars => Retained'
<1> SUFFICES ASSUME TypeOK, Retained, [Next]_vars PROVE Retained'
  OBVIOUS
<1> USE DEF Through, dbVars, createVars, sweepVars, restoreVars
<1>1. ASSUME UNCHANGED <<commits, at, began, doomed>> PROVE Retained'
  BY <1>1 DEF Retained, BeyondKeep, Newer
<1>2. ASSUME NEW c \in Creator,
             ReadFiles(c) \/ InsertBlobs(c) \/ InsertTree(c) \/ InsertCommit(c)
                \/ Rollback(c)
      PROVE  Retained'
  <2>1. /\ at[c] # "done" /\ at'[c] # "done" /\ doomed'[c] = {}
        /\ \A d \in Creator \ {c} : /\ at'[d] = at[d] /\ began'[d] = began[d]
                                    /\ doomed'[d] = doomed[d]
        /\ commits' = commits
    BY <1>2 DEF ReadFiles, InsertBlobs, InsertTree, InsertCommit, Rollback,
                EndTransaction, Goto, TypeOK, Retained
  <2>2. Through' = Through /\ c \notin Through
    BY <2>1
  <2>3. \A S \in SUBSET Creator : c \notin S =>
           {x \in S : Cardinality({d \in S : began'[d] > began'[x]}) >= Keep}
              = BeyondKeep(S)
    <3> SUFFICES ASSUME NEW S \in SUBSET Creator, c \notin S
                 PROVE  {x \in S : Cardinality({d \in S : began'[d] > began'[x]}) >= Keep}
                           = BeyondKeep(S)
      OBVIOUS
    <3>1. \A x \in S : {d \in S : began'[d] > began'[x]} = Newer(x, S)
      BY <2>1 DEF Newer
    <3> QED
      BY <3>1 DEF BeyondKeep
  <2>4. ASSUME NEW d \in Creator \ {c}
        PROVE  (doomed[d] \subseteq BeyondKeep(Through \cup {d}))'
    <3>1. /\ Through \cup {d} \in SUBSET Creator /\ c \notin Through \cup {d}
          /\ Through' \cup {d} = Through \cup {d}
      BY <2>2
    <3>2. BeyondKeep(Through \cup {d})' = BeyondKeep(Through \cup {d})
      BY <2>3, <3>1 DEF BeyondKeep, Newer
    <3> QED
      BY <2>1, <3>2 DEF Retained
  <2>5. (Through \ commits \subseteq BeyondKeep(Through))'
    <3>1. BeyondKeep(Through)' = BeyondKeep(Through)
      BY <2>2, <2>3, ZenonT(60) DEF BeyondKeep, Newer
    <3> QED
      BY <2>1, <2>2, <3>1, ZenonT(60) DEF Retained
  <2>6. \A d \in Creator : doomed'[d] # {} => at'[d] \in {"trimming", "trimmed"}
    BY <2>1 DEF Retained
  <2>7. (\A d \in Creator : doomed[d] \subseteq BeyondKeep(Through \cup {d}))'
    BY <2>1, <2>4
  <2> QED
    BY <2>1, <2>2, <2>5, <2>6, <2>7 DEF Retained
<1>3. ASSUME NEW c \in Creator, Trim(c) PROVE Retained'
  <2>1. /\ Through' = Through /\ commits \cup {c} \subseteq Through \cup {c}
        /\ UNCHANGED <<began, commits>>
    BY <1>3 DEF Trim, Goto, TypeOK, Retained
  <2>2. \A S : BeyondKeep(S)' = BeyondKeep(S)
    BY <2>1 DEF BeyondKeep, Newer
  <2>3. BeyondKeep(commits \cup {c}) \subseteq BeyondKeep(Through \cup {c})
    BY <2>1, BackStaysBack DEF TypeOK
  <2>4. \A d \in Creator :
           /\ doomed'[d] = IF d = c THEN BeyondKeep(commits \cup {c}) ELSE doomed[d]
           /\ at'[d] = IF d = c THEN "trimming" ELSE at[d]
    BY <1>3 DEF Trim, Goto, TypeOK
  <2> QED
    BY <2>1, <2>2, <2>3, <2>4 DEF Retained
<1>4. ASSUME NEW c \in Creator, Trimmed(c) PROVE Retained'
  <2>1. Through' = Through /\ UNCHANGED <<began, commits, doomed>>
    BY <1>4 DEF Trimmed, Goto, TypeOK
  <2>2. \A S : BeyondKeep(S)' = BeyondKeep(S)
    BY <2>1 DEF BeyondKeep, Newer
  <2>3. \A d \in Creator : at[d] \in {"trimming", "trimmed"}
                              => at'[d] \in {"trimming", "trimmed"}
    BY <1>4 DEF Trimmed, Goto, TypeOK
  <2> QED
    BY <2>1, <2>2, <2>3 DEF Retained
<1>5. ASSUME NEW c \in Creator, Commit(c) PROVE Retained'
  <2>1. /\ Through' = Through \cup {c} /\ commits' = (commits \cup {c}) \ doomed[c]
        /\ began' = began
        /\ \A d \in Creator : doomed'[d] = IF d = c THEN {} ELSE doomed[d]
        /\ \A d \in Creator \ {c} : at'[d] = at[d]
    BY <1>5 DEF Commit, EndTransaction, Goto, TypeOK
  <2>2. \A S : BeyondKeep(S)' = BeyondKeep(S)
    BY <2>1 DEF BeyondKeep, Newer
  <2>3. \A d \in Creator :
           BeyondKeep(Through \cup {d}) \subseteq BeyondKeep(Through' \cup {d})
    BY <2>1, BackStaysBack
  <2>4. BeyondKeep(Through) \subseteq BeyondKeep(Through')
    BY <2>1, BackStaysBack
  <2>5. (Through \ commits \subseteq BeyondKeep(Through))'
    BY <2>1, <2>2, <2>4 DEF Retained
  <2>6. (\A d \in Creator : doomed[d] \subseteq BeyondKeep(Through \cup {d}))'
    BY <2>1, <2>2, <2>3 DEF Retained
  <2>7. \A d \in Creator : doomed'[d] # {} => at'[d] \in {"trimming", "trimmed"}
    BY <2>1 DEF Retained
  <2>8. commits' \subseteq Through'
    BY <2>1 DEF Retained
  <2> QED
    BY <2>2, <2>5, <2>6, <2>7, <2>8 DEF Retained
<1>6. ASSUME NEW p \in Path, NEW x \in Content, Save(p, x) PROVE Retained'
  BY <1>1, <1>6 DEF Save
<1>7. ASSUME NEW g \in Collector, Collect(g) PROVE Retained'
  BY <1>1, <1>7 DEF Collect, FindTrees, DeleteTrees, FindBlobs, DeleteBlobs
<1>8. ASSUME NEW r \in Restorer, (\E c \in Creator : ReadTree(r, c)) \/ RestoreFiles(r)
                                   \/ RestoreFails(r)
      PROVE  Retained'
  BY <1>1, <1>8 DEF ReadTree, RestoreFiles, RestoreFails
<1>9. CASE UNCHANGED vars
  BY <1>1, <1>9 DEF vars
<1> QED
  BY <1>2, <1>3, <1>4, <1>5, <1>6, <1>7, <1>8, <1>9 DEF Next, Create

(* Retention takes a snapshot only for Keep newer ones that remain. *)
THEOREM NewestStay == Spec => []NewestAreKept
<1>1. Init => Retained
  BY DEF Init, Retained, Through
<1>2. TypeOK /\ Retained => NewestAreKept
  <2> SUFFICES ASSUME TypeOK, Retained, NEW c \in Through \ commits
               PROVE  Cardinality(Newer(c, commits)) >= Keep
    BY DEF NewestAreKept, Through
  <2>1. /\ Through \in SUBSET Creator /\ commits \subseteq Through /\ c \in Creator
        /\ Through \ commits \subseteq BeyondKeep(Through)
    BY DEF Retained, Through
  <2>2. Cardinality(Newer(c, Through)) >= Keep
    BY <2>1 DEF BeyondKeep
  <2> QED
    BY <2>1, <2>2, NewestRemain
<1> QED
  BY <1>1, <1>2, RetainedStep, StoreInvariant, PTL DEF Spec
=============================================================================
