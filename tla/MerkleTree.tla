------------------------------- MODULE MerkleTree -------------------------------
(***************************************************************************)
(* The Merkle tree of a workspace: CASService of services/cas.service.ts   *)
(* and its copy in workers/casWorker.ts.  A hash is the value it was made  *)
(* of, so that equal hashes mean equal values; a path is a directory and a *)
(* name.  The files arrive in the order the query returns them.            *)
(***************************************************************************)
EXTENDS Naturals, Sequences, TLC, FiniteSetsExt

CONSTANTS
    Directories, Names, Contents,  \* numbers, compared by localeCompare
    MaxFiles                       \* bound: files of the workspace

VARIABLES
    files,   \* the workspace's files, as the query returns them
    head     \* the entries of the last commit's tree
treeVars == <<files, head>>

Paths == Directories \X Names
Listings == {f \in UNION {[1..n -> Paths \X Contents] : n \in 0..MaxFiles} :
                \A i, j \in DOMAIN f : f[i][1] = f[j][1] => i = j}

-----------------------------------------------------------------------------
(* The algorithms. *)

Entry(file) == [name |-> file[1][2], hash |-> file[2], path |-> file[1]]
PathBefore(p, q) == p[1] < q[1] \/ (p[1] = q[1] /\ p[2] < q[2])

(* Mutant: entries of one name keep the order they came in. *)
ByNameOnly(a, b) == a.name <= b.name
EntryBefore(a, b) == a.name < b.name \/ (a.name = b.name /\ PathBefore(a.path, b.path))

(* hashTreeEntries: the canonical entries are the tree and its hash. *)
CanonicalEntries(f) == SortSeq([i \in DOMAIN f |-> Entry(f[i])], EntryBefore)

(* buildMerkleTreeInline, executeBuildMerkleTree: the first file of each    *)
(* content makes its blob. *)
Blobs(f) == {f[i] : i \in {j \in DOMAIN f : \A k \in DOMAIN f : f[k][2] = f[j][2] => j <= k}}
BlobHashes(f) == {b[2] : b \in Blobs(f)}

ToMap(entries) == {<<entries[i].path, entries[i].hash>> : i \in DOMAIN entries}
HashAt(entries, p) == (CHOOSE e \in ToMap(entries) : e[1] = p)[2]
PathsIn(entries) == {e[1] : e \in ToMap(entries)}

(* Mutant: an entry is modified when its path is in both trees. *)
InBoth(a, b) == {e \in ToMap(b) : e[1] \in PathsIn(a)}

(* diffTrees *)
Added(a, b) == {e \in ToMap(b) : e[1] \notin PathsIn(a)}
Modified(a, b) == {e \in ToMap(b) : e[1] \in PathsIn(a) /\ HashAt(a, e[1]) # e[2]}
Deleted(a, b) == {e \in ToMap(a) : e[1] \notin PathsIn(b)}

-----------------------------------------------------------------------------
Init == files \in Listings /\ head = <<>>

Commit == head' = CanonicalEntries(files) /\ UNCHANGED files
Change == files' \in Listings /\ UNCHANGED head

Next == Commit \/ Change
Spec == Init /\ [][Next]_treeVars

-----------------------------------------------------------------------------
(* Properties. *)

Shuffled(f, g) == [i \in DOMAIN f |-> f[g[i]]]

(* One set of files has one tree, however the query orders it; each        *)
(* content has its blob once; and the changes diffTrees names are disjoint, *)
(* real, and turn the last commit into the files. *)
TreesAreCanonical ==
    LET now == CanonicalEntries(files)
        added == Added(head, now)  modified == Modified(head, now)  deleted == Deleted(head, now) IN
    /\ \A g \in Permutations(DOMAIN files) : CanonicalEntries(Shuffled(files, g)) = now
    /\ BlobHashes(files) = {files[i][2] : i \in DOMAIN files}
    /\ Cardinality(Blobs(files)) = Cardinality(BlobHashes(files))
    /\ \A e \in modified : e \notin ToMap(head)
    /\ {e \in ToMap(head) : e \notin deleted /\ e[1] \notin {m[1] : m \in modified}}
        \cup added \cup modified = ToMap(now)
=============================================================================
