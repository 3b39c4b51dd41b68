----------------------------- MODULE ContainerFiles -----------------------------
(***************************************************************************)
(* The two copies of a workspace's files: the rows of table files and the  *)
(* disk of its container.  The file routes and the saves of the editors    *)
(* push rows to the disk (syncFileToTerminal, syncDeleteToTerminal); every *)
(* terminal socket has a watcher that polls the disk and pulls what the    *)
(* shell did into the rows (startTerminalWatcher of                        *)
(* terminal/terminalHandler.ts).  The terminals of a workspace share its   *)
(* container, and their watchers know nothing of each other.               *)
(*                                                                         *)
(* Paths are flat: the watcher makes missing parent rows first, and a      *)
(* directory is a file without text.  A text is named by the operation     *)
(* that wrote it; stamp stands for mtime and size, ino for the inode, whose *)
(* number the file system gives again once it is free.                     *)
(***************************************************************************)
EXTENDS Naturals, FiniteSetsExt

CONSTANTS
    Terminals,  \* sockets; one is used again when the scan of its last watcher has ended
    Paths,
    Hidden,     \* paths the listing leaves out: dot files, EXCLUDED_DIRS,
                \* more than 1 MiB, deeper than maxdepth
    MaxIno,     \* bound: inode numbers
    MaxIds,     \* bound: ids in use at a time
    MaxOps      \* bound: what users do, opening terminals and editors included

VARIABLES
    disk,       \* the container's files
    rows,       \* table files: path to id and content
    live,       \* ids with a document in memory (hasActiveYjsDoc)
    cool,       \* recentWrites: paths within WRITE_COOLDOWN_MS
    syncs,      \* calls on their way to the container
    terminal,   \* whether the socket is open
    known,      \* lastState of each watcher
    scan,       \* its running scan
    ops,        \* operations so far
    kept,       \* history: ids whose file is where the watcher's last listing
                \* found it, and whose row no other watcher has moved
    shellOnly   \* history: only the shell touched the files, listings worked,
                \* and watchers ran one at a time
server == <<rows, live, cool, syncs>>
watcher == <<known, scan>>
ghosts == <<kept, shellOnly>>
vars == <<disk, server, terminal, watcher, ops, ghosts>>

Texts == 0..MaxOps
FileStates == [ino : 0..MaxIno, stamp : Texts, text : Texts]
Ids == 0..MaxIds
RowStates == [id : Ids, text : Texts]
NoFile == [ino |-> 0, stamp |-> 0, text |-> 0]
NoRow == [id |-> 0, text |-> 0]
Unseen == [has |-> FALSE, ino |-> 0, stamp |-> 0]
Seen(file) == [has |-> TRUE, ino |-> file.ino, stamp |-> file.stamp]
Idle(first) ==
    [step |-> "idle", first |-> first, files |-> [p \in Paths |-> NoFile],
     rows |-> [p \in Paths |-> NoRow], gone |-> {}, added |-> {}, todo |-> {},
     misread |-> FALSE]

OnDisk(p) == disk[p].ino # 0
HasRow(p) == rows[p].id # 0
PathsOf(i) == {p \in Paths : rows[p].id = i}
FreeInos == 1..MaxIno \ {disk[p].ino : p \in Paths}
(* Ids for new rows: none that anything refers to.                         *)
NewIds == Ids \ ({0} \cup {rows[p].id : p \in Paths} \cup live \cup {s.id : s \in syncs}
                 \cup UNION {kept[w] \cup {scan[w].rows[p].id : p \in Paths} : w \in Terminals})
NewId == Min(NewIds)

TypeOK ==
    /\ disk \in [Paths -> FileStates]
    /\ rows \in [Paths -> RowStates]
    /\ live \subseteq Ids /\ kept \in [Terminals -> SUBSET Ids]
    /\ cool \subseteq Paths
    /\ syncs \subseteq [op : {"write", "remove"}, id : Ids, path : Paths, text : Texts]
    /\ terminal \in [Terminals -> BOOLEAN] /\ shellOnly \in BOOLEAN
    /\ known \in [Terminals -> [Paths -> [has : BOOLEAN, ino : 0..MaxIno, stamp : Texts]]]
    /\ scan \in [Terminals ->
            [step : {"idle", "listed", "compared"}, first : BOOLEAN,
             files : [Paths -> FileStates], rows : [Paths -> RowStates],
             gone : SUBSET Paths, added : SUBSET Paths, todo : SUBSET Paths, misread : BOOLEAN]]
    /\ ops \in 0..MaxOps
    /\ \A p, q \in Paths : HasRow(p) /\ rows[p].id = rows[q].id => p = q
    /\ \A p, q \in Paths : OnDisk(p) /\ disk[p].ino = disk[q].ino => p = q

(* A container whose disk populateContainerWorkspace made from the rows.   *)
Init ==
    /\ \E full \in SUBSET Paths :
       LET f == CHOOSE g \in [Paths -> 1..Cardinality(Paths)] : \A p, q \in Paths : g[p] = g[q] => p = q IN
        /\ rows = [p \in Paths |-> IF p \in full THEN [id |-> f[p], text |-> 0] ELSE NoRow]
        /\ disk = [p \in Paths |-> IF p \in full THEN [ino |-> f[p], stamp |-> 0, text |-> 0] ELSE NoFile]
    /\ live = {} /\ cool = {} /\ syncs = {}
    /\ terminal = [w \in Terminals |-> FALSE]
    /\ known = [w \in Terminals |-> [p \in Paths |-> Unseen]]
    /\ scan = [w \in Terminals |-> Idle(TRUE)]
    /\ kept = [w \in Terminals |-> {}]
    /\ ops = 0
    /\ shellOnly = TRUE

Operation == ops < MaxOps /\ ops' = ops + 1
(* The file at p is no longer the one it was.                              *)
Vacated(p) == [w \in Terminals |-> kept[w] \ {rows[p].id}]

-----------------------------------------------------------------------------
(* The shell and the programs of the container. *)

(* A new file, under any free inode number. *)
ShellCreates(p) ==
    /\ Operation
    /\ ~OnDisk(p)
    /\ \E i \in FreeInos : disk' = [disk EXCEPT ![p] = [ino |-> i, stamp |-> ops', text |-> ops']]
    /\ UNCHANGED <<server, terminal, watcher, ghosts>>

ShellWrites(p) ==
    /\ Operation
    /\ OnDisk(p)
    /\ disk' = [disk EXCEPT ![p].stamp = ops', ![p].text = ops']
    /\ UNCHANGED <<server, terminal, watcher, ghosts>>

ShellRemoves(p) ==
    /\ Operation
    /\ OnDisk(p)
    /\ disk' = [disk EXCEPT ![p] = NoFile]
    /\ kept' = Vacated(p)
    /\ UNCHANGED <<server, terminal, watcher, shellOnly>>

(* mv p q, over a file q if there is one: inode and mtime move along. *)
ShellMoves(p, q) ==
    /\ Operation
    /\ p # q /\ OnDisk(p)
    /\ disk' = [disk EXCEPT ![q] = disk[p], ![p] = NoFile]
    /\ kept' = Vacated(p)
    /\ UNCHANGED <<server, terminal, watcher, shellOnly>>

-----------------------------------------------------------------------------
(* The file routes and the editors. *)

(* POST files: insertFile, unless the name is taken; then the sync. *)
CreateFile(p) ==
    /\ Operation
    /\ ~HasRow(p) /\ NewIds # {}
    /\ rows' = [rows EXCEPT ![p] = [id |-> NewId, text |-> 0]]
    /\ syncs' = syncs \cup {[op |-> "write", id |-> NewId, path |-> p, text |-> 0]}
    /\ shellOnly' = FALSE
    /\ UNCHANGED <<disk, live, cool, terminal, watcher, kept>>

(* DELETE of a file; an editor that has it open keeps its document. *)
DeleteFile(p) ==
    /\ Operation
    /\ HasRow(p)
    /\ rows' = [rows EXCEPT ![p] = NoRow]
    /\ kept' = Vacated(p)
    /\ syncs' = syncs \cup {[op |-> "remove", id |-> rows[p].id, path |-> p, text |-> 0]}
    /\ shellOnly' = FALSE
    /\ UNCHANGED <<disk, live, cool, terminal, watcher>>

OpenEditor(p) ==
    /\ HasRow(p)
    /\ rows[p].id \notin live /\ Operation
    /\ live' = live \cup {rows[p].id}
    /\ shellOnly' = FALSE
    /\ UNCHANGED <<disk, rows, cool, syncs, terminal, watcher, kept>>

CloseEditor(i) ==
    /\ i \in live
    /\ live' = live \ {i}
    /\ UNCHANGED <<disk, rows, cool, syncs, terminal, watcher, ops, ghosts>>

(* executeSave of a document: UPDATE of its row, then the sync. *)
SaveEditor(i) ==
    /\ Operation
    /\ i \in live
    /\ rows' = [p \in Paths |-> IF rows[p].id = i THEN [id |-> i, text |-> ops'] ELSE rows[p]]
    /\ syncs' = syncs \cup {[op |-> "write", id |-> i, path |-> p, text |-> ops'] : p \in PathsOf(i)}
    /\ UNCHANGED <<disk, live, cool, terminal, watcher, ghosts>>

(* syncFileToTerminal: the path of the id as it is now, then the file.     *)
SyncWrites(s) ==
    /\ s \in syncs /\ s.op = "write"
    /\ syncs' = syncs \ {s}
    /\ \E i \in FreeInos : disk' = [p \in Paths |->
            IF rows[p].id # s.id THEN disk[p]
            ELSE [ino |-> IF OnDisk(p) THEN disk[p].ino ELSE i, stamp |-> ops, text |-> s.text]]
    /\ cool' = cool \cup PathsOf(s.id)
    /\ UNCHANGED <<rows, live, terminal, watcher, ops, ghosts>>

(* syncDeleteToTerminal: rm -rf of the path the row had. *)
SyncRemoves(s) ==
    /\ s \in syncs /\ s.op = "remove"
    /\ syncs' = syncs \ {s}
    /\ disk' = [disk EXCEPT ![s.path] = NoFile]
    /\ kept' = Vacated(s.path)
    /\ UNCHANGED <<rows, live, cool, terminal, watcher, ops, shellOnly>>

(* No running container, or a failing exec: logged and forgotten.          *)
SyncFails(s) ==
    /\ s \in syncs
    /\ syncs' = syncs \ {s}
    /\ UNCHANGED <<disk, rows, live, cool, terminal, watcher, ops, ghosts>>

CooldownEnds(p) ==
    /\ p \in cool
    /\ cool' = cool \ {p}
    /\ UNCHANGED <<disk, rows, live, syncs, terminal, watcher, ops, ghosts>>

-----------------------------------------------------------------------------
(* The watcher of terminal w: runScan. *)

Listed(p) == IF p \in Hidden THEN NoFile ELSE disk[p]

(* find -exec stat; an exec stream that fails is an empty listing. *)
List(w, misread) ==
    /\ terminal[w] /\ scan[w].step = "idle"
    /\ IF misread THEN Operation ELSE UNCHANGED ops
    /\ scan' = [scan EXCEPT ![w].step = "listed", ![w].misread = misread,
                            ![w].files = [p \in Paths |-> IF misread THEN NoFile ELSE Listed(p)]]
    /\ kept' = [kept EXCEPT ![w] = {rows[p].id : p \in {q \in Paths : HasRow(q) /\ OnDisk(q)}}]
    /\ shellOnly' = (shellOnly /\ ~misread)
    /\ UNCHANGED <<disk, server, terminal, known>>

IsListed(w, p) == scan[w].files[p].ino # 0

(* The first scan takes rows and files as they are; a file made before it  *)
(* never gets a row. *)
Seed(w) ==
    /\ scan[w].step = "listed" /\ scan[w].first
    /\ known' = [known EXCEPT ![w] = [p \in Paths |->
                    IF HasRow(p) \/ IsListed(w, p) THEN Seen(scan[w].files[p]) ELSE Unseen]]
    /\ scan' = [scan EXCEPT ![w] = Idle(FALSE)]
    /\ shellOnly' = (shellOnly /\ \A p \in Paths : IsListed(w, p) => HasRow(p))
    /\ UNCHANGED <<disk, server, terminal, ops, kept>>

(* Mutant: a file is gone when its inode is. *)
GoneByInode(w) ==
    {p \in Paths : known[w][p].has /\ known[w][p].ino \notin {scan[w].files[q].ino : q \in Paths}}

Gone(w) == {p \in Paths : known[w][p].has /\ ~IsListed(w, p)}

(* getWorkspaceFilesMap, then what is gone and what is new. *)
Compare(w) ==
    /\ scan[w].step = "listed" /\ ~scan[w].first
    /\ scan' = [scan EXCEPT ![w].step = "compared", ![w].rows = rows, ![w].gone = Gone(w),
                            ![w].added = {p \in Paths : IsListed(w, p) /\ ~known[w][p].has},
                            ![w].todo = {p \in Paths : IsListed(w, p)}]
    /\ UNCHANGED <<disk, server, terminal, known, ops, ghosts>>

SameInode(w, p, q) ==
    known[w][p].ino # 0 /\ known[w][p].ino = scan[w].files[q].ino /\ scan[w].rows[p].id # 0
Renames(w) == {pq \in scan[w].gone \X scan[w].added : SameInode(w, pq[1], pq[2])}
(* UPDATE files SET name = q WHERE id = i is refused: the name is taken (23505). *)
NameTaken(i, q) == PathsOf(i) # {} /\ HasRow(q) /\ rows[q].id # i

(* dbRenameFile: the row of the file that moved from p to q, wherever that *)
(* row is by now, gets the name q and keeps its text. *)
Rename(w) ==
    /\ scan[w].step = "compared"
    /\ \E pq \in Renames(w) :
        LET p == pq[1]  q == pq[2]  i == scan[w].rows[p].id IN
        /\ ~NameTaken(i, q)
        /\ rows' = [r \in Paths |-> IF r = q /\ PathsOf(i) # {} THEN rows[CHOOSE o \in PathsOf(i) : TRUE]
                                    ELSE IF rows[r].id = i THEN NoRow ELSE rows[r]]
        /\ known' = [known EXCEPT ![w] = [@ EXCEPT ![p] = Unseen, ![q] = Seen(scan[w].files[q])]]
        /\ scan' = [scan EXCEPT ![w].gone = @ \ {p}, ![w].added = @ \ {q}]
        /\ kept' = [v \in Terminals |-> IF v = w THEN kept[v] ELSE kept[v] \ {i}]
    /\ UNCHANGED <<disk, live, cool, syncs, terminal, ops, shellOnly>>

(* The scan ends there, and so does every later one that finds the same    *)
(* files. *)
RenameFails(w) ==
    /\ scan[w].step = "compared"
    /\ \E pq \in Renames(w) : NameTaken(scan[w].rows[pq[1]].id, pq[2])
    /\ scan' = [scan EXCEPT ![w] = Idle(FALSE)]
    /\ UNCHANGED <<disk, server, terminal, known, ops, ghosts>>

(* A file that is gone: its row goes, unless an editor has it open. *)
Delete(w, p) ==
    LET i == scan[w].rows[p].id IN
    /\ scan[w].step = "compared" /\ Renames(w) = {}
    /\ p \in scan[w].gone
    /\ rows' = [r \in Paths |-> IF rows[r].id = i /\ i \notin live THEN NoRow ELSE rows[r]]
    /\ known' = [known EXCEPT ![w][p] = Unseen]
    /\ scan' = [scan EXCEPT ![w].gone = @ \ {p}]
    /\ UNCHANGED <<disk, live, cool, syncs, terminal, ops, ghosts>>

(* Then every listed file in turn. *)
Turn(w, p) ==
    /\ scan[w].step = "compared" /\ scan[w].gone = {}
    /\ p \in scan[w].todo
    /\ scan' = [scan EXCEPT ![w].todo = @ \ {p}]
    /\ UNCHANGED <<disk, live, cool, syncs, terminal, ops, ghosts>>

(* Mutant: a new file is remembered and gets no row. *)
NothingIsNew(w, p) == FALSE
IsNew(w, p) == p \in scan[w].added /\ scan[w].rows[p].id = 0
(* A changed file with a row and without a document, outside the cooldown. *)
IsStale(w, p) ==
    /\ p \notin scan[w].added /\ scan[w].files[p].stamp # known[w][p].stamp
    /\ scan[w].rows[p].id \notin {0} \cup live /\ p \notin cool
Remember(w, p) == known' = [known EXCEPT ![w][p] = Seen(scan[w].files[p])]
(* What readContainerFileContent returns now, '' when it fails. *)
TextsRead(p) == {0, disk[p].text}

(* dbCreateFile; when the name is taken, the row that has it is fine. *)
AddFile(w, p) ==
    /\ IsNew(w, p) /\ Turn(w, p)
    /\ \/ HasRow(p) /\ UNCHANGED rows
       \/ /\ ~HasRow(p) /\ NewIds # {}
          /\ \E text \in TextsRead(p) : rows' = [rows EXCEPT ![p] = [id |-> NewId, text |-> text]]
    /\ Remember(w, p)

(* dbUpdateFileExternal, by id; the same text again changes nothing. *)
PullText(w, p) ==
    /\ IsStale(w, p) /\ Turn(w, p)
    /\ \E text \in TextsRead(p) :
        rows' = [r \in Paths |-> IF rows[r].id = scan[w].rows[p].id /\ text # scan[w].rows[p].text
                                 THEN [rows[r] EXCEPT !.text = text] ELSE rows[r]]
    /\ Remember(w, p)

(* Any other file: a stamp that is new is remembered. *)
SkipFile(w, p) ==
    /\ ~IsNew(w, p) /\ ~IsStale(w, p) /\ Turn(w, p)
    /\ IF p \in scan[w].added \/ scan[w].files[p].stamp # known[w][p].stamp
       THEN Remember(w, p) ELSE UNCHANGED known
    /\ UNCHANGED rows

EndScan(w) ==
    /\ scan[w].step = "compared" /\ scan[w].gone = {} /\ scan[w].todo = {}
    /\ scan' = [scan EXCEPT ![w] = Idle(FALSE)]
    /\ UNCHANGED <<disk, server, terminal, known, ops, ghosts>>

(* An awaited statement or exec fails: the catch, and the next scan begins *)
(* with what this one has remembered so far. *)
ScanFails(w) ==
    /\ scan[w].step # "idle" /\ Operation
    /\ scan' = [scan EXCEPT ![w] = Idle(@.first)]
    /\ UNCHANGED <<disk, server, terminal, known, ghosts>>

(* The socket closes; a scan under way goes on to its end. *)
CloseTerminal(w) ==
    /\ terminal[w] /\ Operation
    /\ terminal' = [terminal EXCEPT ![w] = FALSE]
    /\ UNCHANGED <<disk, server, watcher, ghosts>>

(* A new socket, and a watcher that knows nothing yet. *)
OpenTerminal(w) ==
    /\ ~terminal[w] /\ scan[w].step = "idle" /\ Operation
    /\ terminal' = [terminal EXCEPT ![w] = TRUE]
    /\ known' = [known EXCEPT ![w] = [p \in Paths |-> Unseen]]
    /\ scan' = [scan EXCEPT ![w] = Idle(TRUE)]
    /\ shellOnly' = (shellOnly /\ \A v \in Terminals \ {w} : ~terminal[v] /\ scan[v].step = "idle")
    /\ UNCHANGED <<disk, server, kept>>

Scan(w) ==
    \/ Seed(w) \/ Compare(w) \/ Rename(w) \/ RenameFails(w) \/ EndScan(w)
    \/ \E p \in Paths : Delete(w, p) \/ AddFile(w, p) \/ PullText(w, p) \/ SkipFile(w, p)

Next ==
    \/ \E p \in Paths : ShellCreates(p) \/ ShellWrites(p) \/ ShellRemoves(p)
    \/ \E p, q \in Paths : ShellMoves(p, q)
    \/ \E p \in Paths : CreateFile(p) \/ DeleteFile(p) \/ OpenEditor(p) \/ CooldownEnds(p)
    \/ \E i \in live : CloseEditor(i) \/ SaveEditor(i)
    \/ \E s \in syncs : SyncWrites(s) \/ SyncRemoves(s) \/ SyncFails(s)
    \/ \E w \in Terminals, misread \in BOOLEAN : List(w, misread)
    \/ \E w \in Terminals : Scan(w) \/ ScanFails(w) \/ CloseTerminal(w) \/ OpenTerminal(w)

Spec == Init /\ [][Next]_vars

(* setTimeout re-arms the scan of an open terminal, and its awaits return. *)
Fairness == \A w \in Terminals : WF_vars(List(w, FALSE)) /\ WF_vars(Scan(w))

-----------------------------------------------------------------------------
(* Properties. *)

TakesRowOf(w, p) == (\E g \in Paths : Delete(w, g)) /\ HasRow(p) /\ ~HasRow(p)'
(* A watcher takes a row away only when, since it listed the files, this   *)
(* one has left its path or another watcher has moved the row: syncs,      *)
(* saves, routes and scans that run beside it never make it delete the row *)
(* of a file that is there.  A failed listing and files the listing leaves *)
(* out are the exceptions. *)
RowsGoOnlyWhenRemoved ==
    [][\A w \in Terminals, p \in Paths :
            TakesRowOf(w, p) /\ rows[p].id \in kept[w] => scan[w].misread \/ p \in Hidden]_vars

(* The invariant that carries it.  A row whose file is where the watcher's *)
(* last listing found it is at a path the scan has listed; and of what the *)
(* scan takes for gone, such a row can only be where the scan has read it. *)
RealIds == (\A w \in Terminals : 0 \notin kept[w]) /\ 0 \notin live /\ \A s \in syncs : s.id # 0
KeptAreListed(w, table) ==
    \A p \in Paths : table[p].id \in kept[w] => IsListed(w, p) \/ p \in Hidden \/ scan[w].misread
GoneStayPut(w) ==
    /\ \A p \in scan[w].gone : ~IsListed(w, p)
    /\ \A p, q \in Paths : scan[w].rows[p].id # 0 /\ scan[w].rows[p].id = scan[w].rows[q].id => p = q
    /\ \A p \in scan[w].gone, q \in Paths :
            rows[q].id \in kept[w] /\ rows[q].id = scan[w].rows[p].id => p = q
WatcherInv ==
    /\ RealIds
    /\ \A w \in Terminals :
        /\ scan[w].step = "listed" => KeptAreListed(w, rows)
        /\ scan[w].step = "compared" => KeptAreListed(w, scan[w].rows) /\ GoneStayPut(w)

(* Whatever a shell does between and during scans, failed ones too, rows   *)
(* and disk come to have the same names while a terminal stays open.  Two  *)
(* watchers at a time do not promise that: mv a b; mv b c, listed at b by  *)
(* one and at c by the other, leaves a second row and a rename that is     *)
(* refused for ever. *)
NamesConverge ==
    <>[](shellOnly /\ (\E w \in Terminals : terminal[w])
            => \A p \in Paths \ Hidden : OnDisk(p) <=> HasRow(p))
=============================================================================
