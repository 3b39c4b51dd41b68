# NexusIDE: TLA+ models, checks and proofs

NexusIDE is a collaborative IDE: browsers edit files through Yjs documents held by
backend pods, run terminals and language servers in Docker containers, and persist
through Redis to PostgreSQL. This directory holds TLA+ modules for the parts of the
backend and of the browser's code whose correctness depends on the order of events,
and for its pure algorithms; TLC runs over small instances; and TLAPS proofs for every
value of the constants.

Paths below are relative to `src/backend/src/` unless they start with `src/`.

## 1. The system

| Component | State it keeps | Operations | What is hard | What makes it correct |
|---|---|---|---|---|
| Collaborative rooms: `services/websocketServer.service.ts`, `docsRegistry.ts`, `getOrCreateDoc` | `docs` (name -> promise of a document), `pendingConns`, `doc.conns`, `isEvicted` | connect, authorise, acquire, join, close, final save, evict | the close handler decides across an await; sockets die while the document loads | a document is reclaimed only when nobody has or awaits it, is reclaimed at last, and not with unsaved edits |
| Document persistence: `yjsSyncEngine`, `crdtWriteBehind`, `crdtCompactor`, `utils/yjsCache.ts` | the Y.Doc, `isSaving`, the Redis buffer, `files.yjs_state`, `file_updates`, the cached state | load, edit, debounced save, final save, flush, compact | four writers of one file, each a sequence of awaited statements that can fail | an edit is always in memory, in Redis, or in the database; a room opens on all of them |
| Debouncer: `adaptiveDebouncer` | edit timestamps, first edit, timer | recordEdit, flush, cancel | re-arming a timer against a ceiling | no edit without a timer, bounded deferral, no save bursts |
| Distributed lock: `distributedLock` | a Redis key with a lease, a set in process memory | withDistributedLock | lease expiry, lost answers, fallback after an error | mutual exclusion as far as it goes, a lost lease harms its own pod only, no lock for ever |
| Warm pool: `sandbox/pool.ts` | warm list, target size, session counter, refill flag | pop, release, resize, refill, clean up | creations that fail, refill single-flight | bounded list, a short list is being refilled, counter covers the sessions |
| Workspace containers: `sandbox/workspaceContainer.ts` and its callers | registry of containers with a reference count, timer and activity time | acquire, release, touch, grace timer, reaper | acquisition over many awaits; callers whose releases do not match | only running containers are offered, unused ones are removed, used ones are not |
| Terminal output: `terminal/terminalStreamBuffer.ts`, `terminalHandler.ts` | chunks, byte count, timer | push, flush, clear, end | back-pressure, end of shell or socket | output whole, in order, not stranded |
| Terminal file watchers: `terminalHandler.ts` 228-643, one per terminal socket | last listing with its inodes, timer; the cooldowns of all | poll, compare, create, rename, delete, update rows; write rows back | rows, disk, live documents, two polls and two watchers overlap | a row goes only when its file went; rows and disk come to agree |
| Redis mesh: `redisAdapter`, awareness batches of `yjsSyncEngine` | two connections, batches | publish, dispatch, evict | fire-and-forget delivery, rooms that open, load and are given up | a registered room misses no update and none goes round; cursors converge |
| Snapshots and CAS: `workspaceSnapshot`, `cas`, `casGarbageCollector`, `repositories/snapshot.repository.ts`, `cleanupCron` | commits, trees, blobs, files | create, restore, retain ten, compare, collect | collector against creation; restore against live documents | every commit can be restored; what is restored stays |
| Worker pool: `workerPool`, `workers/casWorker.ts` | threads, idle list, queue, task table | run, answer, crash, recreate, terminate | two events per crash | every task settles once; the pool keeps its size |
| Caches: `utils/redisCache.ts` | values with a TTL in Redis or memory | get, set, delete, getOrFetch | read against invalidation, Redis going | no role that was revoked before the request |
| Presence: `socketPresence`, `redisPresence` | members per socket, local and in Redis | join, open a file, leave, expire | pods that die, unordered commands | members shown are connected and look at what they open |
| Language servers: `terminal/lspHandler.ts`, `utils/streamParser.utils.ts`, `src/frontend/src/services/LspService.ts` | message queue, exec stream, frame buffers, pending requests | queue, drain, extract, parse, answer, time out | frames cut anywhere, late answers | messages whole, in order, answered once |
| Files and roles: `workspaceFile`, `routes/workspace.ts`, repositories, `middleware/workspaceAuth.ts` | SQL rows and caches | CRUD, share, replace a text, replay its history | where they meet caches and live documents | see Caches; texts are neither doubled nor brought back |
| Codecs and parsers: `cursorCodec`, `conflictParser` | none | pure functions | boundaries | inverse of each other, nothing dropped |
| Authentication: `routes/auth.ts`, `repositories/user.repository.ts` | users | log in by GitHub or name | two first logins at once | one account for one person |
| Frontend, page and editor: `src/frontend/src/pages/IdePage.tsx`, `hooks/useCodeEditorSetup.ts`, `components/Editor/CodeEditor.tsx`, `components/Conflict` | tree, open file, Y.Doc, Monaco models, bindings | optimistic create and delete, refetch, bind, switch | answers and events overlap | the tree converges; typed text reaches its own file |
| Frontend, history: `components/Snapshots/SnapshotPanel.tsx`, `components/Editor/TimelapseReplayer.tsx` | list, selection, diffs; the replay's clock | select, restore, play, seek | answers out of order, rounding | shows what is selected; the clock stays in the timeline |
| Metrics, logging; session, dashboard and terminal panel of the frontend | - | - | - | not modelled |

Interactions: an editor socket acquires a room (`pendingConns`, `docs`); its edits go to
the document, which buffers them in Redis, arms the debouncer and broadcasts them. The
debouncer calls `executeSave`, which takes a distributed lock, updates `files`, flushes the
buffer (another distributed lock) and drops the cached state. The last client's close runs
`performFinalSave` and then reclaims the document. Deleting a workspace evicts its documents
here and, by pub/sub, on other pods, and releases its container. Terminal and LSP sockets
acquire the workspace container, which takes a warm container from the pool.

The modelling grain everywhere is Node.js's: one action is what runs between two awaits, and
every await is a point where any other handler, timer or connection may run.

## 2. Plan

1. `DocRoom`, `DocPersistence` - the room and the data it must not lose. Done.
2. `AdaptiveDebouncer`, `DistributedLock` - what persistence relies on. Done.
3. `ContainerPool`, `WorkspaceContainer` - the sandboxes. Done.
4. `TerminalStream`, refining the abstract `TerminalOutput`; `ContainerFiles`,
   `LanguageServer` - what runs in them. Done.
5. `SnapshotStore` with its collector; `MerkleTree`; `FileTexts` - restoring. Done.
6. `RedisMesh`, `AwarenessMesh`, `Presence` - several pods. Done.
7. `Access`, `Accounts`, `WorkerPool` - the services behind the routes. Done.
8. `FileTree`, `EditorClient`, `SnapshotPanel`, `TimelapsePlayer` - the browser; `Timeline`,
   `LineDiff`, `ConflictBlocks`, `CursorCodec` - pure algorithms. Done.
9. Proofs for `RedisMesh`, `AwarenessMesh`, `Access`, `Accounts`, `WorkerPool`, `SnapshotPanel`,
   `TimelapsePlayer`, `EditorClient`, `Presence`, retention in `SnapshotStore`, the reference count of
   `WorkspaceContainer`, one save at a time in `DocPersistence`, the watcher of `ContainerFiles`, and `FileTree`. Done.
10. Proofs for `FileTexts` and for the types of all services at once, the worker pool's through crashes
   included. Done. `LanguageServer` defines its parser by recursion over bytes and stays with TLC.

## 3. Modules

`X.tla` models the code, `XProofs.tla` holds the theorems about it. `Services` (containers, debouncer,
worker threads, history views, editor, file list), `AccessControl` (roles, logins, presence), `FileContents` (the
text of a file that is replaced, renamed for `Services`) and `TerminalSession` (output, files of the container) bundle modules that
share no state, with the assumptions on their constants; `ServicesProofs`, `AccessProofs`, `FileContentsProofs`, `TerminalStreamProofs`
and `CollaborationProofs` (rooms, locks, update mesh, cursors, and `MCCollaboration`'s composition) prove about the bundles.
An MC module gives TLC what it instantiates; `MCCollaboration`, `MCServices` and `MCTerminal` bundle modules that share no state: a
variable `part` says which of them moves in a behaviour, so that one run checks them all and its
states are the sum of theirs, never the product. `X.cfg` is a run that passes, `X_y.cfg` one that ends
in a counterexample. `PROJECT.json` maps every definition to the lines it stands for and gives each
property a mutant: a definition (kept beside the one it mutates, with a comment) that breaks the
property as a plausible bug would.

### DocRoom
One room of one pod. Documents are named by the connection whose `getOrCreateDoc` built
them. Variables: `registry` (`docs.get(name)`), `pending` (`pendingConns`), `phase`, `socket`,
`docOf` (a handler's progress, socket and `docRef`), `load`, `conns`, `evicted`, `destroyed`
(the document), `saving` (close handlers awaiting `performFinalSave`), `evicting`, `deleted`.
`unsaved` records whether a document changed since the last final-save snapshot. Actions are
the pieces of the connection handler between awaits (`Connect`, `Authorize`, `Reject`,
`AcquireDoc`, `Join`, `JoinGone`), the close handler (`CloseEvent`, `FinalSaveDone`), edits,
closing by either side, and eviction. `MicrotasksDrained` expresses that continuations of a
settled promise run before the next event. `JoinGone` is the hand-made `ws.emit('close')`; the
real event still comes, so a handler may run twice.

### DocPersistence
One file, its room and everything that writes it. An update is a model value, a document a set
of updates (a Yjs merge is a set union: commutative, associative and idempotent, and no property
depends on more). `act` holds the activities: debounced saves, final saves, the worker; `at`
is the next awaited call. Locks are those of `distributedLock` without its faults. Edits
are numbered in the order they are made. History variables: `made` (all edits), `overlapped`
(two saves at once), `dropped` (swallowed by a failed INSERT or an over-eager DELETE) and `stale`
(a room went live without all edits); the last two are recorded up to the first overlap, which is
as far as the properties speak.

### AdaptiveDebouncer
Integer time; the timer is the time it is due and fires before time passes it. `stamps` is
the window of timestamps, `firstEdit` the field of that name.

### DistributedLock
One key; every call of every pod, Redis (`key`, up or down), the in-process set (`memory`), the
catch that runs the task again. `Fault` says which of throwing tasks, a vanishing Redis and
leases shorter than tasks may happen, the history `faults` which of them did; a pod can crash
at any step. `expired` are the calls whose lease ran out before they released it: as the key names a
pod and not a call, the release of such a call takes what its pod holds by then, and `LeasesFailAlone` says that two
calls hold the lock together only if a call on one of their own pods lost a lease.

### ContainerPool
The warm list by length, the target size, the counter, the refill loop (`warming`), callers
creating their own container, failures, and the shutdown. `leaked` counts the sessions whose
creation failed after they were counted.

### WorkspaceContainer
One workspace: records and containers (named by the session that made them), reference counts,
grace timers, the reaper's clock (`stale`), the pool's counter, the handlers of terminals and
language servers, and the two callers that only release: editor sockets (`editors` are the open
ones) and the DELETE route. The history `upset` becomes true at the first event that the reference
counting does not allow for: a release without acquisition, a second registration over an entry, a reaping.

### TerminalStream and TerminalOutput
A byte is its position in the shell's output, so order and completeness are visible. `pending`
are the held chunks, `bytes` is `currentBytes`, `wire` is `ws.bufferedAmount`, `received` what the browser
got. `TerminalOutput` is the abstract promise: a terminal shows the output in order, without gap
or repetition, until it closes. `ImplementsOutput` is the refinement, with
`shown <- received` and `open <- ws # "closed"`.

### SnapshotStore
One workspace's content-addressed snapshots. A hash is what it is the hash of: a blob is named by its
content, a tree by its entries. Creations (`at`, `root`, `newBlobs`, `newTree`, `doomed`) are
transactions whose inserts and deletes others see at `Commit`; each collection (`sweep`) is four
transactions of one statement; a restore reads its tree and its blobs in two statements, each of which sees
what is committed by then, as PostgreSQL's READ COMMITTED has it. `InsertBlobs` waits for a
transaction that is inserting the same key and neither inserts nor locks what is there (ON CONFLICT
DO NOTHING); `InsertCommit` needs and locks its tree (`root_tree_hash` is a foreign key),
which makes `DeleteTrees` wait or fail; `began` is `NOW()`, the start of the transaction, by which retention
orders commits. `ReadTree` is the look-up of the commit and the read of its tree together: a commit
deleted between the two is restored with no files, which changes nothing. The history `overlapped` becomes true when
a collection of blobs runs beside a creation that has passed its blobs or a restore that has read its tree:
there the code gives no guarantee (finding 3). The INSERTs name columns that `schema.sql` does
not create (`data`, `hash`, `message`); the model takes them as present.

### FileTexts
One file whose text is replaced as a whole, by a restore or by PUT, while its room loads, saves and
closes and while a history is replayed. A Y.Doc is the set of pieces inserted and of pieces deleted;
a piece is a value and the copy of it, because the same text inserted by two fresh Y.Docs is two
pieces, which a merge shows twice. `after` is what a piece was inserted next to: an update whose
predecessor is missing stays pending in Yjs. `stored`, `rows`, `buffer`, `cache` and `historyCache`
are `files.yjs_state`, `file_updates`, the write-behind list and two cache entries. What a load applies is an
update like any other and goes into the list again (`Learn`, which leaves out what the stored state has already). `change` is the
replacement under way, `orphan` a destroyed document whose debouncer was re-armed. Overlapping and failing saves
are `DocPersistence`'s. The histories `upset` and `mixed` become true in the meetings of section 7.
`Open` reads the database only: where saves succeed and nothing is upset a room that closes leaves no
cached state behind (part of `ReplacementsHold`), so the branch of `getOrCreateDoc` for a hit has nothing to do here;
it is modelled in `DocPersistence`.

### RedisMesh and AwarenessMesh
`RedisMesh`: the rooms of one file on several pods, which open, load the stored state and then the rows, are
left by their last editor, or evicted by a pod with or without the room. `bus` is what is on the way to each pod's
subscriber, `awaiting` the messages whose handler awaits a document that loads; a broken connection drops messages.
What a load applies is an update event whose origin is not Redis, so a room that opens
publishes and buffers everything stored once more (`DocumentUpdate`, of an edit, a load or a message). `heard` is what
was published while a pod's room was registered and linked, `copies` and `loads` count publications and loads of
each update: `RoomsMissNothing` says that a registered room has what it should have heard or that it is on its
way, also while the room loads, and that an update is published, beyond once where it was made, only as often as
rooms load it - no pod passes on what it got from Redis.

`AwarenessMesh`: a room is on a pod from its first socket to its last one (with the loading and the final save of
`DocRoom` as one step each), and its awareness lives as long: the batch of 16 ms with one origin, the frames
other pods get only when they have the room and the connection, back-pressure that skips sockets, clients that go, and the
last batch of a reclaimed document, whose timer still fires (`parting`). A state is its clock. `CursorsConverge`: when
nothing is under way each room and each socket shows each cursor as its editor left it. `missed` are the cursors
whose last change went past a pod without room or connection, or sat in a batch that ended with a change from
Redis (section 7), `skipped` those whose last frame passed a choked socket; the next change of the cursor ends both, and clients renew
their cursor every 15 s, which is a move. Left out: y-protocols' own removal of what nobody renewed for 30 s, and
eviction. In both modules what ioredis queues while it has no connection counts as lost, which is the worse case.

### ContainerFiles
Rows and disk of one container with flat paths, and a watcher for each open terminal: `known[w]` is its last listing,
`scan[w]` the poll under way (its listing, the rows it read, and how far the comparison is). All share `cool`, the paths
written back lately, `live`, the files with an open document, and `syncs`, the write-backs under way. Inode numbers are
given again. `RowsGoOnlyWhenRemoved` is an action property: a watcher deletes a row only when, since its scan listed
the files, this one has left its path or another watcher has moved the row (`kept[w]` has the others). `NamesConverge`
is a liveness property: whatever a shell alone does, rows and disk come to have the same names while a
terminal is open, if watchers ran one at a time (`shellOnly`; section 7 says what two at once do).

### LanguageServer
One session of a language server, from the page's requests to the page's answers. Bytes are
modelled as far as framing needs: header, body, and characters of two bytes. `StreamsAreFaithful`:
requests reach the server in order, messages without wide characters all arrive, once and in order, and no
message is ever made up or repeated.

### Access and Accounts
`Access`: a request looks up the role (cache, then row), is granted or refused and acts, while other
requests change roles or delete the workspace; Redis comes and goes, and each pod's memory is its
fallback. The invalidation by pattern is two commands, KEYS and DEL of what it listed (`ListRoles`,
`DeleteRoles`), between which another read can store a role. `suspect` are entries stored by a read that an invalidation overtook or that an
unreachable cache kept; `GrantsAreCurrent` says that any other grant is under a role the user held at some moment
between the start of the request and its decision. `Accounts`: logins as look-up and insert over the unique columns; `LoginsAgree`
says that whoever logs in twice gets one account, his own, and when a login may fail.

### Presence
Pages, the pod each of their sockets reached, the hash in Redis and the answers to its readers.
`PresenceIsCurrent`: when a pod waits for no answer its pages show each other as they are, and when no pod
does, Redis has exactly the members and their files, unless commands failed or crossed (`crossed`).

### WorkerPool
Threads, idle list, queue and task table; `error` and `exit` as separate events with their two
listeners. `CalmPoolIsExact`: until a thread crashes every index is idle once or busy with one task, a queued
task waits only for busy workers, and a task in the table is with the thread the table names. What the threads compute is `MerkleTree` (against: equal
listings in any order give one hash, and the difference is the difference).

### FileTree, EditorClient, SnapshotPanel, TimelapsePlayer
The browser, one page each. `FileTree`: listings on their way, the server's cache, optimistic changes
and their roll back, events of others, a socket that drops; `TreeConverges` says that the list is the
rows' once all is quiet, unless it was `misled`. `EditorClient`: one provider and one Monaco model per
file *name*; `EditorIsFaithful` says that no text reaches another file, that a bound editor shows its
document, and that what is typed while bound is on the server, in the document, or lost with a document closed before. `SnapshotPanel`: the diff shown is of the
snapshot selected, whatever the order of the answers. `TimelapsePlayer`: the clock never leaves the
timeline, and a replay is loading as long as an answer is on its way.

### Timeline, LineDiff, ConflictBlocks, CursorCodec
Pure functions against references: the runs of authors in a text, and the timeline rebuilt from
clocks, against the characters one by one; a diff against the longest common subsequence, and the
folded view against the lines it hides; resolved conflicts against the lines that should stay;
frames against the wrapped and saturated fields they were made of.

## 4. Runs

Deadlock is not checked: in every model all sockets may be gone and all timers spent, and the
system then rightly does nothing. Bounds are constants of the modules, set in the .cfg files.

| Run | Modules and instance | Shows |
|---|---|---|
| Collaboration | `DocRoom`: 3 connections, 1 eviction; `DistributedLock`: 2 pods, 3 calls, all faults; `RedisMesh`: 2 pods, 2 edits, 2 openings, 1 broken link or eviction; `AwarenessMesh`: 2 pods, an editor each, a move and an end, 1 broken link or choked socket | a reclaimed document has no client; the registered room is held by somebody; reclaiming it loses no edit; the room leaves the registry once all sockets are gone. Both exclusions, a cluster-wide mutex until the first fault, lost leases that harm their own pod only, calls return. Rooms miss nothing and pass nothing on; cursors converge. 904 536 states |
| DocPersistence | 2 edits, a debounced and a final save, the worker, 1 failing statement | up to the first overlap of two saves nothing is lost but what an INSERT or a compaction swallowed, and rooms open complete; `isSaving` is released; the worker carries edits to the database |
| Services | `ContainerPool`: 3 sessions, sizes 1 to 5, 3 failures; `AdaptiveDebouncer`: 2 edits per 500 ms over 8 s; `WorkerPool`: 2 threads, 3 tasks, 1 crash; `Access`: owner and guest, 2 requests, 1 change, 1 fault; `Accounts`: 3 logins; `Presence`: 2 sockets, 1 loss; `FileTree`: 1 file, 3 listings, 1 drop; `EditorClient`: 3 tabs of 2 names, 1 switch, 3 edits, 1 loss; `FileTexts`: 2 texts, 1 replacement, 2 visits, 1 replay, 1 failure; `SnapshotPanel`, `TimelapsePlayer`; the algorithms over texts of 3 lines, files of 7, trees of 2 files, 2 cursors, 3 characters | pool and debouncer are sound and flushes are apart; a calm worker pool is exact; grants and accounts; presence, tree and editor converge; replaced texts stay and histories end rightly; the history views show what was selected; the algorithms do what they are for |
| Terminal | `TerminalStream`: 12 bytes, batches of 4, chunks up to 3; `ContainerFiles`: 2 terminals, 2 paths, 3 inodes, 3 operations of all kinds, and 4 of the shell alone with both terminals open; `LanguageServer`: 2 requests, 3 messages | timer, refinement of the abstract pipe (which says the output is whole), output is shown; rows go only with their files and come to agree with the disk; messages arrive. 686 917 states |
| WorkspaceContainer | 2 terminals, 1 language server, 1 editor, all faults | registry, timers, pool counter; no user loses the container before something is upset; an abandoned container is removed |
| SnapshotStore | 3 creations, the first of them done, 2 collectors, 1 restorer, 1 snapshot kept, 1 failing statement | commits have their trees, and their contents unless a collection of blobs overlapped; restores bring no empty file; retention takes only what newer snapshots push out; garbage goes at last |
| DocRoom_share, DocPersistence_reclaim, SnapshotStore_gc, WorkspaceContainer_grace, WorkerPool_crash, FileTree_wipe | the smallest that shows it | findings 1-6 |

Why these bounds are enough to be worth something: each hazard needs a known number of
actors (two overlapping close handlers and a newcomer are three connections; a refill, a
failing creation and a release are three sessions; a lost lease needs the call that lost
it, one on the same pod or another that takes the key, and one that waits;
a row that two watchers rename needs both terminals and two moves; a stale role needs one reader, one change and
one that reads after it; a doubled text needs one replacement and one load), and each instance has
the actors for it. One snapshot kept stands for ten: two creations then trim at the same time, and what is trimmed
is garbage that a later creation can reuse. The batch, back-pressure and chunk sizes are chosen unequal so that no
boundary coincides with another, and the debouncer's horizon is past its ceiling and one burst delay, which the
deferral can at most reach. Files of seven lines hold two whole conflicts and a line. `FileTexts` has also been run with two replacements and two replays, to
twenty million states. The mutants
confirm that every property is within reach of the instance that checks it. What holds beyond
these bounds is what is proved.

## 5. Fairness

Node.js runs every ready callback, so weak fairness is assumed of timers, of the continuations
of settled promises, and of awaited calls, which the drivers settle with a result or an error
(the models let them fail). Sockets: a closing socket is torn down by the ws library's
close timeout or the heartbeat. The cleanup cron runs on every pod every
day. A terminal that is open polls and its scans go on. Users owe nothing: no fairness on connecting, editing,
leaving, or opening a terminal. Liveness
properties are therefore conditional on what users do (`RoomEventuallyReclaimed`: once everybody
is gone; `AbandonedIsReclaimed`: once nobody touches the workspace; `NamesConverge`: while a terminal is open).

## 6. Proofs

All proofs are hierarchical, one step per action, and checked by tlapm with Z3, Zenon and LS4.

| Theorem | For all | Argument |
|---|---|---|
| CollaborationProofs: RoomInvariant, PendingIsExact, ReclaimIsSafe | finite sets of connections, numbers of evictions | `PendingExact` counts a set, so each handler's step is an insertion or removal; "a reclaimed document has no waiter" is inductive only together with what handlers hold, `doc.conns` matching sockets, and the registry offering no reclaimed document |
| CollaborationProofs: HeldInvariant, RegisteredIsHeld, ReclaimIsSaved | the same | while a document loads, is awaited or is being evicted no other is registered; the registered one is in use (`InUse`: a socket it broadcasts to or a handler that waits) or a close handler is still to decide on it; and it has unsaved edits only while it is in use, which the handler that gives it back sees it is not |
| CollaborationProofs: LockInvariant, FallbackIsExclusive, RedisIsExclusive, CalmIsExclusive, LostLeasesStayHome | pods, calls, placements, fault sets | exclusion is not inductive; that the key holds the holder's pod and the holder is alone is. Until the first fault the fallback is never entered. A call that holds the lock without the key is on a pod that lost a lease (`LeaseInv`), as only such a pod's release or the end of the lease itself takes a key from its holder |
| CollaborationProofs: MeshInvariant, RoomsHearEverything | pods, edits, openings, faults | a message is on the bus of every linked pod at the moment it is published, and what a bus loses its room no longer counts as heard; an absent room has heard nothing; a load pays for what it publishes, and an edit not made yet was published by loads only |
| CollaborationProofs: CursorInvariant, CursorsAgree | editors, pods, changes, broken links | for each room and cursor: up to date, or the change waits in a batch of the editor's pod (a parting one too), or a frame with the newest clock is under way, or the change is in `missed`; a socket has what its pod has but for the next batch and `skipped`; clocks never run ahead of the editor's. Convergence is this with nothing waiting or under way. A pod that opens its room again after a reclaim needs more editors than the run has: it is covered here |
| CollaborationProofs: TypesHold, CollaborationIsSafe | all of these | every behaviour of the composition is one of each part |
| ServicesProofs: DebouncerInvariant, NoEditForgotten, DeferralIsBounded, SavesAreApart, TimedSavesFollowPauses | delays with 0 < base <= burst, base <= ceiling | the timer is due before first edit + ceiling + burst and not before any edit + base |
| ServicesProofs: PoolInvariant, WarmIsBounded, RefillIsNotLost, SessionsAreCovered | users, sizes, failures | warm + being made never exceeds the target in force; the refill flag is up while the list is short |
| ServicesProofs: WorkersInvariant, CalmPoolStaysExact | threads, tasks | until a crash: each index is idle once or the value of one entry of the task table; the task is in its thread's inbox or outbox; queue and idle list are never both non-empty between two events; and a promise waits exactly when its task is queued or with a thread |
| ServicesProofs: WorkersKeepTypes | threads, tasks, crashes | what still runs or has an event to emit belongs to an index (`Indexed`), so an exit recreates a worker there is; a dispatch, a recreation and a changed thread each keep the pool's types (one lemma each) |
| ServicesProofs: TypesHold | all of the services | every behaviour of `ServicesSpec` is one of each part, and the inductive invariant of each has its types |
| FileContentsProofs: TextInvariant, TextsStayFaithful | texts, replacements, openings, replays, failed transactions | below |
| ServicesProofs: PlayerInvariant, PanelInvariant, HistoryViewsStayRight | lengths, speeds, snapshots, requests | at most one load of a history is not cancelled; each request that was not aborted is for the snapshot selected now |
| AccessProofs: AccessInvariant, GrantsCurrent | guests, pods, requests, changes, faults | an entry of the cache is what its row says, or the invalidation of its last change is still to come, or it is `suspect`; a request has seen only what its user held since it began. Six lemmas say what a request's step leaves of the others |
| AccessProofs: AccountsInvariant, LoginsAgreed, AccessStaysCurrent | people, attempts | rows are apart in what is UNIQUE and hold the GitHub id of somebody with their email; a login knows its row, or why it found none |
| ServicesProofs: EditorInvariant, EditorStaysFaithful | files, their names, edits, losses | the open document holds edits of the file shown and no other; `synced` means that the document has all of the room, `uploaded` that the room has all of the document, and both ends keep that by passing each edit on |
| ServicesProofs: TreeInvariant, TreeStaysRight | ids, calls, listings, broken sockets | a change that the page may not know of makes it ask again (`Coming`: an event on its way, a socket not in the room, a call about to announce); until then the cache and the youngest listing are of the rows as they are, and so is the list once that listing is in, but for the entries a call of the page is about |
| AccessProofs: PresenceInvariant, PresenceStaysCurrent | sockets, pods, files, faults | a pod's pages agree with its memory or a broadcast is still to come (`Coming`); and what Redis will hold of a member at last (`Follows`) is the file of the youngest read under way, else of the youngest answer to be written back, else of the youngest write, else what it holds. Lemmas about the first and last command of a kind in a line carry it through each append and each removal |
| TerminalStreamProofs: StreamInvariant, OutputStaysWhole, HeldOutputHasTimer, StreamImplementsOutput | batch, chunk, back-pressure sizes | received, wire and pending are consecutive segments; every step shows a longer prefix, closes, or stutters |
| TerminalStreamProofs: FilesInvariant, WatcherSparesFiles | terminals, paths, inodes, ids, operations other than renaming over HTTP | for each watcher, while others run: a row whose file is where the listing found it, and which no other watcher moved, is at a path the scan has listed (`KeptAreListed`); of what the scan takes for gone only the row it read at that path can be there still (`GoneStayPut`), as a new row gets an id that nothing refers to, a rename leaves the list, and the rename of another watcher ends the promise |
| WorkspaceContainerProofs: ContainerInvariant, OffersOnlyRunning, UnusedHasTimer, PoolCoversContainers | terminals, language servers, editors, faults | "containers run <= counter" is inductive only with popped-but-uncreated sessions counted too, and with each container removed at most once |
| SnapshotStoreProofs: StoreInvariant, CommitsStayWhole, RestoresBlankNothing | paths, contents, creations, collectors, restores, numbers kept | a visible commit has its tree because a tree with a commit, also one in creation, is not deletable; its contents stay because, until an overlap, what a collection of blobs has found is in no tree |
| SnapshotStoreProofs: NewestStay | numbers kept, creations, failures | `Retained`: what a retention deletes or has deleted was beyond `Keep` among all commits there ever were, and more commits only put a snapshot further back. `NewestRemain`: when only such are taken out of a set, each of them still has `Keep` newer ones that stay (by the newest counterexample) |
| WorkspaceContainerProofs: CountInvariant, UsersKeepTheirContainer, GraceSparesTheCounted | the same | until the first upset the sessions counted in and not out (`Attending`) are at most `refCount`, and all of them hold the registered container |
| DocPersistenceProofs: PersistenceInvariant, SavesLoseNothing, RoomsOpenComplete, SaverStaysSound | edits, opens, failing statements, with Redis or without it | below |

`DocPersistence` in full. Its invariant has six parts. *SavingIsReleased*: `isSaving` names a save that runs.
*OnlyMade*: state, rows, list, cache, document and every snapshot hold only edits that were made. *Placed*:
which of its steps each kind of activity can be in, and that drained updates are held only to insert
them. *OneAtATime*: until two saves overlap at most one runs, and none while the room is not live.
*NothingGivenUp*: until then, and as long as rooms open complete, what is about to replace the stored state contains it,
the live document has every edit, and with Redis every edit is in state, rows, list, a flush's hands or
`dropped`. *EmptyRoomIsSaved*: until a statement fails, a room that is not live has all edits in its stored state and
nothing in the cache, and the final save of an empty room brings that about. The last two lean on
each other: a final save replaces the state by its snapshot, which gives nothing up because the room opened
with all that the old state had; and it opened so because the save before it did the same.

`FileTexts` in full. `TextInv` holds until something is upset and has six parts. *PiecesAreNew*: a piece that is
inserted occurs nowhere yet, not even among the predecessors of another, so what is shown of the old pieces
does not change. *RoomFollows*: what a room at each point has to do with what is stored; a document that is loaded
contains the rows and the list, an empty room has nothing in the list or the cache. *ChangeIsKnown*: how far the
replacement is, and that the rows its transaction deletes do not hold the new text. *TextIsWanted*: the text reads as
`wanted` wherever the next reader looks, which is the stored state in an empty room, the document with the
rows in a loading one, the document after that. *UpdatesAreKept*: what was typed or put into an open document is in
a row or in the list, or the stored state already has it. *ReplayFollows*: a replay that has met nothing has read a
part of what the room has by now, or will read it with the rows. Each step keeps the first five (`...Core`, one
lemma each) and, when it is not a replacement, the last (`...Tracked`); the properties follow from them.

What proving changed in the model: the excuse of `Access` for an overtaken read also excused a
reader that only a second deletion of an already deleted entry had overtaken (three requests are
needed to see it); it is now as narrow as the code makes it. `LoginsAgree` needs what GitHub
guarantees and the code relies on, that an email belongs to one account (`LoginsAssumption`): two accounts
with one email would take each other's rows. And `SequentialSavesLoseNothing` was false without Redis when
the final UPDATE fails, as then there is no list that keeps the edits; it says so now. `FileTexts` opened rooms from
the cache as well, which its invariant shows never to happen.

Assumptions on the constants are the named ASSUMEs of each module; TLC evaluates them in every run.

Only model-checked: liveness under fairness and ENABLED (`RoomEventuallyReclaimed`, `CallsReturn`,
`EditsReachDatabase`, `OutputIsShown`, `NamesConverge`, `AbandonedIsReclaimed` and others), which the prover does not do;
`AlgorithmsAreRight`, whose references are recursive and would need induction over data; and `StreamsAreFaithful` of
`LanguageServer` (section 2, item 10), with `MCTerminal.TypesOK`, which has its types among others (those of the
output and the watcher are in `StreamInvariant` and `FilesInvariant`). Only proved, as the refinement already says it in
the run: `OutputIsWhole`; `GraceSparesTheCounted`, because the run that states it without its condition is finding 4.
The inductive invariants themselves (`RoomInv`, `LockInv`, `PersistenceInv` and so on) were checked with TLC but are in no
run: each is `Spec => []Inv` of a theorem.

## 7. Findings

Each is a run TLC violates, quoting the line that says otherwise (see `PROJECT.json`).

1. DocRoom_share - a late final save drops the registry entry of a newer document.
2. DocPersistence_reclaim - a final save can be overtaken by an older snapshot, or fail and be swallowed.
3. SnapshotStore_gc - a snapshot that reuses a blob while it is collected is committed without it.
4. WorkspaceContainer_grace - editor sockets release what terminals hold.
5. WorkerPool_crash - one crash recreates its worker twice, the replacement's end recreates it again,
   and so on; a task given to a terminated thread is never answered.
6. FileTree_wipe - a deletion that fails leaves the file open and its shared text empty.

The models also show the following, which the properties are stated around:

Rooms and persistence

- A document that is no longer the registered one can be reclaimed after an edit no final save
  saw (`websocketServer.service.ts:180`); hence *Registered* in `RegisteredReclaimIsSaved`.
- Eviction misses a socket that awaits the document (`docsRegistry.ts:45`).
- A save asked for while one runs is dropped (`yjsSyncEngine.service.ts:192`).
- Compaction deletes rows it did not read (`crdtCompactor`, line 139): counted in `dropped`.
- A room that failed to load overwrites the stored state at its final save (`yjsSyncEngine.service.ts:244`).
- Rooms named `workspace-<id>` are accepted by the handler and rejected by the load (line 311).
- Messages buffered during the load are dropped when the socket has gone (`websocketServer.service.ts:220`),
  and `gracefulShutdown` (`server.ts:160`) flushes Redis but saves no document.
- Without a stored state each load inserts the contents as text of its own: after a crash before the
  first save, or with two pods at once, the text is there twice (`yjsSyncEngine.service.ts:350`).
- Every opening of a room publishes and buffers the whole stored state again, as the load's updates are like any
  other (`yjsSyncEngine.service.ts:347`, 177-182): hence *beyond once, as often as it is loaded*.
- An error of Redis or of the task itself makes `withDistributedLock` run the task under the in-process
  lock while a peer pod may hold the key (`distributedLock.service.ts:65`): `MutualExclusion` is stated
  until the first fault.
- The deferral ceiling can be exceeded by one burst delay (`adaptiveDebouncer`, line 50), and
  `minDelayMs` is never read (line 60); hence the bound of `DeferralBounded`.
- Rooms that register after a message passed and load before it is stored never see it
  (`redisAdapter.service.ts:82`); hence *registered* in `RoomsMissNothing`.
- A batch of local cursor changes that ends with one of Redis is not published (`yjsSyncEngine.service.ts:97`), and a
  pod that opens its room later is not told the cursors of the others until they move or are renewed
  (`redisAdapter.service.ts:95`): `missed`.
- A call that outlives its lease releases the lock of another call of its pod, as the key's value is the pod's
  name (`distributedLock.service.ts:60`): `LostLease`.

Replaced texts (`upset` and `mixed` of `FileTexts`)

- A restore edits the live document before its COMMIT: when that fails, the editors keep the restored
  text (`workspaceSnapshot.service.ts:200`).
- A room that loads between the two reads the old state, and its next save writes it over the
  restored one; so does a room that is closing when the replacement comes. A replacement also re-arms
  the debouncer of a document that is being closed, which saves again after it is destroyed.
- PUT leaves `file_updates` and the cached state alone (`workspaceFile.service.ts:250`): rows that a
  failed compaction left bring their text back at the next load.
- Only the documents of the pod that restores are edited; those of others are not.
- The history's cache goes through JSON, out of which a state comes without a length: on a hit it
  is never applied, so the history of a closed and compacted file is empty when it is asked for again
  within ten minutes (`workspaceFile.service.ts:206`; src/README.md:71 calls the replay deterministic).
  A cached "no state" outlives the first state, a restore does not drop the entry, and rows that a failed
  compaction left are replayed without the state they belong to.
- A replay that meets a replacement, the first opening or the end of the room mixes two Y.Docs: texts
  appear twice, or as they were before.

Containers

- A failed creation leaks a session (`sandbox/pool.ts:112`), hence a counter that covers the users
  rather than equals them; teardown misses a container in creation (line 212).
- Concurrent first users of a workspace get two containers (`sandbox/workspaceContainer.ts:88`),
  and the reaper takes containers in use, as terminal input does not count as activity (line 208):
  two of the events that set `upset`.
- Output held back when the shell ends is discarded (`terminalHandler.ts:210`), and back-pressure
  delays sending but does not pause reading (`terminalStreamBuffer.ts:36`): `OutputIsShown` says
  "unless the terminal closes".
- Watcher: rows of hidden, large or deep files are deleted by the second scan; a listing that fails is
  an empty one and deletes all rows; a rename onto a path that has a row fails with 23505 and stops
  all later scans; files made before the first scan never get rows; a reused inode or a rename keeps
  the old text; changes of a file that is open or in its cooldown are not looked at again. Hence `NamesConverge`
  speaks of names and not of texts.
- Watchers of two terminals: one that renames a row between the other's reading of the rows and its DELETE by id has
  the row of a file deleted that is there; and after `mv a b; mv b c`, listed at b by one and at c by the other, a row
  stays at b and the rename of b to c is refused in every later scan (`terminalHandler.ts:451`).
- Language server: Content-Length counts bytes while the browser cuts characters, so a message with
  others than ASCII is lost and the next with it (hence `NarrowMessagesArrive`); a socket that closes during `initialize` ends in `error`.

Services

- A read that an invalidation overtakes stores what it read: a revoked role is good until the TTL
  ends (`utils/redisCache.ts:163`); so is one in the memory of a pod while Redis is away: `suspect`.
- A first GitHub login that races another login of the same email fails with 500; the look-ups take
  any row when two match (`repositories/user.repository.ts:14`).
- Presence: `active-file-change` sent before the connection is ignored, and not announced again after a
  reconnection; HGET and HSET around an HDEL leave a ghost; the hash ends an hour after the
  last join; a pod that dies leaves its members.
- Line diffs and trees have no exceptions. A conflict that is not closed drops its lines, a stray
  divider moves what follows to the next conflict, and an empty side leaves an empty line
  (`utils/conflictParser.ts:36`): `ResolutionsKeepText` is about well-formed files.
- `cursorCodec` is called by nothing but tests.

Browser

- A listing that is overtaken, fails, or comes from a cache stored late leaves the tree wrong until the next
  one; what is broadcast while the socket is away is not caught up with; rolling a deletion back
  can double or resurrect an entry (`IdePage.tsx:192`).
- Edits made offline are lost with a switch of files; text typed before the binding is not sent;
  files of one name share a Monaco model; the cache of models is emptied by its own cleanup.
- Snapshot panel: two listings race; the answer to a restore closes a panel that was opened anew;
  cached diffs grow stale though a comment says they cannot (`SnapshotPanel.tsx:259`).
- `/me` failing removes the token even when a newer one was stored meanwhile; `TerminalPanel.tsx`'s `outputQueue` is never filled.

## 8. Not modelled

- Yjs's own merge order (taken as set union), the wire encoding of the sync protocol, the viewer's
  filter on messages: library code, or conditions of one statement.
- Several pods on one write-behind list, the archive of old workspaces and the cleanup cron's other jobs, deleting snapshots, the
  legacy snapshot tables, pausing containers (nothing in the program calls it), the set-up scripts.
- The contents cache and the counters of `redisCache`, blame, renaming over HTTP: one statement each.
- Tokens and cookies, metrics, logging, latency telemetry: libraries, or read by nothing.
- In the browser: the session (`useAuth`), dashboard, `CollaboratorsModal`, `TerminalPanel.tsx`, `Sidebar`,
  toasts, `ConnectionContext`, rendering: forms and lists whose calls wait for their answers;
  and `buildFullFidelityTimeline`, which nothing calls.
