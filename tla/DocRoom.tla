------------------------------- MODULE DocRoom -------------------------------
(***************************************************************************)
(* The life of one collaborative room inside one pod: the connection       *)
(* handler and the 'close' handler of services/websocketServer.service.ts, *)
(* the single-flight registry docsRegistry.ts, getOrCreateDoc of           *)
(* services/yjsSyncEngine.service.ts and the eviction that a deleted       *)
(* workspace triggers.                                                     *)
(*                                                                         *)
(* One step is one run of the event loop between two awaits.  A document   *)
(* object is named by the connection whose getOrCreateDoc built it, so     *)
(* Conn is also the set of document identities.                            *)
(***************************************************************************)
EXTENDS Naturals, FiniteSets

CONSTANTS
    Conn,       \* WebSocket connections; a socket is used once
    NoDoc,      \* docs.get(docName) when the registry has no entry
    MaxEvicts   \* bound: runs of cancelAndEvictWorkspaceDocs (DELETE + its echo)

ASSUME ConnAssumption == IsFiniteSet(Conn) /\ NoDoc \notin Conn
ASSUME MaxEvictsAssumption == MaxEvicts \in Nat

VARIABLES
    registry,   \* docs.get(docName): the document whose promise is registered
    pending,    \* pendingConns.get(docName) || 0
    phase,      \* how far the connection handler of a socket has run
    socket,     \* "closing": the server sent a close frame, messages may still
                \* arrive; "leaving": the peer's frame came or the socket died
    docOf,      \* the promise a socket waits for, then its docRef
    load,       \* progress of the load promise of a document
    conns,      \* doc.conns: the sockets the document broadcasts to
    evicted,    \* doc.isEvicted
    destroyed,  \* doc.destroy() has run
    unsaved,    \* the document changed since its last final-save snapshot
    saving,     \* close-handler activations awaiting doc.performFinalSave()
    evicting,   \* the document the running eviction awaits
    evicts,     \* evictions started
    deleted     \* the workspace row is gone from the database

connVars == <<phase, socket, docOf>>
docVars  == <<load, conns, evicted, destroyed, unsaved>>
evictVars == <<evicting, evicts, deleted>>
vars == <<registry, pending, connVars, docVars, saving, evictVars>>

Phase == {"new", "authorizing", "authorized", "waiting", "attached", "rejected"}

SocketState == {"none", "open", "closing", "leaving", "closed"}

TypeOK ==
    /\ registry \in Conn \cup {NoDoc}
    /\ pending \in Nat
    /\ phase \in [Conn -> Phase]
    /\ socket \in [Conn -> SocketState]
    /\ docOf \in [Conn -> Conn \cup {NoDoc}]
    /\ load \in [Conn -> {"none", "loading", "done"}]
    /\ conns \in [Conn -> SUBSET Conn]
    /\ evicted \in [Conn -> BOOLEAN]
    /\ destroyed \in [Conn -> BOOLEAN]
    /\ unsaved \in [Conn -> BOOLEAN]
    /\ saving \in [Conn -> Nat]
    /\ evicting \in Conn \cup {NoDoc}
    /\ evicts \in 0..MaxEvicts
    /\ deleted \in BOOLEAN

Init ==
    /\ registry = NoDoc
    /\ pending = 0
    /\ phase = [c \in Conn |-> "new"]
    /\ socket = [c \in Conn |-> "none"]
    /\ docOf = [c \in Conn |-> NoDoc]
    /\ load = [d \in Conn |-> "none"]
    /\ conns = [d \in Conn |-> {}]
    /\ evicted = [d \in Conn |-> FALSE]
    /\ destroyed = [d \in Conn |-> FALSE]
    /\ unsaved = [d \in Conn |-> FALSE]
    /\ saving = [c \in Conn |-> 0]
    /\ evicting = NoDoc
    /\ evicts = 0
    /\ deleted = FALSE

Waiting == {c \in Conn : phase[c] = "waiting"}

(* Continuations of a settled load promise are microtasks: Node runs them  *)
(* all before the next socket event, timer or query result.                *)
MicrotasksDrained ==
    /\ \A c \in Waiting : load[docOf[c]] = "loading"
    /\ evicting # NoDoc => load[evicting] = "loading"

-----------------------------------------------------------------------------
(* The connection handler. *)

Connect(c) ==
    /\ MicrotasksDrained
    /\ phase[c] = "new"
    /\ phase' = [phase EXCEPT ![c] = "authorizing"]
    /\ socket' = [socket EXCEPT ![c] = "open"]
    /\ UNCHANGED <<registry, pending, docOf, docVars, saving, evictVars>>

(* The owner and collaborator queries read the database. *)
Authorize(c) ==
    /\ MicrotasksDrained
    /\ phase[c] = "authorizing"
    /\ ~deleted
    /\ phase' = [phase EXCEPT ![c] = "authorized"]
    /\ UNCHANGED <<registry, pending, socket, docOf, docVars, saving, evictVars>>

(* No workspace, no role or a failing query: ws.close(4044 | 4403 | 4500). *)
Reject(c) ==
    /\ MicrotasksDrained
    /\ phase[c] = "authorizing"
    /\ phase' = [phase EXCEPT ![c] = "rejected"]
    /\ socket' = [socket EXCEPT ![c] = IF @ = "open" THEN "closing" ELSE @]
    /\ UNCHANGED <<registry, pending, docOf, docVars, saving, evictVars>>

(* Mutant: the increment of pendingConns is missing. *)
PendingNotCounted == pending

PendingAfterAcquire == pending + 1

(* pendingConns + 1, then getOrCreateDoc: the registered promise or a new one. *)
AcquireDoc(c) ==
    /\ MicrotasksDrained
    /\ phase[c] = "authorized"
    /\ phase' = [phase EXCEPT ![c] = "waiting"]
    /\ pending' = PendingAfterAcquire
    /\ IF registry # NoDoc
         THEN /\ docOf' = [docOf EXCEPT ![c] = registry]
              /\ UNCHANGED <<registry, load>>
         ELSE /\ docOf' = [docOf EXCEPT ![c] = c]
              /\ registry' = c
              /\ load' = [load EXCEPT ![c] = "loading"]
    /\ UNCHANGED <<socket, conns, evicted, destroyed, unsaved, saving, evictVars>>

(* The load promise resolves; a database error is caught and resolves it too. *)
LoadDone(d) ==
    /\ MicrotasksDrained
    /\ load[d] = "loading"
    /\ load' = [load EXCEPT ![d] = "done"]
    /\ UNCHANGED <<registry, pending, connVars, conns, evicted, destroyed,
                   unsaved, saving, evictVars>>

(* Mutant: a room whose final save is running is not saved again. *)
FirstOneOut(d, left, stillPending) ==
    left = {} /\ stillPending = 0 /\ \A c \in Conn : docOf[c] = d => saving[c] = 0

LastOneOut(d, left, stillPending) == left = {} /\ stillPending = 0

(* What the 'close' handler does with document d once docRef is set, given *)
(* the connections left and the pending count: when the room is empty it   *)
(* starts performFinalSave, whose snapshot is taken before its first       *)
(* await.  On an evicted document performFinalSave returns at once and the *)
(* finally block follows in the same turn.                                 *)
CloseRoom(c, d, left, stillPending) ==
    IF LastOneOut(d, left, stillPending)
      THEN IF evicted[d]
             THEN /\ registry' = NoDoc
                  /\ destroyed' = [destroyed EXCEPT ![d] = TRUE]
                  /\ UNCHANGED <<saving, unsaved>>
             ELSE /\ saving' = [saving EXCEPT ![c] = @ + 1]
                  /\ unsaved' = [unsaved EXCEPT ![d] = FALSE]
                  /\ UNCHANGED <<registry, destroyed>>
      ELSE UNCHANGED <<registry, destroyed, saving, unsaved>>

PendingAfterJoin == pending - 1

(* The handler resumes with the document and the socket is still open; the *)
(* messages buffered since the socket opened are applied in the same turn. *)
Join(c) ==
    LET d == docOf[c] IN
    /\ phase[c] = "waiting"
    /\ load[d] = "done"
    /\ socket[c] = "open"
    /\ phase' = [phase EXCEPT ![c] = "attached"]
    /\ pending' = PendingAfterJoin
    /\ conns' = [conns EXCEPT ![d] = @ \cup {c}]
    /\ \E editsBuffered \in BOOLEAN :
          unsaved' = [unsaved EXCEPT ![d] = @ \/ editsBuffered]
    /\ UNCHANGED <<registry, socket, docOf, load, evicted, destroyed, saving,
                   evictVars>>

(* Mutant: 'close' is emitted before the count is given back. *)
PendingBeforeFinally == pending

(* What the emitted 'close' handler reads: the finally block has run. *)
PendingAtEmit == pending - 1

(* Mutant: the socket that went away is kept in doc.conns. *)
JoinGoneWithoutEmit(c) ==
    LET d == docOf[c] IN
    /\ phase[c] = "waiting"
    /\ load[d] = "done"
    /\ socket[c] # "open"
    /\ phase' = [phase EXCEPT ![c] = "attached"]
    /\ pending' = PendingAfterJoin
    /\ conns' = [conns EXCEPT ![d] = @ \cup {c}]
    /\ UNCHANGED <<registry, socket, docOf, load, evicted, destroyed, unsaved,
                   saving, evictVars>>

(* It resumes with a socket that went away: ws.emit('close') by hand. *)
JoinGone(c) ==
    LET d == docOf[c] IN
    /\ phase[c] = "waiting"
    /\ load[d] = "done"
    /\ socket[c] # "open"
    /\ phase' = [phase EXCEPT ![c] = "attached"]
    /\ pending' = PendingAfterJoin
    /\ conns' = [conns EXCEPT ![d] = @ \ {c}]
    /\ CloseRoom(c, d, conns[d] \ {c}, PendingAtEmit)
    /\ UNCHANGED <<socket, docOf, load, evicted, evictVars>>

(* A sync message from an attached client mutates the document. *)
Edit(c) ==
    /\ MicrotasksDrained
    /\ phase[c] = "attached"
    /\ socket[c] \in {"open", "closing"}
    /\ unsaved' = [unsaved EXCEPT ![docOf[c]] = TRUE]
    /\ UNCHANGED <<registry, pending, connVars, load, conns, evicted, destroyed,
                   saving, evictVars>>

-----------------------------------------------------------------------------
(* Sockets and the 'close' handler. *)

(* doc.send closes a choked client (1008) or one whose send throws. *)
ServerClose(c) ==
    /\ MicrotasksDrained
    /\ phase[c] = "attached"
    /\ socket[c] = "open"
    /\ socket' = [socket EXCEPT ![c] = "closing"]
    /\ UNCHANGED <<registry, pending, phase, docOf, docVars, saving, evictVars>>

(* The peer's close frame, a dropped connection or a heartbeat terminate. *)
PeerGone(c) ==
    /\ MicrotasksDrained
    /\ socket[c] \in {"open", "closing"}
    /\ socket' = [socket EXCEPT ![c] = "leaving"]
    /\ UNCHANGED <<registry, pending, phase, docOf, docVars, saving, evictVars>>

(* The 'close' event; without docRef the handler returns. *)
CloseEvent(c) ==
    LET d == docOf[c] IN
    /\ MicrotasksDrained
    /\ socket[c] = "leaving"
    /\ socket' = [socket EXCEPT ![c] = "closed"]
    /\ IF phase[c] = "attached"
         THEN /\ conns' = [conns EXCEPT ![d] = @ \ {c}]
              /\ CloseRoom(c, d, conns[d] \ {c}, pending)
         ELSE UNCHANGED <<registry, destroyed, saving, unsaved, conns>>
    /\ UNCHANGED <<pending, phase, docOf, load, evicted, evictVars>>

(* Mutant: the finally block does not look at doc.conns again. *)
CanReclaimWithoutLook(d) == pending = 0

CanReclaim(d) == conns[d] = {} /\ pending = 0

(* performFinalSave settled (its errors are caught): the finally block     *)
(* looks again and drops the registry entry of the room's name, whichever  *)
(* document is registered under it by now.                                 *)
FinalSaveDone(c) ==
    LET d == docOf[c] IN
    /\ MicrotasksDrained
    /\ saving[c] > 0
    /\ saving' = [saving EXCEPT ![c] = @ - 1]
    /\ IF CanReclaim(d)
         THEN /\ registry' = NoDoc
              /\ destroyed' = [destroyed EXCEPT ![d] = TRUE]
         ELSE UNCHANGED <<registry, destroyed>>
    /\ UNCHANGED <<pending, connVars, load, conns, evicted, unsaved, evictVars>>

-----------------------------------------------------------------------------
(* Workspace deletion and eviction. *)

DeleteWorkspace ==
    /\ MicrotasksDrained
    /\ ~deleted
    /\ MaxEvicts > 0
    /\ deleted' = TRUE
    /\ UNCHANGED <<registry, pending, connVars, docVars, saving, evicting, evicts>>

(* cancelAndEvictWorkspaceDocs reaches the room's entry and awaits it. *)
EvictStart ==
    /\ MicrotasksDrained
    /\ deleted
    /\ evicting = NoDoc
    /\ registry # NoDoc
    /\ evicts < MaxEvicts
    /\ evicts' = evicts + 1
    /\ evicting' = registry
    /\ UNCHANGED <<registry, pending, connVars, docVars, saving, deleted>>

(* The awaited document is marked, its sockets closed with 4100, its       *)
(* connection map cleared, and the entry dropped.                          *)
EvictFinish ==
    LET d == evicting IN
    /\ d # NoDoc
    /\ load[d] = "done"
    /\ evicted' = [evicted EXCEPT ![d] = TRUE]
    /\ socket' = [c \in Conn |->
                    IF c \in conns[d] /\ socket[c] = "open" THEN "closing"
                                                            ELSE socket[c]]
    /\ conns' = [conns EXCEPT ![d] = {}]
    /\ registry' = NoDoc
    /\ destroyed' = [destroyed EXCEPT ![d] = TRUE]
    /\ evicting' = NoDoc
    /\ UNCHANGED <<pending, phase, docOf, load, unsaved, saving, evicts, deleted>>

-----------------------------------------------------------------------------
Next ==
    \/ \E c \in Conn :
         \/ Connect(c) \/ Authorize(c) \/ Reject(c) \/ AcquireDoc(c)
         \/ LoadDone(c) \/ Join(c) \/ JoinGone(c) \/ Edit(c)
         \/ ServerClose(c) \/ PeerGone(c) \/ CloseEvent(c) \/ FinalSaveDone(c)
    \/ DeleteWorkspace \/ EvictStart \/ EvictFinish

Spec == Init /\ [][Next]_vars

(* The event loop delivers every settled promise and every 'close' event:  *)
(* queries have no way to stay unanswered for ever (they fail instead) and *)
(* a closing socket is torn down by the ws library's 30 s close timeout.   *)
Fairness ==
    /\ \A c \in Conn :
         /\ WF_vars(Authorize(c) \/ Reject(c))
         /\ WF_vars(AcquireDoc(c))
         /\ WF_vars(LoadDone(c))
         /\ WF_vars(Join(c) \/ JoinGone(c))
         /\ WF_vars(CloseEvent(c))
         /\ WF_vars(FinalSaveDone(c))
    /\ WF_vars(EvictFinish)

FairSpec == Spec /\ Fairness

-----------------------------------------------------------------------------
(* Properties. *)

(* pendingConns counts exactly the handlers between their increment and    *)
(* the finally block that undoes it; every other property leans on it.     *)
PendingExact == pending = Cardinality(Waiting)

(* The close handler never takes a document away from a client: no socket  *)
(* is attached to, in the broadcast set of, or waiting for a document that *)
(* a final save reclaimed, although the handler decides after an await     *)
(* during which clients come and go.                                       *)
ReclaimedHasNoClient ==
    \A d \in Conn : destroyed[d] /\ ~evicted[d] =>
        /\ conns[d] = {}
        /\ \A c \in Conn : docOf[c] = d =>
              \/ phase[c] = "attached" /\ socket[c] \in {"leaving", "closed"}
              \/ phase[c] # "waiting" /\ phase[c] # "attached"

(* What a connection handler holds: the document of a socket that waits or *)
(* is attached exists, and is loaded by the time the socket is attached or *)
(* its close handler awaits a final save.                                  *)
HandlersHoldDocs ==
    \A c \in Conn :
        /\ phase[c] \in {"waiting", "attached"} =>
              docOf[c] \in Conn /\ load[docOf[c]] # "none"
        /\ phase[c] = "attached" => load[docOf[c]] = "done"
        /\ saving[c] > 0 => phase[c] = "attached"
        /\ load[c] # "none" => phase[c] \in {"waiting", "attached"}
        /\ socket[c] = "none" => phase[c] = "new"
        /\ socket[c] = "closing" => phase[c] \in {"attached", "rejected"}

(* doc.conns is exactly the attached sockets that may still send, until an *)
(* eviction clears it.                                                     *)
ConnsMatchSockets ==
    \A c, d \in Conn :
        /\ c \in conns[d] => /\ phase[c] = "attached" /\ docOf[c] = d
                             /\ socket[c] \in {"open", "closing", "leaving"}
        /\ phase[c] = "attached" /\ docOf[c] = d /\ ~evicted[d]
             /\ socket[c] \in {"open", "closing"} => c \in conns[d]

(* The registry only offers documents that are being loaded or in use, and *)
(* so does the eviction that awaits one.                                   *)
RegistryOffersLiveDocs ==
    /\ \A d \in Conn : registry = d => ~destroyed[d] /\ load[d] # "none"
    /\ \A d \in Conn : evicting = d => load[d] # "none"
    /\ \A d \in Conn : load[d] = "none" => ~destroyed[d] /\ ~evicted[d]

(* No handler is waiting for a document that was reclaimed. *)
ReclaimedHasNoWaiter ==
    \A d \in Conn : destroyed[d] /\ ~evicted[d] =>
        /\ conns[d] = {}
        /\ load[d] = "done"
        /\ \A c \in Waiting : docOf[c] # d

RoomInv ==
    /\ PendingExact
    /\ HandlersHoldDocs
    /\ ConnsMatchSockets
    /\ RegistryOffersLiveDocs
    /\ ReclaimedHasNoWaiter

(* Reclaiming the registered room loses nothing: whoever joined and typed  *)
(* while an earlier final save was running is covered by a later one whose *)
(* snapshot was taken before the memory is given back.                     *)
RegisteredReclaimIsSaved ==
    [][\A d \in Conn :
         registry = d /\ ~destroyed[d] /\ destroyed'[d] /\ ~evicted'[d]
           => ~unsaved[d]]_vars

(* The registered room is never abandoned: once it is loaded and has       *)
(* neither clients nor arrivals, a close-handler activation is still       *)
(* running that will reclaim it (else the Y.Doc stays in memory for ever). *)
RegisteredRoomIsHeld ==
    (registry # NoDoc /\ MicrotasksDrained /\ pending = 0) =>
        \/ conns[registry] # {}
        \/ \E c \in Conn : docOf[c] = registry /\ saving[c] > 0

(* Who keeps a document: the sockets it broadcasts to and the handlers     *)
(* that wait for it.  While a document loads, or somebody waits for it, or *)
(* an eviction does, no other is registered.                               *)
InUse(d) == conns[d] # {} \/ \E c \in Waiting : docOf[c] = d

HeldInv ==
    /\ \A d \in Conn : load[d] = "loading" => registry = d /\ phase[d] = "waiting" /\ docOf[d] = d
    /\ \A c \in Waiting : registry \in {docOf[c], NoDoc}
    /\ evicting # NoDoc => registry \in {evicting, NoDoc}
    /\ \A d \in Conn : registry = d =>
          /\ InUse(d) \/ \E c \in Conn : docOf[c] = d /\ saving[c] > 0
          /\ unsaved[d] => InUse(d)
    /\ \A d \in Conn : evicted[d] => destroyed[d]
    /\ \A d \in Conn : load[d] = "none" => ~unsaved[d] /\ conns[d] = {}

(* The room's name maps to the document its clients edit: two open clients *)
(* of one file share a document.  The comment above the close handler      *)
(* ("Concurrent connection attempts during cleanup are safe because        *)
(* pendingConns tracking prevents premature eviction") promises it.        *)
ConcurrentConnectionsShareRoom ==
    \A c1, c2 \in Conn :
        /\ phase[c1] = "attached" /\ socket[c1] = "open"
        /\ phase[c2] = "attached" /\ socket[c2] = "open"
        => docOf[c1] = docOf[c2]

(* Once every socket that ever arrived is gone, the room leaves memory.    *)
AllGone == \A c \in Conn : phase[c] # "new" => socket[c] = "closed"
RoomEventuallyReclaimed == (<>[]AllGone) => <>[](registry = NoDoc)
=============================================================================
