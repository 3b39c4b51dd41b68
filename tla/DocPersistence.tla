---------------------------- MODULE DocPersistence ----------------------------
(***************************************************************************)
(* How the edits of one file reach PostgreSQL from one pod: executeSave,   *)
(* performFinalSave and the loader of services/yjsSyncEngine.service.ts,   *)
(* the Redis write-behind list of services/crdtWriteBehind.service.ts, the *)
(* compaction of services/crdtCompactor.service.ts and the state cache of  *)
(* utils/yjsCache.ts, interleaved at their awaits.                         *)
(*                                                                         *)
(* A Y.Doc only ever merges updates, so a document, a stored yjs_state, a  *)
(* file_updates log and a queue of updates are all the set of edits they   *)
(* contain.  Which Y.Doc the registry hands out is the subject of DocRoom; *)
(* here there is at most one live document.                                *)
(***************************************************************************)
EXTENDS Naturals, FiniteSets

CONSTANTS
    MaxEdits,    \* bound: updates clients make
    Saver,       \* runs of executeSave that may be in flight together
    Final,       \* runs of performFinalSave that may be in flight together
    Worker,      \* the write-behind worker's run of flushFileBuffer
    None,        \* no cached state; nobody holds a lock
    RedisUp,     \* redis.status = 'ready': the write-behind list is used
    MaxFailures  \* bound: database statements that fail

Edit == 1..MaxEdits   \* in the order they are made

Act == Saver \cup Final \cup {Worker}

ASSUME ActivityAssumption ==
    /\ Saver \cap Final = {}
    /\ Worker \notin Saver \cup Final
    /\ None \notin Act
    /\ \A S \in SUBSET Edit : S # None
ASSUME BoundAssumption == RedisUp \in BOOLEAN /\ MaxFailures \in Nat /\ MaxEdits \in Nat

VARIABLES
    made,       \* edits clients have made
    status,     \* the room: not in memory, loading, or live
    doc,        \* content of the live Y.Doc
    dbLoaded,   \* doc.dbLoaded
    base,       \* what the loader has read so far
    connected,  \* doc.conns.size > 0
    timer,      \* the debouncer's timer is pending
    isSaving,   \* the run of executeSave that set doc.isSaving, or None
    act,        \* every running save, final save and flush
    saveLock,   \* holder of lock:file:<id>:save
    flushLock,  \* holder of lock:crdt:flush:<id>
    state,      \* files.yjs_state
    rows,       \* file_updates of the file
    buffer,     \* the Redis list crdt:buffer:<id>
    cache,      \* yjs:state:<id>, or None
    failures,   \* database statements that failed
    overlapped, \* history: two saves or final saves were in flight together
    dropped,    \* history, up to an overlap: updates whose INSERT failed after
                \* they left Redis, and rows a compaction deleted unread
    stale       \* history, up to an overlap: a room went live without an edit
                \* made before

roomVars  == <<status, doc, dbLoaded, base, connected, timer, isSaving>>
lockVars  == <<saveLock, flushLock>>
storeVars == <<state, rows, buffer, cache>>
auxVars   == <<made, failures, dropped, overlapped, stale>>
vars == <<roomVars, act, lockVars, storeVars, auxVars>>

Step == {"idle", "lock", "update", "retry", "flush", "insert", "uncacheFlushed",
         "uncache", "selectState", "selectRows", "compact", "done"}

Activity == [at : Step, snap : SUBSET Edit, drained : SUBSET Edit,
             merged : SUBSET Edit, own : BOOLEAN]

Idle == [at |-> "idle", snap |-> {}, drained |-> {}, merged |-> {}, own |-> FALSE]

TypeOK ==
    /\ made \subseteq Edit
    /\ status \in {"none", "loadCache", "loadState", "loadRows", "bind", "live"}
    /\ doc \subseteq Edit /\ base \subseteq Edit
    /\ dbLoaded \in BOOLEAN /\ connected \in BOOLEAN /\ timer \in BOOLEAN
    /\ isSaving \in Saver \cup {None}
    /\ act \in [Act -> Activity]
    /\ saveLock \in Saver \cup {None}
    /\ flushLock \in Act \cup {None}
    /\ state \subseteq Edit /\ rows \subseteq Edit /\ buffer \subseteq Edit
    /\ cache \in (SUBSET Edit) \cup {None}
    /\ failures \in 0..MaxFailures
    /\ dropped \subseteq Edit
    /\ overlapped \in BOOLEAN /\ stale \in BOOLEAN

Init ==
    /\ made = {}
    /\ status = "none" /\ doc = {} /\ dbLoaded = FALSE /\ base = {}
    /\ connected = FALSE /\ timer = FALSE /\ isSaving = None
    /\ act = [a \in Act |-> Idle]
    /\ saveLock = None /\ flushLock = None
    /\ state = {} /\ rows = {} /\ buffer = {} /\ cache = None
    /\ failures = 0 /\ dropped = {}
    /\ overlapped = FALSE /\ stale = FALSE

Running == {a \in Saver \cup Final : act[a].at # "idle"}

At(a, step) == act[a].at = step
Goto(a, step) == act' = [act EXCEPT ![a].at = step]
End(a) == act' = [act EXCEPT ![a] = Idle]

(* bufferCrdtUpdate: rpush, when Redis is ready. *)
Buffered(edits) == IF RedisUp THEN buffer \cup edits ELSE buffer

(* Mutant: the cached state outlives the save. *)
CacheKept == cache

(* deleteYjsStateFromCache *)
CacheAfterSave == None

Lost(edits) == IF overlapped THEN dropped ELSE dropped \cup edits

DbFails ==
    /\ failures < MaxFailures
    /\ failures' = failures + 1

-----------------------------------------------------------------------------
(* Loading: getOrCreateDoc. *)

Open ==
    /\ status = "none"
    /\ status' = "loadCache"
    /\ connected' = TRUE
    /\ isSaving' = None
    /\ UNCHANGED <<doc, dbLoaded, base, timer, act, lockVars, storeVars, auxVars>>

(* The document is ready.  Applying what was read fires the update handler *)
(* of the document, which buffers it again; recordEdit arms the debouncer. *)
Bind(edits) ==
    /\ doc' = edits
    /\ buffer' = Buffered(edits)
    /\ status' = "live"
    /\ dbLoaded' = TRUE
    /\ timer' = TRUE
    /\ base' = {}
    /\ stale' = (stale \/ (~overlapped /\ ~(made \subseteq edits)))
    /\ UNCHANGED <<made, failures, dropped, overlapped>>

(* A cached state is used as it is: neither files nor file_updates is read. *)
LoadCacheHit ==
    /\ status = "loadCache"
    /\ cache # None
    /\ Bind(cache)
    /\ UNCHANGED <<connected, isSaving, act, lockVars, state, rows, cache>>

LoadCacheMiss ==
    /\ status = "loadCache"
    /\ cache = None
    /\ status' = "loadState"
    /\ UNCHANGED <<doc, dbLoaded, base, connected, timer, isSaving, act, lockVars,
                   storeVars, auxVars>>

LoadState ==
    /\ status = "loadState"
    /\ base' = state
    /\ buffer' = Buffered(state)
    /\ status' = "loadRows"
    /\ UNCHANGED <<doc, dbLoaded, connected, timer, isSaving, act, lockVars,
                   state, rows, cache, auxVars>>

(* The error is caught: the room opens on an empty document.  *)
LoadFails ==
    /\ status = "loadState"
    /\ DbFails
    /\ status' = "live"
    /\ doc' = {}
    /\ dbLoaded' = FALSE
    /\ stale' = (stale \/ (~overlapped /\ made # {}))
    /\ UNCHANGED <<base, connected, timer, isSaving, act, lockVars, storeVars,
                   made, dropped, overlapped>>

(* Reading file_updates; its failure is swallowed. *)
LoadRows ==
    /\ status = "loadRows"
    /\ \/ base' = base \cup rows /\ UNCHANGED failures
       \/ DbFails /\ UNCHANGED base
    /\ status' = "bind"
    /\ UNCHANGED <<doc, dbLoaded, connected, timer, isSaving, act, lockVars,
                   storeVars, made, dropped, overlapped, stale>>

(* The rows arrive; setYjsStateToCache is sent in the same turn. *)
LoadBind ==
    /\ status = "bind"
    /\ Bind(base)
    /\ cache' = base
    /\ UNCHANGED <<connected, isSaving, act, lockVars, state, rows>>

-----------------------------------------------------------------------------
(* Clients. *)

(* handleDocumentUpdate *)
MakeEdit(e) ==
    /\ status = "live" /\ connected
    /\ made = 1..(e - 1)
    /\ made' = made \cup {e}
    /\ doc' = doc \cup {e}
    /\ buffer' = Buffered({e})
    /\ timer' = (timer \/ dbLoaded)
    /\ UNCHANGED <<status, dbLoaded, base, connected, isSaving, act, lockVars,
                   state, rows, cache, failures, dropped, overlapped, stale>>

(* Mutant: the document is encoded once destroyed. *)
FinalSnapshotEmpty(d) == {}

(* performFinalSave encodes the document before its first await. *)
FinalSnapshot(d) == d

(* The last client leaves: cancel the timer, snapshot, issue the UPDATE. *)
Leave(f) ==
    /\ status = "live" /\ connected
    /\ At(f, "idle")
    /\ connected' = FALSE
    /\ timer' = FALSE
    /\ overlapped' = (overlapped \/ Running # {})
    /\ act' = [act EXCEPT ![f] = [Idle EXCEPT !.at = "update", !.own = TRUE,
                                              !.snap = FinalSnapshot(doc)]]
    /\ UNCHANGED <<status, doc, dbLoaded, base, isSaving, lockVars, storeVars,
                   made, failures, dropped, stale>>

Rejoin ==
    /\ status = "live" /\ ~connected
    /\ connected' = TRUE
    /\ UNCHANGED <<status, doc, dbLoaded, base, timer, isSaving, act, lockVars,
                   storeVars, auxVars>>

-----------------------------------------------------------------------------
(* executeSave *)

(* The timer fires; the snapshot is taken before the lock is requested.  *)
SaveStart(s) ==
    /\ timer
    /\ isSaving = None
    /\ At(s, "idle")
    /\ timer' = FALSE
    /\ isSaving' = s
    /\ overlapped' = (overlapped \/ Running # {})
    /\ act' = [act EXCEPT ![s] = [Idle EXCEPT !.at = "lock", !.snap = doc]]
    /\ UNCHANGED <<status, doc, dbLoaded, base, connected, lockVars, storeVars,
                   made, failures, dropped, stale>>

(* "if (this.isSaving) return": the request is dropped, nothing re-arms it. *)
SaveDropped ==
    /\ timer
    /\ isSaving # None
    /\ timer' = FALSE
    /\ UNCHANGED <<status, doc, dbLoaded, base, connected, isSaving, act, lockVars,
                   storeVars, auxVars>>

(* Mutant: the flag is not given back. *)
SaveEndKeepsFlag(s) == End(s) /\ UNCHANGED isSaving

(* finally { this.isSaving = false } on the document that set it *)
SaveEnd(s) ==
    /\ End(s)
    /\ isSaving' = IF isSaving = s THEN None ELSE isSaving

SaveLock(s) ==
    /\ At(s, "lock")
    /\ IF saveLock = None
         THEN Goto(s, "update") /\ saveLock' = s /\ UNCHANGED isSaving
         ELSE SaveEnd(s) /\ UNCHANGED saveLock
    /\ UNCHANGED <<status, doc, dbLoaded, base, connected, timer, flushLock,
                   storeVars, auxVars>>

(* UPDATE files SET yjs_state: the row becomes the snapshot.  *)
Update(a) ==
    /\ act[a].at \in {"update", "retry"}
    /\ state' = act[a].snap
    /\ act' = [act EXCEPT ![a].at = "flush", ![a].snap = {}]
    /\ UNCHANGED <<roomVars, lockVars, rows, buffer, cache, auxVars>>

(* A failing task releases the lock and withDistributedLock runs it again  *)
(* under the in-memory lock; the second failure ends executeSave.          *)
SaveUpdateFails(s) ==
    /\ DbFails
    /\ \/ /\ At(s, "update")
          /\ Goto(s, "retry")
          /\ saveLock' = None
          /\ UNCHANGED isSaving
       \/ /\ At(s, "retry")
          /\ SaveEnd(s)
          /\ UNCHANGED saveLock
    /\ UNCHANGED <<status, doc, dbLoaded, base, connected, timer, flushLock,
                   storeVars, made, dropped, overlapped, stale>>

SaveUncache(s) ==
    /\ At(s, "uncache")
    /\ cache' = CacheAfterSave
    /\ SaveEnd(s)
    /\ saveLock' = IF saveLock = s THEN None ELSE saveLock
    /\ UNCHANGED <<status, doc, dbLoaded, base, connected, timer, flushLock,
                   state, rows, buffer, auxVars>>

-----------------------------------------------------------------------------
(* flushFileBuffer, called by both saves and by the worker. *)

AfterFlush(a) == IF a = Worker THEN "idle" ELSE "uncache"

WorkerStart ==
    /\ RedisUp
    /\ At(Worker, "idle")
    /\ buffer # {}
    /\ Goto(Worker, "flush")
    /\ UNCHANGED <<roomVars, lockVars, storeVars, auxVars>>

(* Without Redis, or with the lock taken, the flush returns at once. *)
FlushSkipped(a) ==
    /\ At(a, "flush")
    /\ ~RedisUp \/ flushLock # None
    /\ Goto(a, AfterFlush(a))
    /\ UNCHANGED <<roomVars, lockVars, storeVars, auxVars>>

(* Mutant: the list is read with lrange but never deleted nor inserted. *)
DrainedNothing(b) == {}

(* lrange, del, srem over one connection. *)
Drained(b) == b

FlushDrain(a) ==
    /\ At(a, "flush")
    /\ RedisUp /\ flushLock = None
    /\ buffer' = {}
    /\ IF buffer = {}
         THEN Goto(a, AfterFlush(a)) /\ UNCHANGED flushLock
         ELSE /\ act' = [act EXCEPT ![a].at = "insert",
                                    ![a].drained = Drained(buffer)]
              /\ flushLock' = a
    /\ UNCHANGED <<roomVars, saveLock, state, rows, cache, auxVars>>

FlushInsert(a) ==
    /\ At(a, "insert")
    /\ rows' = rows \cup act[a].drained
    /\ act' = [act EXCEPT ![a].at = "uncacheFlushed", ![a].drained = {}]
    /\ UNCHANGED <<roomVars, lockVars, state, buffer, cache, auxVars>>

(* The error is caught inside the task: the drained updates are gone. *)
FlushInsertFails(a) ==
    /\ At(a, "insert")
    /\ DbFails
    /\ dropped' = Lost(act[a].drained)
    /\ act' = [act EXCEPT ![a].at = AfterFlush(a), ![a].drained = {}]
    /\ flushLock' = None
    /\ UNCHANGED <<roomVars, saveLock, storeVars, made, overlapped, stale>>

FlushUncache(a) ==
    /\ At(a, "uncacheFlushed")
    /\ cache' = CacheAfterSave
    /\ flushLock' = None
    /\ Goto(a, AfterFlush(a))
    /\ UNCHANGED <<roomVars, saveLock, state, rows, buffer, auxVars>>

-----------------------------------------------------------------------------
(* performFinalSave after its flush, and compactFileCrdtDeltas. *)

FinalEnds(f) == act' = [act EXCEPT ![f] = [Idle EXCEPT !.at = "done", !.own = act[f].own]]

FinalUpdateFails(f) ==
    /\ At(f, "update")
    /\ DbFails
    /\ FinalEnds(f)
    /\ UNCHANGED <<roomVars, lockVars, storeVars, made, dropped, overlapped, stale>>

FinalUncache(f) ==
    /\ At(f, "uncache")
    /\ cache' = CacheAfterSave
    /\ Goto(f, "selectState")
    /\ UNCHANGED <<roomVars, lockVars, state, rows, buffer, auxVars>>

CompactSelectState(f) ==
    /\ At(f, "selectState")
    /\ act' = [act EXCEPT ![f].at = "selectRows", ![f].merged = state]
    /\ UNCHANGED <<roomVars, lockVars, storeVars, auxVars>>

Merged(baseState, deltas) == baseState \cup deltas

CompactSelectRows(f) ==
    /\ At(f, "selectRows")
    /\ act' = IF rows = {}
                THEN [act EXCEPT ![f].at = "done", ![f].merged = {}]
                ELSE [act EXCEPT ![f].at = "compact",
                                 ![f].merged = Merged(@, rows)]
    /\ UNCHANGED <<roomVars, lockVars, storeVars, auxVars>>

(* BEGIN; UPDATE files; DELETE FROM file_updates WHERE file_id; COMMIT *)
CompactCommit(f) ==
    /\ At(f, "compact")
    /\ state' = act[f].merged
    /\ rows' = {}
    /\ dropped' = Lost(rows \ act[f].merged)
    /\ FinalEnds(f)
    /\ UNCHANGED <<roomVars, lockVars, buffer, cache, made, failures, overlapped,
                   stale>>

(* Any statement of the compaction fails: rolled back and swallowed. *)
CompactFails(f) ==
    /\ act[f].at \in {"selectState", "selectRows", "compact"}
    /\ DbFails
    /\ FinalEnds(f)
    /\ UNCHANGED <<roomVars, lockVars, storeVars, made, dropped, overlapped, stale>>

(* Back in the 'close' handler: an empty room leaves memory. *)
FinalDone(f) ==
    /\ At(f, "done")
    /\ IF act[f].own /\ ~connected
         THEN /\ status' = "none"
              /\ doc' = {}
              /\ dbLoaded' = FALSE
              /\ timer' = FALSE
              /\ isSaving' = None
              /\ act' = [a \in Act |-> IF a = f THEN Idle
                                                ELSE [act[a] EXCEPT !.own = FALSE]]
         ELSE End(f) /\ UNCHANGED <<status, doc, dbLoaded, timer, isSaving>>
    /\ UNCHANGED <<base, connected, lockVars, storeVars, auxVars>>

-----------------------------------------------------------------------------
Load == LoadCacheHit \/ LoadCacheMiss \/ LoadState \/ LoadFails \/ LoadRows \/ LoadBind

Flush(a) == FlushSkipped(a) \/ FlushDrain(a) \/ FlushInsert(a)
            \/ FlushInsertFails(a) \/ FlushUncache(a)

Save(s) == SaveLock(s) \/ Update(s) \/ SaveUpdateFails(s) \/ Flush(s) \/ SaveUncache(s)

FinalSave(f) ==
    \/ Update(f) \/ FinalUpdateFails(f) \/ Flush(f) \/ FinalUncache(f)
    \/ CompactSelectState(f) \/ CompactSelectRows(f) \/ CompactCommit(f)
    \/ CompactFails(f) \/ FinalDone(f)

Next ==
    \/ Open \/ Load \/ Rejoin \/ SaveDropped \/ WorkerStart
    \/ \E e \in Edit : MakeEdit(e)
    \/ \E s \in Saver : SaveStart(s) \/ Save(s)
    \/ \E f \in Final : Leave(f) \/ FinalSave(f)
    \/ Flush(Worker)

Spec == Init /\ [][Next]_vars

(* Pending promises settle, the timer fires and the worker's interval      *)
(* ticks (server.ts starts it in production); clients owe nothing.         *)
Fairness ==
    /\ WF_vars(Load)
    /\ WF_vars(SaveDropped) /\ \A s \in Saver : WF_vars(SaveStart(s)) /\ WF_vars(Save(s))
    /\ \A f \in Final : WF_vars(FinalSave(f))
    /\ WF_vars(WorkerStart) /\ WF_vars(Flush(Worker))

FairSpec == Spec /\ Fairness

-----------------------------------------------------------------------------
(* Properties. *)

Quiet == status = "none" /\ \A a \in Act : At(a, "idle")

(* A room that left memory, with every save it started finished, has all   *)
(* its edits where the next load or the next flush finds them: "Guarantees *)
(* zero data loss when rooms are reclaimed from node memory".              *)
ReclaimLosesNothing == Quiet => made \subseteq state \cup rows \cup buffer

(* The same promise for one save at a time: as long as every room went     *)
(* live on all the edits made before it and no two saves of the file were  *)
(* in flight together, nothing is lost but what left Redis for an INSERT   *)
(* that failed or was deleted unread by a compaction.  Without Redis there *)
(* is only the final save, so that it must not fail.                       *)
SequentialSavesLoseNothing ==
    (RedisUp \/ failures = 0) /\ ~overlapped /\ ~stale /\ Quiet =>
        made \subseteq state \cup rows \cup buffer \cup dropped

(* And while no database statement fails, one save at a time is enough for *)
(* every room to go live on all edits, through the cache or the database.  *)
SequentialRoomsOpenComplete == ~overlapped /\ failures = 0 => ~stale

(* isSaving is given back on every path out of executeSave, and never by a *)
(* save that an earlier document of the file left behind: it is set just   *)
(* while its own run is in flight.  Were it stuck, every later save of the *)
(* document would be dropped.                                              *)
SavingIsReleased == isSaving # None => ~At(isSaving, "idle")

(* Both, as one invariant of the run. *)
SaverIsSound == TypeOK /\ SavingIsReleased

(* With Redis the worker carries every edit to PostgreSQL, whether or not  *)
(* a save is ever due, and the edit stays there, unless an INSERT fails    *)
(* after the drain or two saves of the file overlap.                       *)
EditsReachDatabase ==
    \A e \in Edit : e \in made ~> \/ e \in state \cup rows \cup dropped
                                 \/ overlapped \/ stale
=============================================================================
