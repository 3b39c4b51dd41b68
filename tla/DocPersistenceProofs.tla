------------------------- MODULE DocPersistenceProofs -------------------------
(***************************************************************************)
(* Proofs about DocPersistence for any number of edits, saves and final    *)
(* saves in flight, with Redis or without it: as long as the saves of a    *)
(* file do not overlap no edit is lost but what an INSERT or a compaction  *)
(* dropped, rooms go live on all edits while statements succeed, and the   *)
(* isSaving flag is given back.                                            *)
(***************************************************************************)
EXTENDS DocPersistence, TLAPS

(* Nothing is invented: whatever is stored, queued or in hand was made. *)
OnlyMade ==
    /\ doc \cup base \cup state \cup rows \cup buffer \cup dropped \subseteq made
    /\ cache # None => cache \subseteq made
    /\ \A a \in Act : act[a].snap \cup act[a].drained \cup act[a].merged \subseteq made

(* Where a run can be, and that it holds drained updates only to insert them. *)
Placed ==
    /\ \A a \in Act : act[a].drained # {} => At(a, "insert")
    /\ \A s \in Saver : act[s].at \notin {"selectState", "selectRows", "compact", "done"}
    /\ \A f \in Final : act[f].at \notin {"lock", "retry"}
    /\ act[Worker].at \in {"idle", "flush", "insert", "uncacheFlushed"}
    /\ timer => status = "live"

(* One save at a time, on a room that is live. *)
OneAtATime ==
    ~overlapped =>
        /\ \A a, b \in Running : a = b
        /\ status # "live" => Running = {}

InHand == UNION {act[a].drained : a \in Act}

(* An update is given up only once another place has it: what replaces the *)
(* stored state contains it.                                               *)
NothingGivenUp ==
    ~overlapped /\ ~stale =>
        /\ status = "live" => made \subseteq doc
        /\ \A a \in Act :
             /\ act[a].at \in {"lock", "update", "retry"} => state \subseteq act[a].snap
             /\ act[a].at \in {"selectRows", "compact"} => state \subseteq act[a].merged
        /\ RedisUp => made \subseteq state \cup rows \cup buffer \cup dropped \cup InHand

(* While statements succeed an empty room's state is complete.             *)
EmptyRoomIsSaved ==
    ~overlapped /\ failures = 0 =>
        /\ ~stale
        /\ status # "live" => made \subseteq state /\ cache = None
        /\ status \in {"loadRows", "bind"} => made \subseteq base
        /\ \A f \in Final :
             /\ ~connected /\ ~At(f, "idle") =>
                  made \subseteq IF At(f, "update") THEN act[f].snap ELSE state
             /\ act[f].at \in {"selectState", "selectRows", "compact", "done"}
                  => cache = None

PersistenceInv ==
    /\ SavingIsReleased /\ OnlyMade /\ Placed /\ OneAtATime
    /\ NothingGivenUp /\ EmptyRoomIsSaved

-----------------------------------------------------------------------------
(* Types. *)

(* What a step makes of a run is a run again. *)
LEMMA RunsStayRuns ==
    ASSUME NEW f \in [Act -> Activity], NEW a \in Act, NEW p \in Step, NEW S \in SUBSET Edit
    PROVE  /\ [f EXCEPT ![a].at = p] \in [Act -> Activity]
           /\ [f EXCEPT ![a].at = p, ![a].snap = S] \in [Act -> Activity]
           /\ [f EXCEPT ![a].at = p, ![a].drained = S] \in [Act -> Activity]
           /\ [f EXCEPT ![a].at = p, ![a].merged = S] \in [Act -> Activity]
  BY DEF Activity

LEMMA FreshRuns ==
    ASSUME NEW b \in BOOLEAN, NEW S \in SUBSET Edit, NEW p \in Step
    PROVE  /\ Idle \in Activity
           /\ [Idle EXCEPT !.at = p, !.own = b] \in Activity
           /\ [Idle EXCEPT !.at = p, !.snap = S] \in Activity
           /\ [Idle EXCEPT !.at = p, !.own = b, !.snap = S] \in Activity
  BY DEF Activity, Idle, Step

LEMMA ActsTyped == ASSUME TypeOK, [Next]_vars PROVE act' \in [Act -> Activity]
<1> USE DEF Goto, End, SaveEnd
<1>1. /\ act \in [Act -> Activity] /\ doc \in SUBSET Edit /\ state \in SUBSET Edit
      /\ rows \in SUBSET Edit /\ buffer \in SUBSET Edit /\ {} \in SUBSET Edit
  BY DEF TypeOK
<1>2. /\ {"idle", "lock", "update", "retry", "flush", "insert", "uncacheFlushed",
           "uncache", "selectState", "selectRows", "compact", "done"} = Step
      /\ \A a : AfterFlush(a) \in Step
  BY DEF Step, AfterFlush
<1>3. \A a \in Act : act[a].own \in BOOLEAN /\ act[a].merged \in SUBSET Edit
  BY <1>1 DEF Activity
<1>4. Idle \in Activity
  BY <1>2, FreshRuns
<1>5. ASSUME NEW s \in Saver, SaveStart(s) PROVE act' \in [Act -> Activity]
  <2>1. [Idle EXCEPT !.at = "lock", !.snap = doc] \in Activity
    BY <1>1, <1>2, FreshRuns
  <2> QED
    BY <1>1, <1>5, <2>1 DEF SaveStart
<1>6. ASSUME NEW s \in Saver, SaveLock(s) \/ SaveUpdateFails(s) \/ SaveUncache(s)
      PROVE  act' \in [Act -> Activity]
  <2>1. s \in Act /\ "update" \in Step /\ "retry" \in Step
    BY <1>2 DEF Act
  <2>2. \/ act' = [act EXCEPT ![s] = Idle]
        \/ act' = [act EXCEPT ![s].at = "update"]
        \/ act' = [act EXCEPT ![s].at = "retry"]
    BY <1>6 DEF SaveLock, SaveUpdateFails, SaveUncache
  <2>3. /\ [act EXCEPT ![s].at = "update"] \in [Act -> Activity]
        /\ [act EXCEPT ![s].at = "retry"] \in [Act -> Activity]
    BY <1>1, <2>1, RunsStayRuns
  <2> QED
    BY <1>1, <1>4, <2>1, <2>2, <2>3
<1>7. ASSUME NEW a \in Act, Update(a) PROVE act' \in [Act -> Activity]
  <2>1. act' = [act EXCEPT ![a].at = "flush", ![a].snap = {}] /\ "flush" \in Step
    BY <1>2, <1>7 DEF Update
  <2> QED
    BY <1>1, <2>1, RunsStayRuns
<1>8. ASSUME NEW a \in Act, Flush(a) \/ (a = Worker /\ WorkerStart)
      PROVE  act' \in [Act -> Activity]
  <2>1. PICK p \in Step, S \in SUBSET Edit :
           \/ act' = [act EXCEPT ![a].at = p]
           \/ act' = [act EXCEPT ![a].at = p, ![a].drained = S]
    <3>1. CASE FlushSkipped(a) \/ FlushUncache(a) \/ (a = Worker /\ WorkerStart)
      BY <1>2, <3>1 DEF FlushSkipped, FlushUncache, WorkerStart
    <3>2. CASE FlushInsert(a) \/ FlushInsertFails(a)
      BY <1>1, <1>2, <3>2 DEF FlushInsert, FlushInsertFails
    <3>3. CASE FlushDrain(a)
      BY <1>1, <1>2, <3>3 DEF FlushDrain, Drained
    <3> QED
      BY <1>8, <3>1, <3>2, <3>3 DEF Flush
  <2>2. /\ [act EXCEPT ![a].at = p] \in [Act -> Activity]
        /\ [act EXCEPT ![a].at = p, ![a].drained = S] \in [Act -> Activity]
    BY <1>1, RunsStayRuns
  <2> QED
    BY <2>1, <2>2
<1>9. ASSUME NEW f \in Final, Leave(f) PROVE act' \in [Act -> Activity]
  <2>1. [Idle EXCEPT !.at = "update", !.own = TRUE, !.snap = FinalSnapshot(doc)] \in Activity
    BY <1>1, <1>2, FreshRuns, ZenonT(60) DEF FinalSnapshot
  <2> QED
    BY <1>1, <1>9, <2>1 DEF Leave
<1>10. ASSUME NEW f \in Final,
              FinalUpdateFails(f) \/ CompactCommit(f) \/ CompactFails(f)
       PROVE  act' \in [Act -> Activity]
  <2>1. [Idle EXCEPT !.at = "done", !.own = act[f].own] \in Activity
    BY <1>1, <1>2, <1>3, FreshRuns DEF Act
  <2> QED
    BY <1>1, <1>10, <2>1 DEF FinalUpdateFails, CompactCommit, CompactFails, FinalEnds
<1>11. ASSUME NEW f \in Final, FinalUncache(f) \/ CompactSelectState(f) \/ CompactSelectRows(f)
       PROVE  act' \in [Act -> Activity]
  <2>1. f \in Act /\ Merged(act[f].merged, rows) \in SUBSET Edit
    BY <1>1, <1>3 DEF Act, Merged
  <2>2. PICK p \in Step, S \in SUBSET Edit :
           \/ act' = [act EXCEPT ![f].at = p]
           \/ act' = [act EXCEPT ![f].at = p, ![f].merged = S]
    <3>1. CASE FinalUncache(f)
      BY <1>1, <1>2, <3>1 DEF FinalUncache
    <3>2. CASE CompactSelectState(f)
      BY <1>1, <1>2, <3>2 DEF CompactSelectState
    <3>3. CASE CompactSelectRows(f)
      <4>1. \/ act' = [act EXCEPT ![f].at = "done", ![f].merged = {}]
            \/ act' = [act EXCEPT ![f].at = "compact",
                                  ![f].merged = Merged(act[f].merged, rows)]
        BY <1>1, <2>1, <3>3 DEF CompactSelectRows, Merged, Activity
      <4> QED
        BY <1>1, <1>2, <2>1, <4>1
    <3> QED
      BY <1>11, <3>1, <3>2, <3>3
  <2>3. /\ [act EXCEPT ![f].at = p] \in [Act -> Activity]
        /\ [act EXCEPT ![f].at = p, ![f].merged = S] \in [Act -> Activity]
    BY <1>1, <2>1, RunsStayRuns
  <2> QED
    BY <2>2, <2>3
<1>12. ASSUME NEW f \in Final, FinalDone(f) PROVE act' \in [Act -> Activity]
  <2>1. ASSUME NEW a \in Act PROVE [act[a] EXCEPT !.own = FALSE] \in Activity
    <3>1. act[a] \in Activity
      BY <1>1
    <3> QED
      BY <3>1 DEF Activity
  <2>2. CASE act' = [a \in Act |-> IF a = f THEN Idle ELSE [act[a] EXCEPT !.own = FALSE]]
    BY <1>4, <2>1, <2>2
  <2>3. CASE End(f)
    BY <1>1, <1>4, <2>3
  <2> QED
    BY <1>12, <2>2, <2>3 DEF FinalDone
<1>13. CASE \/ Open \/ Load \/ Rejoin \/ SaveDropped
            \/ (\E e \in Edit : MakeEdit(e)) \/ UNCHANGED vars
  <2>1. ASSUME Open \/ Rejoin \/ SaveDropped PROVE act' = act
    BY <2>1 DEF Open, Rejoin, SaveDropped
  <2>2. ASSUME Load PROVE act' = act
    BY <2>2 DEF Load, LoadCacheHit, LoadCacheMiss, LoadState, LoadFails, LoadRows, LoadBind
  <2>3. ASSUME NEW e \in Edit, MakeEdit(e) PROVE act' = act
    BY <2>3 DEF MakeEdit
  <2>4. act' = act
    BY <1>13, <2>1, <2>2, <2>3 DEF vars
  <2> QED
    BY <1>1, <2>4
<1> QED
  BY <1>5, <1>6, <1>7, <1>8, <1>9, <1>10, <1>11, <1>12, <1>13, SMTT(30)
     DEF Next, Save, FinalSave, Act

USE ActivityAssumption, BoundAssumption DEF Act

(* The types of all but the activities. *)
RestOK ==
    /\ made \subseteq Edit
    /\ status \in {"none", "loadCache", "loadState", "loadRows", "bind", "live"}
    /\ doc \subseteq Edit /\ base \subseteq Edit
    /\ dbLoaded \in BOOLEAN /\ connected \in BOOLEAN /\ timer \in BOOLEAN
    /\ isSaving \in Saver \cup {None}
    /\ saveLock \in Saver \cup {None}
    /\ flushLock \in Act \cup {None}
    /\ state \subseteq Edit /\ rows \subseteq Edit /\ buffer \subseteq Edit
    /\ cache \in (SUBSET Edit) \cup {None}
    /\ failures \in 0..MaxFailures
    /\ dropped \subseteq Edit
    /\ overlapped \in BOOLEAN /\ stale \in BOOLEAN

LEMMA TypeParts == TypeOK <=> act \in [Act -> Activity] /\ RestOK
BY DEF TypeOK, RestOK

LEMMA TypeStep == ASSUME TypeOK, [Next]_vars PROVE TypeOK'
<1>0. act' \in [Act -> Activity]
  BY ActsTyped
<1>1. RestOK
  BY TypeParts
<1>2. act \in [Act -> Activity]
  BY TypeParts
<1> SUFFICES RestOK'
  BY <1>0 DEF TypeOK, RestOK
<1> USE DEF RestOK, At, Goto, End, SaveEnd, roomVars, lockVars, storeVars, auxVars
<1>3. \A a \in Act : /\ act[a].snap \in SUBSET Edit /\ act[a].drained \in SUBSET Edit
                     /\ act[a].merged \in SUBSET Edit
  BY <1>2 DEF Activity
<1>4. DbFails => failures' \in 0..MaxFailures
  BY <1>1 DEF DbFails
<1>5. ASSUME NEW S \in SUBSET Edit
      PROVE  Buffered(S) \in SUBSET Edit /\ Lost(S) \in SUBSET Edit
  BY <1>1 DEF Buffered, Lost
<1>6. /\ cache' \in {cache, None} => cache' \in (SUBSET Edit) \cup {None}
      /\ cache # None => cache \in SUBSET Edit
  BY <1>1
<1>7. CASE Open \/ LoadCacheMiss \/ Rejoin \/ SaveDropped \/ WorkerStart
  <2>1. CASE Open
    BY <1>1, <2>1 DEF Open
  <2>2. CASE LoadCacheMiss
    BY <1>1, <2>2 DEF LoadCacheMiss
  <2>3. CASE Rejoin
    BY <1>1, <2>3 DEF Rejoin
  <2>4. CASE SaveDropped
    <3> HIDE DEF RestOK, At, Goto, End, SaveEnd
    <3>1. timer' \in BOOLEAN /\ UNCHANGED <<status, doc, dbLoaded, base, connected, isSaving>>
          /\ UNCHANGED <<saveLock, flushLock, state, rows, buffer, cache, made, failures, dropped, overlapped, stale>>
      BY <2>4 DEF SaveDropped
    <3> HIDE DEF roomVars, lockVars, storeVars, auxVars
    <3> QED
      BY <1>1, <3>1 DEF RestOK
  <2>5. CASE WorkerStart
    BY <1>1, <2>5 DEF WorkerStart
  <2> QED
    BY <1>7, <2>1, <2>2, <2>3, <2>4, <2>5
<1>8. CASE LoadCacheHit \/ LoadBind
  <2>1. PICK S \in SUBSET Edit : Bind(S) /\ cache' \in (SUBSET Edit) \cup {None}
                                 /\ UNCHANGED <<connected, isSaving, lockVars, state, rows>>
    <3>1. CASE LoadCacheHit
      BY <1>6, <3>1 DEF LoadCacheHit
    <3>2. CASE LoadBind
      <4>1. base \in SUBSET Edit /\ base \in (SUBSET Edit) \cup {None}
        BY <1>1
      <4> QED
        BY <3>2, <4>1 DEF LoadBind
    <3> QED
      BY <1>8, <3>1, <3>2
  <2> QED
    BY <1>1, <1>5, <2>1 DEF Bind
<1>9. CASE LoadState
  BY <1>1, <1>5, <1>9 DEF LoadState
<1>10. CASE LoadFails
  BY <1>1, <1>4, <1>10 DEF LoadFails
<1>11. CASE LoadRows
  BY <1>1, <1>4, <1>11 DEF LoadRows
<1>12. ASSUME NEW e \in Edit, MakeEdit(e) PROVE RestOK'
  <2>1. Buffered({e}) \in SUBSET Edit
    BY <1>5
  <2> QED
    BY <1>1, <1>12, <2>1 DEF MakeEdit
<1>13. ASSUME NEW s \in Saver, SaveStart(s) \/ SaveLock(s) PROVE RestOK'
  <2>1. CASE SaveStart(s)
    BY <1>1, <2>1 DEF SaveStart
  <2>2. CASE SaveLock(s)
    BY <1>1, <2>2 DEF SaveLock
  <2> QED
    BY <1>13, <2>1, <2>2
<1>14. ASSUME NEW s \in Saver, SaveUpdateFails(s) PROVE RestOK'
  BY <1>1, <1>4, <1>14 DEF SaveUpdateFails
<1>15. ASSUME NEW s \in Saver, SaveUncache(s) PROVE RestOK'
  <2>1. cache' \in (SUBSET Edit) \cup {None}
    BY <1>6, <1>15 DEF SaveUncache, CacheAfterSave
  <2> QED
    BY <1>1, <1>15, <2>1 DEF SaveUncache
<1>16. ASSUME NEW a \in Act, Update(a) \/ FlushInsert(a) PROVE RestOK'
  BY <1>1, <1>3, <1>16 DEF Update, FlushInsert
<1>17. ASSUME NEW a \in Act, FlushSkipped(a) \/ FlushDrain(a) \/ FlushUncache(a)
       PROVE  RestOK'
  <2>1. CASE FlushSkipped(a)
    BY <1>1, <2>1 DEF FlushSkipped, CacheAfterSave
  <2>2. CASE FlushDrain(a)
    BY <1>1, <2>2 DEF FlushDrain, CacheAfterSave
  <2>3. CASE FlushUncache(a)
    BY <1>1, <2>3 DEF FlushUncache, CacheAfterSave
  <2> QED
    BY <1>17, <2>1, <2>2, <2>3
<1>18. ASSUME NEW a \in Act, FlushInsertFails(a) PROVE RestOK'
  <2>1. Lost(act[a].drained) \in SUBSET Edit
    BY <1>3, <1>5
  <2> QED
    BY <1>1, <1>4, <1>18, <2>1 DEF FlushInsertFails
<1>19. ASSUME NEW f \in Final, Leave(f) PROVE RestOK'
  BY <1>1, <1>19 DEF Leave
<1>20. ASSUME NEW f \in Final, FinalUpdateFails(f) \/ CompactFails(f) PROVE RestOK'
  BY <1>1, <1>4, <1>20 DEF FinalUpdateFails, CompactFails
<1>21. ASSUME NEW f \in Final, FinalUncache(f) \/ CompactSelectState(f) \/ CompactSelectRows(f)
       PROVE  RestOK'
  <2>1. CASE FinalUncache(f)
    BY <1>1, <2>1 DEF FinalUncache, CacheAfterSave
  <2>2. CASE CompactSelectState(f)
    BY <1>1, <2>2 DEF CompactSelectState, CacheAfterSave
  <2>3. CASE CompactSelectRows(f)
    BY <1>1, <2>3 DEF CompactSelectRows, CacheAfterSave
  <2> QED
    BY <1>21, <2>1, <2>2, <2>3
<1>22. ASSUME NEW f \in Final, CompactCommit(f) PROVE RestOK'
  <2>1. Lost(rows \ act[f].merged) \in SUBSET Edit
    BY <1>1, <1>5
  <2>2. state' \in SUBSET Edit /\ rows' \in SUBSET Edit /\ dropped' \in SUBSET Edit
    <3> HIDE DEF RestOK, At, Goto, End, SaveEnd
    <3>1. state' = act[f].merged /\ rows' = {} /\ dropped' = Lost(rows \ act[f].merged)
      BY <1>22 DEF CompactCommit
    <3>2. act[f].merged \in SUBSET Edit
      BY <1>3
    <3> QED
      BY <2>1, <3>1, <3>2
  <2>3. UNCHANGED <<roomVars, lockVars, buffer, cache, made, failures, overlapped, stale>>
    BY <1>22 DEF CompactCommit
  <2> QED
    BY <1>1, <2>2, <2>3
<1>23. ASSUME NEW f \in Final, FinalDone(f) PROVE RestOK'
  <2> HIDE DEF RestOK, At, End
  <2>1. CASE act[f].own /\ ~connected
    <3>1. /\ status' = "none" /\ doc' = {} /\ dbLoaded' = FALSE /\ timer' = FALSE /\ isSaving' = None
          /\ UNCHANGED <<base, connected, lockVars, storeVars, auxVars>>
      BY <1>23, <2>1 DEF FinalDone
    <3> QED
      BY <1>1, <3>1 DEF RestOK
  <2>2. CASE ~(act[f].own /\ ~connected)
    <3>1. UNCHANGED <<status, doc, dbLoaded, timer, isSaving, base, connected, lockVars, storeVars, auxVars>>
      BY <1>23, <2>2 DEF FinalDone
    <3> QED
      BY <1>1, <3>1 DEF RestOK
  <2> QED
    BY <2>1, <2>2
<1>24. CASE UNCHANGED vars
  BY <1>1, <1>24 DEF vars
<1> QED
  BY <1>7, <1>8, <1>9, <1>10, <1>11, <1>12, <1>13, <1>14, <1>15, <1>16, <1>17, <1>18,
     <1>19, <1>20, <1>21, <1>22, <1>23, <1>24 DEF Next, Load, Flush, Save, FinalSave, Act

-----------------------------------------------------------------------------
(* The parts of the invariant, one after the other. *)

LEMMA ReleasedStep ==
    ASSUME TypeOK, SavingIsReleased, [Next]_vars
    PROVE  SavingIsReleased'
<1> USE DEF TypeOK, Activity, SavingIsReleased, At, roomVars, lockVars,
            storeVars, auxVars
<1>1. CASE Open \/ LoadCacheMiss \/ Rejoin \/ SaveDropped
  BY <1>1 DEF Open, LoadCacheMiss, Rejoin, SaveDropped
<1>2. CASE LoadCacheHit \/ LoadBind
  BY <1>2 DEF LoadCacheHit, LoadBind, Bind, Buffered
<1>3. CASE LoadState
  BY <1>3 DEF LoadState, Buffered
<1>4. CASE LoadFails \/ LoadRows
  BY <1>4 DEF LoadFails, LoadRows, DbFails
<1>5. ASSUME NEW e \in Edit, MakeEdit(e) PROVE SavingIsReleased'
  BY <1>5 DEF MakeEdit, Buffered
<1>6. CASE WorkerStart
  BY <1>6 DEF WorkerStart, At, Goto
<1>7. ASSUME NEW s \in Saver, SaveStart(s) PROVE SavingIsReleased'
  BY <1>7 DEF SaveStart, At, Idle
<1>8. ASSUME NEW s \in Saver, SaveLock(s) \/ SaveUpdateFails(s)
      PROVE  SavingIsReleased'
  BY <1>8 DEF SaveLock, SaveUpdateFails, At, Goto, SaveEnd, End, Idle, DbFails
<1>9. ASSUME NEW s \in Saver, SaveUncache(s) PROVE SavingIsReleased'
  BY <1>9 DEF SaveUncache, At, CacheAfterSave, SaveEnd, End, Idle
<1>10. ASSUME NEW a \in Act, Update(a) PROVE SavingIsReleased'
  BY <1>10 DEF Update
<1>11. ASSUME NEW a \in Act, FlushSkipped(a) \/ FlushDrain(a)
       PROVE  SavingIsReleased'
  BY <1>11 DEF FlushSkipped, FlushDrain, At, Goto, AfterFlush, Drained
<1>12. ASSUME NEW a \in Act, FlushInsert(a) \/ FlushInsertFails(a)
       PROVE  SavingIsReleased'
  BY <1>12 DEF FlushInsert, FlushInsertFails, At, DbFails, Lost, AfterFlush
<1>13. ASSUME NEW a \in Act, FlushUncache(a) PROVE SavingIsReleased'
  BY <1>13 DEF FlushUncache, At, CacheAfterSave, Goto, AfterFlush
<1>14. ASSUME NEW f \in Final, Leave(f) PROVE SavingIsReleased'
  BY <1>14 DEF Leave, Idle, FinalSnapshot
<1>15. ASSUME NEW f \in Final, FinalUpdateFails(f) \/ CompactFails(f)
       PROVE  SavingIsReleased'
  BY <1>15 DEF FinalUpdateFails, CompactFails, At, DbFails, FinalEnds, Idle
<1>16. ASSUME NEW f \in Final, FinalUncache(f) PROVE SavingIsReleased'
  BY <1>16 DEF FinalUncache, At, CacheAfterSave, Goto
<1>17. ASSUME NEW f \in Final, CompactSelectState(f) \/ CompactSelectRows(f)
       PROVE  SavingIsReleased'
  BY <1>17 DEF CompactSelectState, CompactSelectRows, At, Merged
<1>18. ASSUME NEW f \in Final, CompactCommit(f) PROVE SavingIsReleased'
  BY <1>18 DEF CompactCommit, At, Lost, FinalEnds, Idle
<1>19. ASSUME NEW f \in Final, FinalDone(f) PROVE SavingIsReleased'
  BY <1>19 DEF FinalDone, At, End, Idle
<1>20. CASE UNCHANGED vars
  BY <1>20 DEF vars
<1> QED
  BY <1>1, <1>2, <1>3, <1>4, <1>5, <1>6, <1>7, <1>8, <1>9, <1>10, <1>11, <1>12,
     <1>13, <1>14, <1>15, <1>16, <1>17, <1>18, <1>19, <1>20 DEF Next, Load,
     Flush, Save, FinalSave, Act

LEMMA MadeStep ==
    ASSUME TypeOK, OnlyMade, [Next]_vars
    PROVE  OnlyMade'
<1> USE DEF TypeOK, Activity, OnlyMade, At, roomVars, lockVars, storeVars,
            auxVars
<1>1. CASE Open \/ LoadCacheMiss \/ Rejoin \/ SaveDropped
  BY <1>1 DEF Open, LoadCacheMiss, Rejoin, SaveDropped
<1>2. CASE LoadCacheHit \/ LoadBind
  BY <1>2 DEF LoadCacheHit, LoadBind, Bind, Buffered
<1>3. CASE LoadState
  BY <1>3 DEF LoadState, Buffered
<1>4. CASE LoadFails \/ LoadRows
  BY <1>4 DEF LoadFails, LoadRows, DbFails
<1>5. ASSUME NEW e \in Edit, MakeEdit(e) PROVE OnlyMade'
  BY <1>5 DEF MakeEdit, Buffered
<1>6. CASE WorkerStart
  BY <1>6 DEF WorkerStart, At, Goto
<1>7. ASSUME NEW s \in Saver, SaveStart(s) PROVE OnlyMade'
  BY <1>7 DEF SaveStart, At, Idle
<1>8. ASSUME NEW s \in Saver, SaveLock(s) \/ SaveUpdateFails(s) PROVE OnlyMade'
  BY <1>8 DEF SaveLock, SaveUpdateFails, At, Goto, SaveEnd, End, Idle, DbFails
<1>9. ASSUME NEW s \in Saver, SaveUncache(s) PROVE OnlyMade'
  BY <1>9 DEF SaveUncache, At, CacheAfterSave, SaveEnd, End, Idle
<1>10. ASSUME NEW a \in Act, Update(a) PROVE OnlyMade'
  BY <1>10 DEF Update
<1>11. ASSUME NEW a \in Act, FlushSkipped(a) \/ FlushDrain(a) PROVE OnlyMade'
  BY <1>11 DEF FlushSkipped, FlushDrain, At, Goto, AfterFlush, Drained
<1>12. ASSUME NEW a \in Act, FlushInsert(a) \/ FlushInsertFails(a) PROVE OnlyMade'
  BY <1>12 DEF FlushInsert, FlushInsertFails, At, DbFails, Lost, AfterFlush
<1>13. ASSUME NEW a \in Act, FlushUncache(a) PROVE OnlyMade'
  BY <1>13 DEF FlushUncache, At, CacheAfterSave, Goto, AfterFlush
<1>14. ASSUME NEW f \in Final, Leave(f) PROVE OnlyMade'
  BY <1>14 DEF Leave, Idle, FinalSnapshot
<1>15. ASSUME NEW f \in Final, FinalUpdateFails(f) PROVE OnlyMade'
  BY <1>15 DEF FinalUpdateFails, At, DbFails, FinalEnds, Idle
<1>16. ASSUME NEW f \in Final, CompactFails(f) PROVE OnlyMade'
  BY <1>16 DEF CompactFails, DbFails, FinalEnds, Idle
<1>17. ASSUME NEW f \in Final, FinalUncache(f) PROVE OnlyMade'
  BY <1>17 DEF FinalUncache, At, CacheAfterSave, Goto
<1>18. ASSUME NEW f \in Final, CompactSelectState(f) \/ CompactSelectRows(f)
       PROVE  OnlyMade'
  BY <1>18 DEF CompactSelectState, CompactSelectRows, At, Merged
<1>19. ASSUME NEW f \in Final, CompactCommit(f) PROVE OnlyMade'
  BY <1>19 DEF CompactCommit, At, Lost, FinalEnds, Idle
<1>20. ASSUME NEW f \in Final, FinalDone(f) PROVE OnlyMade'
  BY <1>20 DEF FinalDone, At, End, Idle
<1>21. CASE UNCHANGED vars
  BY <1>21 DEF vars
<1> QED
  BY <1>1, <1>2, <1>3, <1>4, <1>5, <1>6, <1>7, <1>8, <1>9, <1>10, <1>11, <1>12,
     <1>13, <1>14, <1>15, <1>16, <1>17, <1>18, <1>19, <1>20, <1>21 DEF Next,
     Load, Flush, Save, FinalSave, Act

LEMMA PlacedStep ==
    ASSUME TypeOK, Placed, [Next]_vars
    PROVE  Placed'
<1> USE DEF TypeOK, Activity, Placed, At, roomVars, lockVars, storeVars, auxVars
<1>1. CASE Open \/ LoadCacheMiss \/ Rejoin \/ SaveDropped
  BY <1>1 DEF Open, LoadCacheMiss, Rejoin, SaveDropped
<1>2. CASE LoadCacheHit \/ LoadBind
  BY <1>2 DEF LoadCacheHit, LoadBind, Bind, Buffered
<1>3. CASE LoadState
  BY <1>3 DEF LoadState, Buffered
<1>4. CASE LoadFails \/ LoadRows
  BY <1>4 DEF LoadFails, LoadRows, DbFails
<1>5. ASSUME NEW e \in Edit, MakeEdit(e) PROVE Placed'
  BY <1>5 DEF MakeEdit, Buffered
<1>6. CASE WorkerStart
  BY <1>6 DEF WorkerStart, At, Goto
<1>7. ASSUME NEW s \in Saver, SaveStart(s) PROVE Placed'
  BY <1>7 DEF SaveStart, At, Idle
<1>8. ASSUME NEW s \in Saver, SaveLock(s) \/ SaveUpdateFails(s) PROVE Placed'
  BY <1>8 DEF SaveLock, SaveUpdateFails, At, Goto, SaveEnd, End, Idle, DbFails
<1>9. ASSUME NEW s \in Saver, SaveUncache(s) PROVE Placed'
  BY <1>9 DEF SaveUncache, At, CacheAfterSave, SaveEnd, End, Idle
<1>10. ASSUME NEW a \in Act, Update(a) PROVE Placed'
  BY <1>10 DEF Update
<1>11. ASSUME NEW a \in Act, FlushSkipped(a) \/ FlushDrain(a) PROVE Placed'
  BY <1>11 DEF FlushSkipped, FlushDrain, At, Goto, AfterFlush, Drained
<1>12. ASSUME NEW a \in Act, FlushInsert(a) \/ FlushInsertFails(a) PROVE Placed'
  BY <1>12 DEF FlushInsert, FlushInsertFails, At, DbFails, Lost, AfterFlush
<1>13. ASSUME NEW a \in Act, FlushUncache(a) PROVE Placed'
  BY <1>13 DEF FlushUncache, At, CacheAfterSave, Goto, AfterFlush
<1>14. ASSUME NEW f \in Final, Leave(f) PROVE Placed'
  BY <1>14 DEF Leave, Idle, FinalSnapshot
<1>15. ASSUME NEW f \in Final, FinalUpdateFails(f) PROVE Placed'
  BY <1>15 DEF FinalUpdateFails, At, DbFails, FinalEnds, Idle
<1>16. ASSUME NEW f \in Final, CompactFails(f) PROVE Placed'
  BY <1>16 DEF CompactFails, DbFails, FinalEnds, Idle
<1>17. ASSUME NEW f \in Final, FinalUncache(f) PROVE Placed'
  BY <1>17 DEF FinalUncache, At, CacheAfterSave, Goto
<1>18. ASSUME NEW f \in Final, CompactSelectState(f) \/ CompactSelectRows(f)
       PROVE  Placed'
  BY <1>18 DEF CompactSelectState, CompactSelectRows, At, Merged
<1>19. ASSUME NEW f \in Final, CompactCommit(f) PROVE Placed'
  BY <1>19 DEF CompactCommit, At, Lost, FinalEnds, Idle
<1>20. ASSUME NEW f \in Final, FinalDone(f) PROVE Placed'
  BY <1>20 DEF FinalDone, At, End, Idle
<1>21. CASE UNCHANGED vars
  BY <1>21 DEF vars
<1> QED
  BY <1>1, <1>2, <1>3, <1>4, <1>5, <1>6, <1>7, <1>8, <1>9, <1>10, <1>11, <1>12,
     <1>13, <1>14, <1>15, <1>16, <1>17, <1>18, <1>19, <1>20, <1>21 DEF Next,
     Load, Flush, Save, FinalSave, Act

LEMMA AloneStep ==
    ASSUME TypeOK, Placed, OneAtATime, [Next]_vars
    PROVE  OneAtATime'
<1> USE DEF TypeOK, Activity, Placed, OneAtATime, Running, At, roomVars,
            lockVars, storeVars, auxVars
<1>1. CASE Open \/ LoadCacheMiss \/ Rejoin \/ SaveDropped
  BY <1>1 DEF Open, LoadCacheMiss, Rejoin, SaveDropped
<1>2. CASE LoadCacheHit \/ LoadBind
  BY <1>2 DEF LoadCacheHit, LoadBind, Bind, Buffered
<1>3. CASE LoadState
  BY <1>3 DEF LoadState, Buffered
<1>4. CASE LoadFails \/ LoadRows
  BY <1>4 DEF LoadFails, LoadRows, DbFails
<1>5. ASSUME NEW e \in Edit, MakeEdit(e) PROVE OneAtATime'
  BY <1>5 DEF MakeEdit, Buffered
<1>6. CASE WorkerStart
  BY <1>6 DEF WorkerStart, At, Goto
<1>7. ASSUME NEW s \in Saver, SaveStart(s) PROVE OneAtATime'
  BY <1>7 DEF SaveStart, At, Idle
<1>8. ASSUME NEW s \in Saver, SaveLock(s) \/ SaveUpdateFails(s) PROVE OneAtATime'
  BY <1>8 DEF SaveLock, SaveUpdateFails, At, Goto, SaveEnd, End, Idle, DbFails
<1>9. ASSUME NEW s \in Saver, SaveUncache(s) PROVE OneAtATime'
  BY <1>9 DEF SaveUncache, At, CacheAfterSave, SaveEnd, End, Idle
<1>10. ASSUME NEW a \in Act, Update(a) PROVE OneAtATime'
  BY <1>10 DEF Update
<1>11. ASSUME NEW a \in Act, FlushSkipped(a) \/ FlushDrain(a) PROVE OneAtATime'
  BY <1>11 DEF FlushSkipped, FlushDrain, At, Goto, AfterFlush, Drained
<1>12. ASSUME NEW a \in Act, FlushInsert(a) \/ FlushInsertFails(a) PROVE OneAtATime'
  BY <1>12 DEF FlushInsert, FlushInsertFails, At, DbFails, Lost, AfterFlush
<1>13. ASSUME NEW a \in Act, FlushUncache(a) PROVE OneAtATime'
  BY <1>13 DEF FlushUncache, At, CacheAfterSave, Goto, AfterFlush
<1>14. ASSUME NEW f \in Final, Leave(f) PROVE OneAtATime'
  BY <1>14 DEF Leave, Idle, FinalSnapshot
<1>15. ASSUME NEW f \in Final, FinalUpdateFails(f) \/ CompactFails(f)
       PROVE  OneAtATime'
  BY <1>15 DEF FinalUpdateFails, CompactFails, At, DbFails, FinalEnds, Idle
<1>16. ASSUME NEW f \in Final, FinalUncache(f) PROVE OneAtATime'
  BY <1>16 DEF FinalUncache, At, CacheAfterSave, Goto
<1>17. ASSUME NEW f \in Final, CompactSelectState(f) \/ CompactSelectRows(f)
       PROVE  OneAtATime'
  BY <1>17 DEF CompactSelectState, CompactSelectRows, At, Merged
<1>18. ASSUME NEW f \in Final, CompactCommit(f) PROVE OneAtATime'
  BY <1>18 DEF CompactCommit, At, Lost, FinalEnds, Idle
<1>19. ASSUME NEW f \in Final, FinalDone(f) PROVE OneAtATime'
  BY <1>19 DEF FinalDone, At, End, Idle
<1>20. CASE UNCHANGED vars
  BY <1>20 DEF vars
<1> QED
  BY <1>1, <1>2, <1>3, <1>4, <1>5, <1>6, <1>7, <1>8, <1>9, <1>10, <1>11, <1>12,
     <1>13, <1>14, <1>15, <1>16, <1>17, <1>18, <1>19, <1>20 DEF Next, Load,
     Flush, Save, FinalSave, Act

LEMMA GivenUpStep ==
    ASSUME TypeOK, OnlyMade, Placed, OneAtATime, NothingGivenUp, [Next]_vars
    PROVE  NothingGivenUp'
<1> USE DEF TypeOK, Activity, OnlyMade, Placed, OneAtATime, NothingGivenUp,
            Running, InHand, At, roomVars, lockVars, storeVars, auxVars
<1>1. CASE Open \/ LoadCacheMiss \/ Rejoin \/ SaveDropped
  BY <1>1 DEF Open, LoadCacheMiss, Rejoin, SaveDropped
<1>2. CASE LoadCacheHit
  BY <1>2 DEF LoadCacheHit, Bind, Buffered
<1>3. CASE LoadBind
  BY <1>3 DEF LoadBind, Bind, Buffered
<1>4. CASE LoadState
  BY <1>4 DEF LoadState, Buffered
<1>5. CASE LoadFails
  BY <1>5 DEF LoadFails, DbFails
<1>6. CASE LoadRows
  BY <1>6 DEF LoadRows, DbFails
<1>7. ASSUME NEW e \in Edit, MakeEdit(e) PROVE NothingGivenUp'
  BY <1>7 DEF MakeEdit, Buffered
<1>8. CASE WorkerStart
  BY <1>8 DEF WorkerStart, At, Goto
<1>9. ASSUME NEW s \in Saver, SaveStart(s) PROVE NothingGivenUp'
  BY <1>9 DEF SaveStart, At, Idle
<1>10. ASSUME NEW s \in Saver, SaveLock(s) \/ SaveUpdateFails(s)
       PROVE  NothingGivenUp'
  BY <1>10 DEF SaveLock, SaveUpdateFails, At, Goto, SaveEnd, End, Idle, DbFails
<1>11. ASSUME NEW s \in Saver, SaveUncache(s) PROVE NothingGivenUp'
  BY <1>11 DEF SaveUncache, At, CacheAfterSave, SaveEnd, End, Idle
<1>12. ASSUME NEW a \in Act, Update(a) PROVE NothingGivenUp'
  BY <1>12 DEF Update
<1>13. ASSUME NEW a \in Act, FlushSkipped(a) \/ FlushDrain(a) PROVE NothingGivenUp'
  BY <1>13 DEF FlushSkipped, FlushDrain, At, Goto, AfterFlush, Drained
<1>14. ASSUME NEW a \in Act, FlushInsert(a) \/ FlushInsertFails(a)
       PROVE  NothingGivenUp'
  BY <1>14 DEF FlushInsert, FlushInsertFails, At, DbFails, Lost, AfterFlush
<1>15. ASSUME NEW a \in Act, FlushUncache(a) PROVE NothingGivenUp'
  BY <1>15 DEF FlushUncache, At, CacheAfterSave, Goto, AfterFlush
<1>16. ASSUME NEW f \in Final, Leave(f) PROVE NothingGivenUp'
  BY <1>16 DEF Leave, Idle, FinalSnapshot
<1>17. ASSUME NEW f \in Final, FinalUpdateFails(f) PROVE NothingGivenUp'
  BY <1>17 DEF FinalUpdateFails, At, DbFails, FinalEnds, Idle
<1>18. ASSUME NEW f \in Final, CompactFails(f) PROVE NothingGivenUp'
  BY <1>18 DEF CompactFails, DbFails, FinalEnds, Idle
<1>19. ASSUME NEW f \in Final, FinalUncache(f) PROVE NothingGivenUp'
  BY <1>19 DEF FinalUncache, At, CacheAfterSave, Goto
<1>20. ASSUME NEW f \in Final, CompactSelectState(f) \/ CompactSelectRows(f)
       PROVE  NothingGivenUp'
  BY <1>20 DEF CompactSelectState, CompactSelectRows, At, Merged
<1>21. ASSUME NEW f \in Final, CompactCommit(f) PROVE NothingGivenUp'
  BY <1>21 DEF CompactCommit, At, Lost, FinalEnds, Idle
<1>22. ASSUME NEW f \in Final, FinalDone(f) PROVE NothingGivenUp'
  BY <1>22 DEF FinalDone, At, End, Idle
<1>23. CASE UNCHANGED vars
  BY <1>23 DEF vars
<1> QED
  BY <1>1, <1>2, <1>3, <1>4, <1>5, <1>6, <1>7, <1>8, <1>9, <1>10, <1>11, <1>12,
     <1>13, <1>14, <1>15, <1>16, <1>17, <1>18, <1>19, <1>20, <1>21, <1>22, <1>23
     DEF Next, Load, Flush, Save, FinalSave, Act

LEMMA SavedStep ==
    ASSUME TypeOK, OnlyMade, Placed, OneAtATime, NothingGivenUp, EmptyRoomIsSaved,
           [Next]_vars
    PROVE  EmptyRoomIsSaved'
<1> USE DEF TypeOK, Activity, OnlyMade, Placed, OneAtATime, NothingGivenUp,
            EmptyRoomIsSaved, Running, InHand, At, roomVars, lockVars,
            storeVars, auxVars
<1>1. CASE Open \/ LoadCacheMiss \/ Rejoin \/ SaveDropped
  BY <1>1 DEF Open, LoadCacheMiss, Rejoin, SaveDropped
<1>2. CASE LoadCacheHit \/ LoadBind
  BY <1>2 DEF LoadCacheHit, LoadBind, Bind, Buffered
<1>3. CASE LoadState
  BY <1>3 DEF LoadState, Buffered
<1>4. CASE LoadFails \/ LoadRows
  BY <1>4 DEF LoadFails, LoadRows, DbFails
<1>5. ASSUME NEW e \in Edit, MakeEdit(e) PROVE EmptyRoomIsSaved'
  BY <1>5 DEF MakeEdit, Buffered
<1>6. CASE WorkerStart
  BY <1>6 DEF WorkerStart, At, Goto
<1>7. ASSUME NEW s \in Saver, SaveStart(s) PROVE EmptyRoomIsSaved'
  BY <1>7 DEF SaveStart, At, Idle
<1>8. ASSUME NEW s \in Saver, SaveLock(s) \/ SaveUpdateFails(s)
      PROVE  EmptyRoomIsSaved'
  BY <1>8 DEF SaveLock, SaveUpdateFails, At, Goto, SaveEnd, End, Idle, DbFails
<1>9. ASSUME NEW s \in Saver, SaveUncache(s) PROVE EmptyRoomIsSaved'
  BY <1>9 DEF SaveUncache, At, CacheAfterSave, SaveEnd, End, Idle
<1>10. ASSUME NEW a \in Act, Update(a) PROVE EmptyRoomIsSaved'
  BY <1>10 DEF Update
<1>11. ASSUME NEW a \in Act, FlushSkipped(a) \/ FlushDrain(a)
       PROVE  EmptyRoomIsSaved'
  BY <1>11 DEF FlushSkipped, FlushDrain, At, Goto, AfterFlush, Drained
<1>12. ASSUME NEW a \in Act, FlushInsert(a) \/ FlushInsertFails(a)
       PROVE  EmptyRoomIsSaved'
  BY <1>12 DEF FlushInsert, FlushInsertFails, At, DbFails, Lost, AfterFlush
<1>13. ASSUME NEW a \in Act, FlushUncache(a) PROVE EmptyRoomIsSaved'
  BY <1>13 DEF FlushUncache, At, CacheAfterSave, Goto, AfterFlush
<1>14. ASSUME NEW f \in Final, Leave(f) PROVE EmptyRoomIsSaved'
  BY <1>14 DEF Leave, Idle, FinalSnapshot
<1>15. ASSUME NEW f \in Final, FinalUpdateFails(f) \/ CompactFails(f)
       PROVE  EmptyRoomIsSaved'
  BY <1>15 DEF FinalUpdateFails, CompactFails, At, DbFails, FinalEnds, Idle
<1>16. ASSUME NEW f \in Final, FinalUncache(f) PROVE EmptyRoomIsSaved'
  BY <1>16 DEF FinalUncache, At, CacheAfterSave, Goto
<1>17. ASSUME NEW f \in Final, CompactSelectState(f) \/ CompactSelectRows(f)
       PROVE  EmptyRoomIsSaved'
  BY <1>17 DEF CompactSelectState, CompactSelectRows, At, Merged
<1>18. ASSUME NEW f \in Final, CompactCommit(f) PROVE EmptyRoomIsSaved'
  BY <1>18 DEF CompactCommit, At, Lost, FinalEnds, Idle
<1>19. ASSUME NEW f \in Final, FinalDone(f) PROVE EmptyRoomIsSaved'
  BY <1>19 DEF FinalDone, At, End, Idle
<1>20. CASE UNCHANGED vars
  BY <1>20 DEF vars
<1> QED
  BY <1>1, <1>2, <1>3, <1>4, <1>5, <1>6, <1>7, <1>8, <1>9, <1>10, <1>11, <1>12,
     <1>13, <1>14, <1>15, <1>16, <1>17, <1>18, <1>19, <1>20 DEF Next, Load,
     Flush, Save, FinalSave, Act

LEMMA PersistenceStarts == Init => TypeOK /\ PersistenceInv
<1> SUFFICES ASSUME Init PROVE TypeOK /\ PersistenceInv
  OBVIOUS
<1>1. Idle \in Activity
  BY DEF Idle, Activity, Step
<1>2. TypeOK
  <2>1. /\ act \in [Act -> Activity] /\ failures \in 0..MaxFailures
        /\ cache \in (SUBSET Edit) \cup {None}
    BY <1>1 DEF Init
  <2> QED
    BY <2>1 DEF Init, TypeOK
<1>3. SavingIsReleased /\ OnlyMade /\ Placed
  BY DEF Init, SavingIsReleased, OnlyMade, Placed, At, Idle
<1>4. Running = {}
  BY DEF Init, Running, Idle
<1>5. NothingGivenUp
  BY DEF Init, NothingGivenUp, Idle
<1>6. EmptyRoomIsSaved
  BY DEF Init, EmptyRoomIsSaved, At, Idle
<1> QED
  BY <1>2, <1>3, <1>4, <1>5, <1>6 DEF PersistenceInv, OneAtATime

(* Types and the inductive invariant of the edits' ways to PostgreSQL:     *)
(* executeSave, performFinalSave, the write-behind flush and compaction.   *)
THEOREM PersistenceInvariant == Spec => [](TypeOK /\ PersistenceInv)
<1>1. TypeOK /\ PersistenceInv /\ [Next]_vars => TypeOK' /\ PersistenceInv'
  <2> SUFFICES ASSUME TypeOK, PersistenceInv, [Next]_vars
               PROVE  TypeOK' /\ PersistenceInv'
    OBVIOUS
  <2>1. /\ SavingIsReleased /\ OnlyMade /\ Placed /\ OneAtATime
        /\ NothingGivenUp /\ EmptyRoomIsSaved
    BY DEF PersistenceInv
  <2>2. TypeOK' /\ SavingIsReleased' /\ OnlyMade' /\ Placed'
    BY <2>1, TypeStep, ReleasedStep, MadeStep, PlacedStep
  <2>3. OneAtATime' /\ NothingGivenUp' /\ EmptyRoomIsSaved'
    BY <2>1, AloneStep, GivenUpStep, SavedStep
  <2> QED
    BY <2>2, <2>3 DEF PersistenceInv
<1> QED
  BY <1>1, PersistenceStarts, PTL DEF Spec

(* "Guarantees zero data loss when rooms are reclaimed", as far as saves   *)
(* that do not overlap can: an edit is stored, buffered, or was dropped by *)
(* an INSERT that failed or a compaction that had not read it.             *)
THEOREM SavesLoseNothing == Spec => []SequentialSavesLoseNothing
<1>1. TypeOK /\ PersistenceInv => SequentialSavesLoseNothing
  <2> SUFFICES ASSUME TypeOK, PersistenceInv, RedisUp \/ failures = 0,
                      ~overlapped, ~stale, Quiet
               PROVE  made \subseteq state \cup rows \cup buffer \cup dropped
    BY DEF SequentialSavesLoseNothing
  <2>1. CASE RedisUp
    <3>1. InHand = {}
      BY DEF PersistenceInv, Placed, Quiet, At, InHand
    <3> QED
      BY <2>1, <3>1 DEF PersistenceInv, NothingGivenUp
  <2>2. CASE failures = 0
    BY <2>2 DEF PersistenceInv, EmptyRoomIsSaved, Quiet
  <2> QED
    BY <2>1, <2>2
<1> QED
  BY <1>1, PersistenceInvariant, PTL

(* While no statement fails and saves do not overlap, the loader finds all *)
(* edits, in the cache or in files and file_updates.                       *)
THEOREM RoomsOpenComplete == Spec => []SequentialRoomsOpenComplete
<1>1. PersistenceInv => SequentialRoomsOpenComplete
  BY DEF PersistenceInv, EmptyRoomIsSaved, SequentialRoomsOpenComplete
<1> QED
  BY <1>1, PersistenceInvariant, PTL

(* isSaving is set just while the run of executeSave that set it runs. *)
THEOREM SaverStaysSound == Spec => []SaverIsSound
<1>1. TypeOK /\ PersistenceInv => SaverIsSound
  BY DEF PersistenceInv, SaverIsSound
<1> QED
  BY <1>1, PersistenceInvariant, PTL
===============================================================================
