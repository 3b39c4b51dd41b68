-------------------------- MODULE CollaborationProofs --------------------------
(***************************************************************************)
(* Proofs about what keeps the editors of one file together.  In a pod,    *)
(* for any set of connections to its room (DocRoom): types, the exactness  *)
(* of the pendingConns counter, that a final save never takes a document   *)
(* away from a client, that somebody always holds the registered document, *)
(* and that it is not given back with unsaved edits.  Between the pods,    *)
(* for any pods, sockets and bounds: the lock they share                   *)
(* (DistributedLock), the updates (RedisMesh) and cursors (AwarenessMesh)  *)
(* that travel over Redis.  And the composition of MCCollaboration, each   *)
(* of whose behaviours is one of each part.                                *)
(***************************************************************************)
EXTENDS MCCollaboration, FiniteSetTheorems, SequenceTheorems, TLAPS

-----------------------------------------------------------------------------
(* The room. *)

(* CloseRoom, the tail shared by the two ways a socket leaves, keeps types. *)
LEMMA CloseRoomTypes ==
    ASSUME TypeOK, NEW c \in Conn, NEW left, NEW stillPending,
           docOf[c] \in Conn,
           CloseRoom(c, docOf[c], left, stillPending)
    PROVE  /\ registry' \in Conn \cup {NoDoc}
           /\ destroyed' \in [Conn -> BOOLEAN]
           /\ unsaved' \in [Conn -> BOOLEAN]
           /\ saving' \in [Conn -> Nat]
<1>1. CASE LastOneOut(docOf[c], left, stillPending) /\ evicted[docOf[c]]
  BY <1>1 DEF CloseRoom, LastOneOut, TypeOK
<1>2. CASE LastOneOut(docOf[c], left, stillPending) /\ ~evicted[docOf[c]]
  <2>1. saving[c] \in Nat /\ saving[c] + 1 \in Nat
    BY DEF TypeOK
  <2>2. /\ saving' = [saving EXCEPT ![c] = saving[c] + 1]
        /\ unsaved' = [unsaved EXCEPT ![docOf[c]] = FALSE]
        /\ UNCHANGED <<registry, destroyed>>
    BY <1>2 DEF CloseRoom
  <2>3. saving' \in [Conn -> Nat]
    BY <2>1, <2>2 DEF TypeOK
  <2>4. unsaved' \in [Conn -> BOOLEAN]
    BY <2>2 DEF TypeOK
  <2> QED
    BY <2>2, <2>3, <2>4 DEF TypeOK
<1>3. CASE ~LastOneOut(docOf[c], left, stillPending)
  BY <1>3 DEF CloseRoom, LastOneOut, TypeOK
<1> QED
  BY <1>1, <1>2, <1>3

(* pendingConns can only be given back by a handler that counted itself. *)
LEMMA PendingPositive ==
    ASSUME TypeOK, PendingExact, NEW c \in Conn, phase[c] = "waiting"
    PROVE  /\ pending \in Nat \ {0}
           /\ IsFiniteSet(Waiting)
<1>1. IsFiniteSet(Waiting)
  BY ConnAssumption, FS_Subset DEF Waiting
<1>2. Waiting # {}
  BY DEF Waiting
<1> QED
  BY <1>1, <1>2, FS_EmptySet DEF PendingExact, TypeOK

(* A pending count of zero means that no handler is waiting. *)
LEMMA PendingZero ==
    ASSUME TypeOK, PendingExact, pending = 0
    PROVE  Waiting = {}
<1>1. IsFiniteSet(Waiting)
  BY ConnAssumption, FS_Subset DEF Waiting
<1> QED
  BY <1>1, FS_EmptySet DEF PendingExact

(* One step keeps every variable in its type. *)
LEMMA TypeStep ==
    ASSUME TypeOK, RoomInv, [Next]_vars
    PROVE  TypeOK'
<1> USE ConnAssumption, MaxEvictsAssumption
<1>1. ASSUME NEW c \in Conn, Connect(c) PROVE TypeOK'
  BY <1>1 DEF TypeOK, Connect, Phase, SocketState, docVars, evictVars
<1>2. ASSUME NEW c \in Conn, Authorize(c) PROVE TypeOK'
  BY <1>2 DEF TypeOK, Authorize, Phase, docVars, evictVars
<1>3. ASSUME NEW c \in Conn, Reject(c) PROVE TypeOK'
  BY <1>3 DEF TypeOK, Reject, Phase, SocketState, docVars, evictVars
<1>4. ASSUME NEW c \in Conn, AcquireDoc(c) PROVE TypeOK'
  BY <1>4 DEF TypeOK, AcquireDoc, PendingAfterAcquire, Phase, evictVars
<1>5. ASSUME NEW c \in Conn, LoadDone(c) PROVE TypeOK'
  BY <1>5 DEF TypeOK, LoadDone, connVars, evictVars
<1>6. ASSUME NEW c \in Conn, Join(c) PROVE TypeOK'
  <2>1. pending \in Nat \ {0} /\ docOf[c] \in Conn
    BY <1>6, PendingPositive DEF Join, RoomInv, HandlersHoldDocs
  <2> QED
    BY <1>6, <2>1 DEF TypeOK, Join, PendingAfterJoin, Phase, evictVars
<1>7. ASSUME NEW c \in Conn, JoinGone(c) PROVE TypeOK'
  <2>1. pending \in Nat \ {0} /\ docOf[c] \in Conn
    BY <1>7, PendingPositive DEF JoinGone, RoomInv, HandlersHoldDocs
  <2>2. /\ registry' \in Conn \cup {NoDoc}
        /\ destroyed' \in [Conn -> BOOLEAN]
        /\ unsaved' \in [Conn -> BOOLEAN]
        /\ saving' \in [Conn -> Nat]
    BY <1>7, <2>1, CloseRoomTypes DEF JoinGone
  <2> QED
    <3>1. phase' \in [Conn -> Phase] /\ pending' \in Nat
      BY <1>7, <2>1 DEF TypeOK, JoinGone, PendingAfterJoin, Phase
    <3>2. conns' \in [Conn -> SUBSET Conn]
      BY <1>7, <2>1 DEF TypeOK, JoinGone
    <3> QED
      BY <1>7, <2>2, <3>1, <3>2 DEF TypeOK, JoinGone, evictVars
<1>8. ASSUME NEW c \in Conn, Edit(c) PROVE TypeOK'
  BY <1>8 DEF TypeOK, Edit, connVars, evictVars
<1>9. ASSUME NEW c \in Conn, ServerClose(c) PROVE TypeOK'
  BY <1>9 DEF TypeOK, ServerClose, SocketState, docVars, evictVars
<1>10. ASSUME NEW c \in Conn, PeerGone(c) PROVE TypeOK'
  BY <1>10 DEF TypeOK, PeerGone, SocketState, docVars, evictVars
<1>11. ASSUME NEW c \in Conn, CloseEvent(c) PROVE TypeOK'
  <2>1. CASE phase[c] = "attached"
    <3>1. docOf[c] \in Conn
      BY <2>1 DEF RoomInv, HandlersHoldDocs
    <3>2. /\ registry' \in Conn \cup {NoDoc}
          /\ destroyed' \in [Conn -> BOOLEAN]
          /\ unsaved' \in [Conn -> BOOLEAN]
          /\ saving' \in [Conn -> Nat]
      BY <1>11, <2>1, <3>1, CloseRoomTypes DEF CloseEvent
    <3> QED
      <4>1. socket' \in [Conn -> SocketState]
        BY <1>11 DEF TypeOK, CloseEvent, SocketState
      <4>2. conns' \in [Conn -> SUBSET Conn]
        BY <1>11, <2>1, <3>1 DEF TypeOK, CloseEvent
      <4> QED
        BY <1>11, <3>2, <4>1, <4>2 DEF TypeOK, CloseEvent, evictVars
  <2>2. CASE phase[c] # "attached"
    BY <1>11, <2>2 DEF TypeOK, CloseEvent, SocketState, evictVars
  <2> QED
    BY <2>1, <2>2
<1>12. ASSUME NEW c \in Conn, FinalSaveDone(c) PROVE TypeOK'
  <2>1. saving[c] - 1 \in Nat
    BY <1>12 DEF TypeOK, FinalSaveDone
  <2>2. saving' \in [Conn -> Nat]
    BY <1>12, <2>1 DEF TypeOK, FinalSaveDone
  <2>3. registry' \in Conn \cup {NoDoc} /\ destroyed' \in [Conn -> BOOLEAN]
    BY <1>12 DEF TypeOK, FinalSaveDone
  <2> QED
    BY <1>12, <2>2, <2>3 DEF TypeOK, FinalSaveDone, connVars, evictVars
<1>13. CASE DeleteWorkspace
  BY <1>13 DEF TypeOK, DeleteWorkspace, connVars, docVars
<1>14. CASE EvictStart
  BY <1>14 DEF TypeOK, EvictStart, connVars, docVars
<1>15. CASE EvictFinish
  BY <1>15 DEF TypeOK, EvictFinish, SocketState
<1>16. CASE UNCHANGED vars
  BY <1>16 DEF TypeOK, vars, connVars, docVars, evictVars
<1> QED
  BY <1>1, <1>2, <1>3, <1>4, <1>5, <1>6, <1>7, <1>8, <1>9, <1>10, <1>11, <1>12,
     <1>13, <1>14, <1>15, <1>16 DEF Next

(* pendingConns is exact after every step: the finally block gives back    *)
(* what the same handler took.                                             *)
LEMMA PendingStep ==
    ASSUME TypeOK, RoomInv, [Next]_vars
    PROVE  PendingExact'
<1> USE ConnAssumption
<1>0. IsFiniteSet(Waiting) /\ pending = Cardinality(Waiting)
  BY FS_Subset DEF Waiting, RoomInv, PendingExact
<1>1. ASSUME NEW c \in Conn, AcquireDoc(c) PROVE PendingExact'
  <2>1. Waiting' = Waiting \cup {c} /\ c \notin Waiting
    BY <1>1 DEF AcquireDoc, Waiting, TypeOK
  <2>2. Cardinality(Waiting') = Cardinality(Waiting) + 1
    BY <1>0, <2>1, FS_AddElement
  <2> QED
    BY <1>0, <1>1, <2>2 DEF AcquireDoc, PendingAfterAcquire, PendingExact
<1>2. ASSUME NEW c \in Conn, Join(c) \/ JoinGone(c) PROVE PendingExact'
  <2>1. Waiting' = Waiting \ {c} /\ c \in Waiting
    BY <1>2 DEF Join, JoinGone, Waiting, TypeOK
  <2>2. Cardinality(Waiting') = Cardinality(Waiting) - 1
    BY <1>0, <2>1, FS_RemoveElement
  <2> QED
    BY <1>0, <1>2, <2>2 DEF Join, JoinGone, PendingAfterJoin, PendingExact
<1>3. CASE Waiting' = Waiting /\ pending' = pending
  BY <1>0, <1>3 DEF PendingExact
<1>4. ASSUME NEW c \in Conn, Connect(c) \/ Authorize(c) \/ Reject(c)
      PROVE  Waiting' = Waiting /\ pending' = pending
  BY <1>4 DEF Connect, Authorize, Reject, Waiting, TypeOK
<1>5. ASSUME UNCHANGED <<phase, pending>>
      PROVE  Waiting' = Waiting /\ pending' = pending
  BY <1>5 DEF Waiting
<1>6. ASSUME NEW c \in Conn,
             \/ LoadDone(c) \/ Edit(c) \/ ServerClose(c)
             \/ PeerGone(c) \/ CloseEvent(c) \/ FinalSaveDone(c)
      PROVE  UNCHANGED <<phase, pending>>
  BY <1>6 DEF LoadDone, Edit, ServerClose, PeerGone, CloseEvent,
     FinalSaveDone, connVars
<1>7. ASSUME DeleteWorkspace \/ EvictStart \/ EvictFinish \/ UNCHANGED vars
      PROVE  UNCHANGED <<phase, pending>>
  BY <1>7 DEF DeleteWorkspace, EvictStart, EvictFinish, vars, connVars
<1> QED
  BY <1>1, <1>2, <1>3, <1>4, <1>5, <1>6, <1>7 DEF Next

(* One step keeps the rest of the inductive invariant. *)
LEMMA RoomStep ==
    ASSUME TypeOK, RoomInv, [Next]_vars
    PROVE  /\ HandlersHoldDocs'
           /\ ConnsMatchSockets'
           /\ RegistryOffersLiveDocs'
           /\ ReclaimedHasNoWaiter'
<1> DEFINE Rest == /\ HandlersHoldDocs
                   /\ ConnsMatchSockets
                   /\ RegistryOffersLiveDocs
                   /\ ReclaimedHasNoWaiter
<1> USE ConnAssumption
<1>1. ASSUME NEW c \in Conn, Connect(c) PROVE Rest'
  <2>1. HandlersHoldDocs'
    BY <1>1 DEF Connect, RoomInv, HandlersHoldDocs, TypeOK, docVars
  <2>2. ConnsMatchSockets'
    BY <1>1 DEF Connect, RoomInv, ConnsMatchSockets, docVars
  <2>3. RegistryOffersLiveDocs'
    BY <1>1 DEF Connect, RoomInv, RegistryOffersLiveDocs, docVars, evictVars
  <2>4. ReclaimedHasNoWaiter'
    BY <1>1 DEF Connect, RoomInv, ReclaimedHasNoWaiter, Waiting, docVars
  <2> QED
    BY <2>1, <2>2, <2>3, <2>4
<1>2. ASSUME NEW c \in Conn, Authorize(c) PROVE Rest'
  <2>1. HandlersHoldDocs'
    BY <1>2 DEF Authorize, RoomInv, HandlersHoldDocs, docVars
  <2>2. ConnsMatchSockets'
    BY <1>2 DEF Authorize, RoomInv, ConnsMatchSockets, docVars
  <2>3. RegistryOffersLiveDocs'
    BY <1>2 DEF Authorize, RoomInv, RegistryOffersLiveDocs, docVars, evictVars
  <2>4. ReclaimedHasNoWaiter'
    BY <1>2 DEF Authorize, RoomInv, ReclaimedHasNoWaiter, Waiting, docVars
  <2> QED
    BY <2>1, <2>2, <2>3, <2>4
<1>3. ASSUME NEW c \in Conn, Reject(c) PROVE Rest'
  <2>1. HandlersHoldDocs'
    BY <1>3 DEF Reject, RoomInv, HandlersHoldDocs, TypeOK, docVars
  <2>2. ConnsMatchSockets'
    BY <1>3 DEF Reject, RoomInv, ConnsMatchSockets, docVars
  <2>3. RegistryOffersLiveDocs'
    BY <1>3 DEF Reject, RoomInv, RegistryOffersLiveDocs, docVars, evictVars
  <2>4. ReclaimedHasNoWaiter'
    BY <1>3 DEF Reject, RoomInv, ReclaimedHasNoWaiter, Waiting, docVars
  <2> QED
    BY <2>1, <2>2, <2>3, <2>4
<1>4. ASSUME NEW c \in Conn, AcquireDoc(c) PROVE Rest'
  <2>1. HandlersHoldDocs'
    BY <1>4 DEF AcquireDoc, RoomInv, HandlersHoldDocs,
       RegistryOffersLiveDocs, TypeOK
  <2>2. ConnsMatchSockets'
    BY <1>4 DEF AcquireDoc, RoomInv, ConnsMatchSockets, TypeOK
  <2>3. RegistryOffersLiveDocs'
    BY <1>4 DEF AcquireDoc, RoomInv, RegistryOffersLiveDocs,
       HandlersHoldDocs, TypeOK, evictVars
  <2>4. ReclaimedHasNoWaiter'
    BY <1>4 DEF AcquireDoc, RoomInv, ReclaimedHasNoWaiter,
       RegistryOffersLiveDocs, HandlersHoldDocs, TypeOK, Waiting
  <2> QED
    BY <2>1, <2>2, <2>3, <2>4
<1>5. ASSUME NEW c \in Conn, LoadDone(c) PROVE Rest'
  <2>1. HandlersHoldDocs'
    BY <1>5 DEF LoadDone, RoomInv, HandlersHoldDocs, connVars
  <2>2. ConnsMatchSockets'
    BY <1>5 DEF LoadDone, RoomInv, ConnsMatchSockets, connVars
  <2>3. RegistryOffersLiveDocs'
    BY <1>5 DEF LoadDone, RoomInv, RegistryOffersLiveDocs, evictVars
  <2>4. ReclaimedHasNoWaiter'
    BY <1>5 DEF LoadDone, RoomInv, ReclaimedHasNoWaiter, Waiting, connVars
  <2> QED
    BY <2>1, <2>2, <2>3, <2>4
<1>6. ASSUME NEW c \in Conn, Join(c) PROVE Rest'
  <2>1. HandlersHoldDocs'
    BY <1>6 DEF Join, RoomInv, HandlersHoldDocs
  <2>2. ConnsMatchSockets'
    BY <1>6 DEF Join, RoomInv, ConnsMatchSockets, TypeOK
  <2>3. RegistryOffersLiveDocs'
    BY <1>6 DEF Join, RoomInv, RegistryOffersLiveDocs, evictVars
  <2>4. ReclaimedHasNoWaiter'
    BY <1>6 DEF Join, RoomInv, ReclaimedHasNoWaiter, Waiting
  <2> QED
    BY <2>1, <2>2, <2>3, <2>4
<1>7. ASSUME NEW c \in Conn, JoinGone(c) PROVE Rest'
  <2>1. HandlersHoldDocs'
    BY <1>7 DEF JoinGone, CloseRoom, RoomInv, HandlersHoldDocs, TypeOK
  <2>2. ConnsMatchSockets'
    <3>1. /\ phase' = [phase EXCEPT ![c] = "attached"]
          /\ conns' = [conns EXCEPT ![docOf[c]] = @ \ {c}]
          /\ UNCHANGED <<socket, docOf, evicted>>
      BY <1>7 DEF JoinGone
    <3>2. /\ phase[c] = "waiting" /\ docOf[c] \in Conn
          /\ socket[c] \notin {"open", "closing"}
      BY <1>7 DEF JoinGone, RoomInv, HandlersHoldDocs
    <3> SUFFICES ASSUME NEW x \in Conn, NEW d \in Conn
                 PROVE  /\ x \in conns'[d] => /\ phase'[x] = "attached" /\ docOf[x] = d
                                             /\ socket[x] \in {"open", "closing", "leaving"}
                        /\ phase'[x] = "attached" /\ docOf[x] = d /\ ~evicted[d]
                             /\ socket[x] \in {"open", "closing"} => x \in conns'[d]
      BY <3>1 DEF ConnsMatchSockets
    <3> QED
      BY <3>1, <3>2 DEF RoomInv, ConnsMatchSockets
  <2>3. RegistryOffersLiveDocs'
    BY <1>7 DEF JoinGone, CloseRoom, RoomInv, RegistryOffersLiveDocs,
       TypeOK, evictVars
  <2>4. ReclaimedHasNoWaiter'
    BY <1>7 DEF JoinGone, CloseRoom, RoomInv, ReclaimedHasNoWaiter, TypeOK,
       Waiting
  <2> QED
    BY <2>1, <2>2, <2>3, <2>4
<1>8. ASSUME NEW c \in Conn, Edit(c) PROVE Rest'
  <2>1. HandlersHoldDocs'
    BY <1>8 DEF Edit, RoomInv, HandlersHoldDocs, connVars
  <2>2. ConnsMatchSockets'
    BY <1>8 DEF Edit, RoomInv, ConnsMatchSockets, connVars
  <2>3. RegistryOffersLiveDocs'
    BY <1>8 DEF Edit, RoomInv, RegistryOffersLiveDocs, evictVars
  <2>4. ReclaimedHasNoWaiter'
    BY <1>8 DEF Edit, RoomInv, ReclaimedHasNoWaiter, Waiting, connVars
  <2> QED
    BY <2>1, <2>2, <2>3, <2>4
<1>9. ASSUME NEW c \in Conn, ServerClose(c) PROVE Rest'
  <2>1. HandlersHoldDocs'
    BY <1>9 DEF ServerClose, RoomInv, HandlersHoldDocs, docVars
  <2>2. ConnsMatchSockets'
    BY <1>9 DEF ServerClose, RoomInv, ConnsMatchSockets, docVars
  <2>3. RegistryOffersLiveDocs'
    BY <1>9 DEF ServerClose, RoomInv, RegistryOffersLiveDocs, docVars,
       evictVars
  <2>4. ReclaimedHasNoWaiter'
    BY <1>9 DEF ServerClose, RoomInv, ReclaimedHasNoWaiter, Waiting, docVars
  <2> QED
    BY <2>1, <2>2, <2>3, <2>4
<1>10. ASSUME NEW c \in Conn, PeerGone(c) PROVE Rest'
  <2>1. HandlersHoldDocs'
    BY <1>10 DEF PeerGone, RoomInv, HandlersHoldDocs, docVars
  <2>2. ConnsMatchSockets'
    BY <1>10 DEF PeerGone, RoomInv, ConnsMatchSockets, docVars
  <2>3. RegistryOffersLiveDocs'
    BY <1>10 DEF PeerGone, RoomInv, RegistryOffersLiveDocs, docVars, evictVars
  <2>4. ReclaimedHasNoWaiter'
    BY <1>10 DEF PeerGone, RoomInv, ReclaimedHasNoWaiter, Waiting, docVars
  <2> QED
    BY <2>1, <2>2, <2>3, <2>4
<1>11. ASSUME NEW c \in Conn, CloseEvent(c) PROVE Rest'
  <2>1. HandlersHoldDocs'
    BY <1>11 DEF CloseEvent, CloseRoom, RoomInv, HandlersHoldDocs, TypeOK
  <2>2. ConnsMatchSockets'
    BY <1>11 DEF CloseEvent, RoomInv, ConnsMatchSockets, TypeOK
  <2>3. RegistryOffersLiveDocs'
    BY <1>11 DEF CloseEvent, CloseRoom, RoomInv, RegistryOffersLiveDocs,
       TypeOK, evictVars
  <2>4. ReclaimedHasNoWaiter'
    BY <1>11 DEF CloseEvent, CloseRoom, RoomInv, ReclaimedHasNoWaiter,
       TypeOK, Waiting
  <2> QED
    BY <2>1, <2>2, <2>3, <2>4
<1>12. ASSUME NEW c \in Conn, FinalSaveDone(c) PROVE Rest'
  <2>1. HandlersHoldDocs'
    BY <1>12 DEF FinalSaveDone, RoomInv, HandlersHoldDocs, connVars
  <2>2. ConnsMatchSockets'
    BY <1>12 DEF FinalSaveDone, RoomInv, ConnsMatchSockets, connVars
  <2>3. RegistryOffersLiveDocs'
    BY <1>12 DEF FinalSaveDone, RoomInv, RegistryOffersLiveDocs,
       HandlersHoldDocs, TypeOK, evictVars
  <2>4. ReclaimedHasNoWaiter'
    <3>1. pending = 0 => Waiting = {}
      BY PendingZero DEF RoomInv
    <3>2. docOf[c] \in Conn /\ load[docOf[c]] = "done"
      BY <1>12 DEF FinalSaveDone, RoomInv, HandlersHoldDocs
    <3> QED
      BY <1>12, <3>1, <3>2 DEF FinalSaveDone, CanReclaim, RoomInv,
         ReclaimedHasNoWaiter, TypeOK, Waiting, connVars
  <2> QED
    BY <2>1, <2>2, <2>3, <2>4
<1>13. CASE DeleteWorkspace
  <2>1. HandlersHoldDocs'
    BY <1>13 DEF DeleteWorkspace, RoomInv, HandlersHoldDocs, connVars, docVars
  <2>2. ConnsMatchSockets'
    BY <1>13 DEF DeleteWorkspace, RoomInv, ConnsMatchSockets, connVars, docVars
  <2>3. RegistryOffersLiveDocs'
    BY <1>13 DEF DeleteWorkspace, RoomInv, RegistryOffersLiveDocs, docVars
  <2>4. ReclaimedHasNoWaiter'
    BY <1>13 DEF DeleteWorkspace, RoomInv, ReclaimedHasNoWaiter, Waiting,
       connVars, docVars
  <2> QED
    BY <2>1, <2>2, <2>3, <2>4
<1>14. CASE EvictStart
  <2>1. HandlersHoldDocs'
    BY <1>14 DEF EvictStart, RoomInv, HandlersHoldDocs, connVars, docVars
  <2>2. ConnsMatchSockets'
    BY <1>14 DEF EvictStart, RoomInv, ConnsMatchSockets, connVars, docVars
  <2>3. RegistryOffersLiveDocs'
    BY <1>14 DEF EvictStart, RoomInv, RegistryOffersLiveDocs, docVars
  <2>4. ReclaimedHasNoWaiter'
    BY <1>14 DEF EvictStart, RoomInv, ReclaimedHasNoWaiter, Waiting,
       connVars, docVars
  <2> QED
    BY <2>1, <2>2, <2>3, <2>4
<1>15. CASE EvictFinish
  <2>1. HandlersHoldDocs'
    BY <1>15 DEF EvictFinish, RoomInv, HandlersHoldDocs, ConnsMatchSockets,
       TypeOK
  <2>2. ConnsMatchSockets'
    BY <1>15 DEF EvictFinish, RoomInv, ConnsMatchSockets, TypeOK
  <2>3. RegistryOffersLiveDocs'
    BY <1>15 DEF EvictFinish, RoomInv, RegistryOffersLiveDocs
  <2>4. ReclaimedHasNoWaiter'
    BY <1>15 DEF EvictFinish, RoomInv, ReclaimedHasNoWaiter, TypeOK, Waiting
  <2> QED
    BY <2>1, <2>2, <2>3, <2>4
<1>16. CASE UNCHANGED vars
  BY <1>16 DEF vars, connVars, docVars, evictVars, RoomInv, HandlersHoldDocs,
             ConnsMatchSockets, RegistryOffersLiveDocs, ReclaimedHasNoWaiter, Waiting
<1> QED
  BY <1>1, <1>2, <1>3, <1>4, <1>5, <1>6, <1>7, <1>8, <1>9, <1>10, <1>11,
     <1>12, <1>13, <1>14, <1>15, <1>16 DEF Next

LEMMA InitInv == Init => TypeOK /\ RoomInv
<1> SUFFICES ASSUME Init PROVE TypeOK /\ RoomInv
  OBVIOUS
<1>1. TypeOK
  <2>1. conns \in [Conn -> SUBSET Conn]
    BY DEF Init
  <2>2. saving \in [Conn -> Nat] /\ pending \in Nat /\ evicts \in 0..MaxEvicts
    BY MaxEvictsAssumption DEF Init
  <2>3. phase \in [Conn -> Phase] /\ socket \in [Conn -> SocketState]
    BY DEF Init, Phase, SocketState
  <2> QED
    BY <2>1, <2>2, <2>3 DEF Init, TypeOK
<1>2. Waiting = {}
  BY DEF Init, Waiting
<1>3. PendingExact
  BY <1>2, FS_EmptySet DEF Init, PendingExact
<1>4. RoomInv
  BY <1>3, ConnAssumption DEF Init, RoomInv, HandlersHoldDocs,
     ConnsMatchSockets,
     RegistryOffersLiveDocs, ReclaimedHasNoWaiter, Waiting
<1> QED
  BY <1>1, <1>4

(* The inductive invariant of a room: every reachable state is well typed, *)
(* counts its waiting handlers exactly and offers only live documents.     *)
THEOREM RoomInvariant == Spec => [](TypeOK /\ RoomInv)
<1>1. TypeOK /\ RoomInv /\ [Next]_vars => TypeOK' /\ RoomInv'
  BY TypeStep, PendingStep, RoomStep DEF RoomInv
<1> QED
  BY InitInv, <1>1, PTL DEF Spec

(* pendingConns is exact: it counts the handlers between their increment   *)
(* and their finally block, for any number of connections.                 *)
THEOREM PendingIsExact == Spec => []PendingExact
<1>1. RoomInv => PendingExact
  BY DEF RoomInv
<1> QED
  BY <1>1, RoomInvariant, PTL

(* The close handler, which looks again after awaiting the final save,     *)
(* never reclaims a document that a client uses or waits for.              *)
THEOREM ReclaimIsSafe == Spec => []ReclaimedHasNoClient
<1>1. TypeOK /\ RoomInv => ReclaimedHasNoClient
  BY DEF TypeOK, SocketState, RoomInv, HandlersHoldDocs, ConnsMatchSockets,
     ReclaimedHasNoWaiter, ReclaimedHasNoClient, Waiting
<1> QED
  BY <1>1, RoomInvariant, PTL

(* A count that reaches zero when one waiting handler gives its share back *)
(* counted that handler alone.                                             *)
LEMMA OnlyWaiting ==
    ASSUME TypeOK, PendingExact, NEW c \in Conn, phase[c] = "waiting", pending - 1 = 0
    PROVE  Waiting = {c}
<1>1. IsFiniteSet(Waiting) /\ Cardinality(Waiting) = 1
  BY PendingPositive DEF PendingExact
<1>2. PICK x : Waiting = {x}
  BY <1>1, FS_Singleton
<1> QED
  BY <1>2 DEF Waiting

(* The tail of both ways a socket leaves keeps the room held: the count it *)
(* is given is zero exactly when nobody waits any more. *)
LEMMA CloseRoomHolds ==
    ASSUME TypeOK, RoomInv, HeldInv, NEW c \in Conn, NEW d \in Conn, NEW stillPending,
           docOf[c] = d, load[d] = "done",
           UNCHANGED <<docOf, load, evicted, evicting>>,
           conns' = [conns EXCEPT ![d] = @ \ {c}],
           CloseRoom(c, d, conns[d] \ {c}, stillPending),
           Waiting' \subseteq Waiting,
           \A w \in Waiting : docOf[w] # d => w \in Waiting',
           \A x \in Conn : load[x] = "loading" => phase'[x] = "waiting",
           stillPending = 0 <=> Waiting' = {}
    PROVE  HeldInv'
<1>1. /\ \A e \in Conn : e # d => conns'[e] = conns[e]
      /\ conns'[d] = conns[d] \ {c}
  BY DEF TypeOK
<1>2. \A e \in Conn : e # d /\ InUse(e) => InUse(e)'
  BY <1>1 DEF InUse
<1>3. \A e \in Conn : load'[e] = "none" => conns'[e] = {}
  BY <1>1 DEF HeldInv
<1>4. CASE LastOneOut(d, conns[d] \ {c}, stillPending) /\ evicted[d]
  <2>1. /\ registry' = NoDoc /\ destroyed' = [destroyed EXCEPT ![d] = TRUE]
        /\ UNCHANGED <<saving, unsaved>> /\ Waiting' = {}
    BY <1>4 DEF CloseRoom, LastOneOut
  <2>2. \A e \in Conn : load'[e] # "loading"
    BY <2>1 DEF Waiting
  <2>3. \A e \in Conn : evicted'[e] => destroyed'[e]
    BY <2>1 DEF HeldInv, TypeOK
  <2>4. \A e \in Conn : load'[e] = "none" => ~unsaved'[e]
    BY <2>1 DEF HeldInv
  <2> QED
    BY <1>3, <2>1, <2>2, <2>3, <2>4, ConnAssumption DEF HeldInv
<1>5. CASE LastOneOut(d, conns[d] \ {c}, stillPending) /\ ~evicted[d]
  <2>1. /\ saving' = [saving EXCEPT ![c] = saving[c] + 1]
        /\ unsaved' = [unsaved EXCEPT ![d] = FALSE]
        /\ UNCHANGED <<registry, destroyed>>
    BY <1>5 DEF CloseRoom
  <2>2. /\ saving'[c] > 0
        /\ \A x \in Conn : saving[x] > 0 => saving'[x] > 0
    <3>1. saving[c] \in Nat /\ saving \in [Conn -> Nat]
      BY DEF TypeOK
    <3> QED
      BY <2>1, <3>1
  <2>3. ~unsaved'[d] /\ \A e \in Conn : e # d => unsaved'[e] = unsaved[e]
    BY <2>1 DEF TypeOK
  <2>4. \A e \in Conn : registry' = e =>
           /\ InUse(e)' \/ \E x \in Conn : docOf'[x] = e /\ saving'[x] > 0
           /\ unsaved'[e] => InUse(e)'
    BY <1>2, <2>1, <2>2, <2>3 DEF HeldInv
  <2>5. /\ \A e \in Conn : load'[e] = "loading" =>
             registry' = e /\ phase'[e] = "waiting" /\ docOf'[e] = e
        /\ \A w \in Waiting' : registry' \in {docOf'[w], NoDoc}
        /\ evicting' # NoDoc => registry' \in {evicting', NoDoc}
        /\ \A e \in Conn : evicted'[e] => destroyed'[e]
        /\ \A e \in Conn : load'[e] = "none" => ~unsaved'[e] /\ conns'[e] = {}
    BY <1>3, <2>1, <2>3 DEF HeldInv
  <2> QED
    BY <2>4, <2>5 DEF HeldInv
<1>6. CASE ~LastOneOut(d, conns[d] \ {c}, stillPending)
  <2>1. UNCHANGED <<registry, destroyed, saving, unsaved>>
    BY <1>6 DEF CloseRoom
  <2>2. registry = d => InUse(d)'
    <3>1. CASE conns[d] \ {c} # {}
      BY <1>1, <3>1 DEF InUse
    <3>2. CASE Waiting' # {}
      <4>1. SUFFICES ASSUME registry = d PROVE InUse(d)'
        OBVIOUS
      <4>2. PICK w \in Waiting' : w \in Waiting
        BY <3>2
      <4>3. docOf'[w] = d
        BY <4>1, <4>2, ConnAssumption DEF HeldInv
      <4> QED
        BY <4>2, <4>3 DEF InUse, Waiting
    <3> QED
      BY <1>6, <3>1, <3>2 DEF LastOneOut
  <2>3. \A e \in Conn : registry' = e =>
           /\ InUse(e)' \/ \E x \in Conn : docOf'[x] = e /\ saving'[x] > 0
           /\ unsaved'[e] => InUse(e)'
    BY <1>2, <2>1, <2>2 DEF HeldInv
  <2>4. /\ \A e \in Conn : load'[e] = "loading" =>
             registry' = e /\ phase'[e] = "waiting" /\ docOf'[e] = e
        /\ \A w \in Waiting' : registry' \in {docOf'[w], NoDoc}
        /\ evicting' # NoDoc => registry' \in {evicting', NoDoc}
        /\ \A e \in Conn : evicted'[e] => destroyed'[e]
        /\ \A e \in Conn : load'[e] = "none" => ~unsaved'[e] /\ conns'[e] = {}
    BY <1>3, <2>1 DEF HeldInv
  <2> QED
    BY <2>3, <2>4 DEF HeldInv
<1> QED
  BY <1>4, <1>5, <1>6

(* Nobody holds anything before the first connection. *)
LEMMA HeldInitially == Init => HeldInv
  BY ConnAssumption DEF Init, HeldInv, InUse, Waiting

(* Every step keeps the registered document held by somebody. *)
LEMMA HeldStep ==
    ASSUME TypeOK, RoomInv, HeldInv, [Next]_vars
    PROVE  HeldInv'
<1> USE ConnAssumption
<1>0. \A c \in Waiting : c \in Conn /\ docOf[c] \in Conn /\ load[docOf[c]] \in {"loading", "done"}
  BY DEF Waiting, RoomInv, HandlersHoldDocs, TypeOK
<1>1. ASSUME NEW c \in Conn, Connect(c) \/ Authorize(c) \/ Reject(c) PROVE HeldInv'
  <2>1. /\ Waiting' = Waiting
        /\ UNCHANGED <<registry, docOf, load, conns, evicted, destroyed, unsaved, saving, evicting>>
        /\ \A d \in Conn : phase[d] = "waiting" => phase'[d] = "waiting"
    BY <1>1 DEF Connect, Authorize, Reject, docVars, evictVars, Waiting, TypeOK
  <2> QED
    BY <2>1 DEF HeldInv, InUse
<1>2. ASSUME NEW c \in Conn, AcquireDoc(c) PROVE HeldInv'
  <2>1. /\ MicrotasksDrained /\ phase[c] = "authorized"
        /\ phase' = [phase EXCEPT ![c] = "waiting"]
        /\ UNCHANGED <<conns, evicted, destroyed, unsaved, saving, evicting>>
    BY <1>2 DEF AcquireDoc, evictVars
  <2>2. Waiting' = Waiting \cup {c} /\ c \notin Waiting
    BY <2>1 DEF Waiting, TypeOK
  <2>3. CASE registry # NoDoc
    <3>1. docOf' = [docOf EXCEPT ![c] = registry] /\ UNCHANGED <<registry, load>>
      BY <1>2, <2>3 DEF AcquireDoc
    <3>2. \A d \in Conn : d # c => docOf'[d] = docOf[d] /\ phase'[d] = phase[d]
      BY <2>1, <3>1 DEF TypeOK
    <3>3. docOf'[c] = registry
      BY <3>1 DEF TypeOK
    <3>4. \A d \in Conn : load'[d] = "loading" =>
             registry' = d /\ phase'[d] = "waiting" /\ docOf'[d] = d
      BY <2>1, <3>1, <3>2 DEF HeldInv
    <3>5. \A w \in Waiting' : registry' \in {docOf'[w], NoDoc}
      BY <2>2, <3>1, <3>2, <3>3, <1>0 DEF HeldInv
    <3>6. registry \in Conn /\ InUse(registry)'
      BY <2>2, <2>3, <3>1, <3>3 DEF InUse, TypeOK
    <3>7. \A d \in Conn : registry' = d => InUse(d)'
      BY <3>1, <3>6
    <3> QED
      BY <2>1, <3>1, <3>4, <3>5, <3>7 DEF HeldInv
  <2>4. CASE registry = NoDoc
    <3>1. docOf' = [docOf EXCEPT ![c] = c] /\ registry' = c /\ load' = [load EXCEPT ![c] = "loading"]
      BY <1>2, <2>4 DEF AcquireDoc
    <3>2. \A d \in Conn : load[d] # "loading"
      BY <2>4 DEF HeldInv
    <3>3. Waiting = {}
      BY <2>1, <3>2, <1>0 DEF MicrotasksDrained
    <3>4. evicting = NoDoc
      BY <2>1, <3>2 DEF MicrotasksDrained, TypeOK
    <3>5. load[c] = "none"
      BY <2>1 DEF RoomInv, HandlersHoldDocs, TypeOK
    <3>6. Waiting' = {c} /\ docOf'[c] = c /\ phase'[c] = "waiting"
      BY <2>1, <2>2, <3>1, <3>3 DEF TypeOK
    <3>7. \A d \in Conn : d # c => load'[d] = load[d]
      BY <3>1 DEF TypeOK
    <3>8. \A d \in Conn : load'[d] = "loading" =>
             registry' = d /\ phase'[d] = "waiting" /\ docOf'[d] = d
      BY <3>1, <3>2, <3>6, <3>7
    <3>9. InUse(c)'
      BY <3>6 DEF InUse
    <3>10. \A d \in Conn : load'[d] = "none" => ~unsaved'[d] /\ conns'[d] = {}
      BY <2>1, <3>1 DEF HeldInv, TypeOK
    <3> QED
      BY <2>1, <3>1, <3>4, <3>6, <3>8, <3>9, <3>10 DEF HeldInv
  <2> QED
    BY <2>3, <2>4
<1>3. ASSUME NEW d \in Conn, LoadDone(d) PROVE HeldInv'
  <2>1. /\ Waiting' = Waiting
        /\ load' = [load EXCEPT ![d] = "done"] /\ load[d] = "loading"
        /\ UNCHANGED <<registry, phase, docOf, conns, evicted, destroyed, unsaved, saving, evicting>>
    BY <1>3 DEF LoadDone, connVars, evictVars, Waiting
  <2> QED
    BY <2>1 DEF HeldInv, InUse, TypeOK
<1>4. ASSUME NEW c \in Conn, Join(c) PROVE HeldInv'
  <2> DEFINE d == docOf[c]
  <2>1. /\ phase[c] = "waiting" /\ d \in Conn /\ load[d] = "done" /\ c \in Waiting
        /\ phase' = [phase EXCEPT ![c] = "attached"]
        /\ conns' = [conns EXCEPT ![d] = @ \cup {c}]
        /\ UNCHANGED <<registry, docOf, load, evicted, destroyed, saving, evicting>>
    BY <1>4, <1>0 DEF Join, evictVars, Waiting
  <2>2. /\ \A e \in Conn : e # d => conns'[e] = conns[e] /\ unsaved'[e] = unsaved[e]
        /\ c \in conns'[d]
    BY <1>4, <2>1 DEF Join, TypeOK
  <2>3. Waiting' = Waiting \ {c}
    BY <2>1 DEF Waiting, TypeOK
  <2>4. \A e \in Conn : load'[e] = "loading" =>
           registry' = e /\ phase'[e] = "waiting" /\ docOf'[e] = e
    BY <2>1 DEF HeldInv, TypeOK
  <2>5. InUse(d)'
    BY <2>1, <2>2 DEF InUse
  <2>6. \A e \in Conn : e # d /\ InUse(e) => InUse(e)'
    BY <2>1, <2>2, <2>3 DEF InUse
  <2>7. \A e \in Conn : registry' = e =>
           /\ InUse(e)' \/ \E x \in Conn : docOf'[x] = e /\ saving'[x] > 0
           /\ unsaved'[e] => InUse(e)'
    BY <2>1, <2>2, <2>5, <2>6 DEF HeldInv
  <2>8. \A e \in Conn : load'[e] = "none" => ~unsaved'[e] /\ conns'[e] = {}
    BY <2>1, <2>2 DEF HeldInv
  <2> HIDE DEF d
  <2> QED
    BY <2>1, <2>3, <2>4, <2>7, <2>8 DEF HeldInv
<1>5. ASSUME NEW c \in Conn, JoinGone(c) PROVE HeldInv'
  <2> DEFINE d == docOf[c]
  <2>1. /\ phase[c] = "waiting" /\ d \in Conn /\ load[d] = "done" /\ c \in Waiting
        /\ phase' = [phase EXCEPT ![c] = "attached"]
        /\ conns' = [conns EXCEPT ![d] = @ \ {c}]
        /\ CloseRoom(c, d, conns[d] \ {c}, PendingAtEmit)
        /\ UNCHANGED <<docOf, load, evicted, evicting>>
    BY <1>5, <1>0 DEF JoinGone, evictVars, Waiting
  <2>2. Waiting' = Waiting \ {c}
    BY <2>1 DEF Waiting, TypeOK
  <2>3. PendingAtEmit = 0 => Waiting' = {}
    BY <2>1, <2>2, OnlyWaiting DEF PendingAtEmit, RoomInv
  <2>4. Waiting' = {} => PendingAtEmit = 0
    <3>1. SUFFICES ASSUME Waiting' = {} PROVE pending = 1
      BY DEF PendingAtEmit
    <3>2. Waiting = {c}
      BY <2>1, <2>2, <3>1
    <3> QED
      BY <3>2, FS_Singleton DEF RoomInv, PendingExact
  <2>5. \A x \in Conn : load[x] = "loading" => phase'[x] = "waiting"
    BY <2>1 DEF HeldInv, TypeOK
  <2>6. \A w \in Waiting : docOf[w] # d => w \in Waiting'
    BY <2>2
  <2> HIDE DEF d
  <2> QED
    BY <2>1, <2>2, <2>3, <2>4, <2>5, <2>6, CloseRoomHolds DEF d
<1>6. ASSUME NEW c \in Conn, Edit(c) PROVE HeldInv'
  <2> DEFINE d == docOf[c]
  <2>1. /\ phase[c] = "attached" /\ socket[c] \in {"open", "closing"}
        /\ unsaved' = [unsaved EXCEPT ![d] = TRUE]
        /\ UNCHANGED <<registry, phase, docOf, load, conns, evicted, destroyed, saving, evicting>>
    BY <1>6 DEF Edit, connVars, evictVars
  <2>2. Waiting' = Waiting /\ \A e \in Conn : InUse(e)' <=> InUse(e)
    BY <2>1 DEF Waiting, InUse
  <2>3. d \in Conn /\ load[d] = "done"
    BY <2>1 DEF RoomInv, HandlersHoldDocs
  <2>4. registry = d => InUse(d)
    <3>1. SUFFICES ASSUME registry = d PROVE InUse(d)
      OBVIOUS
    <3>2. ~destroyed[d] /\ ~evicted[d]
      BY <2>3, <3>1 DEF RoomInv, RegistryOffersLiveDocs, HeldInv
    <3>3. c \in conns[d]
      BY <2>1, <2>3, <3>2 DEF RoomInv, ConnsMatchSockets
    <3> QED
      BY <3>3 DEF InUse
  <2>5. \A e \in Conn : e # d => unsaved'[e] = unsaved[e]
    BY <2>1 DEF TypeOK
  <2>6. \A e \in Conn : registry' = e =>
           /\ InUse(e)' \/ \E x \in Conn : docOf'[x] = e /\ saving'[x] > 0
           /\ unsaved'[e] => InUse(e)'
    BY <2>1, <2>2, <2>4, <2>5 DEF HeldInv
  <2>7. \A e \in Conn : load'[e] = "none" => ~unsaved'[e] /\ conns'[e] = {}
    BY <2>1, <2>3, <2>5 DEF HeldInv
  <2> HIDE DEF d
  <2> QED
    BY <2>1, <2>2, <2>6, <2>7 DEF HeldInv
<1>7. ASSUME NEW c \in Conn, ServerClose(c) \/ PeerGone(c) PROVE HeldInv'
  BY <1>7 DEF ServerClose, PeerGone, docVars, evictVars, Waiting, HeldInv, InUse
<1>8. ASSUME NEW c \in Conn, CloseEvent(c) PROVE HeldInv'
  <2>1. /\ UNCHANGED <<pending, phase, docOf, load, evicted, evicting>>
        /\ Waiting' = Waiting
    BY <1>8 DEF CloseEvent, evictVars, Waiting
  <2>2. CASE phase[c] = "attached"
    <3> DEFINE d == docOf[c]
    <3>1. /\ d \in Conn /\ load[d] = "done"
          /\ conns' = [conns EXCEPT ![d] = @ \ {c}]
          /\ CloseRoom(c, d, conns[d] \ {c}, pending)
      BY <1>8, <2>2 DEF CloseEvent, RoomInv, HandlersHoldDocs
    <3>2. pending = 0 <=> Waiting' = {}
      BY <2>1, PendingZero, FS_EmptySet DEF RoomInv, PendingExact
    <3>3. \A x \in Conn : load[x] = "loading" => phase'[x] = "waiting"
      BY <2>1 DEF HeldInv
    <3> HIDE DEF d
    <3> QED
      BY <2>1, <3>1, <3>2, <3>3, CloseRoomHolds DEF d
  <2>3. CASE phase[c] # "attached"
    <3>1. UNCHANGED <<registry, destroyed, saving, unsaved, conns>>
      BY <1>8, <2>3 DEF CloseEvent
    <3> QED
      BY <2>1, <3>1 DEF HeldInv, InUse
  <2> QED
    BY <2>2, <2>3
<1>9. ASSUME NEW c \in Conn, FinalSaveDone(c) PROVE HeldInv'
  <2> DEFINE d == docOf[c]
  <2>1. /\ saving[c] > 0 /\ phase[c] = "attached" /\ d \in Conn /\ load[d] = "done"
        /\ saving' = [saving EXCEPT ![c] = @ - 1]
        /\ UNCHANGED <<pending, phase, docOf, load, conns, evicted, unsaved, evicting>>
        /\ Waiting' = Waiting
    BY <1>9 DEF FinalSaveDone, RoomInv, HandlersHoldDocs, connVars, evictVars, Waiting
  <2>2. \A e \in Conn : InUse(e)' <=> InUse(e)
    BY <2>1 DEF InUse
  <2>3. CASE CanReclaim(d)
    <3>1. registry' = NoDoc /\ destroyed' = [destroyed EXCEPT ![d] = TRUE]
      BY <1>9, <2>3 DEF FinalSaveDone
    <3>2. Waiting = {}
      BY <2>3, PendingZero DEF CanReclaim, RoomInv
    <3>3. \A e \in Conn : load'[e] # "loading"
      BY <2>1, <3>2 DEF HeldInv, Waiting
    <3>4. \A e \in Conn : evicted'[e] => destroyed'[e]
      BY <2>1, <3>1 DEF HeldInv, TypeOK
    <3> QED
      BY <2>1, <3>1, <3>3, <3>4 DEF HeldInv
  <2>4. CASE ~CanReclaim(d)
    <3>1. UNCHANGED <<registry, destroyed>>
      BY <1>9, <2>4 DEF FinalSaveDone
    <3>2. \A x \in Conn : x # c => saving'[x] = saving[x]
      BY <2>1 DEF TypeOK
    <3>3. registry = d => InUse(d)
      <4>1. CASE conns[d] # {}
        BY <4>1 DEF InUse
      <4>2. CASE pending # 0
        <5>1. Waiting # {}
          BY <4>2, FS_EmptySet DEF RoomInv, PendingExact
        <5> QED
          BY <2>1, <5>1 DEF HeldInv, InUse, Waiting
      <4> QED
        BY <2>4, <4>1, <4>2 DEF CanReclaim
    <3>4. \A e \in Conn : registry' = e =>
             /\ InUse(e)' \/ \E x \in Conn : docOf'[x] = e /\ saving'[x] > 0
             /\ unsaved'[e] => InUse(e)'
      BY <2>1, <2>2, <3>1, <3>2, <3>3 DEF HeldInv
    <3> HIDE DEF d
    <3> QED
      BY <2>1, <3>1, <3>4 DEF HeldInv
  <2> QED
    BY <2>3, <2>4
<1>10. CASE DeleteWorkspace
  BY <1>10 DEF DeleteWorkspace, connVars, docVars, Waiting, HeldInv, InUse
<1>11. CASE EvictStart
  BY <1>11 DEF EvictStart, connVars, docVars, Waiting, HeldInv, InUse
<1>12. CASE EvictFinish
  <2>1. /\ evicting \in Conn /\ load[evicting] = "done"
        /\ evicted' = [evicted EXCEPT ![evicting] = TRUE]
        /\ destroyed' = [destroyed EXCEPT ![evicting] = TRUE]
        /\ conns' = [conns EXCEPT ![evicting] = {}]
        /\ registry' = NoDoc /\ evicting' = NoDoc
        /\ UNCHANGED <<phase, docOf, load, unsaved, saving>>
        /\ Waiting' = Waiting
    BY <1>12 DEF EvictFinish, Waiting, TypeOK
  <2>2. \A e \in Conn : load'[e] # "loading"
    BY <2>1 DEF HeldInv
  <2>3. \A e \in Conn : evicted'[e] => destroyed'[e]
    BY <2>1 DEF HeldInv, TypeOK
  <2>4. \A e \in Conn : load'[e] = "none" => ~unsaved'[e] /\ conns'[e] = {}
    BY <2>1 DEF HeldInv, TypeOK
  <2> QED
    BY <2>1, <2>2, <2>3, <2>4 DEF HeldInv
<1>13. CASE UNCHANGED vars
  BY <1>13 DEF vars, connVars, docVars, evictVars, Waiting, HeldInv, InUse
<1> QED
  BY <1>1, <1>2, <1>3, <1>4, <1>5, <1>6, <1>7, <1>8, <1>9, <1>10, <1>11, <1>12, <1>13 DEF Next

(* The strengthening that the two theorems below need: while a document    *)
(* loads, is awaited by a handler or by an eviction, no other one is       *)
(* registered, and the registered one has a client, an arrival or a        *)
(* running final save.                                                     *)
THEOREM HeldInvariant == Spec => [](TypeOK /\ RoomInv /\ HeldInv)
<1>1. TypeOK /\ RoomInv /\ HeldInv /\ [Next]_vars => HeldInv'
  BY HeldStep
<1> QED
  BY RoomInvariant, HeldInitially, <1>1, PTL DEF Spec

(* A registered room that is loaded, without clients and without arrivals, *)
(* always has a close-handler activation left that will reclaim it: the    *)
(* handlers that race for being the last one out never all give up.        *)
THEOREM RegisteredIsHeld == Spec => []RegisteredRoomIsHeld
<1>1. TypeOK /\ RoomInv /\ HeldInv => RegisteredRoomIsHeld
  <2>1. SUFFICES ASSUME TypeOK, RoomInv, HeldInv, registry # NoDoc, pending = 0
                 PROVE  \/ conns[registry] # {}
                        \/ \E c \in Conn : docOf[c] = registry /\ saving[c] > 0
    BY DEF RegisteredRoomIsHeld
  <2>2. Waiting = {}
    BY <2>1, PendingZero DEF RoomInv
  <2> QED
    BY <2>1, <2>2 DEF HeldInv, InUse, TypeOK
<1> QED
  BY <1>1, HeldInvariant, PTL

(* Memory is given back only after a snapshot of everything typed: what    *)
(* changes between a final save's snapshot and its return keeps the room   *)
(* in use, so the finally block that looks again leaves it alone.          *)
THEOREM ReclaimIsSaved == Spec => RegisteredReclaimIsSaved
<1> DEFINE Saved == \A d \in Conn :
                       registry = d /\ ~destroyed[d] /\ destroyed'[d] /\ ~evicted'[d]
                         => ~unsaved[d]
<1>1. ASSUME TypeOK, RoomInv, HeldInv, Next PROVE Saved
  <2>1. SUFFICES ASSUME NEW d \in Conn, registry = d, ~destroyed[d], destroyed'[d], ~evicted'[d]
                 PROVE  ~unsaved[d]
    OBVIOUS
  <2>2. ASSUME NEW c \in Conn, FinalSaveDone(c) PROVE ~unsaved[d]
    <3>1. CanReclaim(docOf[c]) /\ d = docOf[c]
      BY <1>1, <2>1, <2>2 DEF FinalSaveDone, TypeOK
    <3>2. ~InUse(d)
      BY <3>1, PendingZero, <1>1 DEF CanReclaim, InUse, RoomInv
    <3> QED
      BY <1>1, <2>1, <3>2 DEF HeldInv
  <2>3. ASSUME NEW c \in Conn, CloseRoom(c, docOf[c], conns[docOf[c]] \ {c}, pending)
                               \/ CloseRoom(c, docOf[c], conns[docOf[c]] \ {c}, PendingAtEmit),
               evicted' = evicted
        PROVE  FALSE
    BY <1>1, <2>1, <2>3 DEF CloseRoom, TypeOK
  <2>4. ASSUME NEW c \in Conn, JoinGone(c) \/ CloseEvent(c) PROVE FALSE
    <3>1. evicted' = evicted
      BY <2>4 DEF JoinGone, CloseEvent
    <3>2. destroyed' # destroyed
      BY <2>1
    <3>3. \/ CloseRoom(c, docOf[c], conns[docOf[c]] \ {c}, pending)
          \/ CloseRoom(c, docOf[c], conns[docOf[c]] \ {c}, PendingAtEmit)
      BY <2>4, <3>2 DEF JoinGone, CloseEvent
    <3> QED
      BY <2>3, <3>1, <3>3
  <2>5. ASSUME EvictFinish PROVE FALSE
    BY <1>1, <2>1, <2>5 DEF EvictFinish, TypeOK
  <2>6. ASSUME NEW c \in Conn,
               \/ Connect(c) \/ Authorize(c) \/ Reject(c) \/ AcquireDoc(c) \/ LoadDone(c)
               \/ Join(c) \/ Edit(c) \/ ServerClose(c) \/ PeerGone(c)
        PROVE  FALSE
    BY <2>1, <2>6 DEF Connect, Authorize, Reject, AcquireDoc, LoadDone, Join, Edit,
       ServerClose, PeerGone, docVars
  <2>7. ASSUME DeleteWorkspace \/ EvictStart PROVE FALSE
    BY <2>1, <2>7 DEF DeleteWorkspace, EvictStart, docVars
  <2> QED
    BY <1>1, <2>2, <2>4, <2>5, <2>6, <2>7 DEF Next
<1>2. TypeOK /\ RoomInv /\ HeldInv /\ [Next]_vars => [Saved]_vars
  BY <1>1
<1>3. Spec => [][Saved]_vars
  BY HeldInvariant, <1>2, PTL DEF Spec
<1> QED
  BY <1>3 DEF RegisteredReclaimIsSaved

-----------------------------------------------------------------------------
(* The lock: types, the exclusion Redis gives until a lease is overrun,    *)
(* the exclusion of the in-memory fallback, and what a lost lease costs. *)

LEMMA LockTypeStep ==
    ASSUME LockTypeOK, [LockNext]_lockVars
    PROVE  LockTypeOK'
<1> USE TaskAssumption, PodAssumption DEF LockTypeOK, Place, Goto
<1>1. ASSUME NEW t \in Task, SendSet(t) PROVE LockTypeOK'
  BY <1>1 DEF SendSet
<1>2. ASSUME NEW t \in Task, TakeMemory(t) PROVE LockTypeOK'
  BY <1>2 DEF TakeMemory
<1>3. ASSUME NEW t \in Task, SetAnswered(t) PROVE LockTypeOK'
  BY <1>3 DEF SetAnswered, LockValue
<1>4. ASSUME NEW t \in Task, SetFails(t) PROVE LockTypeOK'
  BY <1>4 DEF SetFails, LockValue
<1>5. ASSUME NEW t \in Task, TaskEnds(t) PROVE LockTypeOK'
  BY <1>5 DEF TaskEnds, Goes
<1>6. ASSUME NEW t \in Task, Unlock(t) PROVE LockTypeOK'
  BY <1>6 DEF Unlock, AfterUnlock, KeyAfterUnlock
<1>7. ASSUME NEW t \in Task, Catch(t) PROVE LockTypeOK'
  BY <1>7 DEF Catch
<1>8. ASSUME NEW t \in Task, MemoryTaskEnds(t) PROVE LockTypeOK'
  BY <1>8 DEF MemoryTaskEnds, Goes
<1>9. CASE Expire
  BY <1>9 DEF Expire, Goes, Holds
<1>10. CASE RedisGoes
  BY <1>10 DEF RedisGoes, Goes
<1>11. ASSUME NEW p \in Pod, Crash(p) PROVE LockTypeOK'
  BY <1>11 DEF Crash
<1>12. CASE UNCHANGED lockVars
  BY <1>12 DEF lockVars
<1> QED
  BY <1>1, <1>2, <1>3, <1>4, <1>5, <1>6, <1>7, <1>8, <1>9, <1>10, <1>11, <1>12
     DEF LockNext, Call

(* A call takes the in-memory key of its pod only when no other call of    *)
(* the pod has it, and gives it back itself.                               *)
LEMMA FallbackStep ==
    ASSUME LockTypeOK, FallbackExclusive, [LockNext]_lockVars
    PROVE  FallbackExclusive'
<1> USE TaskAssumption DEF FallbackExclusive, UnderMemory
<1>1. ASSUME NEW t \in Task, TakeMemory(t) \/ Catch(t) PROVE FallbackExclusive'
  <2>1. CASE PodOf[t] \notin memory
    BY <1>1, <2>1 DEF TakeMemory, Catch, MemoryFree, Goto, LockTypeOK
  <2>2. CASE PodOf[t] \in memory
    BY <1>1, <2>2 DEF TakeMemory, Catch, MemoryFree, Goto, LockTypeOK
  <2> QED
    BY <2>1, <2>2
<1>2. ASSUME NEW t \in Task, MemoryTaskEnds(t) PROVE FallbackExclusive'
  BY <1>2 DEF MemoryTaskEnds, Goes, Goto, LockTypeOK
<1>3. ASSUME NEW p \in Pod, Crash(p) PROVE FallbackExclusive'
  BY <1>3 DEF Crash, LockTypeOK
<1>4. CASE UNCHANGED <<memory, UnderMemory>>
  BY <1>4
<1>5. ASSUME NEW t \in Task,
             \/ SendSet(t) \/ SetAnswered(t) \/ SetFails(t) \/ TaskEnds(t) \/ Unlock(t)
      PROVE  UNCHANGED <<memory, UnderMemory>>
  BY <1>5 DEF SendSet, SetAnswered, SetFails, TaskEnds, Unlock, AfterUnlock, Goto, LockTypeOK
<1>6. ASSUME Expire \/ RedisGoes \/ UNCHANGED lockVars
      PROVE  UNCHANGED <<memory, UnderMemory>>
  BY <1>6 DEF Expire, Goes, RedisGoes, lockVars
<1> QED
  BY <1>1, <1>2, <1>3, <1>4, <1>5, <1>6 DEF LockNext, Call

(* Until a lease is overrun, the key names the pod of the one call that    *)
(* has it.                                                                 *)
KeyIsHolders ==
    "lease" \notin faults =>
        \A t \in Task : Holds(t) =>
            key = PodOf[t] /\ \A u \in Task : Holds(u) => u = t

LEMMA HolderStep ==
    ASSUME LockTypeOK, KeyIsHolders, [LockNext]_lockVars
    PROVE  KeyIsHolders'
<1> USE TaskAssumption, PodAssumption DEF KeyIsHolders, Holds
<1>1. ASSUME NEW t \in Task, SetAnswered(t) PROVE KeyIsHolders'
  BY <1>1 DEF SetAnswered, SetSucceeds, LockValue, Goto, LockTypeOK
<1>2. ASSUME NEW t \in Task, SetFails(t) PROVE KeyIsHolders'
  BY <1>2 DEF SetFails, SetSucceeds, LockValue, Goto, LockTypeOK
<1>3. ASSUME NEW t \in Task, TaskEnds(t) PROVE KeyIsHolders'
  BY <1>3 DEF TaskEnds, Goes, Goto, LockTypeOK
<1>4. ASSUME NEW t \in Task, Unlock(t) PROVE KeyIsHolders'
  BY <1>4 DEF Unlock, AfterUnlock, KeyAfterUnlock, Goto, LockTypeOK
<1>5. CASE Expire
  BY <1>5 DEF Expire, Goes, LockTypeOK
<1>6. ASSUME NEW p \in Pod, Crash(p) PROVE KeyIsHolders'
  BY <1>6 DEF Crash, LockTypeOK
<1>7. ASSUME NEW t \in Task, SendSet(t) \/ TakeMemory(t) \/ Catch(t) \/ MemoryTaskEnds(t)
      PROVE  KeyIsHolders'
  BY <1>7 DEF SendSet, TakeMemory, Catch, MemoryTaskEnds, Goes, Goto, LockTypeOK
<1>8. CASE RedisGoes \/ UNCHANGED lockVars
  BY <1>8 DEF RedisGoes, Goes, lockVars
<1> QED
  BY <1>1, <1>2, <1>3, <1>4, <1>5, <1>6, <1>7, <1>8 DEF LockNext, Call

(* The inductive invariant of the lock. *)
THEOREM LockInvariant == LockSpec => [](LockTypeOK /\ LockInv)
<1>1. LockInit => LockTypeOK /\ FallbackExclusive /\ KeyIsHolders
  BY DEF LockInit, LockTypeOK, Place, FallbackExclusive, UnderMemory, KeyIsHolders, Holds
<1>2. LockTypeOK /\ FallbackExclusive /\ KeyIsHolders /\ [LockNext]_lockVars
        => LockTypeOK' /\ FallbackExclusive' /\ KeyIsHolders'
  BY LockTypeStep, FallbackStep, HolderStep
<1>3. FallbackExclusive /\ KeyIsHolders => LockInv
  BY DEF LockInv, KeyIsHolders, Holds
<1> QED
  BY <1>1, <1>2, <1>3, PTL DEF LockSpec

(* In one pod at most one call runs its task under the in-memory key. *)
THEOREM FallbackIsExclusive == LockSpec => []FallbackExclusive
<1>1. LockInv => FallbackExclusive
  BY DEF LockInv
<1> QED
  BY <1>1, LockInvariant, PTL

(* Releases, failures, crashes and an absent Redis do not let two tasks    *)
(* run under the Redis lock: only a task that outlives its lease does.     *)
THEOREM RedisIsExclusive == LockSpec => []RedisExclusive
<1>1. LockInv => RedisExclusive
  <2> SUFFICES ASSUME LockInv, "lease" \notin faults PROVE Cardinality(UnderRedis) <= 1
    BY DEF RedisExclusive
  <2>1. CASE UnderRedis = {}
    BY <2>1, FS_EmptySet
  <2>2. ASSUME NEW t \in UnderRedis PROVE UnderRedis = {t}
    BY <2>2 DEF UnderRedis, LockInv
  <2>3. CASE UnderRedis # {}
    <3>1. PICK t \in UnderRedis : UnderRedis = {t}
      BY <2>2, <2>3
    <3>2. Cardinality(UnderRedis) = 1
      BY <3>1, FS_Singleton
    <3> QED
      BY <3>2
  <2> QED
    BY <2>1, <2>3
<1> QED
  BY <1>1, LockInvariant, PTL

(* Until something goes wrong the lock is a mutex for the cluster: no call  *)
(* is in, or on its way to, the in-memory fallback.                         *)
CalmInv == faults = {} => redis /\ UnderMemory = {} /\ failed = {}
             /\ \A t \in Task : at[t] # "catch"

THEOREM CalmIsExclusive == LockSpec => []MutualExclusion
<1>1. LockInit => CalmInv
  BY DEF LockInit, CalmInv, UnderMemory
<1>2. LockTypeOK /\ CalmInv /\ [LockNext]_lockVars => CalmInv'
  <2> SUFFICES ASSUME LockTypeOK, CalmInv, [LockNext]_lockVars, faults' = {}
               PROVE  CalmInv'
    BY DEF CalmInv
  <2> USE TaskAssumption DEF CalmInv, UnderMemory, LockTypeOK
  <2>1. ASSUME NEW t \in Task, SendSet(t) \/ TakeMemory(t) PROVE CalmInv'
    BY <2>1 DEF SendSet, TakeMemory, Goto
  <2>2. ASSUME NEW t \in Task, SetAnswered(t) \/ SetFails(t) PROVE CalmInv'
    BY <2>2 DEF SetAnswered, SetFails, Goto
  <2>3. ASSUME NEW t \in Task, TaskEnds(t) \/ Unlock(t) PROVE CalmInv'
    BY <2>3 DEF TaskEnds, Goes, Unlock, AfterUnlock, Goto
  <2>4. ASSUME NEW t \in Task, Catch(t) \/ MemoryTaskEnds(t) PROVE CalmInv'
    BY <2>4 DEF Catch, MemoryTaskEnds, Goes, Goto
  <2>5. CASE Expire
    BY <2>5 DEF Expire, Goes
  <2>6. CASE RedisGoes \/ UNCHANGED lockVars
    BY <2>6 DEF RedisGoes, Goes, lockVars
  <2>7. ASSUME NEW p \in Pod, Crash(p) PROVE CalmInv'
    BY <2>7 DEF Crash
  <2> QED
    BY <2>1, <2>2, <2>3, <2>4, <2>5, <2>6, <2>7 DEF LockNext, Call
<1>3. CalmInv /\ RedisExclusive => MutualExclusion
  BY DEF CalmInv, RedisExclusive, MutualExclusion, InTask
<1> QED
  BY <1>1, <1>2, <1>3, LockInvariant, RedisIsExclusive, PTL DEF LockSpec

(* All three: fallback, lease and calm exclusion together. *)
THEOREM LocksStayExclusive == LockSpec => []LocksExclude
BY FallbackIsExclusive, RedisIsExclusive, CalmIsExclusive, PTL DEF LocksExclude

(* A call that still answers SET finds the key free, so every holder there *)
(* is has outlived its lease; a release takes the key from calls of its    *)
(* own pod at most. *)
LEMMA LeaseStep ==
    ASSUME LockTypeOK, LeaseInv, [LockNext]_lockVars
    PROVE  LeaseInv'
<1> USE TaskAssumption, PodAssumption DEF LeaseInv, LeasesFailAlone, LostLease, Holds, LockTypeOK, Goto
<1>1. ASSUME NEW t \in Task, SetAnswered(t) PROVE LeaseInv'
  BY <1>1 DEF SetAnswered, SetSucceeds, LockValue
<1>2. ASSUME NEW t \in Task, SetFails(t) PROVE LeaseInv'
  BY <1>2 DEF SetFails, SetSucceeds, LockValue
<1>3. ASSUME NEW t \in Task, Unlock(t) PROVE LeaseInv'
  <2>1. /\ at' = [at EXCEPT ![t] = AfterUnlock(t)] /\ AfterUnlock(t) \in {"catch", "done"}
        /\ key' \in {key, KeyAfterUnlock(PodOf[t])} /\ expired' = expired /\ at[t] = "unlock"
    BY <1>3 DEF Unlock, AfterUnlock
  <2>2. \A u \in Task : Holds(u)' => u # t /\ Holds(u)
    BY <2>1
  <2>3. LeasesFailAlone'
    BY <2>1, <2>2
  <2>4. ASSUME NEW u \in Task, Holds(u)' PROVE key' = PodOf[u] \/ LostLease(u)'
    <3>1. CASE key' = key
      BY <2>1, <2>2, <2>4, <3>1
    <3>2. CASE key = PodOf[t] /\ key' = NoPod
      <4>1. LostLease(t) \/ LostLease(u)
        BY <2>1, <2>2, <2>4
      <4>2. PodOf[u] = PodOf[t] \/ LostLease(u)
        BY <2>2, <2>4, <3>2
      <4> QED
        BY <2>1, <4>1, <4>2
    <3> QED
      BY <2>1, <3>1, <3>2 DEF KeyAfterUnlock
  <2> QED
    BY <2>3, <2>4
<1>4. ASSUME NEW t \in Task, SendSet(t) \/ TakeMemory(t) \/ TaskEnds(t) \/ Catch(t) \/ MemoryTaskEnds(t)
      PROVE  LeaseInv'
  <2>1. key' = key /\ expired' = expired /\ \A u \in Task : Holds(u)' => Holds(u)
    BY <1>4 DEF SendSet, TakeMemory, TaskEnds, Catch, MemoryTaskEnds, Goes
  <2> QED
    BY <2>1
<1>5. CASE Expire
  <2>1. key' = NoPod /\ at' = at /\ expired' = expired \cup {t \in Task : PodOf[t] = key /\ Holds(t)}
    BY <1>5 DEF Expire
  <2>2. \A t \in Task : LostLease(t) => LostLease(t)'
    BY <2>1
  <2>3. \A t \in Task : Holds(t)' => LostLease(t)'
    BY <2>1
  <2> QED
    BY <2>1, <2>3
<1>6. ASSUME NEW p \in Pod, Crash(p) PROVE LeaseInv'
  <2>1. key' = key /\ expired' = expired /\ \A u \in Task : Holds(u)' => Holds(u)
    BY <1>6 DEF Crash
  <2> QED
    BY <2>1
<1>7. CASE RedisGoes \/ UNCHANGED lockVars
  BY <1>7 DEF RedisGoes, Goes, lockVars
<1> QED
  BY <1>1, <1>2, <1>3, <1>4, <1>5, <1>6, <1>7 DEF LockNext, Call

(* Two calls hold the lock together only if one of their own pods had a     *)
(* lease run out, although the key names pods and not calls: a lost lease  *)
(* lets in no call of a pod that lost none beside another such call. *)
THEOREM LostLeasesStayHome == LockSpec => []LeasesFailAlone
<1>1. LockInit => LeaseInv
  BY DEF LockInit, LeaseInv, LeasesFailAlone, Holds
<1>2. LockTypeOK /\ LeaseInv /\ [LockNext]_lockVars => LeaseInv'
  BY LeaseStep
<1>3. LeaseInv => LeasesFailAlone
  BY DEF LeaseInv
<1> QED
  BY <1>1, <1>2, <1>3, LockInvariant, PTL DEF LockSpec

-----------------------------------------------------------------------------
(* What a queue holds, in whatever order. *)
Elements(s) == {s[i] : i \in 1..Len(s)}

(* Sending adds one message to what is under way. *)
LEMMA AppendElements ==
    ASSUME NEW S, NEW s \in Seq(S), NEW x \in S
    PROVE  /\ Append(s, x) \in Seq(S)
           /\ Elements(Append(s, x)) = Elements(s) \cup {x}
<1>1. Len(Append(s, x)) = Len(s) + 1 /\ Len(s) \in Nat
  BY AppendProperties, LenProperties
<1>2. \A i \in 1..Len(s) : Append(s, x)[i] = s[i]
  BY AppendProperties
<1>3. Append(s, x)[Len(s) + 1] = x
  BY AppendProperties
<1>4. Append(s, x) \in Seq(S)
  BY AppendProperties
<1> QED
  BY <1>1, <1>2, <1>3, <1>4 DEF Elements

(* Receiving takes one off. *)
LEMMA TailElements ==
    ASSUME NEW S, NEW s \in Seq(S), s # <<>>
    PROVE  /\ Tail(s) \in Seq(S) /\ Head(s) \in S
           /\ Elements(s) = Elements(Tail(s)) \cup {Head(s)}
<1>1. Len(s) \in Nat \ {0} /\ Len(Tail(s)) = Len(s) - 1
  BY EmptySeq, HeadTailProperties
<1>2. \A i \in 1..Len(Tail(s)) : Tail(s)[i] = s[i + 1]
  BY HeadTailProperties
<1>3. Head(s) = s[1]
  BY <1>1
<1>4. Elements(s) \subseteq Elements(Tail(s)) \cup {Head(s)}
  <2> SUFFICES ASSUME NEW i \in 1..Len(s), i # 1
               PROVE  s[i] \in Elements(Tail(s))
    BY <1>3 DEF Elements
  <2>1. i - 1 \in 1..Len(Tail(s)) /\ (i - 1) + 1 = i
    BY <1>1
  <2> QED
    BY <2>1, <1>2 DEF Elements
<1>5. Elements(Tail(s)) \cup {Head(s)} \subseteq Elements(s)
  <2>1. 1 \in 1..Len(s)
    BY <1>1
  <2>2. \A i \in 1..Len(Tail(s)) : i + 1 \in 1..Len(s)
    BY <1>1
  <2> QED
    BY <2>1, <2>2, <1>2, <1>3 DEF Elements
<1> QED
  BY <1>4, <1>5, HeadTailProperties

(* A queue of messages holds messages. *)
LEMMA ElementsIn ==
    ASSUME NEW S, NEW s \in Seq(S)
    PROVE  Elements(s) \subseteq S
BY ElementOfSeq DEF Elements

(* A prefix of a queue holds nothing else. *)
LEMMA PrefixElements ==
    ASSUME NEW S, NEW s \in Seq(S), NEW n \in 0..Len(s)
    PROVE  /\ SubSeq(s, 1, n) \in Seq(S)
           /\ Elements(SubSeq(s, 1, n)) \subseteq Elements(s)
<1>1. Len(s) \in Nat /\ \A i \in 1..n : s[i] \in S
  BY ElementOfSeq, LenProperties
<1>2. /\ SubSeq(s, 1, n) \in Seq(S)
      /\ Len(SubSeq(s, 1, n)) = n
      /\ \A i \in 1..n : SubSeq(s, 1, n)[i] = s[i]
  <2>1. n \in Int /\ 1 \in Int
    BY <1>1
  <2>2. /\ SubSeq(s, 1, n) \in Seq(S)
        /\ Len(SubSeq(s, 1, n)) = IF 1 <= n THEN n - 1 + 1 ELSE 0
        /\ \A i \in 1..(n - 1 + 1) : SubSeq(s, 1, n)[i] = s[1 + i - 1]
    BY <1>1, <2>1, SubSeqProperties
  <2>3. n - 1 + 1 = n /\ (1 <= n \/ n = 0)
    BY <1>1
  <2>4. \A i \in 1..n : 1 + i - 1 = i
    BY <1>1
  <2> QED
    BY <2>2, <2>3, <2>4
<1> QED
  BY <1>1, <1>2 DEF Elements

-----------------------------------------------------------------------------
(* Updates. *)

(* What a message on a channel or of a waiting handler tells a pod. *)
Way(p) == (UNION Elements(bus[p])) \cup (UNION Elements(awaiting[p]))

(* The types of the mesh with the sets of RedisMesh spelled out. *)
LEMMA MeshTypes ==
    Mesh!TypeOK <=>
      /\ room \in [Pod -> {"absent", "loading", "replaying", "live"}]
      /\ text \in [Pod -> SUBSET Mesh!Updates] /\ answer \in [Pod -> SUBSET Mesh!Updates]
      /\ awaiting \in [Pod -> Seq(SUBSET Mesh!Updates)]
      /\ bus \in [Pod -> Seq(Mesh!Messages)]
      /\ linked \in [Pod -> BOOLEAN]
      /\ state \subseteq Mesh!Updates /\ list \subseteq Mesh!Updates /\ rows \subseteq Mesh!Updates
      /\ made \in 0..MaxUpdates /\ opens \in 0..MaxOpens /\ drops \in 0..MaxDrops
      /\ heard \in [Pod -> SUBSET Mesh!Updates]
      /\ copies \in [Mesh!Updates -> Nat] /\ loads \in [Mesh!Updates -> Nat]
BY DEF Mesh!TypeOK

(* The inductive invariant, one pod and one update at a time. *)
PodHears(p) ==
    /\ heard[p] \subseteq text[p] \cup Way(p)
    /\ room[p] = "absent" => heard[p] = {}
    /\ room[p] \in {"absent", "loading"} => text[p] = {}
PaidFor(u) == copies[u] <= 1 + loads[u] /\ (u > made => copies[u] <= loads[u])

LEMMA MeshParts ==
    /\ Mesh!MeshInv <=> (\A p \in Pod : PodHears(p)) /\ (\A u \in Mesh!Updates : PaidFor(u))
    /\ Mesh!MeshInv' <=> (\A p \in Pod : PodHears(p)') /\ (\A u \in Mesh!Updates : PaidFor(u)')
<1>1. /\ \A p \in Pod : Mesh!OnTheWay(p) = Way(p)
      /\ \A p \in Pod : Mesh!OnTheWay(p)' = Way(p)'
  BY DEF Mesh!OnTheWay, Way, Elements
<1> QED
  BY <1>1, Zenon DEF Mesh!MeshInv, Mesh!RoomsMissNothing, PodHears, PaidFor

(* No pod has a room, nothing was typed. *)
LEMMA MeshInitial == Mesh!Init => Mesh!TypeOK /\ Mesh!MeshInv
<1> SUFFICES ASSUME Mesh!Init PROVE Mesh!TypeOK /\ Mesh!MeshInv
  OBVIOUS
<1>1. Mesh!TypeOK
  BY MeshAssumption, EmptySeq DEF Mesh!Init, Mesh!TypeOK, Mesh!Updates
<1>2. Mesh!MeshInv
  <2>1. \A p \in Pod : heard[p] = {} /\ text[p] = {}
    BY DEF Mesh!Init
  <2>2. \A u \in Mesh!Updates : copies[u] = 0 /\ loads[u] = 0
    BY DEF Mesh!Init
  <2> QED
    BY <2>1, <2>2 DEF Mesh!MeshInv, Mesh!RoomsMissNothing
<1> QED
  BY <1>1, <1>2

(* A publication follows what is under way to the pods that are linked. *)
LEMMA PublishedReaches ==
    ASSUME NEW p \in Pod, NEW message \in Mesh!Messages, NEW under \in [Pod -> Seq(Mesh!Messages)]
    PROVE  /\ Mesh!Published(p, message, under) \in [Pod -> Seq(Mesh!Messages)]
           /\ \A q \in Pod : Elements(Mesh!Published(p, message, under)[q])
                  = IF linked[p] /\ linked[q] THEN Elements(under[q]) \cup {message} ELSE Elements(under[q])
<1>1. ASSUME NEW q \in Pod
      PROVE  /\ Append(under[q], message) \in Seq(Mesh!Messages)
             /\ Elements(Append(under[q], message)) = Elements(under[q]) \cup {message}
  BY AppendElements
<1> QED
  BY <1>1 DEF Mesh!Published

(* The head of a pod's messages is taken off. *)
LEMMA ReceivedIsTaken ==
    ASSUME Mesh!TypeOK, NEW p \in Pod, bus[p] # <<>>
    PROVE  /\ Mesh!Rest(p) \in [Pod -> Seq(Mesh!Messages)]
           /\ Mesh!Message(p) \in Mesh!Messages
           /\ \A q \in Pod : Elements(bus[q]) = Elements(Mesh!Rest(p)[q])
                                                  \cup (IF q = p THEN {Mesh!Message(p)} ELSE {})
<1>1. bus[p] \in Seq(Mesh!Messages) /\ bus \in [Pod -> Seq(Mesh!Messages)]
  BY DEF Mesh!TypeOK
<1>2. /\ Tail(bus[p]) \in Seq(Mesh!Messages) /\ Head(bus[p]) \in Mesh!Messages
      /\ Elements(bus[p]) = Elements(Tail(bus[p])) \cup {Head(bus[p])}
  BY <1>1, TailElements
<1> QED
  BY <1>1, <1>2 DEF Mesh!Message, Mesh!Rest

(* What handleDocumentUpdate does with the messages that are under way: it *)
(* removes none, who hears of an update has it on the way, and only what   *)
(* did not come from Redis is published.                                   *)
LEMMA UpdateIsSent ==
    ASSUME Mesh!TypeOK, NEW p \in Pod, NEW new \in SUBSET Mesh!Updates, NEW from,
           NEW under \in [Pod -> Seq(Mesh!Messages)], Mesh!DocumentUpdate(p, new, from, under)
    PROVE  /\ list' \subseteq Mesh!Updates /\ bus' \in [Pod -> Seq(Mesh!Messages)]
           /\ heard' \in [Pod -> SUBSET Mesh!Updates] /\ copies' \in [Mesh!Updates -> Nat]
           /\ \A q \in Pod :
                /\ Elements(under[q]) \subseteq Elements(bus'[q])
                /\ heard'[q] \subseteq heard[q] \cup (UNION Elements(bus'[q]))
                /\ room[q] = "absent" => heard'[q] = heard[q]
           /\ \A u \in Mesh!Updates :
                copies'[u] = copies[u] \/ (u \in new /\ from # "redis" /\ copies'[u] = copies[u] + 1)
<1>1. list' \subseteq Mesh!Updates
  BY DEF Mesh!DocumentUpdate, Mesh!TypeOK
<1>2. CASE new # {} /\ Mesh!PublishesFrom(from) /\ linked[p]
  <2>1. /\ bus' = Mesh!Published(p, new, under)
        /\ copies' = Mesh!Counted(copies, new)
        /\ heard' = [q \in Pod |-> IF linked[q] /\ room[q] # "absent" THEN heard[q] \cup new ELSE heard[q]]
    BY <1>2, Zenon DEF Mesh!DocumentUpdate
  <2>2. new \in Mesh!Messages
    BY DEF Mesh!Messages
  <2>3. /\ bus' \in [Pod -> Seq(Mesh!Messages)]
        /\ \A q \in Pod : Elements(bus'[q])
               = IF linked[q] THEN Elements(under[q]) \cup {new} ELSE Elements(under[q])
    <3>1. /\ Mesh!Published(p, new, under) \in [Pod -> Seq(Mesh!Messages)]
          /\ \A q \in Pod : Elements(Mesh!Published(p, new, under)[q])
                = IF linked[p] /\ linked[q] THEN Elements(under[q]) \cup {new} ELSE Elements(under[q])
      BY <2>2, PublishedReaches
    <3> QED
      BY <1>2, <2>1, <3>1
  <2>4. heard' \in [Pod -> SUBSET Mesh!Updates]
    BY <2>1 DEF Mesh!TypeOK
  <2>5. /\ copies' \in [Mesh!Updates -> Nat]
        /\ \A u \in Mesh!Updates : copies'[u] = copies[u] \/ (u \in new /\ copies'[u] = copies[u] + 1)
    BY <2>1 DEF Mesh!TypeOK, Mesh!Counted
  <2>6. ASSUME NEW q \in Pod
        PROVE  /\ Elements(under[q]) \subseteq Elements(bus'[q])
               /\ heard'[q] \subseteq heard[q] \cup (UNION Elements(bus'[q]))
               /\ room[q] = "absent" => heard'[q] = heard[q]
    <3>1. heard'[q] = IF linked[q] /\ room[q] # "absent" THEN heard[q] \cup new ELSE heard[q]
      BY <2>1
    <3>2. linked[q] => new \in Elements(bus'[q])
      BY <2>3
    <3> QED
      BY <2>3, <3>1, <3>2
  <2> QED
    BY <1>1, <1>2, <2>3, <2>4, <2>5, <2>6 DEF Mesh!PublishesFrom
<1>3. CASE ~(new # {} /\ Mesh!PublishesFrom(from) /\ linked[p])
  <2>1. bus' = under /\ copies' = copies /\ heard' = heard
    BY <1>3, Zenon DEF Mesh!DocumentUpdate
  <2> QED
    BY <1>1, <2>1 DEF Mesh!TypeOK
<1> QED
  BY <1>2, <1>3

(* Set algebra: what was under way to a pod is in its text or still so.    *)
LEMMA BothWays ==
    ASSUME NEW text1, NEW bus0, NEW under0, NEW bus1, NEW wait0, NEW wait1,
           bus0 \subseteq text1 \cup under0, under0 \subseteq bus1, wait0 \subseteq text1 \cup wait1
    PROVE  bus0 \cup wait0 \subseteq text1 \cup (bus1 \cup wait1)
OBVIOUS

(* A pod keeps its invariant when it loses neither text nor messages.      *)
LEMMA StillHears ==
    ASSUME NEW q \in Pod, PodHears(q), text[q] \subseteq text'[q],
           Way(q) \subseteq text'[q] \cup Way(q)', heard'[q] \subseteq heard[q] \cup Way(q)',
           room'[q] = "absent" => heard'[q] = {}, room'[q] \in {"absent", "loading"} => text'[q] = {}
    PROVE  PodHears(q)'
BY DEF PodHears

(* The room of a pod takes what it has read or was sent, and publishes it  *)
(* unless it came from there: LoadState, LoadRows, Resume, Edit and        *)
(* ReceiveUpdate. *)
LEMMA RoomTakes ==
    ASSUME Mesh!TypeOK, Mesh!MeshInv, NEW p \in Pod, NEW new \in SUBSET Mesh!Updates, NEW from,
           NEW under \in [Pod -> Seq(Mesh!Messages)], Mesh!DocumentUpdate(p, new, from, under),
           room[p] # "absent", room'[p] # "loading", room'[p] # "absent",
           \A q \in Pod : q # p => room'[q] = room[q] /\ text'[q] = text[q] /\ awaiting'[q] = awaiting[q],
           text[p] \subseteq text'[p],
           \A q \in Pod : (UNION Elements(bus[q])) \subseteq (IF q = p THEN text'[q] ELSE {}) \cup (UNION Elements(under[q])),
           (UNION Elements(awaiting[p])) \subseteq text'[p] \cup (UNION Elements(awaiting'[p]))
    PROVE  \A q \in Pod : PodHears(q)'
<1> TAKE q \in Pod
<1>1. PodHears(q)
  BY MeshParts
<1>2. /\ Elements(under[q]) \subseteq Elements(bus'[q])
      /\ heard'[q] \subseteq heard[q] \cup (UNION Elements(bus'[q]))
      /\ room[q] = "absent" => heard'[q] = heard[q]
  BY UpdateIsSent
<1>3. (UNION Elements(under[q])) \subseteq (UNION Elements(bus'[q]))
  BY <1>2
<1>4. Way(q)' = (UNION Elements(bus'[q])) \cup (UNION Elements(awaiting'[q]))
  BY DEF Way, Elements
<1>5. text[q] \subseteq text'[q]
  BY Zenon
<1>6. (UNION Elements(awaiting[q])) \subseteq text'[q] \cup (UNION Elements(awaiting'[q]))
  BY Zenon
<1>7. Way(q) \subseteq text'[q] \cup Way(q)' /\ heard'[q] \subseteq heard[q] \cup Way(q)'
  <2>1. Way(q) = (UNION Elements(bus[q])) \cup (UNION Elements(awaiting[q]))
    BY DEF Way
  <2>2. (UNION Elements(bus[q])) \subseteq text'[q] \cup (UNION Elements(under[q]))
    BY Zenon
  <2>3. Way(q) \subseteq text'[q] \cup Way(q)'
    <3>1. (UNION Elements(bus[q])) \cup (UNION Elements(awaiting[q]))
            \subseteq text'[q] \cup ((UNION Elements(bus'[q])) \cup (UNION Elements(awaiting'[q])))
      BY <2>2, <1>3, <1>6, BothWays, Zenon
    <3> QED
      BY <2>1, <1>4, <3>1, Zenon
  <2> QED
    BY <1>2, <1>4, <2>3, Zenon
<1>8. room'[q] = "absent" => heard'[q] = {}
  BY <1>1, <1>2 DEF PodHears
<1>9. room'[q] \in {"absent", "loading"} => text'[q] = {}
  BY <1>1 DEF PodHears
<1> QED
  BY <1>1, <1>5, <1>7, <1>8, <1>9, StillHears

(* A room's load pays for what it publishes. *)
LEMMA LoadPays ==
    ASSUME Mesh!TypeOK, Mesh!MeshInv, NEW p \in Pod, NEW new \in SUBSET Mesh!Updates, NEW from,
           NEW under \in [Pod -> Seq(Mesh!Messages)], Mesh!DocumentUpdate(p, new, from, under),
           made' = made, loads' = Mesh!Counted(loads, new)
    PROVE  loads' \in [Mesh!Updates -> Nat] /\ \A u \in Mesh!Updates : PaidFor(u)'
<1>1. \A u \in Mesh!Updates : copies'[u] = copies[u] \/ (u \in new /\ copies'[u] = copies[u] + 1)
  BY UpdateIsSent
<1>2. loads' \in [Mesh!Updates -> Nat] /\ \A u \in Mesh!Updates : loads'[u] = IF u \in new THEN loads[u] + 1 ELSE loads[u]
  BY DEF Mesh!Counted, Mesh!TypeOK
<1>3. \A u \in Mesh!Updates : copies[u] \in Nat /\ loads[u] \in Nat /\ PaidFor(u)
  BY MeshParts DEF Mesh!TypeOK
<1>4. ASSUME NEW u \in Mesh!Updates PROVE PaidFor(u)'
  <2>1. copies[u] \in Nat /\ loads[u] \in Nat /\ loads'[u] \in Nat
    BY <1>2, <1>3
  <2>2. copies[u] <= 1 + loads[u] /\ (u > made => copies[u] <= loads[u])
    BY <1>3 DEF PaidFor
  <2>3. CASE u \in new
    BY <1>1, <1>2, <2>1, <2>2, <2>3 DEF PaidFor
  <2>4. CASE u \notin new
    BY <1>1, <1>2, <2>1, <2>2, <2>4 DEF PaidFor
  <2> QED
    BY <2>3, <2>4
<1> QED
  BY <1>2, <1>4

(* What comes from Redis is not published again. *)
LEMMA RedisPays ==
    ASSUME Mesh!TypeOK, Mesh!MeshInv, NEW p \in Pod, NEW new \in SUBSET Mesh!Updates,
           NEW under \in [Pod -> Seq(Mesh!Messages)], Mesh!DocumentUpdate(p, new, "redis", under),
           made' = made, loads' = loads
    PROVE  \A u \in Mesh!Updates : PaidFor(u)'
<1>1. \A u \in Mesh!Updates : copies'[u] = copies[u]
  BY UpdateIsSent
<1>2. \A u \in Mesh!Updates : PaidFor(u)
  BY MeshParts
<1> QED
  BY <1>1, <1>2 DEF PaidFor

(* Whatever a pod does, the updates a room has heard of are in its text or *)
(* on their way to it, and no copy is published but by a load. *)
LEMMA MeshStep ==
    ASSUME Mesh!TypeOK, Mesh!MeshInv, [Mesh!Next]_meshVars
    PROVE  Mesh!TypeOK' /\ Mesh!MeshInv'
<1> DEFINE Good == (\A p \in Pod : PodHears(p)) /\ (\A u \in Mesh!Updates : PaidFor(u))
<1>a. Good
  BY MeshParts
<1>t. /\ room \in [Pod -> {"absent", "loading", "replaying", "live"}]
      /\ text \in [Pod -> SUBSET Mesh!Updates] /\ answer \in [Pod -> SUBSET Mesh!Updates]
      /\ awaiting \in [Pod -> Seq(SUBSET Mesh!Updates)]
      /\ bus \in [Pod -> Seq(Mesh!Messages)]
      /\ linked \in [Pod -> BOOLEAN]
      /\ state \subseteq Mesh!Updates /\ list \subseteq Mesh!Updates /\ rows \subseteq Mesh!Updates
      /\ made \in 0..MaxUpdates /\ opens \in 0..MaxOpens /\ drops \in 0..MaxDrops
      /\ heard \in [Pod -> SUBSET Mesh!Updates]
      /\ copies \in [Mesh!Updates -> Nat] /\ loads \in [Mesh!Updates -> Nat]
  BY MeshTypes
<1> SUFFICES Mesh!TypeOK' /\ Good'
  BY MeshParts
<1> USE MeshAssumption
<1>h. \A q \in Pod : PodHears(q)
  BY <1>a
<1>p. \A u \in Mesh!Updates : PaidFor(u)
  BY <1>a
<1>u. Mesh!Updates' = Mesh!Updates /\ Mesh!Messages' = Mesh!Messages
  BY DEF Mesh!Updates, Mesh!Messages
<1>1. CASE Mesh!FlushList
  <2>1. /\ rows' = rows \cup list /\ list' = {}
        /\ UNCHANGED <<room, text, answer, awaiting, bus, linked, state, made, opens, drops, heard, copies, loads>>
    BY <1>1 DEF Mesh!FlushList, Mesh!bounds
  <2>2. \A q \in Pod : PodHears(q)'
    BY <2>1, <1>h DEF PodHears, Way
  <2>3. \A u \in Mesh!Updates : PaidFor(u)'
    BY <2>1, <1>p DEF PaidFor
  <2> QED
    BY <2>1, <2>2, <2>3, <1>t, <1>u, MeshTypes DEF Mesh!TypeOK
<1>2. ASSUME NEW p \in Pod, Mesh!Register(p) PROVE Mesh!TypeOK' /\ Good'
  <2>1. /\ room[p] = "absent" /\ opens < MaxOpens /\ opens' = opens + 1
        /\ room' = [room EXCEPT ![p] = "loading"] /\ answer' = [answer EXCEPT ![p] = state]
        /\ UNCHANGED <<text, awaiting, bus, linked, state, rows, list, made, drops, heard, copies, loads>>
    BY <1>2 DEF Mesh!Register, Mesh!stored
  <2>2. \A q \in Pod : PodHears(q)'
    BY <2>1, <1>h, <1>t DEF PodHears, Way
  <2>3. \A u \in Mesh!Updates : PaidFor(u)'
    BY <2>1, <1>p DEF PaidFor
  <2>4. opens' \in 0..MaxOpens
    BY <2>1, <1>t
  <2> QED
    BY <2>1, <2>2, <2>3, <2>4, <1>t, <1>u DEF Mesh!TypeOK
<1>3. ASSUME NEW p \in Pod, Mesh!LoadState(p) PROVE Mesh!TypeOK' /\ Good'
  <2>1. /\ room[p] = "loading" /\ room' = [room EXCEPT ![p] = "replaying"]
        /\ text' = [text EXCEPT ![p] = answer[p]] /\ answer' = [answer EXCEPT ![p] = rows]
        /\ loads' = Mesh!Counted(loads, answer[p])
        /\ UNCHANGED <<awaiting, linked, state, rows, made, opens, drops>>
    BY <1>3 DEF Mesh!LoadState, Mesh!stored, Mesh!bounds
  <2>2. Mesh!DocumentUpdate(p, answer[p], "load", bus)
    <3>1. Mesh!DocumentUpdate(p, text'[p], "load", bus)
      BY <1>3 DEF Mesh!LoadState
    <3>2. text'[p] = answer[p]
      BY <2>1, <1>t
    <3> QED
      BY <3>1, <3>2
  <2>3. answer[p] \in SUBSET Mesh!Updates
    BY <1>t
  <2>4. /\ list' \subseteq Mesh!Updates /\ bus' \in [Pod -> Seq(Mesh!Messages)]
        /\ heard' \in [Pod -> SUBSET Mesh!Updates] /\ copies' \in [Mesh!Updates -> Nat]
    BY <2>2, <2>3, <1>t, UpdateIsSent, Zenon
  <2>5. loads' \in [Mesh!Updates -> Nat] /\ \A u \in Mesh!Updates : PaidFor(u)'
    BY <2>1, <2>2, <2>3, <1>t, LoadPays, Zenon
  <2>6. \A q \in Pod : PodHears(q)'
    <3>1. /\ room[p] # "absent" /\ room'[p] # "absent" /\ room'[p] # "loading"
          /\ text[p] = {} /\ awaiting'[p] = awaiting[p]
      BY <2>1, <1>t, <1>h DEF PodHears
    <3>2. \A q \in Pod : q # p => room'[q] = room[q] /\ text'[q] = text[q] /\ awaiting'[q] = awaiting[q]
      BY <2>1, <1>t
    <3>3. text[p] \subseteq text'[p] /\ (UNION Elements(awaiting[p])) \subseteq text'[p] \cup (UNION Elements(awaiting'[p]))
      BY <3>1
    <3>4. \A q \in Pod : (UNION Elements(bus[q])) \subseteq (IF q = p THEN text'[q] ELSE {}) \cup (UNION Elements(bus[q]))
      OBVIOUS
    <3>5. bus \in [Pod -> Seq(Mesh!Messages)]
      BY <1>t
    <3> QED
      BY <2>2, <2>3, <3>1, <3>2, <3>3, <3>4, <3>5, RoomTakes
  <2>7. room' \in [Pod -> {"absent", "loading", "replaying", "live"}]
        /\ text' \in [Pod -> SUBSET Mesh!Updates] /\ answer' \in [Pod -> SUBSET Mesh!Updates]
    BY <2>1, <1>t
  <2> QED
    BY <2>1, <2>4, <2>5, <2>6, <2>7, <1>t, <1>u DEF Mesh!TypeOK
<1>4. ASSUME NEW p \in Pod, Mesh!LoadRows(p) PROVE Mesh!TypeOK' /\ Good'
  <2> DEFINE new == answer[p] \ text[p]
  <2>1. /\ room[p] = "replaying" /\ room' = [room EXCEPT ![p] = "live"]
        /\ text' = [text EXCEPT ![p] = @ \cup new] /\ answer' = [answer EXCEPT ![p] = {}]
        /\ loads' = Mesh!Counted(loads, new)
        /\ UNCHANGED <<awaiting, linked, state, rows, made, opens, drops>>
    BY <1>4 DEF Mesh!LoadRows, Mesh!stored, Mesh!bounds
  <2>2. Mesh!DocumentUpdate(p, new, "load", bus)
    BY <1>4 DEF Mesh!LoadRows
  <2>3. new \in SUBSET Mesh!Updates
    BY <1>t
  <2> HIDE DEF new
  <2>4. /\ list' \subseteq Mesh!Updates /\ bus' \in [Pod -> Seq(Mesh!Messages)]
        /\ heard' \in [Pod -> SUBSET Mesh!Updates] /\ copies' \in [Mesh!Updates -> Nat]
    BY <2>2, <2>3, <1>t, UpdateIsSent, Zenon
  <2>5. loads' \in [Mesh!Updates -> Nat] /\ \A u \in Mesh!Updates : PaidFor(u)'
    BY <2>1, <2>2, <2>3, <1>t, LoadPays, Zenon
  <2>6. \A q \in Pod : PodHears(q)'
    <3>1. /\ room[p] # "absent" /\ room'[p] # "absent" /\ room'[p] # "loading"
          /\ text[p] \subseteq text'[p] /\ awaiting'[p] = awaiting[p]
      BY <2>1, <1>t
    <3>2. \A q \in Pod : q # p => room'[q] = room[q] /\ text'[q] = text[q] /\ awaiting'[q] = awaiting[q]
      BY <2>1, <1>t
    <3>3. (UNION Elements(awaiting[p])) \subseteq text'[p] \cup (UNION Elements(awaiting'[p]))
      BY <3>1
    <3>4. \A q \in Pod : (UNION Elements(bus[q])) \subseteq (IF q = p THEN text'[q] ELSE {}) \cup (UNION Elements(bus[q]))
      OBVIOUS
    <3>5. bus \in [Pod -> Seq(Mesh!Messages)]
      BY <1>t
    <3> QED
      BY <2>2, <2>3, <3>1, <3>2, <3>3, <3>4, <3>5, RoomTakes
  <2>7. room' \in [Pod -> {"absent", "loading", "replaying", "live"}]
        /\ text' \in [Pod -> SUBSET Mesh!Updates] /\ answer' \in [Pod -> SUBSET Mesh!Updates]
    BY <2>1, <2>3, <1>t
  <2> QED
    BY <2>1, <2>4, <2>5, <2>6, <2>7, <1>t, <1>u DEF Mesh!TypeOK
<1>5. ASSUME NEW p \in Pod, Mesh!Resume(p) PROVE Mesh!TypeOK' /\ Good'
  <2> DEFINE message == Head(awaiting[p])
  <2>1. /\ room[p] = "live" /\ awaiting[p] # <<>>
        /\ awaiting' = [awaiting EXCEPT ![p] = Tail(@)]
        /\ text' = [text EXCEPT ![p] = @ \cup message]
        /\ Mesh!DocumentUpdate(p, message \ text[p], "redis", bus)
        /\ UNCHANGED <<room, answer, linked, state, rows, made, opens, drops, loads>>
    BY <1>5 DEF Mesh!Resume, Mesh!ApplyFromRedis, Mesh!stored, Mesh!bounds
  <2>2. /\ awaiting'[p] = Tail(awaiting[p]) /\ Tail(awaiting[p]) \in Seq(SUBSET Mesh!Updates)
        /\ message \in SUBSET Mesh!Updates
        /\ Elements(awaiting[p]) = Elements(Tail(awaiting[p])) \cup {message}
    <3>1. awaiting[p] \in Seq(SUBSET Mesh!Updates)
      BY <1>t
    <3>2. /\ Tail(awaiting[p]) \in Seq(SUBSET Mesh!Updates) /\ message \in SUBSET Mesh!Updates
          /\ Elements(awaiting[p]) = Elements(Tail(awaiting[p])) \cup {message}
      BY <2>1, <3>1, TailElements, Zenon
    <3>3. awaiting'[p] = Tail(awaiting[p])
      BY <2>1, <1>t
    <3> QED
      BY <3>2, <3>3, Zenon
  <2> HIDE DEF message
  <2>3. message \ text[p] \in SUBSET Mesh!Updates
    BY <2>2
  <2>4. /\ list' \subseteq Mesh!Updates /\ bus' \in [Pod -> Seq(Mesh!Messages)]
        /\ heard' \in [Pod -> SUBSET Mesh!Updates] /\ copies' \in [Mesh!Updates -> Nat]
    BY <2>1, <2>3, <1>t, UpdateIsSent, Zenon
  <2>5. \A u \in Mesh!Updates : PaidFor(u)'
    BY <2>1, <2>3, <1>t, RedisPays, Zenon
  <2>6. \A q \in Pod : PodHears(q)'
    <3>1. /\ room[p] # "absent" /\ room'[p] # "absent" /\ room'[p] # "loading"
          /\ text'[p] = text[p] \cup message
      BY <2>1, <1>t
    <3>2. \A q \in Pod : q # p => room'[q] = room[q] /\ text'[q] = text[q] /\ awaiting'[q] = awaiting[q]
      BY <2>1, <1>t
    <3>3. text[p] \subseteq text'[p] /\ (UNION Elements(awaiting[p])) \subseteq text'[p] \cup (UNION Elements(awaiting'[p]))
      BY <2>2, <3>1
    <3>4. \A q \in Pod : (UNION Elements(bus[q])) \subseteq (IF q = p THEN text'[q] ELSE {}) \cup (UNION Elements(bus[q]))
      OBVIOUS
    <3>5. bus \in [Pod -> Seq(Mesh!Messages)]
      BY <1>t
    <3>6. Mesh!DocumentUpdate(p, message \ text[p], "redis", bus)
      BY <2>1
    <3> QED
      BY <2>3, <3>1, <3>2, <3>3, <3>4, <3>5, <3>6, RoomTakes
  <2>7. text' \in [Pod -> SUBSET Mesh!Updates] /\ awaiting' \in [Pod -> Seq(SUBSET Mesh!Updates)]
    BY <2>1, <2>2, <1>t
  <2> QED
    BY <2>1, <2>4, <2>5, <2>6, <2>7, <1>t, <1>u DEF Mesh!TypeOK
<1>6. ASSUME NEW p \in Pod, Mesh!Edit(p) PROVE Mesh!TypeOK' /\ Good'
  <2>1. /\ room[p] = "live" /\ made < MaxUpdates /\ made' = made + 1
        /\ text' = [text EXCEPT ![p] = @ \cup {made'}]
        /\ Mesh!DocumentUpdate(p, {made'}, "editor", bus)
        /\ UNCHANGED <<room, answer, awaiting, linked, state, rows, opens, drops, loads>>
    BY <1>6 DEF Mesh!Edit, Mesh!Live, Mesh!stored
  <2>2. made' \in Mesh!Updates /\ made' \in 0..MaxUpdates /\ {made'} \in SUBSET Mesh!Updates
    BY <2>1, <1>t DEF Mesh!Updates
  <2>3. /\ list' \subseteq Mesh!Updates /\ bus' \in [Pod -> Seq(Mesh!Messages)]
        /\ heard' \in [Pod -> SUBSET Mesh!Updates] /\ copies' \in [Mesh!Updates -> Nat]
        /\ \A u \in Mesh!Updates :
             copies'[u] = copies[u] \/ (u \in {made'} /\ copies'[u] = copies[u] + 1)
    BY <2>1, <2>2, <1>t, UpdateIsSent, Zenon
  <2>4. ASSUME NEW u \in Mesh!Updates PROVE PaidFor(u)'
    <3>1. /\ copies[u] \in Nat /\ loads[u] \in Nat /\ loads' = loads /\ u \in Nat /\ made \in Nat
          /\ copies[u] <= 1 + loads[u] /\ (u > made => copies[u] <= loads[u])
      BY <1>p, <1>t, <2>1 DEF PaidFor, Mesh!Updates
    <3>2. copies'[u] = copies[u] \/ (u = made + 1 /\ copies'[u] = copies[u] + 1)
      BY <2>1, <2>3
    <3> QED
      BY <2>1, <3>1, <3>2 DEF PaidFor
  <2>5. \A q \in Pod : PodHears(q)'
    <3>1. /\ room[p] # "absent" /\ room'[p] # "absent" /\ room'[p] # "loading"
          /\ text[p] \subseteq text'[p] /\ awaiting'[p] = awaiting[p]
      BY <2>1, <1>t
    <3>2. \A q \in Pod : q # p => room'[q] = room[q] /\ text'[q] = text[q] /\ awaiting'[q] = awaiting[q]
      BY <2>1, <1>t
    <3>3. (UNION Elements(awaiting[p])) \subseteq text'[p] \cup (UNION Elements(awaiting'[p]))
      BY <3>1
    <3>4. \A q \in Pod : (UNION Elements(bus[q])) \subseteq (IF q = p THEN text'[q] ELSE {}) \cup (UNION Elements(bus[q]))
      OBVIOUS
    <3>5. bus \in [Pod -> Seq(Mesh!Messages)]
      BY <1>t
    <3>6. Mesh!DocumentUpdate(p, {made'}, "editor", bus)
      BY <2>1
    <3> QED
      BY <2>2, <3>1, <3>2, <3>3, <3>4, <3>5, <3>6, RoomTakes
  <2>6. text' \in [Pod -> SUBSET Mesh!Updates]
    BY <2>1, <2>2, <1>t
  <2> QED
    BY <2>1, <2>2, <2>3, <2>4, <2>5, <2>6, <1>t, <1>u DEF Mesh!TypeOK
<1>7. ASSUME NEW p \in Pod, Mesh!Save(p) PROVE Mesh!TypeOK' /\ Good'
  <2>1. /\ state' = text[p]
        /\ UNCHANGED <<room, text, answer, awaiting, bus, linked, list, rows, made, opens, drops, heard, copies, loads>>
    BY <1>7 DEF Mesh!Save, Mesh!bounds
  <2>2. \A q \in Pod : PodHears(q)'
    BY <2>1, <1>h DEF PodHears, Way
  <2>3. \A u \in Mesh!Updates : PaidFor(u)'
    BY <2>1, <1>p DEF PaidFor
  <2> QED
    BY <2>1, <2>2, <2>3, <1>t, <1>u DEF Mesh!TypeOK
<1>f. ASSUME NEW p \in Pod, Mesh!Forget(p), awaiting' = awaiting,
             made' = made, copies' = copies, loads' = loads,
             \A q \in Pod : q # p => (UNION Elements(bus[q])) \subseteq (UNION Elements(bus'[q]))
      PROVE  Good' /\ room' \in [Pod -> {"absent", "loading", "replaying", "live"}]
             /\ text' \in [Pod -> SUBSET Mesh!Updates] /\ heard' \in [Pod -> SUBSET Mesh!Updates]
  <2>1. /\ room' = [room EXCEPT ![p] = "absent"] /\ text' = [text EXCEPT ![p] = {}]
        /\ heard' = [heard EXCEPT ![p] = {}]
    BY <1>f DEF Mesh!Forget
  <2>2. ASSUME NEW q \in Pod PROVE PodHears(q)'
    <3>1. CASE q = p
      BY <2>1, <3>1, <1>t DEF PodHears
    <3>2. CASE q # p
      <4>1. room'[q] = room[q] /\ text'[q] = text[q] /\ heard'[q] = heard[q]
        BY <2>1, <3>2, <1>t
      <4>2. Way(q)' = (UNION Elements(bus'[q])) \cup (UNION Elements(awaiting[q]))
        BY <1>f DEF Way, Elements
      <4>3. Way(q) \subseteq Way(q)'
        <5>1. Way(q) = (UNION Elements(bus[q])) \cup (UNION Elements(awaiting[q]))
          BY DEF Way
        <5> QED
          BY <1>f, <3>2, <4>2, <5>1, Zenon
      <4> QED
        BY <4>1, <4>3, <1>h DEF PodHears
    <3> QED
      BY <3>1, <3>2
  <2>3. \A u \in Mesh!Updates : PaidFor(u)'
    BY <1>f, <1>p DEF PaidFor
  <2> QED
    BY <2>1, <2>2, <2>3, <1>t
<1>8. ASSUME NEW p \in Pod, Mesh!Leave(p) PROVE Mesh!TypeOK' /\ Good'
  <2>1. /\ state' = text[p] /\ Mesh!Forget(p)
        /\ UNCHANGED <<answer, awaiting, bus, linked, list, rows, made, opens, drops, copies, loads>>
    BY <1>8 DEF Mesh!Leave, Mesh!bounds
  <2> QED
    BY <2>1, <1>f, <1>t, <1>u DEF Mesh!TypeOK
<1>r. ASSUME NEW p \in Pod, bus[p] # <<>>
      PROVE  /\ Mesh!Rest(p) \in [Pod -> Seq(Mesh!Messages)] /\ Mesh!Message(p) \in Mesh!Messages
             /\ \A q \in Pod : q # p => Elements(bus[q]) = Elements(Mesh!Rest(p)[q])
             /\ Elements(bus[p]) = Elements(Mesh!Rest(p)[p]) \cup {Mesh!Message(p)}
  <2>1. /\ Mesh!Rest(p) \in [Pod -> Seq(Mesh!Messages)] /\ Mesh!Message(p) \in Mesh!Messages
        /\ \A q \in Pod : Elements(bus[q]) = Elements(Mesh!Rest(p)[q])
                                              \cup (IF q = p THEN {Mesh!Message(p)} ELSE {})
    BY <1>r, ReceivedIsTaken, Zenon
  <2>2. \A q \in Pod : q # p => Elements(bus[q]) = Elements(Mesh!Rest(p)[q])
    <3> TAKE q \in Pod
    <3> HAVE q # p
    <3>1. Elements(bus[q]) = Elements(Mesh!Rest(p)[q]) \cup {}
      BY <2>1
    <3> QED
      BY <3>1
  <2>3. Elements(bus[p]) = Elements(Mesh!Rest(p)[p]) \cup {Mesh!Message(p)}
    BY <2>1
  <2> QED
    BY <2>1, <2>2, <2>3, Zenon
<1>9. ASSUME NEW p \in Pod, Mesh!ReceiveAbsent(p) PROVE Mesh!TypeOK' /\ Good'
  <2>1. /\ bus[p] # <<>> /\ room[p] = "absent" /\ bus' = Mesh!Rest(p)
        /\ UNCHANGED <<room, text, answer, awaiting, linked, state, rows, list, made, opens, drops, heard, copies, loads>>
    BY <1>9 DEF Mesh!ReceiveAbsent, Mesh!stored, Mesh!bounds
  <2>2. bus' \in [Pod -> Seq(Mesh!Messages)] /\ \A q \in Pod : q # p => Elements(bus'[q]) = Elements(bus[q])
    BY <2>1, <1>r
  <2>3. ASSUME NEW q \in Pod PROVE PodHears(q)'
    <3>1. CASE q = p
      BY <2>1, <3>1, <1>h DEF PodHears
    <3>2. CASE q # p
      <4>1. Way(q)' = Way(q)
        BY <2>1, <2>2, <3>2 DEF Way, Elements
      <4> QED
        BY <2>1, <4>1, <1>h DEF PodHears
    <3> QED
      BY <3>1, <3>2
  <2>4. \A u \in Mesh!Updates : PaidFor(u)'
    BY <2>1, <1>p DEF PaidFor
  <2> QED
    BY <2>1, <2>2, <2>3, <2>4, <1>t, <1>u DEF Mesh!TypeOK
<1>10. ASSUME NEW p \in Pod, Mesh!ReceiveLoading(p) PROVE Mesh!TypeOK' /\ Good'
  <2>1. /\ bus[p] # <<>> /\ Mesh!Message(p) # Mesh!Evict /\ bus' = Mesh!Rest(p)
        /\ awaiting' = [awaiting EXCEPT ![p] = Append(awaiting[p], Mesh!Message(p))]
        /\ UNCHANGED <<room, text, answer, linked, state, rows, list, made, opens, drops, heard, copies, loads>>
    BY <1>10 DEF Mesh!ReceiveLoading, Mesh!AwaitedBy, Mesh!stored, Mesh!bounds
  <2>2. /\ bus' \in [Pod -> Seq(Mesh!Messages)]
        /\ \A q \in Pod : q # p => Elements(bus'[q]) = Elements(bus[q])
        /\ Elements(bus[p]) = Elements(bus'[p]) \cup {Mesh!Message(p)}
    BY <2>1, <1>r
  <2>3. Mesh!Message(p) \in SUBSET Mesh!Updates
    BY <2>1, <1>r DEF Mesh!Messages
  <2>4. /\ Append(awaiting[p], Mesh!Message(p)) \in Seq(SUBSET Mesh!Updates)
        /\ Elements(Append(awaiting[p], Mesh!Message(p))) = Elements(awaiting[p]) \cup {Mesh!Message(p)}
    <3>1. awaiting[p] \in Seq(SUBSET Mesh!Updates)
      BY <1>t
    <3> QED
      BY <3>1, <2>3, AppendElements
  <2>5. awaiting' \in [Pod -> Seq(SUBSET Mesh!Updates)]
    BY <2>1, <2>4, <1>t
  <2>6. ASSUME NEW q \in Pod PROVE PodHears(q)'
    <3>1. Way(q)' = (UNION Elements(bus'[q])) \cup (UNION Elements(awaiting'[q]))
      BY DEF Way, Elements
    <3>2. Way(q) = (UNION Elements(bus[q])) \cup (UNION Elements(awaiting[q]))
      BY DEF Way
    <3>3. CASE q = p
      <4>1. Elements(awaiting'[q]) = Elements(awaiting[q]) \cup {Mesh!Message(p)}
        BY <2>1, <2>4, <3>3, <1>t
      <4>2. Way(q) \subseteq Way(q)'
        <5>1. (UNION Elements(bus[q])) = (UNION Elements(bus'[q])) \cup Mesh!Message(p)
          BY <2>2, <3>3
        <5>2. (UNION Elements(awaiting'[q])) = (UNION Elements(awaiting[q])) \cup Mesh!Message(p)
          BY <4>1
        <5>3. (UNION Elements(bus[q])) \cup (UNION Elements(awaiting[q]))
                = (UNION Elements(bus'[q])) \cup (UNION Elements(awaiting'[q]))
          BY <5>1, <5>2
        <5> QED
          BY <3>1, <3>2, <5>3, Zenon
      <4> QED
        BY <2>1, <4>2, <1>h DEF PodHears
    <3>4. CASE q # p
      <4>1. awaiting'[q] = awaiting[q]
        BY <2>1, <3>4, <1>t
      <4>2. Way(q)' = Way(q)
        BY <2>2, <3>1, <3>2, <3>4, <4>1
      <4> QED
        BY <2>1, <4>2, <1>h DEF PodHears
    <3> QED
      BY <3>3, <3>4
  <2>7. \A u \in Mesh!Updates : PaidFor(u)'
    BY <2>1, <1>p DEF PaidFor
  <2> QED
    BY <2>1, <2>2, <2>5, <2>6, <2>7, <1>t, <1>u DEF Mesh!TypeOK
<1>11. ASSUME NEW p \in Pod, Mesh!ReceiveUpdate(p) PROVE Mesh!TypeOK' /\ Good'
  <2> DEFINE message == Mesh!Message(p)  rest == Mesh!Rest(p)
  <2>1. /\ room[p] = "live" /\ bus[p] # <<>> /\ message # Mesh!Evict
        /\ text' = [text EXCEPT ![p] = @ \cup message]
        /\ Mesh!DocumentUpdate(p, message \ text[p], "redis", rest)
        /\ UNCHANGED <<room, answer, awaiting, linked, state, rows, made, opens, drops, loads>>
    BY <1>11 DEF Mesh!ReceiveUpdate, Mesh!ApplyFromRedis, Mesh!Live, Mesh!stored, Mesh!bounds
  <2>2. /\ rest \in [Pod -> Seq(Mesh!Messages)] /\ message \in SUBSET Mesh!Updates
        /\ \A q \in Pod : q # p => Elements(bus[q]) = Elements(rest[q])
        /\ Elements(bus[p]) = Elements(rest[p]) \cup {message}
    BY <2>1, <1>r DEF Mesh!Messages
  <2> HIDE DEF message, rest
  <2>3. message \ text[p] \in SUBSET Mesh!Updates
    BY <2>2
  <2>4. /\ list' \subseteq Mesh!Updates /\ bus' \in [Pod -> Seq(Mesh!Messages)]
        /\ heard' \in [Pod -> SUBSET Mesh!Updates] /\ copies' \in [Mesh!Updates -> Nat]
    BY <2>1, <2>2, <2>3, UpdateIsSent, Zenon
  <2>5. \A u \in Mesh!Updates : PaidFor(u)'
    BY <2>1, <2>2, <2>3, RedisPays, Zenon
  <2>6. \A q \in Pod : PodHears(q)'
    <3>1. /\ room[p] # "absent" /\ room'[p] # "absent" /\ room'[p] # "loading"
          /\ text'[p] = text[p] \cup message /\ awaiting'[p] = awaiting[p]
      BY <2>1, <1>t
    <3>2. \A q \in Pod : q # p => room'[q] = room[q] /\ text'[q] = text[q] /\ awaiting'[q] = awaiting[q]
      BY <2>1, <1>t
    <3>3. text[p] \subseteq text'[p] /\ (UNION Elements(awaiting[p])) \subseteq text'[p] \cup (UNION Elements(awaiting'[p]))
      BY <3>1
    <3>4. \A q \in Pod : (UNION Elements(bus[q])) \subseteq (IF q = p THEN text'[q] ELSE {}) \cup (UNION Elements(rest[q]))
      BY <2>2, <3>1
    <3>5. Mesh!DocumentUpdate(p, message \ text[p], "redis", rest)
      BY <2>1
    <3> QED
      BY <2>2, <2>3, <3>1, <3>2, <3>3, <3>4, <3>5, RoomTakes
  <2>7. text' \in [Pod -> SUBSET Mesh!Updates]
    BY <2>1, <2>2, <1>t
  <2> QED
    BY <2>1, <2>4, <2>5, <2>6, <2>7, <1>t, <1>u DEF Mesh!TypeOK
<1>12. ASSUME NEW p \in Pod, Mesh!EvictHere(p) PROVE Mesh!TypeOK' /\ Good'
  <2>1. /\ drops < MaxDrops /\ drops' = drops + 1 /\ Mesh!Forget(p)
        /\ bus' = Mesh!Published(p, Mesh!Evict, bus)
        /\ UNCHANGED <<answer, awaiting, linked, state, rows, list, made, opens, copies, loads>>
    BY <1>12 DEF Mesh!EvictHere, Mesh!stored
  <2>2. Mesh!Evict \in Mesh!Messages /\ bus \in [Pod -> Seq(Mesh!Messages)]
    BY <1>t DEF Mesh!Messages
  <2>3. /\ bus' \in [Pod -> Seq(Mesh!Messages)]
        /\ \A q \in Pod : Elements(bus[q]) \subseteq Elements(bus'[q])
    <3>1. /\ Mesh!Published(p, Mesh!Evict, bus) \in [Pod -> Seq(Mesh!Messages)]
          /\ \A q \in Pod : Elements(Mesh!Published(p, Mesh!Evict, bus)[q])
                = IF linked[p] /\ linked[q] THEN Elements(bus[q]) \cup {Mesh!Evict} ELSE Elements(bus[q])
      BY <2>2, PublishedReaches, Zenon
    <3>2. \A q \in Pod : Elements(bus[q]) \subseteq Elements(Mesh!Published(p, Mesh!Evict, bus)[q])
      <4> TAKE q \in Pod
      <4> QED
        BY <3>1
    <3> QED
      BY <2>1, <3>1, <3>2, Zenon
  <2>4. \A q \in Pod : (UNION Elements(bus[q])) \subseteq (UNION Elements(bus'[q]))
    BY <2>3
  <2>5. drops' \in 0..MaxDrops
    BY <2>1, <1>t
  <2> QED
    BY <2>1, <2>3, <2>4, <2>5, <1>f, <1>t, <1>u DEF Mesh!TypeOK
<1>13. ASSUME NEW p \in Pod, Mesh!ReceiveEvict(p) PROVE Mesh!TypeOK' /\ Good'
  <2>1. /\ bus[p] # <<>> /\ Mesh!Forget(p) /\ bus' = Mesh!Rest(p)
        /\ UNCHANGED <<answer, awaiting, linked, state, rows, list, made, opens, drops, copies, loads>>
    BY <1>13 DEF Mesh!ReceiveEvict, Mesh!stored, Mesh!bounds
  <2>2. /\ bus' \in [Pod -> Seq(Mesh!Messages)]
        /\ \A q \in Pod : q # p => (UNION Elements(bus[q])) \subseteq (UNION Elements(bus'[q]))
    BY <2>1, <1>r
  <2> QED
    BY <2>1, <2>2, <1>f, <1>t, <1>u DEF Mesh!TypeOK
<1>14. ASSUME NEW p \in Pod, Mesh!Unlink(p) PROVE Mesh!TypeOK' /\ Good'
  <2>1. /\ drops < MaxDrops /\ drops' = drops + 1 /\ linked' = [linked EXCEPT ![p] = FALSE]
        /\ heard' = [heard EXCEPT ![p] = {}]
        /\ UNCHANGED <<room, text, answer, awaiting, state, rows, list, made, opens, copies, loads>>
    BY <1>14 DEF Mesh!Unlink, Mesh!stored
  <2>2. PICK n \in 0..Len(bus[p]) : bus' = [bus EXCEPT ![p] = SubSeq(@, 1, n)]
    BY <1>14 DEF Mesh!Unlink
  <2>3. SubSeq(bus[p], 1, n) \in Seq(Mesh!Messages)
    BY <1>t, PrefixElements
  <2>4. bus' \in [Pod -> Seq(Mesh!Messages)] /\ \A q \in Pod : q # p => bus'[q] = bus[q]
    BY <2>2, <2>3, <1>t
  <2>5. ASSUME NEW q \in Pod PROVE PodHears(q)'
    <3>1. CASE q = p
      BY <2>1, <3>1, <1>t, <1>h DEF PodHears
    <3>2. CASE q # p
      <4>1. Way(q)' = Way(q) /\ heard'[q] = heard[q]
        BY <2>1, <2>4, <3>2, <1>t DEF Way, Elements
      <4> QED
        BY <2>1, <4>1, <1>h DEF PodHears
    <3> QED
      BY <3>1, <3>2
  <2>6. \A u \in Mesh!Updates : PaidFor(u)'
    BY <2>1, <1>p DEF PaidFor
  <2>7. drops' \in 0..MaxDrops /\ linked' \in [Pod -> BOOLEAN] /\ heard' \in [Pod -> SUBSET Mesh!Updates]
    BY <2>1, <1>t
  <2> QED
    BY <2>1, <2>4, <2>5, <2>6, <2>7, <1>t, <1>u DEF Mesh!TypeOK
<1>s. ASSUME UNCHANGED <<room, text, answer, awaiting, bus, state, rows, list, made, opens, drops,
                         heard, copies, loads>>, linked' \in [Pod -> BOOLEAN]
      PROVE  Mesh!TypeOK' /\ Good'
  <2>1. \A q \in Pod : PodHears(q)'
    BY <1>s, <1>h DEF PodHears, Way
  <2>2. \A u \in Mesh!Updates : PaidFor(u)'
    BY <1>s, <1>p DEF PaidFor
  <2> QED
    BY <1>s, <2>1, <2>2, <1>t, <1>u DEF Mesh!TypeOK
<1>15. ASSUME NEW p \in Pod, Mesh!Relink(p) PROVE Mesh!TypeOK' /\ Good'
  <2>1. /\ linked' = [linked EXCEPT ![p] = TRUE]
        /\ UNCHANGED <<room, text, answer, awaiting, bus, state, rows, list, made, opens, drops,
                       heard, copies, loads>>
    BY <1>15 DEF Mesh!Relink, Mesh!stored, Mesh!bounds
  <2> QED
    BY <2>1, <1>s, <1>t
<1>16. CASE UNCHANGED meshVars
  <2>1. UNCHANGED <<room, text, answer, awaiting, bus, state, rows, list, made, opens, drops,
                       heard, copies, loads>> /\ linked' = linked
    BY <1>16 DEF meshVars
  <2> QED
    BY <2>1, <1>s, <1>t
<1> QED
  BY <1>1, <1>2, <1>3, <1>4, <1>5, <1>6, <1>7, <1>8, <1>9, <1>10, <1>11, <1>12, <1>13, <1>14,
     <1>15, <1>16, Zenon DEF Mesh!Next

(* The inductive invariant of the mesh: what a room has heard of is in its *)
(* text, with a waiting handler or on its channel; an update is published  *)
(* once where it was made, and once more by each load that held it. *)
THEOREM MeshInvariant == Mesh!Spec => [](Mesh!TypeOK /\ Mesh!MeshInv)
<1>1. Mesh!TypeOK /\ Mesh!MeshInv /\ [Mesh!Next]_meshVars => Mesh!TypeOK' /\ Mesh!MeshInv'
  BY MeshStep
<1> QED
  BY MeshInitial, <1>1, PTL DEF Mesh!Spec, Mesh!meshVars, meshVars

(* No update that reached Redis while a pod was linked passes the room of  *)
(* that pod by, although the room may be loading; and no pod passes on     *)
(* what it got from Redis: every publication of an update but the first    *)
(* is one of a room that loaded it. *)
THEOREM RoomsHearEverything == Mesh!Spec => []RoomsMissNothing
<1>1. Mesh!MeshInv => RoomsMissNothing
  BY DEF Mesh!MeshInv, RoomsMissNothing
<1> QED
  BY MeshInvariant, <1>1, PTL

-----------------------------------------------------------------------------
(* Cursors. *)

(* The types, with the queues spelled out, and what follows for numbers.   *)
LEMMA ClocksAreNumbers ==
    ASSUME Cursors!TypeOK
    PROVE  /\ \A e \in Editor : clock[e] \in 0..MaxClock
           /\ \A p \in Pod, e \in Editor : states[p][e] \in 0..MaxClock
           /\ \A e, f \in Editor : shown[e][f] \in 0..MaxClock
           /\ \A p \in Pod : Cursors!OnBus(p) = Elements(cursorBus[p])
           /\ \A p \in Pod : \A frame \in Cursors!OnBus(p) \cup parting[p] :
                 frame \in Cursors!Frames /\ \A e \in Editor : frame[e] \in 0..MaxClock
           /\ MaxClock \in Nat \ {0} /\ \A e \in Editor : SocketPod[e] \in Pod
<1>1. \A e \in Editor : clock[e] \in 0..MaxClock
  BY DEF Cursors!TypeOK, Cursors!Frames
<1>2. \A p \in Pod, e \in Editor : states[p][e] \in 0..MaxClock
  BY DEF Cursors!TypeOK, Cursors!Frames
<1>3. \A e, f \in Editor : shown[e][f] \in 0..MaxClock
  BY DEF Cursors!TypeOK, Cursors!Frames
<1>4. \A p \in Pod : Cursors!OnBus(p) = Elements(cursorBus[p])
  BY DEF Cursors!OnBus, Elements
<1>5. ASSUME NEW p \in Pod, NEW frame \in Cursors!OnBus(p) \cup parting[p]
      PROVE  frame \in Cursors!Frames /\ \A e \in Editor : frame[e] \in 0..MaxClock
  <2>1. cursorBus[p] \in Seq(Cursors!Frames) /\ parting[p] \subseteq Cursors!Frames
    BY DEF Cursors!TypeOK
  <2>2. Elements(cursorBus[p]) \subseteq Cursors!Frames
    BY <2>1, ElementsIn
  <2>3. frame \in Cursors!Frames
    BY <1>4, <2>1, <2>2
  <2> QED
    BY <2>3 DEF Cursors!Frames
<1> QED
  BY <1>1, <1>2, <1>3, <1>4, <1>5, CursorAssumption

(* The inductive invariant: one socket, one pod, one pod's view of one     *)
(* cursor, one socket's view of one cursor at a time. *)
SocketInv(e) ==
    /\ place[e] \in {"away", "waiting"} => clock[e] = 0
    /\ place[e] = "here" => rooms[SocketPod[e]] = "live" /\ states[SocketPod[e]][e] = clock[e]
    /\ place[e] = "waiting" => rooms[SocketPod[e]] # "absent"
EmptyInv(p) == rooms[p] # "live" => states[p] = Cursors!NoStates /\ batch[p] = {}
BoundInv(p, e) ==
    /\ states[p][e] <= clock[e]
    /\ \A frame \in Cursors!OnBus(p) \cup parting[p] : frame[e] <= clock[e]
    /\ e \in batch[p] => states[p][e] # 0
ToldInv(p, e) ==
    rooms[p] # "absent" /\ e \notin missed[p] =>
        \/ states[p][e] = clock[e]
        \/ SocketPod[e] # p /\ Cursors!WaitsAt(SocketPod[e], e)
        \/ \E frame \in Cursors!OnBus(p) : frame[e] = clock[e]
ShownInv(e, f) ==
    place[e] = "here" =>
        /\ shown[e][f] <= states[SocketPod[e]][f]
        /\ \/ f \in skipped[e] \cup batch[SocketPod[e]]
           \/ Cursors!Visible(shown[e][f]) = Cursors!Visible(states[SocketPod[e]][f])

CursorParts ==
    /\ \A e \in Editor : SocketInv(e)
    /\ \A p \in Pod : EmptyInv(p)
    /\ \A p \in Pod, e \in Editor : BoundInv(p, e) /\ ToldInv(p, e)
    /\ \A e, f \in Editor : ShownInv(e, f)

LEMMA CursorInvIsParts == (Cursors!CursorInv <=> CursorParts) /\ (Cursors!CursorInv' <=> CursorParts')
<1>1. Cursors!CursorInv => CursorParts
  BY DEF Cursors!CursorInv, CursorParts, SocketInv, EmptyInv, BoundInv, ToldInv, ShownInv
<1>2. CursorParts => Cursors!CursorInv
  BY DEF Cursors!CursorInv, CursorParts, SocketInv, EmptyInv, BoundInv, ToldInv, ShownInv
<1>3. Cursors!CursorInv' => CursorParts'
  BY DEF Cursors!CursorInv, CursorParts, SocketInv, EmptyInv, BoundInv, ToldInv, ShownInv
<1>4. CursorParts' => Cursors!CursorInv'
  BY DEF Cursors!CursorInv, CursorParts, SocketInv, EmptyInv, BoundInv, ToldInv, ShownInv
<1> QED
  BY <1>1, <1>2, <1>3, <1>4

(* Nobody has come yet. *)
LEMMA CursorsInitial == Cursors!Init => Cursors!TypeOK /\ Cursors!CursorInv
<1> SUFFICES ASSUME Cursors!Init PROVE Cursors!TypeOK /\ Cursors!CursorInv
  OBVIOUS
<1> USE CursorAssumption
<1>1. Cursors!NoStates \in Cursors!Frames /\ \A e \in Editor : Cursors!NoStates[e] = 0
  BY DEF Cursors!NoStates, Cursors!Frames
<1>2. cursorBus \in [Pod -> Seq(Cursors!Frames)]
  BY EmptySeq DEF Cursors!Init
<1>3. Cursors!TypeOK
  BY <1>1, <1>2 DEF Cursors!Init, Cursors!TypeOK
<1>4. \A p \in Pod : Cursors!OnBus(p) = {} /\ parting[p] = {} /\ states[p] = Cursors!NoStates
  BY DEF Cursors!Init, Cursors!OnBus
<1>5. Cursors!CursorInv
  <2>1. \A e \in Editor : place[e] = "away" /\ clock[e] = 0
    BY <1>1 DEF Cursors!Init
  <2>2. \A p \in Pod : rooms[p] = "absent" /\ batch[p] = {}
    BY DEF Cursors!Init
  <2> QED
    BY <1>1, <1>4, <2>1, <2>2, CursorInvIsParts
       DEF CursorParts, SocketInv, EmptyInv, BoundInv, ToldInv, ShownInv
<1> QED
  BY <1>3, <1>5

(* A change that waits at its pod goes on waiting. *)
LEMMA WaitsOn ==
    ASSUME NEW q \in Pod, NEW e \in Editor, Cursors!WaitsAt(q, e), clock'[e] = clock[e],
           rooms[q] = "live" => rooms'[q] = "live" /\ batch[q] \subseteq batch'[q],
           rooms[q] = "live" => states'[q][e] = states[q][e],
           parting[q] \subseteq parting'[q]
    PROVE  Cursors!WaitsAt(q, e)'
BY DEF Cursors!WaitsAt

(* Only sockets and rooms do something; what pods know of cursors is then  *)
(* what it was. *)
NothingSent ==
    /\ UNCHANGED <<clock, states, batch, parting, cursorBus>>
    /\ \A p \in Pod : rooms[p] = "live" => rooms'[p] = "live"
    /\ \A p \in Pod : \/ rooms'[p] = rooms[p] /\ missed'[p] = missed[p]
                      \/ rooms[p] = "loading" /\ rooms'[p] = "live" /\ missed'[p] = missed[p]
                      \/ missed'[p] = {e \in Editor : clock[e] # 0}

LEMMA NothingTold ==
    ASSUME Cursors!TypeOK, CursorParts, NothingSent
    PROVE  /\ \A p \in Pod : EmptyInv(p)'
           /\ \A p \in Pod, e \in Editor : BoundInv(p, e)' /\ ToldInv(p, e)'
<1> USE DEF NothingSent
<1>1. \A p \in Pod : Cursors!OnBus(p)' = Cursors!OnBus(p)
  BY DEF Cursors!OnBus
<1>2. \A p \in Pod : EmptyInv(p)'
  BY DEF CursorParts, EmptyInv, Cursors!NoStates
<1>3. ASSUME NEW p \in Pod, NEW e \in Editor PROVE BoundInv(p, e)'
  BY <1>1 DEF CursorParts, BoundInv
<1>4. ASSUME NEW p \in Pod, NEW e \in Editor PROVE ToldInv(p, e)'
  <2> USE DEF CursorParts
  <2>1. CASE missed'[p] = {f \in Editor : clock[f] # 0}
    <3>1. e \notin missed'[p] => clock[e] = 0
      BY <2>1
    <3>2. states[p][e] <= clock[e] /\ states[p][e] \in Nat
      BY ClocksAreNumbers DEF BoundInv
    <3> QED
      BY <3>1, <3>2 DEF ToldInv
  <2>2. CASE missed'[p] = missed[p] /\ (rooms'[p] = rooms[p] \/ rooms[p] = "loading")
    <3>1. SocketPod[e] \in Pod
      BY CursorAssumption
    <3>2. Cursors!WaitsAt(SocketPod[e], e) => Cursors!WaitsAt(SocketPod[e], e)'
      BY <3>1, WaitsOn
    <3> QED
      BY <1>1, <2>2, <3>2 DEF ToldInv
  <2> QED
    BY <2>1, <2>2
<1> QED
  BY <1>2, <1>3, <1>4

(* A socket comes, and opens the room if there is none. *)
LEMMA ConnectKeeps ==
    ASSUME Cursors!TypeOK, CursorParts, NEW e \in Editor, Cursors!Connect(e)
    PROVE  Cursors!TypeOK' /\ CursorParts'
<1> DEFINE p == SocketPod[e]
<1>1. p \in Pod
  BY CursorAssumption
<1>2. /\ place[e] = "away" /\ place' = [place EXCEPT ![e] = "waiting"]
      /\ rooms' = [rooms EXCEPT ![p] = IF rooms[p] = "absent" THEN "loading" ELSE @]
      /\ missed' = IF rooms[p] = "absent" THEN [missed EXCEPT ![p] = {f \in Editor : clock[f] # 0}] ELSE missed
      /\ UNCHANGED <<clock, stalled, links, states, batch, origin, parting, cursorBus, shown, snags, skipped>>
  BY DEF Cursors!Connect
<1> HIDE DEF p
<1>3. Cursors!TypeOK'
  BY <1>1, <1>2 DEF Cursors!TypeOK, Cursors!Frames
<1>4. NothingSent
  BY <1>1, <1>2 DEF Cursors!TypeOK, NothingSent
<1>5. /\ \A q \in Pod : EmptyInv(q)'
      /\ \A q \in Pod, f \in Editor : BoundInv(q, f)' /\ ToldInv(q, f)'
  BY <1>4, NothingTold, Zenon
<1>6. ASSUME NEW f \in Editor PROVE SocketInv(f)'
  <2>1. SocketInv(f) /\ SocketInv(e) /\ SocketPod[f] \in Pod
    BY CursorAssumption DEF CursorParts
  <2>2. rooms[SocketPod[f]] # "absent" => rooms'[SocketPod[f]] = rooms[SocketPod[f]]
    BY <1>1, <1>2, <2>1 DEF Cursors!TypeOK
  <2>3. rooms'[p] # "absent"
    BY <1>1, <1>2 DEF Cursors!TypeOK
  <2>4. f # e => place'[f] = place[f]
    BY <1>2 DEF Cursors!TypeOK
  <2>5. place'[e] = "waiting"
    BY <1>2 DEF Cursors!TypeOK
  <2> QED
    BY <1>2, <2>1, <2>2, <2>3, <2>4, <2>5 DEF SocketInv, p
<1>7. ASSUME NEW f \in Editor, NEW g \in Editor PROVE ShownInv(f, g)'
  <2>1. place'[f] = "here" => place[f] = "here"
    BY <1>2 DEF Cursors!TypeOK
  <2> QED
    BY <1>2, <2>1 DEF ShownInv, CursorParts, Cursors!Visible
<1> QED
  BY <1>3, <1>5, <1>6, <1>7 DEF CursorParts

(* The document is loaded. *)
LEMMA LoadedKeeps ==
    ASSUME Cursors!TypeOK, CursorParts, NEW p \in Pod, Cursors!Loaded(p)
    PROVE  Cursors!TypeOK' /\ CursorParts'
<1>1. /\ rooms[p] = "loading" /\ rooms' = [rooms EXCEPT ![p] = "live"]
      /\ UNCHANGED <<place, clock, stalled, links, states, batch, origin, parting, cursorBus, shown,
                     snags, missed, skipped>>
  BY DEF Cursors!Loaded, Cursors!sockets
<1>2. Cursors!TypeOK'
  BY <1>1 DEF Cursors!TypeOK, Cursors!Frames
<1>3. /\ \A q \in Pod : rooms[q] = "live" => rooms'[q] = "live"
      /\ \A q \in Pod : rooms'[q] = rooms[q] \/ (rooms[q] = "loading" /\ rooms'[q] = "live")
  BY <1>1 DEF Cursors!TypeOK
<1>4. /\ \A q \in Pod : EmptyInv(q)'
      /\ \A q \in Pod, f \in Editor : BoundInv(q, f)' /\ ToldInv(q, f)'
  <2>1. NothingSent
    BY <1>1, <1>3 DEF NothingSent
  <2> QED
    BY <2>1, NothingTold, Zenon
<1>5. \A f \in Editor : SocketInv(f)'
  BY <1>1, <1>3, CursorAssumption DEF SocketInv, CursorParts
<1>6. \A f, g \in Editor : ShownInv(f, g)'
  BY <1>1 DEF ShownInv, CursorParts, Cursors!Visible
<1> QED
  BY <1>2, <1>4, <1>5, <1>6 DEF CursorParts

(* A socket joins: it is shown what its pod knows. *)
LEMMA JoinKeeps ==
    ASSUME Cursors!TypeOK, CursorParts, NEW e \in Editor, Cursors!Join(e)
    PROVE  Cursors!TypeOK' /\ CursorParts'
<1> DEFINE p == SocketPod[e]
<1>1. p \in Pod
  BY CursorAssumption
<1>2. /\ place[e] = "waiting" /\ rooms[p] = "live" /\ place' = [place EXCEPT ![e] = "here"]
      /\ shown' = [shown EXCEPT ![e] = [f \in Editor |-> Cursors!Visible(states[p][f])]]
      /\ UNCHANGED <<clock, stalled, rooms, links, states, batch, origin, parting, cursorBus, snags,
                     missed, skipped>>
  BY DEF Cursors!Join
<1>n. /\ \A f \in Editor : states[p][f] \in 0..MaxClock /\ clock[f] \in 0..MaxClock
      /\ MaxClock \in Nat \ {0}
  BY <1>1, ClocksAreNumbers
<1> HIDE DEF p
<1>3. \A f \in Editor : /\ Cursors!Visible(states[p][f]) \in 0..MaxClock
                        /\ Cursors!Visible(states[p][f]) <= states[p][f]
                        /\ Cursors!Visible(Cursors!Visible(states[p][f])) = Cursors!Visible(states[p][f])
  BY <1>n DEF Cursors!Visible
<1>4. Cursors!TypeOK'
  <2>1. shown' \in [Editor -> Cursors!Frames]
    BY <1>2, <1>3 DEF Cursors!TypeOK, Cursors!Frames
  <2> QED
    BY <1>1, <1>2, <2>1 DEF Cursors!TypeOK, Cursors!Frames
<1>5. /\ \A q \in Pod : EmptyInv(q)'
      /\ \A q \in Pod, f \in Editor : BoundInv(q, f)' /\ ToldInv(q, f)'
  <2>1. NothingSent
    BY <1>2 DEF NothingSent
  <2> QED
    BY <2>1, NothingTold, Zenon
<1>6. ASSUME NEW f \in Editor PROVE SocketInv(f)'
  <2>1. SocketInv(f) /\ SocketInv(e)
    BY DEF CursorParts
  <2>2. f # e => place'[f] = place[f]
    BY <1>2 DEF Cursors!TypeOK
  <2>3. states[p][e] = clock[e]
    <3>1. states[p][e] <= clock[e]
      BY <1>1 DEF CursorParts, BoundInv
    <3> QED
      BY <1>2, <1>n, <2>1, <3>1 DEF SocketInv
  <2>4. place'[e] = "here"
    BY <1>2 DEF Cursors!TypeOK
  <2> QED
    BY <1>2, <2>1, <2>2, <2>3, <2>4 DEF SocketInv, p
<1>7. ASSUME NEW f \in Editor, NEW g \in Editor PROVE ShownInv(f, g)'
  <2>1. CASE f = e
    <3>1. shown'[f][g] = Cursors!Visible(states[p][g])
      BY <1>2, <2>1 DEF Cursors!TypeOK, Cursors!Frames
    <3>2. /\ Cursors!Visible(states[p][g]) <= states[p][g]
          /\ Cursors!Visible(Cursors!Visible(states[p][g])) = Cursors!Visible(states[p][g])
      BY <1>3
    <3> HIDE <1>3
    <3>3. /\ shown'[f][g] <= states[p][g] /\ Cursors!Visible(shown'[f][g]) = Cursors!Visible(states[p][g])
      BY <3>1, <3>2, Zenon
    <3>4. Cursors!Visible(shown[f][g])' = Cursors!Visible(shown'[f][g])
          /\ Cursors!Visible(states[SocketPod[f]][g])' = Cursors!Visible(states[p][g])
      BY <1>2, <2>1 DEF Cursors!Visible, p
    <3> QED
      BY <1>2, <2>1, <3>3, <3>4 DEF ShownInv, p
  <2>2. CASE f # e
    <3>1. place'[f] = place[f] /\ shown'[f] = shown[f]
      BY <1>2, <2>2 DEF Cursors!TypeOK
    <3> QED
      BY <1>2, <3>1, ZenonT(60) DEF ShownInv, CursorParts, Cursors!Visible
  <2> QED
    BY <2>1, <2>2
<1> QED
  BY <1>4, <1>5, <1>6, <1>7 DEF CursorParts

(* A socket chokes or drains, a pod finds Redis again: pods and sockets    *)
(* know what they knew. *)
LEMMA QuietStepKeeps ==
    ASSUME Cursors!TypeOK, CursorParts,
           \/ \E e \in Editor : Cursors!Stall(e) \/ Cursors!Drain(e)
           \/ \E p \in Pod : Cursors!Relink(p)
           \/ UNCHANGED Cursors!awarenessVars
    PROVE  Cursors!TypeOK' /\ CursorParts'
<1> DEFINE Still == UNCHANGED <<place, clock, rooms, states, batch, origin, parting, cursorBus, shown,
                                missed, skipped>>
           Typed == stalled' \subseteq Editor /\ links' \subseteq Pod /\ snags' \in 0..MaxSnags
<1>1. Still /\ Typed
  <2> USE CursorAssumption
  <2>1. ASSUME NEW e \in Editor, Cursors!Stall(e) \/ Cursors!Drain(e) PROVE Still /\ Typed
    BY <2>1 DEF Cursors!Stall, Cursors!Drain, Cursors!TypeOK
  <2>2. ASSUME NEW p \in Pod, Cursors!Relink(p) PROVE Still /\ Typed
    BY <2>2 DEF Cursors!Relink, Cursors!TypeOK, Cursors!sockets
  <2>3. CASE UNCHANGED Cursors!awarenessVars
    BY <2>3 DEF Cursors!awarenessVars, Cursors!sockets, Cursors!TypeOK
  <2> QED
    BY <2>1, <2>2, <2>3
<1>2. Cursors!TypeOK'
  BY <1>1 DEF Cursors!TypeOK, Cursors!Frames
<1>3. /\ \A q \in Pod : EmptyInv(q)'
      /\ \A q \in Pod, f \in Editor : BoundInv(q, f)' /\ ToldInv(q, f)'
  <2>1. NothingSent
    BY <1>1 DEF NothingSent
  <2> QED
    BY <2>1, NothingTold, Zenon
<1>4. \A f \in Editor : SocketInv(f)'
  BY <1>1 DEF SocketInv, CursorParts
<1>5. \A f, g \in Editor : ShownInv(f, g)'
  BY <1>1 DEF ShownInv, CursorParts, Cursors!Visible
<1> QED
  BY <1>2, <1>3, <1>4, <1>5 DEF CursorParts

(* An editor's change: its pod has it, and the next batch holds it. *)
LEMMA ChangeKeeps ==
    ASSUME Cursors!TypeOK, CursorParts, NEW e \in Editor, NEW c \in 1..MaxClock,
           clock[e] <= c, place[e] = "here", Cursors!Sets(e, c),
           place' \in [Editor -> {"away", "waiting", "here", "gone"}],
           \A f \in Editor : place'[f] \in {"away", "waiting"} => place[f] = place'[f],
           \A f \in Editor : place'[f] = "here" => place[f] = "here",
           UNCHANGED <<stalled, rooms, links, parting, cursorBus, shown, snags, missed, skipped>>
    PROVE  Cursors!TypeOK' /\ CursorParts'
<1> DEFINE p == SocketPod[e]
<1>1. /\ p \in Pod /\ clock' = [clock EXCEPT ![e] = c] /\ states' = [states EXCEPT ![p][e] = c]
      /\ batch' = [batch EXCEPT ![p] = batch[p] \cup {e}] /\ origin' = [origin EXCEPT ![p] = "local"]
  BY CursorAssumption DEF Cursors!Sets, Cursors!Queue, Cursors!BatchAfter
<1>n. /\ \A f \in Editor : clock[f] \in Nat /\ SocketPod[f] \in Pod
      /\ \A q \in Pod, f \in Editor : states[q][f] \in Nat
      /\ \A f, g \in Editor : shown[f][g] \in Nat
      /\ \A q \in Pod : \A frame \in Cursors!OnBus(q) \cup parting[q] : \A f \in Editor : frame[f] \in Nat
      /\ c \in Nat \ {0} /\ MaxClock \in Nat
  BY ClocksAreNumbers
<1>2. Cursors!TypeOK'
  <2>1. c \in 0..MaxClock
    BY <1>n
  <2>2. clock' \in Cursors!Frames /\ states' \in [Pod -> Cursors!Frames]
    BY <1>1, <2>1 DEF Cursors!TypeOK, Cursors!Frames
  <2>3. batch' \in [Pod -> SUBSET Editor] /\ origin' \in [Pod -> {"none", "local", "redis"}]
    BY <1>1 DEF Cursors!TypeOK
  <2> QED
    BY <2>2, <2>3 DEF Cursors!TypeOK, Cursors!Frames
<1>3. /\ clock'[e] = c /\ states'[p][e] = c
      /\ \A f \in Editor : f # e => clock'[f] = clock[f]
      /\ \A q \in Pod, f \in Editor : ~(q = p /\ f = e) => states'[q][f] = states[q][f]
      /\ \A q \in Pod : q # p => states'[q] = states[q] /\ batch'[q] = batch[q]
      /\ e \in batch'[p] /\ \A q \in Pod : batch[q] \subseteq batch'[q] /\ batch'[q] \subseteq batch[q] \cup {e}
  BY <1>1 DEF Cursors!TypeOK, Cursors!Frames
<1>4. rooms[p] = "live" /\ states[p][e] = clock[e]
  BY DEF CursorParts, SocketInv
<1>5. \A q \in Pod : Cursors!OnBus(q)' = Cursors!OnBus(q)
  BY DEF Cursors!OnBus
<1>p. \A f \in Editor : p = SocketPod[f] <=> SocketPod[f] = SocketPod[e]
  OBVIOUS
<1>r. rooms' = rooms /\ parting' = parting /\ missed' = missed /\ shown' = shown /\ skipped' = skipped
  OBVIOUS
<1>6. ASSUME NEW f \in Editor PROVE SocketInv(f)'
  <2>1. SocketInv(f)
    BY DEF CursorParts
  <2>2. f # e => states'[SocketPod[f]][f] = states[SocketPod[f]][f]
    BY <1>3, <1>n
  <2> QED
    BY <1>3, <1>4, <2>1, <2>2 DEF SocketInv
<1> HIDE DEF p
<1>7. ASSUME NEW q \in Pod PROVE EmptyInv(q)'
  BY <1>3, <1>4 DEF CursorParts, EmptyInv, Cursors!NoStates
<1>8. ASSUME NEW q \in Pod, NEW f \in Editor PROVE BoundInv(q, f)'
  <2>1. BoundInv(q, f)
    BY DEF CursorParts
  <2>2. CASE f # e
    <3>1. clock'[f] = clock[f] /\ states'[q][f] = states[q][f] /\ (f \in batch'[q] => f \in batch[q])
      BY <1>3, <2>2
    <3> QED
      BY <1>5, <2>1, <3>1 DEF BoundInv
  <2>3. CASE f = e
    <3>1. states'[q][f] = c \/ (q # p /\ states'[q][f] = states[q][f] /\ batch'[q] = batch[q])
      BY <1>3, <2>3
    <3>2. states[q][f] <= c
      BY <1>n, <2>1, <2>3 DEF BoundInv
    <3>3. \A frame \in Cursors!OnBus(q) \cup parting[q] : frame[f] <= c
      BY <1>n, <2>1, <2>3 DEF BoundInv
    <3> QED
      BY <1>3, <1>5, <1>n, <2>1, <2>3, <3>1, <3>2, <3>3 DEF BoundInv
  <2> QED
    BY <2>2, <2>3
<1>9. ASSUME NEW q \in Pod, NEW f \in Editor PROVE ToldInv(q, f)'
  <2>1. CASE f # e
    <3>1. clock'[f] = clock[f] /\ states'[q][f] = states[q][f]
          /\ states'[SocketPod[f]][f] = states[SocketPod[f]][f] /\ SocketPod[f] \in Pod
      BY <1>3, <1>n, <2>1
    <3>2. Cursors!WaitsAt(SocketPod[f], f) => Cursors!WaitsAt(SocketPod[f], f)'
      BY <1>3, <3>1, WaitsOn
    <3>3. ToldInv(q, f)
      BY DEF CursorParts
    <3> QED
      BY <1>5, <3>1, <3>2, <3>3 DEF ToldInv
  <2>2. CASE f = e /\ q = p
    BY <1>3, <2>2 DEF ToldInv
  <2>3. CASE f = e /\ q # p
    <3>1. Cursors!WaitsAt(p, e)'
      BY <1>3, <1>4, <1>r DEF Cursors!WaitsAt
    <3> QED
      BY <2>3, <3>1 DEF ToldInv, p
  <2> QED
    BY <2>1, <2>2, <2>3
<1>10. ASSUME NEW f \in Editor, NEW g \in Editor PROVE ShownInv(f, g)'
  <2>1. ShownInv(f, g) /\ SocketPod[f] \in Pod
    BY <1>n DEF CursorParts
  <2>2. CASE SocketPod[f] = p /\ g = e
    <3>1. states[p][e] <= c
      BY <1>4
    <3> QED
      BY <1>3, <1>n, <2>1, <2>2, <3>1 DEF ShownInv
  <2>3. CASE ~(SocketPod[f] = p /\ g = e)
    <3>1. states'[SocketPod[f]][g] = states[SocketPod[f]][g] /\ batch[SocketPod[f]] \subseteq batch'[SocketPod[f]]
      BY <1>3, <2>1, <2>3
    <3> QED
      BY <2>1, <3>1, <1>r DEF ShownInv, Cursors!Visible
  <2> QED
    BY <2>2, <2>3
<1> QED
  BY <1>2, <1>6, <1>7, <1>8, <1>9, <1>10 DEF CursorParts

LEMMA MoveCloseKeeps ==
    ASSUME Cursors!TypeOK, CursorParts, NEW e \in Editor, Cursors!Move(e) \/ Cursors!Close(e)
    PROVE  Cursors!TypeOK' /\ CursorParts'
<1>n. clock[e] \in 0..MaxClock /\ MaxClock \in Nat \ {0}
  BY ClocksAreNumbers
<1>1. CASE Cursors!Move(e)
  <2>1. /\ place[e] = "here" /\ clock[e] < MaxClock - 1 /\ Cursors!Sets(e, clock[e] + 1)
        /\ UNCHANGED <<place, stalled, rooms, links, parting, cursorBus, shown, snags, missed, skipped>>
    BY <1>1 DEF Cursors!Move
  <2>2. clock[e] + 1 \in 1..MaxClock /\ clock[e] <= clock[e] + 1
    BY <1>n, <2>1
  <2>3. place' \in [Editor -> {"away", "waiting", "here", "gone"}]
    BY <2>1 DEF Cursors!TypeOK
  <2> QED
    BY <2>1, <2>2, <2>3, ChangeKeeps
<1>2. CASE Cursors!Close(e) /\ clock[e] # 0
  <2>1. /\ place[e] = "here" /\ place' = [place EXCEPT ![e] = "gone"] /\ Cursors!Sets(e, MaxClock)
        /\ UNCHANGED <<stalled, rooms, links, parting, cursorBus, shown, snags, missed, skipped>>
    BY <1>2 DEF Cursors!Close
  <2>2. MaxClock \in 1..MaxClock /\ clock[e] <= MaxClock
    BY <1>n
  <2>3. /\ place' \in [Editor -> {"away", "waiting", "here", "gone"}]
        /\ \A f \in Editor : place'[f] \in {"away", "waiting"} => place[f] = place'[f]
        /\ \A f \in Editor : place'[f] = "here" => place[f] = "here"
    BY <2>1 DEF Cursors!TypeOK
  <2> QED
    BY <2>1, <2>2, <2>3, ChangeKeeps
<1>3. CASE Cursors!Close(e) /\ clock[e] = 0
  <2>1. /\ place[e] = "here" /\ place' = [place EXCEPT ![e] = "gone"]
        /\ UNCHANGED <<clock, states, batch, origin>>
        /\ UNCHANGED <<stalled, rooms, links, parting, cursorBus, shown, snags, missed, skipped>>
    BY <1>3 DEF Cursors!Close
  <2>2. Cursors!TypeOK'
    BY <2>1 DEF Cursors!TypeOK, Cursors!Frames
  <2>3. /\ \A f \in Editor : place'[f] \in {"away", "waiting"} => place[f] = place'[f]
        /\ \A f \in Editor : place'[f] = "here" => place[f] = "here"
    BY <2>1 DEF Cursors!TypeOK
  <2>4. NothingSent
    BY <2>1 DEF NothingSent
  <2>5. /\ \A q \in Pod : EmptyInv(q)'
        /\ \A q \in Pod, f \in Editor : BoundInv(q, f)' /\ ToldInv(q, f)'
    BY <2>4, NothingTold, Zenon
  <2>6. \A f \in Editor : SocketInv(f)'
    BY <2>1, <2>3 DEF SocketInv, CursorParts
  <2>7. \A f, g \in Editor : ShownInv(f, g)'
    BY <2>1, <2>3 DEF ShownInv, CursorParts, Cursors!Visible
  <2> QED
    BY <2>2, <2>5, <2>6, <2>7 DEF CursorParts
<1> QED
  BY <1>1, <1>2, <1>3

(* What becomes of a frame that a batch gives to Redis: whoever does not   *)
(* get its news misses it, or the news were of cursors of other pods. *)
Sent(p, frame) ==
    /\ cursorBus' \in [Pod -> Seq(Cursors!Frames)] /\ missed' \in [Pod -> SUBSET Editor]
    /\ \A q \in Pod : /\ Elements(cursorBus[q]) \subseteq Elements(cursorBus'[q])
                      /\ Elements(cursorBus'[q]) \subseteq Elements(cursorBus[q]) \cup {frame}
    /\ \A q \in Pod, e \in Editor : rooms[q] # "absent" /\ e \notin missed'[q] =>
          \/ \E told \in Elements(cursorBus'[q]) : told[e] = clock[e]
          \/ e \notin missed[q] /\ ~(q # p /\ e \in Cursors!News(frame) /\ SocketPod[e] = p)

LEMMA PublishSends ==
    ASSUME Cursors!TypeOK, NEW p \in Pod, NEW frame \in Cursors!Frames, Cursors!Publish(p, frame)
    PROVE  Sent(p, frame)
<1> DEFINE Reached == IF p \in links THEN links ELSE {}
<1>1. /\ cursorBus' = [q \in Pod |-> IF q \in Reached THEN Append(cursorBus[q], frame) ELSE cursorBus[q]]
      /\ missed' = [q \in Pod |->
           IF q \in Reached \cap Cursors!Registered THEN missed[q] \ Cursors!News(frame)
           ELSE IF q # p THEN missed[q] \cup (Cursors!News(frame) \cap Cursors!Local(p)) ELSE missed[q]]
  BY DEF Cursors!Publish
<1> HIDE DEF Reached
<1>2. ASSUME NEW q \in Pod
      PROVE  /\ cursorBus[q] \in Seq(Cursors!Frames)
             /\ Append(cursorBus[q], frame) \in Seq(Cursors!Frames)
             /\ Elements(Append(cursorBus[q], frame)) = Elements(cursorBus[q]) \cup {frame}
  <2>1. cursorBus[q] \in Seq(Cursors!Frames)
    BY DEF Cursors!TypeOK
  <2> QED
    BY <2>1, AppendElements
<1>3. cursorBus' \in [Pod -> Seq(Cursors!Frames)]
  BY <1>1, <1>2
<1>4. missed' \in [Pod -> SUBSET Editor]
  BY <1>1 DEF Cursors!TypeOK, Cursors!News, Cursors!Local
<1>5. ASSUME NEW q \in Pod
      PROVE  Elements(cursorBus'[q]) = IF q \in Reached THEN Elements(cursorBus[q]) \cup {frame} ELSE Elements(cursorBus[q])
  BY <1>1, <1>2
<1>6. ASSUME NEW q \in Pod, NEW e \in Editor, rooms[q] # "absent", e \notin missed'[q]
      PROVE  \/ \E told \in Elements(cursorBus'[q]) : told[e] = clock[e]
             \/ e \notin missed[q] /\ ~(q # p /\ e \in Cursors!News(frame) /\ SocketPod[e] = p)
  <2>1. CASE q \in Reached /\ e \in Cursors!News(frame)
    BY <1>5, <2>1 DEF Cursors!News
  <2>2. CASE q \in Reached /\ e \notin Cursors!News(frame)
    <3>1. q \in Reached \cap Cursors!Registered
      BY <1>6, <2>2 DEF Cursors!Registered
    <3> QED
      BY <1>1, <1>6, <2>2, <3>1
  <2>3. CASE q \notin Reached
    BY <1>1, <1>6, <2>3 DEF Cursors!Local
  <2> QED
    BY <2>1, <2>2, <2>3
<1> QED
  BY <1>3, <1>4, <1>5, <1>6 DEF Sent

LEMMA NotPublishedSends ==
    ASSUME Cursors!TypeOK, NEW p \in Pod, Cursors!NotPublished(p)
    PROVE  Sent(p, Cursors!Frame(p))
<1>1. /\ cursorBus' = cursorBus
      /\ missed' = [q \in Pod |-> IF q # p THEN missed[q] \cup (Cursors!News(Cursors!Frame(p)) \cap Cursors!Local(p))
                                  ELSE missed[q]]
  BY DEF Cursors!NotPublished
<1>2. missed' \in [Pod -> SUBSET Editor]
  BY <1>1 DEF Cursors!TypeOK, Cursors!News, Cursors!Local
<1>3. ASSUME NEW q \in Pod, NEW e \in Editor, e \notin missed'[q]
      PROVE  e \notin missed[q] /\ ~(q # p /\ e \in Cursors!News(Cursors!Frame(p)) /\ SocketPod[e] = p)
  BY <1>1, <1>3 DEF Cursors!Local
<1> QED
  BY <1>1, <1>2, <1>3 DEF Sent, Cursors!TypeOK

(* A pod still knows what it knew, or it is told, or the change waits. *)
LEMMA StillTold ==
    ASSUME Cursors!TypeOK, NEW p \in Pod, NEW frame, Sent(p, frame), NEW q \in Pod, NEW e \in Editor, ToldInv(q, e),
           clock'[e] = clock[e], states'[q][e] = states[q][e],
           rooms'[q] = rooms[q],
           SocketPod[e] # q /\ Cursors!WaitsAt(SocketPod[e], e) =>
              \/ Cursors!WaitsAt(SocketPod[e], e)'
              \/ SocketPod[e] = p /\ e \in Cursors!News(frame)
              \/ states[q][e] = clock[e]
    PROVE  ToldInv(q, e)'
<1> SUFFICES ASSUME rooms[q] # "absent", e \notin missed'[q]
             PROVE  \/ states[q][e] = clock[e]
                    \/ SocketPod[e] # q /\ Cursors!WaitsAt(SocketPod[e], e)'
                    \/ \E told \in Elements(cursorBus'[q]) : told[e] = clock[e]
  <2>1. Cursors!OnBus(q)' = Elements(cursorBus'[q])
    BY DEF Cursors!OnBus, Elements
  <2> QED
    BY <2>1 DEF ToldInv
<1>1. CASE \E told \in Elements(cursorBus'[q]) : told[e] = clock[e]
  BY <1>1
<1>2. CASE e \notin missed[q] /\ ~(q # p /\ e \in Cursors!News(frame) /\ SocketPod[e] = p)
  <2>1. \/ states[q][e] = clock[e]
        \/ SocketPod[e] # q /\ Cursors!WaitsAt(SocketPod[e], e)
        \/ \E told \in Cursors!OnBus(q) : told[e] = clock[e]
    BY <1>2 DEF ToldInv
  <2>2. Cursors!OnBus(q) \subseteq Elements(cursorBus'[q])
    BY ClocksAreNumbers DEF Sent
  <2> QED
    BY <1>2, <2>1, <2>2
<1> QED
  BY <1>1, <1>2 DEF Sent

(* The frames on the way stay behind the clocks. *)
LEMMA StillBound ==
    ASSUME Cursors!TypeOK, NEW p \in Pod, NEW frame, Sent(p, frame), NEW q \in Pod, NEW e \in Editor, BoundInv(q, e),
           clock'[e] = clock[e], states'[q][e] = states[q][e] \/ states'[q][e] = 0,
           frame[e] <= clock[e], parting'[q] \subseteq parting[q] \cup {frame},
           e \in batch'[q] => e \in batch[q] /\ states'[q][e] = states[q][e]
    PROVE  BoundInv(q, e)'
<1>1. Cursors!OnBus(q)' = Elements(cursorBus'[q]) /\ Cursors!OnBus(q) = Elements(cursorBus[q])
  BY DEF Cursors!OnBus, Elements
<1>2. Elements(cursorBus'[q]) \subseteq Elements(cursorBus[q]) \cup {frame}
  BY DEF Sent
<1>3. 0 <= clock[e]
  BY ClocksAreNumbers
<1> QED
  BY <1>1, <1>2, <1>3 DEF BoundInv

(* A frame of a pod's states is behind the clocks. *)
LEMMA FrameIsBound ==
    ASSUME Cursors!TypeOK, CursorParts, NEW p \in Pod
    PROVE  /\ Cursors!Frame(p) \in Cursors!Frames
           /\ \A e \in Editor : Cursors!Frame(p)[e] = IF e \in batch[p] THEN states[p][e] ELSE 0
           /\ \A e \in Editor : Cursors!Frame(p)[e] <= clock[e]
           /\ \A e \in Editor : e \in batch[p] /\ states[p][e] = clock[e] => e \in Cursors!News(Cursors!Frame(p))
<1>1. \A e \in Editor : Cursors!Frame(p)[e] = IF e \in batch[p] THEN states[p][e] ELSE 0
  BY DEF Cursors!Frame
<1>2. \A e \in Editor : states[p][e] \in 0..MaxClock /\ clock[e] \in 0..MaxClock /\ 0 \in 0..MaxClock
  BY ClocksAreNumbers
<1>3. \A e \in Editor : states[p][e] <= clock[e] /\ (e \in batch[p] => states[p][e] # 0)
  BY DEF CursorParts, BoundInv
<1>4. Cursors!Frame(p) \in Cursors!Frames
  BY <1>2 DEF Cursors!Frame, Cursors!Frames
<1> QED
  BY <1>1, <1>2, <1>3, <1>4 DEF Cursors!News

(* A batch goes: the sockets have what their pod has, and so has or misses *)
(* every other pod. *)
LEMMA FlushKeeps ==
    ASSUME Cursors!TypeOK, CursorParts, NEW p \in Pod, Cursors!Flush(p)
    PROVE  Cursors!TypeOK' /\ CursorParts'
<1> DEFINE frame == Cursors!Frame(p)
<1>1. /\ shown' = [e \in Editor |-> IF e \in Cursors!Here(p) \ stalled THEN Cursors!Merged(shown[e], frame) ELSE shown[e]]
      /\ skipped' = [e \in Editor |-> IF e \notin Cursors!Here(p) THEN skipped[e]
                                      ELSE IF e \in stalled THEN skipped[e] \cup batch[p]
                                      ELSE skipped[e] \ batch[p]]
      /\ batch' = [batch EXCEPT ![p] = {}] /\ origin' = [origin EXCEPT ![p] = "none"]
      /\ UNCHANGED <<place, clock, stalled, rooms, links, states, parting, snags>>
  BY DEF Cursors!Flush, Cursors!sockets
<1>2. Cursors!NotPublished(p) \/ Cursors!Publish(p, frame)
  BY DEF Cursors!Flush
<1>3. /\ frame \in Cursors!Frames
      /\ \A e \in Editor : frame[e] = IF e \in batch[p] THEN states[p][e] ELSE 0
      /\ \A e \in Editor : frame[e] <= clock[e]
      /\ \A e \in Editor : e \in batch[p] /\ states[p][e] = clock[e] => e \in Cursors!News(frame)
  BY FrameIsBound
<1>4. Sent(p, frame)
  BY <1>2, <1>3, PublishSends, NotPublishedSends
<1>n. /\ \A e, f \in Editor : shown[e][f] \in 0..MaxClock
      /\ \A q \in Pod, e \in Editor : states[q][e] \in 0..MaxClock
      /\ \A e \in Editor : SocketPod[e] \in Pod
      /\ MaxClock \in Nat
  BY ClocksAreNumbers
<1> HIDE DEF frame
<1>5. \A e, f \in Editor :
         shown'[e][f] = IF e \in Cursors!Here(p) \ stalled /\ shown[e][f] < frame[f] THEN frame[f] ELSE shown[e][f]
  BY <1>1 DEF Cursors!Merged, Cursors!Later, Cursors!TypeOK, Cursors!Frames
<1>6. Cursors!TypeOK'
  <2>1. \A e \in Editor : Cursors!Merged(shown[e], frame) \in Cursors!Frames
    BY <1>3 DEF Cursors!Merged, Cursors!Later, Cursors!TypeOK, Cursors!Frames
  <2>2. shown' \in [Editor -> Cursors!Frames]
    BY <1>1, <2>1 DEF Cursors!TypeOK
  <2>3. /\ batch' \in [Pod -> SUBSET Editor] /\ origin' \in [Pod -> {"none", "local", "redis"}]
        /\ skipped' \in [Editor -> SUBSET Editor]
    BY <1>1 DEF Cursors!TypeOK
  <2>4. cursorBus' \in [Pod -> Seq(Cursors!Frames)] /\ missed' \in [Pod -> SUBSET Editor]
    BY <1>4 DEF Sent
  <2> QED
    BY <1>1, <2>2, <2>3, <2>4 DEF Cursors!TypeOK, Cursors!Frames
<1>7. ASSUME NEW e \in Editor PROVE SocketInv(e)'
  BY <1>1 DEF CursorParts, SocketInv
<1>8. ASSUME NEW q \in Pod PROVE EmptyInv(q)'
  BY <1>1 DEF CursorParts, EmptyInv, Cursors!NoStates, Cursors!TypeOK
<1>9. ASSUME NEW q \in Pod, NEW e \in Editor PROVE BoundInv(q, e)' /\ ToldInv(q, e)'
  <2>1. BoundInv(q, e) /\ ToldInv(q, e)
    BY DEF CursorParts
  <2>2. batch'[q] = IF q = p THEN {} ELSE batch[q]
    BY <1>1 DEF Cursors!TypeOK
  <2>3. clock'[e] = clock[e] /\ states'[q][e] = states[q][e] /\ rooms'[q] = rooms[q] /\ parting'[q] = parting[q]
    BY <1>1
  <2>4. BoundInv(q, e)'
    BY <1>3, <1>4, <2>1, <2>2, <2>3, StillBound
  <2>5. ASSUME Cursors!WaitsAt(SocketPod[e], e)
        PROVE  Cursors!WaitsAt(SocketPod[e], e)' \/ (SocketPod[e] = p /\ e \in Cursors!News(frame))
    <3>1. CASE SocketPod[e] = p
      BY <1>1, <1>3, <2>5, <3>1 DEF Cursors!WaitsAt
    <3>2. CASE SocketPod[e] # p
      <4>1. batch'[SocketPod[e]] = batch[SocketPod[e]]
        BY <1>1, <1>n, <3>2 DEF Cursors!TypeOK
      <4> QED
        BY <1>1, <2>5, <4>1 DEF Cursors!WaitsAt
    <3> QED
      BY <3>1, <3>2
  <2>6. ToldInv(q, e)'
    BY <1>4, <2>1, <2>3, <2>5, StillTold
  <2> QED
    BY <2>4, <2>6
<1>10. ASSUME NEW e \in Editor, NEW f \in Editor, place[e] = "here" PROVE ShownInv(e, f)'
  <2>1. /\ shown[e][f] <= states[SocketPod[e]][f]
        /\ \/ f \in skipped[e] \cup batch[SocketPod[e]]
           \/ Cursors!Visible(shown[e][f]) = Cursors!Visible(states[SocketPod[e]][f])
    BY <1>10 DEF CursorParts, ShownInv
  <2>2. CASE e \in Cursors!Here(p) \ stalled /\ f \in batch[p]
    <3>1. SocketPod[e] = p
      BY <2>2 DEF Cursors!Here, Cursors!Local
    <3>2. shown'[e][f] = states[p][f]
      BY <1>3, <1>5, <1>n, <2>1, <2>2, <3>1
    <3> QED
      BY <1>1, <1>n, <3>1, <3>2 DEF ShownInv, Cursors!Visible
  <2>3. CASE e \in Cursors!Here(p) \ stalled /\ f \notin batch[p]
    <3>1. SocketPod[e] = p
      BY <2>3 DEF Cursors!Here, Cursors!Local
    <3>2. shown'[e][f] = shown[e][f]
      BY <1>3, <1>5, <1>n, <2>3
    <3>3. f \in skipped[e] => f \in skipped'[e]
      BY <1>1, <2>3
    <3> QED
      BY <1>1, <2>1, <2>3, <3>1, <3>2, <3>3 DEF ShownInv, Cursors!Visible
  <2>4. CASE e \in Cursors!Here(p) /\ e \in stalled
    <3>1. SocketPod[e] = p
      BY <2>4 DEF Cursors!Here, Cursors!Local
    <3>2. shown'[e][f] = shown[e][f] /\ skipped'[e] = skipped[e] \cup batch[p]
      BY <1>1, <1>5, <2>4
    <3> QED
      BY <1>1, <2>1, <3>1, <3>2 DEF ShownInv, Cursors!Visible
  <2>5. CASE e \notin Cursors!Here(p)
    <3>1. SocketPod[e] # p /\ SocketPod[e] \in Pod
      BY <1>10, <1>n, <2>5 DEF Cursors!Here, Cursors!Local
    <3>2. shown'[e][f] = shown[e][f] /\ skipped'[e] = skipped[e] /\ batch'[SocketPod[e]] = batch[SocketPod[e]]
      BY <1>1, <1>5, <2>5, <3>1 DEF Cursors!TypeOK
    <3> QED
      BY <1>1, <2>1, <3>2 DEF ShownInv, Cursors!Visible
  <2> QED
    BY <2>2, <2>3, <2>4, <2>5
<1>11. ASSUME NEW e \in Editor, NEW f \in Editor PROVE ShownInv(e, f)'
  <2>1. CASE place[e] = "here"
    BY <1>10, <2>1
  <2>2. CASE place[e] # "here"
    BY <1>1, <2>2 DEF ShownInv
  <2> QED
    BY <2>1, <2>2
<1> QED
  BY <1>6, <1>7, <1>8, <1>9, <1>11 DEF CursorParts

(* A room is reclaimed: its last batch stays behind, or goes unpublished.  *)
LEMMA ReclaimKeeps ==
    ASSUME Cursors!TypeOK, CursorParts, NEW p \in Pod, Cursors!Reclaim(p)
    PROVE  Cursors!TypeOK' /\ CursorParts'
<1> DEFINE frame == Cursors!Frame(p)
<1>1. /\ rooms[p] = "live" /\ \A e \in Cursors!Local(p) : place[e] \in {"away", "gone"}
      /\ rooms' = [rooms EXCEPT ![p] = "absent"] /\ states' = [states EXCEPT ![p] = Cursors!NoStates]
      /\ batch' = [batch EXCEPT ![p] = {}] /\ origin' = [origin EXCEPT ![p] = "none"]
      /\ UNCHANGED <<place, clock, stalled, links, shown, snags, skipped>>
  BY DEF Cursors!Reclaim, Cursors!sockets
<1>2. \/ Cursors!NotPublished(p) /\ parting' = parting
      \/ /\ batch[p] # {} /\ parting' = [parting EXCEPT ![p] = @ \cup {frame}]
         /\ cursorBus' = cursorBus /\ missed' = missed
      \/ batch[p] = {} /\ parting' = parting /\ cursorBus' = cursorBus /\ missed' = missed
  BY DEF Cursors!Reclaim
<1>3. /\ frame \in Cursors!Frames
      /\ \A e \in Editor : frame[e] = IF e \in batch[p] THEN states[p][e] ELSE 0
      /\ \A e \in Editor : frame[e] <= clock[e]
      /\ \A e \in Editor : e \in batch[p] /\ states[p][e] = clock[e] => e \in Cursors!News(frame)
  BY FrameIsBound
<1>n. \A e \in Editor : SocketPod[e] \in Pod /\ clock[e] \in Nat /\ 0 <= clock[e]
  BY ClocksAreNumbers
<1>z. Cursors!NoStates \in Cursors!Frames /\ \A e \in Editor : Cursors!NoStates[e] = 0
  BY ClocksAreNumbers DEF Cursors!NoStates, Cursors!Frames
<1>o. \A q \in Pod : q # p => /\ rooms'[q] = rooms[q] /\ states'[q] = states[q]
                              /\ batch'[q] = batch[q] /\ parting'[q] = parting[q]
  BY <1>1, <1>2 DEF Cursors!TypeOK
<1>p. /\ rooms'[p] = "absent" /\ states'[p] = Cursors!NoStates /\ batch'[p] = {}
      /\ parting[p] \subseteq parting'[p] /\ parting'[p] \subseteq parting[p] \cup {frame}
  BY <1>1, <1>2 DEF Cursors!TypeOK
<1> HIDE DEF frame
<1>s. \/ Sent(p, frame) /\ Cursors!NotPublished(p)
      \/ cursorBus' = cursorBus /\ missed' = missed /\ (batch[p] # {} => frame \in parting'[p])
  BY <1>2, NotPublishedSends DEF frame, Cursors!TypeOK
<1>4. Cursors!TypeOK'
  <2>1. states' \in [Pod -> Cursors!Frames] /\ parting' \in [Pod -> SUBSET Cursors!Frames]
    <3>1. states' \in [Pod -> Cursors!Frames]
      BY <1>1, <1>z DEF Cursors!TypeOK
    <3>2. parting \in [Pod -> SUBSET Cursors!Frames] /\ {frame} \subseteq Cursors!Frames
      BY <1>3 DEF Cursors!TypeOK
    <3>3. parting' = parting \/ parting' = [parting EXCEPT ![p] = @ \cup {frame}]
      BY <1>2, Zenon
    <3>4. parting' \in [Pod -> SUBSET Cursors!Frames]
      BY <3>2, <3>3
    <3> QED
      BY <3>1, <3>4
  <2>2. /\ batch' \in [Pod -> SUBSET Editor] /\ origin' \in [Pod -> {"none", "local", "redis"}]
        /\ rooms' \in [Pod -> {"absent", "loading", "live"}]
    BY <1>1 DEF Cursors!TypeOK
  <2>3. cursorBus' \in [Pod -> Seq(Cursors!Frames)] /\ missed' \in [Pod -> SUBSET Editor]
    BY <1>s DEF Sent, Cursors!TypeOK
  <2> QED
    BY <1>1, <2>1, <2>2, <2>3 DEF Cursors!TypeOK, Cursors!Frames
<1>5. ASSUME NEW e \in Editor PROVE SocketInv(e)'
  <2>1. SocketInv(e) /\ (SocketPod[e] = p => place[e] \in {"away", "gone"})
    BY <1>1 DEF CursorParts, Cursors!Local
  <2>2. SocketPod[e] # p => rooms'[SocketPod[e]] = rooms[SocketPod[e]] /\ states'[SocketPod[e]] = states[SocketPod[e]]
    BY <1>o, <1>n
  <2> QED
    BY <1>1, <2>1, <2>2 DEF SocketInv
<1>6. ASSUME NEW q \in Pod PROVE EmptyInv(q)'
  <2>1. CASE q = p
    BY <1>p, <2>1 DEF EmptyInv, Cursors!NoStates
  <2>2. CASE q # p
    BY <1>o, <2>2 DEF EmptyInv, CursorParts, Cursors!NoStates
  <2> QED
    BY <2>1, <2>2
<1>7. ASSUME NEW q \in Pod, NEW e \in Editor PROVE BoundInv(q, e)'
  <2>1. BoundInv(q, e)
    BY DEF CursorParts
  <2>2. clock'[e] = clock[e]
    BY <1>1
  <2>3. /\ states'[q][e] = states[q][e] \/ states'[q][e] = 0
        /\ parting'[q] \subseteq parting[q] \cup {frame}
        /\ e \in batch'[q] => e \in batch[q] /\ states'[q][e] = states[q][e]
    BY <1>o, <1>p, <1>z
  <2>4. CASE Sent(p, frame)
    BY <1>3, <2>1, <2>2, <2>3, <2>4, StillBound
  <2>5. CASE cursorBus' = cursorBus
    <3>1. Cursors!OnBus(q)' = Cursors!OnBus(q)
      BY <2>5 DEF Cursors!OnBus
    <3> QED
      BY <1>3, <1>n, <2>1, <2>2, <2>3, <3>1 DEF BoundInv
  <2> QED
    BY <1>s, <2>4, <2>5
<1>8. ASSUME NEW q \in Pod, NEW e \in Editor PROVE ToldInv(q, e)'
  <2>1. CASE q = p
    BY <1>p, <2>1 DEF ToldInv
  <2>2. CASE q # p
    <3>1. /\ ToldInv(q, e) /\ clock'[e] = clock[e] /\ states'[q][e] = states[q][e] /\ rooms'[q] = rooms[q]
      BY <1>1, <1>o, <2>2 DEF CursorParts
    <3>2. SocketPod[e] # p /\ Cursors!WaitsAt(SocketPod[e], e) => Cursors!WaitsAt(SocketPod[e], e)'
      BY <1>1, <1>n, <1>o DEF Cursors!WaitsAt
    <3>3. CASE Sent(p, frame) /\ Cursors!NotPublished(p)
      <4>1. SocketPod[e] = p /\ Cursors!WaitsAt(SocketPod[e], e)
              => Cursors!WaitsAt(SocketPod[e], e)' \/ e \in Cursors!News(frame)
        BY <1>1, <1>3, <1>p DEF Cursors!WaitsAt
      <4> QED
        BY <3>1, <3>2, <3>3, <4>1, StillTold
    <3>4. CASE cursorBus' = cursorBus /\ missed' = missed /\ (batch[p] # {} => frame \in parting'[p])
      <4>1. SocketPod[e] = p /\ Cursors!WaitsAt(SocketPod[e], e) => Cursors!WaitsAt(SocketPod[e], e)'
        BY <1>1, <1>3, <1>p, <3>4 DEF Cursors!WaitsAt
      <4>2. Cursors!OnBus(q)' = Cursors!OnBus(q)
        BY <3>4 DEF Cursors!OnBus
      <4> QED
        BY <3>1, <3>2, <3>4, <4>1, <4>2 DEF ToldInv
    <3> QED
      BY <1>s, <3>3, <3>4
  <2> QED
    BY <2>1, <2>2
<1>9. ASSUME NEW e \in Editor, NEW f \in Editor PROVE ShownInv(e, f)'
  <2>1. CASE SocketPod[e] = p
    <3>1. place'[e] # "here"
      BY <1>1, <2>1 DEF Cursors!Local
    <3> QED
      BY <3>1 DEF ShownInv
  <2>2. CASE SocketPod[e] # p
    <3>1. states'[SocketPod[e]] = states[SocketPod[e]] /\ batch'[SocketPod[e]] = batch[SocketPod[e]]
      BY <1>o, <1>n, <2>2
    <3> QED
      BY <1>1, <3>1 DEF ShownInv, CursorParts, Cursors!Visible
  <2> QED
    BY <2>1, <2>2
<1> QED
  BY <1>4, <1>5, <1>6, <1>7, <1>8, <1>9 DEF CursorParts

(* The last batch of a reclaimed room goes. *)
LEMMA FlushPartingKeeps ==
    ASSUME Cursors!TypeOK, CursorParts, NEW p \in Pod, Cursors!FlushParting(p)
    PROVE  Cursors!TypeOK' /\ CursorParts'
<1>1. PICK frame \in parting[p] : Cursors!Publish(p, frame) /\ parting' = [parting EXCEPT ![p] = @ \ {frame}]
  BY DEF Cursors!FlushParting
<1>2. UNCHANGED <<place, clock, stalled, rooms, links, states, batch, origin, shown, snags, skipped>>
  BY DEF Cursors!FlushParting, Cursors!sockets
<1>3. frame \in Cursors!Frames
  BY DEF Cursors!TypeOK
<1>4. Sent(p, frame)
  BY <1>1, <1>3, PublishSends
<1>5. Cursors!TypeOK'
  <2>1. parting' \in [Pod -> SUBSET Cursors!Frames]
    BY <1>1 DEF Cursors!TypeOK
  <2> QED
    BY <1>2, <1>4, <2>1 DEF Cursors!TypeOK, Cursors!Frames, Sent
<1>6. \A e \in Editor : SocketInv(e)'
  BY <1>2 DEF CursorParts, SocketInv
<1>7. \A q \in Pod : EmptyInv(q)'
  BY <1>2 DEF CursorParts, EmptyInv, Cursors!NoStates
<1>8. ASSUME NEW q \in Pod, NEW e \in Editor PROVE BoundInv(q, e)' /\ ToldInv(q, e)'
  <2>1. BoundInv(q, e) /\ ToldInv(q, e) /\ BoundInv(p, e)
    BY DEF CursorParts
  <2>2. frame[e] <= clock[e]
    BY <2>1 DEF BoundInv
  <2>3. parting'[q] \subseteq parting[q] /\ (q # p => parting'[q] = parting[q])
    BY <1>1 DEF Cursors!TypeOK
  <2>4. BoundInv(q, e)'
    BY <1>2, <1>4, <2>1, <2>2, <2>3, StillBound
  <2>5. ASSUME Cursors!WaitsAt(SocketPod[e], e)
        PROVE  \/ Cursors!WaitsAt(SocketPod[e], e)'
               \/ SocketPod[e] = p /\ e \in Cursors!News(frame)
               \/ states[q][e] = clock[e]
    <3>n. /\ SocketPod[e] \in Pod /\ clock[e] \in Nat /\ states[q][e] \in Nat
      BY ClocksAreNumbers
    <3>1. CASE SocketPod[e] = p /\ frame[e] = clock[e]
      <4>1. clock[e] = 0 => states[q][e] = clock[e]
        BY <2>1, <3>n DEF BoundInv
      <4>2. clock[e] # 0 => e \in Cursors!News(frame)
        BY <3>1 DEF Cursors!News
      <4> QED
        BY <3>1, <4>1, <4>2
    <3>2. CASE SocketPod[e] = p /\ frame[e] # clock[e]
      <4>1. parting'[p] = parting[p] \ {frame}
        BY <1>1 DEF Cursors!TypeOK
      <4> QED
        BY <1>2, <2>5, <3>2, <4>1 DEF Cursors!WaitsAt
    <3>3. CASE SocketPod[e] # p
      <4>1. parting'[SocketPod[e]] = parting[SocketPod[e]]
        BY <1>1, <3>n, <3>3 DEF Cursors!TypeOK
      <4> QED
        BY <1>2, <2>5, <4>1 DEF Cursors!WaitsAt
    <3> QED
      BY <3>1, <3>2, <3>3
  <2>6. ToldInv(q, e)'
    BY <1>2, <1>4, <2>1, <2>5, StillTold
  <2> QED
    BY <2>4, <2>6
<1>9. \A e, f \in Editor : ShownInv(e, f)'
  BY <1>2 DEF CursorParts, ShownInv, Cursors!Visible
<1> QED
  BY <1>5, <1>6, <1>7, <1>8, <1>9 DEF CursorParts

(* A pod takes a frame off its channel: with a room it knows of each cursor *)
(* the later of the two clocks, and what changed joins the batch. *)
LEMMA ReceiveKeeps ==
    ASSUME Cursors!TypeOK, CursorParts, NEW p \in Pod, Cursors!Receive(p)
    PROVE  Cursors!TypeOK' /\ CursorParts'
<1> DEFINE frame == Head(cursorBus[p])
           new == Cursors!Changed(states[p], frame)
<1>1. /\ cursorBus[p] # <<>> /\ rooms[p] # "loading"
      /\ cursorBus' = [cursorBus EXCEPT ![p] = Tail(@)]
      /\ UNCHANGED <<place, clock, stalled, rooms, links, parting, shown, snags, missed, skipped>>
  BY DEF Cursors!Receive, Cursors!sockets
<1>2. /\ rooms[p] = "absent" => UNCHANGED <<states, batch, origin>>
      /\ rooms[p] # "absent" =>
           /\ states' = [states EXCEPT ![p] = Cursors!Merged(@, frame)]
           /\ new = {} => UNCHANGED <<batch, origin>>
           /\ new # {} => /\ batch' = [batch EXCEPT ![p] = batch[p] \cup new]
                          /\ origin' = [origin EXCEPT ![p] = "redis"]
  BY DEF Cursors!Receive, Cursors!Queue, Cursors!BatchAfter
<1>3. /\ frame \in Cursors!Frames /\ Tail(cursorBus[p]) \in Seq(Cursors!Frames)
      /\ Elements(cursorBus[p]) = Elements(Tail(cursorBus[p])) \cup {frame}
  <2>1. cursorBus[p] \in Seq(Cursors!Frames)
    BY DEF Cursors!TypeOK
  <2> QED
    BY <1>1, <2>1, TailElements, Zenon
<1>4. /\ cursorBus' \in [Pod -> Seq(Cursors!Frames)]
      /\ \A q \in Pod : Cursors!OnBus(q)' \subseteq Cursors!OnBus(q)
      /\ \A q \in Pod : q # p => Cursors!OnBus(q)' = Cursors!OnBus(q)
      /\ Cursors!OnBus(p) = Cursors!OnBus(p)' \cup {frame}
  <2>1. /\ cursorBus' \in [Pod -> Seq(Cursors!Frames)] /\ cursorBus'[p] = Tail(cursorBus[p])
        /\ \A q \in Pod : q # p => cursorBus'[q] = cursorBus[q]
    BY <1>1, <1>3 DEF Cursors!TypeOK
  <2>2. /\ \A q \in Pod : Cursors!OnBus(q) = Elements(cursorBus[q])
        /\ \A q \in Pod : Cursors!OnBus(q)' = Elements(cursorBus'[q])
    BY DEF Cursors!OnBus, Elements
  <2> QED
    BY <1>3, <2>1, <2>2
<1>5. new \subseteq Editor /\ \A e \in Editor : e \in new <=>
          states[p][e] < frame[e] /\ (states[p][e] # 0 \/ Cursors!Visible(frame[e]) # 0)
  BY DEF Cursors!Changed
<1> HIDE DEF new
<1>6. /\ batch' \in [Pod -> SUBSET Editor] /\ origin' \in [Pod -> {"none", "local", "redis"}]
      /\ \A q \in Pod : batch[q] \subseteq batch'[q]
      /\ \A q \in Pod : q # p => batch'[q] = batch[q]
      /\ rooms[p] # "absent" => batch'[p] = batch[p] \cup new
      /\ rooms[p] = "absent" => batch'[p] = batch[p]
  <2>1. CASE UNCHANGED <<batch, origin>> /\ (rooms[p] # "absent" => new = {})
    BY <2>1 DEF Cursors!TypeOK
  <2>2. CASE /\ rooms[p] # "absent" /\ batch' = [batch EXCEPT ![p] = batch[p] \cup new]
             /\ origin' = [origin EXCEPT ![p] = "redis"]
    BY <1>5, <2>2 DEF Cursors!TypeOK
  <2> QED
    BY <1>2, <2>1, <2>2
<1> HIDE DEF frame
<1>n. /\ \A e \in Editor : SocketPod[e] \in Pod /\ clock[e] \in Nat
      /\ \A q \in Pod, e \in Editor : states[q][e] \in Nat
      /\ \A e \in Editor : frame[e] \in 0..MaxClock
      /\ \A e, f \in Editor : shown[e][f] \in Nat
      /\ MaxClock \in Nat \ {0}
  <2>1. \A e \in Editor : frame[e] \in 0..MaxClock
    BY <1>3 DEF Cursors!Frames
  <2> QED
    BY <2>1, ClocksAreNumbers
<1>7. /\ states' \in [Pod -> Cursors!Frames]
      /\ \A q \in Pod, e \in Editor :
            states'[q][e] = IF q = p /\ rooms[p] # "absent" /\ states[p][e] < frame[e]
                            THEN frame[e] ELSE states[q][e]
      /\ \A q \in Pod : q # p \/ rooms[p] = "absent" => states'[q] = states[q]
  <2>1. CASE rooms[p] = "absent"
    BY <1>2, <2>1 DEF Cursors!TypeOK
  <2>2. CASE rooms[p] # "absent"
    <3>1. /\ Cursors!Merged(states[p], frame) \in Cursors!Frames
          /\ \A e \in Editor : Cursors!Merged(states[p], frame)[e]
                 = IF states[p][e] < frame[e] THEN frame[e] ELSE states[p][e]
      BY <1>3 DEF Cursors!Merged, Cursors!Later, Cursors!TypeOK, Cursors!Frames
    <3>2. states' = [states EXCEPT ![p] = Cursors!Merged(states[p], frame)]
      BY <1>2, <2>2
    <3> QED
      BY <2>2, <3>1, <3>2 DEF Cursors!TypeOK
  <2> QED
    BY <2>1, <2>2
<1>8. Cursors!TypeOK'
  BY <1>1, <1>4, <1>6, <1>7 DEF Cursors!TypeOK, Cursors!Frames
<1>9. \A e \in Editor : frame[e] <= clock[e]
  BY <1>4 DEF CursorParts, BoundInv
<1>10. ASSUME NEW e \in Editor PROVE SocketInv(e)'
  <2>1. SocketInv(e) /\ SocketPod[e] \in Pod
    BY <1>n DEF CursorParts
  <2>2. states[SocketPod[e]][e] = clock[e] => states'[SocketPod[e]][e] = clock[e]
    BY <1>7, <1>9, <1>n, <2>1
  <2> QED
    BY <1>1, <2>1, <2>2 DEF SocketInv
<1>11. ASSUME NEW q \in Pod PROVE EmptyInv(q)'
  <2>1. rooms[q] # "live" => states'[q] = states[q] /\ batch'[q] = batch[q]
    BY <1>1, <1>6, <1>7 DEF Cursors!TypeOK
  <2> QED
    BY <1>1, <2>1 DEF EmptyInv, CursorParts, Cursors!NoStates
<1>12. ASSUME NEW q \in Pod, NEW e \in Editor PROVE BoundInv(q, e)'
  <2>1. BoundInv(q, e)
    BY DEF CursorParts
  <2>2. states'[q][e] <= clock[e]
    BY <1>7, <1>9, <2>1 DEF BoundInv
  <2>3. e \in batch'[q] => states'[q][e] # 0
    <3>1. e \in batch[q] => states[q][e] # 0 /\ states'[q][e] # 0
      BY <1>7, <1>n, <2>1 DEF BoundInv
    <3>2. e \in new /\ rooms[p] # "absent" => states'[p][e] # 0
      BY <1>5, <1>7, <1>n
    <3> QED
      BY <1>6, <3>1, <3>2
  <2> QED
    BY <1>1, <1>4, <2>1, <2>2, <2>3 DEF BoundInv
<1>13. ASSUME NEW q \in Pod, NEW e \in Editor PROVE ToldInv(q, e)'
  <2>1. ToldInv(q, e) /\ BoundInv(q, e) /\ BoundInv(SocketPod[e], e)
    BY <1>n DEF CursorParts
  <2>2. Cursors!WaitsAt(SocketPod[e], e) => Cursors!WaitsAt(SocketPod[e], e)'
    <3>1. states[SocketPod[e]][e] = clock[e] => states'[SocketPod[e]][e] = clock[e]
      BY <1>7, <1>9, <1>n
    <3> QED
      BY <1>1, <1>6, <1>n, <3>1 DEF Cursors!WaitsAt
  <2>3. states[q][e] = clock[e] => states'[q][e] = clock[e]
    BY <1>7, <1>9, <1>n
  <2>4. q = p /\ rooms[p] # "absent" /\ frame[e] = clock[e] => states'[q][e] = clock[e]
    BY <1>7, <1>n, <2>1 DEF BoundInv
  <2> QED
    BY <1>1, <1>4, <2>1, <2>2, <2>3, <2>4 DEF ToldInv
<1>14. ASSUME NEW e \in Editor, NEW f \in Editor, place[e] = "here" PROVE ShownInv(e, f)'
  <2>1. /\ shown[e][f] <= states[SocketPod[e]][f]
        /\ \/ f \in skipped[e] \cup batch[SocketPod[e]]
           \/ Cursors!Visible(shown[e][f]) = Cursors!Visible(states[SocketPod[e]][f])
    BY <1>14 DEF CursorParts, ShownInv
  <2>2. SocketPod[e] \in Pod /\ shown'[e][f] = shown[e][f] /\ skipped'[e] = skipped[e]
        /\ batch[SocketPod[e]] \subseteq batch'[SocketPod[e]]
    BY <1>1, <1>6, <1>n
  <2>3. shown[e][f] <= states'[SocketPod[e]][f]
    BY <1>7, <1>n, <2>1, <2>2
  <2>4. \/ f \in batch'[SocketPod[e]]
        \/ Cursors!Visible(states'[SocketPod[e]][f]) = Cursors!Visible(states[SocketPod[e]][f])
    <3>1. CASE states'[SocketPod[e]][f] = states[SocketPod[e]][f]
      BY <3>1
    <3>2. CASE states'[SocketPod[e]][f] # states[SocketPod[e]][f]
      <4>1. /\ SocketPod[e] = p /\ rooms[p] # "absent" /\ states[p][f] < frame[f]
            /\ states'[p][f] = frame[f]
        BY <1>7, <2>2, <3>2
      <4>2. CASE f \in new
        BY <1>6, <4>1, <4>2
      <4>3. CASE f \notin new
        <5>1. states[p][f] = 0 /\ Cursors!Visible(frame[f]) = 0
          BY <1>5, <4>1, <4>3
        <5>2. Cursors!Visible(0) = 0
          BY <1>n DEF Cursors!Visible
        <5> QED
          BY <4>1, <5>1, <5>2
      <4> QED
        BY <4>2, <4>3
    <3> QED
      BY <3>1, <3>2
  <2>5. \/ f \in skipped'[e] \cup batch'[SocketPod[e]]
        \/ Cursors!Visible(shown'[e][f]) = Cursors!Visible(states'[SocketPod[e]][f])
    BY <2>1, <2>2, <2>4
  <2>6. Cursors!Visible(shown[e][f])' = Cursors!Visible(shown'[e][f])
        /\ Cursors!Visible(states[SocketPod[e]][f])' = Cursors!Visible(states'[SocketPod[e]][f])
    BY DEF Cursors!Visible
  <2> QED
    BY <2>2, <2>3, <2>5, <2>6 DEF ShownInv
<1>15. ASSUME NEW e \in Editor, NEW f \in Editor PROVE ShownInv(e, f)'
  <2>1. CASE place[e] = "here"
    BY <1>14, <2>1
  <2>2. CASE place[e] # "here"
    BY <1>1, <2>2 DEF ShownInv
  <2> QED
    BY <2>1, <2>2
<1> QED
  BY <1>8, <1>10, <1>11, <1>12, <1>13, <1>15 DEF CursorParts

(* A pod loses Redis, and part of what was on the way to it. *)
LEMMA UnlinkKeeps ==
    ASSUME Cursors!TypeOK, CursorParts, NEW p \in Pod, Cursors!Unlink(p)
    PROVE  Cursors!TypeOK' /\ CursorParts'
<1>1. /\ snags < MaxSnags /\ snags' = snags + 1 /\ links' = links \ {p}
      /\ missed' = [missed EXCEPT ![p] = @ \cup {e \in Editor : states[p][e] # clock[e]}]
      /\ UNCHANGED <<place, clock, stalled, rooms, states, batch, origin, parting, shown, skipped>>
  BY DEF Cursors!Unlink, Cursors!sockets
<1>2. PICK n \in 0..Len(cursorBus[p]) : cursorBus' = [cursorBus EXCEPT ![p] = SubSeq(@, 1, n)]
  BY DEF Cursors!Unlink
<1>3. /\ SubSeq(cursorBus[p], 1, n) \in Seq(Cursors!Frames)
      /\ Elements(SubSeq(cursorBus[p], 1, n)) \subseteq Elements(cursorBus[p])
  <2>1. cursorBus[p] \in Seq(Cursors!Frames)
    BY DEF Cursors!TypeOK
  <2> QED
    BY <2>1, PrefixElements
<1>4. /\ cursorBus' \in [Pod -> Seq(Cursors!Frames)]
      /\ \A q \in Pod : Cursors!OnBus(q)' \subseteq Cursors!OnBus(q)
      /\ \A q \in Pod : q # p => Cursors!OnBus(q)' = Cursors!OnBus(q)
  <2>1. /\ cursorBus' \in [Pod -> Seq(Cursors!Frames)] /\ cursorBus'[p] = SubSeq(cursorBus[p], 1, n)
        /\ \A q \in Pod : q # p => cursorBus'[q] = cursorBus[q]
    BY <1>2, <1>3 DEF Cursors!TypeOK
  <2>2. /\ \A q \in Pod : Cursors!OnBus(q) = Elements(cursorBus[q])
        /\ \A q \in Pod : Cursors!OnBus(q)' = Elements(cursorBus'[q])
    BY DEF Cursors!OnBus, Elements
  <2> QED
    BY <1>3, <2>1, <2>2
<1>5. Cursors!TypeOK'
  <2>1. snags' \in 0..MaxSnags
    BY <1>1, CursorAssumption DEF Cursors!TypeOK
  <2>2. missed' \in [Pod -> SUBSET Editor] /\ links' \subseteq Pod
    BY <1>1 DEF Cursors!TypeOK
  <2> QED
    BY <1>1, <1>4, <2>1, <2>2 DEF Cursors!TypeOK, Cursors!Frames
<1>6. \A e \in Editor : SocketInv(e)'
  BY <1>1 DEF CursorParts, SocketInv
<1>7. \A q \in Pod : EmptyInv(q)'
  BY <1>1 DEF CursorParts, EmptyInv, Cursors!NoStates
<1>8. ASSUME NEW q \in Pod, NEW e \in Editor PROVE BoundInv(q, e)'
  BY <1>1, <1>4 DEF CursorParts, BoundInv
<1>9. ASSUME NEW q \in Pod, NEW e \in Editor PROVE ToldInv(q, e)'
  <2>1. ToldInv(q, e)
    BY DEF CursorParts
  <2>2. Cursors!WaitsAt(SocketPod[e], e) => Cursors!WaitsAt(SocketPod[e], e)'
    BY <1>1 DEF Cursors!WaitsAt
  <2>3. CASE q = p
    BY <1>1, <2>3 DEF ToldInv, Cursors!TypeOK
  <2>4. CASE q # p
    <3>1. missed'[q] = missed[q]
      BY <1>1, <2>4 DEF Cursors!TypeOK
    <3> QED
      BY <1>1, <1>4, <2>1, <2>2, <2>4, <3>1 DEF ToldInv
  <2> QED
    BY <2>3, <2>4
<1>10. \A e, f \in Editor : ShownInv(e, f)'
  BY <1>1 DEF CursorParts, ShownInv, Cursors!Visible
<1> QED
  BY <1>5, <1>6, <1>7, <1>8, <1>9, <1>10 DEF CursorParts

(* Every step of the cursors keeps the invariant. *)
LEMMA CursorStep ==
    ASSUME Cursors!TypeOK, Cursors!CursorInv, [Cursors!Next]_(Cursors!awarenessVars)
    PROVE  Cursors!TypeOK' /\ Cursors!CursorInv'
<1>1. CursorParts
  BY CursorInvIsParts
<1> SUFFICES Cursors!TypeOK' /\ CursorParts'
  BY CursorInvIsParts
<1>2. ASSUME NEW e \in Editor, Cursors!Connect(e) \/ Cursors!Join(e)
      PROVE  Cursors!TypeOK' /\ CursorParts'
  BY <1>1, <1>2, ConnectKeeps, JoinKeeps, Zenon
<1>3. ASSUME NEW e \in Editor, Cursors!Move(e) \/ Cursors!Close(e)
      PROVE  Cursors!TypeOK' /\ CursorParts'
  BY <1>1, <1>3, MoveCloseKeeps, Zenon
<1>4. ASSUME NEW e \in Editor, Cursors!Stall(e) \/ Cursors!Drain(e)
      PROVE  Cursors!TypeOK' /\ CursorParts'
  BY <1>1, <1>4, QuietStepKeeps, Zenon
<1>5. ASSUME NEW p \in Pod, Cursors!Relink(p) PROVE Cursors!TypeOK' /\ CursorParts'
  BY <1>1, <1>5, QuietStepKeeps, Zenon
<1>6. ASSUME NEW p \in Pod,
             Cursors!Loaded(p) \/ Cursors!Flush(p) \/ Cursors!Reclaim(p) \/ Cursors!FlushParting(p)
      PROVE  Cursors!TypeOK' /\ CursorParts'
  BY <1>1, <1>6, LoadedKeeps, FlushKeeps, ReclaimKeeps, FlushPartingKeeps, Zenon
<1>7. ASSUME NEW p \in Pod, Cursors!Receive(p) \/ Cursors!Unlink(p)
      PROVE  Cursors!TypeOK' /\ CursorParts'
  BY <1>1, <1>7, ReceiveKeeps, UnlinkKeeps, Zenon
<1>8. CASE UNCHANGED Cursors!awarenessVars
  BY <1>1, <1>8, QuietStepKeeps, Zenon
<1> QED
  BY <1>2, <1>3, <1>4, <1>5, <1>6, <1>7, <1>8, Zenon DEF Cursors!Next

(* The inductive invariant of the cursors: a pod with a room knows the     *)
(* newest change of a cursor, or the change waits in a batch of its        *)
(* editor's pod, or it is on the way, or it went past the pod and is noted *)
(* as missed; for any pods and sockets, while rooms open and close and     *)
(* pods lose Redis and find it again. *)
THEOREM CursorInvariant == Cursors!Spec => [](Cursors!TypeOK /\ Cursors!CursorInv)
<1>1. Cursors!TypeOK /\ Cursors!CursorInv /\ [Cursors!Next]_(Cursors!awarenessVars)
        => Cursors!TypeOK' /\ Cursors!CursorInv'
  BY CursorStep
<1> QED
  BY CursorsInitial, <1>1, PTL DEF Cursors!Spec

(* Once nothing is under way, every room shows each cursor as its editor   *)
(* left it, and so does every socket, but for the cursors whose last       *)
(* change went past the pod and the frames that passed a choked socket.    *)
THEOREM CursorsAgree == Cursors!Spec => []CursorsConverge
<1>1. Cursors!TypeOK /\ Cursors!CursorInv => CursorsConverge
  <2> SUFFICES ASSUME Cursors!TypeOK, CursorParts, Cursors!Quiet, NEW p \in Pod, rooms[p] = "live"
               PROVE  /\ \A e \in Editor \ missed[p] : Cursors!Visible(states[p][e]) = Cursors!Visible(clock[e])
                      /\ \A e \in Cursors!Here(p), f \in Editor : f \notin missed[p] \cup skipped[e] =>
                            Cursors!Visible(shown[e][f]) = Cursors!Visible(clock[f])
    BY CursorInvIsParts DEF CursorsConverge, Cursors!CursorsConverge
  <2>1. \A q \in Pod : batch[q] = {} /\ parting[q] = {} /\ Cursors!OnBus(q) = {}
    BY DEF Cursors!Quiet, Cursors!OnBus
  <2>2. ASSUME NEW e \in Editor \ missed[p] PROVE states[p][e] = clock[e]
    <3>1. ToldInv(p, e) /\ SocketPod[e] \in Pod
      BY CursorAssumption DEF CursorParts
    <3>2. ~Cursors!WaitsAt(SocketPod[e], e)
      BY <2>1, <3>1 DEF Cursors!WaitsAt
    <3> QED
      BY <2>1, <2>2, <3>1, <3>2 DEF ToldInv
  <2>3. ASSUME NEW e \in Cursors!Here(p), NEW f \in Editor, f \notin missed[p] \cup skipped[e]
        PROVE  Cursors!Visible(shown[e][f]) = Cursors!Visible(clock[f])
    <3>1. e \in Editor /\ SocketPod[e] = p /\ place[e] = "here"
      BY DEF Cursors!Here, Cursors!Local
    <3>2. ShownInv(e, f)
      BY <3>1 DEF CursorParts
    <3>3. Cursors!Visible(shown[e][f]) = Cursors!Visible(states[p][f])
      BY <2>1, <2>3, <3>1, <3>2 DEF ShownInv
    <3>4. states[p][f] = clock[f]
      BY <2>2, <2>3
    <3> QED
      BY <3>3, <3>4
  <2> QED
    BY <2>2, <2>3
<1> QED
  BY <1>1, CursorInvariant, PTL

-----------------------------------------------------------------------------
(* The composition. *)

(* Each behaviour of the composition is one of every part. *)
LEMMA PartsBehave == MCSpec => Spec /\ LockSpec /\ Mesh!Spec /\ Cursors!Spec
<1>1. MCInit => Init /\ LockInit /\ Mesh!Init /\ Cursors!Init
  BY DEF MCInit
<1>2. [MCNext]_allVars => /\ [Next]_vars /\ [LockNext]_lockVars
                          /\ [Mesh!Next]_meshVars /\ [Cursors!Next]_cursorVars
  BY DEF MCNext, RoomMoves, LockMoves, MeshMoves, CursorsMove, allVars
<1>3. [Cursors!Next]_cursorVars => [Cursors!Next]_(Cursors!awarenessVars)
  BY DEF cursorVars, Cursors!awarenessVars, Cursors!sockets
<1> QED
  BY <1>1, <1>2, <1>3, PTL DEF MCSpec, Spec, LockSpec, Mesh!Spec, Cursors!Spec, meshVars, Mesh!meshVars

(* All variables of the composition keep their types. *)
THEOREM TypesHold == MCSpec => []TypesOK
<1>1. TypeOK /\ LockTypeOK /\ Mesh!TypeOK /\ Cursors!TypeOK <=> TypesOK
  BY DEF TypesOK
<1> QED
  BY <1>1, PartsBehave, RoomInvariant, LockInvariant, MeshInvariant, CursorInvariant, PTL

(* And all its safety properties hold together. *)
THEOREM CollaborationIsSafe ==
    MCSpec => /\ [](ReclaimedHasNoClient /\ RegisteredRoomIsHeld)
              /\ [](LocksExclude /\ RoomsMissNothing /\ CursorsConverge)
              /\ []LeasesFailAlone /\ RegisteredReclaimIsSaved
BY PartsBehave, ReclaimIsSafe, RegisteredIsHeld, LocksStayExclusive, RoomsHearEverything,
   CursorsAgree, ReclaimIsSaved, LostLeasesStayHome, PTL
=============================================================================
