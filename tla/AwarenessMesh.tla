------------------------------ MODULE AwarenessMesh ------------------------------
(***************************************************************************)
(* Cursors of one room on several pods: the awareness of each pod's        *)
(* WSSharedDoc (services/yjsSyncEngine.service.ts), its batches of 16 ms,  *)
(* the back-pressure of its sockets and the awareness channel of Redis     *)
(* (services/redisAdapter.service.ts).                                     *)
(*                                                                         *)
(* A room exists on a pod from its first socket to its last one, and the   *)
(* channel reaches the pods that have it and are connected at that moment. *)
(* A state is its clock, which y-protocols compares; 0 is none.  A cursor  *)
(* whose socket closed has a clock of its own, the last: null from then on. *)
(* A client's renewal of its cursor every 15 s is a move.  That y-protocols *)
(* drops what nobody renews, eviction, sockets that die during the load    *)
(* (DocRoom) and the second half of a client's life are left out.          *)
(***************************************************************************)
EXTENDS Naturals, Sequences

CONSTANTS
    Pods,
    Editors,     \* sockets
    PodOf,       \* the pod each socket is connected to
    MaxClock,    \* bound: changes of one cursor, its end included
    MaxSnags      \* bound: connections to Redis that break

VARIABLES
    place,      \* of each socket: away, waiting, here, gone
    rooms,      \* of each pod: absent, loading, live
    links,      \* pods whose connections to Redis are ready
    clock,      \* of each editor's cursor
    states,     \* the awareness of each pod's document
    batch,      \* pendingAwarenessClients
    origin,     \* lastAwarenessOrigin: none, local, redis
    parting,    \* last batches of documents that are reclaimed already
    cursorBus,  \* awareness messages on the way to each pod
    shown,      \* what each editor was sent
    stalled,    \* sockets with more than BACKPRESSURE_WARN_THRESHOLD to send
    snags,      \* broken connections and stalls so far
    missed,     \* history: cursors whose last change went past the pod
    skipped     \* history: cursors whose last change went past the stalled socket
sockets == <<place, clock, stalled>>
awarenessVars == <<sockets, rooms, links, states, batch, origin, parting, cursorBus, shown, snags,
                   missed, skipped>>

NoStates == [e \in Editors |-> 0]
Frames == [Editors -> 0..MaxClock]
Local(p) == {e \in Editors : PodOf[e] = p}
Here(p) == {e \in Local(p) : place[e] = "here"}

TypeOK ==
    /\ place \in [Editors -> {"away", "waiting", "here", "gone"}]
    /\ rooms \in [Pods -> {"absent", "loading", "live"}] /\ links \subseteq Pods
    /\ clock \in Frames /\ states \in [Pods -> Frames]
    /\ batch \in [Pods -> SUBSET Editors] /\ origin \in [Pods -> {"none", "local", "redis"}]
    /\ parting \in [Pods -> SUBSET Frames] /\ cursorBus \in [Pods -> Seq(Frames)]
    /\ shown \in [Editors -> Frames]
    /\ stalled \subseteq Editors /\ snags \in 0..MaxSnags
    /\ missed \in [Pods -> SUBSET Editors] /\ skipped \in [Editors -> SUBSET Editors]

Init ==
    /\ place = [e \in Editors |-> "away"]
    /\ rooms = [p \in Pods |-> "absent"] /\ links = Pods
    /\ clock = NoStates /\ states = [p \in Pods |-> NoStates]
    /\ batch = [p \in Pods |-> {}] /\ origin = [p \in Pods |-> "none"]
    /\ parting = [p \in Pods |-> {}] /\ cursorBus = [p \in Pods |-> <<>>]
    /\ shown = [e \in Editors |-> NoStates]
    /\ stalled = {} /\ snags = 0
    /\ missed = [p \in Pods |-> {}] /\ skipped = [e \in Editors |-> {}]

Later(a, b) == IF a < b THEN b ELSE a
Merged(old, new) == [e \in Editors |-> Later(old[e], new[e])]
Visible(c) == IF c = MaxClock THEN 0 ELSE c
(* A null for a client that is not known is no change. *)
Changed(old, new) == {e \in Editors : old[e] < new[e] /\ (old[e] # 0 \/ Visible(new[e]) # 0)}
(* What a frame tells that is still so. *)
News(frame) == {e \in Editors : frame[e] # 0 /\ frame[e] = clock[e]}

(* Mutant: the first change of a batch starts a timer, later ones do not   *)
(* join it. *)
FirstOnly(p, editors) == IF batch[p] = {} THEN editors ELSE batch[p]
BatchAfter(p, editors) == batch[p] \cup editors

(* queueAwarenessBroadcast *)
Queue(p, editors, from) ==
    /\ batch' = [batch EXCEPT ![p] = BatchAfter(p, editors)]
    /\ origin' = [origin EXCEPT ![p] = from]

-----------------------------------------------------------------------------
(* The sockets of a pod. *)

(* The first socket has getOrCreateDoc register the room. *)
Connect(e) ==
    LET p == PodOf[e]  opening == rooms[p] = "absent" IN
    /\ place[e] = "away"
    /\ place' = [place EXCEPT ![e] = "waiting"]
    /\ rooms' = [rooms EXCEPT ![p] = IF opening THEN "loading" ELSE @]
    /\ missed' = IF opening THEN [missed EXCEPT ![p] = {f \in Editors : clock[f] # 0}] ELSE missed
    /\ UNCHANGED <<clock, stalled, links, states, batch, origin, parting, cursorBus, shown, snags, skipped>>

Loaded(p) ==
    /\ rooms[p] = "loading"
    /\ rooms' = [rooms EXCEPT ![p] = "live"]
    /\ UNCHANGED <<sockets, links, states, batch, origin, parting, cursorBus, shown, snags, missed, skipped>>

(* conns.set and the handshake: the cursors this pod knows. *)
Join(e) ==
    LET p == PodOf[e] IN
    /\ place[e] = "waiting" /\ rooms[p] = "live"
    /\ place' = [place EXCEPT ![e] = "here"]
    /\ shown' = [shown EXCEPT ![e] = [f \in Editors |-> Visible(states[p][f])]]
    /\ UNCHANGED <<clock, stalled, rooms, links, states, batch, origin, parting, cursorBus, snags, missed, skipped>>

Sets(e, c) ==
    /\ clock' = [clock EXCEPT ![e] = c]
    /\ states' = [states EXCEPT ![PodOf[e]][e] = c]
    /\ Queue(PodOf[e], {e}, "local")

(* A cursor moves: applyAwarenessUpdate with the socket as origin. *)
Move(e) ==
    /\ place[e] = "here" /\ clock[e] < MaxClock - 1
    /\ Sets(e, clock[e] + 1)
    /\ UNCHANGED <<place, stalled, rooms, links, parting, cursorBus, shown, snags, missed, skipped>>

(* ws.on('close'): removeAwarenessStates of the socket's clients, if it    *)
(* ever had a cursor. *)
Close(e) ==
    /\ place[e] = "here"
    /\ place' = [place EXCEPT ![e] = "gone"]
    /\ IF clock[e] # 0 THEN Sets(e, MaxClock) ELSE UNCHANGED <<clock, states, batch, origin>>
    /\ UNCHANGED <<stalled, rooms, links, parting, cursorBus, shown, snags, missed, skipped>>

(* A socket chokes: awareness frames pass it by.  Once it drains, frames   *)
(* reach it again, those that passed do not. *)
Stall(e) ==
    /\ place[e] = "here" /\ e \notin stalled /\ snags < MaxSnags
    /\ snags' = snags + 1
    /\ stalled' = stalled \cup {e}
    /\ UNCHANGED <<place, clock, rooms, links, states, batch, origin, parting, cursorBus, shown, missed, skipped>>

Drain(e) ==
    /\ e \in stalled
    /\ stalled' = stalled \ {e}
    /\ UNCHANGED <<place, clock, rooms, links, states, batch, origin, parting, cursorBus, shown, snags, missed, skipped>>

-----------------------------------------------------------------------------
(* Batches and Redis. *)

Frame(p) == [e \in Editors |-> IF e \in batch[p] THEN states[p][e] ELSE 0]

Registered == {p \in Pods : rooms[p] # "absent"}

(* publishYjsAwareness: nothing, when Redis is away.  A pod misses what is *)
(* not sent, or comes while it has no room or no connection. *)
Publish(p, frame) ==
    LET reached == IF p \in links THEN links ELSE {} IN
    /\ cursorBus' = [q \in Pods |-> IF q \in reached THEN Append(cursorBus[q], frame) ELSE cursorBus[q]]
    /\ missed' = [q \in Pods |->
         IF q \in reached \cap Registered THEN missed[q] \ News(frame)
         ELSE IF q # p THEN missed[q] \cup (News(frame) \cap Local(p)) ELSE missed[q]]

NotPublished(p) ==
    /\ missed' = [q \in Pods |-> IF q # p THEN missed[q] \cup (News(Frame(p)) \cap Local(p)) ELSE missed[q]]
    /\ UNCHANGED cursorBus

(* The 16 ms are over: one frame of the current states to each socket that *)
(* is not stalled, and to Redis unless the last change came from there. *)
Flush(p) ==
    /\ batch[p] # {}
    /\ shown' = [e \in Editors |-> IF e \in Here(p) \ stalled THEN Merged(shown[e], Frame(p)) ELSE shown[e]]
    /\ skipped' = [e \in Editors |-> IF e \notin Here(p) THEN skipped[e]
                                     ELSE IF e \in stalled THEN skipped[e] \cup batch[p]
                                     ELSE skipped[e] \ batch[p]]
    /\ IF origin[p] = "redis" THEN NotPublished(p) ELSE Publish(p, Frame(p))
    /\ batch' = [batch EXCEPT ![p] = {}]
    /\ origin' = [origin EXCEPT ![p] = "none"]
    /\ UNCHANGED <<sockets, rooms, links, states, parting, snags>>

(* The last socket is gone and the final save is done: the registry forgets *)
(* the room.  The timer of the document's last batch still fires. *)
Reclaim(p) ==
    /\ rooms[p] = "live"
    /\ \A e \in Local(p) : place[e] \in {"away", "gone"}
    /\ rooms' = [rooms EXCEPT ![p] = "absent"]
    /\ states' = [states EXCEPT ![p] = NoStates]
    /\ batch' = [batch EXCEPT ![p] = {}]
    /\ origin' = [origin EXCEPT ![p] = "none"]
    /\ IF batch[p] # {} /\ origin[p] = "redis"
       THEN NotPublished(p) /\ UNCHANGED parting
       ELSE /\ parting' = IF batch[p] # {} THEN [parting EXCEPT ![p] = @ \cup {Frame(p)}] ELSE parting
            /\ UNCHANGED <<cursorBus, missed>>
    /\ UNCHANGED <<sockets, links, shown, snags, skipped>>

FlushParting(p) ==
    /\ \E frame \in parting[p] :
        /\ Publish(p, frame)
        /\ parting' = [parting EXCEPT ![p] = @ \ {frame}]
    /\ UNCHANGED <<sockets, rooms, links, states, batch, origin, shown, snags, skipped>>

(* pmessageBuffer on yjs:awareness: without a room nothing happens, a room *)
(* that loads is awaited, and what is new joins the batch. *)
Receive(p) ==
    /\ cursorBus[p] # <<>> /\ rooms[p] # "loading"
    /\ cursorBus' = [cursorBus EXCEPT ![p] = Tail(@)]
    /\ LET frame == Head(cursorBus[p])  new == Changed(states[p], frame) IN
        IF rooms[p] = "absent" THEN UNCHANGED <<states, batch, origin>>
        ELSE /\ states' = [states EXCEPT ![p] = Merged(@, frame)]
             /\ IF new = {} THEN UNCHANGED <<batch, origin>> ELSE Queue(p, new, "redis")
    /\ UNCHANGED <<sockets, rooms, links, parting, shown, snags, missed, skipped>>

(* Redis and a pod lose each other: of what was on the way, what the pod   *)
(* had read already is still handled; what it publishes before the next    *)
(* ready is lost, also what ioredis might send then. *)
Unlink(p) ==
    /\ p \in links /\ snags < MaxSnags
    /\ snags' = snags + 1
    /\ links' = links \ {p}
    /\ \E n \in 0..Len(cursorBus[p]) : cursorBus' = [cursorBus EXCEPT ![p] = SubSeq(@, 1, n)]
    /\ missed' = [missed EXCEPT ![p] = @ \cup {e \in Editors : states[p][e] # clock[e]}]
    /\ UNCHANGED <<sockets, rooms, states, batch, origin, parting, shown, skipped>>

Relink(p) ==
    /\ p \notin links
    /\ links' = links \cup {p}
    /\ UNCHANGED <<sockets, rooms, states, batch, origin, parting, cursorBus, shown, snags, missed, skipped>>

Next ==
    \/ \E e \in Editors : Connect(e) \/ Join(e) \/ Move(e) \/ Close(e) \/ Stall(e) \/ Drain(e)
    \/ \E p \in Pods : \/ Loaded(p) \/ Flush(p) \/ Reclaim(p) \/ FlushParting(p)
                       \/ Receive(p) \/ Unlink(p) \/ Relink(p)

Spec == Init /\ [][Next]_awarenessVars

-----------------------------------------------------------------------------
(* Properties. *)

Quiet == \A p \in Pods : batch[p] = {} /\ parting[p] = {} /\ cursorBus[p] = <<>>

(* When nothing is under way every room has each cursor as its editor left *)
(* it, and so has every socket: batching loses no change and no closed     *)
(* editor's cursor stays.  A pod is excused for the cursors whose last     *)
(* change went past it, because it had no room or no connection then, or   *)
(* because the batch of the change ended with one from Redis and was not   *)
(* published; a socket for the frames that passed it while it choked.  The *)
(* next change of the cursor that gets through ends the excuse. *)
CursorsConverge ==
    Quiet => \A p \in Pods : rooms[p] = "live" =>
        /\ \A e \in Editors \ missed[p] : Visible(states[p][e]) = Visible(clock[e])
        /\ \A e \in Here(p), f \in Editors : f \notin missed[p] \cup skipped[e] =>
              Visible(shown[e][f]) = Visible(clock[f])

(* Inductive.  A pod is up to date about a cursor, or its change waits in  *)
(* a batch of the editor's pod, or it is on the way; and a socket has what *)
(* its pod has, but for what the next batch holds. *)
OnBus(p) == {cursorBus[p][i] : i \in 1..Len(cursorBus[p])}
WaitsAt(p, e) ==
    \/ rooms[p] = "live" /\ e \in batch[p] /\ states[p][e] = clock[e]
    \/ \E frame \in parting[p] : frame[e] = clock[e]

CursorInv ==
    /\ \A e \in Editors : place[e] \in {"away", "waiting"} => clock[e] = 0
    /\ \A e \in Editors : place[e] = "here" => rooms[PodOf[e]] = "live" /\ states[PodOf[e]][e] = clock[e]
    /\ \A e \in Editors : place[e] = "waiting" => rooms[PodOf[e]] # "absent"
    /\ \A p \in Pods : rooms[p] # "live" => states[p] = NoStates /\ batch[p] = {}
    /\ \A p \in Pods, e \in Editors :
          /\ states[p][e] <= clock[e]
          /\ \A frame \in OnBus(p) \cup parting[p] : frame[e] <= clock[e]
          /\ e \in batch[p] => states[p][e] # 0
          /\ rooms[p] # "absent" /\ e \notin missed[p] =>
                \/ states[p][e] = clock[e]
                \/ PodOf[e] # p /\ WaitsAt(PodOf[e], e)
                \/ \E frame \in OnBus(p) : frame[e] = clock[e]
    /\ \A e, f \in Editors : place[e] = "here" =>
          /\ shown[e][f] <= states[PodOf[e]][f]
          /\ \/ f \in skipped[e] \cup batch[PodOf[e]]
             \/ Visible(shown[e][f]) = Visible(states[PodOf[e]][f])
=============================================================================
