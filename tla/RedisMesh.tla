-------------------------------- MODULE RedisMesh --------------------------------
(***************************************************************************)
(* One file in the rooms of several pods: the updates its documents send   *)
(* each other over Redis pub/sub (services/redisAdapter.service.ts), the   *)
(* table files and the write-behind list they share, and the eviction of   *)
(* the workspace's rooms (docsRegistry.ts).                                *)
(*                                                                         *)
(* Pub/sub reaches the subscribers that are connected at that moment, the  *)
(* sender's own among them, each in the order of publishing.  A document   *)
(* is the set of updates it holds, a message the set it carries.  A room   *)
(* that opens applies what is stored like an edit: it publishes and buffers *)
(* all of it again.  The rest of a room's life is DocRoom's, the cache and  *)
(* the statements of load and save are DocPersistence's.                   *)
(***************************************************************************)
EXTENDS Naturals, Sequences

CONSTANTS
    Pods,
    MaxUpdates,  \* bound: edits of clients
    MaxOpens,    \* bound: openings of rooms
    MaxDrops     \* bound: connections to Redis that break, evictions

VARIABLES
    room,      \* in the pod's registry: absent, loading, replaying, live
    text,      \* updates the pod's document holds
    answer,    \* what the query of a loading room has read
    awaiting,  \* messages whose handler awaits the document
    bus,       \* messages on the way to the pod's subscriber
    linked,    \* the pod's connections to Redis are ready
    state,     \* files.yjs_state
    list,      \* the write-behind list in Redis
    rows,      \* file_updates
    made,      \* edits so far
    opens,     \* rooms opened so far
    drops,     \* broken connections and evictions so far
    heard,     \* history: published while the room was registered and linked
    copies,    \* history: how often each update was published
    loads      \* history: how often each update was loaded
meshVars == <<room, text, answer, awaiting, bus, linked, state, list, rows, made, opens, drops,
              heard, copies, loads>>
stored == <<state, rows>>
bounds == <<made, opens, drops>>

Updates == 1..MaxUpdates
Evict == {0}
Messages == (SUBSET Updates) \cup {Evict}

TypeOK ==
    /\ room \in [Pods -> {"absent", "loading", "replaying", "live"}]
    /\ text \in [Pods -> SUBSET Updates] /\ answer \in [Pods -> SUBSET Updates]
    /\ awaiting \in [Pods -> Seq(SUBSET Updates)]
    /\ bus \in [Pods -> Seq(Messages)]
    /\ linked \in [Pods -> BOOLEAN]
    /\ state \subseteq Updates /\ list \subseteq Updates /\ rows \subseteq Updates
    /\ made \in 0..MaxUpdates /\ opens \in 0..MaxOpens /\ drops \in 0..MaxDrops
    /\ heard \in [Pods -> SUBSET Updates]
    /\ copies \in [Updates -> Nat] /\ loads \in [Updates -> Nat]

Init ==
    /\ room = [p \in Pods |-> "absent"]
    /\ text = [p \in Pods |-> {}] /\ answer = [p \in Pods |-> {}]
    /\ awaiting = [p \in Pods |-> <<>>] /\ bus = [p \in Pods |-> <<>>]
    /\ linked = [p \in Pods |-> TRUE]
    /\ state = {} /\ list = {} /\ rows = {}
    /\ made = 0 /\ opens = 0 /\ drops = 0
    /\ heard = [p \in Pods |-> {}]
    /\ copies = [u \in Updates |-> 0] /\ loads = [u \in Updates |-> 0]

(* redisPublisher.publish, unless this pod is not connected: the message   *)
(* follows what is on the way already. *)
Published(p, message, under) ==
    [q \in Pods |-> IF linked[p] /\ linked[q] THEN Append(under[q], message) ELSE under[q]]
Counted(counter, new) == [u \in Updates |-> IF u \in new THEN counter[u] + 1 ELSE counter[u]]

(* Mutant: every update is published, whoever it came from. *)
AllAreLocal(origin) == TRUE
PublishesFrom(origin) == origin # "redis"

(* handleDocumentUpdate: publish what is not from Redis, buffer the delta. *)
(* A transaction that changes nothing is no update event. *)
DocumentUpdate(p, new, origin, under) ==
    /\ list' = IF linked[p] THEN list \cup new ELSE list
    /\ IF new # {} /\ PublishesFrom(origin) /\ linked[p]
       THEN /\ bus' = Published(p, new, under)
            /\ copies' = Counted(copies, new)
            /\ heard' = [q \in Pods |-> IF linked[q] /\ room[q] # "absent" THEN heard[q] \cup new ELSE heard[q]]
       ELSE bus' = under /\ UNCHANGED <<copies, heard>>

-----------------------------------------------------------------------------
(* The room of a pod. *)

(* getOrCreateDoc registers its promise and sends the query for the state. *)
Register(p) ==
    /\ room[p] = "absent" /\ opens < MaxOpens
    /\ opens' = opens + 1
    /\ room' = [room EXCEPT ![p] = "loading"]
    /\ answer' = [answer EXCEPT ![p] = state]
    /\ UNCHANGED <<text, awaiting, bus, linked, stored, list, made, drops, heard, copies, loads>>

(* Y.applyUpdate of the state, or the insertion of the content; then the    *)
(* query for the rows. *)
LoadState(p) ==
    /\ room[p] = "loading"
    /\ room' = [room EXCEPT ![p] = "replaying"]
    /\ text' = [text EXCEPT ![p] = answer[p]]
    /\ loads' = Counted(loads, answer[p])
    /\ answer' = [answer EXCEPT ![p] = rows]
    /\ DocumentUpdate(p, text'[p], "load", bus)
    /\ UNCHANGED <<awaiting, linked, stored, bounds>>

(* The rows are applied, together one message here; then the handlers that *)
(* awaited the document go on, before anything else of the pod. *)
LoadRows(p) ==
    LET new == answer[p] \ text[p] IN
    /\ room[p] = "replaying"
    /\ room' = [room EXCEPT ![p] = "live"]
    /\ text' = [text EXCEPT ![p] = @ \cup new]
    /\ loads' = Counted(loads, new)
    /\ answer' = [answer EXCEPT ![p] = {}]
    /\ DocumentUpdate(p, new, "load", bus)
    /\ UNCHANGED <<awaiting, linked, stored, bounds>>

(* Y.applyUpdate with origin redis: an update event, if it is new here.    *)
ApplyFromRedis(p, message, under) ==
    /\ text' = [text EXCEPT ![p] = @ \cup message]
    /\ DocumentUpdate(p, message \ text[p], "redis", under)

Resume(p) ==
    /\ room[p] = "live" /\ awaiting[p] # <<>>
    /\ ApplyFromRedis(p, Head(awaiting[p]), bus)
    /\ awaiting' = [awaiting EXCEPT ![p] = Tail(@)]
    /\ UNCHANGED <<room, answer, linked, stored, bounds, loads>>

Live(p) == room[p] = "live" /\ awaiting[p] = <<>>

(* A message of an editor. *)
Edit(p) ==
    /\ Live(p) /\ made < MaxUpdates
    /\ made' = made + 1
    /\ text' = [text EXCEPT ![p] = @ \cup {made'}]
    /\ DocumentUpdate(p, {made'}, "editor", bus)
    /\ UNCHANGED <<room, answer, awaiting, linked, stored, opens, drops, loads>>

(* executeSave writes the document over the stored state. *)
Save(p) ==
    /\ Live(p) /\ state # text[p]
    /\ state' = text[p]
    /\ UNCHANGED <<room, text, answer, awaiting, bus, linked, list, rows, bounds, heard, copies, loads>>

(* The registry forgets the room. *)
Forget(p) ==
    /\ room' = [room EXCEPT ![p] = "absent"]
    /\ text' = [text EXCEPT ![p] = {}] /\ heard' = [heard EXCEPT ![p] = {}]

(* The last editor goes: final save, then the room. *)
Leave(p) ==
    /\ Live(p)
    /\ state' = text[p]
    /\ Forget(p)
    /\ UNCHANGED <<answer, awaiting, bus, linked, list, rows, bounds, copies, loads>>

(* flushFileBuffer of any pod. *)
FlushList ==
    /\ list # {}
    /\ rows' = rows \cup list /\ list' = {}
    /\ UNCHANGED <<room, text, answer, awaiting, bus, linked, state, bounds, heard, copies, loads>>

-----------------------------------------------------------------------------
(* Messages and connections. *)

Message(p) == Head(bus[p])
Rest(p) == [bus EXCEPT ![p] = Tail(@)]

(* pmessageBuffer without a registered room: nothing happens. *)
ReceiveAbsent(p) ==
    /\ bus[p] # <<>> /\ room[p] = "absent"
    /\ bus' = Rest(p)
    /\ UNCHANGED <<room, text, answer, awaiting, linked, stored, list, bounds, heard, copies, loads>>

(* Mutant: the handler applies only to documents that are there. *)
NotAwaited(p) == awaiting[p]
AwaitedBy(p) == Append(awaiting[p], Message(p))

(* The handler awaits the document's promise. *)
ReceiveLoading(p) ==
    /\ bus[p] # <<>> /\ room[p] \in {"loading", "replaying"} /\ Message(p) # Evict
    /\ awaiting' = [awaiting EXCEPT ![p] = AwaitedBy(p)]
    /\ bus' = Rest(p)
    /\ UNCHANGED <<room, text, answer, linked, stored, list, bounds, heard, copies, loads>>

ReceiveUpdate(p) ==
    /\ bus[p] # <<>> /\ Live(p) /\ Message(p) # Evict
    /\ ApplyFromRedis(p, Message(p), Rest(p))
    /\ UNCHANGED <<room, answer, awaiting, linked, stored, bounds, loads>>

(* cancelAndEvictWorkspaceDocs: sockets are closed, nothing is saved, and  *)
(* the pod that was asked tells the others, whether it had the room or not. *)
EvictHere(p) ==
    /\ room[p] = "absent" \/ Live(p)
    /\ drops < MaxDrops
    /\ drops' = drops + 1
    /\ Forget(p)
    /\ bus' = Published(p, Evict, bus)
    /\ UNCHANGED <<answer, awaiting, linked, stored, list, made, opens, copies, loads>>

ReceiveEvict(p) ==
    /\ bus[p] # <<>> /\ Live(p) /\ Message(p) = Evict
    /\ Forget(p)
    /\ bus' = Rest(p)
    /\ UNCHANGED <<answer, awaiting, linked, stored, list, bounds, copies, loads>>

(* Redis and a pod lose each other: of what was on the way, what the pod   *)
(* had read already is still handled, and messages meanwhile are lost,     *)
(* those included that ioredis might send once it has connected again.  On *)
(* ready the subscriptions are there again. *)
Unlink(p) ==
    /\ linked[p] /\ drops < MaxDrops
    /\ drops' = drops + 1
    /\ linked' = [linked EXCEPT ![p] = FALSE]
    /\ \E n \in 0..Len(bus[p]) : bus' = [bus EXCEPT ![p] = SubSeq(@, 1, n)]
    /\ heard' = [heard EXCEPT ![p] = {}]
    /\ UNCHANGED <<room, text, answer, awaiting, stored, list, made, opens, copies, loads>>

Relink(p) ==
    /\ ~linked[p]
    /\ linked' = [linked EXCEPT ![p] = TRUE]
    /\ UNCHANGED <<room, text, answer, awaiting, bus, stored, list, bounds, heard, copies, loads>>

Next ==
    \/ FlushList
    \/ \E p \in Pods :
        \/ Register(p) \/ LoadState(p) \/ LoadRows(p) \/ Resume(p)
        \/ Edit(p) \/ Save(p) \/ Leave(p)
        \/ ReceiveAbsent(p) \/ ReceiveLoading(p) \/ ReceiveUpdate(p) \/ EvictHere(p) \/ ReceiveEvict(p)
        \/ Unlink(p) \/ Relink(p)

Spec == Init /\ [][Next]_meshVars

-----------------------------------------------------------------------------
(* Properties. *)

OnTheWay(p) ==
    (UNION {bus[p][i] : i \in 1..Len(bus[p])}) \cup (UNION {awaiting[p][i] : i \in 1..Len(awaiting[p])})

(* A room misses nothing that was published since it was registered, also  *)
(* while it loads, unless its pod lost Redis.  And no update goes round:   *)
(* beyond the publication where it was made, each one is paid for by a     *)
(* room that loaded the update; a pod that got it from Redis publishes no   *)
(* copy, however late and behind whichever load it comes. *)
RoomsMissNothing ==
    /\ \A p \in Pods : room[p] # "absent" => heard[p] \subseteq text[p] \cup OnTheWay(p)
    /\ \A u \in Updates : copies[u] <= 1 + loads[u]

(* Inductive: what an absent room heard is forgotten, and no update is     *)
(* published before it is made but by a load. *)
MeshInv ==
    /\ RoomsMissNothing
    /\ \A p \in Pods : room[p] = "absent" => heard[p] = {}
    /\ \A p \in Pods : room[p] \in {"absent", "loading"} => text[p] = {}
    /\ \A u \in Updates : u > made => copies[u] <= loads[u]
=============================================================================
