------------------------------- MODULE Access -------------------------------
(* The roles of a workspace: the middleware that decides each request      *)
(* (src/backend/src/middleware/workspaceAuth.ts), the routes that change   *)
(* roles or delete the workspace (routes/workspace.ts), the rows behind    *)
(* them (repositories/workspace.repository.ts) and the cache in front of   *)
(* the rows: Redis for all pods, a map in each pod's memory while Redis is *)
(* not ready (utils/redisCache.ts).                                        *)
EXTENDS Integers, FiniteSets

CONSTANTS
    Owner, Guests,    \* the users; Owner owns the workspace
    Targets,          \* the roles an administrator hands out in the instance
    Pods, Requests,   \* the backend processes; the requests that may be in flight together
    MaxChanges,       \* bound: requests that change roles or delete the workspace
    MaxFaults         \* bound: times Redis stops or starts answering

VARIABLES
    exists, isPublic, \* the row of the workspace
    collab,           \* workspace_collaborators: the role of each guest
    redisReady,
    cache,            \* cache[s][k]: the entry of key k in Redis or in a pod's memory
    suspect,          \* history: the entries <<s, k>> known to have outlived a change
    request,          \* the handlers in flight
    changes, faults

accessVars == <<exists, isPublic, collab, redisReady, cache, suspect, request, changes, faults>>

Rank == [none |-> 0, viewer |-> 1, editor |-> 2, admin |-> 3]
Roles == DOMAIN Rank
Users == Guests \cup {Owner}
Keys == Guests \cup {"workspace"}     \* ws:auth:<id> and rbac:role:<id>:<user>
Stores == Pods \cup {"redis"}

Operations ==
    [kind : {"read", "write"}] \cup {[kind |-> "delete"]}
        \cup [kind : {"add", "update"}, of : Guests, to : Targets] \cup [kind : {"remove"}, of : Guests]
MinRole(op) == CASE op.kind = "read" -> "viewer" [] op.kind = "write" -> "editor" [] OTHER -> "admin"
Changing(op) == op.kind \notin {"read", "write"}

NoRequest == [step |-> "idle"]
Invalidating == {"invalidate", "list roles", "delete roles"}
Steps == {"idle", "get", "fetch", "store", "granted"} \cup Invalidating

-----------------------------------------------------------------------------
Value(k) == IF k = "workspace" THEN (IF exists THEN "found" ELSE "none") ELSE collab[k]

(* What the rows alone say of a user. *)
Effective(u) ==
    IF ~exists THEN "none"
    ELSE IF u = Owner THEN "admin"
    ELSE IF collab[u] = "none" /\ isPublic THEN "viewer" ELSE collab[u]

Held == [u \in Users |-> Effective(u)]

(* The changes that are in the database and whose handler has not answered. *)
Unanswered == {q \in Requests : request[q].step \in Invalidating}

Store(q) == IF redisReady THEN "redis" ELSE q.pod

Init ==
    /\ exists = TRUE /\ isPublic \in BOOLEAN
    /\ collab \in [Guests -> {"none"} \cup Targets]
    /\ redisReady = TRUE /\ cache = [s \in Stores |-> [k \in Keys |-> "none"]] /\ suspect = {}
    /\ request = [r \in Requests |-> NoRequest] /\ changes = 0 /\ faults = 0

(* A request arrives.  The deletion of the workspace asks the row itself   *)
(* for the owner; every other route runs requireWorkspaceRole. *)
Begin(r, u, op, p) ==
    /\ request[r].step = "idle" /\ (op.kind = "delete" => exists /\ u = Owner)
    /\ Changing(op) => changes < MaxChanges
    /\ changes' = IF Changing(op) THEN changes + 1 ELSE changes
    /\ request' = [request EXCEPT ![r] =
           [user |-> u, op |-> op, pod |-> p, key |-> "workspace", value |-> "none",
            step |-> IF op.kind = "delete" THEN "granted" ELSE "get",
            role |-> IF op.kind = "delete" THEN "admin" ELSE "none",
            had |-> {Effective(u)} \cup {request[q].was[u] : q \in Unanswered},
            tainted |-> FALSE, was |-> [v \in Users |-> "none"], toEvict |-> {}]]
    /\ UNCHANGED <<exists, isPublic, collab, redisReady, cache, suspect, faults>>

Granted(q, role) == [q EXCEPT !.step = "granted", !.role = role, !.key = "workspace", !.value = "none"]

(* The middleware once getOrFetch has returned v for q.key. *)
Proceed(q, v) ==
    LET role == IF v = "none" /\ isPublic THEN "viewer" ELSE v IN
    CASE q.key = "workspace" /\ v = "none" -> NoRequest
      [] q.key = "workspace" /\ v # "none" /\ q.user = Owner -> Granted(q, "admin")
      [] q.key = "workspace" /\ v # "none" /\ q.user # Owner -> [q EXCEPT !.step = "get", !.key = q.user]
      [] OTHER -> IF Rank[role] < Rank[MinRole(q.op)] THEN NoRequest
                  ELSE Granted(q, role)

(* getOrFetch, its three awaits: look in the cache, *)
Get(r) ==
    LET q == request[r]
        v == cache[Store(q)][q.key]
        hit == [q EXCEPT !.tainted = @ \/ <<Store(q), q.key>> \in suspect]
    IN
    /\ q.step = "get"
    /\ request' = [request EXCEPT ![r] = IF v = "none" THEN [q EXCEPT !.step = "fetch"] ELSE Proceed(hit, v)]
    /\ UNCHANGED <<exists, isPublic, collab, redisReady, cache, suspect, changes, faults>>

(* read the row, *)
Fetch(r) ==
    /\ request[r].step = "fetch"
    /\ request' = [request EXCEPT ![r] = [@ EXCEPT !.step = "store", !.value = Value(request[r].key)]]
    /\ UNCHANGED <<exists, isPublic, collab, redisReady, cache, suspect, changes, faults>>

(* and store what was read.  A change overtook it when the entry is        *)
(* neither current nor about to be evicted. *)
(* What the rows said of key k before c changed them. *)
Before(c, k) ==
    IF k # "workspace" THEN c.was[k] ELSE IF c.was[Owner] = "none" THEN "none" ELSE "found"
Overtaken(q) ==
    /\ q.value \notin {"none", Value(q.key)}
    /\ \A c \in Unanswered : q.key \in request[c].toEvict => q.value # Before(request[c], q.key)
SetEntry(r) ==
    LET q == request[r]
        entry == <<Store(q), q.key>>
    IN
    /\ q.step = "store"
    /\ cache' = [cache EXCEPT ![Store(q)][q.key] = q.value]
    /\ suspect' = IF Overtaken(q) THEN suspect \cup {entry} ELSE suspect \ {entry}
    /\ request' = [request EXCEPT ![r] = Proceed(q, q.value)]
    /\ UNCHANGED <<exists, isPublic, collab, redisReady, changes, faults>>

(* A granted request that only reads or edits files is over for us. *)
Answer(r) ==
    /\ request[r].step = "granted" /\ ~Changing(request[r].op)
    /\ request' = [request EXCEPT ![r] = NoRequest]
    /\ UNCHANGED <<exists, isPublic, collab, redisReady, cache, suspect, changes, faults>>

(* The rows change; everybody in flight may have been decided before or    *)
(* after.  A deletion that fails is rolled back and invalidates all the    *)
(* same; a failing change of a role ends the request. *)
Change(r, succeeds) ==
    LET q == request[r] IN
    /\ q.step = "granted" /\ Changing(q.op)
    /\ UNCHANGED <<isPublic, redisReady, cache, suspect, changes, faults>>
    /\ exists' = (exists /\ ~(succeeds /\ q.op.kind = "delete"))
    /\ collab' = [g \in Guests |->
           CASE ~succeeds \/ ~exists -> collab[g]
             [] succeeds /\ exists /\ q.op.kind = "delete" -> "none"
             [] succeeds /\ exists /\ q.op.kind # "delete" /\ g # q.op.of -> collab[g]
             [] OTHER -> CASE q.op.kind = "remove" -> "none"
                           [] q.op.kind = "update" /\ collab[g] = "none" -> "none"
                           [] OTHER -> q.op.to]
    /\ request' = [s \in Requests |->
           CASE s = r -> IF succeeds \/ q.op.kind = "delete"
                         THEN [q EXCEPT !.step = "invalidate", !.was = Held,
                                        !.toEvict = IF q.op.kind = "delete" THEN Keys ELSE {q.op.of}]
                         ELSE NoRequest
             [] s # r /\ request[s].step = "idle" -> NoRequest
             [] OTHER -> [request[s] EXCEPT !.had = @ \cup {(Held')[request[s].user]}]]

(* The entries of keys in some stores go; those in the others are known to *)
(* outlive it. *)
WithoutNothing(stores, keys) == cache   \* a mutant: nothing is evicted
Without(stores, keys) ==
    [s \in Stores |-> [k \in Keys |-> IF s \in stores /\ k \in keys THEN "none" ELSE cache[s][k]]]
Others(stores, keys) == {e \in (Stores \ stores) \X keys : cache[e[1]][e[2]] # "none"}

(* RedisCache.delete: the entry of this pod's memory always, the one in    *)
(* Redis only when it answers; other memories keep theirs. *)
Reached(p) == {p} \cup (IF redisReady THEN {"redis"} ELSE {})
Evicted(q) == IF q.op.kind = "delete" THEN {"workspace"} ELSE q.toEvict
Invalidate(r) ==
    LET q == request[r] IN
    /\ q.step = "invalidate"
    /\ cache' = Without(Reached(q.pod), Evicted(q))
    /\ suspect' = (suspect \cup Others(Reached(q.pod), Evicted(q))) \ (Reached(q.pod) \X Evicted(q))
    /\ request' = [request EXCEPT ![r] =
           IF q.op.kind = "delete" THEN [q EXCEPT !.step = "list roles", !.toEvict = Guests] ELSE NoRequest]
    /\ UNCHANGED <<exists, isPublic, collab, redisReady, changes, faults>>

(* RedisCache.deletePattern of the roles: out of the memory, then KEYS, *)
Listed == IF redisReady THEN {k \in Guests : cache["redis"][k] # "none"} ELSE {}
ListRoles(r) ==
    LET q == request[r] IN
    /\ q.step = "list roles"
    /\ cache' = Without({q.pod}, Guests)
    /\ suspect' = (suspect \cup Others(Reached(q.pod), Guests)) \ ({q.pod} \X Guests)
    /\ request' = [request EXCEPT ![r] =
           IF Listed = {} THEN NoRequest ELSE [q EXCEPT !.step = "delete roles", !.toEvict = Listed]]
    /\ UNCHANGED <<exists, isPublic, collab, redisReady, changes, faults>>

(* and DEL of what KEYS has listed. *)
DeleteRoles(r) ==
    LET q == request[r]
        stores == Reached(q.pod) \ {q.pod}
    IN
    /\ q.step = "delete roles"
    /\ cache' = Without(stores, q.toEvict)
    /\ suspect' = (suspect \cup Others(stores, q.toEvict)) \ (stores \X q.toEvict)
    /\ request' = [request EXCEPT ![r] = NoRequest]
    /\ UNCHANGED <<exists, isPublic, collab, redisReady, changes, faults>>

(* The time to live of an entry ends. *)
Expire(s, k) ==
    /\ cache[s][k] # "none"
    /\ cache' = [cache EXCEPT ![s][k] = "none"] /\ suspect' = suspect \ {<<s, k>>}
    /\ UNCHANGED <<exists, isPublic, collab, redisReady, request, changes, faults>>

RedisTurns ==
    /\ faults < MaxFaults
    /\ faults' = faults + 1 /\ redisReady' = ~redisReady
    /\ UNCHANGED <<exists, isPublic, collab, cache, suspect, request, changes>>

Next ==
    \/ \E r \in Requests, u \in Users, op \in Operations, p \in Pods : Begin(r, u, op, p)
    \/ \E r \in Requests : Get(r) \/ Fetch(r) \/ SetEntry(r) \/ Answer(r)
    \/ \E r \in Requests : Invalidate(r) \/ ListRoles(r) \/ DeleteRoles(r)
    \/ \E r \in Requests, succeeds \in BOOLEAN : Change(r, succeeds)
    \/ \E s \in Stores, k \in Keys : Expire(s, k)
    \/ RedisTurns

Spec == Init /\ [][Next]_accessVars

-----------------------------------------------------------------------------
TypeOK ==
    /\ exists \in BOOLEAN /\ isPublic \in BOOLEAN /\ collab \in [Guests -> Roles] /\ redisReady \in BOOLEAN
    /\ cache \in [Stores -> [Keys -> Roles \cup {"found"}]] /\ suspect \subseteq Stores \X Keys
    /\ \A r \in Requests : request[r].step \in Steps
    /\ changes \in 0..MaxChanges /\ faults \in 0..MaxFaults

(* A request is let in under a role no higher than one its user held at    *)
(* some moment between the start of the request and its decision, a change *)
(* still without an answer at the start counting as not yet made: roles    *)
(* read in two steps, from a cache filled and emptied by others, grant     *)
(* nothing that was never held.  The exceptions are the entries the code   *)
(* cannot help: stored by a reader the change overtook, or out of reach of *)
(* the invalidation (Redis not ready, the memory of another pod). *)
GrantsAreCurrent ==
    \A r \in Requests :
        request[r].step = "granted" /\ ~request[r].tainted =>
            \E role \in request[r].had : Rank[request[r].role] <= Rank[role]

(* The invariant that carries it, by parts.  Requests and entries have the *)
(* shape their steps give them; *)
Active ==
    [user : Users, op : Operations, pod : Pods, key : Keys, value : Roles \cup {"found"},
     step : Steps \ {"idle"}, role : Roles, had : SUBSET Roles, tainted : BOOLEAN, was : [Users -> Roles],
     toEvict : SUBSET Keys]
Fits(k, v) == IF k = "workspace" THEN v \in {"none", "found"} ELSE v \in Roles
Pending(q) ==
    /\ Changing(q.op)
    /\ q.step # "invalidate" => q.op.kind = "delete" /\ q.toEvict \subseteq Guests
Shaped ==
    /\ request \in [Requests -> {NoRequest} \cup Active]
    /\ \A c \in Unanswered : Pending(request[c])
    /\ \A s \in Stores, k \in Keys : Fits(k, cache[s][k])
    /\ ~exists => \A g \in Guests : collab[g] = "none"

(* a request that is being decided knows all its user was meanwhile, and   *)
(* has seen its workspace exist once it asks for the user's role; *)
Deciding == {r \in Requests : request[r].step \in {"get", "fetch", "store"}}
Saw(q) ==
    IF q.user = Owner THEN "admin" \in q.had
    ELSE isPublic => \E role \in q.had : Rank["viewer"] <= Rank[role]
FollowedBy(q) ==
    /\ Effective(q.user) \in q.had
    /\ \A c \in Unanswered : request[c].was[q.user] \in q.had
    /\ q.key # "workspace" => q.key = q.user /\ q.user # Owner /\ (q.tainted \/ Saw(q))
    /\ q.step = "store" => Fits(q.key, q.value)
    /\ q.step = "store" /\ q.value # "none" => IF q.key = "workspace" THEN Saw(q) ELSE q.value \in q.had
Follows == \A r \in Deciding : FollowedBy(request[r])

(* a change that did not answer yet knows what all users were before; *)
Remembers ==
    \A c \in Unanswered : LET was == request[c].was IN
        \/ was[Owner] = "none"
        \/ was[Owner] = "admin" /\ (isPublic => \A g \in Guests : was[g] # "none")

(* an entry that nothing is known against is current, or a change that is  *)
(* going to evict it has overtaken it. *)
EntriesAreCurrent ==
    \A s \in Stores, k \in Keys :
        cache[s][k] # "none" /\ <<s, k>> \notin suspect =>
            \/ cache[s][k] = Value(k)
            \/ \E c \in Unanswered : k \in request[c].toEvict /\ cache[s][k] = Before(request[c], k)

AccessInv == Shaped /\ Follows /\ Remembers /\ EntriesAreCurrent /\ GrantsAreCurrent
=============================================================================
