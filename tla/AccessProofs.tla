----------------------------- MODULE AccessProofs -----------------------------
(***************************************************************************)
(* Proofs about who may do what and who is there, for any guests, pods,    *)
(* requests, logins, sockets and files: the role checks with their two     *)
(* caches (Access), the logins (Accounts), and presence (Presence).        *)
(***************************************************************************)
EXTENDS AccessControl, Sequences, TLAPS

-----------------------------------------------------------------------------
(* Roles. *)

LEMMA RolesRanked ==
    /\ Roles!Roles = {"none", "viewer", "editor", "admin"}
    /\ Roles!Rank["none"] = 0 /\ Roles!Rank["viewer"] = 1 /\ Roles!Rank["editor"] = 2
    /\ Roles!Rank["admin"] = 3
    /\ \A role \in Roles!Roles : Roles!Rank[role] \in 0..3 /\ (role # "none" => 1 <= Roles!Rank[role])
BY DEF Roles!Roles, Roles!Rank

LEMMA OperationsShaped ==
    ASSUME NEW op \in Roles!Operations
    PROVE  /\ op.kind \in {"read", "write", "delete", "add", "update", "remove"}
           /\ op.kind \in {"add", "update", "remove"} => op.of \in Guests
           /\ op.kind \in {"add", "update"} => op.to \in Targets
           /\ 1 <= Roles!Rank[Roles!MinRole(op)] /\ Roles!Rank[Roles!MinRole(op)] \in Nat
<1>1. /\ op.kind \in {"read", "write", "delete", "add", "update", "remove"}
      /\ op.kind \in {"add", "update", "remove"} => op.of \in Guests
      /\ op.kind \in {"add", "update"} => op.to \in Targets
  BY DEF Roles!Operations
<1>2. Roles!MinRole(op) \in {"viewer", "editor", "admin"}
  BY DEF Roles!MinRole
<1> QED
  BY <1>1, <1>2, RolesRanked

(* Whether it rests or moves, a request is at a step of the handler. *)
LEMMA StepsNamed ==
    /\ Roles!NoRequest.step = "idle"
    /\ \A q \in {Roles!NoRequest} \cup Roles!Active : q.step \in Roles!Steps /\ (q.step # "idle" => q \in Roles!Active)
<1>1. Roles!NoRequest.step = "idle" /\ "idle" \in Roles!Steps
  BY DEF Roles!NoRequest, Roles!Steps, Roles!Invalidating
<1>2. \A q \in Roles!Active : q.step \in Roles!Steps
  BY DEF Roles!Active
<1> QED
  BY <1>1, <1>2

(* What users hold. *)
LEMMA HeldByUsers ==
    ASSUME Roles!TypeOK, Roles!Shaped
    PROVE  /\ Roles!Held \in [Roles!Users -> Roles!Roles]
           /\ \A u \in Roles!Users : Roles!Held[u] = Roles!Effective(u) /\ Roles!Effective(u) \in Roles!Roles
           /\ exists => Roles!Effective(Owner) = "admin"
           /\ exists /\ isPublic => \A u \in Roles!Users : Roles!Effective(u) # "none"
           /\ ~exists => \A u \in Roles!Users : Roles!Effective(u) = "none"
           /\ \A g \in Guests : collab[g] # "none" => exists /\ Roles!Effective(g) = collab[g]
<1>1. \A u \in Roles!Users : Roles!Effective(u) \in Roles!Roles
  BY RolesRanked, AccessAssumption DEF Roles!Effective, Roles!Users, Roles!TypeOK
<1>2. \A g \in Guests : g # Owner /\ g \in Roles!Users
  BY AccessAssumption DEF Roles!Users
<1>3. /\ exists => Roles!Effective(Owner) = "admin"
      /\ ~exists => \A u \in Roles!Users : Roles!Effective(u) = "none"
      /\ \A g \in Guests : collab[g] # "none" => exists /\ Roles!Effective(g) = collab[g]
  <2>1. (exists => Roles!Effective(Owner) = "admin") /\ (~exists => \A u \in Roles!Users : Roles!Effective(u) = "none")
    BY DEF Roles!Effective, Roles!TypeOK
  <2>2. ASSUME NEW g \in Guests, collab[g] # "none"
        PROVE  exists /\ Roles!Effective(g) = collab[g]
    <3>1. exists /\ g # Owner
      BY <1>2, <2>2 DEF Roles!Shaped
    <3> QED
      BY <2>2, <3>1 DEF Roles!Effective
  <2> QED
    BY <2>1, <2>2
<1>4. exists /\ isPublic => \A u \in Roles!Users : Roles!Effective(u) # "none"
  BY <1>2 DEF Roles!Effective, Roles!Users
<1> QED
  BY <1>1, <1>3, <1>4 DEF Roles!Held

(* A request whose user has held a role while the workspace existed. *)
LEMMA SawWhileExists ==
    ASSUME Roles!TypeOK, Roles!Shaped, exists, NEW q, q.user \in Roles!Users,
           Roles!Effective(q.user) \in q.had
    PROVE  Roles!Saw(q)
<1>1. CASE q.user = Owner
  BY <1>1, HeldByUsers DEF Roles!Saw
<1>2. CASE q.user # Owner
  <2>1. isPublic => Roles!Effective(q.user) # "none" /\ Roles!Effective(q.user) \in Roles!Roles
    BY HeldByUsers
  <2>2. isPublic => Roles!Rank["viewer"] <= Roles!Rank[Roles!Effective(q.user)]
    BY <2>1, RolesRanked
  <2> QED
    BY <1>2, <2>2 DEF Roles!Saw
<1> QED
  BY <1>1, <1>2

(* What the middleware makes of a value that getOrFetch returned. *)
LEMMA ProceedsSoundly ==
    ASSUME Roles!TypeOK, NEW q \in Roles!Active, NEW v, Roles!Fits(q.key, v),
           q.had # {},
           q.key = "workspace" /\ v # "none" => q.tainted \/ Roles!Saw(q),
           q.key # "workspace" => /\ q.key = q.user /\ q.user # Owner /\ (q.tainted \/ Roles!Saw(q))
                                  /\ v # "none" => q.tainted \/ v \in q.had
    PROVE  \/ Roles!Proceed(q, v) = Roles!NoRequest
           \/ /\ Roles!Proceed(q, v) \in Roles!Active
              /\ Roles!Proceed(q, v).step \in {"get", "granted"}
              /\ Roles!Proceed(q, v).user = q.user /\ Roles!Proceed(q, v).had = q.had
              /\ Roles!Proceed(q, v).step = "get" =>
                    /\ Roles!Proceed(q, v).key = q.user /\ q.user # Owner
                    /\ Roles!Proceed(q, v).tainted \/ Roles!Saw(Roles!Proceed(q, v))
              /\ Roles!Proceed(q, v).step = "granted" /\ ~Roles!Proceed(q, v).tainted =>
                    \E role \in q.had : Roles!Rank[Roles!Proceed(q, v).role] <= Roles!Rank[role]
<1> DEFINE role == IF v = "none" /\ isPublic THEN "viewer" ELSE v
           p == Roles!Proceed(q, v)
<1>0. /\ q.user \in Roles!Users /\ q.had \subseteq Roles!Roles /\ q.op \in Roles!Operations
      /\ "workspace" \notin Guests /\ Owner # "workspace"
  BY AccessAssumption DEF Roles!Active
<1>1. CASE q.key = "workspace" /\ v = "none"
  BY <1>1 DEF Roles!Proceed
<1>2. CASE q.key = "workspace" /\ v # "none" /\ q.user = Owner
  <2>1. p = [q EXCEPT !.step = "granted", !.role = "admin", !.key = "workspace", !.value = "none"]
    BY <1>2 DEF Roles!Proceed, Roles!Granted
  <2>2. p \in Roles!Active
    BY <2>1, RolesRanked, ZenonT(60) DEF Roles!Active, Roles!Steps, Roles!Invalidating, Roles!Keys
  <2>3. /\ p.step = "granted" /\ p.role = "admin" /\ p.user = q.user /\ p.had = q.had
        /\ p.tainted = q.tainted
    BY <2>1 DEF Roles!Active
  <2>4. q.tainted \/ "admin" \in q.had
    BY <1>2 DEF Roles!Saw
  <2>5. Roles!Rank["admin"] <= Roles!Rank["admin"]
    BY RolesRanked
  <2> HIDE DEF p
  <2> QED
    BY <2>2, <2>3, <2>4, <2>5 DEF p
<1>3. CASE q.key = "workspace" /\ v # "none" /\ q.user # Owner
  <2>1. p = [q EXCEPT !.step = "get", !.key = q.user]
    BY <1>3 DEF Roles!Proceed
  <2>2. p \in Roles!Active
    BY <1>0, <1>3, <2>1 DEF Roles!Active, Roles!Steps, Roles!Invalidating, Roles!Keys, Roles!Users
  <2>3. /\ p.step = "get" /\ p.key = q.user /\ p.user = q.user /\ p.had = q.had
        /\ p.tainted = q.tainted
    BY <2>1 DEF Roles!Active
  <2>4. p.tainted \/ Roles!Saw(p)
    BY <1>3, <2>3 DEF Roles!Saw
  <2> HIDE DEF p
  <2> QED
    BY <1>3, <2>2, <2>3, <2>4 DEF p
<1>4. CASE q.key # "workspace"
  <2>1. v \in Roles!Roles /\ role \in Roles!Roles
    BY <1>4, RolesRanked DEF Roles!Fits
  <2>2. p = IF Roles!Rank[role] < Roles!Rank[Roles!MinRole(q.op)] THEN Roles!NoRequest
            ELSE [q EXCEPT !.step = "granted", !.role = role, !.key = "workspace", !.value = "none"]
    BY <1>4 DEF Roles!Proceed, Roles!Granted
  <2> HIDE DEF role
  <2>3. CASE Roles!Rank[role] < Roles!Rank[Roles!MinRole(q.op)]
    BY <2>2, <2>3
  <2>4. CASE ~(Roles!Rank[role] < Roles!Rank[Roles!MinRole(q.op)])
    <3>1. /\ p \in Roles!Active /\ p.step = "granted" /\ p.role = role /\ p.user = q.user /\ p.had = q.had
          /\ p.tainted = q.tainted
      <4>1. p = [q EXCEPT !.step = "granted", !.role = role, !.key = "workspace", !.value = "none"]
        BY <2>2, <2>4
      <4>2. "none" \in Roles!Roles
        BY RolesRanked
      <4> HIDE DEF p
      <4> QED
        BY <2>1, <4>1, <4>2 DEF Roles!Active, Roles!Steps, Roles!Invalidating, Roles!Keys
    <3>2. q.tainted \/ \E x \in q.had : Roles!Rank[role] <= Roles!Rank[x]
      <4>1. CASE v # "none"
        BY <1>0, <1>4, <2>1, <4>1, RolesRanked DEF role
      <4>2. CASE v = "none" /\ isPublic
        BY <1>4, <4>2 DEF role, Roles!Saw
      <4>3. CASE v = "none" /\ ~isPublic
        BY <1>0, <2>1, <4>3, RolesRanked DEF role
      <4> QED
        BY <4>1, <4>2, <4>3
    <3> HIDE DEF p
    <3> QED
      BY <3>1, <3>2 DEF p
  <2> QED
    BY <2>3, <2>4
<1> QED
  BY <1>1, <1>2, <1>3, <1>4

(* A step of one request that changes no row and no store: the rest stays  *)
(* as it was, whatever the request makes of it.                            *)
LEMMA RequestMoves ==
    ASSUME Roles!TypeOK, Roles!AccessInv, NEW r \in Requests, r \notin Roles!Unanswered, NEW p,
           UNCHANGED <<exists, isPublic, collab>>,
           request' = [request EXCEPT ![r] = p],
           p \in {Roles!NoRequest} \cup Roles!Active,
           p.step \notin Roles!Invalidating,
           p.step \in {"get", "fetch", "store"} => Roles!FollowedBy(p),
           p.step = "granted" /\ ~p.tainted => \E role \in p.had : Roles!Rank[p.role] <= Roles!Rank[role]
    PROVE  /\ request' \in [Requests -> {Roles!NoRequest} \cup Roles!Active]
           /\ Roles!Unanswered' = Roles!Unanswered /\ \A c \in Roles!Unanswered : request'[c] = request[c]
           /\ Roles!Follows' /\ Roles!Remembers' /\ Roles!GrantsAreCurrent'
           /\ \A s \in Requests : request'[s].step \in Roles!Steps
<1> USE DEF Roles!AccessInv
<1>1. /\ \A s \in Requests : request'[s] = IF s = r THEN p ELSE request[s]
      /\ request' \in [Requests -> {Roles!NoRequest} \cup Roles!Active]
  BY DEF Roles!Shaped
<1>2. Roles!Unanswered' = Roles!Unanswered /\ \A c \in Roles!Unanswered : request'[c] = request[c]
  BY <1>1 DEF Roles!Unanswered, Roles!Invalidating
<1>3. \A s \in Requests : request'[s].step \in Roles!Steps
  BY <1>1, StepsNamed
<1>4. Roles!Remembers'
  <2>1. \A c \in Roles!Unanswered' : request'[c].was = request[c].was /\ c \in Roles!Unanswered
    BY <1>2
  <2> QED
    BY <2>1 DEF Roles!Remembers
<1>5. Roles!GrantsAreCurrent'
  <2> SUFFICES ASSUME NEW s \in Requests, request'[s].step = "granted", ~request'[s].tainted
               PROVE  \E role \in request'[s].had : Roles!Rank[request'[s].role] <= Roles!Rank[role]
    BY DEF Roles!GrantsAreCurrent
  <2>1. CASE s = r
    BY <1>1, <2>1
  <2>2. CASE s # r
    BY <1>1, <2>2 DEF Roles!GrantsAreCurrent
  <2> QED
    BY <2>1, <2>2
<1>6. Roles!Follows'
  <2> SUFFICES ASSUME NEW s \in Roles!Deciding' PROVE Roles!FollowedBy(request[s])'
    BY DEF Roles!Follows
  <2>1. s \in Requests /\ request'[s].step \in {"get", "fetch", "store"}
    BY DEF Roles!Deciding
  <2>2. CASE s = r
    <3>1. request'[s] = p /\ Roles!FollowedBy(p)
      BY <1>1, <2>1, <2>2
    <3> QED
      BY <1>2, <3>1 DEF Roles!FollowedBy, Roles!Effective, Roles!Saw
  <2>3. CASE s # r
    <3>1. request'[s] = request[s] /\ Roles!FollowedBy(request[s])
      BY <1>1, <2>1, <2>3 DEF Roles!Follows, Roles!Deciding
    <3> QED
      BY <1>2, <3>1 DEF Roles!FollowedBy, Roles!Effective, Roles!Saw
  <2> QED
    BY <2>2, <2>3
<1> QED
  BY <1>1, <1>2, <1>3, <1>4, <1>5, <1>6

(* Entries that stay, while rows and changes under way do, stay current. *)
LEMMA EntriesStay ==
    ASSUME Roles!EntriesAreCurrent, UNCHANGED <<exists, collab>>,
           Roles!Unanswered' = Roles!Unanswered, \A c \in Roles!Unanswered : request'[c] = request[c],
           \A s \in Roles!Stores, k \in Roles!Keys : cache'[s][k] # "none" /\ <<s, k>> \notin suspect' =>
              cache'[s][k] = cache[s][k] /\ <<s, k>> \notin suspect
    PROVE  Roles!EntriesAreCurrent'
<1> SUFFICES ASSUME NEW s \in Roles!Stores, NEW k \in Roles!Keys, cache'[s][k] # "none", <<s, k>> \notin suspect'
             PROVE  \/ cache'[s][k] = Roles!Value(k)'
                    \/ \E c \in Roles!Unanswered' : k \in request'[c].toEvict /\ cache'[s][k] = Roles!Before(request[c], k)'
  BY DEF Roles!EntriesAreCurrent
<1>1. Roles!Value(k)' = Roles!Value(k)
  BY DEF Roles!Value
<1>2. \A c \in Roles!Unanswered : request'[c].toEvict = request[c].toEvict
                            /\ Roles!Before(request[c], k)' = Roles!Before(request[c], k)
  BY DEF Roles!Before
<1> QED
  BY <1>1, <1>2 DEF Roles!EntriesAreCurrent

(* A request that moves leaves stores and rows alone. *)
LEMMA MovesAlone ==
    ASSUME Roles!TypeOK, Roles!AccessInv, NEW r \in Requests, r \notin Roles!Unanswered, NEW p,
           UNCHANGED <<exists, isPublic, collab, redisReady, cache, suspect, faults>>, changes' \in 0..MaxChanges,
           request' = [request EXCEPT ![r] = p],
           p \in {Roles!NoRequest} \cup Roles!Active,
           p.step \notin Roles!Invalidating,
           p.step \in {"get", "fetch", "store"} => Roles!FollowedBy(p),
           p.step = "granted" /\ ~p.tainted => \E role \in p.had : Roles!Rank[p.role] <= Roles!Rank[role]
    PROVE  Roles!TypeOK' /\ Roles!AccessInv'
<1>1. /\ request' \in [Requests -> {Roles!NoRequest} \cup Roles!Active]
      /\ Roles!Unanswered' = Roles!Unanswered /\ \A c \in Roles!Unanswered : request'[c] = request[c]
      /\ Roles!Follows' /\ Roles!Remembers' /\ Roles!GrantsAreCurrent'
      /\ \A s \in Requests : request'[s].step \in Roles!Steps
  BY RequestMoves
<1>2. Roles!EntriesAreCurrent'
  BY <1>1, EntriesStay DEF Roles!AccessInv
<1>3. Roles!Shaped'
  <2>1. \A c \in Roles!Unanswered' : Roles!Pending(request[c])'
    BY <1>1 DEF Roles!AccessInv, Roles!Shaped, Roles!Pending, Roles!Changing
  <2> QED
    BY <1>1, <2>1 DEF Roles!AccessInv, Roles!Shaped
<1>4. Roles!TypeOK'
  BY <1>1 DEF Roles!TypeOK
<1> QED
  BY <1>1, <1>2, <1>3, <1>4 DEF Roles!AccessInv

(* What users had, as far as a request can tell when it begins. *)
LEMMA BeginKeeps ==
    ASSUME Roles!TypeOK, Roles!AccessInv, NEW r \in Requests, NEW u \in Roles!Users,
           NEW op \in Roles!Operations, NEW p \in Pods,
           Roles!Begin(r, u, op, p)
    PROVE  Roles!TypeOK' /\ Roles!AccessInv'
<1> DEFINE had == {Roles!Effective(u)} \cup {request[q].was[u] : q \in Roles!Unanswered}
           new == [user |-> u, op |-> op, pod |-> p, key |-> "workspace", value |-> "none",
                   step |-> IF op.kind = "delete" THEN "granted" ELSE "get",
                   role |-> IF op.kind = "delete" THEN "admin" ELSE "none",
                   had |-> had, tainted |-> FALSE, was |-> [v \in Roles!Users |-> "none"], toEvict |-> {}]
<1>1. /\ request[r].step = "idle" /\ (op.kind = "delete" => exists /\ u = Owner)
      /\ Roles!Changing(op) => changes < MaxChanges
      /\ changes' = IF Roles!Changing(op) THEN changes + 1 ELSE changes
      /\ request' = [request EXCEPT ![r] = new]
      /\ UNCHANGED <<exists, isPublic, collab, redisReady, cache, suspect, faults>>
  BY DEF Roles!Begin
<1>2. r \notin Roles!Unanswered
  BY <1>1 DEF Roles!Unanswered, Roles!Invalidating
<1>3. changes' \in 0..MaxChanges
  BY <1>1, AccessAssumption DEF Roles!TypeOK
<1>4. \A c \in Roles!Unanswered : request[c] \in Roles!Active
  BY StepsNamed DEF Roles!Unanswered, Roles!Invalidating, Roles!AccessInv, Roles!Shaped
<1>5. had \subseteq Roles!Roles
  BY <1>4, HeldByUsers DEF Roles!AccessInv, Roles!Active
<1>6. Roles!Effective(u) \in had /\ \A c \in Roles!Unanswered : request[c].was[u] \in had
  OBVIOUS
<1> HIDE DEF had
<1>7. new \in Roles!Active
  <2>1. /\ new.user = u /\ new.key \in Roles!Keys /\ new.value \in Roles!Roles /\ new.role \in Roles!Roles
        /\ new.step \in Roles!Steps \ {"idle"} /\ [v \in Roles!Users |-> "none"] \in [Roles!Users -> Roles!Roles]
    BY RolesRanked DEF Roles!Keys, Roles!Steps, Roles!Invalidating
  <2> QED
    BY <1>5, <2>1 DEF Roles!Active
<1>8. /\ new.user = u /\ new.had = had /\ new.key = "workspace" /\ new.value = "none"
      /\ new.step \in {"get", "granted"}
      /\ new.step = "granted" => exists /\ u = Owner /\ new.role = "admin"
  BY <1>1
<1> HIDE DEF new
<1>9. new.step = "get" => Roles!FollowedBy(new)
  BY <1>6, <1>8 DEF Roles!FollowedBy
<1>10. new.step = "granted" => \E role \in new.had : Roles!Rank[new.role] <= Roles!Rank[role]
  <2>1. exists => "admin" \in had \/ u # Owner
    BY <1>6, HeldByUsers DEF Roles!AccessInv
  <2> QED
    BY <1>8, <2>1, RolesRanked
<1> QED
  BY <1>1, <1>2, <1>3, <1>7, <1>8, <1>9, <1>10, MovesAlone DEF Roles!Invalidating

(* getOrFetch returned: the middleware goes on. *)
LEMMA ProceedMoves ==
    ASSUME Roles!TypeOK, Roles!AccessInv, NEW r \in Roles!Deciding, NEW q \in Roles!Active, NEW v,
           Roles!Fits(q.key, v),
           q.user = request[r].user, q.had = request[r].had,
           q.key = "workspace" /\ v # "none" => q.tainted \/ Roles!Saw(q),
           q.key # "workspace" => /\ q.key = q.user /\ q.user # Owner /\ (q.tainted \/ Roles!Saw(q))
                                  /\ v # "none" => q.tainted \/ v \in q.had
    PROVE  /\ Roles!Proceed(q, v) \in {Roles!NoRequest} \cup Roles!Active
           /\ Roles!Proceed(q, v).step \notin Roles!Invalidating
           /\ Roles!Proceed(q, v).step \in {"get", "fetch", "store"} => Roles!FollowedBy(Roles!Proceed(q, v))
           /\ Roles!Proceed(q, v).step = "granted" /\ ~Roles!Proceed(q, v).tainted =>
                 \E role \in Roles!Proceed(q, v).had : Roles!Rank[Roles!Proceed(q, v).role] <= Roles!Rank[role]
<1> DEFINE p == Roles!Proceed(q, v)
<1>1. Roles!FollowedBy(request[r]) /\ q.had # {}
  BY DEF Roles!AccessInv, Roles!Follows, Roles!FollowedBy
<1>2. \/ p = Roles!NoRequest
      \/ /\ p \in Roles!Active /\ p.step \in {"get", "granted"} /\ p.user = q.user /\ p.had = q.had
         /\ p.step = "get" => p.key = q.user /\ q.user # Owner /\ (p.tainted \/ Roles!Saw(p))
         /\ p.step = "granted" /\ ~p.tainted => \E role \in q.had : Roles!Rank[p.role] <= Roles!Rank[role]
  BY <1>1, ProceedsSoundly
<1> HIDE DEF p
<1>3. CASE p = Roles!NoRequest
  BY <1>3, StepsNamed DEF p, Roles!Invalidating
<1>4. CASE p # Roles!NoRequest
  <2>1. p.step = "get" => Roles!FollowedBy(p)
    BY <1>1, <1>2, <1>4 DEF Roles!FollowedBy
  <2> QED
    BY <1>2, <1>4, <2>1 DEF p, Roles!Invalidating
<1> QED
  BY <1>3, <1>4

(* The facts about a request that is being decided. *)
LEMMA DecidedRequest ==
    ASSUME Roles!TypeOK, Roles!AccessInv, NEW r \in Requests, request[r].step \in {"get", "fetch", "store"}
    PROVE  /\ r \in Roles!Deciding /\ r \notin Roles!Unanswered /\ request[r] \in Roles!Active
           /\ Roles!FollowedBy(request[r]) /\ Roles!Store(request[r]) \in Roles!Stores
           /\ request[r].key \in Roles!Keys /\ request[r].user \in Roles!Users
<1>1. r \in Roles!Deciding /\ r \notin Roles!Unanswered /\ request[r] \in Roles!Active
  BY StepsNamed DEF Roles!Deciding, Roles!Unanswered, Roles!Invalidating, Roles!AccessInv, Roles!Shaped
<1> QED
  BY <1>1 DEF Roles!AccessInv, Roles!Follows, Roles!Active, Roles!Store, Roles!Stores

(* An entry nothing is known against shows what its reader held.           *)
LEMMA EntryShows ==
    ASSUME Roles!TypeOK, Roles!AccessInv, NEW r \in Roles!Deciding, NEW s \in Roles!Stores,
           NEW k \in Roles!Keys,
           request[r] \in Roles!Active, Roles!FollowedBy(request[r]),
           cache[s][k] # "none", <<s, k>> \notin suspect,
           k \in {"workspace", request[r].user}
    PROVE  IF k = "workspace" THEN Roles!Saw(request[r]) ELSE cache[s][k] \in request[r].had
<1> DEFINE q == request[r]
<1>0. q.user \in Roles!Users /\ Roles!Effective(q.user) \in q.had /\ Roles!Fits(k, cache[s][k])
  BY DEF Roles!Active, Roles!FollowedBy, Roles!AccessInv, Roles!Shaped
<1>1. CASE cache[s][k] = Roles!Value(k)
  <2>1. CASE k = "workspace"
    BY <1>0, <1>1, <2>1, SawWhileExists DEF Roles!Value, Roles!AccessInv
  <2>2. CASE k # "workspace"
    <3>1. k \in Guests /\ k = q.user /\ cache[s][k] = collab[k] /\ collab[k] # "none"
      BY <1>1, <2>2 DEF Roles!Value, Roles!Keys
    <3> QED
      BY <1>0, <2>2, <3>1, HeldByUsers DEF Roles!AccessInv
  <2> QED
    BY <2>1, <2>2
<1>2. ASSUME NEW c \in Roles!Unanswered, cache[s][k] = Roles!Before(request[c], k)
      PROVE  IF k = "workspace" THEN Roles!Saw(q) ELSE cache[s][k] \in q.had
  <2>1. request[c].was[q.user] \in q.had
    BY DEF Roles!FollowedBy
  <2>2. CASE k = "workspace"
    <3>1. request[c].was[Owner] # "none"
      BY <1>2, <2>2 DEF Roles!Before
    <3>2. /\ request[c].was[Owner] = "admin"
          /\ isPublic => \A g \in Guests : request[c].was[g] # "none"
      BY <3>1 DEF Roles!AccessInv, Roles!Remembers
    <3>3. request[c].was[q.user] \in Roles!Roles
      <4>1. request[c] \in Roles!Active
        BY StepsNamed DEF Roles!Unanswered, Roles!Invalidating, Roles!AccessInv, Roles!Shaped
      <4> QED
        BY <1>0, <4>1 DEF Roles!Active
    <3>4. isPublic /\ q.user # Owner => Roles!Rank["viewer"] <= Roles!Rank[request[c].was[q.user]]
      BY <1>0, <3>2, <3>3, RolesRanked DEF Roles!Users
    <3> QED
      BY <2>1, <2>2, <3>2, <3>4 DEF Roles!Saw
  <2>3. CASE k # "workspace"
    BY <1>2, <2>1, <2>3 DEF Roles!Before
  <2> QED
    BY <2>2, <2>3
<1> QED
  BY <1>1, <1>2 DEF Roles!AccessInv, Roles!EntriesAreCurrent

LEMMA GetKeeps ==
    ASSUME Roles!TypeOK, Roles!AccessInv, NEW r \in Requests, Roles!Get(r)
    PROVE  Roles!TypeOK' /\ Roles!AccessInv'
<1> DEFINE q == request[r]
           s == Roles!Store(q)
           v == cache[s][q.key]
           hit == [q EXCEPT !.tainted = @ \/ <<s, q.key>> \in suspect]
<1>1. /\ q.step = "get"
      /\ request' = [request EXCEPT ![r] = IF v = "none" THEN [q EXCEPT !.step = "fetch"] ELSE Roles!Proceed(hit, v)]
      /\ UNCHANGED <<exists, isPublic, collab, redisReady, cache, suspect, changes, faults>>
  BY DEF Roles!Get
<1>2. /\ r \in Roles!Deciding /\ r \notin Roles!Unanswered /\ q \in Roles!Active
      /\ Roles!FollowedBy(q) /\ s \in Roles!Stores
      /\ q.key \in Roles!Keys /\ q.user \in Roles!Users
  BY <1>1, DecidedRequest
<1>3. changes' \in 0..MaxChanges
  BY <1>1 DEF Roles!TypeOK
<1>4. CASE v = "none"
  <2> DEFINE p == [q EXCEPT !.step = "fetch"]
  <2>1. p \in Roles!Active /\ p.step = "fetch"
    BY <1>2 DEF Roles!Active, Roles!Steps, Roles!Invalidating
  <2>2. p.user = q.user /\ p.had = q.had /\ p.key = q.key /\ p.tainted = q.tainted
    BY <1>2 DEF Roles!Active
  <2> HIDE DEF p
  <2>3. Roles!FollowedBy(p)
    BY <1>2, <2>1, <2>2 DEF Roles!FollowedBy, Roles!Saw
  <2>4. request' = [request EXCEPT ![r] = p]
    BY <1>1, <1>4 DEF p
  <2> QED
    BY <1>1, <1>2, <1>3, <2>1, <2>3, <2>4, MovesAlone DEF Roles!Invalidating
<1>5. CASE v # "none"
  <2>1. hit \in Roles!Active
    BY <1>2 DEF Roles!Active
  <2>2. /\ hit.user = q.user /\ hit.had = q.had /\ hit.key = q.key
        /\ hit.tainted <=> (q.tainted \/ <<s, q.key>> \in suspect)
    BY <1>2 DEF Roles!Active
  <2>3. Roles!Fits(q.key, v)
    BY <1>2 DEF Roles!AccessInv, Roles!Shaped
  <2>4. q.key # "workspace" => q.key = q.user /\ q.user # Owner /\ (q.tainted \/ Roles!Saw(q))
    BY <1>2 DEF Roles!FollowedBy
  <2>5. <<s, q.key>> \notin suspect => IF q.key = "workspace" THEN Roles!Saw(q) ELSE v \in q.had
    BY <1>2, <1>5, <2>4, EntryShows
  <2>6. request' = [request EXCEPT ![r] = Roles!Proceed(hit, v)]
    BY <1>1, <1>5
  <2> HIDE DEF hit, v, s
  <2>7. Roles!Saw(hit) <=> Roles!Saw(q)
    BY <2>2 DEF Roles!Saw
  <2> DEFINE p == Roles!Proceed(hit, v)
  <2>8. /\ p \in {Roles!NoRequest} \cup Roles!Active
        /\ p.step \notin Roles!Invalidating
        /\ p.step \in {"get", "fetch", "store"} => Roles!FollowedBy(p)
        /\ p.step = "granted" /\ ~p.tainted => \E role \in p.had : Roles!Rank[p.role] <= Roles!Rank[role]
    BY <1>2, <2>1, <2>2, <2>3, <2>4, <2>5, <2>7, ProceedMoves
  <2> HIDE DEF p
  <2>9. request' = [request EXCEPT ![r] = p]
    BY <2>6 DEF p
  <2> QED
    BY <1>1, <1>2, <1>3, <2>8, <2>9, MovesAlone
<1> QED
  BY <1>4, <1>5

LEMMA FetchKeeps ==
    ASSUME Roles!TypeOK, Roles!AccessInv, NEW r \in Requests, Roles!Fetch(r)
    PROVE  Roles!TypeOK' /\ Roles!AccessInv'
<1> DEFINE q == request[r]
           p == [q EXCEPT !.step = "store", !.value = Roles!Value(q.key)]
<1>1. /\ q.step = "fetch" /\ request' = [request EXCEPT ![r] = p]
      /\ UNCHANGED <<exists, isPublic, collab, redisReady, cache, suspect, changes, faults>>
  BY DEF Roles!Fetch
<1>2. /\ r \in Roles!Deciding /\ r \notin Roles!Unanswered /\ q \in Roles!Active /\ Roles!FollowedBy(q)
      /\ q.key \in Roles!Keys /\ q.user \in Roles!Users
  BY <1>1, DecidedRequest
<1>3. changes' \in 0..MaxChanges
  BY <1>1 DEF Roles!TypeOK
<1>4. Roles!Fits(q.key, Roles!Value(q.key)) /\ Roles!Value(q.key) \in Roles!Roles \cup {"found"}
  BY <1>2, RolesRanked, AccessAssumption DEF Roles!Fits, Roles!Value, Roles!Keys, Roles!TypeOK
<1>5. p \in Roles!Active
  BY <1>2, <1>4 DEF Roles!Active, Roles!Steps, Roles!Invalidating
<1>6. /\ p.step = "store" /\ p.value = Roles!Value(q.key) /\ p.user = q.user /\ p.had = q.had
      /\ p.key = q.key /\ p.tainted = q.tainted
  BY <1>2 DEF Roles!Active
<1> HIDE DEF p
<1>7. Roles!Saw(p) <=> Roles!Saw(q)
  BY <1>6 DEF Roles!Saw
<1>8. Roles!Effective(q.user) \in q.had
      /\ (q.key # "workspace" => q.key = q.user /\ q.user # Owner /\ (q.tainted \/ Roles!Saw(q)))
  BY <1>2 DEF Roles!FollowedBy
<1>9. Roles!Value(q.key) # "none" => IF q.key = "workspace" THEN Roles!Saw(q) ELSE Roles!Value(q.key) \in q.had
  <2>1. CASE q.key = "workspace"
    BY <1>2, <1>8, <2>1, SawWhileExists DEF Roles!Value, Roles!AccessInv
  <2>2. CASE q.key # "workspace"
    <3>1. q.key \in Guests /\ q.key = q.user /\ Roles!Value(q.key) = collab[q.key]
      BY <1>2, <1>8, <2>2 DEF Roles!Value, Roles!Keys
    <3> QED
      BY <1>8, <2>2, <3>1, HeldByUsers DEF Roles!AccessInv
  <2> QED
    BY <2>1, <2>2
<1>10. Roles!FollowedBy(p)
  BY <1>2, <1>4, <1>6, <1>7, <1>8, <1>9 DEF Roles!FollowedBy
<1> QED
  BY <1>1, <1>2, <1>3, <1>5, <1>6, <1>10, MovesAlone DEF Roles!Invalidating

LEMMA SetEntryKeeps ==
    ASSUME Roles!TypeOK, Roles!AccessInv, NEW r \in Requests, Roles!SetEntry(r)
    PROVE  Roles!TypeOK' /\ Roles!AccessInv'
<1> DEFINE q == request[r]
           s == Roles!Store(q)
           p == Roles!Proceed(q, q.value)
<1>1. /\ q.step = "store"
      /\ cache' = [cache EXCEPT ![s][q.key] = q.value]
      /\ suspect' = IF Roles!Overtaken(q) THEN suspect \cup {<<s, q.key>>} ELSE suspect \ {<<s, q.key>>}
      /\ request' = [request EXCEPT ![r] = p]
      /\ UNCHANGED <<exists, isPublic, collab, redisReady, changes, faults>>
  BY DEF Roles!SetEntry
<1>2. /\ r \in Roles!Deciding /\ r \notin Roles!Unanswered /\ q \in Roles!Active
      /\ Roles!FollowedBy(q) /\ s \in Roles!Stores
      /\ q.key \in Roles!Keys /\ q.user \in Roles!Users
  BY <1>1, DecidedRequest
<1>3. /\ Roles!Fits(q.key, q.value)
      /\ q.value # "none" => IF q.key = "workspace" THEN Roles!Saw(q) ELSE q.value \in q.had
      /\ q.key # "workspace" => q.key = q.user /\ q.user # Owner /\ (q.tainted \/ Roles!Saw(q))
  BY <1>1, <1>2 DEF Roles!FollowedBy
<1>4. /\ p \in {Roles!NoRequest} \cup Roles!Active
      /\ p.step \notin Roles!Invalidating
      /\ p.step \in {"get", "fetch", "store"} => Roles!FollowedBy(p)
      /\ p.step = "granted" /\ ~p.tainted => \E role \in p.had : Roles!Rank[p.role] <= Roles!Rank[role]
  BY <1>2, <1>3, ProceedMoves
<1> HIDE DEF p, s
<1>5. /\ request' \in [Requests -> {Roles!NoRequest} \cup Roles!Active]
      /\ Roles!Unanswered' = Roles!Unanswered /\ \A c \in Roles!Unanswered : request'[c] = request[c]
      /\ Roles!Follows' /\ Roles!Remembers' /\ Roles!GrantsAreCurrent'
      /\ \A x \in Requests : request'[x].step \in Roles!Steps
  BY <1>1, <1>2, <1>4, RequestMoves
<1>6. /\ \A x \in Roles!Stores, k \in Roles!Keys :
            cache'[x][k] = IF x = s /\ k = q.key THEN q.value ELSE cache[x][k]
      /\ q.value \in Roles!Roles \cup {"found"}
      /\ cache' \in [Roles!Stores -> [Roles!Keys -> Roles!Roles \cup {"found"}]]
  BY <1>1, <1>2 DEF Roles!TypeOK, Roles!Active
<1>7. suspect' \subseteq Roles!Stores \X Roles!Keys
  BY <1>1, <1>2 DEF Roles!TypeOK
<1>8. Roles!Shaped'
  <2>1. \A c \in Roles!Unanswered' : Roles!Pending(request[c])'
    BY <1>5 DEF Roles!AccessInv, Roles!Shaped, Roles!Pending, Roles!Changing
  <2>2. \A x \in Roles!Stores, k \in Roles!Keys : Roles!Fits(k, cache'[x][k])
    BY <1>3, <1>6 DEF Roles!AccessInv, Roles!Shaped
  <2> QED
    BY <1>1, <1>5, <2>1, <2>2 DEF Roles!AccessInv, Roles!Shaped, Roles!Fits
<1>9. Roles!EntriesAreCurrent'
  <2> SUFFICES ASSUME NEW x \in Roles!Stores, NEW k \in Roles!Keys, cache'[x][k] # "none", <<x, k>> \notin suspect'
               PROVE  \/ cache'[x][k] = Roles!Value(k)'
                      \/ \E c \in Roles!Unanswered' : k \in request'[c].toEvict /\ cache'[x][k] = Roles!Before(request[c], k)'
    BY DEF Roles!EntriesAreCurrent
  <2>1. Roles!Value(k)' = Roles!Value(k)
    BY <1>1 DEF Roles!Value
  <2>2. \A c \in Roles!Unanswered : request'[c].toEvict = request[c].toEvict
                              /\ Roles!Before(request[c], k)' = Roles!Before(request[c], k)
    BY <1>5 DEF Roles!Before
  <2>3. CASE x = s /\ k = q.key
    <3>1. ~Roles!Overtaken(q)
      BY <1>1, <2>3
    <3> QED
      BY <1>5, <1>6, <2>1, <2>2, <2>3, <3>1 DEF Roles!Overtaken
  <2>4. CASE ~(x = s /\ k = q.key)
    <3>1. <<x, k>> \notin suspect /\ cache'[x][k] = cache[x][k]
      BY <1>1, <1>6, <2>4
    <3> QED
      BY <1>5, <2>1, <2>2, <3>1 DEF Roles!AccessInv, Roles!EntriesAreCurrent
  <2> QED
    BY <2>3, <2>4
<1>10. Roles!TypeOK'
  BY <1>1, <1>5, <1>6, <1>7 DEF Roles!TypeOK
<1> QED
  BY <1>5, <1>8, <1>9, <1>10 DEF Roles!AccessInv

(* The rows change: who is being decided had both roles, and who changed   *)
(* them remembers those before.                                            *)
LEMMA ChangeKeeps ==
    ASSUME Roles!TypeOK, Roles!AccessInv, NEW r \in Requests, NEW succeeds \in BOOLEAN,
           Roles!Change(r, succeeds)
    PROVE  Roles!TypeOK' /\ Roles!AccessInv'
<1> DEFINE q == request[r]
           done == [q EXCEPT !.step = "invalidate", !.was = Roles!Held,
                             !.toEvict = IF q.op.kind = "delete" THEN Roles!Keys ELSE {q.op.of}]
<1>1. /\ q.step = "granted" /\ Roles!Changing(q.op)
      /\ UNCHANGED <<isPublic, redisReady, cache, suspect, changes, faults>>
      /\ exists' = (exists /\ ~(succeeds /\ q.op.kind = "delete"))
      /\ collab' = [g \in Guests |->
             CASE ~succeeds \/ ~exists -> collab[g]
               [] succeeds /\ exists /\ q.op.kind = "delete" -> "none"
               [] succeeds /\ exists /\ q.op.kind # "delete" /\ g # q.op.of -> collab[g]
               [] OTHER -> CASE q.op.kind = "remove" -> "none"
                             [] q.op.kind = "update" /\ collab[g] = "none" -> "none"
                             [] OTHER -> q.op.to]
      /\ request' = [s \in Requests |->
             CASE s = r -> IF succeeds \/ q.op.kind = "delete" THEN done ELSE Roles!NoRequest
               [] s # r /\ request[s].step = "idle" -> Roles!NoRequest
               [] OTHER -> [request[s] EXCEPT !.had = @ \cup {(Roles!Held')[request[s].user]}]]
  BY DEF Roles!Change
<1>2. q \in Roles!Active /\ q.op \in Roles!Operations /\ exists \in BOOLEAN
  BY <1>1, StepsNamed DEF Roles!AccessInv, Roles!Shaped, Roles!Active, Roles!TypeOK
<1>3. /\ q.op.kind \in {"delete", "add", "update", "remove"}
      /\ q.op.kind \in {"add", "update", "remove"} => q.op.of \in Guests
      /\ q.op.kind \in {"add", "update"} => q.op.to \in Roles!Roles \ {"none"}
  BY <1>1, <1>2, OperationsShaped, AccessAssumption, RolesRanked DEF Roles!Changing
<1>4. /\ collab \in [Guests -> Roles!Roles] /\ "none" \in Roles!Roles
      /\ Roles!Held \in [Roles!Users -> Roles!Roles] /\ \A u \in Roles!Users : Roles!Held[u] = Roles!Effective(u)
      /\ exists => Roles!Held[Owner] = "admin" /\ (isPublic => \A u \in Roles!Users : Roles!Held[u] # "none")
      /\ ~exists => Roles!Held[Owner] = "none"
      /\ \A g \in Guests : collab[g] # "none" => exists /\ Roles!Held[g] = collab[g]
      /\ Owner \in Roles!Users /\ Guests \subseteq Roles!Users
  BY HeldByUsers, RolesRanked DEF Roles!AccessInv, Roles!TypeOK, Roles!Users
<1>5. \A g \in Guests :
         /\ collab'[g] \in Roles!Roles
         /\ collab'[g] # collab[g] => /\ succeeds /\ exists
                                      /\ q.op.kind = "delete" \/ g = q.op.of
         /\ ~exists' => collab'[g] = "none"
  <2> TAKE g \in Guests
  <2>1. CASE ~succeeds \/ ~exists
    BY <1>1, <1>4, <2>1 DEF Roles!AccessInv, Roles!Shaped
  <2>2. CASE succeeds /\ exists /\ q.op.kind = "delete"
    BY <1>1, <1>4, <2>2
  <2>3. CASE succeeds /\ exists /\ q.op.kind # "delete" /\ g # q.op.of
    BY <1>1, <1>4, <2>3
  <2>4. CASE succeeds /\ exists /\ q.op.kind # "delete" /\ g = q.op.of
    <3>1. exists'
      BY <1>1, <2>4
    <3>2. collab'[g] = CASE q.op.kind = "remove" -> "none"
                         [] q.op.kind = "update" /\ collab[g] = "none" -> "none"
                         [] OTHER -> q.op.to
      BY <1>1, <2>4
    <3>3. collab'[g] \in {"none", q.op.to} /\ (q.op.kind = "remove" => collab'[g] = "none")
      BY <3>2
    <3> QED
      BY <1>3, <1>4, <2>4, <3>1, <3>3
  <2> QED
    BY <1>2, <2>1, <2>2, <2>3, <2>4
<1>6. collab' \in [Guests -> Roles!Roles]
  BY <1>1, <1>5
<1>7. \A u \in Roles!Users : (Roles!Held')[u] \in Roles!Roles /\ (Roles!Held')[u] = Roles!Effective(u)'
  <2>1. \A u \in Roles!Users : u # Owner => u \in Guests
    BY DEF Roles!Users
  <2> QED
    BY <1>6, <2>1, RolesRanked DEF Roles!Held, Roles!Effective
<1> HIDE DEF done
<1>8. /\ done \in Roles!Active /\ done.step = "invalidate" /\ done.op = q.op /\ done.was = Roles!Held
      /\ done.toEvict = (IF q.op.kind = "delete" THEN Roles!Keys ELSE {q.op.of})
  <2>1. (IF q.op.kind = "delete" THEN Roles!Keys ELSE {q.op.of}) \in SUBSET Roles!Keys
    BY <1>1, <1>2, OperationsShaped DEF Roles!Keys, Roles!Changing, Roles!Active
  <2> QED
    BY <1>2, <1>4, <2>1 DEF done, Roles!Active, Roles!Steps, Roles!Invalidating
<1>9. request'[r] = IF succeeds \/ q.op.kind = "delete" THEN done ELSE Roles!NoRequest
  BY <1>1
<1>10. ASSUME NEW s \in Requests, s # r, request[s].step # "idle"
       PROVE  /\ request[s] \in Roles!Active /\ request'[s] \in Roles!Active
              /\ request'[s] = [request[s] EXCEPT !.had = @ \cup {(Roles!Held')[request[s].user]}]
              /\ request'[s].had = request[s].had \cup {(Roles!Held')[request[s].user]}
              /\ request'[s].step = request[s].step /\ request'[s].user = request[s].user
              /\ request'[s].op = request[s].op /\ request'[s].was = request[s].was
              /\ request'[s].key = request[s].key /\ request'[s].value = request[s].value
              /\ request'[s].role = request[s].role /\ request'[s].tainted = request[s].tainted
              /\ request'[s].toEvict = request[s].toEvict
  <2>1. request[s] \in Roles!Active
    BY <1>10, StepsNamed DEF Roles!AccessInv, Roles!Shaped
  <2>2. request'[s] = [request[s] EXCEPT !.had = @ \cup {(Roles!Held')[request[s].user]}]
    BY <1>1, <1>10
  <2>3. (Roles!Held')[request[s].user] \in Roles!Roles
    BY <1>7, <2>1 DEF Roles!Active
  <2> QED
    BY <2>1, <2>2, <2>3 DEF Roles!Active
<1>11. \A s \in Requests : s # r /\ request[s].step = "idle" => request'[s] = Roles!NoRequest
  BY <1>1
<1>12. request' \in [Requests -> {Roles!NoRequest} \cup Roles!Active]
  <2>1. ASSUME NEW s \in Requests PROVE request'[s] \in {Roles!NoRequest} \cup Roles!Active
    <3>1. CASE s = r
      BY <1>8, <1>9, <3>1
    <3>2. CASE s # r /\ request[s].step = "idle"
      BY <1>11, <3>2
    <3>3. CASE s # r /\ request[s].step # "idle"
      BY <1>10, <3>3
    <3> QED
      BY <3>1, <3>2, <3>3
  <2> QED
    BY <1>1, <2>1
<1>13. /\ \A c \in Roles!Unanswered : c \in Roles!Unanswered' /\ c # r
       /\ \A c \in Roles!Unanswered' : c = r \/ c \in Roles!Unanswered
       /\ r \in Roles!Unanswered' <=> (succeeds \/ q.op.kind = "delete")
       /\ r \in Roles!Unanswered' => request'[r] = done
  BY <1>1, <1>8, <1>9, <1>10, <1>11, StepsNamed DEF Roles!Unanswered, Roles!Invalidating
<1>14. \A c \in Roles!Unanswered : request'[c].was = request[c].was /\ request'[c].op = request[c].op
                             /\ request'[c].step = request[c].step /\ request'[c].toEvict = request[c].toEvict
  BY <1>10, <1>13 DEF Roles!Unanswered, Roles!Invalidating
<1>15. Roles!Shaped'
  <2>1. \A c \in Roles!Unanswered' : Roles!Pending(request[c])'
    <3> SUFFICES ASSUME NEW c \in Roles!Unanswered' PROVE Roles!Pending(request'[c])
      BY DEF Roles!Pending, Roles!Changing
    <3>1. CASE c = r
      BY <1>1, <1>8, <1>13, <3>1 DEF Roles!Pending
    <3>2. CASE c # r
      BY <1>13, <1>14, <3>2 DEF Roles!AccessInv, Roles!Shaped, Roles!Pending
    <3> QED
      BY <3>1, <3>2
  <2> QED
    BY <1>1, <1>5, <1>12, <2>1 DEF Roles!AccessInv, Roles!Shaped, Roles!Fits
<1>16. Roles!Follows'
  <2> SUFFICES ASSUME NEW s \in Roles!Deciding' PROVE Roles!FollowedBy(request[s])'
    BY DEF Roles!Follows
  <2>1. s \in Requests /\ s # r /\ s \in Roles!Deciding /\ request[s].step # "idle"
    BY <1>8, <1>9, <1>10, <1>11, StepsNamed DEF Roles!Deciding
  <2>2. Roles!FollowedBy(request[s])
    BY <2>1 DEF Roles!AccessInv, Roles!Follows
  <2>3. request[s].user \in Roles!Users /\ request[s].had \subseteq request'[s].had
    BY <1>10, <2>1 DEF Roles!Active
  <2>4. Roles!Effective(request[s].user) \in request[s].had
    BY <2>2 DEF Roles!FollowedBy
  <2>5. \A c \in Roles!Unanswered' : request'[c].was[request[s].user] \in request'[s].had
    BY <1>4, <1>8, <1>13, <1>14, <2>2, <2>3, <2>4 DEF Roles!FollowedBy
  <2>6. Roles!Saw(request[s]) => Roles!Saw(request[s])'
    BY <1>1, <1>10, <2>1 DEF Roles!Saw
  <2>7. Roles!Effective(request[s].user)' \in request'[s].had
    <3>1. (Roles!Held')[request[s].user] \in request'[s].had
      BY <1>10, <2>1
    <3>2. \A u \in Roles!Users : (Roles!Held')[u] = IF ~exists' THEN "none"
                               ELSE IF u = Owner THEN "admin"
                               ELSE IF collab'[u] = "none" /\ isPublic' THEN "viewer" ELSE collab'[u]
      BY <1>7 DEF Roles!Effective
    <3>3. request'[s].user = request[s].user
      BY <1>10, <2>1
    <3> QED
      BY <2>3, <3>1, <3>2, <3>3 DEF Roles!Effective
  <2> QED
    BY <1>10, <2>1, <2>2, <2>3, <2>5, <2>6, <2>7 DEF Roles!FollowedBy, Roles!Fits
<1>17. Roles!Remembers'
  <2> SUFFICES ASSUME NEW c \in Roles!Unanswered'
               PROVE  \/ request'[c].was[Owner] = "none"
                      \/ /\ request'[c].was[Owner] = "admin"
                         /\ isPublic' => \A g \in Guests : request'[c].was[g] # "none"
    BY DEF Roles!Remembers
  <2>1. CASE c = r
    BY <1>1, <1>4, <1>8, <1>13, <2>1
  <2>2. CASE c # r
    BY <1>1, <1>13, <1>14, <2>2, SMTT(20) DEF Roles!AccessInv, Roles!Remembers
  <2> QED
    BY <2>1, <2>2
<1>18. Roles!EntriesAreCurrent'
  <2> SUFFICES ASSUME NEW x \in Roles!Stores, NEW k \in Roles!Keys, cache[x][k] # "none", <<x, k>> \notin suspect
               PROVE  \/ cache[x][k] = Roles!Value(k)'
                      \/ \E c \in Roles!Unanswered' : k \in request'[c].toEvict /\ cache[x][k] = Roles!Before(request[c], k)'
    BY <1>1 DEF Roles!EntriesAreCurrent
  <2>1. ASSUME NEW c \in Roles!Unanswered, k \in request[c].toEvict, cache[x][k] = Roles!Before(request[c], k)
        PROVE  c \in Roles!Unanswered' /\ k \in request'[c].toEvict /\ cache[x][k] = Roles!Before(request[c], k)'
    BY <1>13, <1>14, <2>1 DEF Roles!Before
  <2>2. ASSUME cache[x][k] = Roles!Value(k), cache[x][k] # Roles!Value(k)'
        PROVE  r \in Roles!Unanswered' /\ k \in request'[r].toEvict /\ cache[x][k] = Roles!Before(request[r], k)'
    <3>1. succeeds /\ exists /\ (q.op.kind = "delete" \/ (k # "workspace" /\ k = q.op.of))
      <4>1. CASE k = "workspace"
        BY <1>1, <2>2, <4>1 DEF Roles!Value
      <4>2. CASE k # "workspace"
        BY <1>5, <2>2, <4>2 DEF Roles!Value, Roles!Keys
      <4> QED
        BY <4>1, <4>2
    <3>2. r \in Roles!Unanswered' /\ request'[r] = done
      BY <1>13, <3>1
    <3>3. k \in request'[r].toEvict
      BY <1>8, <3>1, <3>2
    <3>4. cache[x][k] = Roles!Before(request[r], k)'
      <4>1. CASE k = "workspace"
        <5>1. cache[x][k] = "found" /\ Roles!Held[Owner] # "none"
          BY <1>4, <2>2, <3>1, <4>1 DEF Roles!Value
        <5> QED
          BY <1>8, <3>2, <4>1, <5>1 DEF Roles!Before
      <4>2. CASE k # "workspace"
        <5>1. k \in Guests /\ cache[x][k] = collab[k] /\ collab[k] # "none"
          BY <2>2, <4>2 DEF Roles!Value, Roles!Keys
        <5> QED
          BY <1>4, <1>8, <3>2, <4>2, <5>1 DEF Roles!Before
      <4> QED
        BY <4>1, <4>2
    <3> QED
      BY <3>2, <3>3, <3>4
  <2> QED
    BY <2>1, <2>2 DEF Roles!AccessInv, Roles!EntriesAreCurrent
<1>19. Roles!GrantsAreCurrent'
  <2> SUFFICES ASSUME NEW s \in Requests, request'[s].step = "granted", ~request'[s].tainted
               PROVE  \E role \in request'[s].had : Roles!Rank[request'[s].role] <= Roles!Rank[role]
    BY DEF Roles!GrantsAreCurrent
  <2>1. s # r /\ request[s].step # "idle"
    BY <1>8, <1>9, <1>11, StepsNamed
  <2> QED
    BY <1>10, <2>1 DEF Roles!AccessInv, Roles!GrantsAreCurrent
<1>20. Roles!TypeOK'
  <2>1. \A s \in Requests : request'[s].step \in Roles!Steps
    BY <1>12, StepsNamed
  <2> QED
    BY <1>1, <1>2, <1>6, <2>1 DEF Roles!TypeOK
<1> QED
  BY <1>15, <1>16, <1>17, <1>18, <1>19, <1>20 DEF Roles!AccessInv

(* An eviction under way goes on: what it does not evict is known to have  *)
(* outlived it, or is still to be evicted.                                 *)
EvictionStep(r, p, near, gone, left) ==
    /\ near \in SUBSET Roles!Stores /\ gone \in SUBSET Roles!Keys /\ left \in SUBSET (Roles!Stores \X Roles!Keys)
    /\ cache' = Roles!Without(near, gone) /\ suspect' = (suspect \cup left) \ (near \X gone)
    /\ request' = [request EXCEPT ![r] = p]
    /\ UNCHANGED <<exists, isPublic, collab, redisReady, changes, faults>>
    /\ \/ p = Roles!NoRequest
       \/ /\ p \in Roles!Active /\ p.step \in Roles!Invalidating /\ Roles!Pending(p)
          /\ p.was = request[r].was
    /\ \A s \in Roles!Stores, k \in request[r].toEvict :
          \/ s \in near /\ k \in gone
          \/ cache[s][k] = "none"
          \/ <<s, k>> \in left
          \/ p # Roles!NoRequest /\ k \in p.toEvict

LEMMA EvictionKeeps ==
    ASSUME Roles!TypeOK, Roles!AccessInv, NEW r \in Roles!Unanswered, NEW p, NEW near, NEW gone, NEW left,
           EvictionStep(r, p, near, gone, left)
    PROVE  Roles!TypeOK' /\ Roles!AccessInv'
<1> USE DEF EvictionStep
<1>1. r \in Requests
  BY DEF Roles!Unanswered, Roles!Invalidating
<1>2. p \in {Roles!NoRequest} \cup Roles!Active /\ p.step \notin {"get", "fetch", "store", "granted"}
  BY StepsNamed DEF Roles!Invalidating
<1>3. /\ \A s \in Requests : request'[s] = IF s = r THEN p ELSE request[s]
      /\ request' \in [Requests -> {Roles!NoRequest} \cup Roles!Active]
  BY <1>1, <1>2 DEF Roles!AccessInv, Roles!Shaped
<1>4. /\ \A c \in Roles!Unanswered : c # r => c \in Roles!Unanswered' /\ request'[c] = request[c]
      /\ p # Roles!NoRequest => r \in Roles!Unanswered' /\ request'[r] = p
  BY <1>1, <1>3 DEF Roles!Unanswered, Roles!Invalidating
<1>5. ASSUME NEW c \in Roles!Unanswered'
      PROVE  c \in Roles!Unanswered /\ request'[c].was = request[c].was /\ Roles!Pending(request'[c])
  <2>1. c \in Requests /\ request'[c].step \in Roles!Invalidating
    BY DEF Roles!Unanswered, Roles!Invalidating
  <2>2. CASE c = r
    <3>1. p # Roles!NoRequest
      BY <1>3, <2>1, <2>2, StepsNamed DEF Roles!Invalidating
    <3> QED
      BY <1>4, <2>2, <3>1
  <2>3. CASE c # r
    <3>1. c \in Roles!Unanswered /\ request'[c] = request[c]
      BY <1>3, <2>1, <2>3 DEF Roles!Unanswered, Roles!Invalidating
    <3> QED
      BY <3>1 DEF Roles!AccessInv, Roles!Shaped
  <2> QED
    BY <2>2, <2>3
<1>6. /\ \A s \in Roles!Stores, k \in Roles!Keys :
            cache'[s][k] = IF s \in near /\ k \in gone THEN "none" ELSE cache[s][k]
      /\ cache' \in [Roles!Stores -> [Roles!Keys -> Roles!Roles \cup {"found"}]]
  BY RolesRanked DEF Roles!Without, Roles!TypeOK
<1>7. suspect' \subseteq Roles!Stores \X Roles!Keys
  BY DEF Roles!TypeOK
<1>8. Roles!Shaped'
  <2>1. \A c \in Roles!Unanswered' : Roles!Pending(request[c])'
    BY <1>5 DEF Roles!Pending, Roles!Changing
  <2>2. \A s \in Roles!Stores, k \in Roles!Keys : Roles!Fits(k, cache[s][k])'
    BY <1>6, RolesRanked DEF Roles!AccessInv, Roles!Shaped, Roles!Fits
  <2> QED
    BY <1>3, <2>1, <2>2 DEF Roles!AccessInv, Roles!Shaped
<1>9. Roles!Follows'
  <2> SUFFICES ASSUME NEW s \in Roles!Deciding' PROVE Roles!FollowedBy(request[s])'
    BY DEF Roles!Follows
  <2>1. s # r /\ s \in Roles!Deciding /\ request'[s] = request[s]
    BY <1>2, <1>3 DEF Roles!Deciding
  <2>2. Roles!FollowedBy(request[s])
    BY <2>1 DEF Roles!AccessInv, Roles!Follows
  <2> QED
    BY <1>5, <2>1, <2>2 DEF Roles!FollowedBy, Roles!Effective, Roles!Saw
<1>10. Roles!Remembers'
  BY <1>5 DEF Roles!AccessInv, Roles!Remembers
<1>11. Roles!GrantsAreCurrent'
  <2> SUFFICES ASSUME NEW s \in Requests, request'[s].step = "granted", ~request'[s].tainted
               PROVE  \E role \in request'[s].had : Roles!Rank[request'[s].role] <= Roles!Rank[role]
    BY DEF Roles!GrantsAreCurrent
  <2>1. s # r /\ request'[s] = request[s]
    BY <1>2, <1>3
  <2> QED
    BY <2>1 DEF Roles!AccessInv, Roles!GrantsAreCurrent
<1>12. Roles!EntriesAreCurrent'
  <2> SUFFICES ASSUME NEW s \in Roles!Stores, NEW k \in Roles!Keys, cache'[s][k] # "none", <<s, k>> \notin suspect'
               PROVE  \/ cache'[s][k] = Roles!Value(k)'
                      \/ \E c \in Roles!Unanswered' : k \in request'[c].toEvict /\ cache'[s][k] = Roles!Before(request[c], k)'
    BY DEF Roles!EntriesAreCurrent
  <2>1. ~(s \in near /\ k \in gone) /\ cache'[s][k] = cache[s][k]
    BY <1>6
  <2>2. <<s, k>> \notin suspect /\ <<s, k>> \notin left
    BY <2>1
  <2>3. Roles!Value(k)' = Roles!Value(k)
    BY DEF Roles!Value
  <2>4. ASSUME NEW c \in Roles!Unanswered, k \in request[c].toEvict
        PROVE  c \in Roles!Unanswered' /\ k \in request'[c].toEvict /\ Roles!Before(request[c], k)' = Roles!Before(request[c], k)
    <3>1. c \in Roles!Unanswered' /\ k \in request'[c].toEvict
      <4>1. CASE c # r
        BY <1>4, <2>4, <4>1
      <4>2. CASE c = r
        BY <1>4, <2>1, <2>2, <2>4, <4>2
      <4> QED
        BY <4>1, <4>2
    <3> QED
      BY <1>5, <3>1 DEF Roles!Before
  <2> QED
    BY <2>1, <2>2, <2>3, <2>4 DEF Roles!AccessInv, Roles!EntriesAreCurrent
<1>13. Roles!TypeOK'
  <2>1. \A s \in Requests : request'[s].step \in Roles!Steps
    BY <1>3, StepsNamed
  <2> QED
    BY <1>6, <1>7, <2>1 DEF Roles!TypeOK
<1> QED
  BY <1>8, <1>9, <1>10, <1>11, <1>12, <1>13 DEF Roles!AccessInv

LEMMA PendingRequests ==
    ASSUME Roles!AccessInv, NEW r \in Requests, request[r].step \in Roles!Invalidating
    PROVE  /\ r \in Roles!Unanswered /\ request[r] \in Roles!Active /\ Roles!Pending(request[r])
           /\ request[r].toEvict \in SUBSET Roles!Keys /\ request[r].pod \in Pods
           /\ Roles!Reached(request[r].pod) \in SUBSET Roles!Stores
<1>1. r \in Roles!Unanswered /\ request[r] \in Roles!Active
  BY StepsNamed DEF Roles!AccessInv, Roles!Shaped, Roles!Unanswered, Roles!Invalidating
<1>2. request[r].toEvict \in SUBSET Roles!Keys /\ request[r].pod \in Pods
  BY <1>1 DEF Roles!Active
<1> QED
  BY <1>1, <1>2 DEF Roles!AccessInv, Roles!Shaped, Roles!Reached, Roles!Stores

(* Of the three steps of a deletion, the first evicts the workspace itself, *)
LEMMA InvalidateKeeps ==
    ASSUME Roles!TypeOK, Roles!AccessInv, NEW r \in Requests, Roles!Invalidate(r)
    PROVE  Roles!TypeOK' /\ Roles!AccessInv'
<1> DEFINE q == request[r]
           p == IF q.op.kind = "delete" THEN [q EXCEPT !.step = "list roles", !.toEvict = Guests] ELSE Roles!NoRequest
           near == Roles!Reached(q.pod)
           gone == Roles!Evicted(q)
           left == Roles!Others(near, gone)
<1>1. /\ q.step = "invalidate"
      /\ cache' = Roles!Without(near, gone) /\ suspect' = (suspect \cup left) \ (near \X gone)
      /\ request' = [request EXCEPT ![r] = p]
      /\ UNCHANGED <<exists, isPublic, collab, redisReady, changes, faults>>
  BY DEF Roles!Invalidate
<1>2. /\ r \in Roles!Unanswered /\ q \in Roles!Active /\ Roles!Pending(q)
      /\ q.toEvict \in SUBSET Roles!Keys /\ near \in SUBSET Roles!Stores
  BY <1>1, PendingRequests DEF Roles!Invalidating
<1>3. gone \in SUBSET Roles!Keys /\ (q.op.kind # "delete" => gone = q.toEvict) /\ (q.op.kind = "delete" => gone = {"workspace"})
  BY <1>2 DEF Roles!Evicted, Roles!Keys
<1>4. left \in SUBSET (Roles!Stores \X Roles!Keys)
  BY <1>3 DEF Roles!Others
<1>5. \/ p = Roles!NoRequest
      \/ p \in Roles!Active /\ p.step \in Roles!Invalidating /\ Roles!Pending(p) /\ p.was = q.was
  BY <1>2 DEF Roles!Active, Roles!Steps, Roles!Invalidating, Roles!Pending, Roles!Keys
<1>6. ASSUME NEW s \in Roles!Stores, NEW k \in q.toEvict
      PROVE  \/ s \in near /\ k \in gone
             \/ cache[s][k] = "none"
             \/ <<s, k>> \in left
             \/ p # Roles!NoRequest /\ k \in p.toEvict
  <2>1. CASE k \in gone
    BY <1>6, <2>1 DEF Roles!Others
  <2>2. CASE k \notin gone
    <3>1. q.op.kind = "delete" /\ k \in Guests
      BY <1>2, <1>3, <1>6, <2>2 DEF Roles!Keys
    <3>2. p \in Roles!Active /\ p.step = "list roles" /\ p.toEvict = Guests
      BY <1>2, <3>1 DEF Roles!Active, Roles!Steps, Roles!Invalidating, Roles!Keys
    <3> QED
      BY <3>1, <3>2, StepsNamed
  <2> QED
    BY <2>1, <2>2
<1> HIDE DEF p, near, gone, left
<1> QED
  <2>1. EvictionStep(r, p, near, gone, left)
    BY <1>1, <1>2, <1>3, <1>4, <1>5, <1>6 DEF EvictionStep
  <2> QED
    BY <1>2, <2>1, EvictionKeeps

(* the second what the pod has of its roles, and lists what Redis has, *)
LEMMA ListRolesKeeps ==
    ASSUME Roles!TypeOK, Roles!AccessInv, NEW r \in Requests, Roles!ListRoles(r)
    PROVE  Roles!TypeOK' /\ Roles!AccessInv'
<1> DEFINE q == request[r]
           p == IF Roles!Listed = {} THEN Roles!NoRequest
                ELSE [q EXCEPT !.step = "delete roles", !.toEvict = Roles!Listed]
           near == {q.pod}
           left == Roles!Others(Roles!Reached(q.pod), Guests)
<1>1. /\ q.step = "list roles"
      /\ cache' = Roles!Without(near, Guests) /\ suspect' = (suspect \cup left) \ (near \X Guests)
      /\ request' = [request EXCEPT ![r] = p]
      /\ UNCHANGED <<exists, isPublic, collab, redisReady, changes, faults>>
  BY DEF Roles!ListRoles
<1>2. /\ r \in Roles!Unanswered /\ q \in Roles!Active /\ Roles!Pending(q)
      /\ q.toEvict \in SUBSET Roles!Keys /\ q.pod \in Pods
  BY <1>1, PendingRequests DEF Roles!Invalidating
<1>3. near \in SUBSET Roles!Stores /\ Guests \in SUBSET Roles!Keys /\ left \in SUBSET (Roles!Stores \X Roles!Keys)
  BY <1>2 DEF Roles!Stores, Roles!Keys, Roles!Others
<1>4. Roles!Listed \in SUBSET Guests
  BY DEF Roles!Listed
<1>5. Roles!Listed # {} =>
         p \in Roles!Active /\ p.step = "delete roles" /\ p.toEvict = Roles!Listed /\ p.was = q.was /\ p.op = q.op
  BY <1>2, <1>3, <1>4 DEF Roles!Active, Roles!Steps, Roles!Invalidating
<1>6. q.op.kind = "delete" /\ q.toEvict \subseteq Guests /\ Roles!Changing(q.op)
  BY <1>1, <1>2 DEF Roles!Pending
<1>7. \/ p = Roles!NoRequest
      \/ p \in Roles!Active /\ p.step \in Roles!Invalidating /\ Roles!Pending(p) /\ p.was = q.was
  <2>1. CASE Roles!Listed = {}
    BY <2>1
  <2>2. CASE Roles!Listed # {}
    <3>1. p.toEvict \subseteq Guests /\ p.op.kind = "delete" /\ Roles!Changing(p.op)
      BY <1>4, <1>5, <1>6, <2>2
    <3>2. Roles!Pending(p)
      BY <3>1 DEF Roles!Pending
    <3> QED
      BY <1>5, <2>2, <3>2 DEF Roles!Invalidating
  <2> QED
    BY <2>1, <2>2
<1>8. ASSUME NEW s \in Roles!Stores, NEW k \in q.toEvict
      PROVE  \/ s \in near /\ k \in Guests
             \/ cache[s][k] = "none"
             \/ <<s, k>> \in left
             \/ p # Roles!NoRequest /\ k \in p.toEvict
  <2>1. k \in Guests
    BY <1>6
  <2>2. CASE s \notin Roles!Reached(q.pod)
    BY <2>1, <2>2 DEF Roles!Others
  <2>3. CASE s \in Roles!Reached(q.pod) /\ s # q.pod /\ cache[s][k] # "none"
    <3>1. k \in Roles!Listed
      BY <2>1, <2>3 DEF Roles!Reached, Roles!Listed
    <3>2. p # Roles!NoRequest /\ p.toEvict = Roles!Listed
      BY <1>5, <3>1, StepsNamed
    <3> QED
      BY <3>1, <3>2
  <2> QED
    BY <2>1, <2>2, <2>3
<1> HIDE DEF p, near, left
<1> QED
  <2>1. EvictionStep(r, p, near, Guests, left)
    BY <1>1, <1>3, <1>7, <1>8 DEF EvictionStep
  <2> QED
    BY <1>2, <2>1, EvictionKeeps

(* the third what was listed. *)
LEMMA DeleteRolesKeeps ==
    ASSUME Roles!TypeOK, Roles!AccessInv, NEW r \in Requests, Roles!DeleteRoles(r)
    PROVE  Roles!TypeOK' /\ Roles!AccessInv'
<1> DEFINE q == request[r]
           near == Roles!Reached(q.pod) \ {q.pod}
           left == Roles!Others(near, q.toEvict)
<1>1. /\ q.step = "delete roles"
      /\ cache' = Roles!Without(near, q.toEvict) /\ suspect' = (suspect \cup left) \ (near \X q.toEvict)
      /\ request' = [request EXCEPT ![r] = Roles!NoRequest]
      /\ UNCHANGED <<exists, isPublic, collab, redisReady, changes, faults>>
  BY DEF Roles!DeleteRoles
<1>2. /\ r \in Roles!Unanswered /\ q.toEvict \in SUBSET Roles!Keys /\ near \in SUBSET Roles!Stores
  BY <1>1, PendingRequests DEF Roles!Invalidating
<1>3. left \in SUBSET (Roles!Stores \X Roles!Keys)
  BY <1>2 DEF Roles!Others
<1>4. \A s \in Roles!Stores, k \in q.toEvict :
         (s \in near /\ k \in q.toEvict) \/ cache[s][k] = "none" \/ <<s, k>> \in left
  BY DEF Roles!Others
<1> HIDE DEF near, left
<1> QED
  <2>1. EvictionStep(r, Roles!NoRequest, near, q.toEvict, left)
    BY <1>1, <1>2, <1>3, <1>4 DEF EvictionStep
  <2> QED
    BY <1>2, <2>1, EvictionKeeps

LEMMA AnswerKeeps ==
    ASSUME Roles!TypeOK, Roles!AccessInv, NEW r \in Requests, Roles!Answer(r)
    PROVE  Roles!TypeOK' /\ Roles!AccessInv'
<1>1. /\ r \notin Roles!Unanswered /\ request' = [request EXCEPT ![r] = Roles!NoRequest]
      /\ UNCHANGED <<exists, isPublic, collab, redisReady, cache, suspect, changes, faults>>
  BY DEF Roles!Answer, Roles!Unanswered, Roles!Invalidating
<1>2. changes' \in 0..MaxChanges
  BY <1>1 DEF Roles!TypeOK
<1> QED
  BY <1>1, <1>2, StepsNamed, MovesAlone DEF Roles!Invalidating

(* An entry expires. *)
LEMMA ExpireKeeps ==
    ASSUME Roles!TypeOK, Roles!AccessInv, NEW s \in Roles!Stores, NEW k \in Roles!Keys, Roles!Expire(s, k)
    PROVE  Roles!TypeOK' /\ Roles!AccessInv'
<1>1. /\ cache' = [cache EXCEPT ![s][k] = "none"] /\ suspect' = suspect \ {<<s, k>>}
      /\ UNCHANGED <<exists, isPublic, collab, redisReady, request, changes, faults>>
  BY DEF Roles!Expire
<1>2. /\ \A x \in Roles!Stores, y \in Roles!Keys : cache'[x][y] = IF x = s /\ y = k THEN "none" ELSE cache[x][y]
      /\ cache' \in [Roles!Stores -> [Roles!Keys -> Roles!Roles \cup {"found"}]]
  BY <1>1, RolesRanked DEF Roles!TypeOK
<1>3. Roles!Unanswered' = Roles!Unanswered /\ Roles!Deciding' = Roles!Deciding
  BY <1>1 DEF Roles!Unanswered, Roles!Invalidating, Roles!Deciding
<1>4. Roles!TypeOK'
  BY <1>1, <1>2 DEF Roles!TypeOK
<1>5. Roles!Shaped'
  <2>1. \A x \in Roles!Stores, y \in Roles!Keys : Roles!Fits(y, cache[x][y])'
    BY <1>2, RolesRanked DEF Roles!AccessInv, Roles!Shaped, Roles!Fits
  <2> QED
    BY <1>1, <1>3, <2>1 DEF Roles!AccessInv, Roles!Shaped, Roles!Pending, Roles!Changing
<1>6. Roles!Follows' /\ Roles!Remembers' /\ Roles!GrantsAreCurrent'
  <2>1. \A r \in Roles!Deciding : Roles!FollowedBy(request[r])'
    BY <1>1, <1>3 DEF Roles!AccessInv, Roles!Follows, Roles!FollowedBy, Roles!Effective, Roles!Saw
  <2> QED
    BY <1>1, <1>3, <2>1 DEF Roles!AccessInv, Roles!Follows, Roles!Remembers, Roles!GrantsAreCurrent
<1>7. Roles!EntriesAreCurrent'
  BY <1>1, <1>2, <1>3, EntriesStay DEF Roles!AccessInv
<1> QED
  BY <1>4, <1>5, <1>6, <1>7 DEF Roles!AccessInv

(* What does not touch rows, entries and requests leaves all as it was. *)
LEMMA RestKeeps ==
    ASSUME Roles!TypeOK, Roles!AccessInv, UNCHANGED <<exists, isPublic, collab, cache, suspect, request, changes>>,
           redisReady' \in BOOLEAN, faults' \in 0..MaxFaults
    PROVE  Roles!TypeOK' /\ Roles!AccessInv'
<1>1. Roles!Unanswered' = Roles!Unanswered /\ Roles!Deciding' = Roles!Deciding
  BY DEF Roles!Unanswered, Roles!Invalidating, Roles!Deciding
<1>2. Roles!TypeOK'
  BY DEF Roles!TypeOK
<1>3. Roles!Shaped'
  BY <1>1 DEF Roles!AccessInv, Roles!Shaped, Roles!Pending, Roles!Changing, Roles!Fits
<1>4. Roles!Follows' /\ Roles!Remembers' /\ Roles!GrantsAreCurrent'
  <2>1. \A r \in Roles!Deciding : Roles!FollowedBy(request[r])'
    BY <1>1 DEF Roles!AccessInv, Roles!Follows, Roles!FollowedBy, Roles!Effective, Roles!Saw
  <2> QED
    BY <1>1, <2>1 DEF Roles!AccessInv, Roles!Follows, Roles!Remembers, Roles!GrantsAreCurrent
<1>5. Roles!EntriesAreCurrent'
  BY <1>1, EntriesStay DEF Roles!AccessInv
<1> QED
  BY <1>2, <1>3, <1>4, <1>5 DEF Roles!AccessInv

LEMMA AccessStarts == Roles!Init => Roles!TypeOK /\ Roles!AccessInv
<1> SUFFICES ASSUME Roles!Init PROVE Roles!TypeOK /\ Roles!AccessInv
  OBVIOUS
<1>1. Roles!Unanswered = {} /\ Roles!Deciding = {} /\ \A r \in Requests : request[r].step = "idle"
  BY DEF Roles!Init, Roles!Unanswered, Roles!Invalidating, Roles!Deciding, Roles!NoRequest
<1>2. Roles!TypeOK
  <2>1. collab \in [Guests -> Roles!Roles]
    <3>1. collab \in [Guests -> {"none"} \cup Targets]
      BY DEF Roles!Init
    <3>2. {"none"} \cup Targets \subseteq Roles!Roles
      BY AccessAssumption, RolesRanked
    <3> QED
      BY <3>1, <3>2
  <2>2. cache \in [Roles!Stores -> [Roles!Keys -> Roles!Roles \cup {"found"}]]
    BY RolesRanked DEF Roles!Init
  <2>3. changes \in 0..MaxChanges /\ faults \in 0..MaxFaults
    BY AccessAssumption DEF Roles!Init
  <2>4. \A r \in Requests : request[r].step \in Roles!Steps
    BY <1>1 DEF Roles!Steps, Roles!Invalidating
  <2>5. /\ exists \in BOOLEAN /\ isPublic \in BOOLEAN /\ redisReady \in BOOLEAN
        /\ suspect \subseteq Roles!Stores \X Roles!Keys
    BY DEF Roles!Init
  <2> QED
    BY <2>1, <2>2, <2>3, <2>4, <2>5 DEF Roles!TypeOK
<1>3. \A s \in Roles!Stores, k \in Roles!Keys : cache[s][k] = "none"
  BY DEF Roles!Init
<1>4. Roles!Shaped
  <2>1. request \in [Requests -> {Roles!NoRequest} \cup Roles!Active]
    BY DEF Roles!Init
  <2> QED
    BY <1>1, <1>3, <2>1, RolesRanked DEF Roles!Shaped, Roles!Fits, Roles!Init
<1>5. Roles!Follows /\ Roles!Remembers
  BY <1>1 DEF Roles!Follows, Roles!Remembers
<1>6. Roles!EntriesAreCurrent
  BY <1>3 DEF Roles!EntriesAreCurrent
<1>7. Roles!GrantsAreCurrent
  BY <1>1 DEF Roles!GrantsAreCurrent
<1> QED
  BY <1>2, <1>4, <1>5, <1>6, <1>7 DEF Roles!AccessInv

LEMMA AccessStep ==
    Roles!TypeOK /\ Roles!AccessInv /\ [Roles!Next]_(Roles!accessVars) => (Roles!TypeOK /\ Roles!AccessInv)'
<1> SUFFICES ASSUME Roles!TypeOK, Roles!AccessInv, [Roles!Next]_(Roles!accessVars)
             PROVE Roles!TypeOK' /\ Roles!AccessInv'
  OBVIOUS
<1>1. ASSUME NEW r \in Requests, NEW u \in Roles!Users, NEW op \in Roles!Operations, NEW p \in Pods, Roles!Begin(r, u, op, p)
      PROVE  Roles!TypeOK' /\ Roles!AccessInv'
  BY <1>1, BeginKeeps
<1>2. ASSUME NEW r \in Requests, Roles!Get(r) PROVE Roles!TypeOK' /\ Roles!AccessInv'
  BY <1>2, GetKeeps
<1>3. ASSUME NEW r \in Requests, Roles!Fetch(r) PROVE Roles!TypeOK' /\ Roles!AccessInv'
  BY <1>3, FetchKeeps
<1>4. ASSUME NEW r \in Requests, Roles!SetEntry(r) PROVE Roles!TypeOK' /\ Roles!AccessInv'
  BY <1>4, SetEntryKeeps
<1>5. ASSUME NEW r \in Requests, Roles!Answer(r) PROVE Roles!TypeOK' /\ Roles!AccessInv'
  BY <1>5, AnswerKeeps
<1>6. ASSUME NEW r \in Requests, Roles!Invalidate(r) PROVE Roles!TypeOK' /\ Roles!AccessInv'
  BY <1>6, InvalidateKeeps
<1>11. ASSUME NEW r \in Requests, Roles!ListRoles(r) PROVE Roles!TypeOK' /\ Roles!AccessInv'
  BY <1>11, ListRolesKeeps
<1>12. ASSUME NEW r \in Requests, Roles!DeleteRoles(r) PROVE Roles!TypeOK' /\ Roles!AccessInv'
  BY <1>12, DeleteRolesKeeps
<1>7. ASSUME NEW r \in Requests, NEW succeeds \in BOOLEAN, Roles!Change(r, succeeds) PROVE Roles!TypeOK' /\ Roles!AccessInv'
  BY <1>7, ChangeKeeps
<1>8. ASSUME NEW s \in Roles!Stores, NEW k \in Roles!Keys, Roles!Expire(s, k) PROVE Roles!TypeOK' /\ Roles!AccessInv'
  BY <1>8, ExpireKeeps
<1>9. CASE Roles!RedisTurns
  <2>1. faults' \in 0..MaxFaults /\ redisReady' \in BOOLEAN
    BY <1>9, AccessAssumption DEF Roles!RedisTurns, Roles!TypeOK
  <2> QED
    BY <1>9, <2>1, RestKeeps DEF Roles!RedisTurns
<1>10. CASE UNCHANGED Roles!accessVars
  BY <1>10, RestKeeps DEF Roles!accessVars, Roles!TypeOK
<1> QED
  BY <1>1, <1>2, <1>3, <1>4, <1>5, <1>6, <1>7, <1>8, <1>9, <1>10, <1>11, <1>12 DEF Roles!Next

(* redisCache.ts and the role checks of the routes: each request in        *)
(* progress and each cached role is what its reads, and the changes and    *)
(* invalidations that met them, can have left there. *)
THEOREM AccessInvariant == Roles!Spec => [](Roles!TypeOK /\ Roles!AccessInv)
BY AccessStarts, AccessStep, PTL DEF Roles!Spec

(* workspaceAuth.ts: nobody is let in under a role higher than one they    *)
(* held while the request was checked, short of the entries that the       *)
(* invalidation cannot reach. *)
THEOREM GrantsCurrent == Roles!Spec => []Roles!GrantsAreCurrent
<1>1. Roles!AccessInv => Roles!GrantsAreCurrent
  BY DEF Roles!AccessInv
<1> QED
  BY <1>1, AccessInvariant, PTL

-----------------------------------------------------------------------------
(* Logins. *)

(* A login that takes a step leaves the others as they are. *)
LEMMA StepsAlone ==
    ASSUME Users!AccountsInv, NEW a \in Attempt, attempt[a] \in Users!Begun,
           NEW step \in {"find", "create", "find by name", "update", "token", "failed"},
           NEW id \in Attempt \cup {0}, Users!To(a, step, id)
    PROVE  /\ attempt' \in [Attempt -> {Users!NotBegun} \cup Users!Begun]
           /\ \A b \in Attempt : b # a => attempt'[b] = attempt[b]
           /\ attempt'[a] \in Users!Begun /\ attempt'[a].step = step /\ attempt'[a].id = id
           /\ attempt'[a].login = attempt[a].login /\ attempt'[a].raced = attempt[a].raced
<1> DEFINE p == [attempt[a] EXCEPT !.step = step, !.id = id]
<1>1. /\ p \in Users!Begun /\ p.step = step /\ p.id = id
      /\ p.login = attempt[a].login /\ p.raced = attempt[a].raced
  BY DEF Users!Begun
<1> HIDE DEF p
<1>2. attempt' = [attempt EXCEPT ![a] = p] /\ attempt \in [Attempt -> {Users!NotBegun} \cup Users!Begun]
  <2>1. attempt' = [[attempt EXCEPT ![a].step = step] EXCEPT ![a].id = id]
    BY DEF Users!To
  <2>2. attempt \in [Attempt -> {Users!NotBegun} \cup Users!Begun]
    BY DEF Users!AccountsInv
  <2>3. attempt'[a] = p
    BY <2>1, <2>2 DEF p
  <2>4. \A b \in Attempt : b # a => attempt'[b] = attempt[b]
    BY <2>1, <2>2
  <2>5. attempt' = [b \in Attempt |-> attempt'[b]]
    BY <2>1, <2>2
  <2> QED
    BY <2>2, <2>3, <2>4, <2>5
<1> QED
  BY <1>1, <1>2

(* Rows that keep name, email and id, and any GitHub id they have, go on   *)
(* to match who they matched, and whoever ended because of one of them.    *)
LEMMA WhyKept ==
    ASSUME NEW p \in Users!Begun, Users!KnowsWhy(p),
           \A u \in users : \E w \in users' :
              /\ w.id = u.id /\ w.name = u.name /\ w.email = u.email
              /\ u.github # "none" => w.github = u.github,
           p.step = "create" /\ ~p.raced => \A u \in users' : u.email # p.login.email
    PROVE  Users!KnowsWhy(p)'
<1>1. \A u \in Users!Matches(p.login) : \E w \in Users!Matches(p.login)' : w.id = u.id
  BY DEF Users!Matches, Users!Demo
<1>2. Users!OtherAccount(p.login) => Users!OtherAccount(p.login)'
  BY DEF Users!OtherAccount, Users!Demo
<1>3. ~Users!Demo(p.login) => ~Users!Demo(p.login)'
  BY DEF Users!Demo
<1>4. Users!Demo(p.login) => Users!Demo(p.login)'
  BY DEF Users!Demo
<1>5. p.step \in {"update", "token"} => \E u \in Users!Matches(p.login)' : u.id = p.id
  <2>1. SUFFICES ASSUME p.step \in {"update", "token"} PROVE \E u \in Users!Matches(p.login)' : u.id = p.id
    OBVIOUS
  <2>2. PICK u \in Users!Matches(p.login) : u.id = p.id
    BY <2>1 DEF Users!KnowsWhy
  <2> QED
    BY <1>1, <2>2
<1>6. p.step = "find by name" => \E u \in users' : u.name = p.login.name \/ (u.email = p.login.email /\ p.raced)
  <2>1. SUFFICES ASSUME p.step = "find by name"
                 PROVE  \E u \in users' : u.name = p.login.name \/ (u.email = p.login.email /\ p.raced)
    OBVIOUS
  <2>2. PICK u \in users : u.name = p.login.name \/ (u.email = p.login.email /\ p.raced)
    BY <2>1 DEF Users!KnowsWhy
  <2> QED
    BY <2>2
<1>7. p.step = "failed" =>
          \/ Users!OtherAccount(p.login)'
          \/ p.raced /\ (Users!Demo(p.login)' => \E u \in users' : u.email = p.login.email /\ u.name # p.login.name)
  BY <1>2, <1>3 DEF Users!KnowsWhy
<1>8. /\ p.step = "update" => ~Users!Demo(p.login)
      /\ p.step = "find by name" => Users!Demo(p.login)
  BY DEF Users!KnowsWhy
<1> QED
  BY <1>3, <1>4, <1>5, <1>6, <1>7, <1>8 DEF Users!KnowsWhy

(* What is known of all logins says that those of one account agree. *)
LEMMA KnowingAgrees ==
    ASSUME Users!TypeOK, Users!AccountsInv PROVE Users!LoginsAgree
<1>1. ASSUME NEW a \in Attempt, attempt[a].step = "token"
      PROVE  \E u \in Users!Matches(attempt[a].login) : u.id = attempt[a].id
  BY <1>1 DEF Users!AccountsInv, Users!KnowsWhy
<1>2. ASSUME NEW a \in Attempt, NEW b \in Attempt, attempt[a].step = "token", attempt[b].step = "token",
             attempt[b].login = attempt[a].login
      PROVE  attempt[b].id = attempt[a].id \/ Users!OtherAccount(attempt[a].login)
  <2> DEFINE l == attempt[a].login
  <2>1. PICK u \in Users!Matches(l) : u.id = attempt[a].id
    BY <1>1, <1>2
  <2>2. PICK w \in Users!Matches(l) : w.id = attempt[b].id
    BY <1>1, <1>2
  <2>3. u.email = l.email /\ w.email = l.email => u = w
    BY DEF Users!AccountsInv, Users!Apart, Users!Matches
  <2>4. u.email # l.email \/ w.email # l.email => Users!OtherAccount(l)
    BY DEF Users!Matches, Users!OtherAccount
  <2> QED
    BY <2>1, <2>2, <2>3, <2>4
<1>3. ASSUME NEW a \in Attempt, attempt[a].step = "failed"
      PROVE  \/ Users!OtherAccount(attempt[a].login)
             \/ attempt[a].raced /\ ~Users!Demo(attempt[a].login)
             \/ attempt[a].raced /\ \E u \in users : u.email = attempt[a].login.email /\ u.name # attempt[a].login.name
  BY <1>3 DEF Users!AccountsInv, Users!KnowsWhy
<1> QED
  BY <1>1, <1>2, <1>3 DEF Users!LoginsAgree

(* A step that changes no row: what has to be shown is what the login that *)
(* takes it knows next.                                                    *)
LEMMA StepKeeps ==
    ASSUME Users!TypeOK, Users!AccountsInv, UNCHANGED users, NEW a \in Attempt,
           attempt' \in [Attempt -> {Users!NotBegun} \cup Users!Begun],
           \A b \in Attempt : b # a => attempt'[b] = attempt[b],
           attempt'[a] \in Users!Begun, attempt[a].step # "token", Users!KnowsWhy(attempt[a])'
    PROVE  Users!TypeOK' /\ Users!AccountsInv'
<1>1. Users!TypeOK'
  <2>1. \A b \in Attempt : attempt'[b] = Users!NotBegun \/
          /\ attempt'[b].login \in Login /\ attempt'[b].id \in Attempt \cup {0}
          /\ attempt'[b].step \in {"find", "create", "find by name", "update", "token", "failed"}
    BY DEF Users!Begun
  <2> QED
    BY <2>1 DEF Users!TypeOK
<1>2. Users!Apart'
  <2>1. \A u \in users : u.id \in Attempt
    BY DEF Users!TypeOK
  <2>2. \A u \in users : u.id # a
    BY DEF Users!AccountsInv, Users!Apart
  <2>3. \A u \in users : attempt'[u.id].step = "token"
    BY <2>1, <2>2 DEF Users!AccountsInv, Users!Apart
  <2> QED
    BY <2>3 DEF Users!AccountsInv, Users!Apart
<1>3. \A b \in Attempt : Users!KnowsWhy(attempt[b])'
  <2>1. ASSUME NEW b \in Attempt, b # a PROVE Users!KnowsWhy(attempt[b])'
    <3>1. Users!KnowsWhy(attempt[b]) /\ attempt'[b] = attempt[b]
      BY <2>1 DEF Users!AccountsInv
    <3>2. PICK p : p = attempt[b]
      OBVIOUS
    <3>3. Users!KnowsWhy(p)'
      BY <3>1, <3>2 DEF Users!KnowsWhy, Users!Matches, Users!OtherAccount, Users!Demo
    <3> QED
      BY <3>1, <3>2, <3>3
  <2> QED
    BY <2>1
<1> QED
  BY <1>1, <1>2, <1>3 DEF Users!AccountsInv

LEMMA NobodyBegun == Users!NotBegun.step = "not begun"
BY DEF Users!NotBegun

LEMMA LoginBegins ==
    ASSUME Users!TypeOK, Users!AccountsInv, NEW a \in Attempt, NEW l \in Login, Users!Begin(a, l)
    PROVE  Users!TypeOK' /\ Users!AccountsInv'
<1> DEFINE p == [login |-> l, step |-> "find", id |-> 0, raced |-> FALSE]
<1>1. attempt[a] = Users!NotBegun /\ attempt' = [attempt EXCEPT ![a] = p] /\ UNCHANGED users
  BY DEF Users!Begin
<1>2. p \in Users!Begun /\ p.step = "find"
  BY DEF Users!Begun
<1> HIDE DEF p
<1>3. /\ attempt' \in [Attempt -> {Users!NotBegun} \cup Users!Begun] /\ attempt'[a] = p
      /\ \A b \in Attempt : b # a => attempt'[b] = attempt[b]
  BY <1>1, <1>2 DEF Users!AccountsInv
<1>4. Users!KnowsWhy(attempt[a])'
  BY <1>2, <1>3 DEF Users!KnowsWhy
<1>5. attempt[a].step # "token"
  BY <1>1, NobodyBegun
<1> QED
  BY <1>1, <1>2, <1>3, <1>4, <1>5, StepKeeps

(* The facts about a login under way. *)
LEMMA UnderWay ==
    ASSUME Users!TypeOK, Users!AccountsInv, NEW a \in Attempt, attempt[a].step # "not begun"
    PROVE  /\ attempt[a] \in Users!Begun /\ attempt[a].login \in Login /\ Users!KnowsWhy(attempt[a])
           /\ \A u \in users : u.id \in Attempt
<1>1. attempt[a] \in {Users!NotBegun} \cup Users!Begun /\ Users!KnowsWhy(attempt[a])
  BY DEF Users!AccountsInv
<1>2. attempt[a] \in Users!Begun
  BY <1>1, NobodyBegun
<1> QED
  BY <1>1, <1>2 DEF Users!TypeOK, Users!Begun

LEMMA FindKeeps ==
    ASSUME Users!TypeOK, Users!AccountsInv, NEW a \in Attempt, Users!Find(a)
    PROVE  Users!TypeOK' /\ Users!AccountsInv'
<1> DEFINE l == attempt[a].login
<1>1. attempt[a].step = "find" /\ UNCHANGED users
  BY DEF Users!Find
<1>2. attempt[a] \in Users!Begun /\ \A u \in users : u.id \in Attempt
  BY <1>1, UnderWay
<1>3. CASE Users!Matches(l) = {} /\ Users!To(a, "create", 0)
  <2>1. /\ attempt' \in [Attempt -> {Users!NotBegun} \cup Users!Begun]
        /\ \A b \in Attempt : b # a => attempt'[b] = attempt[b]
        /\ attempt'[a] \in Users!Begun /\ attempt'[a].step = "create" /\ attempt'[a].login = l
    BY <1>2, <1>3, StepsAlone
  <2>2. \A u \in users' : u.email # l.email
    BY <1>1, <1>3 DEF Users!Matches
  <2>3. Users!KnowsWhy(attempt[a])'
    BY <2>1, <2>2 DEF Users!KnowsWhy
  <2> QED
    BY <1>1, <2>1, <2>3, StepKeeps
<1>4. ASSUME NEW u \in Users!Matches(l), Users!To(a, IF Users!Demo(l) THEN "token" ELSE "update", u.id)
      PROVE  Users!TypeOK' /\ Users!AccountsInv'
  <2> DEFINE step == IF Users!Demo(l) THEN "token" ELSE "update"
  <2>1. /\ step \in {"find", "create", "find by name", "update", "token", "failed"}
        /\ u.id \in Attempt \cup {0}
    BY <1>2 DEF Users!Matches
  <2>2. /\ attempt' \in [Attempt -> {Users!NotBegun} \cup Users!Begun]
        /\ \A b \in Attempt : b # a => attempt'[b] = attempt[b]
        /\ attempt'[a] \in Users!Begun /\ attempt'[a].step = step /\ attempt'[a].id = u.id
        /\ attempt'[a].login = l
    BY <1>2, <1>4, <2>1, StepsAlone
  <2>3. PICK p : p = attempt'[a]
    OBVIOUS
  <2>4. Users!KnowsWhy(p)'
    <3>1. u \in Users!Matches(p.login)'
      BY <1>1, <2>2, <2>3 DEF Users!Matches, Users!Demo
    <3> QED
      BY <2>2, <2>3, <3>1 DEF Users!KnowsWhy, Users!Demo
  <2>5. Users!KnowsWhy(attempt[a])'
    BY <2>3, <2>4
  <2> QED
    BY <1>1, <2>2, <2>5, StepKeeps
<1> QED
  BY <1>3, <1>4 DEF Users!Find

LEMMA FindByUsernameKeeps ==
    ASSUME Users!TypeOK, Users!AccountsInv, NEW a \in Attempt, Users!FindByUsername(a)
    PROVE  Users!TypeOK' /\ Users!AccountsInv'
<1> DEFINE l == attempt[a].login
           found == {u \in users : u.name = l.name}
<1>1. attempt[a].step = "find by name" /\ UNCHANGED users
  BY DEF Users!FindByUsername
<1>2. attempt[a] \in Users!Begun /\ Users!KnowsWhy(attempt[a]) /\ \A u \in users : u.id \in Attempt
  BY <1>1, UnderWay
<1>3. Users!Demo(l) /\ \E u \in users : u.name = l.name \/ (u.email = l.email /\ attempt[a].raced)
  BY <1>1, <1>2 DEF Users!KnowsWhy
<1>4. CASE found = {} /\ Users!To(a, "failed", 0)
  <2>1. /\ attempt' \in [Attempt -> {Users!NotBegun} \cup Users!Begun]
        /\ \A b \in Attempt : b # a => attempt'[b] = attempt[b]
        /\ attempt'[a] \in Users!Begun /\ attempt'[a].step = "failed" /\ attempt'[a].login = l
        /\ attempt'[a].raced = attempt[a].raced
    BY <1>2, <1>4, StepsAlone
  <2>2. attempt[a].raced /\ \E u \in users' : u.email = l.email /\ u.name # l.name
    BY <1>1, <1>3, <1>4
  <2>3. PICK p : p = attempt'[a]
    OBVIOUS
  <2>4. Users!KnowsWhy(p)'
    BY <2>1, <2>2, <2>3 DEF Users!KnowsWhy
  <2>5. Users!KnowsWhy(attempt[a])'
    BY <2>3, <2>4
  <2> QED
    BY <1>1, <2>1, <2>5, StepKeeps
<1>5. ASSUME NEW u \in found, Users!To(a, "token", u.id)
      PROVE  Users!TypeOK' /\ Users!AccountsInv'
  <2>1. u.id \in Attempt \cup {0}
    BY <1>2
  <2>2. /\ attempt' \in [Attempt -> {Users!NotBegun} \cup Users!Begun]
        /\ \A b \in Attempt : b # a => attempt'[b] = attempt[b]
        /\ attempt'[a] \in Users!Begun /\ attempt'[a].step = "token" /\ attempt'[a].id = u.id
        /\ attempt'[a].login = l
    BY <1>2, <1>5, <2>1, StepsAlone
  <2>3. PICK p : p = attempt'[a]
    OBVIOUS
  <2>4. Users!KnowsWhy(p)'
    <3>1. u \in Users!Matches(p.login)'
      BY <1>1, <1>3, <1>5, <2>2, <2>3 DEF Users!Matches, Users!Demo
    <3> QED
      BY <2>2, <2>3, <3>1 DEF Users!KnowsWhy
  <2>5. Users!KnowsWhy(attempt[a])'
    BY <2>3, <2>4
  <2> QED
    BY <1>1, <2>2, <2>5, StepKeeps
<1> QED
  BY <1>4, <1>5 DEF Users!FindByUsername

LEMMA CreateKeeps ==
    ASSUME Users!TypeOK, Users!AccountsInv, NEW a \in Attempt, Users!Create(a)
    PROVE  Users!TypeOK' /\ Users!AccountsInv'
<1> DEFINE l == attempt[a].login
           row == [id |-> a, name |-> l.name, email |-> l.email, github |-> l.github]
<1>1. attempt[a].step = "create"
  BY DEF Users!Create
<1>2. attempt[a] \in Users!Begun /\ Users!KnowsWhy(attempt[a]) /\ l \in Login /\ \A u \in users : u.id \in Attempt
  BY <1>1, UnderWay
<1>3. ~attempt[a].raced => \A u \in users : u.email # l.email
  BY <1>1, <1>2 DEF Users!KnowsWhy
<1>4. CASE Users!Taken(l, users)
  <2> DEFINE step == IF Users!Demo(l) THEN "find by name" ELSE "failed"
  <2>1. users' = users /\ Users!To(a, step, 0)
    BY <1>4 DEF Users!Create
  <2>2. step \in {"find", "create", "find by name", "update", "token", "failed"}
    OBVIOUS
  <2>3. /\ attempt' \in [Attempt -> {Users!NotBegun} \cup Users!Begun]
        /\ \A b \in Attempt : b # a => attempt'[b] = attempt[b]
        /\ attempt'[a] \in Users!Begun /\ attempt'[a].step = step /\ attempt'[a].login = l
        /\ attempt'[a].raced = attempt[a].raced
    BY <1>2, <2>1, <2>2, StepsAlone
  <2>4. PICK p : p = attempt'[a]
    OBVIOUS
  <2>5. PICK u \in users : u.name = l.name \/ u.email = l.email \/ (u.github = l.github /\ ~Users!Demo(l))
    BY <1>4 DEF Users!Taken
  <2>6. Users!Demo(l) => u.name = l.name \/ (u.email = l.email /\ p.raced)
    BY <1>3, <2>3, <2>4, <2>5
  <2>7. ~Users!Demo(l) => Users!OtherAccount(l)' \/ p.raced
    BY <1>3, <2>1, <2>3, <2>4, <2>5 DEF Users!OtherAccount, Users!Demo
  <2>8. Users!KnowsWhy(p)'
    BY <2>1, <2>3, <2>4, <2>5, <2>6, <2>7 DEF Users!KnowsWhy, Users!OtherAccount, Users!Demo
  <2>9. Users!KnowsWhy(attempt[a])'
    BY <2>4, <2>8
  <2> QED
    BY <1>1, <2>1, <2>3, <2>9, StepKeeps
<1>5. CASE ~Users!Taken(l, users)
  <2>1. /\ users' = users \cup {row}
        /\ attempt' = [b \in Attempt |->
               CASE b = a -> [attempt[b] EXCEPT !.step = "token", !.id = a]
                 [] b # a /\ attempt[b].step = "create" -> [attempt[b] EXCEPT !.raced = TRUE]
                 [] OTHER -> attempt[b]]
    BY <1>5 DEF Users!Create
  <2>2. /\ row.id = a /\ row.name = l.name /\ row.email = l.email /\ row.github = l.github
        /\ row \in [id : Attempt, name : {m.name : m \in Login}, email : {m.email : m \in Login},
                    github : {m.github : m \in Login}]
    BY <1>2
  <2> HIDE DEF row
  <2>3. /\ attempt'[a] \in Users!Begun /\ attempt'[a].step = "token" /\ attempt'[a].id = a
        /\ attempt'[a].login = l
    <3>1. attempt'[a] = [attempt[a] EXCEPT !.step = "token", !.id = a]
      BY <2>1
    <3> QED
      BY <1>2, <3>1 DEF Users!Begun
  <2>4. ASSUME NEW b \in Attempt, b # a, attempt[b].step = "create"
        PROVE  /\ attempt[b] \in Users!Begun /\ attempt'[b] \in Users!Begun /\ attempt'[b].step = "create"
               /\ attempt'[b].raced = TRUE
    <3>1. attempt'[b] = [attempt[b] EXCEPT !.raced = TRUE]
      BY <2>1, <2>4
    <3>2. attempt[b] \in Users!Begun
      BY <2>4, UnderWay
    <3> QED
      BY <2>4, <3>1, <3>2 DEF Users!Begun
  <2>5. ASSUME NEW b \in Attempt, b # a, attempt[b].step # "create"
        PROVE  attempt'[b] = attempt[b]
    BY <2>1, <2>5
  <2>6. attempt' \in [Attempt -> {Users!NotBegun} \cup Users!Begun]
    <3>1. \A b \in Attempt : attempt'[b] \in {Users!NotBegun} \cup Users!Begun
      BY <2>3, <2>4, <2>5 DEF Users!AccountsInv
    <3> QED
      BY <2>1, <3>1
  <2>7. Users!TypeOK'
    <3>1. \A b \in Attempt : attempt'[b] = Users!NotBegun \/
            /\ attempt'[b].login \in Login /\ attempt'[b].id \in Attempt \cup {0}
            /\ attempt'[b].step \in {"find", "create", "find by name", "update", "token", "failed"}
      BY <2>6 DEF Users!Begun
    <3> QED
      BY <2>1, <2>2, <3>1, ZenonT(60) DEF Users!TypeOK
  <2>8. Users!Apart'
    <3>1. \A u \in users : u.id # a
      BY <1>1 DEF Users!AccountsInv, Users!Apart
    <3>2. \A u \in users : u.email # l.email /\ (u.github = l.github => l.github = "none")
      BY <1>5 DEF Users!Taken, Users!Demo
    <3>3. \A u, w \in users' :
             u.id = w.id \/ u.email = w.email \/ (u.github = w.github /\ u.github # "none") => u = w
      <4>1. \A u, w \in users :
               u.id = w.id \/ u.email = w.email \/ (u.github = w.github /\ u.github # "none") => u = w
        BY DEF Users!AccountsInv, Users!Apart
      <4>2. \A u \in users : ~(u.id = row.id \/ u.email = row.email \/ (u.github = row.github /\ row.github # "none"))
        BY <2>2, <3>1, <3>2
      <4> QED
        BY <2>1, <4>1, <4>2
    <3>4. \A u \in users' : attempt'[u.id].step = "token"
      <4>1. ASSUME NEW u \in users PROVE attempt'[u.id].step = "token"
        BY <1>2, <2>5, <3>1 DEF Users!AccountsInv, Users!Apart
      <4> QED
        BY <2>1, <2>2, <2>3, <4>1
    <3>5. \A u \in users' : u.github # "none" => \E m \in Login : m.email = u.email /\ m.github = u.github
      BY <1>2, <2>1, <2>2 DEF Users!AccountsInv, Users!Apart
    <3> QED
      BY <3>3, <3>4, <3>5 DEF Users!Apart
  <2>9. ASSUME NEW b \in Attempt PROVE Users!KnowsWhy(attempt[b])'
    <3>1. PICK p : p = attempt'[b]
      OBVIOUS
    <3>2. CASE b = a
      <4>1. row \in Users!Matches(p.login)'
        BY <2>1, <2>2, <2>3, <3>1, <3>2 DEF Users!Matches
      <4>2. Users!KnowsWhy(p)'
        BY <2>2, <2>3, <3>1, <3>2, <4>1 DEF Users!KnowsWhy
      <4> QED
        BY <3>1, <4>2
    <3>3. CASE b # a /\ attempt[b].step = "create"
      <4>1. Users!KnowsWhy(p)'
        BY <2>4, <3>1, <3>3 DEF Users!KnowsWhy
      <4> QED
        BY <3>1, <4>1
    <3>4. CASE b # a /\ attempt[b].step # "create"
      <4>1. p = attempt[b] /\ p \in {Users!NotBegun} \cup Users!Begun /\ Users!KnowsWhy(p)
        BY <2>5, <3>1, <3>4 DEF Users!AccountsInv
      <4>2. CASE p = Users!NotBegun
        <5>1. Users!KnowsWhy(p)'
          BY <4>2 DEF Users!KnowsWhy, Users!NotBegun
        <5> QED
          BY <3>1, <5>1
      <4>3. CASE p \in Users!Begun
        <5>1. \A u \in users : \E w \in users' :
                 /\ w.id = u.id /\ w.name = u.name /\ w.email = u.email
                 /\ u.github # "none" => w.github = u.github
          BY <2>1
        <5>2. p.step # "create"
          BY <3>4, <4>1
        <5>3. Users!KnowsWhy(p)'
          BY <4>1, <4>3, <5>1, <5>2, WhyKept
        <5> QED
          BY <3>1, <5>3
      <4> QED
        BY <4>1, <4>2, <4>3
    <3> QED
      BY <3>2, <3>3, <3>4
  <2> QED
    BY <2>6, <2>7, <2>8, <2>9 DEF Users!AccountsInv
<1> QED
  BY <1>4, <1>5

LEMMA UpdateGithubInfoKeeps ==
    ASSUME Users!TypeOK, Users!AccountsInv, NEW a \in Attempt, Users!UpdateGithubInfo(a)
    PROVE  Users!TypeOK' /\ Users!AccountsInv'
<1> DEFINE l == attempt[a].login
           id == attempt[a].id
           denied == \E u \in users : u.github = l.github /\ u.id # id
           Updated(u) == IF u.id = id THEN [u EXCEPT !.github = l.github] ELSE u
           Rows == [id : Attempt, name : {m.name : m \in Login}, email : {m.email : m \in Login},
                    github : {m.github : m \in Login}]
<1>1. /\ attempt[a].step = "update"
      /\ users' = IF denied THEN users ELSE {Updated(u) : u \in users}
      /\ Users!To(a, IF denied THEN "failed" ELSE "token", id)
  BY DEF Users!UpdateGithubInfo
<1>2. attempt[a] \in Users!Begun /\ Users!KnowsWhy(attempt[a]) /\ l \in Login /\ users \subseteq Rows
  BY <1>1, UnderWay DEF Users!TypeOK
<1>3. ~Users!Demo(l) /\ l.github # "none"
  BY <1>1, <1>2 DEF Users!KnowsWhy, Users!Demo
<1>4. PICK w \in users : w.id = id /\ (w.email = l.email \/ w.github = l.github)
  BY <1>1, <1>2, <1>3 DEF Users!KnowsWhy, Users!Matches
<1>5. \A u, v \in users :
         u.id = v.id \/ u.email = v.email \/ (u.github = v.github /\ u.github # "none") => u = v
  BY DEF Users!AccountsInv, Users!Apart
<1>6. /\ id \in Attempt \cup {0}
      /\ (IF denied THEN "failed" ELSE "token") \in {"find", "create", "find by name", "update", "token", "failed"}
  BY <1>2 DEF Users!Begun
<1>7. /\ attempt' \in [Attempt -> {Users!NotBegun} \cup Users!Begun]
      /\ \A b \in Attempt : b # a => attempt'[b] = attempt[b]
      /\ attempt'[a] \in Users!Begun /\ attempt'[a].step = (IF denied THEN "failed" ELSE "token")
      /\ attempt'[a].id = id /\ attempt'[a].login = l
  BY <1>1, <1>2, <1>6, StepsAlone
<1>8. CASE denied
  <2>1. users' = users
    BY <1>1, <1>8
  <2>2. PICK u \in users : u.github = l.github /\ u.id # id
    BY <1>8
  <2>3. u.email # l.email
    BY <1>3, <1>4, <1>5, <2>2
  <2>4. PICK p : p = attempt'[a]
    OBVIOUS
  <2>5. Users!OtherAccount(p.login)'
    BY <1>3, <1>7, <2>1, <2>2, <2>3, <2>4 DEF Users!OtherAccount, Users!Demo
  <2>6. Users!KnowsWhy(p)'
    BY <1>7, <1>8, <2>4, <2>5 DEF Users!KnowsWhy
  <2>7. Users!KnowsWhy(attempt[a])'
    BY <2>4, <2>6
  <2> QED
    BY <1>1, <1>7, <2>1, <2>7, StepKeeps
<1>9. CASE ~denied
  <2>1. users' = {Updated(u) : u \in users}
    BY <1>1, <1>9
  <2>2. ASSUME NEW u \in users, u.id = id, u.github # "none"
        PROVE  u.github = l.github
    <3>1. u = w
      BY <1>4, <1>5, <2>2
    <3>2. PICK m \in Login : m.email = u.email /\ m.github = u.github
      BY <2>2 DEF Users!AccountsInv, Users!Apart
    <3>3. m.email = l.email => m.github = l.github
      BY <1>2, <1>3, <2>2, <3>2, LoginsAssumption DEF Users!Demo
    <3> QED
      BY <1>4, <3>1, <3>2, <3>3
  <2>3. ASSUME NEW u \in users
        PROVE  /\ Updated(u) \in Rows
               /\ Updated(u).id = u.id /\ Updated(u).name = u.name /\ Updated(u).email = u.email
               /\ Updated(u).github = IF u.id = id THEN l.github ELSE u.github
               /\ u.github # "none" => Updated(u).github = u.github
    <3>1. /\ Updated(u) \in Rows
          /\ Updated(u).id = u.id /\ Updated(u).name = u.name /\ Updated(u).email = u.email
          /\ Updated(u).github = IF u.id = id THEN l.github ELSE u.github
      BY <1>2
    <3> QED
      BY <2>2, <3>1
  <2> HIDE DEF Updated
  <2>4. Users!TypeOK'
    <3>1. \A b \in Attempt : attempt'[b] = Users!NotBegun \/
            /\ attempt'[b].login \in Login /\ attempt'[b].id \in Attempt \cup {0}
            /\ attempt'[b].step \in {"find", "create", "find by name", "update", "token", "failed"}
      BY <1>7 DEF Users!Begun
    <3>2. users' \subseteq Rows
      BY <2>1, <2>3
    <3> QED
      BY <3>1, <3>2 DEF Users!TypeOK
  <2>5. Users!Apart'
    <3>1. ASSUME NEW u \in users, NEW v \in users,
                 \/ Updated(u).id = Updated(v).id \/ Updated(u).email = Updated(v).email
                 \/ Updated(u).github = Updated(v).github /\ Updated(u).github # "none"
          PROVE  u = v
      <4>1. CASE u.id = v.id \/ u.email = v.email
        BY <1>5, <4>1
      <4>2. CASE u.id # v.id /\ u.email # v.email
        <5>1. Updated(u).github = Updated(v).github /\ Updated(u).github # "none"
          BY <2>3, <3>1, <4>2
        <5>2. u.id # id /\ v.id # id
          BY <1>9, <2>3, <4>2, <5>1
        <5> QED
          BY <1>5, <2>3, <5>1, <5>2
      <4> QED
        BY <4>1, <4>2
    <3>2. ASSUME NEW u \in users PROVE attempt'[Updated(u).id].step = "token"
      <4>1. attempt[u.id].step = "token" /\ u.id \in Attempt
        BY <1>2 DEF Users!AccountsInv, Users!Apart
      <4>2. u.id # a
        BY <1>1, <4>1
      <4> QED
        BY <1>7, <2>3, <4>1, <4>2
    <3>3. ASSUME NEW u \in users, Updated(u).github # "none"
          PROVE  \E m \in Login : m.email = Updated(u).email /\ m.github = Updated(u).github
      <4>1. CASE u.github # "none"
        BY <2>3, <4>1 DEF Users!AccountsInv, Users!Apart
      <4>2. CASE u.github = "none"
        <5>1. u.id = id /\ u = w
          BY <1>4, <1>5, <2>3, <3>3, <4>2
        <5>2. w.email = l.email /\ Updated(u).email = l.email /\ Updated(u).github = l.github
          BY <1>3, <1>4, <2>3, <4>2, <5>1
        <5> QED
          BY <1>2, <5>2
      <4> QED
        BY <4>1, <4>2
    <3> QED
      BY <2>1, <3>1, <3>2, <3>3 DEF Users!Apart
  <2>6. \A u \in users : \E v \in users' :
           /\ v.id = u.id /\ v.name = u.name /\ v.email = u.email
           /\ u.github # "none" => v.github = u.github
    BY <2>1, <2>3
  <2>7. ASSUME NEW b \in Attempt PROVE Users!KnowsWhy(attempt[b])'
    <3>1. PICK p : p = attempt'[b]
      OBVIOUS
    <3>2. CASE b = a
      <4>1. Updated(w) \in Users!Matches(p.login)' /\ Updated(w).id = p.id
        <5>1. p.login = l /\ p.id = id /\ ~(p.login.github = "none")
          BY <1>3, <1>7, <3>1, <3>2
        <5>2. /\ Updated(w) \in users' /\ Updated(w).id = id
              /\ Updated(w).email = p.login.email \/ Updated(w).github = p.login.github
          BY <1>4, <2>1, <2>3, <5>1
        <5> QED
          BY <5>1, <5>2 DEF Users!Matches, Users!Demo
      <4>2. Users!KnowsWhy(p)'
        BY <1>7, <1>9, <3>1, <3>2, <4>1 DEF Users!KnowsWhy
      <4> QED
        BY <3>1, <4>2
    <3>3. CASE b # a
      <4>1. p = attempt[b] /\ p \in {Users!NotBegun} \cup Users!Begun /\ Users!KnowsWhy(p)
        BY <1>7, <3>1, <3>3 DEF Users!AccountsInv
      <4>2. CASE p = Users!NotBegun
        <5>1. Users!KnowsWhy(p)'
          BY <4>2 DEF Users!KnowsWhy, Users!NotBegun
        <5> QED
          BY <3>1, <5>1
      <4>3. CASE p \in Users!Begun
        <5>1. p.step = "create" /\ ~p.raced => \A u \in users' : u.email # p.login.email
          BY <2>1, <2>3, <4>1 DEF Users!KnowsWhy
        <5>2. Users!KnowsWhy(p)'
          BY <2>6, <4>1, <4>3, <5>1, WhyKept
        <5> QED
          BY <3>1, <5>2
      <4> QED
        BY <4>1, <4>2, <4>3
    <3> QED
      BY <3>2, <3>3
  <2> QED
    BY <1>7, <2>4, <2>5, <2>7 DEF Users!AccountsInv
<1> QED
  BY <1>8, <1>9

LEMMA AccountsStart == Users!Init => Users!TypeOK /\ Users!AccountsInv
<1> SUFFICES ASSUME Users!Init PROVE Users!TypeOK /\ Users!AccountsInv
  OBVIOUS
<1>1. users = {} /\ \A a \in Attempt : attempt[a] = Users!NotBegun
  BY DEF Users!Init
<1>2. attempt \in [Attempt -> {Users!NotBegun} \cup Users!Begun]
  BY DEF Users!Init
<1>3. \A a \in Attempt : Users!KnowsWhy(attempt[a])
  BY <1>1, NobodyBegun DEF Users!KnowsWhy
<1> QED
  BY <1>1, <1>2, <1>3 DEF Users!TypeOK, Users!AccountsInv, Users!Apart

LEMMA AccountsStep ==
    Users!TypeOK /\ Users!AccountsInv /\ [Users!Next]_(Users!accountVars) => (Users!TypeOK /\ Users!AccountsInv)'
<1> SUFFICES ASSUME Users!TypeOK, Users!AccountsInv, [Users!Next]_(Users!accountVars)
             PROVE Users!TypeOK' /\ Users!AccountsInv'
  OBVIOUS
<1>1. ASSUME NEW a \in Attempt, NEW l \in Login, Users!Begin(a, l) PROVE Users!TypeOK' /\ Users!AccountsInv'
  BY <1>1, LoginBegins
<1>2. ASSUME NEW a \in Attempt, Users!Find(a) PROVE Users!TypeOK' /\ Users!AccountsInv'
  BY <1>2, FindKeeps
<1>3. ASSUME NEW a \in Attempt, Users!Create(a) PROVE Users!TypeOK' /\ Users!AccountsInv'
  BY <1>3, CreateKeeps
<1>4. ASSUME NEW a \in Attempt, Users!FindByUsername(a) PROVE Users!TypeOK' /\ Users!AccountsInv'
  BY <1>4, FindByUsernameKeeps
<1>5. ASSUME NEW a \in Attempt, Users!UpdateGithubInfo(a) PROVE Users!TypeOK' /\ Users!AccountsInv'
  BY <1>5, UpdateGithubInfoKeeps
<1>6. CASE UNCHANGED Users!accountVars
  <2>1. UNCHANGED <<users, attempt>>
    BY <1>6 DEF Users!accountVars
  <2>2. \A a \in Attempt : Users!KnowsWhy(attempt[a])'
    BY <2>1, ZenonT(60) DEF Users!AccountsInv, Users!KnowsWhy, Users!Matches, Users!OtherAccount, Users!Demo
  <2> QED
    BY <2>1, <2>2 DEF Users!AccountsInv, Users!TypeOK, Users!Apart
<1> QED
  BY <1>1, <1>2, <1>3, <1>4, <1>5, <1>6 DEF Users!Next

(* routes/auth.ts over the UNIQUE columns of users: rows are apart, and a  *)
(* login under way knows why its look-up found nothing or somebody. *)
THEOREM AccountsInvariant == Users!Spec => [](Users!TypeOK /\ Users!AccountsInv)
BY AccountsStart, AccountsStep, PTL DEF Users!Spec

(* Two logins of one person, at once or one after the other, end in one    *)
(* account, and one fails only for a reason the code knows. *)
THEOREM LoginsAgreed == Users!Spec => []Users!LoginsAgree
<1>1. Users!TypeOK /\ Users!AccountsInv => Users!LoginsAgree
  BY KnowingAgrees
<1> QED
  BY <1>1, AccountsInvariant, PTL

-----------------------------------------------------------------------------
(* Who a request is from and what it may do: both, in one. *)
THEOREM AccessStaysCurrent == AccessSpec => []AccessIsCurrent
BY GrantsCurrent, LoginsAgreed, PTL DEF AccessSpec, AccessIsCurrent

-----------------------------------------------------------------------------
(* Presence: of lines of commands and answers, their first and last of a   *)
(* kind. *)

LEMMA TailLine ==
    ASSUME NEW C, NEW q \in Seq(C), q # <<>>
    PROVE  /\ Tail(q) \in Seq(C) /\ Head(q) \in C /\ Head(q) = q[1] /\ Len(q) \in Nat /\ Len(q) # 0
           /\ Len(Tail(q)) = Len(q) - 1 /\ \A k \in 1..Len(Tail(q)) : Tail(q)[k] = q[k + 1]
OBVIOUS

LEMMA NoneInTail ==
    ASSUME NEW C, NEW q \in Seq(C), q # <<>>, NEW S
    PROVE  Present!NoneIn(q, S) <=> Head(q) \notin S /\ Present!NoneIn(Tail(q), S)
<1>1. Present!NoneIn(q, S) => Head(q) \notin S /\ Present!NoneIn(Tail(q), S)
  BY TailLine DEF Present!NoneIn
<1>2. ASSUME Head(q) \notin S, Present!NoneIn(Tail(q), S), NEW k \in 1..Len(q) PROVE q[k] \notin S
  <2>1. CASE k = 1
    BY <1>2, <2>1, TailLine
  <2>2. CASE k # 1
    <3>1. k - 1 \in 1..Len(Tail(q)) /\ Tail(q)[k - 1] = q[k]
      BY <2>2, TailLine
    <3> QED
      BY <1>2, <3>1 DEF Present!NoneIn
  <2> QED
    BY <2>1, <2>2
<1> QED
  BY <1>1, <1>2 DEF Present!NoneIn

LEMMA LastInTail ==
    ASSUME NEW C, NEW q \in Seq(C), q # <<>>, NEW S, NEW T, Present!LastIs(q, S, T)
    PROVE  Present!LastIs(Tail(q), S, T) /\ (Present!NoneIn(Tail(q), S) /\ Head(q) \in S => Head(q) \in T)
<1>1. Present!LastIs(Tail(q), S, T)
  <2> SUFFICES ASSUME NEW k \in 1..Len(Tail(q)), Tail(q)[k] \in S,
                      \A j \in 1..Len(Tail(q)) : j > k => Tail(q)[j] \notin S
               PROVE  Tail(q)[k] \in T
    BY DEF Present!LastIs
  <2>1. k + 1 \in 1..Len(q) /\ q[k + 1] = Tail(q)[k]
    BY TailLine
  <2>2. ASSUME NEW j \in 1..Len(q), j > k + 1 PROVE q[j] \notin S
    <3>1. j - 1 \in 1..Len(Tail(q)) /\ j - 1 > k /\ Tail(q)[j - 1] = q[j]
      BY <2>2, TailLine
    <3> QED
      BY <3>1
  <2> QED
    BY <2>1, <2>2 DEF Present!LastIs
<1>2. ASSUME Present!NoneIn(Tail(q), S), Head(q) \in S PROVE Head(q) \in T
  <2>1. ASSUME NEW j \in 1..Len(q), j > 1 PROVE q[j] \notin S
    <3>1. j - 1 \in 1..Len(Tail(q)) /\ Tail(q)[j - 1] = q[j]
      BY <2>1, TailLine
    <3> QED
      BY <1>2, <3>1 DEF Present!NoneIn
  <2>2. 1 \in 1..Len(q) /\ q[1] \in S /\ q[1] = Head(q)
    BY <1>2, TailLine
  <2> QED
    BY <2>1, <2>2 DEF Present!LastIs
<1> QED
  BY <1>1, <1>2

LEMMA FirstInTail ==
    ASSUME NEW C, NEW q \in Seq(C), q # <<>>, NEW S, NEW T, Present!FirstIs(q, S, T)
    PROVE  IF Head(q) \in S THEN Head(q) \in T ELSE Present!FirstIs(Tail(q), S, T)
<1>1. ASSUME Head(q) \in S PROVE Head(q) \in T
  <2>1. 1 \in 1..Len(q) /\ q[1] = Head(q) /\ \A j \in 1..Len(q) : ~(j < 1)
    BY TailLine
  <2> QED
    BY <1>1, <2>1 DEF Present!FirstIs
<1>2. ASSUME Head(q) \notin S PROVE Present!FirstIs(Tail(q), S, T)
  <2> SUFFICES ASSUME NEW k \in 1..Len(Tail(q)), Tail(q)[k] \in S,
                      \A j \in 1..Len(Tail(q)) : j < k => Tail(q)[j] \notin S
               PROVE  Tail(q)[k] \in T
    BY DEF Present!FirstIs
  <2>1. k + 1 \in 1..Len(q) /\ q[k + 1] = Tail(q)[k]
    BY TailLine
  <2>2. ASSUME NEW j \in 1..Len(q), j < k + 1 PROVE q[j] \notin S
    <3>1. CASE j = 1
      BY <1>2, <3>1, TailLine
    <3>2. CASE j # 1
      <4>1. j - 1 \in 1..Len(Tail(q)) /\ j - 1 < k /\ Tail(q)[j - 1] = q[j]
        BY <2>2, <3>2, TailLine
      <4> QED
        BY <4>1
    <3> QED
      BY <3>1, <3>2
  <2> QED
    BY <2>1, <2>2 DEF Present!FirstIs
<1> QED
  BY <1>1, <1>2

LEMMA AppendLine ==
    ASSUME NEW C, NEW q \in Seq(C), NEW x \in C
    PROVE  /\ Append(q, x) \in Seq(C) /\ Len(q) \in Nat /\ Len(Append(q, x)) = Len(q) + 1
           /\ Append(q, x)[Len(q) + 1] = x /\ \A k \in 1..Len(q) : Append(q, x)[k] = q[k]
OBVIOUS

LEMMA InAppended ==
    ASSUME NEW C, NEW q \in Seq(C), NEW x \in C, NEW S, NEW T
    PROVE  /\ Present!NoneIn(Append(q, x), S) <=> Present!NoneIn(q, S) /\ x \notin S
           /\ x \in S => (x \in T => Present!LastIs(Append(q, x), S, T))
           /\ x \notin S => (Present!LastIs(q, S, T) => Present!LastIs(Append(q, x), S, T))
           /\ Present!FirstIs(q, S, T) /\ (Present!NoneIn(q, S) /\ x \in S => x \in T) => Present!FirstIs(Append(q, x), S, T)
<1> DEFINE r == Append(q, x)
           n == Len(q)
<1>1. /\ n \in Nat /\ Len(r) = n + 1 /\ r[n + 1] = x
      /\ \A k \in 1..n : r[k] = q[k] /\ k \in 1..Len(r)
      /\ n + 1 \in 1..Len(r) /\ \A k \in 1..Len(r) : k \in 1..n \/ k = n + 1
      /\ \A k \in 1..n : n + 1 > k
  BY AppendLine
<1> HIDE DEF r, n
<1>2. Present!NoneIn(r, S) <=> (\A k \in 1..n : q[k] \notin S) /\ x \notin S
  BY <1>1 DEF Present!NoneIn
<1>3. ASSUME x \in S, x \in T PROVE Present!LastIs(r, S, T)
  BY <1>1, <1>3 DEF Present!LastIs
<1>4. ASSUME x \notin S, \A k \in 1..n : q[k] \in S /\ (\A j \in 1..n : j > k => q[j] \notin S) => q[k] \in T
      PROVE  Present!LastIs(r, S, T)
  BY <1>1, <1>4 DEF Present!LastIs
<1>5. ASSUME \A k \in 1..n : q[k] \in S /\ (\A j \in 1..n : j < k => q[j] \notin S) => q[k] \in T,
             (\A k \in 1..n : q[k] \notin S) /\ x \in S => x \in T
      PROVE  Present!FirstIs(r, S, T)
  <2> SUFFICES ASSUME NEW k \in 1..Len(r), r[k] \in S, \A j \in 1..Len(r) : j < k => r[j] \notin S
               PROVE  r[k] \in T
    BY DEF Present!FirstIs
  <2>1. CASE k \in 1..n
    BY <1>1, <1>5, <2>1
  <2>2. CASE k = n + 1
    <3>1. \A j \in 1..n : j < k
      BY <1>1, <2>2
    <3> QED
      BY <1>1, <1>5, <2>2, <3>1
  <2> QED
    BY <1>1, <2>1, <2>2
<1> QED
  BY <1>2, <1>3, <1>4, <1>5 DEF Present!NoneIn, Present!LastIs, Present!FirstIs, n, r

(* Commands. *)
LEMMA CommandsAbout ==
    /\ \A s \in Sockets : PodOf[s] \in Pods
    /\ \A s \in Sockets, f \in Present!Looks, op \in {"hset", "hget", "hdel"} :
          /\ Present!Command(op, s, f) \in Present!About(PodOf[s])
          /\ Present!Command(op, s, f).op = op /\ Present!Command(op, s, f).socket = s /\ Present!Command(op, s, f).file = f
    /\ \A p : Present!Broadcast \in Present!About(p) /\ Present!Broadcast.op = "hgetall"
    /\ \A p : \A c \in Present!About(p) : c # Present!Broadcast => c.op \in {"hset", "hget", "hdel"} /\ c.socket \in Sockets /\ c.file \in Present!Looks
BY PresenceAssumption DEF Present!Command, Present!About, Present!Broadcast

(* What concerns others leaves a socket's record as it is. *)
LEMMA OthersSent ==
    ASSUME NEW s \in Sockets, NEW q \in Seq(Present!About(PodOf[s])), NEW a, NEW f, NEW at, NEW h,
           NEW c \in Present!About(PodOf[s]), c.op = "hgetall" \/ c.socket # s,
           Present!Follows(s, q, a, f, at, h)
    PROVE  Append(q, c) \in Seq(Present!About(PodOf[s])) /\ Present!Follows(s, Append(q, c), a, f, at, h)
<1> DEFINE C == Present!About(PodOf[s])
           r == Append(q, c)
<1>1. c \notin Present!Sets(s) /\ c \notin Present!Gets(s) /\ c \notin Present!Dels(s)
  BY DEF Present!Sets, Present!Gets, Present!Dels
<1>2. r \in Seq(C)
  BY AppendLine
<1>3. \A S : c \notin S => (Present!NoneIn(r, S) <=> Present!NoneIn(q, S))
  BY InAppended
<1>4. \A S, T : c \notin S /\ Present!LastIs(q, S, T) => Present!LastIs(r, S, T)
  BY InAppended
<1>5. \A S, T : c \notin S /\ Present!FirstIs(q, S, T) => Present!FirstIs(r, S, T)
  BY InAppended
<1>6. c \notin Present!Sets(s) \cup Present!Gets(s) /\ c \notin Present!Sets(s) \cup Present!Dels(s) /\ c \notin Present!Sets(s) \cup Present!Gets(s) \cup Present!Dels(s)
  BY <1>1
<1> HIDE DEF r
<1> QED
  BY <1>1, <1>2, <1>3, <1>4, <1>5, <1>6 DEF Present!Follows, r

LEMMA OthersExecuted ==
    ASSUME NEW s \in Sockets, NEW q \in Seq(Present!About(PodOf[s])), q # <<>>, NEW a, NEW f, NEW at, NEW h,
           Head(q).op = "hgetall" \/ Head(q).socket # s,
           Present!Follows(s, q, a, f, at, h)
    PROVE  Present!Follows(s, Tail(q), a, f, at, h)
<1> DEFINE C == Present!About(PodOf[s])
           r == Tail(q)
           c == Head(q)
<1>1. c \notin Present!Sets(s) /\ c \notin Present!Gets(s) /\ c \notin Present!Dels(s)
  BY DEF Present!Sets, Present!Gets, Present!Dels
<1>3. \A S : c \notin S => (Present!NoneIn(r, S) <=> Present!NoneIn(q, S))
  BY NoneInTail
<1>4. \A S, T : Present!LastIs(q, S, T) => Present!LastIs(r, S, T)
  BY LastInTail
<1>5. \A S, T : c \notin S /\ Present!FirstIs(q, S, T) => Present!FirstIs(r, S, T)
  BY FirstInTail
<1>6. c \notin Present!Sets(s) \cup Present!Gets(s) /\ c \notin Present!Sets(s) \cup Present!Dels(s) /\ c \notin Present!Sets(s) \cup Present!Gets(s) \cup Present!Dels(s)
  BY <1>1
<1> HIDE DEF r, c
<1> QED
  BY <1>1, <1>3, <1>4, <1>5, <1>6 DEF Present!Follows, r

LEMMA OthersAnswered ==
    ASSUME NEW s \in Sockets, NEW q, NEW a \in Seq(Present!Back(PodOf[s])), NEW f, NEW at, NEW h,
           NEW b \in Present!Back(PodOf[s]), b.op = "all" \/ b.command.socket # s,
           Present!Follows(s, q, a, f, at, h)
    PROVE  Append(a, b) \in Seq(Present!Back(PodOf[s])) /\ Present!Follows(s, q, Append(a, b), f, at, h)
<1> DEFINE r == Append(a, b)
<1>1. b \notin Present!Ones(s)
  BY DEF Present!Ones
<1>2. r \in Seq(Present!Back(PodOf[s]))
  BY AppendLine
<1>3. Present!NoneIn(r, Present!Ones(s)) <=> Present!NoneIn(a, Present!Ones(s))
  BY <1>1, InAppended
<1>4. \A T : Present!LastIs(a, Present!Ones(s), T) => Present!LastIs(r, Present!Ones(s), T)
  BY <1>1, InAppended
<1> HIDE DEF r
<1> QED
  BY <1>2, <1>3, <1>4 DEF Present!Follows, r

LEMMA OthersRead ==
    ASSUME NEW s \in Sockets, NEW q, NEW a \in Seq(Present!Back(PodOf[s])), a # <<>>, NEW f, NEW at, NEW h,
           Head(a).op = "all" \/ Head(a).command.socket # s,
           Present!Follows(s, q, a, f, at, h)
    PROVE  Present!Follows(s, q, Tail(a), f, at, h)
<1> DEFINE r == Tail(a)
<1>1. Head(a) \notin Present!Ones(s)
  BY DEF Present!Ones
<1>3. Present!NoneIn(r, Present!Ones(s)) <=> Present!NoneIn(a, Present!Ones(s))
  BY <1>1, NoneInTail
<1>4. \A T : Present!LastIs(a, Present!Ones(s), T) => Present!LastIs(r, Present!Ones(s), T)
  BY LastInTail
<1> HIDE DEF r
<1> QED
  BY <1>3, <1>4 DEF Present!Follows, r

LEMMA EmptyUnion ==
    ASSUME NEW q, NEW S, NEW T
    PROVE  Present!NoneIn(q, S \cup T) <=> Present!NoneIn(q, S) /\ Present!NoneIn(q, T)
BY DEF Present!NoneIn

LEMMA NoneNoLast ==
    ASSUME NEW q, NEW S, NEW T, Present!NoneIn(q, S)
    PROVE  Present!LastIs(q, S, T) /\ Present!FirstIs(q, S, T)
BY DEF Present!NoneIn, Present!LastIs, Present!FirstIs

(* connect: the HSET is the first Redis hears of the member. *)
LEMMA FollowsConnected ==
    ASSUME NEW s \in Sockets, NEW q \in Seq(Present!About(PodOf[s])), NEW a, NEW f, NEW h,
           Present!Follows(s, q, a, f, "connecting", h)
    PROVE  Present!Follows(s, Append(q, Present!Command("hset", s, 0)), a, 0, "open", h)
<1> DEFINE c == Present!Command("hset", s, 0)
           r == Append(q, c)
<1>1. c \in Present!About(PodOf[s]) /\ c.op = "hset" /\ c.socket = s /\ c.file = 0 /\ 0 # Present!Absent
  BY CommandsAbout, PresenceAssumption DEF Present!Looks
<1>2. c \in Present!Sets(s) /\ c \notin Present!Gets(s) /\ c \notin Present!Dels(s) /\ c \in Present!Naming(s, 0)
  BY <1>1 DEF Present!Sets, Present!Gets, Present!Dels, Present!Naming
<1>3. Present!NoneIn(q, Present!Sets(s)) /\ Present!NoneIn(q, Present!Gets(s)) /\ Present!NoneIn(q, Present!Dels(s)) /\ Present!NoneIn(a, Present!Ones(s)) /\ h = Present!Absent
  BY EmptyUnion DEF Present!Follows
<1> HIDE DEF c
<1>4. Present!NoneIn(r, Present!Gets(s)) /\ Present!NoneIn(r, Present!Dels(s)) /\ ~Present!NoneIn(r, Present!Sets(s))
  BY <1>1, <1>2, <1>3, InAppended
<1>5. Present!LastIs(r, Present!Sets(s), Present!Naming(s, 0))
  BY <1>1, <1>2, InAppended
<1>6. Present!FirstIs(r, Present!Sets(s) \cup Present!Gets(s), Present!Sets(s))
  <2>1. Present!NoneIn(q, Present!Sets(s) \cup Present!Gets(s))
    BY <1>3, EmptyUnion
  <2>2. Present!FirstIs(q, Present!Sets(s) \cup Present!Gets(s), Present!Sets(s))
    BY <2>1, NoneNoLast
  <2> QED
    BY <1>1, <1>2, <2>2, InAppended
<1>7. Present!LastIs(r, Present!Gets(s), Present!Naming(s, 0)) /\ Present!LastIs(a, Present!Ones(s), Present!OnesNaming(s, 0))
  BY <1>3, <1>4, NoneNoLast
<1> HIDE DEF r
<1> QED
  BY <1>1, <1>3, <1>4, <1>5, <1>6, <1>7 DEF Present!Follows, r, c

(* active-file-change: the youngest read names the file. *)
LEMMA FollowsSwitched ==
    ASSUME NEW s \in Sockets, NEW q \in Seq(Present!About(PodOf[s])), NEW a, NEW f, NEW g \in Present!Looks, NEW h,
           Present!Follows(s, q, a, f, "open", h)
    PROVE  Present!Follows(s, Append(q, Present!Command("hget", s, g)), a, g, "open", h)
<1> DEFINE c == Present!Command("hget", s, g)
           r == Append(q, c)
<1>1. c \in Present!About(PodOf[s]) /\ c.op = "hget" /\ c.socket = s /\ c.file = g /\ g # Present!Absent
  BY CommandsAbout, PresenceAssumption DEF Present!Looks
<1>2. c \notin Present!Sets(s) /\ c \in Present!Gets(s) /\ c \notin Present!Dels(s) /\ c \in Present!Naming(s, g)
  BY <1>1 DEF Present!Sets, Present!Gets, Present!Dels, Present!Naming
<1>3. f # Present!Absent
  BY DEF Present!Follows
<1> HIDE DEF c
<1>4. ~Present!NoneIn(r, Present!Gets(s)) /\ (Present!NoneIn(q, Present!Dels(s)) => Present!NoneIn(r, Present!Dels(s))) /\ (Present!NoneIn(r, Present!Sets(s)) <=> Present!NoneIn(q, Present!Sets(s)))
  BY <1>1, <1>2, InAppended, ZenonT(60)
<1>5. Present!LastIs(r, Present!Gets(s), Present!Naming(s, g))
  BY <1>1, <1>2, InAppended
<1>6. ~Present!NoneIn(q, Present!Sets(s)) /\ Present!FirstIs(q, Present!Sets(s) \cup Present!Gets(s), Present!Sets(s)) => Present!FirstIs(r, Present!Sets(s) \cup Present!Gets(s), Present!Sets(s))
  BY <1>1, InAppended, EmptyUnion
<1> HIDE DEF r
<1> QED
  BY <1>1, <1>3, <1>4, <1>5, <1>6 DEF Present!Follows, r, c

(* leave-workspace, disconnect *)
LEMMA FollowsLeft ==
    ASSUME NEW s \in Sockets, NEW q \in Seq(Present!About(PodOf[s])), NEW a, NEW f, NEW h,
           Present!Follows(s, q, a, f, "open", h)
    PROVE  Present!Follows(s, Append(q, Present!Command("hdel", s, 0)), a, Present!Absent, "left", h)
<1> DEFINE c == Present!Command("hdel", s, 0)
           r == Append(q, c)
<1>1. c \in Present!About(PodOf[s]) /\ c.op = "hdel" /\ c.socket = s
  BY CommandsAbout DEF Present!Looks
<1>2. c \in Present!Sets(s) \cup Present!Dels(s) /\ c \in Present!Dels(s)
  BY <1>1 DEF Present!Sets, Present!Dels
<1> HIDE DEF c
<1>3. ~Present!NoneIn(r, Present!Sets(s) \cup Present!Dels(s)) /\ Present!LastIs(r, Present!Sets(s) \cup Present!Dels(s), Present!Dels(s))
  BY <1>1, <1>2, InAppended
<1> HIDE DEF r
<1> QED
  BY <1>3 DEF Present!Follows, r, c

LEMMA FollowsNeverJoined ==
    ASSUME NEW s, NEW q, NEW a, NEW f, NEW h,
           Present!Follows(s, q, a, f, "connecting", h)
    PROVE  Present!Follows(s, q, a, Present!Absent, "left", h) /\ f = Present!Absent
BY DEF Present!Follows

(* Redis takes a command of the socket. *)
LEMMA FollowsSet ==
    ASSUME NEW s \in Sockets, NEW q \in Seq(Present!About(PodOf[s])), q # <<>>, NEW a, NEW f, NEW at, NEW h,
           Head(q).op = "hset", Head(q).socket = s, Present!Follows(s, q, a, f, at, h)
    PROVE  Present!Follows(s, Tail(q), a, f, at, Head(q).file)
<1> DEFINE c == Head(q)
           r == Tail(q)
<1>1. c \in Present!About(PodOf[s]) /\ c.file \in Present!Looks /\ c.file # Present!Absent
  <2>1. c \in Present!About(PodOf[s]) /\ c # Present!Broadcast
    BY TailLine, CommandsAbout
  <2> QED
    BY <2>1, CommandsAbout, PresenceAssumption DEF Present!Looks
<1>2. c \in Present!Sets(s) /\ c \notin Present!Gets(s) /\ c \notin Present!Dels(s) /\ c \in Present!Sets(s) \cup Present!Dels(s) /\ c \in Present!Sets(s) \cup Present!Gets(s) \cup Present!Dels(s)
  BY <1>1 DEF Present!Sets, Present!Gets, Present!Dels
<1>3. /\ Present!NoneIn(r, Present!Gets(s)) <=> Present!NoneIn(q, Present!Gets(s))
      /\ Present!NoneIn(r, Present!Dels(s)) <=> Present!NoneIn(q, Present!Dels(s))
      /\ ~Present!NoneIn(q, Present!Sets(s) \cup Present!Gets(s) \cup Present!Dels(s))
  BY <1>2, NoneInTail
<1>4. \A S, T : Present!LastIs(q, S, T) => Present!LastIs(r, S, T) /\ (Present!NoneIn(r, S) /\ c \in S => c \in T)
  BY LastInTail
<1>5. c \in Present!Naming(s, f) => c.file = f
  BY DEF Present!Naming
<1> HIDE DEF c, r
<1> QED
  BY <1>1, <1>2, <1>3, <1>4, <1>5 DEF Present!Follows, c, r

LEMMA FollowsDel ==
    ASSUME NEW s \in Sockets, NEW q \in Seq(Present!About(PodOf[s])), q # <<>>, NEW a, NEW f, NEW at, NEW h,
           Head(q).op = "hdel", Head(q).socket = s, Present!Follows(s, q, a, f, at, h)
    PROVE  Present!Follows(s, Tail(q), a, f, at, Present!Absent)
<1> DEFINE c == Head(q)
           r == Tail(q)
<1>1. c \in Present!About(PodOf[s])
  BY TailLine
<1>2. c \in Present!Dels(s) /\ c \in Present!Sets(s) \cup Present!Gets(s) \cup Present!Dels(s)
  BY <1>1 DEF Present!Dels
<1>3. ~Present!NoneIn(q, Present!Dels(s)) /\ ~Present!NoneIn(q, Present!Sets(s) \cup Present!Gets(s) \cup Present!Dels(s))
  BY <1>2, NoneInTail
<1>4. \A S, T : Present!LastIs(q, S, T) => Present!LastIs(r, S, T)
  BY LastInTail
<1> HIDE DEF c, r
<1> QED
  BY <1>2, <1>3, <1>4 DEF Present!Follows, c, r

LEMMA FollowsGot ==
    ASSUME NEW s \in Sockets, NEW q \in Seq(Present!About(PodOf[s])), q # <<>>, NEW a \in Seq(Present!Back(PodOf[s])),
           NEW f, NEW at, NEW h, NEW b \in Present!Back(PodOf[s]), b.op = "one", b.command = Head(q),
           Head(q).op = "hget", Head(q).socket = s, Present!Follows(s, q, a, f, at, h)
    PROVE  /\ h # Present!Absent => Present!Follows(s, Tail(q), Append(a, b), f, at, h)
           /\ h = Present!Absent => Present!Follows(s, Tail(q), a, f, at, h)
<1> DEFINE c == Head(q)
           r == Tail(q)
           t == Append(a, b)
<1>1. c \in Present!About(PodOf[s])
  BY TailLine
<1>2. /\ c \in Present!Gets(s) /\ c \notin Present!Dels(s) /\ c \notin Present!Sets(s) /\ c \notin Present!Sets(s) \cup Present!Dels(s)
      /\ c \in Present!Sets(s) \cup Present!Gets(s) /\ c \in Present!Sets(s) \cup Present!Gets(s) \cup Present!Dels(s)
  BY <1>1 DEF Present!Dels, Present!Gets, Present!Sets
<1>3. /\ ~Present!NoneIn(q, Present!Sets(s) \cup Present!Gets(s) \cup Present!Dels(s))
      /\ Present!NoneIn(r, Present!Sets(s)) <=> Present!NoneIn(q, Present!Sets(s))
      /\ Present!NoneIn(r, Present!Dels(s)) <=> Present!NoneIn(q, Present!Dels(s))
      /\ Present!NoneIn(r, Present!Sets(s) \cup Present!Dels(s)) <=> Present!NoneIn(q, Present!Sets(s) \cup Present!Dels(s))
  BY <1>2, NoneInTail
<1>4. \A S, T : Present!LastIs(q, S, T) => Present!LastIs(r, S, T) /\ (Present!NoneIn(r, S) /\ c \in S => c \in T)
  BY LastInTail
<1>5. ~Present!FirstIs(q, Present!Sets(s) \cup Present!Gets(s), Present!Sets(s))
  BY <1>2, FirstInTail
<1>6. b \in Present!Ones(s) /\ (c \in Present!Naming(s, f) => b \in Present!OnesNaming(s, f))
  BY DEF Present!Ones, Present!Naming, Present!OnesNaming
<1>7. ~Present!NoneIn(t, Present!Ones(s)) /\ (c \in Present!Naming(s, f) => Present!LastIs(t, Present!Ones(s), Present!OnesNaming(s, f)))
  BY <1>6, InAppended
<1> HIDE DEF c, r, t
<1> QED
  BY <1>2, <1>3, <1>4, <1>5, <1>7 DEF Present!Follows, c, r, t

(* The answer is written back for somebody who is still there. *)
LEMMA FollowsWritten ==
    ASSUME NEW s \in Sockets, NEW q \in Seq(Present!About(PodOf[s])), NEW a \in Seq(Present!Back(PodOf[s])), a # <<>>,
           NEW f, NEW at, NEW h, Head(a).op = "one", Head(a).command.socket = s, f # Present!Absent,
           NEW c \in Present!About(PodOf[s]), c.op = "hset", c.socket = s, c.file = Head(a).command.file,
           Present!Follows(s, q, a, f, at, h)
    PROVE  Present!Follows(s, Append(q, c), Tail(a), f, at, h)
<1> DEFINE r == Append(q, c)
           t == Tail(a)
           b == Head(a)
<1>1. b \in Present!Back(PodOf[s])
  BY TailLine
<1>2. c \in Present!Sets(s) /\ c \notin Present!Gets(s) /\ c \notin Present!Dels(s)
  BY DEF Present!Sets, Present!Gets, Present!Dels
<1>3. b \in Present!Ones(s) /\ (b \in Present!OnesNaming(s, f) => c \in Present!Naming(s, f))
  BY <1>1 DEF Present!Ones, Present!OnesNaming, Present!Naming
<1>4. /\ Present!NoneIn(r, Present!Gets(s)) <=> Present!NoneIn(q, Present!Gets(s))
      /\ Present!NoneIn(q, Present!Dels(s)) => Present!NoneIn(r, Present!Dels(s))
      /\ ~Present!NoneIn(r, Present!Sets(s))
      /\ c \in Present!Naming(s, f) => Present!LastIs(r, Present!Sets(s), Present!Naming(s, f))
      /\ Present!LastIs(q, Present!Gets(s), Present!Naming(s, f)) => Present!LastIs(r, Present!Gets(s), Present!Naming(s, f))
      /\ Present!FirstIs(q, Present!Sets(s) \cup Present!Gets(s), Present!Sets(s)) => Present!FirstIs(r, Present!Sets(s) \cup Present!Gets(s), Present!Sets(s))
  BY <1>2, InAppended
<1>5. Present!LastIs(a, Present!Ones(s), Present!OnesNaming(s, f)) =>
        Present!LastIs(t, Present!Ones(s), Present!OnesNaming(s, f)) /\ (Present!NoneIn(t, Present!Ones(s)) => b \in Present!OnesNaming(s, f))
  BY <1>3, LastInTail
<1>6. ~Present!NoneIn(a, Present!Ones(s))
  BY <1>3, NoneInTail
<1> HIDE DEF r, t, b
<1> QED
  BY <1>3, <1>4, <1>5, <1>6 DEF Present!Follows, r, t

(* Types. *)
LEMMA LooksKnown ==
    /\ \A f \in Present!Looks : f \in Present!Looks \cup {Present!Absent}
    /\ Present!Absent \in Present!Looks \cup {Present!Absent} /\ 0 \in Present!Looks /\ Present!Nobody \in Present!Entries
    /\ \A p, c : c \in Present!About(p) /\ c.op \in {"hset", "hdel", "hget"} => c.file \in Present!Looks /\ c.socket \in Sockets
BY CommandsAbout DEF Present!Looks, Present!Nobody, Present!Entries

LEMMA PresenceTypes ==
    ASSUME Present!TypeOK, Present!LinesTyped, [Present!Next]_(Present!presenceVars)
    PROVE  Present!TypeOK'
<1> USE PresenceAssumption DEF Present!TypeOK
<1>1. ASSUME NEW s \in Sockets, NEW f \in Present!Looks, Present!OpenPage(s, f) PROVE Present!TypeOK'
  <2>1. (f # 0) \in BOOLEAN
    OBVIOUS
  <2> QED
    BY <1>1, <2>1 DEF Present!OpenPage
<1>2. ASSUME NEW s \in Sockets, Present!Connect(s) PROVE Present!TypeOK'
  BY <1>2, LooksKnown DEF Present!Connect, Present!Entries
<1>3. ASSUME NEW s \in Sockets, NEW f \in FileIds, Present!SwitchFile(s, f) PROVE Present!TypeOK'
  <2>1. f \in Present!Looks /\ switches' \in 0..MaxSwitches
    BY <1>3 DEF Present!SwitchFile, Present!Looks
  <2>2. lookingAt' \in [Sockets -> Present!Looks]
    BY <1>3, <2>1 DEF Present!SwitchFile
  <2>3. unsent' \in [Sockets -> BOOLEAN] /\ members' \in Present!Entries
    BY <1>3, <2>1, LooksKnown DEF Present!SwitchFile, Present!Entries
  <2> QED
    BY <1>3, <2>1, <2>2, <2>3 DEF Present!SwitchFile
<1>4. ASSUME NEW s \in Sockets, Present!Leave(s) PROVE Present!TypeOK'
  BY <1>4, LooksKnown DEF Present!Leave, Present!Entries
<1>5. ASSUME NEW p \in Pods, Present!Execute(p) PROVE Present!TypeOK'
  <2>1. Head(commands[p]) \in Present!About(p)
    BY <1>5, TailLine DEF Present!Execute, Present!LinesTyped
  <2>2. hash' \in Present!Entries
    BY <1>5, <2>1, LooksKnown DEF Present!Execute, Present!Entries
  <2> QED
    BY <1>5, <2>2 DEF Present!Execute
<1>6. ASSUME NEW p \in Pods, Present!CommandFails(p) PROVE Present!TypeOK'
  <2>1. failed' \in 0..MaxFaults
    BY <1>6 DEF Present!CommandFails
  <2> QED
    BY <1>6, <2>1 DEF Present!CommandFails
<1>7. ASSUME NEW p \in Pods, Present!BroadcastAnswered(p) PROVE Present!TypeOK'
  <2>1. Head(answers[p]).hash \in Present!Entries
    <3>1. Head(answers[p]) \in Present!Back(p)
      BY <1>7, TailLine DEF Present!BroadcastAnswered, Present!LinesTyped
    <3> QED
      BY <3>1 DEF Present!Back
  <2>2. \A s \in Sockets : view'[s] \in Present!Entries
    BY <1>7, <2>1 DEF Present!BroadcastAnswered, Present!Shown, Present!Mine, Present!Entries
  <2> QED
    BY <1>7, <2>2 DEF Present!BroadcastAnswered
<1>8. ASSUME NEW p \in Pods, Present!EntryAnswered(p) PROVE Present!TypeOK'
  <2>1. crossed' \in BOOLEAN
    BY <1>8 DEF Present!EntryAnswered
  <2> QED
    BY <1>8, <2>1 DEF Present!EntryAnswered
<1>9. ASSUME NEW p \in Pods, Present!Crash(p) PROVE Present!TypeOK'
  <2>1. failed' \in 0..MaxFaults
    BY <1>9 DEF Present!Crash
  <2>2. page' \in [Sockets -> {"closed", "connecting", "open", "left"}]
    BY <1>9 DEF Present!Crash
  <2>3. unsent' \in [Sockets -> BOOLEAN]
    BY <1>9 DEF Present!Crash
  <2>4. members' \in Present!Entries
    BY <1>9, LooksKnown DEF Present!Crash, Present!Entries
  <2> QED
    BY <1>9, <2>1, <2>2, <2>3, <2>4 DEF Present!Crash
<1>10. CASE Present!Expire
  <2>1. failed' \in 0..MaxFaults
    BY <1>10 DEF Present!Expire
  <2> QED
    BY <1>10, <2>1, LooksKnown DEF Present!Expire
<1>11. CASE UNCHANGED Present!presenceVars
  BY <1>11 DEF Present!presenceVars
<1> QED
  BY <1>1, <1>2, <1>3, <1>4, <1>5, <1>6, <1>7, <1>8, <1>9, <1>10, <1>11 DEF Present!Next

(* What is on its way between a pod and Redis. *)
LEMMA Concat ==
    ASSUME NEW C, NEW q \in Seq(C), NEW c \in C, NEW d \in C
    PROVE  /\ q \o <<c>> = Append(q, c) /\ q \o <<c, d>> = Append(Append(q, c), d)
           /\ Append(Append(q, c), d) \in Seq(C) /\ q \o <<d>> \in Seq(C)
           /\ q \o <<c>> \in Seq(C)
OBVIOUS

LEMMA LinesKept ==
    ASSUME Present!TypeOK, Present!LinesTyped, [Present!Next]_(Present!presenceVars)
    PROVE  Present!LinesTyped'
<1> USE PresenceAssumption DEF Present!LinesTyped
<1>1. ASSUME NEW s \in Sockets, NEW f \in Present!Looks, Present!OpenPage(s, f) PROVE Present!LinesTyped'
  BY <1>1 DEF Present!OpenPage
<1>2. ASSUME NEW s \in Sockets, Present!Connect(s) PROVE Present!LinesTyped'
  <2>1. commands[PodOf[s]] \o <<Present!Command("hset", s, 0), Present!Broadcast>> \in Seq(Present!About(PodOf[s]))
    BY CommandsAbout, Concat, LooksKnown
  <2> QED
    BY <1>2, <2>1 DEF Present!Connect, Present!Send
<1>3. ASSUME NEW s \in Sockets, NEW f \in FileIds, Present!SwitchFile(s, f) PROVE Present!LinesTyped'
  <2>1. commands[PodOf[s]] \o <<Present!Command("hget", s, f), Present!Broadcast>> \in Seq(Present!About(PodOf[s]))
    <3>1. f \in Present!Looks
      BY DEF Present!Looks
    <3> QED
      BY <3>1, CommandsAbout, Concat
  <2> QED
    BY <1>3, <2>1 DEF Present!SwitchFile, Present!Send
<1>4. ASSUME NEW s \in Sockets, Present!Leave(s) PROVE Present!LinesTyped'
  <2>1. commands[PodOf[s]] \o <<Present!Command("hdel", s, 0), Present!Broadcast>> \in Seq(Present!About(PodOf[s]))
    BY CommandsAbout, Concat, LooksKnown
  <2> QED
    BY <1>4, <2>1 DEF Present!Leave, Present!Send, Present!Forgotten
<1>5. ASSUME NEW p \in Pods, NEW c \in Present!Back(p), NEW d \in Present!Back(p), commands[p] # <<>>,
             commands' = [commands EXCEPT ![p] = Tail(@)],
             \/ answers' = [answers EXCEPT ![p] = Append(@, c)]
             \/ answers' = [answers EXCEPT ![p] = Append(@, d)]
             \/ answers' = answers
      PROVE  Present!LinesTyped'
  <2>1. Tail(commands[p]) \in Seq(Present!About(p)) /\ Append(answers[p], c) \in Seq(Present!Back(p)) /\ Append(answers[p], d) \in Seq(Present!Back(p))
    BY <1>5, TailLine, AppendLine
  <2> QED
    BY <1>5, <2>1
<1>6. ASSUME NEW p \in Pods, Present!Execute(p) \/ Present!CommandFails(p) PROVE Present!LinesTyped'
  <2> DEFINE c == Head(commands[p])
             all == [op |-> "all", command |-> c, hash |-> hash]
             none == [op |-> "all", command |-> c, hash |-> Present!Nobody]
             one == [op |-> "one", command |-> c, hash |-> Present!Nobody]
  <2>1. c \in Present!About(p) /\ commands[p] # <<>>
    BY <1>6, TailLine DEF Present!Execute, Present!CommandFails
  <2>2. all \in Present!Back(p) /\ none \in Present!Back(p) /\ (c.op = "hget" => one \in Present!Back(p))
    BY <2>1, LooksKnown DEF Present!Back, Present!TypeOK
  <2>3. /\ commands' = [commands EXCEPT ![p] = Tail(@)]
        /\ \/ answers' = [answers EXCEPT ![p] = Append(@, all)]
           \/ answers' = [answers EXCEPT ![p] = Append(@, none)]
           \/ c.op = "hget" /\ answers' = [answers EXCEPT ![p] = Append(@, one)]
           \/ answers' = answers
    BY <1>6 DEF Present!Execute, Present!CommandFails
  <2> HIDE DEF all, none, one
  <2> QED
    BY <1>5, <2>1, <2>2, <2>3
<1>7. ASSUME NEW p \in Pods, Present!BroadcastAnswered(p) PROVE Present!LinesTyped'
  <2>1. Tail(answers[p]) \in Seq(Present!Back(p))
    BY <1>7, TailLine DEF Present!BroadcastAnswered
  <2> QED
    BY <1>7, <2>1 DEF Present!BroadcastAnswered
<1>8. ASSUME NEW p \in Pods, Present!EntryAnswered(p) PROVE Present!LinesTyped'
  <2> DEFINE b == Head(answers[p])
             c == Present!Command("hset", b.command.socket, b.command.file)
  <2>1. Tail(answers[p]) \in Seq(Present!Back(p)) /\ b \in Present!Back(p)
    BY <1>8, TailLine DEF Present!EntryAnswered
  <2>2. b.command # Present!Broadcast
    BY <1>8, <2>1, CommandsAbout, SMTT(30) DEF Present!EntryAnswered, Present!Back
  <2>3. Present!LinesTyped'
    <3>1. b.command.socket \in Sockets /\ PodOf[b.command.socket] = p /\ b.command.file \in Present!Looks
      BY <2>1, <2>2 DEF Present!Back, Present!About
    <3>2. c \in Present!About(p)
      BY <3>1, CommandsAbout
    <3>3. commands[p] \o <<c>> \in Seq(Present!About(p))
      BY <3>2, Concat
    <3> QED
      BY <1>8, <2>1, <3>3 DEF Present!EntryAnswered, Present!Send
  <2> QED
    BY <2>3
<1>9. ASSUME NEW p \in Pods, Present!Crash(p) PROVE Present!LinesTyped'
  <2>1. <<>> \in Seq(Present!About(p)) /\ <<>> \in Seq(Present!Back(p))
    OBVIOUS
  <2> QED
    BY <1>9, <2>1 DEF Present!Crash
<1>10. CASE Present!Expire
  BY <1>10 DEF Present!Expire
<1>11. CASE UNCHANGED Present!presenceVars
  BY <1>11 DEF Present!presenceVars
<1> QED
  BY <1>1, <1>2, <1>3, <1>4, <1>6, <1>7, <1>8, <1>9, <1>10, <1>11 DEF Present!Next

(* The pages of a pod catch up: an answer for them stays to come until it  *)
(* is handled, and whatever changes a member asks for another.             *)
LEMMA ComingSent ==
    ASSUME Present!LinesTyped, NEW p \in Pods, NEW q \in Pods, NEW c \in Present!About(p),
           commands' = [commands EXCEPT ![p] = @ \o <<c, Present!Broadcast>>], UNCHANGED answers
    PROVE  Present!Coming(p)' /\ (Present!Coming(q) => Present!Coming(q)')
<1> DEFINE l == commands[p]
           m == Append(Append(l, c), Present!Broadcast)
<1>1. l \in Seq(Present!About(p)) /\ l \o <<c, Present!Broadcast>> = m
  BY CommandsAbout, Concat DEF Present!LinesTyped
<1>2. commands'[p] = m /\ (q # p => commands'[q] = commands[q]) /\ answers'[q] = answers[q]
  BY <1>1 DEF Present!LinesTyped
<1>3. /\ Len(m) = Len(l) + 2 /\ Len(l) \in Nat /\ m[Len(l) + 2] = Present!Broadcast
      /\ \A k \in 1..Len(l) : m[k] = l[k]
  BY <1>1, CommandsAbout, AppendLine
<1>4. Len(l) + 2 \in 1..Len(m) /\ \A k \in 1..Len(l) : k \in 1..Len(m)
  BY <1>3
<1> HIDE DEF m
<1>5. Present!Coming(p)'
  BY <1>2, <1>3, <1>4, CommandsAbout DEF Present!Coming
<1>6. ASSUME Present!Coming(q), q # p PROVE Present!Coming(q)'
  BY <1>2, <1>6 DEF Present!Coming
<1> QED
  BY <1>5, <1>6

LEMMA PagesStep ==
    ASSUME Present!TypeOK, Present!LinesTyped, Present!PagesCatchUp, [Present!Next]_(Present!presenceVars)
    PROVE  Present!PagesCatchUp'
<1> USE PresenceAssumption DEF Present!TypeOK
<1>0. ASSUME NEW s \in Sockets, NEW c \in Present!About(PodOf[s]), NEW f,
             commands' = [commands EXCEPT ![PodOf[s]] = @ \o <<c, Present!Broadcast>>],
             members' = [members EXCEPT ![s] = f], UNCHANGED <<answers, view>>
      PROVE  Present!PagesCatchUp'
  <2> SUFFICES ASSUME NEW q \in Pods PROVE Present!Coming(q)' \/ \A t, u \in Present!Members(q)' : view'[t][u] = members'[u]
    BY DEF Present!PagesCatchUp
  <2>1. CASE q = PodOf[s]
    BY <1>0, <2>1, ComingSent
  <2>2. CASE q # PodOf[s]
    <3>1. Present!Coming(q) => Present!Coming(q)'
      BY <1>0, ComingSent
    <3>2. Present!Members(q)' = Present!Members(q) /\ \A u \in Present!Members(q) : members'[u] = members[u]
      BY <1>0, <2>2 DEF Present!Members, Present!Entries
    <3> QED
      BY <1>0, <3>1, <3>2 DEF Present!PagesCatchUp
  <2> QED
    BY <2>1, <2>2
<1>1. ASSUME NEW s \in Sockets, NEW f \in Present!Looks, Present!OpenPage(s, f) PROVE Present!PagesCatchUp'
  BY <1>1 DEF Present!OpenPage, Present!PagesCatchUp, Present!Members, Present!Coming
<1>2. ASSUME NEW s \in Sockets, Present!Connect(s) PROVE Present!PagesCatchUp'
  BY <1>0, <1>2, CommandsAbout, LooksKnown DEF Present!Connect, Present!Send
<1>3. ASSUME NEW s \in Sockets, NEW f \in FileIds, Present!SwitchFile(s, f) PROVE Present!PagesCatchUp'
  <2>1. Present!Command("hget", s, f) \in Present!About(PodOf[s])
    BY CommandsAbout DEF Present!Looks
  <2>2. CASE page[s] = "open"
    BY <1>0, <1>3, <2>1, <2>2 DEF Present!SwitchFile, Present!Send
  <2>3. CASE page[s] # "open"
    BY <1>3, <2>3 DEF Present!SwitchFile, Present!PagesCatchUp, Present!Members, Present!Coming
  <2> QED
    BY <2>2, <2>3
<1>4. ASSUME NEW s \in Sockets, Present!Leave(s) PROVE Present!PagesCatchUp'
  <2>1. Present!Command("hdel", s, 0) \in Present!About(PodOf[s])
    BY CommandsAbout, LooksKnown
  <2>2. CASE page[s] = "open"
    BY <1>0, <1>4, <2>1, <2>2 DEF Present!Leave, Present!Send, Present!Forgotten
  <2>3. CASE page[s] # "open"
    BY <1>4, <2>3 DEF Present!Leave, Present!PagesCatchUp, Present!Members, Present!Coming, Present!Entries
  <2> QED
    BY <2>2, <2>3
<1>5. ASSUME NEW p \in Pods, Present!Execute(p) \/ Present!CommandFails(p) PROVE Present!PagesCatchUp'
  <2> DEFINE c == Head(commands[p])
             a == answers[p]
  <2>1. UNCHANGED <<members, view>>
    BY <1>5 DEF Present!Execute, Present!CommandFails
  <2>2. ASSUME NEW q \in Pods, q # p, Present!Coming(q) PROVE Present!Coming(q)'
    <3>1. commands'[q] = commands[q] /\ answers'[q] = answers[q]
      BY <1>5, <2>2 DEF Present!Execute, Present!CommandFails, Present!LinesTyped
    <3> QED
      BY <2>2, <3>1 DEF Present!Coming
  <2>3. ASSUME Present!Coming(p) PROVE Present!Coming(p)'
    <3>1. commands[p] \in Seq(Present!About(p)) /\ a \in Seq(Present!Back(p)) /\ commands[p] # <<>> /\ commands'[p] = Tail(commands[p])
      BY <1>5 DEF Present!Execute, Present!CommandFails, Present!LinesTyped
    <3>2. CASE c.op = "hgetall"
      <4>1. PICK b : b.op = "all" /\ answers'[p] = Append(a, b)
        BY <1>5, <3>2 DEF Present!Execute, Present!CommandFails, Present!LinesTyped
      <4>2. Len(a) \in Nat /\ Len(Append(a, b)) = Len(a) + 1 /\ Append(a, b)[Len(a) + 1] = b
        BY <3>1
      <4>3. Len(a) + 1 \in 1..Len(Append(a, b))
        BY <4>2
      <4> QED
        BY <4>1, <4>2, <4>3 DEF Present!Coming
    <3>3. CASE c.op # "hgetall"
      <4>1. ASSUME NEW k \in 1..Len(commands[p]), commands[p][k].op = "hgetall" PROVE Present!Coming(p)'
        <5>1. k # 1
          BY <3>1, <3>3, <4>1, TailLine
        <5>2. k - 1 \in 1..Len(Tail(commands[p])) /\ Tail(commands[p])[k - 1] = commands[p][k]
          BY <3>1, <5>1, TailLine
        <5> QED
          BY <3>1, <4>1, <5>2 DEF Present!Coming
      <4>2. ASSUME NEW k \in 1..Len(a), a[k].op = "all" PROVE Present!Coming(p)'
        <5>1. answers'[p] = a \/ \E b : answers'[p] = Append(a, b)
          BY <1>5, <3>3, ZenonT(60) DEF Present!Execute, Present!CommandFails, Present!LinesTyped
        <5>2. ASSUME NEW b PROVE k \in 1..Len(Append(a, b)) /\ Append(a, b)[k] = a[k]
          BY <3>1
        <5> QED
          BY <4>2, <5>1, <5>2 DEF Present!Coming
      <4> QED
        BY <2>3, <4>1, <4>2 DEF Present!Coming
    <3> QED
      BY <3>2, <3>3
  <2> QED
    BY <2>1, <2>2, <2>3 DEF Present!PagesCatchUp, Present!Members
<1>6. ASSUME NEW p \in Pods, Present!BroadcastAnswered(p) PROVE Present!PagesCatchUp'
  <2> SUFFICES ASSUME NEW q \in Pods PROVE Present!Coming(q)' \/ \A t, u \in Present!Members(q)' : view'[t][u] = members'[u]
    BY DEF Present!PagesCatchUp
  <2>1. Present!Members(q)' = Present!Members(q) /\ members' = members /\ Present!Members(q) \subseteq Sockets
    BY <1>6 DEF Present!BroadcastAnswered, Present!Members
  <2>2. CASE q = p
    <3>1. \A t, u \in Present!Members(p) : view'[t][u] = members[u]
      BY <1>6 DEF Present!BroadcastAnswered, Present!Shown, Present!Mine, Present!Members
    <3> QED
      BY <2>1, <2>2, <3>1
  <2>3. CASE q # p
    <3>1. commands'[q] = commands[q] /\ answers'[q] = answers[q]
      BY <1>6, <2>3 DEF Present!BroadcastAnswered, Present!LinesTyped
    <3>2. \A t \in Present!Members(q) : view'[t] = view[t]
      BY <1>6, <2>3 DEF Present!BroadcastAnswered, Present!Members
    <3> QED
      BY <2>1, <3>1, <3>2 DEF Present!PagesCatchUp, Present!Coming
  <2> QED
    BY <2>2, <2>3
<1>7. ASSUME NEW p \in Pods, Present!EntryAnswered(p) PROVE Present!PagesCatchUp'
  <2> DEFINE a == answers[p]
             b == Head(a)
             l == commands[p]
             c == Present!Command("hset", b.command.socket, b.command.file)
  <2>1. /\ a \in Seq(Present!Back(p)) /\ a # <<>> /\ l \in Seq(Present!About(p)) /\ b.op = "one"
        /\ answers'[p] = Tail(a) /\ commands'[p] = l \o <<c>> /\ UNCHANGED <<members, view>>
    BY <1>7 DEF Present!EntryAnswered, Present!Send, Present!LinesTyped
  <2>2. ASSUME NEW q \in Pods, q # p, Present!Coming(q) PROVE Present!Coming(q)'
    <3>1. commands'[q] = commands[q] /\ answers'[q] = answers[q]
      BY <1>7, <2>2 DEF Present!EntryAnswered, Present!Send, Present!LinesTyped
    <3> QED
      BY <2>2, <3>1 DEF Present!Coming
  <2>3. ASSUME NEW k \in 1..Len(l), l[k].op = "hgetall" PROVE Present!Coming(p)'
    <3>1. k \in 1..Len(l \o <<c>>) /\ (l \o <<c>>)[k] = l[k]
      BY <2>1
    <3> QED
      BY <2>1, <2>3, <3>1 DEF Present!Coming
  <2>4. ASSUME NEW k \in 1..Len(a), a[k].op = "all" PROVE Present!Coming(p)'
    <3>1. k # 1
      BY <2>1, <2>4, TailLine
    <3>2. k - 1 \in 1..Len(Tail(a)) /\ Tail(a)[k - 1] = a[k]
      BY <2>1, <3>1, TailLine
    <3> QED
      BY <2>1, <2>4, <3>2 DEF Present!Coming
  <2>5. Present!Coming(p) => Present!Coming(p)'
    BY <2>3, <2>4 DEF Present!Coming
  <2> QED
    BY <2>1, <2>2, <2>5 DEF Present!PagesCatchUp, Present!Members
<1>8. ASSUME NEW p \in Pods, Present!Crash(p) PROVE Present!PagesCatchUp'
  <2> SUFFICES ASSUME NEW q \in Pods PROVE Present!Coming(q)' \/ \A t, u \in Present!Members(q)' : view'[t][u] = members'[u]
    BY DEF Present!PagesCatchUp
  <2>1. CASE q = p
    <3>1. Present!Members(q)' = {}
      BY <1>8, <2>1 DEF Present!Crash, Present!Members
    <3> QED
      BY <3>1
  <2>2. CASE q # p
    <3>1. commands'[q] = commands[q] /\ answers'[q] = answers[q] /\ view' = view
      BY <1>8, <2>2 DEF Present!Crash, Present!LinesTyped
    <3>2. Present!Members(q)' = Present!Members(q) /\ \A u \in Present!Members(q) : members'[u] = members[u]
      BY <1>8, <2>2 DEF Present!Crash, Present!Members
    <3> QED
      BY <3>1, <3>2 DEF Present!PagesCatchUp, Present!Coming
  <2> QED
    BY <2>1, <2>2
<1>9. CASE Present!Expire
  BY <1>9 DEF Present!Expire, Present!PagesCatchUp, Present!Members, Present!Coming
<1>10. CASE UNCHANGED Present!presenceVars
  BY <1>10 DEF Present!presenceVars, Present!PagesCatchUp, Present!Members, Present!Coming
<1> QED
  BY <1>1, <1>2, <1>3, <1>4, <1>5, <1>6, <1>7, <1>8, <1>9, <1>10 DEF Present!Next

(* Redis catches up. *)
Now(s) == Present!Follows(s, commands[PodOf[s]], answers[PodOf[s]], members[s], page[s], hash[s])

(* A member's own step, with its line to Redis. *)
LEMMA RedisHears ==
    ASSUME Present!TypeOK, Present!LinesTyped, NEW s \in Sockets, NEW c \in Present!About(PodOf[s]), c.socket = s,
           commands' = [commands EXCEPT ![PodOf[s]] = @ \o <<c, Present!Broadcast>>],
           UNCHANGED <<answers, hash>>, \A t \in Sockets \ {s} : members'[t] = members[t] /\ page'[t] = page[t],
           Present!Follows(s, Append(commands[PodOf[s]], c), answers[PodOf[s]], members'[s], page'[s], hash[s]),
           \A t \in Sockets : Now(t)
    PROVE  \A t \in Sockets : Now(t)'
<1> SUFFICES ASSUME NEW t \in Sockets PROVE Now(t)'
  OBVIOUS
<1> DEFINE p == PodOf[t]
           l == commands[p]
<1>1. p \in Pods /\ l \in Seq(Present!About(p)) /\ Present!Broadcast \in Present!About(p) /\ Present!Broadcast.op = "hgetall"
  BY CommandsAbout DEF Present!LinesTyped
<1>2. CASE p # PodOf[s]
  <2>1. commands'[p] = l /\ t # s
    BY <1>1, <1>2 DEF Present!LinesTyped
  <2> QED
    BY <2>1 DEF Now
<1>3. CASE p = PodOf[s]
  <2>1. commands'[p] = Append(Append(l, c), Present!Broadcast) /\ Append(l, c) \in Seq(Present!About(p))
    BY <1>1, <1>3, Concat, AppendLine, SMTT(30) DEF Present!LinesTyped
  <2>2. Present!Follows(t, Append(l, c), answers[p], members'[t], page'[t], hash[t])
    <3>1. CASE t = s
      BY <3>1
    <3>2. CASE t # s
      <4>1. Present!Follows(t, l, answers[p], members[t], page[t], hash[t])
        BY DEF Now
      <4>2. c \in Present!About(p) /\ c.socket # t /\ members'[t] = members[t] /\ page'[t] = page[t]
        BY <1>3, <3>2
      <4> QED
        BY <1>1, <4>1, <4>2, OthersSent
    <3> QED
      BY <3>1, <3>2
  <2>3. Present!Follows(t, Append(Append(l, c), Present!Broadcast), answers[p], members'[t], page'[t], hash[t])
    BY <1>1, <2>1, <2>2, OthersSent
  <2> QED
    BY <2>1, <2>3 DEF Now
<1> QED
  BY <1>2, <1>3

(* Redis takes the next command of a pod. *)
LEMMA RedisTakes ==
    ASSUME Present!TypeOK, Present!LinesTyped, NEW p \in Pods, Present!Execute(p), NEW s \in Sockets, Now(s)
    PROVE  Now(s)'
<1> DEFINE q == commands[p]
           a == answers[p]
           c == Head(q)
           all == [op |-> "all", command |-> c, hash |-> hash]
           one == [op |-> "one", command |-> c, hash |-> Present!Nobody]
<1>1. /\ q \in Seq(Present!About(p)) /\ a \in Seq(Present!Back(p)) /\ q # <<>> /\ c \in Present!About(p)
      /\ commands'[p] = Tail(q) /\ UNCHANGED <<members, page>>
      /\ \A r \in Pods : r # p => commands'[r] = commands[r] /\ answers'[r] = answers[r]
  BY TailLine DEF Present!Execute, Present!LinesTyped
<1>2. PodOf[s] \in Pods
  BY CommandsAbout
<1>3. CASE PodOf[s] # p
  <2>1. c.op \in {"hset", "hdel"} => c.socket # s
    BY <1>1, <1>3, CommandsAbout DEF Present!About
  <2>2. hash'[s] = hash[s]
    BY <2>1 DEF Present!Execute, Present!TypeOK, Present!Entries
  <2> QED
    BY <1>1, <1>2, <1>3, <2>2 DEF Now
<1>4. CASE PodOf[s] = p /\ (c.op = "hgetall" \/ c.socket # s)
  <2>1. hash'[s] = hash[s]
    BY <1>1, <1>4 DEF Present!Execute, Present!TypeOK, Present!Entries
  <2>2. Present!Follows(s, Tail(q), a, members[s], page[s], hash[s])
    BY <1>1, <1>4, OthersExecuted DEF Now
  <2>3. answers'[p] = a \/ (answers'[p] = Append(a, all) /\ all \in Present!Back(p))
          \/ (answers'[p] = Append(a, one) /\ one \in Present!Back(p) /\ c.socket # s)
    <3>1. all \in Present!Back(p) /\ (c.op = "hget" => one \in Present!Back(p))
      BY <1>1, LooksKnown DEF Present!Back, Present!TypeOK
    <3> QED
      BY <1>1, <1>4, <3>1 DEF Present!Execute, Present!LinesTyped
  <2>4. all.op = "all" /\ one.command = c
    OBVIOUS
  <2> HIDE DEF all, one
  <2>5. Present!Follows(s, Tail(q), answers'[p], members[s], page[s], hash[s])
    <3>1. CASE answers'[p] = a
      BY <2>2, <3>1
    <3>2. CASE answers'[p] = Append(a, all) /\ all \in Present!Back(p)
      BY <1>1, <1>4, <2>2, <2>4, <3>2, OthersAnswered
    <3>3. CASE answers'[p] = Append(a, one) /\ one \in Present!Back(p) /\ c.socket # s
      <4>1. one.command.socket # s
        BY <2>4, <3>3
      <4> QED
        BY <1>1, <1>4, <2>2, <3>3, <4>1, OthersAnswered
    <3> QED
      BY <2>3, <3>1, <3>2, <3>3
  <2> QED
    BY <1>1, <1>4, <2>1, <2>5 DEF Now
<1>5. CASE PodOf[s] = p /\ c.op # "hgetall" /\ c.socket = s
  <2>0. c.op \in {"hset", "hget", "hdel"} /\ c.file \in Present!Looks
    BY <1>1, <1>5, CommandsAbout
  <2>1. CASE c.op = "hset"
    <3>1. hash'[s] = c.file /\ answers' = answers
      BY <1>5, <2>1 DEF Present!Execute, Present!TypeOK, Present!Entries
    <3>2. Present!Follows(s, Tail(q), a, members[s], page[s], c.file)
      BY <1>1, <1>5, <2>1, FollowsSet DEF Now
    <3> QED
      BY <1>1, <1>5, <3>1, <3>2 DEF Now
  <2>2. CASE c.op = "hdel"
    <3>1. hash'[s] = Present!Absent /\ answers' = answers
      BY <1>5, <2>2 DEF Present!Execute, Present!TypeOK, Present!Entries
    <3>2. Present!Follows(s, Tail(q), a, members[s], page[s], Present!Absent)
      BY <1>1, <1>5, <2>2, FollowsDel DEF Now
    <3> QED
      BY <1>1, <1>5, <3>1, <3>2 DEF Now
  <2>3. CASE c.op = "hget"
    <3>1. /\ hash' = hash
          /\ hash[s] # Present!Absent => answers'[p] = Append(a, one)
          /\ hash[s] = Present!Absent => answers'[p] = a
      BY <1>1, <1>5, <2>3 DEF Present!Execute, Present!LinesTyped
    <3>2. one \in Present!Back(p) /\ one.op = "one" /\ one.command = c
      BY <1>1, <2>3, LooksKnown DEF Present!Back
    <3> HIDE DEF one
    <3>3. Present!Follows(s, Tail(q), answers'[p], members[s], page[s], hash[s])
      <4>1. Present!Follows(s, q, a, members[s], page[s], hash[s])
        BY <1>5 DEF Now
      <4>2. /\ hash[s] # Present!Absent => Present!Follows(s, Tail(q), Append(a, one), members[s], page[s], hash[s])
            /\ hash[s] = Present!Absent => Present!Follows(s, Tail(q), a, members[s], page[s], hash[s])
        BY <1>1, <1>5, <2>3, <3>2, <4>1, FollowsGot
      <4> QED
        BY <3>1, <4>2
    <3> QED
      BY <1>1, <1>5, <3>1, <3>3 DEF Now
  <2> QED
    BY <2>0, <2>1, <2>2, <2>3
<1> QED
  BY <1>3, <1>4, <1>5

LEMMA RedisStep ==
    ASSUME Present!TypeOK, Present!LinesTyped, Present!RedisCatchesUp, [Present!Next]_(Present!presenceVars)
    PROVE  Present!RedisCatchesUp'
<1> SUFFICES ASSUME failed' = 0, ~crossed', NEW u \in Sockets PROVE Now(u)'
  BY DEF Present!RedisCatchesUp, Now
<1> USE PresenceAssumption DEF Present!TypeOK
<1>0. \A p \in Pods : ~Present!CommandFails(p) /\ ~Present!Crash(p)
  BY DEF Present!CommandFails, Present!Crash
<1>1. ~Present!Expire
  BY SMTT(30) DEF Present!Expire
<1>2. failed = 0 /\ ~crossed
  BY <1>0, <1>1 DEF Present!Next, Present!OpenPage, Present!Connect, Present!SwitchFile, Present!Leave, Present!Execute, Present!BroadcastAnswered, Present!EntryAnswered, Present!presenceVars
<1>3. \A s \in Sockets : Now(s)
  BY <1>2 DEF Present!RedisCatchesUp, Now
<1>4. ASSUME NEW s \in Sockets, NEW f \in Present!Looks, Present!OpenPage(s, f) PROVE Now(u)'
  BY <1>3, <1>4 DEF Present!OpenPage, Now, Present!Follows
<1>5. ASSUME NEW s \in Sockets, Present!Connect(s) PROVE Now(u)'
  <2> DEFINE c == Present!Command("hset", s, 0)
  <2>1. c \in Present!About(PodOf[s]) /\ c.socket = s
    BY CommandsAbout, LooksKnown
  <2>2. Present!Follows(s, Append(commands[PodOf[s]], c), answers[PodOf[s]], members'[s], page'[s], hash[s])
    <3>1. commands[PodOf[s]] \in Seq(Present!About(PodOf[s]))
      BY CommandsAbout DEF Present!LinesTyped
    <3>2. Present!Follows(s, commands[PodOf[s]], answers[PodOf[s]], members[s], "connecting", hash[s])
      BY <1>3, <1>5 DEF Present!Connect, Now
    <3>3. members'[s] = 0 /\ page'[s] = "open"
      BY <1>5 DEF Present!Connect, Present!Entries
    <3> QED
      BY <3>1, <3>2, <3>3, FollowsConnected
  <2>3. /\ commands' = [commands EXCEPT ![PodOf[s]] = @ \o <<c, Present!Broadcast>>]
        /\ UNCHANGED <<answers, hash>> /\ \A t \in Sockets \ {s} : members'[t] = members[t] /\ page'[t] = page[t]
    BY <1>5 DEF Present!Connect, Present!Send, Present!Entries
  <2> HIDE DEF c
  <2> QED
    BY <1>3, <2>1, <2>2, <2>3, RedisHears
<1>6. ASSUME NEW s \in Sockets, NEW f \in FileIds, Present!SwitchFile(s, f) PROVE Now(u)'
  <2> DEFINE c == Present!Command("hget", s, f)
  <2>0. f \in Present!Looks
    BY DEF Present!Looks
  <2>1. CASE page[s] = "open"
    <3>1. c \in Present!About(PodOf[s]) /\ c.socket = s
      BY <2>0, CommandsAbout
    <3>2. /\ commands' = [commands EXCEPT ![PodOf[s]] = @ \o <<c, Present!Broadcast>>]
          /\ UNCHANGED <<answers, hash, page>> /\ members' = [members EXCEPT ![s] = f]
      BY <1>6, <2>1 DEF Present!SwitchFile, Present!Send
    <3>3. Present!Follows(s, Append(commands[PodOf[s]], c), answers[PodOf[s]], members'[s], page'[s], hash[s])
      <4>1. commands[PodOf[s]] \in Seq(Present!About(PodOf[s]))
        BY CommandsAbout DEF Present!LinesTyped
      <4>2. Present!Follows(s, commands[PodOf[s]], answers[PodOf[s]], members[s], "open", hash[s])
        BY <1>3, <2>1 DEF Now
      <4>3. members'[s] = f /\ page'[s] = "open"
        BY <2>1, <3>2 DEF Present!Entries
      <4> QED
        BY <2>0, <4>1, <4>2, <4>3, FollowsSwitched
    <3>4. \A t \in Sockets \ {s} : members'[t] = members[t] /\ page'[t] = page[t]
      BY <3>2 DEF Present!Entries
    <3> HIDE DEF c
    <3> QED
      BY <1>3, <3>1, <3>2, <3>3, <3>4, RedisHears
  <2>2. CASE page[s] # "open"
    BY <1>3, <1>6, <2>2 DEF Present!SwitchFile, Now
  <2> QED
    BY <2>1, <2>2
<1>7. ASSUME NEW s \in Sockets, Present!Leave(s) PROVE Now(u)'
  <2> DEFINE c == Present!Command("hdel", s, 0)
  <2>0. /\ UNCHANGED <<answers, hash>> /\ members'[s] = Present!Absent /\ page'[s] = "left"
        /\ \A t \in Sockets \ {s} : members'[t] = members[t] /\ page'[t] = page[t]
    BY <1>7 DEF Present!Leave, Present!Entries
  <2>1. CASE page[s] = "open"
    <3>1. c \in Present!About(PodOf[s]) /\ c.socket = s
      BY CommandsAbout, LooksKnown
    <3>2. commands' = [commands EXCEPT ![PodOf[s]] = @ \o <<c, Present!Broadcast>>]
      BY <1>7, <2>1 DEF Present!Leave, Present!Send, Present!Forgotten
    <3>3. Present!Follows(s, Append(commands[PodOf[s]], c), answers[PodOf[s]], members'[s], page'[s], hash[s])
      <4>1. commands[PodOf[s]] \in Seq(Present!About(PodOf[s]))
        BY CommandsAbout DEF Present!LinesTyped
      <4>2. Present!Follows(s, commands[PodOf[s]], answers[PodOf[s]], members[s], "open", hash[s])
        BY <1>3, <2>1 DEF Now
      <4> QED
        BY <2>0, <4>1, <4>2, FollowsLeft
    <3> HIDE DEF c
    <3> QED
      BY <1>3, <2>0, <3>1, <3>2, <3>3, RedisHears
  <2>2. CASE page[s] = "connecting"
    <3>1. commands' = commands
      BY <1>7, <2>2 DEF Present!Leave
    <3>2. Now(s)'
      BY <1>3, <2>0, <2>2, <3>1, FollowsNeverJoined DEF Now
    <3> QED
      BY <1>3, <2>0, <3>1, <3>2 DEF Now
  <2> QED
    BY <1>7, <2>1, <2>2 DEF Present!Leave
<1>8. ASSUME NEW p \in Pods, Present!Execute(p) PROVE Now(u)'
  BY <1>3, <1>8, RedisTakes
<1>9. ASSUME NEW p \in Pods, Present!BroadcastAnswered(p) PROVE Now(u)'
  <2> DEFINE a == answers[PodOf[u]]
  <2>1. UNCHANGED <<commands, members, page, hash>>
    BY <1>9 DEF Present!BroadcastAnswered
  <2>2. a \in Seq(Present!Back(PodOf[u]))
    BY CommandsAbout DEF Present!LinesTyped
  <2>3. CASE PodOf[u] # p
    BY <1>3, <1>9, <2>1, <2>3, CommandsAbout DEF Present!BroadcastAnswered, Present!LinesTyped, Now
  <2>4. CASE PodOf[u] = p
    <3>1. a # <<>> /\ Head(a).op = "all" /\ answers'[p] = Tail(a)
      BY <1>9, <2>4 DEF Present!BroadcastAnswered, Present!LinesTyped
    <3>2. Present!Follows(u, commands[p], Tail(a), members[u], page[u], hash[u])
      BY <1>3, <2>2, <2>4, <3>1, OthersRead DEF Now
    <3> QED
      BY <2>1, <2>4, <3>1, <3>2 DEF Now
  <2> QED
    BY <2>3, <2>4
<1>10. ASSUME NEW p \in Pods, Present!EntryAnswered(p) PROVE Now(u)'
  <2> DEFINE a == answers[p]
             b == Head(a)
             s == b.command.socket
             c == Present!Command("hset", s, b.command.file)
             q == commands[p]
  <2>1. /\ a \in Seq(Present!Back(p)) /\ a # <<>> /\ b \in Present!Back(p) /\ b.op = "one" /\ q \in Seq(Present!About(p))
        /\ UNCHANGED <<members, page, hash>>
        /\ commands' = [commands EXCEPT ![p] = @ \o <<c>>] /\ answers' = [answers EXCEPT ![p] = Tail(a)]
    BY <1>10, TailLine DEF Present!EntryAnswered, Present!Send, Present!LinesTyped
  <2>2. b.command \in Present!About(p) /\ b.command.op = "hget"
    BY <2>1 DEF Present!Back
  <2>3. s \in Sockets /\ PodOf[s] = p /\ b.command.file \in Present!Looks
    BY <2>2, CommandsAbout DEF Present!About
  <2>4. c \in Present!About(p) /\ c.op = "hset" /\ c.socket = s /\ c.file = b.command.file
    BY <2>3, CommandsAbout
  <2>5. members[s] # Present!Absent
    BY <1>10 DEF Present!EntryAnswered
  <2>6. commands'[p] = Append(q, c) /\ answers'[p] = Tail(a)
    <3>1. q \o <<c>> = Append(q, c)
      BY <2>1, <2>4, Concat
    <3>2. commands'[p] = q \o <<c>> /\ answers'[p] = Tail(a)
      BY <2>1, <2>3 DEF Present!LinesTyped
    <3> QED
      BY <3>1, <3>2, SMTT(30)
  <2> HIDE DEF c
  <2>7. CASE PodOf[u] # p
    BY <1>3, <2>1, <2>7, CommandsAbout DEF Present!LinesTyped, Now
  <2>8. CASE u = s
    <3>1. Present!Follows(s, Append(q, c), Tail(a), members[s], page[s], hash[s])
      BY <1>3, <2>1, <2>3, <2>4, <2>5, FollowsWritten DEF Now
    <3> QED
      BY <2>1, <2>3, <2>6, <2>8, <3>1 DEF Now
  <2>9. CASE PodOf[u] = p /\ u # s
    <3>1. Present!Follows(u, q, Tail(a), members[u], page[u], hash[u])
      BY <1>3, <2>1, <2>9, OthersRead DEF Now
    <3>2. Present!Follows(u, Append(q, c), Tail(a), members[u], page[u], hash[u])
      BY <2>1, <2>4, <2>9, <3>1, OthersSent
    <3> QED
      BY <2>1, <2>6, <2>9, <3>2 DEF Now
  <2> QED
    BY <2>7, <2>8, <2>9
<1>11. CASE UNCHANGED Present!presenceVars
  BY <1>3, <1>11 DEF Present!presenceVars, Now
<1> QED
  BY <1>0, <1>1, <1>4, <1>5, <1>6, <1>7, <1>8, <1>9, <1>10, <1>11 DEF Present!Next

LEMMA PresenceStarts == Present!Init => Present!TypeOK /\ Present!PresenceInv
<1> SUFFICES ASSUME Present!Init PROVE Present!TypeOK /\ Present!PresenceInv
  OBVIOUS
<1>1. Present!TypeOK
  <2>1. 0 \in 0..MaxSwitches /\ 0 \in 0..MaxFaults
    BY PresenceAssumption
  <2> QED
    BY <2>1, LooksKnown DEF Present!Init, Present!TypeOK
<1>2. Present!LinesTyped
  BY DEF Present!Init, Present!LinesTyped
<1>3. Present!PagesCatchUp
  BY DEF Present!Init, Present!PagesCatchUp, Present!Members, Present!Nobody
<1>4. Present!RedisCatchesUp
  <2> SUFFICES ASSUME NEW s \in Sockets PROVE Now(s)
    BY DEF Present!RedisCatchesUp, Now
  <2>1. /\ commands[PodOf[s]] = <<>> /\ answers[PodOf[s]] = <<>> /\ page[s] = "closed"
        /\ members[s] = Present!Absent /\ hash[s] = Present!Absent
    BY CommandsAbout DEF Present!Init, Present!Nobody
  <2>2. \A S, T : Present!NoneIn(<<>>, S) /\ Present!LastIs(<<>>, S, T)
    BY DEF Present!NoneIn, Present!LastIs
  <2> QED
    BY <2>1, <2>2 DEF Now, Present!Follows
<1> QED
  BY <1>1, <1>2, <1>3, <1>4 DEF Present!PresenceInv

LEMMA PresenceKnows ==
    ASSUME Present!TypeOK, Present!PresenceInv
    PROVE  Present!PresenceIsCurrent
<1>1. ASSUME NEW p \in Pods, Present!Quiet(p) PROVE \A s, t \in Present!Members(p) : view[s][t] = members[t]
  <2>1. ~Present!Coming(p)
    BY <1>1 DEF Present!Quiet, Present!Coming
  <2> QED
    BY <2>1 DEF Present!PresenceInv, Present!PagesCatchUp
<1>2. ASSUME \A p \in Pods : Present!Quiet(p), failed = 0, ~crossed PROVE hash = members
  <2>1. ASSUME NEW s \in Sockets PROVE hash[s] = members[s]
    <3>1. Present!Follows(s, <<>>, <<>>, members[s], page[s], hash[s])
      BY <1>2, CommandsAbout DEF Present!Quiet, Present!PresenceInv, Present!RedisCatchesUp
    <3>2. \A S : Present!NoneIn(<<>>, S)
      BY DEF Present!NoneIn
    <3> QED
      BY <3>1, <3>2 DEF Present!Follows
  <2> QED
    BY <2>1 DEF Present!TypeOK, Present!Entries
<1> QED
  BY <1>1, <1>2 DEF Present!PresenceIsCurrent

(* The invariant of presence holds: whatever a pod still waits for, its    *)
(* pages are told of their members once more, and what Redis hears last of *)
(* a member is what the pod knows (socketPresence.service.ts and           *)
(* redisPresence.service.ts). *)
THEOREM PresenceInvariant == Present!Spec => [](Present!TypeOK /\ Present!PresenceInv)
<1>1. ASSUME Present!TypeOK, Present!PresenceInv, [Present!Next]_(Present!presenceVars) PROVE Present!TypeOK' /\ Present!PresenceInv'
  BY <1>1, PresenceTypes, LinesKept, PagesStep, RedisStep DEF Present!PresenceInv
<1> QED
  BY <1>1, PresenceStarts, PTL DEF Present!Spec

(* Presence is current for any sockets, pods and files: pages whose pod    *)
(* waits for nothing show each other as they are (broadcastPresence), and  *)
(* without faults and crossing leaves Redis has the members themselves.    *)
THEOREM PresenceStaysCurrent == Present!Spec => []PresenceIsCurrent
BY PresenceInvariant, PresenceKnows, PTL DEF PresenceIsCurrent
=============================================================================
