-------------------------- MODULE WorkspaceContainer --------------------------
(***************************************************************************)
(* The shared container of one workspace: the registry, reference count,   *)
(* grace period and inactivity reaper of sandbox/workspaceContainer.ts,    *)
(* driven by the terminal and LSP handlers that acquire it, and by the     *)
(* editor sockets (services/websocketServer.service.ts) and the DELETE     *)
(* route (routes/workspace.ts) that only release it.                       *)
(*                                                                         *)
(* A container and its registry record are named by the session whose      *)
(* getOrCreateWorkspaceContainer made them.  isPaused is never set: nothing*)
(* in the program calls hibernateWorkspaceContainer.                       *)
(***************************************************************************)
EXTENDS Naturals, FiniteSets

CONSTANTS
    Terminal, Lsp,  \* WebSocket sessions on /terminal/ and /lsp/
    Editor,         \* Yjs sockets of the workspace's files, open from the start
    NoRef,          \* activeWorkspaceContainers has no entry
    Faults,         \* whether database and Docker calls may fail
    TimePasses,     \* whether 30 minutes may go by without a touch
    MayDelete       \* whether the owner may delete the workspace

Session == Terminal \cup Lsp

ASSUME SessionAssumption ==
    /\ IsFiniteSet(Session) /\ Terminal \cap Lsp = {} /\ NoRef \notin Session
    /\ {Faults, TimePasses, MayDelete} \subseteq BOOLEAN

VARIABLES
    ref,        \* the registered record
    refCount,   \* ref.refCount, of the registered record
    timer,      \* ref.cleanupTimeout of every record: none or armed
    container,  \* the Docker container: none, running, or gone: removed, or given
                \* up when Docker failed to remove it
    removing,   \* containers whose removal is awaited
    sessions,   \* activeTerminalSessions of the warm pool
    stale,      \* the registered ref.lastActivityMs is more than 30 minutes old
    phase,      \* how far the handler of a session has run
    holds,      \* the container a session uses, while its socket is open
    ws,         \* the session's socket: none, open or closed
    editors,    \* the editor sockets that are open
    deleted,    \* DELETE /workspaces/:id has run
    upset       \* history: a container was released by who never acquired it,
                \* reaped, or replaced in the registry by another one
recordVars == <<ref, refCount, timer>>
poolVars == <<container, removing, sessions>>
sessionVars == <<phase, holds, ws>>
vars == <<recordVars, poolVars, sessionVars, stale, editors, deleted, upset>>

TypeOK ==
    /\ ref \in Session \cup {NoRef}
    /\ refCount \in Nat
    /\ timer \in [Session -> {"none", "armed"}]
    /\ container \in [Session -> {"none", "running", "gone"}]
    /\ removing \subseteq Session
    /\ sessions \in Nat
    /\ stale \in BOOLEAN
    /\ phase \in [Session -> {"new", "authorizing", "authorized", "popping",
                              "populating", "setup", "attached", "ended"}]
    /\ holds \in [Session -> Session \cup {NoRef}]
    /\ ws \in [Session -> {"none", "open", "closed"}]
    /\ editors \subseteq Editor
    /\ deleted \in BOOLEAN
    /\ upset \in BOOLEAN

Init ==
    /\ ref = NoRef
    /\ refCount = 0
    /\ timer = [c \in Session |-> "none"]
    /\ container = [c \in Session |-> "none"]
    /\ removing = {}
    /\ sessions = 0
    /\ stale = FALSE
    /\ phase = [s \in Session |-> "new"]
    /\ holds = [s \in Session |-> NoRef]
    /\ ws = [s \in Session |-> "none"]
    /\ editors = Editor
    /\ deleted = FALSE
    /\ upset = FALSE

-----------------------------------------------------------------------------
(* releaseWorkspaceContainer and the removal of a container. *)

(* Mutant: without Math.max. *)
CountBelowZero(n) == n - 1

CountAfterRelease(n) == IF n > 0 THEN n - 1 ELSE 0

(* Mutant: the count is looked at before it is taken down. *)
GraceBeforeDecrement(n, t) == IF n = 0 THEN "armed" ELSE t

TimerAfterRelease(n, t) == IF CountAfterRelease(n) = 0 THEN "armed" ELSE t

(* It acts on whichever record is registered now. *)
Release ==
    \/ ref = NoRef /\ UNCHANGED <<refCount, timer>>
    \/ /\ ref # NoRef
       /\ refCount' = CountAfterRelease(refCount)
       /\ timer' = [timer EXCEPT ![ref] = TimerAfterRelease(refCount, @)]

(* Mutant: the entry is dropped only when the removal has been answered. *)
KeepEntry == ref

RefAfterRemove == NoRef

(* The entry is dropped before the removal is awaited; nothing reads the   *)
(* count and the activity of a dropped record again.                       *)
Remove ==
    /\ ref' = RefAfterRemove
    /\ removing' = removing \cup {ref}
    /\ refCount' = 0
    /\ stale' = FALSE

(* Docker answered, with an error or not; the pool is told in either case. *)
RemoveDone(c) ==
    /\ c \in removing
    /\ removing' = removing \ {c}
    /\ container' = [container EXCEPT ![c] = "gone"]
    /\ sessions' = IF sessions > 0 THEN sessions - 1 ELSE 0
    /\ UNCHANGED <<recordVars, sessionVars, stale, editors, deleted, upset>>

(* The timer armed on record o fires; it looks the registered record up.   *)
GraceTimerFires(o) ==
    /\ timer[o] = "armed"
    /\ timer' = [timer EXCEPT ![o] = "none"]
    /\ IF ref # NoRef /\ refCount = 0
         THEN Remove
         ELSE UNCHANGED <<ref, refCount, removing, stale>>
    /\ UNCHANGED <<container, sessions, sessionVars, editors, deleted, upset>>

(* Mutant: the reaper spares what is still counted. *)
ReapsUnusedOnly == ref # NoRef /\ stale /\ refCount = 0

CanReap == ref # NoRef /\ stale

(* The reaper daemon, every five minutes. *)
Reap ==
    /\ CanReap
    /\ timer' = [timer EXCEPT ![ref] = "none"]
    /\ Remove
    /\ upset' = TRUE
    /\ UNCHANGED <<container, sessions, sessionVars, editors, deleted>>

(* touchWorkspaceActivity: a workspace-heartbeat event or request. *)
Touch ==
    /\ ref # NoRef
    /\ stale' = FALSE
    /\ UNCHANGED <<recordVars, poolVars, sessionVars, editors, deleted, upset>>

(* 30 minutes go by without a touch. *)
HalfAnHour ==
    /\ TimePasses
    /\ ref # NoRef
    /\ stale' = TRUE
    /\ UNCHANGED <<recordVars, poolVars, sessionVars, editors, deleted, upset>>

-----------------------------------------------------------------------------
(* getOrCreateWorkspaceContainer inside a terminal or LSP handler. *)

Connect(s) ==
    /\ phase[s] = "new"
    /\ phase' = [phase EXCEPT ![s] = "authorizing"]
    /\ ws' = [ws EXCEPT ![s] = "open"]
    /\ UNCHANGED <<recordVars, poolVars, holds, stale, editors, deleted,
                   upset>>

(* The owner and collaborator queries. *)
Authorize(s) ==
    /\ phase[s] = "authorizing"
    /\ ~deleted
    /\ phase' = [phase EXCEPT ![s] = "authorized"]
    /\ UNCHANGED <<recordVars, poolVars, holds, ws, stale, editors, deleted,
                   upset>>

(* No workspace or no role: ws.close before any 'close' handler exists. *)
Reject(s) ==
    /\ phase[s] = "authorizing"
    /\ phase' = [phase EXCEPT ![s] = "ended"]
    /\ ws' = [ws EXCEPT ![s] = "closed"]
    /\ UNCHANGED <<recordVars, poolVars, holds, stale, editors, deleted,
                   upset>>

(* Mutant: a user who joins others is not counted. *)
NotCounted(n) == IF n = 0 THEN 1 ELSE n

CountAfterAcquire(n) == n + 1

Held(s, c) == IF ws[s] = "open" THEN c ELSE NoRef

AcquireExisting(s) ==
    /\ phase[s] = "authorized"
    /\ ref # NoRef
    /\ timer' = [timer EXCEPT ![ref] = "none"]
    /\ refCount' = CountAfterAcquire(refCount)
    /\ stale' = FALSE
    /\ holds' = [holds EXCEPT ![s] = Held(s, ref)]
    /\ phase' = [phase EXCEPT ![s] = "setup"]
    /\ UNCHANGED <<ref, poolVars, ws, editors, deleted, upset>>

(* popTerminalContainer counts a session before it awaits a container. *)
AcquireNew(s) ==
    /\ phase[s] = "authorized"
    /\ ref = NoRef
    /\ sessions' = sessions + 1
    /\ phase' = [phase EXCEPT ![s] = "popping"]
    /\ UNCHANGED <<recordVars, container, removing, holds, ws, stale, editors,
                   deleted, upset>>

Popped(s) ==
    /\ phase[s] = "popping"
    /\ container' = [container EXCEPT ![s] = "running"]
    /\ phase' = [phase EXCEPT ![s] = "populating"]
    /\ UNCHANGED <<recordVars, removing, sessions, holds, ws, stale, editors,
                   deleted, upset>>

(* Files were copied in: activeWorkspaceContainers.set, over any entry that *)
(* another session made meanwhile.                                         *)
Register(s) ==
    /\ phase[s] = "populating"
    /\ ref' = s
    /\ upset' = (upset \/ ref # NoRef)
    /\ refCount' = 1
    /\ stale' = FALSE
    /\ holds' = [holds EXCEPT ![s] = Held(s, s)]
    /\ phase' = [phase EXCEPT ![s] = "setup"]
    /\ UNCHANGED <<timer, poolVars, ws, editors, deleted>>

(* A call of the handler fails: the socket is closed.  The LSP handler also *)
(* runs its cleanup, which releases whether or not it has acquired.        *)
Fails(s) ==
    /\ Faults
    /\ phase[s] \in {"authorizing", "authorized", "popping", "populating", "setup"}
    /\ phase' = [phase EXCEPT ![s] = "ended"]
    /\ ws' = [ws EXCEPT ![s] = "closed"]
    /\ holds' = [holds EXCEPT ![s] = NoRef]
    /\ IF s \in Lsp THEN Release ELSE UNCHANGED <<refCount, timer>>
    /\ upset' = (upset \/ (s \in Lsp /\ phase[s] # "setup" /\ ref # NoRef))
    /\ UNCHANGED <<ref, poolVars, stale, editors, deleted>>

(* The exec is running and the 'close' handler registered: too late for a  *)
(* socket that closed during the setup.                                    *)
Attach(s) ==
    /\ phase[s] = "setup"
    /\ phase' = [phase EXCEPT ![s] = "attached"]
    /\ UNCHANGED <<recordVars, poolVars, holds, ws, stale, editors, deleted,
                   upset>>

(* The peer leaves, the shell ends, or its container is gone. *)
SessionCloses(s) ==
    /\ ws[s] = "open"
    /\ ws' = [ws EXCEPT ![s] = "closed"]
    /\ holds' = [holds EXCEPT ![s] = NoRef]
    /\ IF phase[s] = "attached"
         THEN /\ Release
              /\ phase' = [phase EXCEPT ![s] = "ended"]
         ELSE UNCHANGED <<refCount, timer, phase>>
    /\ UNCHANGED <<ref, poolVars, stale, editors, deleted, upset>>

-----------------------------------------------------------------------------
(* Those who release what they never acquired. *)

EditorCloses(e) ==
    /\ e \in editors
    /\ editors' = editors \ {e}
    /\ Release
    /\ upset' = (upset \/ ref # NoRef)
    /\ UNCHANGED <<ref, poolVars, sessionVars, stale, deleted>>

DeleteWorkspace ==
    /\ ~deleted
    /\ MayDelete
    /\ deleted' = TRUE
    /\ Release
    /\ upset' = (upset \/ ref # NoRef)
    /\ UNCHANGED <<ref, poolVars, sessionVars, stale, editors>>

Next ==
    \/ \E s \in Session :
         \/ Connect(s) \/ Authorize(s) \/ Reject(s)
         \/ AcquireExisting(s) \/ AcquireNew(s)
         \/ Popped(s) \/ Register(s) \/ Fails(s) \/ Attach(s)
         \/ SessionCloses(s) \/ RemoveDone(s) \/ GraceTimerFires(s)
    \/ \E e \in Editor : EditorCloses(e)
    \/ DeleteWorkspace \/ Reap \/ Touch \/ HalfAnHour

Spec == Init /\ [][Next]_vars

(* Timers and the reaper's interval fire, Docker and the database answer.  *)
Fairness ==
    /\ \A s \in Session :
         /\ WF_vars(GraceTimerFires(s)) /\ WF_vars(RemoveDone(s))
         /\ WF_vars(Authorize(s) \/ Reject(s))
         /\ WF_vars(AcquireExisting(s) \/ AcquireNew(s))
         /\ WF_vars(Popped(s)) /\ WF_vars(Register(s)) /\ WF_vars(Attach(s))
    /\ WF_vars(Reap) /\ WF_vars(HalfAnHour)

FairSpec == Spec /\ Fairness

-----------------------------------------------------------------------------
(* Properties. *)

Using(s) == phase[s] \in {"setup", "attached"} /\ ws[s] = "open"
Users(c) == {s \in Session : holds[s] = c /\ Using(s)}

(* Whoever asks for the workspace's container never gets one that is being *)
(* removed: timers, reaper, overlapping creations and stray releases leave *)
(* only a running container in the registry.                               *)
RegistryOffersRunning ==
    ref # NoRef => container[ref] = "running" /\ ref \notin removing

(* A registered container that counts no user is on its way out: without   *)
(* the timer it would run until the reaper finds it.                       *)
UnusedIsTimed == ref # NoRef /\ refCount = 0 => timer[ref] = "armed"

(* The warm pool sizes itself by its session count: the count covers every *)
(* container that runs, so none is given back twice.                       *)
SessionsCoverContainers ==
    Cardinality({c \in Session : container[c] = "running"}) <= sessions

(* What the registry, its timer and the pool know of the containers, all   *)
(* three of which can lose one.                                            *)
ContainersAreTracked == RegistryOffersRunning /\ UnusedIsTimed /\ SessionsCoverContainers

(* Which container a session has made by now; a registered one is past its *)
(* creation, one that is being removed still runs.                         *)
CreationMatchesPhase ==
    /\ \A s \in Session :
         /\ phase[s] \in {"new", "authorizing", "authorized", "popping"}
              => container[s] = "none"
         /\ phase[s] = "populating"
              => container[s] = "running" /\ s # ref /\ s \notin removing
    /\ \A c \in removing : container[c] = "running"

(* What the pool has counted: the containers that run or are being popped. *)
Counted == {c \in Session : container[c] = "running" \/ phase[c] = "popping"}

(* The inductive invariant: every popped container was counted once and is *)
(* given back at most once.                                                *)
ContainerInv ==
    /\ RegistryOffersRunning
    /\ UnusedIsTimed
    /\ CreationMatchesPhase
    /\ Cardinality(Counted) <= sessions

(* No container is taken from under a user, whatever acquisitions,         *)
(* failures, removals and early closes happen, up to the first release by  *)
(* somebody who never acquired, the first reaping or second registration.  *)
UsedContainerRuns ==
    ~upset => \A s \in Session : Using(s) => container[holds[s]] = "running"

(* "reference-counted lifecycle tracking": the grace period takes the      *)
(* container of a workspace that still exists only when nobody uses it.    *)
GraceSparesUsers ==
    [][\A o \in Session :
         GraceTimerFires(o) /\ ref' # ref /\ ~deleted => Users(ref) = {}]_vars

(* Whatever counts were lost on the way, a workspace that everybody left   *)
(* does not keep its container once no client touches it any more: the     *)
(* inactivity reaper sees to it.                                           *)
EverybodyLeft == \A s \in Session : phase[s] # "new" => ws[s] = "closed"
AbandonedIsReclaimed ==
    (<>[]EverybodyLeft) /\ (<>[][~Touch]_vars) => <>[](ref = NoRef)
=============================================================================
