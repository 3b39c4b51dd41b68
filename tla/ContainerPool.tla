----------------------------- MODULE ContainerPool -----------------------------
(***************************************************************************)
(* WarmPoolManager of sandbox/pool.ts: idle containers kept ready, a       *)
(* single-flight replenishment loop, on-demand creation when the pool is   *)
(* empty, a target that follows the number of sessions, and the removal of *)
(* the pool at shutdown.  Containers are interchangeable: the pool is a    *)
(* number.  The loop has exactly one creation in flight while the flag     *)
(* replenishingTerminal is set, so the flag is modelled as that number.    *)
(***************************************************************************)
EXTENDS Naturals, FiniteSets

CONSTANTS
    User,        \* callers of popTerminalContainer
    PoolMin,     \* TERMINAL_POOL_MIN
    PoolMax,     \* TERMINAL_POOL_MAX
    FirstSize,   \* TERMINAL_POOL_SIZE at boot
    MaxFailures  \* bound: creations that Docker refuses

ASSUME UserAssumption == IsFiniteSet(User)
ASSUME SizeAssumption ==
    /\ PoolMin \in Nat \ {0} /\ PoolMax \in Nat /\ PoolMin <= PoolMax
    /\ FirstSize \in PoolMin..PoolMax
ASSUME BoundAssumption == MaxFailures \in Nat

VARIABLES
    pool,         \* terminalPool.length
    size,         \* TERMINAL_POOL_SIZE
    sessions,     \* activeTerminalSessions
    warming,      \* replenishingTerminal: 1 while the loop creates one, else 0
    at,           \* what each caller does: creating on demand, or using
    server,       \* the process: pools not initialised yet, up, shutting down
    failures,     \* creations refused
    leaked,       \* history: sessions counted for a caller that got nothing
    stalled       \* history: nobody tried to fill since the last failure
vars == <<pool, size, sessions, warming, at, server, failures, leaked, stalled>>

TypeOK ==
    /\ pool \in Nat
    /\ size \in PoolMin..PoolMax
    /\ sessions \in Nat
    /\ warming \in 0..1
    /\ at \in [User -> {"none", "creating", "using"}]
    /\ server \in {"starting", "up", "removing", "removed", "exited"}
    /\ failures \in 0..MaxFailures
    /\ leaked \in Nat
    /\ stalled \in BOOLEAN

Init ==
    /\ pool = 0
    /\ size = FirstSize
    /\ sessions = 0
    /\ warming = 0
    /\ at = [u \in User |-> "none"]
    /\ server = "starting"
    /\ failures = 0
    /\ leaked = 0
    /\ stalled = TRUE

(* Callers that hold or wait for a container of their own. *)
Active == {u \in User : at[u] # "none"}

Smaller(a, b) == IF a <= b THEN a ELSE b
Larger(a, b)  == IF a >= b THEN a ELSE b

(* Mutant: the ceiling is not applied. *)
TargetUnbounded(n) == Larger(PoolMin, n + 2)

Target(n) == Larger(PoolMin, Smaller(PoolMax, n + 2))

(* fillTerminalPool called with n containers idle: returns when a loop is  *)
(* running, else starts creating if fewer than wanted are idle.            *)
Fill(n, wanted) ==
    /\ warming' = IF n < wanted THEN 1 ELSE warming
    /\ pool' = n
    /\ stalled' = FALSE

NoFill(n) == pool' = n /\ UNCHANGED <<warming, stalled>>

Fails == failures < MaxFailures /\ failures' = failures + 1

-----------------------------------------------------------------------------
(* initializePools: gives up when Docker does not answer. *)
Initialize ==
    /\ server = "starting"
    /\ server' = "up"
    /\ \/ Fill(pool, size) /\ UNCHANGED failures
       \/ Fails /\ NoFill(pool)
    /\ UNCHANGED <<size, sessions, at, leaked>>

(* A container is idle and waiting: take it, then fill. *)
PopWarm(u) ==
    /\ server # "exited"
    /\ at[u] = "none"
    /\ pool > 0
    /\ sessions' = sessions + 1
    /\ size' = Target(sessions + 1)
    /\ at' = [at EXCEPT ![u] = "using"]
    /\ Fill(pool - 1, size')
    /\ UNCHANGED <<server, failures, leaked>>

(* None is: adjustTerminalPoolSize may fill, this caller creates its own. *)
PopCold(u) ==
    /\ server # "exited"
    /\ at[u] = "none"
    /\ pool = 0
    /\ sessions' = sessions + 1
    /\ size' = Target(sessions + 1)
    /\ at' = [at EXCEPT ![u] = "creating"]
    /\ IF size' > size THEN Fill(pool, size') ELSE NoFill(pool)
    /\ UNCHANGED <<server, failures, leaked>>

ColdCreated(u) ==
    /\ server # "exited"
    /\ at[u] = "creating"
    /\ at' = [at EXCEPT ![u] = "using"]
    /\ Fill(pool, size)
    /\ UNCHANGED <<size, sessions, server, failures, leaked>>

(* The error reaches the caller; activeTerminalSessions is not given back. *)
ColdFails(u) ==
    /\ server # "exited"
    /\ at[u] = "creating"
    /\ Fails
    /\ at' = [at EXCEPT ![u] = "none"]
    /\ leaked' = leaked + 1
    /\ UNCHANGED <<pool, size, sessions, warming, server, stalled>>

(* Mutant: the count is given back twice. *)
SessionsAfterDoubleRelease == IF sessions > 1 THEN sessions - 2 ELSE 0

SessionsAfterRelease == sessions - 1

(* releaseTerminalContainer, after the container was removed.   *)
Release(u) ==
    /\ server # "exited"
    /\ at[u] = "using"
    /\ at' = [at EXCEPT ![u] = "none"]
    /\ IF sessions > 0
         THEN /\ sessions' = SessionsAfterRelease
              /\ size' = Target(sessions')
              /\ IF size' > size THEN Fill(pool, size') ELSE NoFill(pool)
         ELSE UNCHANGED <<pool, size, sessions, warming, stalled>>
    /\ UNCHANGED <<server, failures, leaked>>

(* Mutants: the loop makes one container too many; it makes only one. *)
LoopOverfills(n) == n <= size
LoopMakesOne(n) == FALSE

(* The condition of the loop, read again after every creation. *)
LoopContinues(n) == n < size

FillCreated ==
    /\ server # "exited"
    /\ warming = 1
    /\ pool' = pool + 1
    /\ warming' = IF LoopContinues(pool + 1) THEN 1 ELSE 0
    /\ UNCHANGED <<size, sessions, at, server, failures, leaked, stalled>>

(* finally { replenishingTerminal = false }; the error is only logged. *)
FillFails ==
    /\ server # "exited"
    /\ warming = 1
    /\ Fails
    /\ warming' = 0
    /\ stalled' = TRUE
    /\ UNCHANGED <<pool, size, sessions, at, server, leaked>>

-----------------------------------------------------------------------------
(* gracefulShutdown: cleanup removes idle containers until it sees none;   *)
(* the process exits when the other parts of the shutdown are done too.    *)
Shutdown ==
    /\ server \in {"starting", "up"}
    /\ server' = "removing"
    /\ UNCHANGED <<pool, size, sessions, warming, at, failures, leaked, stalled>>

CleanupStep ==
    /\ server = "removing"
    /\ IF pool > 0
         THEN pool' = pool - 1 /\ UNCHANGED server
         ELSE server' = "removed" /\ UNCHANGED pool
    /\ UNCHANGED <<size, sessions, warming, at, failures, leaked, stalled>>

Exit ==
    /\ server = "removed"
    /\ server' = "exited"
    /\ UNCHANGED <<pool, size, sessions, warming, at, failures, leaked, stalled>>

-----------------------------------------------------------------------------
Next ==
    \/ Initialize
    \/ \E u \in User : PopWarm(u) \/ PopCold(u) \/ ColdCreated(u) \/ ColdFails(u) \/ Release(u)
    \/ FillCreated \/ FillFails
    \/ Shutdown \/ CleanupStep \/ Exit

Spec == Init /\ [][Next]_vars

-----------------------------------------------------------------------------
(* Properties. *)

(* Idle containers cost about 1 GB each: those waiting and the one being   *)
(* made never exceed the maximum, whatever order pops, failures, releases  *)
(* and refills of several callers come in.                                 *)
WarmBound == pool + warming <= PoolMax

(* A pool that is short is being refilled: no order of pops, releases and  *)
(* resizes loses the refill, only a refusal by Docker does.                *)
ShortPoolIsRefilled ==
    server \in {"starting", "up"} /\ ~stalled => warming = 1 \/ pool >= size

(* The count that sizes the pool misses no session, and is too high only   *)
(* by the callers that got no container.                                   *)
SessionsCoverUsers == sessions = Cardinality(Active) + leaked

(* Together: the pool is neither too large, nor short without a refill,    *)
(* nor sized by a wrong count.                                             *)
PoolIsSound == WarmBound /\ ShortPoolIsRefilled /\ SessionsCoverUsers
=============================================================================
