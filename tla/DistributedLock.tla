---------------------------- MODULE DistributedLock ----------------------------
(***************************************************************************)
(* withDistributedLock of services/distributedLock.service.ts for one key: *)
(* SET NX PX with the pod's name as the value, a compare-and-delete script *)
(* to release, and the pod's in-memory set when Redis is away or when the  *)
(* task (or the SET) threw.  Redis itself is the variables key and redis.  *)
(***************************************************************************)
EXTENDS Naturals, FiniteSets

CONSTANTS
    Task,      \* calls of withDistributedLock on the key
    Pod,       \* backend processes, each with its POD_ID
    PodOf,     \* the pod a call is made on
    NoPod,     \* the key does not exist
    Fault      \* what may go wrong: tasks throw, Redis goes, leases run out

ASSUME TaskAssumption == IsFiniteSet(Task) /\ PodOf \in [Task -> Pod]
ASSUME PodAssumption == NoPod \notin Pod
ASSUME FaultAssumption == Fault \subseteq {"throw", "redis", "lease"}

VARIABLES
    key,       \* the value of the lock key in Redis, a POD_ID
    redis,     \* redisPublisher.status is 'ready' and commands succeed
    memory,    \* the pods whose inMemoryLocks has the key
    at,        \* where each call is
    failed,    \* calls whose task threw under the Redis lock
    faults,    \* history: what has gone wrong so far
    expired    \* history: calls whose lease ran out before they released it
lockVars == <<key, redis, memory, at, failed, faults, expired>>

(* "memory" and "again" both run the task under inMemoryLocks: "memory" is *)
(* the first branch, whose failure still reaches the outer catch.          *)
Place == {"idle", "set", "locked", "unlock", "memory", "catch", "again", "done"}

LockTypeOK ==
    /\ key \in Pod \cup {NoPod}
    /\ redis \in BOOLEAN
    /\ memory \subseteq Pod
    /\ at \in [Task -> Place]
    /\ failed \subseteq Task
    /\ faults \subseteq Fault
    /\ expired \subseteq Task

LockInit ==
    /\ key = NoPod
    /\ redis = TRUE
    /\ memory = {}
    /\ at = [t \in Task |-> "idle"]
    /\ failed = {}
    /\ faults = {}
    /\ expired = {}

Goes(fault) == fault \in Fault /\ faults' = faults \cup {fault}

Goto(t, place) == at' = [at EXCEPT ![t] = place]

(* The calls whose task is running, and those that do so under Redis. *)
UnderRedis  == {t \in Task : at[t] = "locked"}
UnderMemory == {t \in Task : at[t] \in {"memory", "again"}}
InTask      == UnderRedis \cup UnderMemory
(* The calls between the answer of SET and the end of their release. *)
Holds(t)    == at[t] \in {"locked", "unlock"}

-----------------------------------------------------------------------------
(* The call. *)

(* status 'ready' or 'connecting': SET key POD_ID PX ttl NX is sent. *)
SendSet(t) ==
    /\ at[t] = "idle"
    /\ Goto(t, "set")
    /\ UNCHANGED <<key, redis, memory, failed, faults, expired>>

(* Mutant: the fallback takes the key without looking. *)
MemoryAlwaysFree(p) == TRUE

MemoryFree(p) == p \notin memory

(* Any other status: the key must be free in this pod's memory.   *)
TakeMemory(t) ==
    /\ at[t] = "idle"
    /\ ~redis
    /\ IF MemoryFree(PodOf[t])
         THEN Goto(t, "memory") /\ memory' = memory \cup {PodOf[t]}
         ELSE Goto(t, "done") /\ UNCHANGED memory
    /\ UNCHANGED <<key, redis, failed, faults, expired>>

(* Mutants: SET without NX; the value is unique to the call. *)
SetAlwaysSucceeds == TRUE
CallAsValue(t) == t

SetSucceeds == key = NoPod
LockValue(t) == PodOf[t]

(* The answer of SET NX: held by anyone, this pod included, means null.  *)
SetAnswered(t) ==
    /\ at[t] = "set"
    /\ redis
    /\ IF SetSucceeds
         THEN key' = LockValue(t) /\ Goto(t, "locked")
         ELSE Goto(t, "done") /\ UNCHANGED key
    /\ UNCHANGED <<redis, memory, failed, faults, expired>>

(* The command fails, or Redis took the key and its answer is lost. *)
SetFails(t) ==
    /\ at[t] = "set"
    /\ ~redis
    /\ key' \in {key, IF SetSucceeds THEN LockValue(t) ELSE key}
    /\ Goto(t, "catch")
    /\ UNCHANGED <<redis, memory, failed, faults, expired>>

(* Mutant: the key is deleted whoever holds it. *)
KeyAfterAnyUnlock(p) == NoPod

(* UNLOCK_SCRIPT *)
KeyAfterUnlock(p) == IF key = p THEN NoPod ELSE key

TaskEnds(t) ==
    /\ at[t] = "locked"
    /\ Goto(t, "unlock")
    /\ \/ UNCHANGED <<failed, faults>>
       \/ Goes("throw") /\ failed' = failed \cup {t}
    /\ UNCHANGED <<key, redis, memory, expired>>

(* Mutant: a failed release is tried again until it succeeds. *)
RetryUnlock(t) == IF ~redis THEN "unlock" ELSE IF t \in failed THEN "catch" ELSE "done"

AfterUnlock(t) == IF t \in failed THEN "catch" ELSE "done"

(* The failure of the script is only logged; that of the task is rethrown. *)
Unlock(t) ==
    /\ at[t] = "unlock"
    /\ key' = IF redis THEN KeyAfterUnlock(PodOf[t]) ELSE key
    /\ Goto(t, AfterUnlock(t))
    /\ UNCHANGED <<redis, memory, failed, faults, expired>>

(* The outer catch runs the task once more, under the in-memory key. *)
Catch(t) ==
    /\ at[t] = "catch"
    /\ IF MemoryFree(PodOf[t])
         THEN Goto(t, "again") /\ memory' = memory \cup {PodOf[t]}
         ELSE Goto(t, "done") /\ UNCHANGED memory
    /\ UNCHANGED <<key, redis, failed, faults, expired>>

MemoryTaskEnds(t) ==
    /\ at[t] \in {"memory", "again"}
    /\ memory' = memory \ {PodOf[t]}
    /\ \/ Goto(t, "done") /\ UNCHANGED faults
       \/ Goes("throw") /\ at[t] = "memory" /\ Goto(t, "catch")
    /\ UNCHANGED <<key, redis, failed, expired>>

-----------------------------------------------------------------------------
(* Redis and the pods. *)

(* The lease runs out, under a running task if it takes longer than ttlMs. *)
Expire ==
    LET holders == {t \in Task : PodOf[t] = key /\ Holds(t)} IN
    /\ key # NoPod
    /\ key' = NoPod
    /\ expired' = expired \cup holders
    /\ IF holders # {} THEN Goes("lease") ELSE UNCHANGED faults
    /\ UNCHANGED <<redis, memory, at, failed>>

RedisGoes ==
    /\ Goes("redis")
    /\ redis' = ~redis
    /\ UNCHANGED <<key, memory, at, failed, expired>>

(* The process dies: its calls and its memory are gone, its lease is not. *)
Crash(p) ==
    /\ \E t \in Task : PodOf[t] = p /\ at[t] \notin {"idle", "done"}
    /\ at' = [t \in Task |->
                IF PodOf[t] = p /\ at[t] # "idle" THEN "done" ELSE at[t]]
    /\ memory' = memory \ {p}
    /\ UNCHANGED <<key, redis, failed, faults, expired>>

-----------------------------------------------------------------------------
Call(t) ==
    \/ SetAnswered(t) \/ SetFails(t) \/ TaskEnds(t) \/ Unlock(t)
    \/ Catch(t) \/ MemoryTaskEnds(t)

LockNext ==
    \/ \E t \in Task : SendSet(t) \/ TakeMemory(t) \/ Call(t)
    \/ Expire \/ RedisGoes
    \/ \E p \in Pod : Crash(p)

LockSpec == LockInit /\ [][LockNext]_lockVars

(* Redis expires every key set with PX, and answers or fails every command; *)
(* the tasks are queries, which settle.                                     *)
LockFairness ==
    /\ WF_lockVars(Expire)
    /\ \A t \in Task : WF_lockVars(Call(t))

LockFairSpec == LockSpec /\ LockFairness

-----------------------------------------------------------------------------
(* Properties. *)

(* The in-memory key excludes the calls of its own pod, also when several  *)
(* of them come back from failures in any order, and is never left behind. *)
FallbackExclusive ==
    /\ \A t, u \in UnderMemory : PodOf[t] = PodOf[u] => t = u
    /\ memory = {PodOf[t] : t \in UnderMemory}

(* Under Redis at most one task runs, on all pods together, until a lease  *)
(* runs out under its task: releases, failures, crashes and an unreachable *)
(* Redis do not break it.                                                  *)
RedisExclusive == "lease" \notin faults => Cardinality(UnderRedis) <= 1

(* "ensuring that a pod only releases locks it currently owns": the value  *)
(* of the key names a pod, not a call, so a call that outlived its lease    *)
(* releases whatever its pod holds by then.  That is all a lost lease does: *)
(* two calls hold the lock together only if one of their own pods lost one, *)
(* however late the releases and whatever fails meanwhile.                  *)
LostLease(t) == \E v \in expired : PodOf[v] = PodOf[t]
LeasesFailAlone ==
    \A t, u \in Task : t # u /\ Holds(t) /\ Holds(u) => LostLease(t) \/ LostLease(u)

(* Inductive: a call without the key is on a pod that lost a lease.        *)
LeaseInv ==
    /\ LeasesFailAlone
    /\ \A t \in Task : Holds(t) => key = PodOf[t] \/ LostLease(t)

(* The holder of the key is recorded in it: the inductive core of both.    *)
LockInv ==
    /\ FallbackExclusive
    /\ "lease" \notin faults =>
         \A t \in Task : at[t] \in {"locked", "unlock"} =>
            /\ key = PodOf[t]
            /\ \A u \in Task : at[u] \in {"locked", "unlock"} => u = t

(* Until something goes wrong, be it a task that throws, Redis or a lease,  *)
(* the service is one mutex for the cluster; crashes of pods do not matter. *)
MutualExclusion == faults = {} => Cardinality(InTask) <= 1

(* What the three layers of the service promise, each as long as it can.   *)
LocksExclude == FallbackExclusive /\ RedisExclusive /\ MutualExclusion

(* Every call comes back: its task ran, or it was skipped, or its pod died. *)
CallsReturn == <>[](\A t \in Task : at[t] \in {"idle", "done"})
=============================================================================
