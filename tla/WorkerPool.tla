------------------------------- MODULE WorkerPool -------------------------------
(***************************************************************************)
(* The pool of worker threads that hashes trees and merges updates:        *)
(* WorkerPoolService of services/workerPool.service.ts and its threads,    *)
(* workers/casWorker.ts.                                                    *)
(*                                                                         *)
(* A thread that fails emits error and then exit with code 1; so does,     *)
(* without error, a thread that was terminated.  Both listeners recreate   *)
(* the worker of their index, whichever thread is registered there by      *)
(* then.  A rejected task is computed by its caller, inline.  The branch   *)
(* for an idle index without a worker is never taken: terminate() empties  *)
(* both lists.                                                             *)
(***************************************************************************)
EXTENDS Naturals, Sequences, FiniteSetsExt

CONSTANTS
    PoolSize,     \* poolSize
    MaxTasks,     \* bound: calls of runTask
    MaxThreads,   \* bound: threads that run or have an event to emit
    MaxCrashes    \* bound: uncaught exceptions of threads

VARIABLES
    pool,      \* workers, idleWorkerIndices, taskQueue, taskMap and the threads
    promise,   \* of each task: none, waiting, resolved, rejected
    crashes,   \* uncaught exceptions so far
    finished   \* terminate() was called
workerVars == <<pool, promise, crashes, finished>>

Indices == 1..PoolSize
Tasks == 1..MaxTasks
Threads == 1..MaxThreads
NoThread == [index |-> 0, up |-> FALSE, events |-> {}, inbox |-> <<>>, outbox |-> <<>>]
NewThread(i) == [NoThread EXCEPT !.index = i, !.up = TRUE]

TypeOK ==
    /\ pool.workers \in [Indices -> 0..MaxThreads]
    /\ pool.idle \in Seq(Indices) /\ pool.queue \in Seq(Tasks)
    /\ pool.taskMap \in [Tasks -> 0..PoolSize]
    /\ \A s \in Threads :
        /\ pool.threads[s].index \in 0..PoolSize
        /\ pool.threads[s].events \subseteq {"error", "exit"}
        /\ pool.threads[s].inbox \in Seq(Tasks)
    /\ promise \in [Tasks -> {"none", "waiting", "resolved", "rejected"}]
    /\ crashes \in 0..MaxCrashes /\ finished \in BOOLEAN

Init ==
    /\ pool = [workers |-> [i \in Indices |-> i], idle |-> [i \in Indices |-> i],
               queue |-> <<>>, taskMap |-> [t \in Tasks |-> 0],
               threads |-> [s \in Threads |-> IF s \in Indices THEN NewThread(s) ELSE NoThread]]
    /\ promise = [t \in Tasks |-> "none"]
    /\ crashes = 0
    /\ finished = FALSE

FreeThreads == {s \in Threads : pool.threads[s].index = 0}

-----------------------------------------------------------------------------
(* The methods, as functions of the pool. *)

(* Mutant: a worker that took a task stays in the list. *)
IdleKept(p) == p.idle
IdleAfterDispatch(p) == Tail(p.idle)

(* processNextTask; a message to a thread that stopped goes nowhere. *)
ProcessNextTask(p) ==
    IF p.queue = <<>> \/ p.idle = <<>> THEN p
    ELSE LET i == Head(p.idle)  t == Head(p.queue)  s == p.workers[i] IN
         [p EXCEPT !.idle = IdleAfterDispatch(p), !.queue = Tail(@), !.taskMap[t] = i,
                   !.threads[s].inbox = IF p.threads[s].up THEN Append(@, t) ELSE @]

(* worker.terminate() *)
Terminated(thread) ==
    IF thread.up THEN [thread EXCEPT !.up = FALSE, !.inbox = <<>>, !.events = {"exit"}] ELSE thread

WithoutFirst(seq, i) ==
    IF \E k \in 1..Len(seq) : seq[k] = i
    THEN LET k == Min({j \in 1..Len(seq) : seq[j] = i}) IN SubSeq(seq, 1, k - 1) \o SubSeq(seq, k + 1, Len(seq))
    ELSE seq

(* recreateWorker, with thread s for the new worker. *)
RecreateWorker(p, i, s) ==
    LET old == p.workers[i] IN
    [p EXCEPT !.threads = [r \in Threads |-> IF r = s THEN NewThread(i)
                                             ELSE IF r = old THEN Terminated(@[r]) ELSE @[r]],
              !.workers[i] = s,
              !.idle = Append(WithoutFirst(@, i), i)]

-----------------------------------------------------------------------------
RunTask(t) ==
    /\ promise[t] = "none" /\ \A u \in 1..(t - 1) : promise[u] # "none"
    /\ pool' = ProcessNextTask([pool EXCEPT !.queue = Append(@, t)])
    /\ promise' = [promise EXCEPT ![t] = "waiting"]
    /\ UNCHANGED <<crashes, finished>>

(* casWorker: a result, or the error it caught. *)
Compute(s, success) ==
    LET thread == pool.threads[s] IN
    /\ thread.up /\ thread.inbox # <<>>
    /\ pool' = [pool EXCEPT !.threads[s].inbox = Tail(@),
                            !.threads[s].outbox = Append(@, [task |-> Head(thread.inbox), success |-> success])]
    /\ UNCHANGED <<promise, crashes, finished>>

(* worker.on('message'): a result whose task was forgotten is ignored. *)
Message(s) ==
    LET result == Head(pool.threads[s].outbox)
        t == result.task
        taken == [pool EXCEPT !.threads[s].outbox = Tail(@)] IN
    /\ pool.threads[s].outbox # <<>>
    /\ IF pool.taskMap[t] = 0 THEN pool' = taken /\ UNCHANGED promise
       ELSE /\ pool' = ProcessNextTask([taken EXCEPT !.taskMap[t] = 0, !.idle = Append(@, pool.taskMap[t])])
            /\ promise' = [promise EXCEPT ![t] = IF result.success THEN "resolved" ELSE "rejected"]
    /\ UNCHANGED <<crashes, finished>>

(* An exception nobody catches, or a script that cannot be loaded. *)
Crash(s) ==
    /\ pool.threads[s].up /\ crashes < MaxCrashes
    /\ pool' = [pool EXCEPT !.threads[s].up = FALSE, !.threads[s].inbox = <<>>,
                            !.threads[s].events = {"error", "exit"}]
    /\ crashes' = crashes + 1
    /\ UNCHANGED <<promise, finished>>

(* worker.on('error'): the tasks of the index are rejected. *)
ErrorEvent(s, new) ==
    LET i == pool.threads[s].index  lost == {t \in Tasks : pool.taskMap[t] = i} IN
    /\ "error" \in pool.threads[s].events
    /\ pool' = RecreateWorker([pool EXCEPT !.threads[s].events = {"exit"},
                                           !.taskMap = [t \in Tasks |-> IF t \in lost THEN 0 ELSE @[t]]], i, new)
    /\ promise' = [t \in Tasks |-> IF t \in lost THEN "rejected" ELSE promise[t]]
    /\ UNCHANGED <<crashes, finished>>

(* worker.on('exit') with code 1, after the thread's last message. *)
ExitEvent(s, new) ==
    /\ pool.threads[s].events = {"exit"} /\ pool.threads[s].outbox = <<>>
    /\ pool' = [RecreateWorker(pool, pool.threads[s].index, new) EXCEPT !.threads[s] = NoThread]
    /\ UNCHANGED <<promise, crashes, finished>>

(* terminate(): called by tests only; the promises stay as they are. *)
Terminate ==
    /\ ~finished
    /\ finished' = TRUE
    /\ pool' = [workers |-> [i \in Indices |-> 0], idle |-> <<>>, queue |-> <<>>,
                taskMap |-> [t \in Tasks |-> 0],
                threads |-> [s \in Threads |-> IF \E i \in Indices : pool.workers[i] = s
                                               THEN Terminated(pool.threads[s]) ELSE pool.threads[s]]]
    /\ UNCHANGED <<promise, crashes>>

Next ==
    \/ \E t \in Tasks : RunTask(t)
    \/ \E s \in Threads :
        \/ \E success \in BOOLEAN : Compute(s, success)
        \/ Message(s)
        \/ Crash(s)
        \/ FreeThreads # {} /\ (ErrorEvent(s, Min(FreeThreads)) \/ ExitEvent(s, Min(FreeThreads)))
    \/ Terminate

Spec == Init /\ [][Next]_workerVars

(* Threads compute and Node.js delivers what they emit. *)
Fairness ==
    \A s \in Threads :
        /\ WF_workerVars(Compute(s, TRUE)) /\ WF_workerVars(Message(s))
        /\ WF_workerVars(FreeThreads # {} /\ (ErrorEvent(s, Min(FreeThreads)) \/ ExitEvent(s, Min(FreeThreads))))
FairSpec == Spec /\ Fairness

-----------------------------------------------------------------------------
(* Properties. *)

Times(seq, i) == Cardinality({k \in 1..Len(seq) : seq[k] = i})
Busy(i) == {t \in Tasks : pool.taskMap[t] = i}

(* Until a thread crashes each worker is idle once or works on one task,   *)
(* a queued task waits only for busy workers, and a task in the table is   *)
(* with the thread the table names. *)
CalmPoolIsExact ==
    crashes = 0 /\ ~finished =>
        /\ \A i \in Indices : Times(pool.idle, i) + Cardinality(Busy(i)) = 1
        /\ pool.queue # <<>> => pool.idle = <<>>
        /\ \A t \in Tasks : promise[t] = "waiting" =>
            \/ \E k \in 1..Len(pool.queue) : pool.queue[k] = t
            \/ pool.taskMap[t] # 0
        /\ \A i \in Indices : \A t \in Busy(i) :
            LET thread == pool.threads[pool.workers[i]] IN
            t \in {thread.inbox[k] : k \in 1..Len(thread.inbox)} \cup {thread.outbox[k].task : k \in 1..Len(thread.outbox)}

(* "automatic worker resurrection, task queue recovery"                    *)
(* (worker-pool-crash.test.ts:4): after a crash too each task is answered. *)
TasksAreAnswered == \A t \in Tasks : promise[t] = "waiting" ~> promise[t] # "waiting" \/ finished

(* The invariant that carries CalmPoolIsExact: while nothing crashed every *)
(* index keeps its first thread, list, queue and table name each worker    *)
(* and each task once, and the thread of the table's index holds the task. *)
Results == [task : Tasks, success : BOOLEAN]
ThreadStates ==
    [index : 0..PoolSize, up : BOOLEAN, events : SUBSET {"error", "exit"}, inbox : Seq(Tasks), outbox : Seq(Results)]
Pools ==
    [workers : [Indices -> 0..MaxThreads], idle : Seq(Indices), queue : Seq(Tasks),
     taskMap : [Tasks -> 0..PoolSize], threads : [Threads -> ThreadStates]]
Holds(thread, t) ==
    \/ \E k \in 1..Len(thread.inbox) : thread.inbox[k] = t
    \/ \E k \in 1..Len(thread.outbox) : thread.outbox[k].task = t
Quiet(p) ==
    /\ \A i \in Indices : p.workers[i] = i /\ p.threads[i].up
    /\ \A s \in Threads : p.threads[s].events = {}
Exact(p) ==
    /\ \A j, k \in 1..Len(p.idle) : p.idle[j] = p.idle[k] => j = k
    /\ \A j, k \in 1..Len(p.queue) : p.queue[j] = p.queue[k] => j = k
    /\ \A t, u \in Tasks : p.taskMap[t] = p.taskMap[u] /\ p.taskMap[t] # 0 => t = u
    /\ \A k \in 1..Len(p.queue) : p.taskMap[p.queue[k]] = 0
    /\ \A k \in 1..Len(p.idle), t \in Tasks : p.taskMap[t] # p.idle[k]
    /\ \A i \in Indices : (\E k \in 1..Len(p.idle) : p.idle[k] = i) \/ (\E t \in Tasks : p.taskMap[t] = i)
    /\ \A t \in Tasks : p.taskMap[t] # 0 => Holds(p.threads[p.taskMap[t]], t)
Placed(p, t) == (\E k \in 1..Len(p.queue) : p.queue[k] = t) \/ p.taskMap[t] # 0
WorkerInv ==
    /\ crashes \in 0..MaxCrashes /\ finished \in BOOLEAN
    /\ crashes = 0 /\ ~finished =>
          /\ pool \in Pools /\ Quiet(pool) /\ Exact(pool)
          /\ pool.queue = <<>> \/ pool.idle = <<>>
          /\ promise \in [Tasks -> {"none", "waiting", "resolved", "rejected"}]
          /\ \A t \in Tasks : promise[t] = "waiting" <=> Placed(pool, t)
=============================================================================
