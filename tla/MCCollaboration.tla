---------------------------- MODULE MCCollaboration ----------------------------
(* Instances for TLC of what keeps the editors of one file together: the   *)
(* room inside a pod and the distributed lock, and, as instances, the mesh *)
(* of pods for text and for cursors.  In each behaviour one of them moves:  *)
(* the states of the run are the sum of theirs.                            *)
EXTENDS DocRoom, DistributedLock, TLC

CONSTANTS
    MaxUpdates, MaxOpens, MaxDrops, MaxClock, MaxSnags,
    Editor,     \* sockets of the cursors' room
    SocketPod   \* the pod each of them is connected to

ASSUME MeshAssumption == MaxUpdates \in Nat /\ MaxOpens \in Nat /\ MaxDrops \in Nat
ASSUME CursorAssumption == MaxClock \in Nat \ {0} /\ MaxSnags \in Nat /\ SocketPod \in [Editor -> Pod]

VARIABLES part,
    room, text, answer, awaiting, bus, linked, state, list, rows, made, opens, drops, heard, copies, loads,
    place, rooms, links, clock, states, batch, origin, parting, cursorBus, shown, stalled, snags, missed, skipped

(* Calls of the lock, two of them on the same pod, and one editor on each. *)
LockCalls == {"t1", "t2", "t3"}
CallsAt == [t \in LockCalls |-> IF t = "t1" THEN "p1" ELSE "p2"]
TwoEditors == {"e1", "e2"}
OnePerPod == [e \in TwoEditors |-> IF e = "e1" THEN "p1" ELSE "p2"]

Mesh == INSTANCE RedisMesh WITH Pods <- Pod
Cursors == INSTANCE AwarenessMesh WITH Pods <- Pod, Editors <- Editor, PodOf <- SocketPod

meshVars == <<room, text, answer, awaiting, bus, linked, state, list, rows, made, opens, drops,
              heard, copies, loads>>
cursorVars == <<place, rooms, links, clock, states, batch, origin, parting, cursorBus, shown, stalled,
                snags, missed, skipped>>

MCInit ==
    /\ part \in {"room", "lock", "mesh", "cursors"}
    /\ Init /\ LockInit /\ Mesh!Init /\ Cursors!Init

RoomMoves == part = "room" /\ Next /\ UNCHANGED <<part, lockVars, meshVars, cursorVars>>
LockMoves == part = "lock" /\ LockNext /\ UNCHANGED <<part, vars, meshVars, cursorVars>>
MeshMoves == part = "mesh" /\ Mesh!Next /\ UNCHANGED <<part, vars, lockVars, cursorVars>>
CursorsMove == part = "cursors" /\ Cursors!Next /\ UNCHANGED <<part, vars, lockVars, meshVars>>

MCNext == RoomMoves \/ LockMoves \/ MeshMoves \/ CursorsMove

allVars == <<part, vars, lockVars, meshVars, cursorVars>>

MCSpec == MCInit /\ [][MCNext]_allVars /\ Fairness /\ LockFairness

(* The variables of the four modules keep their types. *)
TypesOK ==
    /\ TypeOK /\ LockTypeOK
    /\ Mesh!TypeOK /\ Cursors!TypeOK

(* See the modules. *)
RoomsMissNothing == Mesh!RoomsMissNothing
CursorsConverge == Cursors!CursorsConverge
=============================================================================
