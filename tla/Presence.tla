--------------------------------- MODULE Presence ---------------------------------
(***************************************************************************)
(* Who is in a workspace and looks at which file: the presence socket of   *)
(* an IDE page (pages/IdePage.tsx), the handlers of the pod it reaches     *)
(* (services/socketPresence.service.ts) and the hash of the workspace in   *)
(* Redis (services/redisPresence.service.ts).                              *)
(*                                                                         *)
(* Each page is of a user of its own; a page that reconnects is another    *)
(* socket.  A pod's commands reach Redis in order, and so do its answers.   *)
(* A broadcast merges the answer with what the pod's memory holds by then   *)
(* and goes to the sockets of that pod.  Publications on presence:sync     *)
(* have no subscriber.                                                     *)
(***************************************************************************)
EXTENDS Naturals, Sequences, FiniteSets

CONSTANTS
    Sockets, Pods, PodOf,  \* the pod each socket is connected to
    FileIds,               \* without 0, which is null
    MaxSwitches,           \* bound: changes of the active file
    MaxFaults              \* bound: failing commands, crashes, expiries

VARIABLES
    page,      \* of each socket: closed, connecting, open, left
    active,    \* activeFileId of its page
    unsent,    \* socket.io's buffer before the connection
    members,   \* workspacePresence: active file of each member, absent or not
    hash,      \* ws:presence:<workspaceId>
    commands,  \* of each pod, on the way to Redis
    answers,   \* to each pod, on the way back
    view,      \* activeCollaborators of each page: the members it shows
    switches,
    faults,    \* failed commands, crashes and expiries
    crossed    \* history: the update of an active file crossed a leave
presenceVars == <<page, active, unsent, members, hash, commands, answers, view, switches, faults, crossed>>

Absent == 99
Looks == FileIds \cup {0}
Entries == [Sockets -> Looks \cup {Absent}]
Nobody == [s \in Sockets |-> Absent]
Members(p) == {s \in Sockets : PodOf[s] = p /\ members[s] # Absent}

TypeOK ==
    /\ page \in [Sockets -> {"closed", "connecting", "open", "left"}]
    /\ active \in [Sockets -> Looks]
    /\ unsent \in [Sockets -> BOOLEAN]
    /\ members \in Entries /\ hash \in Entries
    /\ \A s \in Sockets : view[s] \in Entries
    /\ switches \in 0..MaxSwitches /\ faults \in 0..MaxFaults /\ crossed \in BOOLEAN

Init ==
    /\ page = [s \in Sockets |-> "closed"]
    /\ active = [s \in Sockets |-> 0]
    /\ unsent = [s \in Sockets |-> FALSE]
    /\ members = Nobody /\ hash = Nobody
    /\ commands = [p \in Pods |-> <<>>] /\ answers = [p \in Pods |-> <<>>]
    /\ view = [s \in Sockets |-> Nobody]
    /\ switches = 0 /\ faults = 0 /\ crossed = FALSE

Command(op, s, f) == [op |-> op, socket |-> s, file |-> f]
Broadcast == Command("hgetall", CHOOSE s \in Sockets : TRUE, 0)
Send(p, list) == commands' = [commands EXCEPT ![p] = @ \o list]

-----------------------------------------------------------------------------
(* The page and the handlers of its pod. *)

(* The workspace is loaded: the socket is made and, in the same commit of  *)
(* effects, the active file is announced to it. *)
OpenPage(s, f) ==
    /\ page[s] = "closed"
    /\ page' = [page EXCEPT ![s] = "connecting"]
    /\ active' = [active EXCEPT ![s] = f]
    /\ unsent' = [unsent EXCEPT ![s] = f # 0]
    /\ UNCHANGED <<members, hash, commands, answers, view, switches, faults, crossed>>

(* connect: what was buffered goes first and is ignored, the socket has no *)
(* workspace yet; then join-workspace. *)
Connect(s) ==
    /\ page[s] = "connecting"
    /\ page' = [page EXCEPT ![s] = "open"]
    /\ unsent' = [unsent EXCEPT ![s] = FALSE]
    /\ members' = [members EXCEPT ![s] = 0]
    /\ Send(PodOf[s], <<Command("hset", s, 0), Broadcast>>)
    /\ UNCHANGED <<active, hash, answers, view, switches, faults, crossed>>

(* active-file-change *)
SwitchFile(s, f) ==
    /\ page[s] \in {"connecting", "open"} /\ f # active[s]
    /\ switches < MaxSwitches /\ switches' = switches + 1
    /\ active' = [active EXCEPT ![s] = f]
    /\ IF page[s] = "open"
       THEN /\ members' = [members EXCEPT ![s] = f]
            /\ Send(PodOf[s], <<Command("hget", s, f), Broadcast>>)
            /\ UNCHANGED unsent
       ELSE unsent' = [unsent EXCEPT ![s] = TRUE] /\ UNCHANGED <<members, commands>>
    /\ UNCHANGED <<page, hash, answers, view, faults, crossed>>

(* Mutant: a member who leaves stays in the hash. *)
ForgottenLocally(s) == <<Broadcast>>
Forgotten(s) == <<Command("hdel", s, 0), Broadcast>>

(* leave-workspace or disconnect. *)
Leave(s) ==
    /\ page[s] \in {"connecting", "open"}
    /\ page' = [page EXCEPT ![s] = "left"]
    /\ unsent' = [unsent EXCEPT ![s] = FALSE]
    /\ members' = [members EXCEPT ![s] = Absent]
    /\ IF page[s] = "open" THEN Send(PodOf[s], Forgotten(s)) ELSE UNCHANGED commands
    /\ UNCHANGED <<active, hash, answers, view, switches, faults, crossed>>

-----------------------------------------------------------------------------
(* Redis. *)

Execute(p) ==
    LET c == Head(commands[p]) IN
    /\ commands[p] # <<>>
    /\ commands' = [commands EXCEPT ![p] = Tail(@)]
    /\ hash' = CASE c.op = "hset" -> [hash EXCEPT ![c.socket] = c.file]
                 [] c.op = "hdel" -> [hash EXCEPT ![c.socket] = Absent]
                 [] OTHER -> hash
    /\ answers' = CASE c.op = "hgetall" -> [answers EXCEPT ![p] = Append(@, [op |-> "all", command |-> c, hash |-> hash])]
                    [] c.op = "hget" /\ hash[c.socket] # Absent ->
                         [answers EXCEPT ![p] = Append(@, [op |-> "one", command |-> c, hash |-> Nobody])]
                    [] OTHER -> answers
    /\ UNCHANGED <<page, active, unsent, members, view, switches, faults, crossed>>

(* A failing hgetall is an empty hash; other failures are logged. *)
CommandFails(p) ==
    LET c == Head(commands[p]) IN
    /\ commands[p] # <<>> /\ faults < MaxFaults
    /\ faults' = faults + 1
    /\ commands' = [commands EXCEPT ![p] = Tail(@)]
    /\ answers' = IF c.op = "hgetall" THEN [answers EXCEPT ![p] = Append(@, [op |-> "all", command |-> c, hash |-> Nobody])]
                  ELSE answers
    /\ UNCHANGED <<page, active, unsent, members, hash, view, switches, crossed>>

Mine(s) == members[s]
(* broadcastPresence: the pod's own members win over those of the hash. *)
Shown(p, stored) == [s \in Sockets |-> IF s \in Members(p) THEN Mine(s) ELSE stored[s]]

BroadcastAnswered(p) ==
    LET a == Head(answers[p]) IN
    /\ answers[p] # <<>> /\ a.op = "all"
    /\ answers' = [answers EXCEPT ![p] = Tail(@)]
    /\ view' = [s \in Sockets |-> IF s \in Members(p) THEN Shown(p, a.hash) ELSE view[s]]
    /\ UNCHANGED <<page, active, unsent, members, hash, commands, switches, faults, crossed>>

(* updateActiveFile: the entry that was read is written again, also when   *)
(* it was deleted meanwhile. *)
EntryAnswered(p) ==
    LET a == Head(answers[p])  s == a.command.socket IN
    /\ answers[p] # <<>> /\ a.op = "one"
    /\ answers' = [answers EXCEPT ![p] = Tail(@)]
    /\ Send(p, <<Command("hset", s, a.command.file)>>)
    /\ crossed' = (crossed \/ members[s] = Absent)
    /\ UNCHANGED <<page, active, unsent, members, hash, view, switches, faults>>

(* An hour after the last join the hash goes, whoever is there. *)
Expire ==
    /\ hash # Nobody /\ faults < MaxFaults
    /\ faults' = faults + 1
    /\ hash' = Nobody
    /\ UNCHANGED <<page, active, unsent, members, commands, answers, view, switches, crossed>>

(* The pod dies: nobody deletes its entries. *)
Crash(p) ==
    /\ faults < MaxFaults /\ Members(p) # {}
    /\ faults' = faults + 1
    /\ page' = [s \in Sockets |-> IF PodOf[s] = p /\ page[s] # "closed" THEN "left" ELSE page[s]]
    /\ unsent' = [s \in Sockets |-> unsent[s] /\ PodOf[s] # p]
    /\ members' = [s \in Sockets |-> IF PodOf[s] = p THEN Absent ELSE members[s]]
    /\ commands' = [commands EXCEPT ![p] = <<>>] /\ answers' = [answers EXCEPT ![p] = <<>>]
    /\ UNCHANGED <<active, hash, view, switches, crossed>>

Next ==
    \/ \E s \in Sockets :
        \/ \E f \in Looks : OpenPage(s, f)
        \/ Connect(s)
        \/ \E f \in FileIds : SwitchFile(s, f)
        \/ Leave(s)
    \/ \E p \in Pods : Execute(p) \/ CommandFails(p) \/ BroadcastAnswered(p) \/ EntryAnswered(p) \/ Crash(p)
    \/ Expire

Spec == Init /\ [][Next]_presenceVars

-----------------------------------------------------------------------------
(* Properties. *)

Quiet(p) == commands[p] = <<>> /\ answers[p] = <<>>

(* When a pod has no answer to wait for, its pages show each other as they *)
(* are, whatever Redis did: broadcasts overtake neither each other nor the *)
(* changes they were made for.  And when no pod waits, no command failed    *)
(* and no update of an active file crossed a leave, Redis has exactly the   *)
(* members and their files. *)
PresenceIsCurrent ==
    /\ \A p \in Pods : Quiet(p) =>
        \A s, t \in Members(p) : view[s][t] = members[t]
    /\ (\A p \in Pods : Quiet(p)) /\ faults = 0 /\ ~crossed => hash = members

(* The invariant that carries it.  A pod sends and gets what concerns its  *)
(* own sockets; while its pages are wrong about each other an answer for   *)
(* all of them is still to come. *)
About(p) ==
    [op : {"hset", "hget", "hdel"}, socket : {s \in Sockets : PodOf[s] = p}, file : Looks] \cup {Broadcast}
Back(p) ==
    {b \in [op : {"all", "one"}, command : About(p), hash : Entries] : b.op = "one" => b.command.op = "hget"}
LinesTyped ==
    /\ commands = [p \in Pods |-> commands[p]] /\ answers = [p \in Pods |-> answers[p]]
    /\ \A p \in Pods : commands[p] \in Seq(About(p)) /\ answers[p] \in Seq(Back(p))
Coming(p) ==
    \/ \E k \in 1..Len(commands[p]) : commands[p][k].op = "hgetall"
    \/ \E k \in 1..Len(answers[p]) : answers[p][k].op = "all"
PagesCatchUp == \A p \in Pods : Coming(p) \/ \A s, t \in Members(p) : view[s][t] = members[t]

(* Of a line: none is in S; the last that is in S, or the first, is in T.  *)
NoneIn(line, S) == \A k \in 1..Len(line) : line[k] \notin S
LastIs(line, S, T) ==
    \A k \in 1..Len(line) : line[k] \in S /\ (\A j \in 1..Len(line) : j > k => line[j] \notin S) => line[k] \in T
FirstIs(line, S, T) ==
    \A k \in 1..Len(line) : line[k] \in S /\ (\A j \in 1..Len(line) : j < k => line[j] \notin S) => line[k] \in T

Sets(s) == {c \in About(PodOf[s]) : c.op = "hset" /\ c.socket = s}
Gets(s) == {c \in About(PodOf[s]) : c.op = "hget" /\ c.socket = s}
Dels(s) == {c \in About(PodOf[s]) : c.op = "hdel" /\ c.socket = s}
Ones(s) == {a \in Back(PodOf[s]) : a.op = "one" /\ a.command.socket = s}
Naming(s, f) == {c \in About(PodOf[s]) : c.file = f}
OnesNaming(s, f) == {a \in Back(PodOf[s]) : a.command.file = f}

(* What Redis will hold of a member at last is the file of the youngest    *)
(* read under way, or else of the youngest answer to be written back, or   *)
(* else of the youngest write, or else what it holds; and it hears of the  *)
(* member first by its HSET.  Of somebody who is gone it hears last by its *)
(* HDEL. *)
Follows(s, sent, back, f, at, stored) ==
    /\ at = "open" <=> f # Absent
    /\ at \in {"closed", "connecting"} =>
          NoneIn(sent, Sets(s) \cup Gets(s) \cup Dels(s)) /\ NoneIn(back, Ones(s)) /\ stored = Absent
    /\ f # Absent =>
          /\ NoneIn(sent, Dels(s))
          /\ stored # Absent \/ (~NoneIn(sent, Sets(s)) /\ FirstIs(sent, Sets(s) \cup Gets(s), Sets(s)))
          /\ LastIs(sent, Gets(s), Naming(s, f))
          /\ NoneIn(sent, Gets(s)) =>
                /\ LastIs(back, Ones(s), OnesNaming(s, f))
                /\ NoneIn(back, Ones(s)) =>
                      /\ LastIs(sent, Sets(s), Naming(s, f))
                      /\ NoneIn(sent, Sets(s)) => stored = f
    /\ f = Absent =>
          /\ LastIs(sent, Sets(s) \cup Dels(s), Dels(s))
          /\ NoneIn(sent, Sets(s) \cup Dels(s)) => stored = Absent
RedisCatchesUp ==
    faults = 0 /\ ~crossed =>
        \A s \in Sockets : Follows(s, commands[PodOf[s]], answers[PodOf[s]], members[s], page[s], hash[s])

PresenceInv == LinesTyped /\ PagesCatchUp /\ RedisCatchesUp
=============================================================================
