------------------------------ MODULE FileTree ------------------------------
(* The file tree of one open IDE page (src/frontend/src/pages/IdePage.tsx) *)
(* against the server's rows: the optimistic creation and deletion, the    *)
(* refetches that events and reconnections ask for, the cache the server   *)
(* answers them from (repositories/file.repository.ts,                     *)
(* utils/redisCache.ts), the events of other users' changes                *)
(* (services/workspaceFile.service.ts) and the socket they arrive on.      *)
EXTENDS Integers, FiniteSets, Sequences

CONSTANTS
    Files,          \* the ids the server can give
    MaxCalls,       \* bound: creations and deletions, by anybody
    MaxFetches,     \* bound: listings asked for
    MaxDrops        \* bound: times the socket breaks

Temp(f) == <<"temp", f>>   \* the temporary entry of the file that will get id f
Entries == Files \cup {Temp(f) : f \in Files}
NoFile == "none"
Update == <<"update">>     \* file-tree-update alone

VARIABLES
    rows, given,    \* the files table; history: the ids given so far
    cachedTree, staleTree,   \* ws:tree, {} or {its value}; history: stored after a change overtook it
    shown,          \* files: how often each entry is in the list of the page
    active, wiped,  \* the open file; history: the files whose shared text the page has emptied
    calls,          \* creations and deletions in flight
    fetches, asked, \* listings in flight, and how many were asked for
    newest,         \* the youngest listing answered
    misled,         \* history: what is shown came from an overtaken answer, or was put back
    events, presence, \* events on their way to the page; its socket: off, connected, joined
    begun, drops

treeVars == <<rows, given, cachedTree, staleTree, shown, active, wiped, calls, fetches, asked, newest, misled,
              events, presence, begun, drops>>
serverVars == <<rows, cachedTree, staleTree>>
pageVars == <<shown, active, wiped, newest, misled>>

Call == [by : {"page", "other"}, kind : {"create", "delete"}, file : Files,
         step : {"sent", "written", "done", "failed"}]
Fetch == [number : 1..MaxFetches, step : {"asked", "read", "answered"},
          tree : SUBSET Files, stale : BOOLEAN]

-----------------------------------------------------------------------------
As(files) == [e \in Entries |-> IF e \in files THEN 1 ELSE 0]
With(e) == [shown EXCEPT ![e] = @ + 1]
Without(e) == [shown EXCEPT ![e] = 0]

Init ==
    /\ rows \in SUBSET Files /\ given = rows /\ cachedTree = {} /\ staleTree = FALSE
    /\ shown = As(rows) /\ active = NoFile /\ wiped = {}
    /\ calls = {} /\ fetches = {} /\ asked = 0 /\ newest = 0 /\ misled = FALSE
    /\ events = <<>> /\ presence = "off" /\ begun = 0 /\ drops = 0

(* Reaches the page when its socket is in the room. *)
Emitted(more) == IF presence = "joined" THEN events \o more ELSE events

(* handleFileCreate and handleFileDelete up to their await, and the same   *)
(* calls of somebody else. *)
Fresh(f) == f \notin given     \* ids are never given twice
Send(by, kind, f) ==
    /\ begun < MaxCalls /\ begun' = begun + 1
    /\ \A c \in calls : ~(c.by = by /\ c.file = f)
    /\ given' = given \cup {f}
    /\ calls' = calls \cup {[by |-> by, kind |-> kind, file |-> f, step |-> "sent"]}
    /\ UNCHANGED <<serverVars, fetches, asked, newest, misled, events, presence, drops>>
CreateFile(f) ==
    /\ Fresh(f) /\ Send("page", "create", f)
    /\ shown' = With(Temp(f)) /\ UNCHANGED <<active, wiped>>
DeleteFile(f) ==
    /\ shown[f] > 0 /\ Send("page", "delete", f)
    /\ shown' = Without(f)
    /\ wiped' = IF active = f THEN wiped \cup {f} ELSE wiped   \* editorRef.current.setValue('')
    /\ UNCHANGED active
OtherCalls(f) ==
    /\ (Fresh(f) /\ Send("other", "create", f)) \/ (f \in rows /\ Send("other", "delete", f))
    /\ UNCHANGED <<shown, active, wiped>>
Open(f) ==
    /\ shown[f] > 0 /\ active # f
    /\ active' = f /\ UNCHANGED <<serverVars, shown, wiped, calls, fetches, asked, newest, misled, events, presence, given, begun, drops>>

(* The handlers on the server: the row, then the cache, then the events.   *)
(* A failing statement changes nothing. *)
Step(c, s) == (calls \ {c}) \cup {[c EXCEPT !.step = s]}
Write(c, succeeds) ==
    /\ c.step = "sent"
    /\ rows' = CASE ~succeeds -> rows
                 [] succeeds /\ c.kind = "create" -> rows \cup {c.file}
                 [] OTHER -> rows \ {c.file}
    /\ calls' = IF succeeds THEN Step(c, "written") ELSE IF c.by = "page" THEN Step(c, "failed") ELSE calls \ {c}
    /\ UNCHANGED <<cachedTree, staleTree, pageVars, fetches, asked, events, presence, given, begun, drops>>
Announced(c) == <<IF c.kind = "create" THEN <<"created", c.file>> ELSE <<"deleted", c.file>> >>
Announce(c) ==
    /\ c.step = "written"
    /\ cachedTree' = {} /\ staleTree' = FALSE
    /\ events' = Emitted(Announced(c))
    /\ calls' = IF c.by = "page" THEN Step(c, "done") ELSE calls \ {c}
    /\ UNCHANGED <<rows, pageVars, fetches, asked, presence, given, begun, drops>>

(* The answer: map the temporary entry to the row and open it, or leave    *)
(* the list as it is; tell the others, through the socket. *)
Answered(c) ==
    /\ c.step = "done"
    /\ shown' = IF c.kind = "create"
                THEN [Without(Temp(c.file)) EXCEPT ![c.file] = @ + shown[Temp(c.file)]] ELSE shown
    /\ active' = IF c.kind = "create" THEN c.file ELSE active
    /\ events' = Emitted(<<Update>>)
    /\ calls' = calls \ {c}
    /\ UNCHANGED <<serverVars, wiped, newest, misled, fetches, asked, presence, given, begun, drops>>

(* The roll back: drop the temporary entry, or put the entry back. *)
RollBack(c) ==
    /\ c.step = "failed"
    /\ shown' = IF c.kind = "create" THEN Without(Temp(c.file)) ELSE With(c.file)
    /\ misled' = (misled \/ c.kind = "delete")
    /\ calls' = calls \ {c}
    /\ UNCHANGED <<serverVars, active, wiped, newest, fetches, asked, events, presence, given, begun, drops>>

(* fetchFiles, answered by getWorkspaceFiles from the cache or, in two     *)
(* more steps, from the rows.  The answer replaces the list.  One that     *)
(* fails is logged. *)
Asks ==
    /\ asked < MaxFetches /\ asked' = asked + 1
    /\ fetches' = fetches \cup {[number |-> asked + 1, step |-> "asked", tree |-> {}, stale |-> FALSE]}
ServeFetch(q) ==
    /\ q.step = "asked"
    /\ fetches' = (fetches \ {q}) \cup
           {IF cachedTree = {} THEN [q EXCEPT !.step = "read", !.tree = rows]
            ELSE [q EXCEPT !.step = "answered", !.tree = CHOOSE t \in cachedTree : TRUE, !.stale = staleTree]}
    /\ UNCHANGED <<serverVars, pageVars, calls, asked, events, presence, given, begun, drops>>
StoreTree(q) ==
    /\ q.step = "read"
    /\ cachedTree' = {q.tree}
    /\ staleTree' = (q.tree # rows /\ \A c \in calls : c.step # "written")
    /\ fetches' = (fetches \ {q}) \cup {[q EXCEPT !.step = "answered"]}
    /\ UNCHANGED <<rows, pageVars, calls, asked, events, presence, given, begun, drops>>
Younger(q) == IF q.number < newest THEN newest ELSE q.number
Show(q) ==
    /\ q.step = "answered"
    /\ shown' = As(q.tree)
    /\ misled' = (q.stale \/ q.number < newest) /\ newest' = Younger(q)
    /\ fetches' = fetches \ {q}
    /\ UNCHANGED <<serverVars, active, wiped, calls, asked, events, presence, given, begun, drops>>
FetchFails(q) ==
    /\ q.step = "asked"
    /\ fetches' = fetches \ {q} /\ misled' = TRUE /\ newest' = Younger(q)
    /\ UNCHANGED <<serverVars, shown, active, wiped, calls, asked, events, presence, given, begun, drops>>

(* The events, in order.  Each asks for a listing; those of a change say   *)
(* what changed, in a second event that the page is taken to receive       *)
(* together with the first. *)
Received(e) ==
    CASE e = Update -> shown
      [] e # Update /\ e[1] = "deleted" -> Without(e[2])
      [] OTHER -> IF shown[e[2]] > 0 THEN shown ELSE With(e[2])
Receive ==
    /\ events # <<>> /\ events' = Tail(events)
    /\ shown' = Received(Head(events)) /\ Asks
    /\ UNCHANGED <<serverVars, active, wiped, newest, misled, calls, presence, given, begun, drops>>

(* The presence socket: on 'connect' the page asks to join and refetches;  *)
(* the server tells a socket that joins to refetch; a broken socket loses  *)
(* what was on its way. *)
Connect ==
    /\ presence = "off" /\ presence' = "connected" /\ Asks
    /\ UNCHANGED <<serverVars, pageVars, calls, events, given, begun, drops>>
NothingOnJoin == <<>>   \* a mutant: a socket that joins is told nothing
OnJoin == <<Update>>
JoinWorkspace ==
    /\ presence = "connected" /\ presence' = "joined" /\ events' = events \o OnJoin
    /\ UNCHANGED <<serverVars, pageVars, calls, fetches, asked, given, begun, drops>>
Drop ==
    /\ presence # "off" /\ drops < MaxDrops /\ drops' = drops + 1
    /\ presence' = "off" /\ events' = <<>>
    /\ UNCHANGED <<serverVars, pageVars, calls, fetches, asked, given, begun>>

Next ==
    \/ \E f \in Files : CreateFile(f) \/ DeleteFile(f) \/ OtherCalls(f) \/ Open(f)
    \/ \E c \in calls : (\E succeeds \in BOOLEAN : Write(c, succeeds)) \/ Announce(c) \/ Answered(c) \/ RollBack(c)
    \/ \E q \in fetches : ServeFetch(q) \/ StoreTree(q) \/ Show(q) \/ FetchFails(q)
    \/ Receive \/ Connect \/ JoinWorkspace \/ Drop

Spec == Init /\ [][Next]_treeVars

-----------------------------------------------------------------------------
Event == {Update} \cup ({"created", "deleted"} \X Files)
TypeOK ==
    /\ rows \subseteq given /\ given \subseteq Files /\ cachedTree \in SUBSET SUBSET Files /\ staleTree \in BOOLEAN
    /\ shown \in [Entries -> Nat] /\ active \in Files \cup {NoFile} /\ wiped \subseteq Files
    /\ calls \subseteq Call /\ (\A c \in calls : c.file \in given) /\ fetches \subseteq Fetch
    /\ asked \in 0..MaxFetches /\ newest \in 0..asked /\ misled \in BOOLEAN
    /\ events \in Seq(Event)
    /\ presence \in {"off", "connected", "joined"}
    /\ begun \in 0..MaxCalls /\ drops \in 0..MaxDrops

Quiet == presence = "joined" /\ events = <<>> /\ calls = {} /\ fetches = {}

(* Once every call and listing is answered and every event handled, the    *)
(* page lists the files the workspace has, each once: through optimistic   *)
(* entries, events that overtake answers, the two-step cache and broken    *)
(* sockets.  Only a listing overtaken on its way, one that failed, or an   *)
(* entry put back by a roll back may leave the list wrong, until the next  *)
(* listing. *)
TreeConverges == Quiet /\ ~misled => shown = As(rows)

(* The invariant that carries it.  A change of the rows that the page may  *)
(* not know of makes it ask for another listing (Coming).  Until then the  *)
(* cache and the youngest listing are of the rows as they are, and so is   *)
(* the list once that listing is in, but for the entries that a call of    *)
(* the page is about. *)
Coming ==
    \/ presence # "joined" \/ events # <<>>
    \/ \E c \in calls : c.step = "written"
CacheFollows == \A t \in cachedTree : t = rows \/ staleTree \/ \E c \in calls : c.step = "written"
Youngest(q) == q.number = asked
ListingFollows ==
    \A q \in fetches : Youngest(q) /\ q.step # "asked" => q.tree = rows \/ q.stale \/ Coming
Optimistic(e) ==
    \E c \in calls : c.by = "page" /\ e = (IF c.kind = "create" THEN Temp(c.file) ELSE c.file)
ListFollows ==
    \/ \E q \in fetches : Youngest(q)
    \/ /\ newest = asked
       /\ misled \/ Coming \/ \A e \in Entries : shown[e] = As(rows)[e] \/ Optimistic(e)
TreeInv ==
    /\ \A q \in fetches : q.number <= asked
    /\ CacheFollows /\ ListingFollows /\ ListFollows

(* "2. Roll back deletion on error" (IdePage.tsx:199): a file whose        *)
(* deletion failed is in the list as it was, and keeps its text. *)
FailedDeletionKeepsText ==
    \A f \in wiped : f \in rows => \E c \in calls : c.file = f /\ c.kind = "delete"
=============================================================================
