------------------------------ MODULE SnapshotPanel ------------------------------
(***************************************************************************)
(* The panel of a workspace's snapshots (components/Snapshots/             *)
(* SnapshotPanel.tsx) and the answers it gets: listSnapshots,              *)
(* getSnapshotFilesWithDiff and restoreSnapshot of                         *)
(* services/workspaceSnapshot.service.ts behind their routes.              *)
(*                                                                         *)
(* A diff is the snapshot's number and the version of the live files it    *)
(* was compared with.  An answer is what the server computed, on its way.  *)
(* What a checkpoint stores and keeps is SnapshotStore's matter.           *)
(***************************************************************************)
EXTENDS Naturals, FiniteSetsExt

CONSTANTS
    MaxSnapshots,  \* bound: snapshots of the workspace
    MaxSelects,    \* bound: requests for a snapshot's files
    MaxChanges     \* bound: changes of the live files, failing requests

VARIABLES
    taken,        \* snapshots of the workspace
    liveVersion,  \* of the live files
    panel,        \* the component's state; open: it is mounted
    cache,        \* snapshotFilesCacheRef
    requests,     \* requests for files under way
    listed,       \* answers with a list under way
    restores,     \* answers to a restore under way, whether to this mount
    failures      \* failing requests so far
panelVars == <<taken, liveVersion, panel, cache, requests, listed, restores, failures>>

Snapshots == 1..MaxSnapshots
None == [snap |-> 0, live |-> 0]
Newest == Max(taken \cup {0})
Diff(s) == [snap |-> s, live |-> liveVersion]
Diffs == [snap : 0..MaxSnapshots, live : 0..(2 * MaxChanges)]

Closed == [open |-> FALSE, list |-> {}, loadingList |-> FALSE, selected |-> 0, files |-> None,
           file |-> FALSE, loadingFiles |-> FALSE, controller |-> 0, confirm |-> FALSE, restoring |-> FALSE]

TypeOK ==
    /\ taken \subseteq Snapshots /\ liveVersion \in 0..(2 * MaxChanges)
    /\ panel.list \subseteq Snapshots /\ panel.selected \in 0..MaxSnapshots
    /\ panel.files \in Diffs /\ panel.controller \in 0..MaxSelects
    /\ cache \in [Snapshots -> Diffs]
    /\ \A r \in requests : r.number \in 1..MaxSelects /\ r.answer \in Diffs /\ r.aborted \in BOOLEAN
    /\ listed \subseteq SUBSET Snapshots
    /\ failures \in 0..MaxChanges

Init ==
    /\ taken \in {{}, {1}} /\ liveVersion = 0
    /\ panel = Closed /\ cache = [s \in Snapshots |-> None]
    /\ requests = {} /\ listed = {} /\ restores = {} /\ failures = 0

(* What is under way has no effect on the component that went. *)
Unmounted(left) ==
    /\ panel' = Closed
    /\ cache' = [s \in Snapshots |-> None]
    /\ requests' = {} /\ listed' = {}
    /\ restores' = {[r EXCEPT !.mine = FALSE] : r \in left}

-----------------------------------------------------------------------------
(* fetchSnapshots: on mount, and after a snapshot was created here. *)
OpenPanel ==
    /\ ~panel.open
    /\ panel' = [Closed EXCEPT !.open = TRUE, !.loadingList = TRUE]
    /\ listed' = {taken}
    /\ UNCHANGED <<taken, liveVersion, cache, requests, restores, failures>>

ListAnswered(list) ==
    /\ list \in listed /\ listed' = listed \ {list}
    /\ panel' = [panel EXCEPT !.list = list, !.loadingList = FALSE]
    /\ UNCHANGED <<taken, liveVersion, cache, requests, restores, failures>>

(* Mutant: a new selection leaves the old request alone. *)
AbortedNone == requests
AbortedOld == {[r EXCEPT !.aborted = @ \/ r.number = panel.controller] : r \in requests}

Selected(s) == [panel EXCEPT !.selected = s, !.file = FALSE, !.files = None, !.confirm = FALSE]

(* selectSnapshot: from the cache, or from the server, which answers 404   *)
(* when retention has taken the snapshot. *)
SelectCached(s) ==
    /\ panel.open /\ s \in panel.list /\ cache[s] # None
    /\ requests' = AbortedOld
    /\ panel' = [Selected(s) EXCEPT !.files = cache[s], !.file = TRUE, !.loadingFiles = FALSE, !.controller = 0]
    /\ UNCHANGED <<taken, liveVersion, cache, listed, restores, failures>>

SelectFetched(s) ==
    LET free == 1..MaxSelects \ {r.number : r \in requests} IN
    /\ panel.open /\ s \in panel.list /\ cache[s] = None
    /\ \E n \in free :
        /\ \A m \in free : n <= m
        /\ requests' = AbortedOld \cup
            {[number |-> n, snap |-> s, aborted |-> FALSE, answer |-> IF s \in taken THEN Diff(s) ELSE None]}
        /\ panel' = [Selected(s) EXCEPT !.loadingFiles = TRUE, !.controller = n]
    /\ UNCHANGED <<taken, liveVersion, cache, listed, restores, failures>>

(* The answer, or an error; the AbortError of an aborted request.  Only    *)
(* the request of the current controller ends the loading. *)
FilesAnswered(r, success) ==
    LET used == success /\ ~r.aborted /\ r.answer # None
        shown == IF used THEN [panel EXCEPT !.files = r.answer, !.file = TRUE] ELSE panel IN
    /\ r \in requests /\ requests' = requests \ {r}
    /\ success \/ failures < MaxChanges
    /\ failures' = IF success THEN failures ELSE failures + 1
    /\ cache' = IF used THEN [cache EXCEPT ![r.snap] = r.answer] ELSE cache
    /\ panel' = [shown EXCEPT !.loadingFiles = @ /\ panel.controller # r.number,
                               !.controller = IF @ = r.number THEN 0 ELSE @]
    /\ UNCHANGED <<taken, liveVersion, listed, restores>>

AskConfirm ==
    /\ panel.open /\ panel.file /\ ~panel.confirm
    /\ panel' = [panel EXCEPT !.confirm = TRUE]
    /\ UNCHANGED <<taken, liveVersion, cache, requests, listed, restores, failures>>

(* handleRestore, on the server too: the live files are the snapshot's. *)
Restore(success) ==
    /\ panel.open /\ panel.confirm /\ ~panel.restoring
    /\ success => panel.selected \in taken
    /\ success => liveVersion < 2 * MaxChanges
    /\ success \/ failures < MaxChanges
    /\ failures' = IF success THEN failures ELSE failures + 1
    /\ liveVersion' = IF success THEN liveVersion + 1 ELSE liveVersion
    /\ panel' = [panel EXCEPT !.restoring = TRUE]
    /\ restores' = restores \cup {[success |-> success, mine |-> TRUE]}
    /\ UNCHANGED <<taken, cache, requests, listed>>

(* The panel is closed by its page, a mount that came later too. *)
RestoreAnswered(r) ==
    /\ r \in restores
    /\ IF r.success THEN Unmounted(restores \ {r})
       ELSE /\ restores' = restores \ {r}
            /\ panel' = IF r.mine THEN [panel EXCEPT !.restoring = FALSE] ELSE panel
            /\ UNCHANGED <<cache, requests, listed>>
    /\ UNCHANGED <<taken, liveVersion, failures>>

(* handleCreate: the page creates the snapshot, then the list is fetched   *)
(* again, whether that worked or not. *)
Create(success) ==
    /\ panel.open
    /\ success \/ failures < MaxChanges
    /\ failures' = IF success THEN failures ELSE failures + 1
    /\ taken' = IF success THEN taken \cup {Newest + 1} ELSE taken
    /\ taken' \subseteq Snapshots
    /\ panel' = [panel EXCEPT !.loadingList = TRUE]
    /\ listed' = listed \cup {taken'}
    /\ UNCHANGED <<liveVersion, cache, requests, restores>>

ClosePanel ==
    /\ panel.open /\ Unmounted(restores)
    /\ UNCHANGED <<taken, liveVersion, failures>>

(* Somebody types; another page's snapshots push this one out. *)
LiveChange ==
    /\ liveVersion < MaxChanges /\ liveVersion' = liveVersion + 1
    /\ UNCHANGED <<taken, panel, cache, requests, listed, restores, failures>>

Prune(s) ==
    /\ s \in taken /\ s < Newest /\ failures < MaxChanges
    /\ taken' = taken \ {s} /\ failures' = failures + 1
    /\ UNCHANGED <<liveVersion, panel, cache, requests, listed, restores>>

Next ==
    \/ OpenPanel \/ ClosePanel \/ AskConfirm \/ LiveChange
    \/ \E list \in listed : ListAnswered(list)
    \/ \E s \in Snapshots : SelectCached(s) \/ SelectFetched(s) \/ Prune(s)
    \/ \E r \in requests, success \in BOOLEAN : FilesAnswered(r, success)
    \/ \E r \in restores : RestoreAnswered(r)
    \/ \E success \in BOOLEAN : Restore(success) \/ Create(success)
Spec == Init /\ [][Next]_panelVars

-----------------------------------------------------------------------------
(* Properties. *)

(* However answers overtake each other and selections, the files shown and *)
(* the file about to be restored are those of the selected snapshot, the   *)
(* cache holds each snapshot's own, and the panel is loading exactly while *)
(* the request for its selection is under way.                             *)
PanelShowsSelection ==
    panel.open =>
        /\ panel.files # None => panel.files.snap = panel.selected
        /\ panel.confirm => panel.file /\ panel.files.snap = panel.selected
        /\ \A s \in Snapshots : cache[s] # None => cache[s].snap = s
        /\ panel.loadingFiles <=>
            \E r \in requests : r.number = panel.controller /\ ~r.aborted /\ r.snap = panel.selected

(* The invariant that carries it: requests keep apart and compute what     *)
(* they were asked for, the one that is not aborted is the controller's    *)
(* and for the selection, and nothing is left of a panel that was closed.  *)
Panels ==
    [open : BOOLEAN, list : SUBSET Snapshots, loadingList : BOOLEAN, selected : 0..MaxSnapshots,
     files : Diffs, file : BOOLEAN, loadingFiles : BOOLEAN, controller : 0..MaxSelects,
     confirm : BOOLEAN, restoring : BOOLEAN]
FileRequests == [number : 1..MaxSelects, snap : Snapshots, aborted : BOOLEAN, answer : Diffs]
OfSelection ==
    \A r \in requests :
        /\ r.answer # None => r.answer.snap = r.snap
        /\ ~r.aborted => r.number = panel.controller /\ r.snap = panel.selected /\ panel.loadingFiles
PanelInv ==
    /\ panel \in Panels /\ requests \subseteq FileRequests
    /\ \A r, q \in requests : r.number = q.number => r = q
    /\ OfSelection
    /\ panel.file => panel.files # None
    /\ ~panel.open => requests = {} /\ cache = [s \in Snapshots |-> None] /\ ~panel.loadingFiles
    /\ PanelShowsSelection
=============================================================================
