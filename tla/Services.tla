------------------------------- MODULE Services -------------------------------
(* Services that share nothing with each other: warm containers            *)
(* (ContainerPool) and the debouncer (AdaptiveDebouncer), the worker       *)
(* threads (WorkerPool), the two views of the past: the snapshot panel     *)
(* (SnapshotPanel) and the replayer (TimelapsePlayer), the editor of the   *)
(* page (EditorClient) and its file list (FileTree), the text of a file    *)
(* that is replaced (FileContents), and who may do what (AccessControl). *)
EXTENDS ContainerPool, AdaptiveDebouncer, AccessControl, FileContents

CONSTANTS
    PoolSize, MaxTasks, MaxThreads, MaxCrashes,
    MaxSnapshots, MaxSelects,
    MaxPanelChanges,    \* SnapshotPanel's MaxChanges
    MaxFrames, StepDivisor, MaxLoads,
    Tabs, NameOf, MaxTyped, MaxLosses, MaxOpened,   \* see EditorClient
    Files, MaxCalls, MaxFetches, MaxDrops           \* see FileTree

VARIABLES
    threads,    \* WorkerPool's pool
    promise, crashes, finished,
    taken, liveVersion, panel, panelCache, requests, listed, restores, refused,
    player, histories, loads,
    rooms, tab, ydoc, link, uploaded, bound, models, typed, abandoned, edits, losses, opened,
    rows, given, cachedTree, staleTree, shown, active, wiped, calls, fetches, asked, newest,
    misled, events, presence, begun, drops

Workers == INSTANCE WorkerPool WITH pool <- threads
Panel == INSTANCE SnapshotPanel WITH cache <- panelCache, failures <- refused, MaxChanges <- MaxPanelChanges
Player == INSTANCE TimelapsePlayer
Editor == INSTANCE EditorClient
Page == INSTANCE FileTree

ASSUME WorkerAssumption ==
    /\ PoolSize \in Nat /\ MaxThreads \in Nat /\ PoolSize <= MaxThreads
    /\ MaxTasks \in Nat /\ MaxCrashes \in Nat
ASSUME PanelAssumption == MaxSnapshots \in Nat \ {0} /\ MaxSelects \in Nat /\ MaxPanelChanges \in Nat
ASSUME PlayerAssumption == MaxFrames \in Nat /\ StepDivisor \in Nat \ {0} /\ MaxLoads \in Nat
ASSUME EditorAssumption == MaxTyped \in Nat /\ MaxLosses \in Nat /\ MaxOpened \in Nat
(* The temporary ids of the page are none the server gives. *)
ASSUME TreeAssumption ==
    /\ MaxCalls \in Nat /\ MaxFetches \in Nat /\ MaxDrops \in Nat
    /\ \A f \in Files : Page!Temp(f) \notin Files

workerVars == <<threads, promise, crashes, finished>>
panelVars == <<taken, liveVersion, panel, panelCache, requests, listed, restores, refused>>
playerVars == <<player, histories, loads>>
editorVars == <<rooms, tab, ydoc, link, uploaded, bound, models, typed, abandoned, edits, losses, opened>>
pageVars == <<rows, given, cachedTree, staleTree, shown, active, wiped, calls, fetches, asked, newest,
              misled, events, presence, begun, drops>>

CalmPoolIsExact == Workers!CalmPoolIsExact

(* What the page shows of the past: the snapshot selected last, a clock    *)
(* inside the history. *)
HistoryViewsSpec == Panel!Spec /\ Player!Spec
HistoryViewsAreRight == Panel!PanelShowsSelection /\ Player!ClockStaysInTimeline

(* See the modules. *)
EditorIsFaithful == Editor!EditorIsFaithful
TreeConverges == Page!TreeConverges

(* All parts at once, and that their variables keep their types. *)
ServicesSpec ==
    /\ Spec /\ DebouncerSpec /\ Workers!Spec /\ Panel!Spec /\ Player!Spec /\ Editor!Spec /\ Page!Spec /\ File!Spec
    /\ AccessSpec /\ Present!Spec
TypesOK ==
    /\ TypeOK /\ DebouncerTypeOK
    /\ Workers!TypeOK /\ Panel!TypeOK /\ Player!TypeOK /\ Roles!TypeOK /\ Users!TypeOK /\ Page!TypeOK
    /\ Present!TypeOK /\ Editor!TypeOK /\ File!TypeOK
=============================================================================
