----------------------------- MODULE TimelapsePlayer -----------------------------
(***************************************************************************)
(* The timelapse of a file: useTimelapsePlayer of                          *)
(* components/Editor/TimelapseReplayer.tsx, its buttons and keys, and the  *)
(* history it loads.  A timeline is the number of its last frame; which    *)
(* frames it has is Timeline's matter.                                      *)
(***************************************************************************)
EXTENDS Naturals

CONSTANTS
    MaxFrames,    \* bound: last frame of a history
    StepDivisor,  \* playback takes at most this many steps and one, 100 in the code
    MaxLoads      \* bound: histories asked for

VARIABLES
    player,     \* the hook's state
    histories,  \* answers under way: last frame, whether it is still wanted
    loads       \* histories asked for so far
playerVars == <<player, histories, loads>>

Speeds == {"0.5", "1", "2", "4"}
Fresh == [mounted |-> FALSE, maxClock |-> 0, currentClock |-> 0, isPlaying |-> FALSE,
          speed |-> "1", isLoading |-> TRUE, error |-> FALSE]

TypeOK ==
    /\ player.maxClock \in 0..MaxFrames /\ player.speed \in Speeds
    /\ player.isPlaying \in BOOLEAN /\ player.isLoading \in BOOLEAN /\ player.error \in BOOLEAN
    /\ \A h \in histories : h.last \in 0..MaxFrames /\ h.cancelled \in BOOLEAN
    /\ loads \in 0..MaxLoads

Init == player = Fresh /\ histories = {} /\ loads = 0

Larger(a, b) == IF a < b THEN b ELSE a
Smaller(a, b) == IF a < b THEN a ELSE b

(* Mutant: an answer that came too late is used. *)
AllWanted(hs) == hs
Cancelled(hs) == {[h EXCEPT !.cancelled = TRUE] : h \in hs}

-----------------------------------------------------------------------------
(* The effect of workspaceId and fileId: load, cancelling the load before. *)
(* The server answers with steps, with a state to replay or with neither,  *)
(* one empty frame. *)
Load(last) ==
    /\ loads < MaxLoads /\ loads' = loads + 1
    /\ player' = [player EXCEPT !.mounted = TRUE, !.isLoading = TRUE, !.error = FALSE]
    /\ histories' = Cancelled(histories) \cup {[number |-> loads', last |-> last, cancelled |-> FALSE]}

Loaded(h) ==
    /\ h \in histories /\ histories' = histories \ {h}
    /\ player' = IF h.cancelled THEN player
                 ELSE [player EXCEPT !.isLoading = FALSE, !.maxClock = h.last, !.currentClock = h.last]
    /\ UNCHANGED loads

LoadFails(h) ==
    /\ h \in histories /\ histories' = histories \ {h}
    /\ player' = IF h.cancelled THEN player ELSE [player EXCEPT !.isLoading = FALSE, !.error = TRUE]
    /\ UNCHANGED loads

Close ==
    /\ player.mounted
    /\ player' = Fresh
    /\ histories' = Cancelled(histories)
    /\ UNCHANGED loads

(* The ticker. *)
StepSize == Larger(1, player.maxClock \div StepDivisor)

(* Mutant: the end is noticed one step late. *)
Passes(next) == next > player.maxClock + 1
Reaches(next) == next >= player.maxClock
Tick ==
    LET next == player.currentClock + StepSize IN
    /\ player.mounted /\ player.isPlaying
    /\ player' = IF Reaches(next) THEN [player EXCEPT !.currentClock = player.maxClock, !.isPlaying = FALSE]
                 ELSE [player EXCEPT !.currentClock = next]
    /\ UNCHANGED <<histories, loads>>

(* Keys work while the history loads and when it failed; the buttons and   *)
(* the scrubber are not there then. *)
Shown == player.mounted /\ ~player.isLoading /\ ~player.error
Stopped(clock) == player' = [player EXCEPT !.currentClock = clock, !.isPlaying = FALSE]

Operate ==
    /\ player.mounted
    /\ \/ player' = [player EXCEPT !.isPlaying = ~@]
       \/ Stopped(0)
       \/ Stopped(player.maxClock)
       \/ Stopped(IF player.currentClock = 0 THEN 0 ELSE player.currentClock - 1)
       \/ Stopped(Smaller(player.maxClock, player.currentClock + 1))
       \/ Shown /\ \E clock \in 0..player.maxClock : Stopped(clock)
    /\ UNCHANGED <<histories, loads>>

CycleSpeed ==
    /\ Shown
    /\ player' = [player EXCEPT !.speed = CASE @ = "4" -> "0.5" [] @ = "0.5" -> "1" [] @ = "1" -> "2" [] OTHER -> "4"]
    /\ UNCHANGED <<histories, loads>>

Next ==
    \/ \E last \in 0..MaxFrames : Load(last)
    \/ \E h \in histories : Loaded(h) \/ LoadFails(h)
    \/ Close \/ Tick \/ Operate \/ CycleSpeed
Spec == Init /\ [][Next]_playerVars

-----------------------------------------------------------------------------
(* Properties. *)

(* The clock names a frame of the loaded timeline, whatever is pressed     *)
(* while it plays or loads, and a replay is loading exactly as long as an  *)
(* answer for it is on its way. *)
ClockStaysInTimeline ==
    /\ player.currentClock <= player.maxClock
    /\ player.mounted => (player.isLoading <=> \E h \in histories : ~h.cancelled)

(* The invariant that carries it: of the loads under way at most one is    *)
(* wanted, and none when the replayer is closed.                           *)
Players ==
    [mounted : BOOLEAN, maxClock : 0..MaxFrames, currentClock : 0..MaxFrames, isPlaying : BOOLEAN,
     speed : Speeds, isLoading : BOOLEAN, error : BOOLEAN]
Loads == [number : 1..MaxLoads, last : 0..MaxFrames, cancelled : BOOLEAN]
PlayerInv ==
    /\ player \in Players /\ histories \subseteq Loads /\ loads \in 0..MaxLoads
    /\ \A g, h \in histories : ~g.cancelled /\ ~h.cancelled => g = h
    /\ ~player.mounted => \A h \in histories : h.cancelled
    /\ ClockStaysInTimeline
=============================================================================
