--------------------------- MODULE AdaptiveDebouncer ---------------------------
(***************************************************************************)
(* AdaptivePersistenceDebouncer of services/adaptiveDebouncer.service.ts:  *)
(* the timer that decides when an edited document is saved.  Time is       *)
(* Date.now() in whatever unit the constants are given in; a timer fires   *)
(* when it is due (the event loop is not modelled as late).                *)
(***************************************************************************)
EXTENDS Integers, FiniteSets

CONSTANTS
    Window,           \* 1000 ms: edits older than this do not count as velocity
    BaseDelay,        \* baseDelayMs
    MaxBurstDelay,    \* maxBurstDelayMs
    MaxDeferral,      \* maxDeferralMs
    BurstThreshold,   \* burstVelocityThreshold
    Ramp,             \* 10: edits above the threshold that reach the full delay
    NoTimer,          \* this.timer = null
    MaxNow,           \* bound: length of a behaviour
    MaxEdits          \* bound: edits recorded in one unit of time

ASSUME DelayAssumption ==
    /\ Window \in Nat /\ MaxDeferral \in Nat /\ BurstThreshold \in Nat
    /\ BaseDelay \in Nat \ {0} /\ MaxBurstDelay \in Nat
    /\ BaseDelay <= MaxBurstDelay /\ BaseDelay <= MaxDeferral
    /\ Ramp \in Nat \ {0}
ASSUME NoTimerAssumption == NoTimer \notin Nat
ASSUME HorizonAssumption == MaxNow \in Nat /\ MaxEdits \in Nat

VARIABLES
    now,        \* Date.now()
    stamps,     \* editTimestamps: <<time, n>> is the nth edit recorded at time
    firstEdit,  \* firstEditTime
    timer,      \* when the pending timer is due
    unsaved,    \* history: times of the edits no flush or cancel has covered
    lastFlush   \* history: when onFlush was last called
debouncerVars == <<now, stamps, firstEdit, timer, unsaved, lastFlush>>

DebouncerTypeOK ==
    /\ now \in 0..MaxNow
    /\ stamps \subseteq (0..MaxNow) \X (1..MaxEdits)
    /\ firstEdit \in 0..MaxNow
    /\ timer \in Nat \cup {NoTimer}
    /\ unsaved \subseteq 0..MaxNow
    /\ lastFlush \in 0..MaxNow

DebouncerInit ==
    /\ now = 0
    /\ stamps = {}
    /\ firstEdit = 0
    /\ timer = NoTimer
    /\ unsaved = {}
    /\ lastFlush = 0

EditsAt(time) == {s \in stamps : s[1] = time}

(* The edits of the last second, the one made now included. *)
Recent == {s \in stamps \cup {<<now, Cardinality(EditsAt(now)) + 1>>} :
              s[1] >= now - Window}

(* Mutant: the burst branch is not clamped by Math.min. *)
UnclampedDelay(velocity) ==
    IF velocity >= BurstThreshold
      THEN BaseDelay + ((velocity - BurstThreshold) * (MaxBurstDelay - BaseDelay)) \div Ramp
      ELSE BaseDelay

(* setTimeout truncates a fractional delay. *)
Delay(velocity) ==
    IF velocity < BurstThreshold THEN BaseDelay
    ELSE IF velocity - BurstThreshold >= Ramp THEN MaxBurstDelay
    ELSE BaseDelay + ((velocity - BurstThreshold) * (MaxBurstDelay - BaseDelay)) \div Ramp

(* Mutant: the pending timer survives a flush it did not cause. *)
TimerKeptByFlush == IF timer = now THEN NoTimer ELSE timer

TimerAfterFlush == NoTimer

(* flush: timer and window are reset before onFlush is called. *)
FlushNow ==
    /\ timer' = TimerAfterFlush
    /\ stamps' = {}
    /\ firstEdit' = 0
    /\ unsaved' = {}
    /\ lastFlush' = now

(* Mutants: every edit restarts the deferral; it starts at oneSecAgo. *)
LastEditTime == now
WindowStart == IF stamps = {} THEN now - Window ELSE firstEdit

(* firstEditTime moves only when no edit is remembered. *)
FirstEditTime == IF stamps = {} THEN now ELSE firstEdit

(* Mutant: the new edit is scheduled without clearing the old timer. *)
KeepTimer(due) == IF timer = NoTimer THEN due ELSE timer

(* clearTimeout, then setTimeout *)
Reschedule(due) == due

(* recordEdit below the ceiling: the timer starts again. *)
RecordEdit ==
    /\ Cardinality(EditsAt(now)) < MaxEdits
    /\ now - FirstEditTime < MaxDeferral
    /\ stamps' = Recent
    /\ firstEdit' = FirstEditTime
    /\ timer' = Reschedule(now + Delay(Cardinality(Recent)))
    /\ unsaved' = unsaved \cup {now}
    /\ UNCHANGED <<now, lastFlush>>

(* recordEdit at the ceiling flushes at once. *)
RecordAtCeiling ==
    /\ Cardinality(EditsAt(now)) < MaxEdits
    /\ now - FirstEditTime >= MaxDeferral
    /\ FlushNow
    /\ UNCHANGED now

(* The timer fires; nothing else may happen first once it is due. *)
TimerFires ==
    /\ timer # NoTimer
    /\ timer = now
    /\ FlushNow
    /\ UNCHANGED now

(* performFinalSave and the eviction cancel what is pending. *)
Cancel ==
    /\ timer # NoTimer
    /\ timer' = NoTimer
    /\ stamps' = {}
    /\ firstEdit' = 0
    /\ unsaved' = {}
    /\ UNCHANGED <<now, lastFlush>>

Tick ==
    /\ now < MaxNow
    /\ timer # NoTimer => now < timer
    /\ now' = now + 1
    /\ UNCHANGED <<stamps, firstEdit, timer, unsaved, lastFlush>>

DebouncerNext == RecordEdit \/ RecordAtCeiling \/ TimerFires \/ Cancel \/ Tick

DebouncerSpec == DebouncerInit /\ [][DebouncerNext]_debouncerVars

-----------------------------------------------------------------------------
(* Properties. *)

(* No edit is forgotten: as long as one is unsaved a timer is pending, due *)
(* within the longest delay.                                               *)
PendingEditHasTimer ==
    unsaved # {} => /\ timer # NoTimer
                    /\ now <= timer /\ timer <= now + MaxBurstDelay

(* What the ceiling really bounds: it is looked at only when an edit       *)
(* arrives, so an edit may wait for one more burst delay, but never for    *)
(* as long as the two together.                                            *)
DeferralBounded == \A t \in unsaved : now - t < MaxDeferral + MaxBurstDelay

(* firstEditTime is the time of the oldest edit at risk although the       *)
(* window it is derived from forgets edits after a second.                 *)
FirstEditIsOldest ==
    /\ (unsaved = {}) <=> (stamps = {})
    /\ unsaved # {} => firstEdit \in unsaved /\ \A t \in unsaved : firstEdit <= t

(* A save in time: no edit without a timer, none that waits for ever. *)
DebouncerIsSound == PendingEditHasTimer /\ DeferralBounded

(* The inductive core: what ties the timer to the oldest edit. *)
DeferralInv ==
    /\ PendingEditHasTimer
    /\ FirstEditIsOldest
    /\ unsaved # {} => /\ timer < firstEdit + MaxDeferral + MaxBurstDelay
                       /\ lastFlush <= firstEdit
    /\ \A t \in unsaved : t <= now /\ t + BaseDelay <= timer
    /\ unsaved = {} => timer = NoTimer
    /\ lastFlush <= now

(* The debouncer is worth its name: however edits arrive, two saves it     *)
(* asks for are at least the base delay apart.                             *)
FlushesAreApart ==
    [][TimerFires \/ RecordAtCeiling => now - lastFlush >= BaseDelay]_debouncerVars

(* A save the timer causes comes after a pause: no edit it covers is       *)
(* younger than the base delay.                                            *)
TimedSaveFollowsPause == [][TimerFires => \A t \in unsaved : now - t >= BaseDelay]_debouncerVars
=============================================================================
