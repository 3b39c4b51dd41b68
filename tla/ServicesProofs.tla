---------------------------- MODULE ServicesProofs ----------------------------
(***************************************************************************)
(* Proofs about the services of Services, for every value of their         *)
(* constants that meets the assumptions: warm containers, the debouncer,   *)
(* the worker threads, the two history views of the page, its editor and   *)
(* its file list; and the types of all of them at once.                    *)
(***************************************************************************)
EXTENDS Services, AccessProofs, FileContentsProofs, Sequences, FiniteSetTheorems, WellFoundedInduction, TLAPS

-----------------------------------------------------------------------------
(* Warm containers. *)

LEMMA TargetInRange ==
    ASSUME NEW n \in Nat
    PROVE  Target(n) \in PoolMin..PoolMax
BY SizeAssumption DEF Target, Larger, Smaller

LEMMA ActiveFinite == IsFiniteSet(Active) /\ Cardinality(Active) \in Nat
BY UserAssumption, FS_Subset, FS_CardinalityType DEF Active

(* The numeric part of the inductive invariant. *)
PoolInv ==
    /\ WarmBound
    /\ ShortPoolIsRefilled

(* Whether it starts a creation or not, a fill keeps the types. *)
LEMMA FillTypes ==
    ASSUME TypeOK, NEW n \in Nat, NEW target \in Nat, Fill(n, target) \/ NoFill(n)
    PROVE  pool' \in Nat /\ warming' \in 0..1 /\ stalled' \in BOOLEAN
<1>1. pool' \in Nat /\ warming' \in 0..1
  BY DEF TypeOK, Fill, NoFill
<1>2. stalled' \in BOOLEAN
  <2>1. CASE Fill(n, target)
    BY <2>1 DEF Fill
  <2>2. CASE NoFill(n)
    BY <2>2 DEF NoFill, TypeOK
  <2> QED
    BY <2>1, <2>2
<1> QED
  BY <1>1, <1>2

LEMMA PoolTypeStep ==
    ASSUME TypeOK, [Next]_vars
    PROVE  TypeOK'
<1> USE SizeAssumption, BoundAssumption DEF TypeOK
<1>1. CASE Initialize
  <2>1. CASE Fill(pool, size) /\ UNCHANGED failures
    BY <1>1, <2>1, FillTypes DEF Initialize
  <2>2. CASE Fails /\ NoFill(pool)
    BY <1>1, <2>2, FillTypes DEF Initialize, Fails
  <2> QED
    BY <1>1, <2>1, <2>2 DEF Initialize
<1>2. ASSUME NEW u \in User, PopWarm(u) PROVE TypeOK'
  <2>1. size' \in PoolMin..PoolMax /\ sessions' \in Nat
    BY <1>2, TargetInRange DEF PopWarm
  <2>2. pool' \in Nat /\ warming' \in 0..1 /\ stalled' \in BOOLEAN
    BY <1>2, <2>1, FillTypes DEF PopWarm
  <2> QED
    BY <1>2, <2>1, <2>2 DEF PopWarm
<1>3. ASSUME NEW u \in User, PopCold(u) PROVE TypeOK'
  <2>1. size' \in PoolMin..PoolMax /\ sessions' \in Nat
    BY <1>3, TargetInRange DEF PopCold
  <2>2. pool' \in Nat /\ warming' \in 0..1 /\ stalled' \in BOOLEAN
    BY <1>3, <2>1, FillTypes DEF PopCold
  <2> QED
    BY <1>3, <2>1, <2>2 DEF PopCold
<1>4. ASSUME NEW u \in User, ColdCreated(u) PROVE TypeOK'
  <2>1. pool' \in Nat /\ warming' \in 0..1 /\ stalled' \in BOOLEAN
    BY <1>4, FillTypes DEF ColdCreated
  <2> QED
    BY <1>4, <2>1 DEF ColdCreated
<1>5. ASSUME NEW u \in User, ColdFails(u) PROVE TypeOK'
  BY <1>5 DEF ColdFails, Fails
<1>6. ASSUME NEW u \in User, Release(u) PROVE TypeOK'
  <2>1. size' \in PoolMin..PoolMax /\ sessions' \in Nat
    BY <1>6, TargetInRange DEF Release, SessionsAfterRelease
  <2>2. pool' \in Nat /\ warming' \in 0..1 /\ stalled' \in BOOLEAN
    BY <1>6, <2>1, FillTypes DEF Release
  <2> QED
    BY <1>6, <2>1, <2>2 DEF Release
<1>7. CASE FillCreated
  BY <1>7 DEF FillCreated, LoopContinues
<1>8. CASE FillFails
  BY <1>8 DEF FillFails, Fails
<1>9. CASE Shutdown \/ CleanupStep \/ Exit
  BY <1>9 DEF Shutdown, CleanupStep, Exit
<1>10. CASE UNCHANGED vars
  BY <1>10 DEF vars
<1> QED
  BY <1>1, <1>2, <1>3, <1>4, <1>5, <1>6, <1>7, <1>8, <1>9, <1>10 DEF Next

(* A replenishment starts only below the target and makes one container at *)
(* a time.                                                                 *)
LEMMA WarmStep ==
    ASSUME TypeOK, WarmBound, [Next]_vars
    PROVE  WarmBound'
<1> USE SizeAssumption, BoundAssumption DEF TypeOK, WarmBound
<1>1. CASE Initialize
  BY <1>1 DEF Initialize, Fill, NoFill, Fails
<1>2. ASSUME NEW u \in User, PopWarm(u) PROVE WarmBound'
  BY <1>2, TargetInRange DEF PopWarm, Fill
<1>3. ASSUME NEW u \in User, PopCold(u) PROVE WarmBound'
  BY <1>3, TargetInRange DEF PopCold, Fill, NoFill
<1>4. ASSUME NEW u \in User, ColdCreated(u) PROVE WarmBound'
  BY <1>4 DEF ColdCreated, Fill
<1>5. ASSUME NEW u \in User, ColdFails(u) PROVE WarmBound'
  BY <1>5 DEF ColdFails, Fails
<1>6. ASSUME NEW u \in User, Release(u) PROVE WarmBound'
  BY <1>6, TargetInRange DEF Release, SessionsAfterRelease, Fill, NoFill
<1>7. CASE FillCreated
  BY <1>7 DEF FillCreated, LoopContinues
<1>8. CASE FillFails
  BY <1>8 DEF FillFails, Fails
<1>9. CASE Shutdown \/ CleanupStep \/ Exit
  BY <1>9 DEF Shutdown, CleanupStep, Exit
<1>10. CASE UNCHANGED vars
  BY <1>10 DEF vars
<1> QED
  BY <1>1, <1>2, <1>3, <1>4, <1>5, <1>6, <1>7, <1>8, <1>9, <1>10 DEF Next

(* Every step that takes a container or raises the target calls Fill. *)
LEMMA RefillStep ==
    ASSUME TypeOK, ShortPoolIsRefilled, [Next]_vars
    PROVE  ShortPoolIsRefilled'
<1> USE SizeAssumption, BoundAssumption DEF TypeOK, ShortPoolIsRefilled
<1>1. CASE Initialize
  BY <1>1 DEF Initialize, Fill, NoFill, Fails
<1>2. ASSUME NEW u \in User, PopWarm(u) PROVE ShortPoolIsRefilled'
  BY <1>2, TargetInRange DEF PopWarm, Fill
<1>3. ASSUME NEW u \in User, PopCold(u) PROVE ShortPoolIsRefilled'
  BY <1>3, TargetInRange DEF PopCold, Fill, NoFill
<1>4. ASSUME NEW u \in User, ColdCreated(u) PROVE ShortPoolIsRefilled'
  BY <1>4 DEF ColdCreated, Fill
<1>5. ASSUME NEW u \in User, ColdFails(u) PROVE ShortPoolIsRefilled'
  BY <1>5 DEF ColdFails, Fails
<1>6. ASSUME NEW u \in User, Release(u) PROVE ShortPoolIsRefilled'
  BY <1>6, TargetInRange DEF Release, SessionsAfterRelease, Fill, NoFill
<1>7. CASE FillCreated
  BY <1>7 DEF FillCreated, LoopContinues
<1>8. CASE FillFails
  BY <1>8 DEF FillFails, Fails
<1>9. CASE Shutdown \/ CleanupStep \/ Exit
  BY <1>9 DEF Shutdown, CleanupStep, Exit
<1>10. CASE UNCHANGED vars
  BY <1>10 DEF vars
<1> QED
  BY <1>1, <1>2, <1>3, <1>4, <1>5, <1>6, <1>7, <1>8, <1>9, <1>10 DEF Next

(* activeTerminalSessions moves with the callers, except for the ones that *)
(* got no container.                                                       *)
LEMMA SessionsStep ==
    ASSUME TypeOK, SessionsCoverUsers, [Next]_vars
    PROVE  SessionsCoverUsers'
<1> USE DEF SessionsCoverUsers
<1>1. ASSUME NEW u \in User, PopWarm(u) \/ PopCold(u) PROVE SessionsCoverUsers'
  <2>1. Active' = Active \cup {u} /\ u \notin Active
    BY <1>1 DEF PopWarm, PopCold, Active, TypeOK
  <2>2. Cardinality(Active') = Cardinality(Active) + 1
    BY <2>1, ActiveFinite, FS_AddElement
  <2>3. sessions' = sessions + 1 /\ leaked' = leaked
    BY <1>1 DEF PopWarm, PopCold
  <2> QED
    BY <2>2, <2>3, ActiveFinite DEF TypeOK
<1>2. ASSUME NEW u \in User, ColdFails(u) \/ Release(u) PROVE SessionsCoverUsers'
  <2>1. Active' = Active \ {u} /\ u \in Active
    BY <1>2 DEF ColdFails, Release, Active, TypeOK
  <2>2. Cardinality(Active') = Cardinality(Active) - 1
    BY <2>1, ActiveFinite, FS_RemoveElement
  <2>3. Cardinality(Active) # 0
    BY <2>1, ActiveFinite, FS_EmptySet
  <2>4. CASE ColdFails(u)
    BY <2>2, <2>4, ActiveFinite DEF ColdFails, TypeOK
  <2>5. CASE Release(u)
    BY <2>2, <2>3, <2>5, ActiveFinite DEF Release, SessionsAfterRelease, TypeOK
  <2> QED
    BY <1>2, <2>4, <2>5
<1>3. ASSUME NEW u \in User, ColdCreated(u) PROVE SessionsCoverUsers'
  <2>1. Active' = Active
    BY <1>3 DEF ColdCreated, Active, TypeOK
  <2> QED
    BY <1>3, <2>1 DEF ColdCreated
<1>4. CASE UNCHANGED <<at, sessions, leaked>>
  BY <1>4 DEF Active
<1>5. ASSUME Initialize \/ FillCreated \/ FillFails \/ Shutdown \/ CleanupStep \/ Exit
             \/ UNCHANGED vars
      PROVE  UNCHANGED <<at, sessions, leaked>>
  BY <1>5 DEF Initialize, FillCreated, FillFails, Shutdown, CleanupStep, Exit, vars
<1> QED
  BY <1>1, <1>2, <1>3, <1>4, <1>5 DEF Next

(* Types and the inductive invariant of the pool. *)
THEOREM PoolInvariant == Spec => [](TypeOK /\ PoolInv /\ SessionsCoverUsers)
<1>1. Init => TypeOK /\ PoolInv
  <2>1. Init => TypeOK
    BY SizeAssumption, BoundAssumption DEF Init, TypeOK
  <2>2. Init => WarmBound /\ ShortPoolIsRefilled
    BY SizeAssumption DEF Init, WarmBound, ShortPoolIsRefilled
  <2> QED
    BY <2>1, <2>2 DEF PoolInv
<1>2. Init => SessionsCoverUsers
  <2>1. Init => Active = {}
    BY DEF Init, Active
  <2> QED
    BY <2>1, FS_EmptySet DEF Init, SessionsCoverUsers
<1>3. TypeOK /\ PoolInv /\ SessionsCoverUsers /\ [Next]_vars
        => TypeOK' /\ PoolInv' /\ SessionsCoverUsers'
  BY PoolTypeStep, WarmStep, RefillStep, SessionsStep DEF PoolInv
<1> QED
  BY <1>1, <1>2, <1>3, PTL DEF Spec

(* The containers that are idle or being made never exceed the maximum. *)
THEOREM WarmIsBounded == Spec => []WarmBound
<1>1. PoolInv => WarmBound
  BY DEF PoolInv
<1> QED
  BY <1>1, PoolInvariant, PTL

(* No order of pops, releases and resizes loses a refill. *)
THEOREM RefillIsNotLost == Spec => []ShortPoolIsRefilled
<1>1. PoolInv => ShortPoolIsRefilled
  BY DEF PoolInv
<1> QED
  BY <1>1, PoolInvariant, PTL

(* The session count is exact up to the callers that got no container. *)
THEOREM SessionsAreCovered == Spec => []SessionsCoverUsers
BY PoolInvariant, PTL

(* All three: what the pool promises. *)
THEOREM PoolStaysSound == Spec => []PoolIsSound
BY WarmIsBounded, RefillIsNotLost, SessionsAreCovered, PTL DEF PoolIsSound

-----------------------------------------------------------------------------
(* The debouncer. *)

(* The delay stays between the base and the burst delay at any velocity. *)
LEMMA DelayBounds ==
    ASSUME NEW velocity \in Nat
    PROVE  /\ Delay(velocity) \in Nat
           /\ BaseDelay <= Delay(velocity)
           /\ Delay(velocity) <= MaxBurstDelay
<1> DEFINE over == velocity - BurstThreshold
           span == MaxBurstDelay - BaseDelay
<1>1. CASE velocity < BurstThreshold \/ over >= Ramp
  BY <1>1, DelayAssumption DEF Delay
<1>2. CASE velocity >= BurstThreshold /\ over < Ramp
  <2>1. over \in Nat /\ span \in Nat /\ over <= Ramp /\ Ramp > 0 /\ Ramp \in Nat
    BY <1>2, DelayAssumption
  <2>2. over * span \in Nat /\ over * span <= Ramp * span
    BY <2>1
  <2>3. (over * span) \div Ramp \in Nat /\ (over * span) \div Ramp <= span
    BY <2>1, <2>2
  <2>4. Delay(velocity) = BaseDelay + (over * span) \div Ramp
    BY <1>2, DelayAssumption DEF Delay
  <2> QED
    BY <2>1, <2>3, <2>4, DelayAssumption
<1> QED
  BY <1>1, <1>2, DelayAssumption

(* The velocity is the size of a finite window, so a delay always exists. *)
LEMMA WindowFinite ==
    ASSUME DebouncerTypeOK, Cardinality(EditsAt(now)) < MaxEdits
    PROVE  /\ Recent \subseteq (0..MaxNow) \X (1..MaxEdits)
           /\ <<now, Cardinality(EditsAt(now)) + 1>> \in Recent
           /\ Cardinality(Recent) \in Nat
<1> USE HorizonAssumption, DelayAssumption
<1>1. IsFiniteSet((0..MaxNow) \X (1..MaxEdits))
  <2>1. IsFiniteSet(0..MaxNow) /\ IsFiniteSet(1..MaxEdits)
    <3>1. 0 \in Int /\ 1 \in Int /\ MaxNow \in Int /\ MaxEdits \in Int
      OBVIOUS
    <3> QED
      BY <3>1, FS_Interval
  <2> QED
    BY <2>1, FS_Product
<1>2. Cardinality(EditsAt(now)) \in Nat
  BY <1>1, FS_Subset, FS_CardinalityType DEF DebouncerTypeOK, EditsAt
<1>3. <<now, Cardinality(EditsAt(now)) + 1>> \in (0..MaxNow) \X (1..MaxEdits)
  BY <1>2 DEF DebouncerTypeOK
<1>4. Recent \subseteq (0..MaxNow) \X (1..MaxEdits)
  BY <1>3 DEF Recent, DebouncerTypeOK
<1>5. Cardinality(Recent) \in Nat
  BY <1>1, <1>4, FS_Subset, FS_CardinalityType
<1>6. <<now, Cardinality(EditsAt(now)) + 1>>[1] >= now - Window
  BY DEF DebouncerTypeOK
<1> QED
  BY <1>4, <1>5, <1>6 DEF Recent

(* Where recordEdit leaves the timer. *)
LEMMA RecordedTimer ==
    ASSUME DebouncerTypeOK, RecordEdit
    PROVE  /\ timer' \in Nat
           /\ now + BaseDelay <= timer'
           /\ timer' <= now + MaxBurstDelay
           /\ stamps' # {}
           /\ stamps' \subseteq (0..MaxNow) \X (1..MaxEdits)
<1>1. Cardinality(Recent) \in Nat /\ Recent # {}
      /\ Recent \subseteq (0..MaxNow) \X (1..MaxEdits)
  BY WindowFinite DEF RecordEdit
<1> DEFINE delay == Delay(Cardinality(Recent))
<1>2. delay \in Nat /\ BaseDelay <= delay /\ delay <= MaxBurstDelay
  BY <1>1, DelayBounds
<1>3. timer' = now + delay /\ stamps' = Recent
  BY DEF RecordEdit, Reschedule
<1> HIDE DEF delay
<1> QED
  BY <1>1, <1>2, <1>3, DelayAssumption, HorizonAssumption DEF DebouncerTypeOK

(* The inductive invariant of the debouncer holds after every step. *)
LEMMA DebouncerStep ==
    ASSUME DebouncerTypeOK, DeferralInv, [DebouncerNext]_debouncerVars
    PROVE  DebouncerTypeOK' /\ DeferralInv'
<1> USE DelayAssumption, HorizonAssumption, NoTimerAssumption
<1>1. CASE RecordEdit
  <2>1. /\ timer' \in Nat /\ now + BaseDelay <= timer' /\ timer' <= now + MaxBurstDelay
        /\ stamps' # {} /\ stamps' \subseteq (0..MaxNow) \X (1..MaxEdits)
    BY <1>1, RecordedTimer
  <2>2. firstEdit' = FirstEditTime /\ now - firstEdit' < MaxDeferral
    BY <1>1 DEF RecordEdit
  <2>3. firstEdit' \in 0..MaxNow /\ firstEdit' <= now
    BY <2>2 DEF FirstEditTime, DebouncerTypeOK, DeferralInv, FirstEditIsOldest
  <2>4. DebouncerTypeOK'
    BY <1>1, <2>1, <2>3 DEF RecordEdit, DebouncerTypeOK
  <2>5. PendingEditHasTimer'
    BY <1>1, <2>1 DEF RecordEdit, DebouncerTypeOK, PendingEditHasTimer
  <2>6. FirstEditIsOldest'
    BY <1>1, <2>1, <2>2 DEF RecordEdit, FirstEditTime, DebouncerTypeOK, DeferralInv,
       FirstEditIsOldest
  <2>7. timer' < firstEdit' + MaxDeferral + MaxBurstDelay
    BY <2>1, <2>2, <2>3 DEF DebouncerTypeOK
  <2>8. \A t \in unsaved' : t <= now' /\ t + BaseDelay <= timer'
    BY <1>1, <2>1 DEF RecordEdit, DebouncerTypeOK, DeferralInv, PendingEditHasTimer
  <2>9. lastFlush' <= firstEdit' /\ lastFlush' <= now'
    BY <1>1, <2>2 DEF RecordEdit, FirstEditTime, DebouncerTypeOK, DeferralInv, FirstEditIsOldest
  <2> QED
    BY <1>1, <2>4, <2>5, <2>6, <2>7, <2>8, <2>9 DEF DeferralInv, RecordEdit
<1>2. CASE RecordAtCeiling \/ TimerFires
  <2>1. FlushNow /\ now' = now
    BY <1>2 DEF RecordAtCeiling, TimerFires
  <2> QED
    BY <2>1 DEF FlushNow, TimerAfterFlush, DebouncerTypeOK, DeferralInv, PendingEditHasTimer,
       FirstEditIsOldest
<1>3. CASE Cancel
  BY <1>3 DEF Cancel, DebouncerTypeOK, DeferralInv, PendingEditHasTimer, FirstEditIsOldest
<1>4. CASE Tick
  BY <1>4 DEF Tick, DebouncerTypeOK, DeferralInv, PendingEditHasTimer, FirstEditIsOldest
<1>5. CASE UNCHANGED debouncerVars
  BY <1>5 DEF debouncerVars, DebouncerTypeOK, DeferralInv, PendingEditHasTimer, FirstEditIsOldest
<1> QED
  BY <1>1, <1>2, <1>3, <1>4, <1>5 DEF DebouncerNext

(* The inductive invariant of the debouncer: types, and what ties the      *)
(* pending timer to the oldest edit at risk.                               *)
THEOREM DebouncerInvariant == DebouncerSpec => [](DebouncerTypeOK /\ DeferralInv)
<1>1. DebouncerInit => DebouncerTypeOK /\ DeferralInv
  BY HorizonAssumption, NoTimerAssumption DEF DebouncerInit, DebouncerTypeOK, DeferralInv,
     PendingEditHasTimer, FirstEditIsOldest
<1> QED
  BY <1>1, DebouncerStep, PTL DEF DebouncerSpec

(* No edit is forgotten: an unsaved edit always has a timer pending. *)
THEOREM NoEditForgotten == DebouncerSpec => []PendingEditHasTimer
<1>1. DeferralInv => PendingEditHasTimer
  BY DEF DeferralInv
<1> QED
  BY <1>1, DebouncerInvariant, PTL

(* An edit waits less than the ceiling and one burst delay together. *)
THEOREM DeferralIsBounded == DebouncerSpec => []DeferralBounded
<1>1. DebouncerTypeOK /\ DeferralInv => DeferralBounded
  BY DelayAssumption, NoTimerAssumption DEF DebouncerTypeOK, DeferralInv, DeferralBounded,
     PendingEditHasTimer, FirstEditIsOldest
<1> QED
  BY <1>1, DebouncerInvariant, PTL

(* Both together: what the module promises of every edit. *)
THEOREM EditsAreSavedInTime == DebouncerSpec => []DebouncerIsSound
BY NoEditForgotten, DeferralIsBounded, PTL DEF DebouncerIsSound

(* However fast edits arrive, two saves are at least the base delay apart. *)
THEOREM SavesAreApart == DebouncerSpec => FlushesAreApart
<1>1. DebouncerTypeOK /\ DeferralInv /\ [DebouncerNext]_debouncerVars
        => [TimerFires \/ RecordAtCeiling => now - lastFlush >= BaseDelay]_debouncerVars
  <2> SUFFICES ASSUME DebouncerTypeOK, DeferralInv, TimerFires \/ RecordAtCeiling
               PROVE  now - lastFlush >= BaseDelay
    OBVIOUS
  <2>1. CASE TimerFires
    BY <2>1, NoTimerAssumption, DelayAssumption DEF TimerFires, DebouncerTypeOK, DeferralInv,
       FirstEditIsOldest
  <2>2. CASE RecordAtCeiling
    BY <2>2, DelayAssumption DEF RecordAtCeiling, FirstEditTime, DebouncerTypeOK, DeferralInv,
       FirstEditIsOldest
  <2> QED
    BY <2>1, <2>2
<1> QED
  BY <1>1, DebouncerInvariant, PTL DEF DebouncerSpec, FlushesAreApart

(* A save the timer causes covers no edit younger than the base delay. *)
THEOREM TimedSavesFollowPauses == DebouncerSpec => TimedSaveFollowsPause
<1>1. DebouncerTypeOK /\ DeferralInv
        => [TimerFires => \A t \in unsaved : now - t >= BaseDelay]_debouncerVars
  BY NoTimerAssumption, DelayAssumption DEF TimerFires, DebouncerTypeOK, DeferralInv
<1> QED
  BY <1>1, DebouncerInvariant, PTL DEF TimedSaveFollowsPause

-----------------------------------------------------------------------------
(* The worker threads. *)

(* Sizes are the same inside the instance. *)
LEMMA SameSize == \A S : Workers!Cardinality(S) = Cardinality(S)
BY DEF Cardinality, Workers!Cardinality

(* Sequences that lose their first element or get a last one. *)
LEMMA TailOf ==
    ASSUME NEW S, NEW q \in Seq(S), q # <<>>
    PROVE  /\ Head(q) \in S /\ Head(q) = q[1] /\ Tail(q) \in Seq(S) /\ Len(q) \in Nat \ {0}
           /\ Len(Tail(q)) = Len(q) - 1
           /\ \A k \in 1..Len(Tail(q)) : Tail(q)[k] = q[k + 1] /\ k + 1 \in 1..Len(q) /\ k + 1 # 1
           /\ \A k \in 1..Len(q) : k # 1 => k - 1 \in 1..Len(Tail(q)) /\ Tail(q)[k - 1] = q[k]
OBVIOUS

(* Exactness of a pool that has another's lists depends on its threads. *)
LEMMA SameLists ==
    ASSUME NEW p, NEW r, Workers!Exact(p), r.idle = p.idle, r.queue = p.queue, r.taskMap = p.taskMap,
           \A u \in Workers!Tasks : r.taskMap[u] # 0 => Workers!Holds(r.threads[r.taskMap[u]], u)
    PROVE  Workers!Exact(r)
<1>1. /\ \A j, k \in 1..Len(r.idle) : r.idle[j] = r.idle[k] => j = k
      /\ \A j, k \in 1..Len(r.queue) : r.queue[j] = r.queue[k] => j = k
      /\ \A k \in 1..Len(r.queue) : r.taskMap[r.queue[k]] = 0
  BY DEF Workers!Exact
<1>2. /\ \A t, u \in Workers!Tasks : r.taskMap[t] = r.taskMap[u] /\ r.taskMap[t] # 0 => t = u
      /\ \A k \in 1..Len(r.idle), t \in Workers!Tasks : r.taskMap[t] # r.idle[k]
      /\ \A i \in Workers!Indices :
            (\E k \in 1..Len(r.idle) : r.idle[k] = i) \/ (\E t \in Workers!Tasks : r.taskMap[t] = i)
  BY DEF Workers!Exact
<1> QED
  BY <1>1, <1>2 DEF Workers!Exact

LEMMA AppendOf ==
    ASSUME NEW S, NEW q \in Seq(S), NEW x \in S
    PROVE  /\ Append(q, x) \in Seq(S) /\ Len(q) \in Nat /\ Len(Append(q, x)) = Len(q) + 1
           /\ \A k \in 1..Len(q) : k \in 1..Len(Append(q, x)) /\ Append(q, x)[k] = q[k]
           /\ Len(q) + 1 \in 1..Len(Append(q, x)) /\ Append(q, x)[Len(q) + 1] = x
           /\ \A k \in 1..Len(Append(q, x)) : k = Len(q) + 1 \/ k \in 1..Len(q)
OBVIOUS

(* Once each: the workers counted in the list and in the table. *)
LEMMA CountedOnce ==
    ASSUME NEW q \in Seq(Workers!Indices), NEW i \in Workers!Indices,
           \A j, k \in 1..Len(q) : q[j] = q[k] => j = k
    PROVE  Workers!Times(q, i) = IF \E k \in 1..Len(q) : q[k] = i THEN 1 ELSE 0
<1> DEFINE places == {k \in 1..Len(q) : q[k] = i}
<1>1. CASE \E k \in 1..Len(q) : q[k] = i
  <2>1. PICK k \in 1..Len(q) : q[k] = i
    BY <1>1
  <2>2. places = {k}
    BY <2>1
  <2> QED
    BY <1>1, <2>2, FS_Singleton, SameSize DEF Workers!Times
<1>2. CASE ~\E k \in 1..Len(q) : q[k] = i
  <2>1. places = {}
    BY <1>2
  <2> QED
    BY <1>2, <2>1, FS_EmptySet, SameSize DEF Workers!Times
<1> QED
  BY <1>1, <1>2

LEMMA BusyOnce ==
    ASSUME NEW i \in Workers!Indices, \A t,
           u \in Workers!Tasks : threads.taskMap[t] = threads.taskMap[u] /\ threads.taskMap[t] # 0 => t = u
    PROVE  Cardinality(Workers!Busy(i)) = IF \E t \in Workers!Tasks : threads.taskMap[t] = i THEN 1 ELSE 0
<1>0. i # 0
  BY WorkerAssumption DEF Workers!Indices
<1>1. CASE \E t \in Workers!Tasks : threads.taskMap[t] = i
  <2>1. PICK t \in Workers!Tasks : threads.taskMap[t] = i
    BY <1>1
  <2>2. Workers!Busy(i) = {t}
    BY <1>0, <2>1 DEF Workers!Busy
  <2> QED
    BY <1>1, <2>2, FS_Singleton
<1>2. CASE ~\E t \in Workers!Tasks : threads.taskMap[t] = i
  <2>1. Workers!Busy(i) = {}
    BY <1>2 DEF Workers!Busy
  <2> QED
    BY <1>2, <2>1, FS_EmptySet
<1> QED
  BY <1>1, <1>2

LEMMA WorkersKnow == Workers!WorkerInv => Workers!CalmPoolIsExact
<1> SUFFICES ASSUME Workers!WorkerInv, crashes = 0, ~finished
             PROVE  /\ \A i \in Workers!Indices : Workers!Times(threads.idle, i) + Cardinality(Workers!Busy(i)) = 1
                    /\ threads.queue # <<>> => threads.idle = <<>>
                    /\ \A t \in Workers!Tasks : promise[t] = "waiting" =>
                        \/ \E k \in 1..Len(threads.queue) : threads.queue[k] = t
                        \/ threads.taskMap[t] # 0
                    /\ \A i \in Workers!Indices : \A t \in Workers!Busy(i) :
                        LET thread == threads.threads[threads.workers[i]] IN
                        t \in {thread.inbox[k] : k \in 1..Len(thread.inbox)}
                                \cup {thread.outbox[k].task : k \in 1..Len(thread.outbox)}
  BY SameSize DEF Workers!CalmPoolIsExact
<1>1. threads \in Workers!Pools /\ Workers!Quiet(threads) /\ Workers!Exact(threads)
  BY DEF Workers!WorkerInv
<1>2. ASSUME NEW i \in Workers!Indices PROVE Workers!Times(threads.idle, i) + Cardinality(Workers!Busy(i)) = 1
  <2>1. Workers!Times(threads.idle, i) = IF \E k \in 1..Len(threads.idle) : threads.idle[k] = i THEN 1 ELSE 0
    BY <1>1, CountedOnce DEF Workers!Pools, Workers!Exact
  <2>2. Cardinality(Workers!Busy(i)) = IF \E t \in Workers!Tasks : threads.taskMap[t] = i THEN 1 ELSE 0
    BY <1>1, BusyOnce DEF Workers!Exact
  <2>3. (\E k \in 1..Len(threads.idle) : threads.idle[k] = i) <=> ~\E t \in Workers!Tasks : threads.taskMap[t] = i
    BY <1>1 DEF Workers!Exact
  <2> QED
    BY <2>1, <2>2, <2>3
<1>3. ASSUME NEW i \in Workers!Indices, NEW t \in Workers!Busy(i)
      PROVE  Workers!Holds(threads.threads[threads.workers[i]], t)
  <2>1. t \in Workers!Tasks /\ threads.taskMap[t] = i /\ i # 0
    BY WorkerAssumption DEF Workers!Busy, Workers!Indices
  <2> QED
    BY <1>1, <2>1 DEF Workers!Exact, Workers!Quiet
<1>4. /\ threads.queue # <<>> => threads.idle = <<>>
      /\ \A t \in Workers!Tasks : promise[t] = "waiting" =>
            (\E k \in 1..Len(threads.queue) : threads.queue[k] = t) \/ threads.taskMap[t] # 0
  BY DEF Workers!WorkerInv, Workers!Placed
<1> QED
  BY <1>2, <1>3, <1>4 DEF Workers!Holds

(* processNextTask. *)
LEMMA DispatchKeeps ==
    ASSUME NEW p \in Workers!Pools, Workers!Quiet(p), Workers!Exact(p),
           Len(p.queue) <= 1 \/ Len(p.idle) <= 1
    PROVE  /\ Workers!ProcessNextTask(p) \in Workers!Pools
           /\ Workers!Quiet(Workers!ProcessNextTask(p)) /\ Workers!Exact(Workers!ProcessNextTask(p))
           /\ Workers!ProcessNextTask(p).queue = <<>> \/ Workers!ProcessNextTask(p).idle = <<>>
           /\ \A t \in Workers!Tasks : Workers!Placed(Workers!ProcessNextTask(p), t) <=> Workers!Placed(p, t)
<1> DEFINE n == Workers!ProcessNextTask(p)
<1>1. CASE p.queue = <<>> \/ p.idle = <<>>
  BY <1>1 DEF Workers!ProcessNextTask
<1>2. CASE p.queue # <<>> /\ p.idle # <<>>
  <2> DEFINE i == Head(p.idle)
             t == Head(p.queue)
             thread == [p.threads[i] EXCEPT !.inbox = Append(@, t)]
  <2>0. /\ p.idle \in Seq(Workers!Indices) /\ p.queue \in Seq(Workers!Tasks)
        /\ p.taskMap \in [Workers!Tasks -> 0..PoolSize]
        /\ p.threads \in [Workers!Threads -> Workers!ThreadStates]
        /\ Workers!Indices \subseteq Workers!Threads /\ 0 \notin Workers!Indices
        /\ Workers!Indices = 1..PoolSize
    BY WorkerAssumption DEF Workers!Pools, Workers!Indices, Workers!Threads
  <2>1. i \in Workers!Indices /\ i = p.idle[1] /\ t \in Workers!Tasks /\ t = p.queue[1]
    BY <1>2, <2>0, TailOf
  <2>2. p.threads[i] \in Workers!ThreadStates /\ p.workers[i] = i /\ p.threads[i].up
    BY <2>0, <2>1 DEF Workers!Quiet
  <2>3. n = [p EXCEPT !.idle = Tail(p.idle), !.queue = Tail(p.queue), !.taskMap[t] = i,
                      !.threads[i] = thread]
    BY <1>2, <2>2, SMTT(30) DEF Workers!ProcessNextTask, Workers!IdleAfterDispatch
  <2>4. /\ thread \in Workers!ThreadStates /\ thread.inbox = Append(p.threads[i].inbox, t)
        /\ thread.outbox = p.threads[i].outbox /\ thread.up = p.threads[i].up
        /\ thread.events = p.threads[i].events
    <3>1. Append(p.threads[i].inbox, t) \in Seq(Workers!Tasks)
      BY <2>1, <2>2 DEF Workers!ThreadStates
    <3> QED
      BY <2>2, <3>1 DEF Workers!ThreadStates
  <2>5. \A u \in Workers!Tasks : Workers!Holds(p.threads[i], u) \/ u = t => Workers!Holds(thread, u)
    <3> HIDE DEF thread, i, t
    <3>1. PICK q \in Seq(Workers!Tasks) : q = p.threads[i].inbox
      BY <2>2 DEF Workers!ThreadStates
    <3>2. \A k \in 1..Len(q) : k \in 1..Len(Append(q, t)) /\ Append(q, t)[k] = q[k]
      BY <2>1, AppendOf
    <3>3. Len(q) + 1 \in 1..Len(Append(q, t)) /\ Append(q, t)[Len(q) + 1] = t
      BY <2>1, AppendOf
    <3> QED
      BY <2>4, <3>1, <3>2, <3>3 DEF Workers!Holds
  <2>6. Tail(p.idle) \in Seq(Workers!Indices) /\ Tail(p.queue) \in Seq(Workers!Tasks)
    BY <1>2, <2>0, TailOf
  <2> HIDE DEF thread, i, t
  <2>7. /\ n \in Workers!Pools
        /\ n.idle = Tail(p.idle) /\ n.queue = Tail(p.queue) /\ n.workers = p.workers
        /\ n.taskMap = [p.taskMap EXCEPT ![t] = i] /\ n.threads = [p.threads EXCEPT ![i] = thread]
    <3>1. [p.taskMap EXCEPT ![t] = i] \in [Workers!Tasks -> 0..PoolSize]
      BY <2>0, <2>1, SMTT(30)
    <3>2. [p.threads EXCEPT ![i] = thread] \in [Workers!Threads -> Workers!ThreadStates]
      BY <2>0, <2>1, <2>4
    <3> QED
      BY <2>3, <2>6, <3>1, <3>2 DEF Workers!Pools
  <2> HIDE DEF n
  <2>8. /\ \A u \in Workers!Tasks : n.taskMap[u] = IF u = t THEN i ELSE p.taskMap[u]
        /\ \A s \in Workers!Threads : n.threads[s] = IF s = i THEN thread ELSE p.threads[s]
    BY <2>0, <2>7
  <2>9. p.taskMap[t] = 0 /\ \A u \in Workers!Tasks : p.taskMap[u] # i
    <3>1. 1 \in 1..Len(p.queue) /\ 1 \in 1..Len(p.idle)
      BY <1>2, <2>0, TailOf
    <3> QED
      BY <2>1, <3>1 DEF Workers!Exact
  <2>10. \A k \in 1..Len(n.queue) : n.queue[k] = p.queue[k + 1] /\ k + 1 \in 1..Len(p.queue) /\ n.queue[k] # t
    <3>1. \A k \in 1..Len(n.queue) : n.queue[k] = p.queue[k + 1] /\ k + 1 \in 1..Len(p.queue) /\ k + 1 # 1
      BY <1>2, <2>0, <2>7, TailOf
    <3>2. 1 \in 1..Len(p.queue)
      BY <1>2, <2>0, TailOf
    <3>3. \A j, k \in 1..Len(p.queue) : p.queue[j] = p.queue[k] => j = k
      BY DEF Workers!Exact
    <3> QED
      BY <2>1, <3>1, <3>2, <3>3
  <2>11. \A k \in 1..Len(n.idle) : n.idle[k] = p.idle[k + 1] /\ k + 1 \in 1..Len(p.idle) /\ n.idle[k] # i
    <3>1. \A k \in 1..Len(n.idle) : n.idle[k] = p.idle[k + 1] /\ k + 1 \in 1..Len(p.idle) /\ k + 1 # 1
      BY <1>2, <2>0, <2>7, TailOf
    <3>2. 1 \in 1..Len(p.idle)
      BY <1>2, <2>0, TailOf
    <3>3. \A j, k \in 1..Len(p.idle) : p.idle[j] = p.idle[k] => j = k
      BY DEF Workers!Exact
    <3> QED
      BY <2>1, <3>1, <3>2, <3>3
  <2>12. ASSUME NEW k \in 1..Len(p.queue), p.queue[k] # t
         PROVE  \E j \in 1..Len(n.queue) : n.queue[j] = p.queue[k]
    <3>1. k # 1
      BY <2>1, <2>12
    <3>2. k - 1 \in 1..Len(Tail(p.queue)) /\ Tail(p.queue)[k - 1] = p.queue[k]
      BY <1>2, <2>0, <3>1, TailOf
    <3> QED
      BY <2>7, <3>2
  <2>13. ASSUME NEW k \in 1..Len(p.idle), p.idle[k] # i
         PROVE  \E j \in 1..Len(n.idle) : n.idle[j] = p.idle[k]
    <3>1. k # 1
      BY <2>1, <2>13
    <3>2. k - 1 \in 1..Len(Tail(p.idle)) /\ Tail(p.idle)[k - 1] = p.idle[k]
      BY <1>2, <2>0, <3>1, TailOf
    <3> QED
      BY <2>7, <3>2
  <2>14. Workers!Quiet(n)
    BY <2>0, <2>4, <2>7, <2>8 DEF Workers!Quiet
  <2>15. Workers!Exact(n)
    <3>1. \A j, k \in 1..Len(n.idle) : n.idle[j] = n.idle[k] => j = k
      <4>1. ASSUME NEW j \in 1..Len(n.idle), NEW k \in 1..Len(n.idle), n.idle[j] = n.idle[k] PROVE j = k
        <5>1. j + 1 = k + 1
          BY <2>11, <4>1, SMTT(30) DEF Workers!Exact
        <5> QED
          BY <5>1
      <4> QED
        BY <4>1
    <3>2. \A j, k \in 1..Len(n.queue) : n.queue[j] = n.queue[k] => j = k
      <4>1. ASSUME NEW j \in 1..Len(n.queue), NEW k \in 1..Len(n.queue), n.queue[j] = n.queue[k] PROVE j = k
        <5>1. j + 1 = k + 1
          BY <2>10, <4>1 DEF Workers!Exact
        <5> QED
          BY <5>1
      <4> QED
        BY <4>1
    <3>3. \A u, v \in Workers!Tasks : n.taskMap[u] = n.taskMap[v] /\ n.taskMap[u] # 0 => u = v
      BY <2>8, <2>9 DEF Workers!Exact
    <3>4. \A k \in 1..Len(n.queue) : n.taskMap[n.queue[k]] = 0
      <4>1. \A k \in 1..Len(n.queue) : n.queue[k] \in Workers!Tasks
        BY <2>7 DEF Workers!Pools
      <4> QED
        BY <2>8, <2>10, <4>1 DEF Workers!Exact
    <3>5. \A k \in 1..Len(n.idle), u \in Workers!Tasks : n.taskMap[u] # n.idle[k]
      BY <2>8, <2>11 DEF Workers!Exact
    <3>6. \A x \in Workers!Indices : (\E k \in 1..Len(n.idle) : n.idle[k] = x) \/ (\E u \in Workers!Tasks : n.taskMap[u] = x)
      <4> TAKE x \in Workers!Indices
      <4>1. CASE x = i
        BY <2>1, <2>8, <4>1
      <4>2. CASE x # i
        <5>1. CASE \E k \in 1..Len(p.idle) : p.idle[k] = x
          BY <2>13, <4>2, <5>1
        <5>2. CASE \E u \in Workers!Tasks : p.taskMap[u] = x
          <6>1. PICK u \in Workers!Tasks : p.taskMap[u] = x
            BY <5>2
          <6>2. u # t
            BY <2>0, <2>9, <6>1
          <6> QED
            BY <2>8, <6>1, <6>2
        <5> QED
          BY <5>1, <5>2 DEF Workers!Exact
      <4> QED
        BY <4>1, <4>2
    <3>7. ASSUME NEW u \in Workers!Tasks, n.taskMap[u] # 0 PROVE Workers!Holds(n.threads[n.taskMap[u]], u)
      <4>1. n.taskMap[u] \in Workers!Threads
        <5>1. n.taskMap[u] \in 0..PoolSize
          BY <2>7 DEF Workers!Pools
        <5> QED
          BY <2>0, <3>7, <5>1, WorkerAssumption
      <4>2. CASE u = t
        BY <2>5, <2>8, <4>1, <4>2
      <4>3. CASE u # t
        <5>1. n.taskMap[u] = p.taskMap[u] /\ Workers!Holds(p.threads[p.taskMap[u]], u)
          BY <2>8, <3>7, <4>3 DEF Workers!Exact
        <5> QED
          BY <2>9, <2>8, <4>1, <5>1
      <4> QED
        BY <4>2, <4>3
    <3> QED
      BY <3>1, <3>2, <3>3, <3>4, <3>5, <3>6, <3>7 DEF Workers!Exact
  <2>16. n.queue = <<>> \/ n.idle = <<>>
    <3>0. /\ Len(n.queue) = Len(p.queue) - 1 /\ Len(p.queue) \in Nat \ {0}
          /\ Len(n.idle) = Len(p.idle) - 1 /\ Len(p.idle) \in Nat \ {0}
      BY <1>2, <2>0, <2>7, TailOf
    <3>1. Len(n.queue) = 0 \/ Len(n.idle) = 0
      <4>1. PICK x, y \in Nat \ {0} : x = Len(p.queue) /\ y = Len(p.idle)
        BY <3>0
      <4>2. x <= 1 \/ y <= 1
        BY <4>1
      <4>3. x = 1 \/ y = 1
        BY <4>2
      <4>4. x - 1 = 0 \/ y - 1 = 0
        BY <4>3
      <4> QED
        BY <3>0, <4>1, <4>4
    <3> QED
      BY <2>6, <2>7, <3>1
  <2>17. ASSUME NEW u \in Workers!Tasks PROVE Workers!Placed(n, u) <=> Workers!Placed(p, u)
    <3>1. CASE u = t
      <4>1. n.taskMap[u] # 0
        BY <2>0, <2>1, <2>8, <3>1
      <4>2. 1 \in 1..Len(p.queue) /\ p.queue[1] = u
        BY <1>2, <2>0, <2>1, <3>1, TailOf
      <4> QED
        BY <4>1, <4>2 DEF Workers!Placed
    <3>2. CASE u # t
      <4>1. (\E k \in 1..Len(n.queue) : n.queue[k] = u) <=> \E k \in 1..Len(p.queue) : p.queue[k] = u
        BY <2>10, <2>12, <3>2
      <4> QED
        BY <2>8, <3>2, <4>1 DEF Workers!Placed
    <3> QED
      BY <3>1, <3>2
  <2> QED
    BY <2>7, <2>14, <2>15, <2>16, <2>17 DEF n
<1> QED
  BY <1>1, <1>2, SMTT(30)

(* What holds as soon as a thread crashed or the pool was terminated. *)
LEMMA NotCalm ==
    ASSUME Workers!WorkerInv, crashes' \in 0..MaxCrashes, finished' \in BOOLEAN, crashes' # 0 \/ finished'
    PROVE  Workers!WorkerInv'
BY DEF Workers!WorkerInv

LEMMA RunTaskKeeps ==
    ASSUME Workers!WorkerInv, NEW t \in Workers!Tasks, Workers!RunTask(t) PROVE Workers!WorkerInv'
<1>1. /\ promise[t] = "none" /\ UNCHANGED <<crashes, finished>>
      /\ threads' = Workers!ProcessNextTask([threads EXCEPT !.queue = Append(@, t)])
      /\ promise' = [promise EXCEPT ![t] = "waiting"]
  BY DEF Workers!RunTask
<1>2. CASE ~(crashes = 0 /\ ~finished)
  BY <1>1, <1>2 DEF Workers!WorkerInv
<1>3. CASE crashes = 0 /\ ~finished
  <2> DEFINE p == [threads EXCEPT !.queue = Append(threads.queue, t)]
  <2>1. /\ threads \in Workers!Pools /\ Workers!Quiet(threads) /\ Workers!Exact(threads) /\ (threads.queue = <<>> \/ threads.idle = <<>>)
        /\ promise \in [Workers!Tasks -> {"none", "waiting", "resolved", "rejected"}]
        /\ \A u \in Workers!Tasks : promise[u] = "waiting" <=> Workers!Placed(threads, u)
    BY <1>3 DEF Workers!WorkerInv
  <2>2. PICK q \in Seq(Workers!Tasks) : q = threads.queue
    BY <2>1 DEF Workers!Pools
  <2>3. /\ Append(q, t) \in Seq(Workers!Tasks) /\ Len(q) \in Nat /\ Len(Append(q, t)) = Len(q) + 1
        /\ \A k \in 1..Len(q) : k \in 1..Len(Append(q, t)) /\ Append(q, t)[k] = q[k]
        /\ Len(q) + 1 \in 1..Len(Append(q, t)) /\ Append(q, t)[Len(q) + 1] = t
        /\ \A k \in 1..Len(Append(q, t)) : k = Len(q) + 1 \/ k \in 1..Len(q)
    BY AppendOf
  <2>4. /\ p \in Workers!Pools /\ p.queue = Append(q, t) /\ p.idle = threads.idle
        /\ p.taskMap = threads.taskMap
        /\ p.workers = threads.workers /\ p.threads = threads.threads
    BY <2>1, <2>2, <2>3 DEF Workers!Pools
  <2>5. threads' = Workers!ProcessNextTask(p)
    BY <1>1
  <2> HIDE DEF p
  <2>6. threads.taskMap[t] = 0 /\ \A k \in 1..Len(q) : q[k] # t
    BY <1>1, <2>1, <2>2 DEF Workers!Placed
  <2>7. Workers!Quiet(p)
    BY <2>1, <2>4 DEF Workers!Quiet
  <2>8. Workers!Exact(p)
    <3>1. \A j, k \in 1..Len(p.queue) : p.queue[j] = p.queue[k] => j = k
      BY <2>1, <2>2, <2>3, <2>4, <2>6 DEF Workers!Exact
    <3>2. \A k \in 1..Len(p.queue) : p.taskMap[p.queue[k]] = 0
      BY <2>1, <2>2, <2>3, <2>4, <2>6 DEF Workers!Exact
    <3>3. /\ \A j, k \in 1..Len(p.idle) : p.idle[j] = p.idle[k] => j = k
          /\ \A k \in 1..Len(p.idle), u \in Workers!Tasks : p.taskMap[u] # p.idle[k]
          /\ \A i \in Workers!Indices :
                (\E k \in 1..Len(p.idle) : p.idle[k] = i) \/ (\E u \in Workers!Tasks : p.taskMap[u] = i)
      BY <2>1, <2>4 DEF Workers!Exact
    <3>4. \A u, v \in Workers!Tasks : p.taskMap[u] = p.taskMap[v] /\ p.taskMap[u] # 0 => u = v
      BY <2>1, <2>4 DEF Workers!Exact
    <3>5. \A u \in Workers!Tasks : p.taskMap[u] # 0 => Workers!Holds(p.threads[p.taskMap[u]], u)
      BY <2>1, <2>4 DEF Workers!Exact
    <3> QED
      BY <3>1, <3>2, <3>3, <3>4, <3>5 DEF Workers!Exact
  <2>9. Len(p.queue) <= 1 \/ Len(p.idle) <= 1
    BY <2>1, <2>2, <2>3, <2>4
  <2>10. /\ threads' \in Workers!Pools /\ Workers!Quiet(threads') /\ Workers!Exact(threads') /\ (threads'.queue = <<>> \/ threads'.idle = <<>>)
         /\ \A u \in Workers!Tasks : Workers!Placed(threads', u) <=> Workers!Placed(p, u)
    BY <2>4, <2>5, <2>7, <2>8, <2>9, DispatchKeeps
  <2>11. \A u \in Workers!Tasks : Workers!Placed(p, u) <=> Workers!Placed(threads, u) \/ u = t
    BY <2>2, <2>3, <2>4 DEF Workers!Placed
  <2>12. /\ promise' \in [Workers!Tasks -> {"none", "waiting", "resolved", "rejected"}]
         /\ \A u \in Workers!Tasks : promise'[u] = IF u = t THEN "waiting" ELSE promise[u]
    BY <1>1, <2>1
  <2>13. \A u \in Workers!Tasks : promise'[u] = "waiting" <=> Workers!Placed(threads', u)
    BY <2>1, <2>10, <2>11, <2>12
  <2> QED
    BY <1>1, <2>10, <2>12, <2>13 DEF Workers!WorkerInv, Workers!Quiet, Workers!Exact, Workers!Placed
<1> QED
  BY <1>2, <1>3

LEMMA ComputeKeeps ==
    ASSUME Workers!WorkerInv, NEW s \in Workers!Threads, NEW success \in BOOLEAN, Workers!Compute(s, success)
    PROVE Workers!WorkerInv'
<1> DEFINE thread == threads.threads[s]
           result == [task |-> Head(thread.inbox), success |-> success]
           new == [thread EXCEPT !.inbox = Tail(thread.inbox), !.outbox = Append(thread.outbox, result)]
<1>1. /\ thread.inbox # <<>> /\ UNCHANGED <<promise, crashes, finished>>
      /\ threads' = [threads EXCEPT !.threads[s].inbox = Tail(@),
                              !.threads[s].outbox = Append(@, [task |-> Head(thread.inbox), success |-> success])]
  BY DEF Workers!Compute
<1>2. CASE ~(crashes = 0 /\ ~finished)
  BY <1>1, <1>2, SMTT(30) DEF Workers!WorkerInv
<1>3. CASE crashes = 0 /\ ~finished
  <2>1. /\ threads \in Workers!Pools /\ Workers!Quiet(threads) /\ Workers!Exact(threads) /\ (threads.queue = <<>> \/ threads.idle = <<>>)
        /\ promise \in [Workers!Tasks -> {"none", "waiting", "resolved", "rejected"}]
        /\ \A u \in Workers!Tasks : promise[u] = "waiting" <=> Workers!Placed(threads, u)
    BY <1>3 DEF Workers!WorkerInv
  <2>2. thread \in Workers!ThreadStates /\ threads.threads \in [Workers!Threads -> Workers!ThreadStates]
    BY <2>1 DEF Workers!Pools
  <2>3. PICK in \in Seq(Workers!Tasks) : in = thread.inbox
    BY <2>2 DEF Workers!ThreadStates
  <2>4. PICK out \in Seq(Workers!Results) : out = thread.outbox
    BY <2>2 DEF Workers!ThreadStates
  <2>5. /\ Head(in) \in Workers!Tasks /\ Head(in) = in[1] /\ Tail(in) \in Seq(Workers!Tasks)
        /\ \A k \in 1..Len(in) : k # 1 => k - 1 \in 1..Len(Tail(in)) /\ Tail(in)[k - 1] = in[k]
    BY <1>1, <2>3, TailOf
  <2>6. result \in Workers!Results /\ result.task = Head(in)
    BY <2>3, <2>5 DEF Workers!Results
  <2>7. threads' = [threads EXCEPT !.threads[s] = new]
    BY <1>1, <2>1, <2>2 DEF Workers!Pools, Workers!ThreadStates
  <2> HIDE DEF result
  <2>8. /\ Append(out, result) \in Seq(Workers!Results)
        /\ \A k \in 1..Len(out) : k \in 1..Len(Append(out, result)) /\ Append(out, result)[k] = out[k]
        /\ Len(out) + 1 \in 1..Len(Append(out, result)) /\ Append(out, result)[Len(out) + 1] = result
    BY <2>6, AppendOf
  <2>9. /\ new \in Workers!ThreadStates /\ new.inbox = Tail(in) /\ new.outbox = Append(out, result)
        /\ new.up = thread.up /\ new.events = thread.events
    BY <2>2, <2>3, <2>4, <2>5, <2>8 DEF Workers!ThreadStates
  <2>10. \A u \in Workers!Tasks : Workers!Holds(thread, u) => Workers!Holds(new, u)
    <3> TAKE u \in Workers!Tasks
    <3>1. ASSUME NEW k \in 1..Len(in), in[k] = u PROVE Workers!Holds(new, u)
      <4>1. CASE k = 1
        BY <2>5, <2>6, <2>8, <2>9, <3>1, <4>1 DEF Workers!Holds
      <4>2. CASE k # 1
        BY <2>5, <2>9, <3>1, <4>2 DEF Workers!Holds
      <4> QED
        BY <4>1, <4>2
    <3>2. ASSUME NEW k \in 1..Len(out), out[k].task = u PROVE Workers!Holds(new, u)
      BY <2>8, <2>9, <3>2 DEF Workers!Holds
    <3> QED
      BY <2>3, <2>4, <3>1, <3>2 DEF Workers!Holds
  <2> HIDE DEF new
  <2>11. /\ threads' \in Workers!Pools /\ threads'.threads = [threads.threads EXCEPT ![s] = new]
         /\ threads'.workers = threads.workers /\ threads'.idle = threads.idle
         /\ threads'.queue = threads.queue
         /\ threads'.taskMap = threads.taskMap
    BY <2>1, <2>2, <2>7, <2>9 DEF Workers!Pools
  <2>12. \A x \in Workers!Threads : threads'.threads[x] = IF x = s THEN new ELSE threads.threads[x]
    BY <2>2, <2>11
  <2>13. Workers!Quiet(threads')
    <3>1. Workers!Indices \subseteq Workers!Threads
      BY WorkerAssumption DEF Workers!Indices, Workers!Threads
    <3>2. \A x \in Workers!Threads :
             threads'.threads[x].up = threads.threads[x].up /\ threads'.threads[x].events = threads.threads[x].events
      BY <2>9, <2>12
    <3> QED
      BY <2>1, <2>11, <3>1, <3>2 DEF Workers!Quiet
  <2>14. Workers!Exact(threads')
    <3>1. ASSUME NEW u \in Workers!Tasks, threads'.taskMap[u] # 0 PROVE Workers!Holds(threads'.threads[threads'.taskMap[u]], u)
      <4>1. threads.taskMap[u] \in 0..PoolSize
        BY <2>1 DEF Workers!Pools
      <4>2. threads.taskMap[u] \in Workers!Threads
        BY <2>11, <3>1, <4>1, WorkerAssumption DEF Workers!Threads
      <4>3. Workers!Holds(threads.threads[threads.taskMap[u]], u)
        BY <2>1, <2>11, <3>1 DEF Workers!Exact
      <4> QED
        BY <2>10, <2>11, <2>12, <4>2, <4>3
    <3> QED
      BY <2>1, <2>11, <3>1, SameLists
  <2>15. \A u \in Workers!Tasks : Workers!Placed(threads', u) <=> Workers!Placed(threads, u)
    BY <2>11 DEF Workers!Placed
  <2> QED
    BY <1>1, <2>1, <2>11, <2>13, <2>14, <2>15, Zenon DEF Workers!WorkerInv, Workers!Quiet, Workers!Exact,
       Workers!Placed
<1> QED
  BY <1>2, <1>3

LEMMA MessageKeeps ==
    ASSUME Workers!WorkerInv, NEW s \in Workers!Threads, Workers!Message(s) PROVE Workers!WorkerInv'
<1> DEFINE thread == threads.threads[s]
           result == Head(thread.outbox)
           t == result.task
           i == threads.taskMap[t]
           new == [thread EXCEPT !.outbox = Tail(thread.outbox)]
           lighter == [threads EXCEPT !.threads[s].outbox = Tail(@)]
           freed == [lighter EXCEPT !.taskMap[t] = 0, !.idle = Append(@, threads.taskMap[t])]
<1>1. /\ thread.outbox # <<>> /\ UNCHANGED <<crashes, finished>>
      /\ i = 0 => threads' = lighter /\ UNCHANGED promise
      /\ i # 0 => /\ threads' = Workers!ProcessNextTask(freed)
                  /\ promise' = [promise EXCEPT ![t] = IF result.success THEN "resolved" ELSE "rejected"]
  BY SMTT(30) DEF Workers!Message
<1>2. CASE ~(crashes = 0 /\ ~finished)
  BY <1>1, <1>2 DEF Workers!WorkerInv
<1>3. CASE crashes = 0 /\ ~finished
  <2>1. /\ threads \in Workers!Pools /\ Workers!Quiet(threads) /\ Workers!Exact(threads) /\ (threads.queue = <<>> \/ threads.idle = <<>>)
        /\ promise \in [Workers!Tasks -> {"none", "waiting", "resolved", "rejected"}]
        /\ \A u \in Workers!Tasks : promise[u] = "waiting" <=> Workers!Placed(threads, u)
    BY <1>3 DEF Workers!WorkerInv
  <2>2. thread \in Workers!ThreadStates /\ threads.threads \in [Workers!Threads -> Workers!ThreadStates]
    BY <2>1 DEF Workers!Pools
  <2>3. PICK out \in Seq(Workers!Results) : out = thread.outbox
    BY <2>2, SMTT(30) DEF Workers!ThreadStates
  <2>4. /\ Head(out) \in Workers!Results /\ Head(out) = out[1] /\ Tail(out) \in Seq(Workers!Results)
        /\ \A k \in 1..Len(out) : k # 1 => k - 1 \in 1..Len(Tail(out)) /\ Tail(out)[k - 1] = out[k]
    BY <1>1, <2>3, TailOf, SMTT(30)
  <2>5. t \in Workers!Tasks /\ t = out[1].task
    BY <2>3, <2>4 DEF Workers!Results
  <2>6. lighter = [threads EXCEPT !.threads[s] = new]
    BY <2>1, <2>2 DEF Workers!Pools, Workers!ThreadStates
  <2>7. /\ new \in Workers!ThreadStates /\ new.inbox = thread.inbox /\ new.outbox = Tail(out)
        /\ new.up = thread.up /\ new.events = thread.events
    BY <2>2, <2>3, <2>4 DEF Workers!ThreadStates
  <2>8. \A u \in Workers!Tasks : Workers!Holds(thread, u) /\ u # t => Workers!Holds(new, u)
    <3> SUFFICES ASSUME NEW u \in Workers!Tasks, Workers!Holds(thread, u), u # t PROVE Workers!Holds(new, u)
      OBVIOUS
    <3>1. ASSUME NEW k \in 1..Len(out), out[k].task = u PROVE Workers!Holds(new, u)
      BY <2>4, <2>5, <2>7, <3>1, SMTT(30) DEF Workers!Holds
    <3> HIDE DEF thread, new, t
    <3> QED
      BY <2>3, <2>7, <3>1 DEF Workers!Holds
  <2> HIDE DEF new
  <2>9. /\ lighter \in Workers!Pools /\ lighter.threads = [threads.threads EXCEPT ![s] = new]
        /\ lighter.workers = threads.workers /\ lighter.idle = threads.idle /\ lighter.queue = threads.queue
        /\ lighter.taskMap = threads.taskMap
    BY <2>1, <2>2, <2>6, <2>7 DEF Workers!Pools
  <2> HIDE DEF lighter
  <2>10. \A x \in Workers!Threads : lighter.threads[x] = IF x = s THEN new ELSE threads.threads[x]
    BY <2>2, <2>9
  <2>11. Workers!Quiet(lighter)
    BY <2>1, <2>7, <2>9, <2>10, WorkerAssumption DEF Workers!Quiet, Workers!Indices, Workers!Threads
  <2>12. ASSUME NEW u \in Workers!Tasks, threads.taskMap[u] # 0, u # t PROVE Workers!Holds(lighter.threads[threads.taskMap[u]], u)
    <3>1. threads.taskMap[u] \in 0..PoolSize
      BY <2>1 DEF Workers!Pools
    <3>2. threads.taskMap[u] \in Workers!Threads
      BY <2>12, <3>1, WorkerAssumption DEF Workers!Threads
    <3>3. Workers!Holds(threads.threads[threads.taskMap[u]], u)
      BY <2>1, <2>12 DEF Workers!Exact
    <3> QED
      BY <2>8, <2>10, <2>12, <3>2, <3>3
  <2> HIDE DEF t
  <2>13. CASE i = 0
    <3>1. threads' = lighter /\ UNCHANGED promise
      BY <1>1, <2>13
    <3>2. Workers!Exact(lighter)
      <4>1. ASSUME NEW u \in Workers!Tasks, lighter.taskMap[u] # 0 PROVE Workers!Holds(lighter.threads[lighter.taskMap[u]], u)
        BY <2>9, <2>12, <2>13, <4>1
      <4> QED
        BY <2>1, <2>9, <4>1 DEF Workers!Exact
    <3>3. \A u \in Workers!Tasks : Workers!Placed(lighter, u) <=> Workers!Placed(threads, u)
      BY <2>9 DEF Workers!Placed
    <3>4. /\ threads' \in Workers!Pools /\ Workers!Quiet(threads') /\ Workers!Exact(threads') /\ (threads'.queue = <<>> \/ threads'.idle = <<>>)
          /\ \A u \in Workers!Tasks : promise'[u] = "waiting" <=> Workers!Placed(threads', u)
      BY <2>1, <2>9, <2>11, <3>1, <3>2, <3>3
    <3> QED
      BY <1>1, <2>1, <3>1, <3>4 DEF Workers!WorkerInv, Workers!Quiet, Workers!Exact, Workers!Placed
  <2>14. CASE i # 0
    <3>1. i \in Workers!Indices
      BY <2>1, <2>5, <2>14, WorkerAssumption DEF Workers!Pools, Workers!Indices
    <3> HIDE DEF i
    <3>2. PICK q \in Seq(Workers!Indices) : q = threads.idle
      BY <2>1 DEF Workers!Pools
    <3>3. /\ Append(q, i) \in Seq(Workers!Indices) /\ Len(q) \in Nat /\ Len(Append(q, i)) = Len(q) + 1
          /\ \A k \in 1..Len(q) : k \in 1..Len(Append(q, i)) /\ Append(q, i)[k] = q[k]
          /\ Len(q) + 1 \in 1..Len(Append(q, i)) /\ Append(q, i)[Len(q) + 1] = i
          /\ \A k \in 1..Len(Append(q, i)) : k = Len(q) + 1 \/ k \in 1..Len(q)
      BY <3>1, AppendOf
    <3>4. freed = [lighter EXCEPT !.taskMap[t] = 0, !.idle = Append(q, i)]
      BY <2>9, <3>2 DEF i, Workers!Pools
    <3>5. [threads.taskMap EXCEPT ![t] = 0] \in [Workers!Tasks -> 0..PoolSize]
      <4>1. threads.taskMap \in [Workers!Tasks -> 0..PoolSize] /\ 0 \in 0..PoolSize
        BY <2>1, WorkerAssumption DEF Workers!Pools
      <4> QED
        BY <4>1
    <3>6. /\ freed \in Workers!Pools /\ freed.workers = lighter.workers /\ freed.threads = lighter.threads
          /\ freed.queue = threads.queue /\ freed.idle = Append(q, i)
          /\ freed.taskMap = [threads.taskMap EXCEPT ![t] = 0]
      BY <2>9, <3>3, <3>4, <3>5 DEF Workers!Pools
    <3>7. threads' = Workers!ProcessNextTask(freed)
          /\ promise' = [promise EXCEPT ![t] = IF result.success THEN "resolved" ELSE "rejected"]
      BY <1>1, <2>14 DEF t, i
    <3> HIDE DEF freed
    <3>8. \A u \in Workers!Tasks : freed.taskMap[u] = IF u = t THEN 0 ELSE threads.taskMap[u]
      BY <2>1, <3>6 DEF Workers!Pools
    <3>9. \A u \in Workers!Tasks : u # t => threads.taskMap[u] # i
      BY <2>1, <2>5, <3>1, WorkerAssumption DEF Workers!Exact, i, Workers!Indices
    <3>10. \A k \in 1..Len(q) : q[k] # i
      BY <2>1, <2>5, <3>2 DEF Workers!Exact, i
    <3>11. Workers!Quiet(freed)
      BY <2>11, <3>6 DEF Workers!Quiet
    <3>12. Workers!Exact(freed)
      <4>1. \A j, k \in 1..Len(freed.idle) : freed.idle[j] = freed.idle[k] => j = k
        BY <2>1, <3>2, <3>3, <3>6, <3>10 DEF Workers!Exact
      <4>2. \A k \in 1..Len(freed.queue) : freed.taskMap[freed.queue[k]] = 0
        <5>1. \A k \in 1..Len(freed.queue) : freed.queue[k] \in Workers!Tasks
          BY <3>6 DEF Workers!Pools
        <5> QED
          BY <2>1, <3>6, <3>8, <5>1 DEF Workers!Exact
      <4>3. \A k \in 1..Len(freed.idle), u \in Workers!Tasks : freed.taskMap[u] # freed.idle[k]
        <5>1. \A k \in 1..Len(freed.idle) : freed.idle[k] # 0
          <6>1. \A k \in 1..Len(Append(q, i)) : Append(q, i)[k] \in Workers!Indices
            BY <3>3
          <6>2. 0 \notin Workers!Indices
            BY WorkerAssumption DEF Workers!Indices
          <6> QED
            BY <3>6, <6>1, <6>2
        <5>2. \A k \in 1..Len(q), u \in Workers!Tasks : threads.taskMap[u] # q[k]
          BY <2>1, <3>2 DEF Workers!Exact
        <5> QED
          BY <3>3, <3>6, <3>8, <3>9, <5>1, <5>2
      <4>4. \A x \in Workers!Indices : (\E k \in 1..Len(freed.idle) : freed.idle[k] = x) \/ (\E u \in Workers!Tasks : freed.taskMap[u] = x)
        <5> TAKE x \in Workers!Indices
        <5>1. CASE x = i
          BY <3>3, <3>6, <5>1
        <5>2. CASE x # i
          <6>1. CASE \E k \in 1..Len(q) : q[k] = x
            BY <3>3, <3>6, <6>1
          <6>2. CASE \E u \in Workers!Tasks : threads.taskMap[u] = x
            BY <3>8, <5>2, <6>2 DEF i
          <6> QED
            BY <2>1, <3>2, <6>1, <6>2 DEF Workers!Exact
        <5> QED
          BY <5>1, <5>2
      <4>5. ASSUME NEW u \in Workers!Tasks, freed.taskMap[u] # 0 PROVE Workers!Holds(freed.threads[freed.taskMap[u]], u)
        BY <2>12, <3>6, <3>8, <4>5
      <4>6. \A u, v \in Workers!Tasks : freed.taskMap[u] = freed.taskMap[v] /\ freed.taskMap[u] # 0 => u = v
        BY <2>1, <3>8 DEF Workers!Exact
      <4>7. \A j, k \in 1..Len(freed.queue) : freed.queue[j] = freed.queue[k] => j = k
        BY <2>1, <3>6 DEF Workers!Exact
      <4> QED
        BY <4>1, <4>2, <4>3, <4>4, <4>5, <4>6, <4>7 DEF Workers!Exact
    <3>13. Len(freed.queue) <= 1 \/ Len(freed.idle) <= 1
      BY <2>1, <3>2, <3>3, <3>6
    <3>14. /\ threads' \in Workers!Pools /\ Workers!Quiet(threads') /\ Workers!Exact(threads') /\ (threads'.queue = <<>> \/ threads'.idle = <<>>)
           /\ \A u \in Workers!Tasks : Workers!Placed(threads', u) <=> Workers!Placed(freed, u)
      BY <3>6, <3>7, <3>11, <3>12, <3>13, DispatchKeeps
    <3>15. ~Workers!Placed(freed, t) /\ \A u \in Workers!Tasks : u # t => (Workers!Placed(freed, u) <=> Workers!Placed(threads, u))
      <4>1. \A k \in 1..Len(threads.queue) : threads.queue[k] # t
        BY <2>1, <2>14 DEF Workers!Exact, i
      <4> QED
        BY <2>5, <3>6, <3>8, <4>1 DEF Workers!Placed, t
    <3>16. /\ promise' \in [Workers!Tasks -> {"none", "waiting", "resolved", "rejected"}]
           /\ promise'[t] # "waiting" /\ \A u \in Workers!Tasks : u # t => promise'[u] = promise[u]
      BY <2>1, <2>5, <3>7
    <3>17. \A u \in Workers!Tasks : promise'[u] = "waiting" <=> Workers!Placed(threads', u)
      BY <2>1, <3>14, <3>15, <3>16
    <3> QED
      BY <1>1, <3>14, <3>16, <3>17 DEF Workers!WorkerInv, Workers!Quiet, Workers!Exact, Workers!Placed
  <2> QED
    BY <2>13, <2>14
<1> QED
  BY <1>2, <1>3, SMTT(30)

LEMMA WorkersStart == Workers!Init => Workers!WorkerInv
<1> SUFFICES ASSUME Workers!Init PROVE Workers!WorkerInv
  OBVIOUS
<1>1. /\ threads.workers = [i \in Workers!Indices |-> i] /\ threads.idle = [i \in Workers!Indices |-> i] /\ threads.queue = <<>>
      /\ threads.taskMap = [t \in Workers!Tasks |-> 0]
      /\ threads.threads = [s \in Workers!Threads |-> IF s \in Workers!Indices THEN Workers!NewThread(s) ELSE Workers!NoThread]
      /\ threads \in [workers : {threads.workers}, idle : {threads.idle}, queue : {threads.queue}, taskMap : {threads.taskMap},
                   threads : {threads.threads}]
  BY DEF Workers!Init
<1>2. /\ threads.idle \in Seq(Workers!Indices) /\ Len(threads.idle) = PoolSize
      /\ Workers!Indices \subseteq Workers!Threads
      /\ Workers!Indices \subseteq 0..MaxThreads /\ 0 \notin Workers!Indices /\ Len(threads.queue) = 0
      /\ threads.queue \in Seq(Workers!Tasks)
  <2>1. [i \in Workers!Indices |-> i] \in Seq(Workers!Indices) /\ Len([i \in Workers!Indices |-> i]) = PoolSize
    <3>1. [i \in 1..PoolSize |-> i] \in Seq(1..PoolSize) /\ Len([i \in 1..PoolSize |-> i]) = PoolSize
      BY WorkerAssumption
    <3> QED
      BY <3>1 DEF Workers!Indices
  <2>2. /\ Workers!Indices \subseteq Workers!Threads /\ Workers!Indices \subseteq 0..MaxThreads
        /\ 0 \notin Workers!Indices
    BY WorkerAssumption DEF Workers!Indices, Workers!Threads
  <2> QED
    BY <1>1, <2>1, <2>2
<1>3. ASSUME NEW s \in Workers!Threads
      PROVE  /\ threads.threads[s] \in Workers!ThreadStates /\ threads.threads[s].events = {}
             /\ s \in Workers!Indices => threads.threads[s].up
  <2>1. Workers!NoThread \in Workers!ThreadStates /\ Workers!NoThread.events = {}
    <3>1. 0 \in 0..PoolSize /\ <<>> \in Seq(Workers!Tasks) /\ <<>> \in Seq(Workers!Results)
      BY WorkerAssumption
    <3> QED
      BY <3>1 DEF Workers!NoThread, Workers!ThreadStates
  <2>2. s \in Workers!Indices => Workers!NewThread(s) \in Workers!ThreadStates /\ Workers!NewThread(s).events = {} /\ Workers!NewThread(s).up
    <3>1. s \in Workers!Indices => s \in 0..PoolSize
      BY WorkerAssumption DEF Workers!Indices
    <3>2. <<>> \in Seq(Workers!Tasks) /\ <<>> \in Seq(Workers!Results)
      OBVIOUS
    <3> QED
      BY <3>1, <3>2 DEF Workers!NewThread, Workers!NoThread, Workers!ThreadStates
  <2> QED
    BY <1>1, <2>1, <2>2
<1>4. threads \in Workers!Pools
  <2>1. threads.workers \in [Workers!Indices -> 0..MaxThreads]
    BY <1>1, <1>2
  <2>2. threads.taskMap \in [Workers!Tasks -> 0..PoolSize]
    BY <1>1, WorkerAssumption
  <2>3. threads.threads \in [Workers!Threads -> Workers!ThreadStates]
    BY <1>1, <1>3
  <2> QED
    BY <1>1, <1>2, <2>1, <2>2, <2>3 DEF Workers!Pools
<1>5. Workers!Quiet(threads)
  BY <1>1, <1>2, <1>3 DEF Workers!Quiet
<1>6. Workers!Exact(threads)
  <2>1. \A k \in 1..Len(threads.idle) : k \in Workers!Indices /\ threads.idle[k] = k
    BY <1>1, <1>2 DEF Workers!Indices
  <2>2. \A i \in Workers!Indices : i \in 1..Len(threads.idle)
    BY <1>2 DEF Workers!Indices
  <2>3. \A t \in Workers!Tasks : threads.taskMap[t] = 0
    BY <1>1
  <2>4. \A k \in 1..Len(threads.queue) : FALSE
    BY <1>2
  <2> QED
    BY <1>2, <2>1, <2>2, <2>3, <2>4 DEF Workers!Exact
<1>7. \A t \in Workers!Tasks : ~Workers!Placed(threads, t) /\ promise[t] = "none"
  BY <1>1, <1>2 DEF Workers!Placed, Workers!Init
<1>8. promise \in [Workers!Tasks -> {"none", "waiting", "resolved", "rejected"}]
  BY DEF Workers!Init
<1> QED
  <2>1. crashes \in 0..MaxCrashes /\ finished \in BOOLEAN
    <3>1. crashes = 0 /\ finished = FALSE
      BY DEF Workers!Init
    <3>2. crashes \in 0..MaxCrashes
      BY <3>1, WorkerAssumption
    <3>3. finished \in BOOLEAN
      BY <3>1
    <3> QED
      BY <3>2, <3>3
  <2>2. \A t \in Workers!Tasks : promise[t] = "waiting" <=> Workers!Placed(threads, t)
    BY <1>7
  <2> QED
    BY <1>1, <1>4, <1>5, <1>6, <1>8, <2>1, <2>2 DEF Workers!WorkerInv

LEMMA WorkersStep == Workers!WorkerInv /\ [Workers!Next]_(Workers!workerVars) => Workers!WorkerInv'
<1> SUFFICES ASSUME Workers!WorkerInv, [Workers!Next]_(Workers!workerVars) PROVE Workers!WorkerInv'
  OBVIOUS
<1>1. ASSUME NEW t \in Workers!Tasks, Workers!RunTask(t) PROVE Workers!WorkerInv'
  BY <1>1, RunTaskKeeps
<1>2. ASSUME NEW s \in Workers!Threads, NEW success \in BOOLEAN, Workers!Compute(s, success) PROVE Workers!WorkerInv'
  BY <1>2, ComputeKeeps
<1>3. ASSUME NEW s \in Workers!Threads, Workers!Message(s) PROVE Workers!WorkerInv'
  BY <1>3, MessageKeeps
<1>4. ASSUME NEW s \in Workers!Threads, Workers!Crash(s) PROVE Workers!WorkerInv'
  <2>1. crashes' \in 0..MaxCrashes /\ crashes' # 0 /\ finished' \in BOOLEAN
    BY <1>4, WorkerAssumption DEF Workers!Crash, Workers!WorkerInv
  <2> QED
    BY <2>1, NotCalm
<1>5. ASSUME NEW s \in Workers!Threads, NEW new, Workers!ErrorEvent(s, new) \/ Workers!ExitEvent(s, new) PROVE Workers!WorkerInv'
  <2>1. threads.threads[s].events # {} /\ UNCHANGED <<crashes, finished>>
    BY <1>5 DEF Workers!ErrorEvent, Workers!ExitEvent
  <2>2. ~(crashes = 0 /\ ~finished)
    BY <2>1 DEF Workers!WorkerInv, Workers!Quiet
  <2> QED
    BY <2>1, <2>2 DEF Workers!WorkerInv
<1>6. CASE Workers!Terminate
  <2>1. crashes' \in 0..MaxCrashes /\ finished' = TRUE
    BY <1>6 DEF Workers!Terminate, Workers!WorkerInv
  <2> QED
    BY <2>1, NotCalm
<1>7. CASE UNCHANGED Workers!workerVars
  BY <1>7 DEF Workers!workerVars, Workers!WorkerInv, Workers!Quiet, Workers!Exact, Workers!Placed
<1> QED
  BY <1>1, <1>2, <1>3, <1>4, <1>5, <1>6, <1>7 DEF Workers!Next

(* workerPool.service.ts, runTask and dispatchNext: while no thread has    *)
(* crashed queue, idle list and task table place each task once and each   *)
(* worker once. *)
THEOREM WorkersInvariant == Workers!Spec => [](Workers!WorkerInv /\ Workers!CalmPoolIsExact)
BY WorkersStart, WorkersStep, WorkersKnow, PTL DEF Workers!Spec

-----------------------------------------------------------------------------
(* The replayer. *)

(* Cancelling leaves no load that is wanted. *)
LEMMA CancelledAll ==
    ASSUME NEW hs, hs \subseteq Player!Loads
    PROVE  Player!Cancelled(hs) \subseteq Player!Loads /\ \A h \in Player!Cancelled(hs) : h.cancelled
<1>1. \A h \in hs : [h EXCEPT !.cancelled = TRUE] \in Player!Loads /\ [h EXCEPT !.cancelled = TRUE].cancelled
  BY DEF Player!Loads
<1> QED
  BY <1>1 DEF Player!Cancelled

(* A move of the hook's clock, playing or not, that stays in the timeline. *)
LEMMA ClockMoves ==
    ASSUME Player!PlayerInv, NEW clock \in Nat, NEW playing \in BOOLEAN, clock <= player.maxClock,
           player' = [player EXCEPT !.currentClock = clock, !.isPlaying = playing], UNCHANGED <<histories, loads>>
    PROVE  Player!PlayerInv'
<1>1. clock \in 0..MaxFrames /\ player \in Player!Players
  BY PlayerAssumption DEF Player!PlayerInv, Player!Players
<1>2. /\ player' \in Player!Players /\ player'.currentClock = clock /\ player'.maxClock = player.maxClock
      /\ player'.mounted = player.mounted /\ player'.isLoading = player.isLoading
  BY <1>1 DEF Player!Players
<1> QED
  BY <1>2 DEF Player!PlayerInv, Player!ClockStaysInTimeline

LEMMA LoadKeeps ==
    ASSUME Player!PlayerInv, NEW last \in 0..MaxFrames, Player!Load(last) PROVE Player!PlayerInv'
<1> DEFINE new == [number |-> loads', last |-> last, cancelled |-> FALSE]
<1>1. /\ loads' = loads + 1 /\ loads' \in 1..MaxLoads
      /\ player' = [player EXCEPT !.mounted = TRUE, !.isLoading = TRUE, !.error = FALSE]
      /\ histories' = Player!Cancelled(histories) \cup {new}
  BY PlayerAssumption DEF Player!Load, Player!PlayerInv
<1>2. /\ player' \in Player!Players /\ player'.currentClock = player.currentClock
      /\ player'.maxClock = player.maxClock
      /\ player'.mounted /\ player'.isLoading
  BY <1>1 DEF Player!PlayerInv, Player!Players
<1>3. new \in Player!Loads /\ ~new.cancelled
  BY <1>1 DEF Player!Loads
<1> HIDE DEF new
<1>4. Player!Cancelled(histories) \subseteq Player!Loads /\ \A h \in Player!Cancelled(histories) : h.cancelled
  BY CancelledAll DEF Player!PlayerInv
<1>5. histories' \subseteq Player!Loads /\ loads' \in 0..MaxLoads
  BY <1>1, <1>3, <1>4 DEF Player!PlayerInv
<1>6. (\A g, h \in histories' : ~g.cancelled /\ ~h.cancelled => g = h) /\ \E h \in histories' : ~h.cancelled
  BY <1>1, <1>3, <1>4
<1> QED
  BY <1>2, <1>5, <1>6 DEF Player!PlayerInv, Player!ClockStaysInTimeline

(* An answer arrives: a cancelled one changes nothing, another was the one *)
(* the replayer waited for.                                                *)
LEMMA AnswerKeepsClock ==
    ASSUME Player!PlayerInv, NEW h \in histories, histories' = histories \ {h}, UNCHANGED loads,
           h.cancelled => player' = player,
           ~h.cancelled => /\ player' \in Player!Players /\ ~player'.isLoading /\ player'.mounted = player.mounted
                           /\ player'.currentClock <= player'.maxClock
    PROVE  Player!PlayerInv'
<1>1. CASE h.cancelled
  <2>1. (\E g \in histories' : ~g.cancelled) <=> \E g \in histories : ~g.cancelled
    BY <1>1
  <2> QED
    BY <1>1, <2>1 DEF Player!PlayerInv, Player!ClockStaysInTimeline
<1>2. CASE ~h.cancelled
  <2>1. ASSUME NEW g \in histories' PROVE g.cancelled
    <3>1. g \in histories /\ g # h
      OBVIOUS
    <3> QED
      BY <1>2, <3>1 DEF Player!PlayerInv
  <2> QED
    BY <1>2, <2>1 DEF Player!PlayerInv, Player!ClockStaysInTimeline
<1> QED
  BY <1>1, <1>2

LEMMA LoadedKeeps ==
    ASSUME Player!PlayerInv, NEW h \in histories, Player!Loaded(h) \/ Player!LoadFails(h)
    PROVE Player!PlayerInv'
<1>1. h \in Player!Loads /\ player \in Player!Players /\ player.currentClock <= player.maxClock
  BY DEF Player!PlayerInv, Player!ClockStaysInTimeline
<1>2. CASE Player!Loaded(h)
  <2> DEFINE p == [player EXCEPT !.isLoading = FALSE, !.maxClock = h.last, !.currentClock = h.last]
  <2>1. p \in Player!Players /\ ~p.isLoading /\ p.mounted = player.mounted /\ p.currentClock <= p.maxClock
    <3>1. h.last \in 0..MaxFrames /\ h.last \in Nat
      BY <1>1, PlayerAssumption DEF Player!Loads
    <3>2. p \in Player!Players
      BY <1>1, <3>1 DEF Player!Players
    <3>3. /\ p.isLoading = FALSE /\ p.mounted = player.mounted /\ p.currentClock = h.last
          /\ p.maxClock = h.last
      BY <1>1 DEF Player!Players
    <3> QED
      BY <3>1, <3>2, <3>3
  <2> HIDE DEF p
  <2>2. histories' = histories \ {h} /\ UNCHANGED loads /\ player' = IF h.cancelled THEN player ELSE p
    BY <1>2 DEF Player!Loaded, p
  <2> QED
    BY <2>1, <2>2, AnswerKeepsClock
<1>3. CASE Player!LoadFails(h)
  <2> DEFINE p == [player EXCEPT !.isLoading = FALSE, !.error = TRUE]
  <2>1. p \in Player!Players /\ ~p.isLoading /\ p.mounted = player.mounted /\ p.currentClock <= p.maxClock
    BY <1>1 DEF Player!Players
  <2> HIDE DEF p
  <2>2. histories' = histories \ {h} /\ UNCHANGED loads /\ player' = IF h.cancelled THEN player ELSE p
    BY <1>3 DEF Player!LoadFails, p
  <2> QED
    BY <2>1, <2>2, AnswerKeepsClock
<1> QED
  BY <1>2, <1>3

LEMMA CloseKeeps ==
    ASSUME Player!PlayerInv, Player!Close PROVE Player!PlayerInv'
<1>1. player' = Player!Fresh /\ histories' = Player!Cancelled(histories) /\ UNCHANGED loads
  BY DEF Player!Close
<1>2. /\ Player!Fresh \in Player!Players /\ ~Player!Fresh.mounted
      /\ Player!Fresh.currentClock <= Player!Fresh.maxClock
  BY PlayerAssumption DEF Player!Fresh, Player!Players, Player!Speeds
<1>3. histories' \subseteq Player!Loads /\ \A h \in histories' : h.cancelled
  BY <1>1, CancelledAll DEF Player!PlayerInv
<1> QED
  BY <1>1, <1>2, <1>3 DEF Player!PlayerInv, Player!ClockStaysInTimeline

LEMMA TickKeeps ==
    ASSUME Player!PlayerInv, Player!Tick PROVE Player!PlayerInv'
<1> DEFINE next == player.currentClock + Player!StepSize
<1>1. /\ player \in Player!Players /\ player.currentClock \in Nat /\ player.maxClock \in Nat
      /\ player.isPlaying = TRUE
  BY PlayerAssumption DEF Player!PlayerInv, Player!Players, Player!Tick
<1>2. Player!StepSize \in Nat
  <2>1. player.maxClock \div StepDivisor \in Nat
    BY <1>1, PlayerAssumption
  <2> QED
    BY <2>1 DEF Player!StepSize, Player!Larger
<1>3. CASE next >= player.maxClock
  <2>1. player' = [player EXCEPT !.currentClock = player.maxClock, !.isPlaying = FALSE]
        /\ UNCHANGED <<histories, loads>>
    BY <1>3 DEF Player!Tick, Player!Reaches
  <2>2. PICK clock \in Nat : clock = player.maxClock
    BY <1>1
  <2>3. player' = [player EXCEPT !.currentClock = clock, !.isPlaying = FALSE] /\ clock <= player.maxClock
    BY <1>1, <2>1, <2>2
  <2> QED
    BY <2>1, <2>3, ClockMoves
<1>4. CASE ~(next >= player.maxClock)
  <2>1. player' = [player EXCEPT !.currentClock = next] /\ UNCHANGED <<histories, loads>>
    BY <1>4 DEF Player!Tick, Player!Reaches
  <2>2. next \in Nat /\ next <= player.maxClock
    BY <1>1, <1>2, <1>4
  <2> HIDE DEF next
  <2>3. next \in 0..MaxFrames
    BY <1>1, <2>2, PlayerAssumption DEF Player!Players
  <2>4. /\ player' \in Player!Players /\ player'.currentClock = next /\ player'.maxClock = player.maxClock
        /\ player'.mounted = player.mounted /\ player'.isLoading = player.isLoading
    <3>1. player' \in Player!Players
      BY <1>1, <2>1, <2>3 DEF Player!Players
    <3>2. player'.currentClock = next /\ player'.maxClock = player.maxClock
      BY <1>1, <2>1 DEF Player!Players
    <3>3. player'.mounted = player.mounted /\ player'.isLoading = player.isLoading
      BY <1>1, <2>1 DEF Player!Players
    <3> QED
      BY <3>1, <3>2, <3>3
  <2>5. player'.currentClock <= player'.maxClock
    BY <2>2, <2>4
  <2>6. player'.mounted => (player'.isLoading <=> \E h \in histories' : ~h.cancelled)
    BY <2>1, <2>4, Zenon DEF Player!PlayerInv, Player!ClockStaysInTimeline
  <2> QED
    BY <2>1, <2>4, <2>5, <2>6 DEF Player!PlayerInv, Player!ClockStaysInTimeline
<1> QED
  BY <1>3, <1>4

LEMMA OperateKeeps ==
    ASSUME Player!PlayerInv, Player!Operate PROVE Player!PlayerInv'
<1>1. /\ player \in Player!Players /\ player.currentClock \in Nat /\ player.maxClock \in Nat
      /\ player.currentClock <= player.maxClock /\ player.isPlaying \in BOOLEAN
      /\ UNCHANGED <<histories, loads>>
  BY PlayerAssumption DEF Player!PlayerInv, Player!Players, Player!ClockStaysInTimeline, Player!Operate
<1>2. CASE player' = [player EXCEPT !.isPlaying = ~@]
  <2>1. player' = [player EXCEPT !.currentClock = player.currentClock, !.isPlaying = ~player.isPlaying]
    BY <1>1, <1>2 DEF Player!Players
  <2> QED
    BY <1>1, <2>1, ClockMoves
<1>3. ASSUME NEW clock \in Nat, clock <= player.maxClock, Player!Stopped(clock) PROVE Player!PlayerInv'
  BY <1>1, <1>3, ClockMoves DEF Player!Stopped
<1>4. CASE Player!Stopped(0) \/ Player!Stopped(player.maxClock)
  BY <1>1, <1>3, <1>4
<1>5. CASE Player!Stopped(IF player.currentClock = 0 THEN 0 ELSE player.currentClock - 1)
  BY <1>1, <1>3, <1>5
<1>6. CASE Player!Stopped(Player!Smaller(player.maxClock, player.currentClock + 1))
  <2>1. Player!Smaller(player.maxClock, player.currentClock + 1) \in Nat
        /\ Player!Smaller(player.maxClock, player.currentClock + 1) <= player.maxClock
    BY <1>1 DEF Player!Smaller
  <2> QED
    BY <1>3, <1>6, <2>1
<1>7. CASE \E clock \in 0..player.maxClock : Player!Stopped(clock)
  BY <1>1, <1>3, <1>7
<1> QED
  BY <1>2, <1>4, <1>5, <1>6, <1>7 DEF Player!Operate

LEMMA CycleSpeedKeeps ==
    ASSUME Player!PlayerInv, Player!CycleSpeed PROVE Player!PlayerInv'
<1>1. PICK speed \in Player!Speeds : player' = [player EXCEPT !.speed = speed]
  BY DEF Player!CycleSpeed, Player!Speeds
<1>2. /\ player' \in Player!Players /\ player'.currentClock = player.currentClock
      /\ player'.maxClock = player.maxClock
      /\ player'.mounted = player.mounted /\ player'.isLoading = player.isLoading
  BY <1>1 DEF Player!PlayerInv, Player!Players
<1> QED
  BY <1>2 DEF Player!PlayerInv, Player!ClockStaysInTimeline, Player!CycleSpeed

LEMMA PlayerStart == Player!Init => Player!PlayerInv
<1>1. /\ Player!Fresh \in Player!Players /\ ~Player!Fresh.mounted
      /\ Player!Fresh.currentClock <= Player!Fresh.maxClock
  BY PlayerAssumption DEF Player!Fresh, Player!Players, Player!Speeds
<1> QED
  BY <1>1, PlayerAssumption DEF Player!Init, Player!PlayerInv, Player!ClockStaysInTimeline

LEMMA PlayerStep == Player!PlayerInv /\ [Player!Next]_(Player!playerVars) => Player!PlayerInv'
<1> SUFFICES ASSUME Player!PlayerInv, [Player!Next]_(Player!playerVars) PROVE Player!PlayerInv'
  OBVIOUS
<1>1. ASSUME NEW last \in 0..MaxFrames, Player!Load(last) PROVE Player!PlayerInv'
  BY <1>1, LoadKeeps
<1>2. ASSUME NEW h \in histories, Player!Loaded(h) \/ Player!LoadFails(h) PROVE Player!PlayerInv'
  BY <1>2, LoadedKeeps
<1>3. CASE Player!Close
  BY <1>3, CloseKeeps
<1>4. CASE Player!Tick
  BY <1>4, TickKeeps
<1>5. CASE Player!Operate
  BY <1>5, OperateKeeps
<1>6. CASE Player!CycleSpeed
  BY <1>6, CycleSpeedKeeps
<1>7. CASE UNCHANGED Player!playerVars
  BY <1>7 DEF Player!playerVars, Player!PlayerInv, Player!ClockStaysInTimeline
<1> QED
  BY <1>1, <1>2, <1>3, <1>4, <1>5, <1>6, <1>7 DEF Player!Next

LEMMA PlayerKnows == Player!PlayerInv => Player!TypeOK /\ Player!ClockStaysInTimeline
BY DEF Player!PlayerInv, Player!TypeOK, Player!Players, Player!Loads

(* TimelapseReplayer.tsx: at most one load is wanted, and the clock is in  *)
(* the timeline whatever the user does while a history is on its way. *)
THEOREM PlayerInvariant ==
    Player!Spec => [](Player!PlayerInv /\ Player!TypeOK /\ Player!ClockStaysInTimeline)
BY PlayerStart, PlayerStep, PlayerKnows, PTL DEF Player!Spec

-----------------------------------------------------------------------------
(* The snapshot panel. *)

LEMMA NothingShown == Panel!None \in Panel!Diffs /\ Panel!None.snap = 0 /\ Panel!Closed \in Panel!Panels
BY PanelAssumption DEF Panel!None, Panel!Diffs, Panel!Closed, Panel!Panels

(* Aborting the controller's request leaves none that counts. *)
LEMMA AbortedAll ==
    ASSUME Panel!PanelInv
    PROVE  /\ Panel!AbortedOld \subseteq Panel!FileRequests
           /\ \A r \in Panel!AbortedOld : r.aborted /\ \E q \in requests : r.number = q.number /\ r.snap = q.snap /\ r.answer = q.answer
           /\ \A r, q \in Panel!AbortedOld : r.number = q.number => r = q
<1> DEFINE Aborted(r) == [r EXCEPT !.aborted = @ \/ r.number = panel.controller]
<1>1. ASSUME NEW r \in requests
      PROVE  /\ Aborted(r) \in Panel!FileRequests /\ Aborted(r).aborted
             /\ Aborted(r).number = r.number /\ Aborted(r).snap = r.snap /\ Aborted(r).answer = r.answer
  <2>1. r \in Panel!FileRequests /\ (~r.aborted => r.number = panel.controller)
    BY DEF Panel!PanelInv, Panel!OfSelection
  <2> QED
    BY <2>1 DEF Panel!FileRequests
<1>2. Panel!AbortedOld = {Aborted(r) : r \in requests}
  BY DEF Panel!AbortedOld
<1>3. \A r, q \in requests : Aborted(r).number = Aborted(q).number => r = q
  BY <1>1 DEF Panel!PanelInv
<1> HIDE DEF Aborted
<1> QED
  BY <1>1, <1>2, <1>3

(* Moves of the panel that leave requests, cache and selection alone. *)
LEMMA ShownStays ==
    ASSUME Panel!PanelInv, UNCHANGED <<panelCache, requests>>, panel' \in Panel!Panels,
           panel'.open = panel.open, panel'.selected = panel.selected, panel'.files = panel.files,
           panel'.file = panel.file, panel'.loadingFiles = panel.loadingFiles,
           panel'.controller = panel.controller, panel.open /\ panel'.confirm => panel.file
    PROVE  Panel!PanelInv'
<1>1. panel.file => panel.files # Panel!None
  BY DEF Panel!PanelInv
<1>2. Panel!OfSelection'
  BY DEF Panel!PanelInv, Panel!OfSelection
<1>3. Panel!PanelShowsSelection'
  BY <1>1 DEF Panel!PanelInv, Panel!PanelShowsSelection
<1> QED
  BY <1>1, <1>2, <1>3 DEF Panel!PanelInv

LEMMA UnmountKeeps ==
    ASSUME Panel!PanelInv, NEW left, Panel!Unmounted(left) PROVE Panel!PanelInv'
<1>1. panel' = Panel!Closed /\ panelCache' = [s \in Panel!Snapshots |-> Panel!None] /\ requests' = {}
  BY DEF Panel!Unmounted
<1>2. /\ Panel!Closed.file = FALSE /\ Panel!Closed.open = FALSE /\ Panel!Closed.loadingFiles = FALSE
      /\ Panel!Closed \in Panel!Panels
  BY NothingShown DEF Panel!Closed
<1> QED
  BY <1>1, <1>2 DEF Panel!PanelInv, Panel!OfSelection, Panel!PanelShowsSelection

LEMMA OpenKeeps == ASSUME Panel!PanelInv, Panel!OpenPanel PROVE Panel!PanelInv'
<1>1. /\ ~panel.open /\ panel' = [Panel!Closed EXCEPT !.open = TRUE, !.loadingList = TRUE]
      /\ UNCHANGED <<panelCache, requests>>
  BY DEF Panel!OpenPanel
<1>2. requests = {} /\ panelCache = [s \in Panel!Snapshots |-> Panel!None]
  BY <1>1 DEF Panel!PanelInv
<1>3. /\ panel' \in Panel!Panels /\ panel'.open = TRUE /\ panel'.files = Panel!None /\ panel'.file = FALSE
      /\ panel'.confirm = FALSE /\ panel'.loadingFiles = FALSE
  BY <1>1, NothingShown DEF Panel!Closed, Panel!Panels
<1> QED
  BY <1>1, <1>2, <1>3 DEF Panel!PanelInv, Panel!OfSelection, Panel!PanelShowsSelection

(* A selection: the request before is aborted, at most one new one counts. *)
LEMMA SelectCachedKeeps ==
    ASSUME Panel!TypeOK, Panel!PanelInv, NEW s \in Panel!Snapshots, Panel!SelectCached(s)
    PROVE Panel!PanelInv'
<1>1. /\ panel.open /\ panelCache[s] # Panel!None /\ requests' = Panel!AbortedOld /\ UNCHANGED panelCache
      /\ panel' = [Panel!Selected(s) EXCEPT !.files = panelCache[s], !.file = TRUE, !.loadingFiles = FALSE, !.controller = 0]
  BY DEF Panel!SelectCached
<1>2. /\ panelCache[s] \in Panel!Diffs /\ panelCache[s].snap = s /\ s \in 0..MaxSnapshots
      /\ panel \in Panel!Panels /\ 0 \in 0..MaxSelects
  BY <1>1, PanelAssumption DEF Panel!TypeOK, Panel!PanelInv, Panel!PanelShowsSelection, Panel!Snapshots
<1>3. /\ panel' \in Panel!Panels /\ panel'.open = panel.open /\ panel'.selected = s
      /\ panel'.files = panelCache[s]
      /\ panel'.file = TRUE /\ panel'.loadingFiles = FALSE /\ panel'.confirm = FALSE
  BY <1>1, <1>2 DEF Panel!Selected, Panel!Panels
<1>4. requests' \subseteq Panel!FileRequests /\ (\A r, q \in requests' : r.number = q.number => r = q)
      /\ \A r \in requests' : r.aborted
  BY <1>1, AbortedAll
<1>5. Panel!OfSelection'
  <2>1. \A r \in requests' : r.answer # Panel!None => r.answer.snap = r.snap
    BY <1>1, AbortedAll DEF Panel!PanelInv, Panel!OfSelection
  <2> QED
    BY <1>4, <2>1 DEF Panel!OfSelection
<1>6. Panel!PanelShowsSelection'
  BY <1>1, <1>2, <1>3, <1>4 DEF Panel!PanelInv, Panel!PanelShowsSelection
<1> QED
  BY <1>1, <1>3, <1>4, <1>5, <1>6 DEF Panel!PanelInv

LEMMA SelectFetchedKeeps ==
    ASSUME Panel!TypeOK, Panel!PanelInv, NEW s \in Panel!Snapshots, Panel!SelectFetched(s)
    PROVE Panel!PanelInv'
<1>1. panel.open /\ UNCHANGED <<panelCache, liveVersion>>
  BY DEF Panel!SelectFetched
<1>2. PICK n \in 1..MaxSelects \ {r.number : r \in requests} :
         /\ requests' = Panel!AbortedOld \cup
              {[number |-> n, snap |-> s, aborted |-> FALSE, answer |-> IF s \in taken THEN Panel!Diff(s) ELSE Panel!None]}
         /\ panel' = [Panel!Selected(s) EXCEPT !.loadingFiles = TRUE, !.controller = n]
  BY DEF Panel!SelectFetched
<1> DEFINE answer == IF s \in taken THEN Panel!Diff(s) ELSE Panel!None
           new == [number |-> n, snap |-> s, aborted |-> FALSE, answer |-> answer]
<1>3. answer \in Panel!Diffs /\ (answer # Panel!None => answer.snap = s)
  BY NothingShown DEF Panel!Diff, Panel!Diffs, Panel!TypeOK, Panel!Snapshots
<1>4. s \in 0..MaxSnapshots /\ n \in 0..MaxSelects /\ panel \in Panel!Panels
  BY PanelAssumption DEF Panel!PanelInv, Panel!Snapshots
<1> HIDE DEF answer
<1>5. /\ new \in Panel!FileRequests /\ new.number = n /\ new.snap = s /\ new.answer = answer
      /\ new.aborted = FALSE
      /\ requests' = Panel!AbortedOld \cup {new}
  BY <1>2, <1>3 DEF Panel!FileRequests, answer
<1> HIDE DEF new
<1>6. /\ panel' \in Panel!Panels /\ panel'.open = panel.open /\ panel'.selected = s
      /\ panel'.files = Panel!None
      /\ panel'.file = FALSE /\ panel'.loadingFiles = TRUE /\ panel'.confirm = FALSE
      /\ panel'.controller = n
  BY <1>2, <1>4, NothingShown DEF Panel!Selected, Panel!Panels
<1>7. ASSUME NEW r \in Panel!AbortedOld
      PROVE  r.aborted /\ r.number # n /\ (r.answer # Panel!None => r.answer.snap = r.snap)
  BY AbortedAll DEF Panel!PanelInv, Panel!OfSelection
<1>8. requests' \subseteq Panel!FileRequests /\ \A r, q \in requests' : r.number = q.number => r = q
  BY <1>5, <1>7, AbortedAll
<1>9. Panel!OfSelection'
  BY <1>3, <1>5, <1>6, <1>7 DEF Panel!OfSelection
<1>10. Panel!PanelShowsSelection'
  <2>1. \A x \in Panel!Snapshots : panelCache'[x] # Panel!None => panelCache'[x].snap = x
    BY <1>1 DEF Panel!PanelInv, Panel!PanelShowsSelection
  <2>2. \E r \in requests' : r.number = panel'.controller /\ ~r.aborted /\ r.snap = panel'.selected
    BY <1>5, <1>6
  <2> QED
    BY <1>6, <2>1, <2>2 DEF Panel!PanelShowsSelection
<1> QED
  BY <1>1, <1>6, <1>8, <1>9, <1>10 DEF Panel!PanelInv

LEMMA FilesAnsweredKeeps ==
    ASSUME Panel!TypeOK, Panel!PanelInv, NEW r \in requests, NEW success \in BOOLEAN,
           Panel!FilesAnswered(r, success)
    PROVE  Panel!PanelInv'
<1> DEFINE used == success /\ ~r.aborted /\ r.answer # Panel!None
           current == panel.controller = r.number
<1>1. /\ requests' = requests \ {r}
      /\ panelCache' = IF used THEN [panelCache EXCEPT ![r.snap] = r.answer] ELSE panelCache
      /\ panel' = [(IF used THEN [panel EXCEPT !.files = r.answer, !.file = TRUE] ELSE panel)
                     EXCEPT !.loadingFiles = @ /\ panel.controller # r.number,
                            !.controller = IF @ = r.number THEN 0 ELSE @]
  BY DEF Panel!FilesAnswered
<1>2. /\ panel \in Panel!Panels /\ r \in Panel!FileRequests /\ panel.open
      /\ ~r.aborted => current /\ r.snap = panel.selected /\ panel.loadingFiles
      /\ r.answer # Panel!None => r.answer.snap = r.snap
  BY DEF Panel!PanelInv, Panel!OfSelection
<1>3. /\ panel' \in Panel!Panels /\ panel'.open = panel.open /\ panel'.selected = panel.selected
      /\ panel'.files = (IF used THEN r.answer ELSE panel.files)
      /\ panel'.file = (panel.file \/ used) /\ panel'.confirm = panel.confirm
      /\ panel'.loadingFiles = (panel.loadingFiles /\ ~current)
      /\ panel'.controller = (IF current THEN 0 ELSE panel.controller)
  <2> DEFINE loading == panel.loadingFiles /\ ~current
             controller == IF current THEN 0 ELSE panel.controller
  <2>1. loading \in BOOLEAN /\ controller \in 0..MaxSelects /\ panel.file \in BOOLEAN
    BY <1>2, PanelAssumption DEF Panel!Panels
  <2>2. CASE used
    <3>1. panel' = [panel EXCEPT !.files = r.answer, !.file = TRUE, !.loadingFiles = loading,
                                 !.controller = controller]
      BY <1>1, <1>2, <2>2 DEF Panel!Panels
    <3>2. r.answer \in Panel!Diffs
      BY <1>2 DEF Panel!FileRequests
    <3> HIDE DEF loading, controller
    <3>3. panel' \in Panel!Panels
      BY <1>2, <2>1, <3>1, <3>2 DEF Panel!Panels
    <3>4. /\ panel'.open = panel.open /\ panel'.selected = panel.selected /\ panel'.files = r.answer
          /\ panel'.file = TRUE /\ panel'.confirm = panel.confirm
          /\ panel'.loadingFiles = loading /\ panel'.controller = controller
      BY <1>2, <3>1 DEF Panel!Panels
    <3> QED
      BY <2>2, <3>3, <3>4 DEF loading, controller
  <2>3. CASE ~used
    <3>1. panel' = [panel EXCEPT !.loadingFiles = loading, !.controller = controller]
      BY <1>1, <1>2, <2>3 DEF Panel!Panels
    <3> HIDE DEF loading, controller
    <3>2. panel' \in Panel!Panels
      BY <1>2, <2>1, <3>1 DEF Panel!Panels
    <3>3. /\ panel'.open = panel.open /\ panel'.selected = panel.selected /\ panel'.files = panel.files
          /\ panel'.file = panel.file /\ panel'.confirm = panel.confirm
          /\ panel'.loadingFiles = loading /\ panel'.controller = controller
      BY <1>2, <3>1 DEF Panel!Panels
    <3>4. panel'.file = (panel.file \/ used)
      BY <2>1, <2>3, <3>3
    <3> QED
      BY <2>3, <3>2, <3>3, <3>4 DEF loading, controller
  <2> QED
    BY <2>2, <2>3
<1>4. \A x \in Panel!Snapshots : panelCache'[x] # Panel!None => panelCache'[x].snap = x
  <2>1. CASE used
    BY <1>1, <1>2, <2>1 DEF Panel!PanelInv, Panel!PanelShowsSelection, Panel!TypeOK
  <2>2. CASE ~used
    BY <1>1, <1>2, <2>2 DEF Panel!PanelInv, Panel!PanelShowsSelection
  <2> QED
    BY <2>1, <2>2
<1>5. \A q \in requests' : q \in requests /\ q.number # r.number
  BY <1>1 DEF Panel!PanelInv
<1>6. current => \A q \in requests' : q.aborted
  BY <1>5 DEF Panel!PanelInv, Panel!OfSelection
<1>7. Panel!OfSelection'
  BY <1>3, <1>5, <1>6 DEF Panel!PanelInv, Panel!OfSelection
<1>8. Panel!PanelShowsSelection'
  <2>1. panel'.files # Panel!None => panel'.files.snap = panel'.selected
    BY <1>2, <1>3 DEF Panel!PanelInv, Panel!PanelShowsSelection
  <2>2. panel'.confirm => panel'.file /\ panel'.files.snap = panel'.selected
    BY <1>2, <1>3 DEF Panel!PanelInv, Panel!PanelShowsSelection
  <2>3. panel'.loadingFiles <=>
            \E q \in requests' : q.number = panel'.controller /\ ~q.aborted /\ q.snap = panel'.selected
    <3>1. CASE current
      BY <1>3, <1>6, <3>1
    <3>2. CASE ~current
      <4>1. panel.loadingFiles <=>
              \E q \in requests : q.number = panel.controller /\ ~q.aborted /\ q.snap = panel.selected
        BY <1>2 DEF Panel!PanelInv, Panel!PanelShowsSelection
      <4>2. \A q \in requests : q.number = panel.controller => q \in requests'
        BY <1>1, <3>2
      <4>3. panel'.loadingFiles = panel.loadingFiles /\ panel'.controller = panel.controller
            /\ panel'.selected = panel.selected
        BY <1>2, <1>3, <3>2 DEF Panel!Panels
      <4> QED
        BY <1>5, <4>1, <4>2, <4>3
    <3> QED
      BY <3>1, <3>2
  <2> QED
    BY <1>4, <2>1, <2>2, <2>3 DEF Panel!PanelShowsSelection
<1>9. panel'.file => panel'.files # Panel!None
  BY <1>3 DEF Panel!PanelInv
<1> QED
  BY <1>2, <1>3, <1>5, <1>7, <1>8, <1>9 DEF Panel!PanelInv

LEMMA AskConfirmKeeps == ASSUME Panel!PanelInv, Panel!AskConfirm PROVE Panel!PanelInv'
<1>1. /\ panel.file /\ panel' = [panel EXCEPT !.confirm = TRUE] /\ UNCHANGED <<panelCache, requests>>
  BY DEF Panel!AskConfirm
<1>2. /\ panel' \in Panel!Panels
      /\ panel'.open = panel.open /\ panel'.selected = panel.selected /\ panel'.files = panel.files
      /\ panel'.file = panel.file /\ panel'.loadingFiles = panel.loadingFiles
      /\ panel'.controller = panel.controller
  BY <1>1 DEF Panel!PanelInv, Panel!Panels
<1> QED
  BY <1>1, <1>2, ShownStays

(* The rest of the panel: its list, what it is told of a restore. *)
LEMMA ListKeeps ==
    ASSUME Panel!PanelInv, NEW list \in SUBSET Panel!Snapshots, NEW loading \in BOOLEAN,
           NEW restoring \in BOOLEAN,
           \/ panel' = [panel EXCEPT !.list = list, !.loadingList = loading]
           \/ panel' = [panel EXCEPT !.loadingList = loading]
           \/ panel' = [panel EXCEPT !.restoring = restoring],
           UNCHANGED <<panelCache, requests>>
    PROVE  Panel!PanelInv'
<1>1. panel \in Panel!Panels
  BY DEF Panel!PanelInv
<1>2. panel.open /\ panel.confirm => panel.file
  BY DEF Panel!PanelInv, Panel!PanelShowsSelection
<1>3. /\ panel' \in Panel!Panels
      /\ panel'.open = panel.open /\ panel'.selected = panel.selected /\ panel'.files = panel.files
      /\ panel'.file = panel.file /\ panel'.loadingFiles = panel.loadingFiles
      /\ panel'.controller = panel.controller /\ panel'.confirm = panel.confirm
  BY <1>1 DEF Panel!PanelInv, Panel!Panels
<1> QED
  BY <1>2, <1>3, ShownStays

LEMMA PanelStart == Panel!Init => Panel!PanelInv
<1> SUFFICES ASSUME Panel!Init PROVE Panel!PanelInv
  OBVIOUS
<1>1. panel = Panel!Closed /\ panelCache = [s \in Panel!Snapshots |-> Panel!None] /\ requests = {}
  BY DEF Panel!Init
<1>2. /\ Panel!Closed.file = FALSE /\ Panel!Closed.open = FALSE /\ Panel!Closed.loadingFiles = FALSE
      /\ Panel!Closed \in Panel!Panels
  BY NothingShown DEF Panel!Closed
<1> QED
  BY <1>1, <1>2 DEF Panel!PanelInv, Panel!OfSelection, Panel!PanelShowsSelection

(* The types: what the invariant does not say of them. *)
LEMMA PanelTypes ==
    ASSUME Panel!TypeOK, Panel!PanelInv, Panel!PanelInv', [Panel!Next]_(Panel!panelVars)
    PROVE  Panel!TypeOK'
<1>1. /\ panel'.list \subseteq Panel!Snapshots /\ panel'.selected \in 0..MaxSnapshots
      /\ panel'.files \in Panel!Diffs /\ panel'.controller \in 0..MaxSelects
      /\ \A r \in requests' : r.number \in 1..MaxSelects /\ r.answer \in Panel!Diffs /\ r.aborted \in BOOLEAN
  BY DEF Panel!PanelInv, Panel!Panels, Panel!FileRequests
<1>2. panelCache' \in [Panel!Snapshots -> Panel!Diffs]
  <2>1. CASE UNCHANGED panelCache
    BY <2>1 DEF Panel!TypeOK
  <2>2. CASE panelCache' = [s \in Panel!Snapshots |-> Panel!None]
    BY <2>2, NothingShown
  <2>3. ASSUME NEW r \in requests, panelCache' = [panelCache EXCEPT ![r.snap] = r.answer] PROVE panelCache' \in [Panel!Snapshots -> Panel!Diffs]
    BY <2>3 DEF Panel!PanelInv, Panel!FileRequests, Panel!TypeOK
  <2>4. ASSUME NEW r \in requests, NEW success \in BOOLEAN, Panel!FilesAnswered(r, success)
        PROVE  panelCache' \in [Panel!Snapshots -> Panel!Diffs]
    BY <2>1, <2>3, <2>4 DEF Panel!FilesAnswered
  <2>5. \/ UNCHANGED panelCache \/ panelCache' = [s \in Panel!Snapshots |-> Panel!None]
        \/ \E r \in requests, success \in BOOLEAN : Panel!FilesAnswered(r, success)
    BY DEF Panel!Next, Panel!OpenPanel, Panel!ClosePanel, Panel!AskConfirm, Panel!LiveChange,
       Panel!ListAnswered, Panel!SelectCached, Panel!SelectFetched, Panel!Prune,
           Panel!RestoreAnswered, Panel!Restore, Panel!Create, Panel!Unmounted, Panel!panelVars
  <2> QED
    BY <2>1, <2>2, <2>4, <2>5
<1>3. taken' \subseteq Panel!Snapshots /\ listed' \subseteq SUBSET Panel!Snapshots
  BY DEF Panel!TypeOK, Panel!Next, Panel!OpenPanel, Panel!ClosePanel, Panel!AskConfirm,
     Panel!LiveChange, Panel!ListAnswered, Panel!SelectCached, Panel!SelectFetched,
         Panel!Prune, Panel!FilesAnswered, Panel!RestoreAnswered, Panel!Restore, Panel!Create,
         Panel!Unmounted, Panel!panelVars
<1>4. liveVersion' \in 0..(2 * MaxPanelChanges) /\ refused' \in 0..MaxPanelChanges
  <2>1. liveVersion' = liveVersion \/ Panel!LiveChange \/ \E success \in BOOLEAN : Panel!Restore(success)
    BY DEF Panel!Next, Panel!OpenPanel, Panel!ClosePanel, Panel!AskConfirm, Panel!ListAnswered,
       Panel!SelectCached, Panel!SelectFetched, Panel!Prune,
           Panel!FilesAnswered, Panel!RestoreAnswered, Panel!Create, Panel!panelVars
  <2>2. Panel!LiveChange => liveVersion' = liveVersion + 1 /\ liveVersion < MaxPanelChanges
    BY DEF Panel!LiveChange
  <2>3. \A success \in BOOLEAN : Panel!Restore(success) =>
           liveVersion' = liveVersion \/ (liveVersion' = liveVersion + 1 /\ liveVersion < 2 * MaxPanelChanges)
    BY DEF Panel!Restore
  <2>4. refused' = refused \/ (refused' = refused + 1 /\ refused < MaxPanelChanges)
    BY DEF Panel!Next, Panel!OpenPanel, Panel!ClosePanel, Panel!AskConfirm, Panel!LiveChange,
       Panel!ListAnswered, Panel!SelectCached,
           Panel!SelectFetched, Panel!Prune, Panel!FilesAnswered, Panel!RestoreAnswered,
           Panel!Restore, Panel!Create, Panel!panelVars
  <2>5. liveVersion \in 0..(2 * MaxPanelChanges) /\ refused \in 0..MaxPanelChanges
    BY DEF Panel!TypeOK
  <2> QED
    BY <2>1, <2>2, <2>3, <2>4, <2>5, PanelAssumption
<1> QED
  BY <1>1, <1>2, <1>3, <1>4 DEF Panel!TypeOK

LEMMA PanelStep ==
    Panel!TypeOK /\ Panel!PanelInv /\ [Panel!Next]_(Panel!panelVars) => (Panel!TypeOK /\ Panel!PanelInv)'
<1> SUFFICES ASSUME Panel!TypeOK, Panel!PanelInv, [Panel!Next]_(Panel!panelVars) PROVE Panel!PanelInv'
  BY PanelTypes
<1>1. CASE Panel!OpenPanel
  BY <1>1, OpenKeeps
<1>2. CASE Panel!ClosePanel
  BY <1>2, UnmountKeeps DEF Panel!ClosePanel
<1>3. CASE Panel!AskConfirm
  BY <1>3, AskConfirmKeeps
<1>4. CASE Panel!LiveChange \/ \E s \in Panel!Snapshots : Panel!Prune(s)
  <2>1. UNCHANGED <<panel, panelCache, requests>>
    BY <1>4 DEF Panel!LiveChange, Panel!Prune
  <2> QED
    BY <2>1 DEF Panel!PanelInv, Panel!OfSelection, Panel!PanelShowsSelection
<1>5. ASSUME NEW list \in listed, Panel!ListAnswered(list) PROVE Panel!PanelInv'
  <2>1. list \in SUBSET Panel!Snapshots /\ panel' = [panel EXCEPT !.list = list, !.loadingList = FALSE]
        /\ UNCHANGED <<panelCache, requests>>
    BY <1>5 DEF Panel!ListAnswered, Panel!TypeOK
  <2> QED
    BY <2>1, ListKeeps
<1>6. ASSUME NEW s \in Panel!Snapshots, Panel!SelectCached(s) PROVE Panel!PanelInv'
  BY <1>6, SelectCachedKeeps
<1>7. ASSUME NEW s \in Panel!Snapshots, Panel!SelectFetched(s) PROVE Panel!PanelInv'
  BY <1>7, SelectFetchedKeeps
<1>8. ASSUME NEW r \in requests, NEW success \in BOOLEAN, Panel!FilesAnswered(r, success) PROVE Panel!PanelInv'
  BY <1>8, FilesAnsweredKeeps
<1>9. ASSUME NEW r \in restores, Panel!RestoreAnswered(r) PROVE Panel!PanelInv'
  <2>1. CASE r.success
    BY <1>9, <2>1, UnmountKeeps DEF Panel!RestoreAnswered
  <2>2. CASE ~r.success /\ r.mine
    <3>1. panel' = [panel EXCEPT !.restoring = FALSE] /\ UNCHANGED <<panelCache, requests>>
      BY <1>9, <2>2 DEF Panel!RestoreAnswered
    <3> QED
      BY <3>1, ListKeeps
  <2>3. CASE ~r.success /\ ~r.mine
    <3>1. UNCHANGED <<panel, panelCache, requests>>
      BY <1>9, <2>3 DEF Panel!RestoreAnswered
    <3> QED
      BY <3>1 DEF Panel!PanelInv, Panel!OfSelection, Panel!PanelShowsSelection
  <2> QED
    BY <2>1, <2>2, <2>3
<1>10. ASSUME NEW success \in BOOLEAN, Panel!Restore(success) PROVE Panel!PanelInv'
  <2>1. panel' = [panel EXCEPT !.restoring = TRUE] /\ UNCHANGED <<panelCache, requests>>
    BY <1>10 DEF Panel!Restore
  <2> QED
    BY <2>1, ListKeeps
<1>11. ASSUME NEW success \in BOOLEAN, Panel!Create(success) PROVE Panel!PanelInv'
  <2>1. panel' = [panel EXCEPT !.loadingList = TRUE] /\ UNCHANGED <<panelCache, requests>>
    BY <1>11 DEF Panel!Create
  <2> QED
    BY <2>1, ListKeeps
<1>12. CASE UNCHANGED Panel!panelVars
  BY <1>12 DEF Panel!panelVars, Panel!PanelInv, Panel!OfSelection, Panel!PanelShowsSelection
<1> QED
  BY <1>1, <1>2, <1>3, <1>4, <1>5, <1>6, <1>7, <1>8, <1>9, <1>10, <1>11, <1>12 DEF Panel!Next

LEMMA PanelTypesStart == Panel!Init => Panel!TypeOK
<1> SUFFICES ASSUME Panel!Init PROVE Panel!TypeOK
  OBVIOUS
<1>1. taken \subseteq Panel!Snapshots /\ 0 \in 0..(2 * MaxPanelChanges) /\ 0 \in 0..MaxPanelChanges
  BY PanelAssumption DEF Panel!Init, Panel!Snapshots
<1>2. panel \in Panel!Panels
  BY NothingShown DEF Panel!Init
<1>3. panelCache \in [Panel!Snapshots -> Panel!Diffs]
  BY NothingShown DEF Panel!Init
<1> QED
  BY <1>1, <1>2, <1>3 DEF Panel!Init, Panel!TypeOK, Panel!Panels

(* SnapshotPanel.tsx: each answer that was not aborted is for the snapshot *)
(* selected now, and what is shown is that snapshot's. *)
THEOREM PanelInvariant == Panel!Spec => [](Panel!TypeOK /\ Panel!PanelInv /\ Panel!PanelShowsSelection)
<1>1. Panel!PanelInv => Panel!PanelShowsSelection
  BY DEF Panel!PanelInv
<1> QED
  BY <1>1, PanelStart, PanelTypesStart, PanelStep, PTL DEF Panel!Spec

-----------------------------------------------------------------------------
(* workerPool.service.ts: until a thread crashes every worker is idle once *)
(* or works on one task, a task waits only for busy workers, and a task in *)
(* the table is with its thread, whatever order tasks, results and         *)
(* dispatches come in. *)
THEOREM CalmPoolStaysExact == Workers!Spec => []CalmPoolIsExact
BY WorkersInvariant, PTL DEF CalmPoolIsExact

(* SnapshotPanel.tsx and TimelapseReplayer.tsx: no order of selections,    *)
(* answers, aborts and closings shows another snapshot's files or leaves   *)
(* the clock outside the history. *)
THEOREM HistoryViewsStayRight == HistoryViewsSpec => []HistoryViewsAreRight
BY PanelInvariant, PlayerInvariant, PTL DEF HistoryViewsSpec, HistoryViewsAreRight

-----------------------------------------------------------------------------
(* The editor. *)

LEMMA EditorTypes == Editor!TypeOK /\ [Editor!Next]_(Editor!editorVars) => Editor!TypeOK'
<1> SUFFICES ASSUME Editor!TypeOK, [Editor!Next]_(Editor!editorVars) PROVE Editor!TypeOK'
  OBVIOUS
<1> USE EditorAssumption DEF Editor!TypeOK, Editor!ModelNames, Editor!AllEdits
<1>1. CASE Editor!Connect
  BY <1>1 DEF Editor!Connect
<1>2. CASE Editor!Synced
  BY <1>2 DEF Editor!Synced, Editor!Rebound
<1>3. CASE Editor!Upload
  BY <1>3 DEF Editor!Upload
<1>4. CASE Editor!Type
  <2>1. <<tab, edits + 1>> \in Editor!AllEdits /\ edits + 1 \in 0..MaxTyped
    BY <1>4 DEF Editor!Type
  <2> QED
    BY <1>4, <2>1 DEF Editor!Type
<1>5. CASE Editor!Lose
  <2>1. losses' \in 0..MaxLosses
    BY <1>5 DEF Editor!Lose
  <2> QED
    BY <1>5, <2>1 DEF Editor!Lose
<1>6. ASSUME NEW t \in Tabs, Editor!Open(t) PROVE Editor!TypeOK'
  <2>1. opened' \in 0..MaxOpened
    BY <1>6 DEF Editor!Open
  <2>2. bound' \in BOOLEAN
    BY <1>6 DEF Editor!Open, Editor!Start, Editor!CanBind
  <2>3. abandoned' \subseteq Editor!AllEdits
    BY <1>6 DEF Editor!Open
  <2> QED
    BY <1>6, <2>1, <2>2, <2>3 DEF Editor!Open, Editor!Start
<1>7. ASSUME NEW t \in Tabs, Editor!OtherTypes(t) PROVE Editor!TypeOK'
  <2>1. <<t, edits + 1>> \in Editor!AllEdits /\ edits + 1 \in 0..MaxTyped
    BY <1>7 DEF Editor!OtherTypes
  <2> QED
    BY <1>7, <2>1 DEF Editor!OtherTypes
<1>8. CASE UNCHANGED Editor!editorVars
  BY <1>8 DEF Editor!editorVars
<1> QED
  BY <1>1, <1>2, <1>3, <1>4, <1>5, <1>6, <1>7, <1>8 DEF Editor!Next

(* An edit is of the file it was made in. *)
LEMMA EditOf ==
    ASSUME Editor!TypeOK, edits < MaxTyped, NEW t \in Tabs
    PROVE  <<t, edits + 1>> \in Editor!Edits(t) /\ <<t, edits + 1>>[1] = t
BY EditorAssumption DEF Editor!TypeOK, Editor!Edits

LEMMA EditorStep ==
    ASSUME Editor!TypeOK, Editor!EditorInv, [Editor!Next]_(Editor!editorVars)
    PROVE  Editor!EditorInv'
<1> USE DEF Editor!EditorInv, Editor!EditorIsFaithful, Editor!TypeOK, Editor!Edits, Editor!ModelNames
<1>1. CASE Editor!Connect
  BY <1>1 DEF Editor!Connect
<1>2. CASE Editor!Synced
  BY <1>2 DEF Editor!Synced, Editor!Rebound
<1>3. CASE Editor!Upload
  BY <1>3 DEF Editor!Upload
<1>4. CASE Editor!Type
  <2> DEFINE e == <<tab, edits + 1>>
  <2>1. e \in Editor!Edits(tab) /\ e[1] = tab
    BY <1>4, EditOf DEF Editor!Type
  <2> HIDE DEF e
  <2>2. /\ models' = [models EXCEPT ![NameOf[tab]] = @ \cup {e}]
        /\ ydoc' = IF bound THEN ydoc \cup {e} ELSE ydoc
        /\ typed' = IF bound THEN typed \cup {e} ELSE typed
        /\ rooms' = IF bound /\ link # "closed" THEN [rooms EXCEPT ![tab] = @ \cup {e}] ELSE rooms
        /\ UNCHANGED <<tab, link, uploaded, bound, abandoned, losses, opened>>
    BY <1>4 DEF Editor!Type, e
  <2>3. \A t \in Tabs : rooms'[t] \subseteq Editor!Edits(t)
    BY <2>1, <2>2
  <2>4. bound' => models'[NameOf[tab']] = ydoc'
    BY <2>2
  <2>5. \A x \in typed' : x \in rooms'[x[1]] \cup abandoned' \/ (x[1] = tab' /\ x \in ydoc')
    BY <2>1, <2>2 DEF Editor!AllEdits
  <2>6. ydoc' \subseteq Editor!Edits(tab')
    BY <2>1, <2>2
  <2>7. /\ link' = "synced" => bound' /\ rooms'[tab'] \subseteq ydoc'
        /\ uploaded' => link' # "closed" /\ ydoc' \subseteq rooms'[tab']
    BY <2>2
  <2> QED
    BY <2>3, <2>4, <2>5, <2>6, <2>7
<1>5. CASE Editor!Lose
  BY <1>5 DEF Editor!Lose
<1>6. ASSUME NEW t \in Tabs, Editor!Open(t) PROVE Editor!EditorInv'
  BY <1>6 DEF Editor!Open, Editor!Start, Editor!CanBind
<1>7. ASSUME NEW t \in Tabs, Editor!OtherTypes(t) PROVE Editor!EditorInv'
  <2> DEFINE e == <<t, edits + 1>>
  <2>1. e \in Editor!Edits(t) /\ e[1] = t
    BY <1>7, EditOf DEF Editor!OtherTypes
  <2> HIDE DEF e
  <2>2. LET arrives == t = tab /\ link = "synced" IN
        /\ rooms' = [rooms EXCEPT ![t] = @ \cup {e}]
        /\ ydoc' = IF arrives THEN ydoc \cup {e} ELSE ydoc
        /\ models' = IF arrives /\ bound THEN [models EXCEPT ![NameOf[t]] = @ \cup {e}] ELSE models
        /\ UNCHANGED <<tab, link, uploaded, bound, typed, abandoned, losses, opened>>
    BY <1>7 DEF Editor!OtherTypes, e
  <2>3. \A s \in Tabs : rooms'[s] \subseteq Editor!Edits(s)
    BY <2>1, <2>2
  <2>4. bound' => models'[NameOf[tab']] = ydoc'
    BY <2>2
  <2>5. \A x \in typed' : x \in rooms'[x[1]] \cup abandoned' \/ (x[1] = tab' /\ x \in ydoc')
    BY <2>1, <2>2 DEF Editor!AllEdits
  <2>6. ydoc' \subseteq Editor!Edits(tab')
    BY <2>1, <2>2
  <2>7. /\ link' = "synced" => bound' /\ rooms'[tab'] \subseteq ydoc'
        /\ uploaded' => link' # "closed" /\ ydoc' \subseteq rooms'[tab']
    BY <2>2
  <2> QED
    BY <2>3, <2>4, <2>5, <2>6, <2>7
<1>8. CASE UNCHANGED Editor!editorVars
  BY <1>8 DEF Editor!editorVars
<1> QED
  BY <1>1, <1>2, <1>3, <1>4, <1>5, <1>6, <1>7, <1>8 DEF Editor!Next

LEMMA EditorStarts == Editor!Init => Editor!TypeOK /\ Editor!EditorInv
<1> SUFFICES ASSUME Editor!Init PROVE Editor!TypeOK /\ Editor!EditorInv
  OBVIOUS
<1>1. rooms \in [Tabs -> SUBSET Editor!AllEdits] /\ \A t \in Tabs : rooms[t] = {}
  BY DEF Editor!Init
<1>2. models \in [Editor!ModelNames -> SUBSET Editor!AllEdits] /\ models[NameOf[tab]] = {}
  BY DEF Editor!Init, Editor!ModelNames
<1>3. 0 \in 0..MaxTyped /\ 0 \in 0..MaxLosses /\ 0 \in 0..MaxOpened
  BY EditorAssumption
<1>4. Editor!TypeOK
  BY <1>1, <1>2, <1>3 DEF Editor!Init, Editor!TypeOK
<1>5. Editor!EditorInv
  BY <1>1, <1>2 DEF Editor!Init, Editor!EditorInv, Editor!EditorIsFaithful
<1> QED
  BY <1>4, <1>5

(* The invariant of the editor holds: the document that is open is of the  *)
(* file the page shows, and what either direction of the handshake has     *)
(* brought stays (useCodeEditorSetup.ts, CodeEditor.tsx). *)
THEOREM EditorInvariant == Editor!Spec => [](Editor!TypeOK /\ Editor!EditorInv)
BY EditorStarts, EditorTypes, EditorStep, PTL DEF Editor!Spec

(* The editor is faithful for any tabs and names: no room holds an edit of *)
(* another file, a bound model is the document, and an edit typed under    *)
(* the binding is kept unless it was given up (useCodeEditorSetup.ts).     *)
THEOREM EditorStaysFaithful == Editor!Spec => []EditorIsFaithful
BY EditorInvariant, PTL DEF Editor!EditorInv, EditorIsFaithful

-----------------------------------------------------------------------------
(* The file list of the page. *)

(* A call that makes a step keeps its author and file. *)
LEMMA SteppedCalls ==
    ASSUME Page!TypeOK, NEW c \in calls, NEW s \in {"sent", "written", "done", "failed"}
    PROVE  /\ Page!Step(c, s) \subseteq Page!Call /\ \A d \in Page!Step(c, s) : d.file \in given
           /\ \A e : Page!Optimistic(e) =>
                \E d \in Page!Step(c, s) : d.by = "page" /\ e = (IF d.kind = "create" THEN Page!Temp(d.file) ELSE d.file)
           /\ \A d \in calls : d.step # c.step => d \in Page!Step(c, s)
           /\ \E d \in Page!Step(c, s) : d.step = s
<1> DEFINE n == [c EXCEPT !.step = s]
<1>1. c \in Page!Call
  BY DEF Page!TypeOK
<1>2. n \in Page!Call /\ n.by = c.by /\ n.kind = c.kind /\ n.file = c.file /\ n.step = s
  BY <1>1 DEF Page!Call
<1>3. Page!Step(c, s) = (calls \ {c}) \cup {n}
  BY DEF Page!Step
<1> HIDE DEF n
<1>4. Page!Step(c, s) \subseteq Page!Call /\ \A d \in Page!Step(c, s) : d.file \in given
  BY <1>2, <1>3 DEF Page!TypeOK
<1>5. ASSUME NEW e, Page!Optimistic(e)
      PROVE  \E d \in Page!Step(c, s) : d.by = "page" /\ e = (IF d.kind = "create" THEN Page!Temp(d.file) ELSE d.file)
  BY <1>2, <1>3, <1>5 DEF Page!Optimistic
<1> QED
  BY <1>2, <1>3, <1>4, <1>5

LEMMA EventLines ==
    ASSUME NEW e \in Page!Event
    PROVE  <<e>> \in Seq(Page!Event) /\ <<e>> # <<>>
OBVIOUS

(* What is emitted is on its way or the page is not in the room. *)
LEMMA EmittedLines ==
    ASSUME Page!TypeOK, NEW m \in Seq(Page!Event)
    PROVE  /\ Page!Emitted(m) \in Seq(Page!Event)
           /\ m # <<>> => presence # "joined" \/ Page!Emitted(m) # <<>>
           /\ events # <<>> => Page!Emitted(m) # <<>>
BY DEF Page!TypeOK, Page!Emitted

(* Entries put in and taken out of the list. *)
LEMMA ShownLists ==
    ASSUME Page!TypeOK, TreeAssumption
    PROVE  /\ \A e \in Page!Entries : Page!With(e) \in [Page!Entries -> Nat] /\ Page!Without(e) \in [Page!Entries -> Nat]
           /\ \A e, x \in Page!Entries : Page!With(e)[x] = IF x = e THEN shown[x] + 1 ELSE shown[x]
           /\ \A e, x \in Page!Entries : Page!Without(e)[x] = IF x = e THEN 0 ELSE shown[x]
           /\ \A files : Page!As(files) \in [Page!Entries -> Nat]
           /\ \A f \in Files : f \in Page!Entries /\ Page!Temp(f) \in Page!Entries /\ Page!As(rows)[Page!Temp(f)] = 0
<1>1. \A f \in Files : f \in Page!Entries /\ Page!Temp(f) \in Page!Entries
  BY DEF Page!Entries
<1>2. \A f \in Files : Page!As(rows)[Page!Temp(f)] = 0
  BY <1>1 DEF Page!As, Page!TypeOK, TreeAssumption
<1> QED
  BY <1>1, <1>2 DEF Page!TypeOK, Page!With, Page!Without, Page!As

(* A listing that is asked for is the youngest, and nothing is said of it. *)
LEMMA AskedForYoungest ==
    ASSUME Page!TypeOK, Page!TreeInv, TreeAssumption, Page!Asks
    PROVE  /\ fetches' \subseteq Page!Fetch /\ asked' \in 0..MaxFetches /\ asked' = asked + 1
           /\ \A q \in fetches' : q.number <= asked' /\ (q.number = asked' => q.step = "asked")
           /\ \E q \in fetches' : q.number = asked'
<1> DEFINE n == [number |-> asked + 1, step |-> "asked", tree |-> {}, stale |-> FALSE]
<1>1. asked \in Nat /\ asked < MaxFetches /\ asked' = asked + 1 /\ fetches' = fetches \cup {n}
  BY DEF Page!Asks, Page!TypeOK, TreeAssumption
<1>2. n \in Page!Fetch /\ n.number = asked + 1 /\ n.step = "asked"
  BY <1>1 DEF Page!Fetch, TreeAssumption
<1>3. \A q \in fetches : q.number \in Nat /\ q.number <= asked
  BY DEF Page!TypeOK, Page!Fetch, Page!TreeInv
<1> HIDE DEF n
<1>4. fetches' \subseteq Page!Fetch /\ asked' \in 0..MaxFetches
  BY <1>1, <1>2 DEF Page!TypeOK, TreeAssumption
<1>5. \A q \in fetches' : q.number <= asked' /\ (q.number = asked' => q.step = "asked")
  BY <1>1, <1>2, <1>3
<1> QED
  BY <1>1, <1>2, <1>4, <1>5

LEMMA TreeInit == ASSUME TreeAssumption, Page!Init PROVE Page!TypeOK /\ Page!TreeInv
<1>1. \A files : Page!As(files) \in [Page!Entries -> Nat]
  BY DEF Page!As
<1>2. Page!TypeOK
  <2>1. shown \in [Page!Entries -> Nat] /\ calls = {} /\ fetches = {}
    BY <1>1 DEF Page!Init
  <2>2. rows \subseteq given /\ given \subseteq Files /\ cachedTree \in SUBSET SUBSET Files /\ staleTree \in BOOLEAN
    BY DEF Page!Init
  <2>3. asked \in 0..MaxFetches /\ newest \in 0..asked /\ begun \in 0..MaxCalls /\ drops \in 0..MaxDrops
    BY DEF Page!Init, TreeAssumption
  <2>4. events \in Seq(Page!Event) /\ active = Page!NoFile /\ wiped = {} /\ misled = FALSE /\ presence = "off"
    BY DEF Page!Init
  <2> QED
    BY <2>1, <2>2, <2>3, <2>4 DEF Page!TypeOK
<1>3. Page!TreeInv
  BY DEF Page!Init, Page!TreeInv, Page!CacheFollows, Page!ListingFollows, Page!ListFollows, Page!Coming
<1> QED
  BY <1>2, <1>3

(* Steps that leave rows and listings alone: what they must keep.          *)
LEMMA StepBesideListings ==
    ASSUME Page!TypeOK, Page!TreeInv, TreeAssumption, Page!TypeOK',
           UNCHANGED <<rows, cachedTree, staleTree, fetches, asked, newest>>,
           misled => misled',
           Page!Coming => Page!Coming',
           (\E c \in calls : c.step = "written") => \E c \in calls' : c.step = "written",
           ~misled' /\ ~Page!Coming' =>
               \A e \in Page!Entries : shown[e] = Page!As(rows)[e] \/ Page!Optimistic(e) => shown'[e] = Page!As(rows)[e] \/ Page!Optimistic(e)'
    PROVE  Page!TreeInv'
<1>1. (\A q \in fetches : q.number <= asked)' /\ Page!CacheFollows'
  BY DEF Page!TreeInv, Page!CacheFollows
<1>2. Page!ListingFollows'
  BY DEF Page!TreeInv, Page!ListingFollows, Page!Youngest
<1>3. ASSUME \E q \in fetches : Page!Youngest(q) PROVE Page!ListFollows'
  BY <1>3 DEF Page!ListFollows, Page!Youngest
<1>4. ASSUME ~\E q \in fetches : Page!Youngest(q) PROVE Page!ListFollows'
  <2>1. newest' = asked'
    BY <1>4 DEF Page!TreeInv, Page!ListFollows
  <2>2. misled \/ Page!Coming \/ \A e \in Page!Entries : shown[e] = Page!As(rows)[e] \/ Page!Optimistic(e)
    BY <1>4 DEF Page!TreeInv, Page!ListFollows
  <2>3. misled' \/ Page!Coming' \/ \A e \in Page!Entries : shown'[e] = Page!As(rows)[e] \/ Page!Optimistic(e)'
    BY <2>2
  <2>4. Page!As(rows)' = Page!As(rows)
    BY DEF Page!As
  <2> QED
    BY <2>1, <2>3, <2>4 DEF Page!ListFollows
<1> QED
  BY <1>1, <1>2, <1>3, <1>4 DEF Page!TreeInv

(* Asking for a listing keeps the invariant, whatever is shown. *)
LEMMA AskingKeeps ==
    ASSUME Page!TypeOK, Page!TreeInv, TreeAssumption, Page!Asks, UNCHANGED <<rows, cachedTree, staleTree, calls>>
    PROVE  Page!TreeInv'
<1>1. Page!CacheFollows'
  BY DEF Page!TreeInv, Page!CacheFollows
<1>2. Page!ListingFollows' /\ Page!ListFollows'
  BY AskedForYoungest DEF Page!ListingFollows, Page!ListFollows, Page!Youngest
<1> QED
  BY <1>1, <1>2, AskedForYoungest DEF Page!TreeInv

(* A listing on its way makes a step. *)
LEMMA ListingMoves ==
    ASSUME Page!TypeOK, Page!TreeInv, NEW q \in fetches, NEW n, n.number = q.number,
           fetches' = (fetches \ {q}) \cup {n}, Page!Coming => Page!Coming',
           UNCHANGED <<rows, calls, shown, misled, asked, newest>>
    PROVE  (\A p \in fetches : p.number <= asked)' /\ Page!ListFollows'
<1>1. (\A p \in fetches : p.number <= asked)'
  BY DEF Page!TreeInv
<1>2. (\E p \in fetches : Page!Youngest(p)) => \E p \in fetches' : p.number = asked'
  BY DEF Page!Youngest
<1>3. Page!As(rows)' = Page!As(rows) /\ \A e : Page!Optimistic(e)' <=> Page!Optimistic(e)
  BY DEF Page!As, Page!Optimistic
<1> QED
  BY <1>1, <1>2, <1>3 DEF Page!TreeInv, Page!ListFollows, Page!Youngest

LEMMA TreeStep == ASSUME Page!TypeOK, Page!TreeInv, TreeAssumption, [Page!Next]_(Page!treeVars) PROVE Page!TypeOK' /\ Page!TreeInv'
<1>1. ASSUME NEW f \in Files, Page!CreateFile(f) PROVE Page!TypeOK' /\ Page!TreeInv'
  <2> DEFINE n == [by |-> "page", kind |-> "create", file |-> f, step |-> "sent"]
  <2>1. n \in Page!Call /\ calls' = calls \cup {n}
    BY <1>1 DEF Page!CreateFile, Page!Send, Page!Call
  <2>2. shown' = Page!With(Page!Temp(f)) /\ Page!Temp(f) \in Page!Entries
    BY <1>1, ShownLists DEF Page!CreateFile
  <2>3. shown' \in [Page!Entries -> Nat] /\ \A e \in Page!Entries : e # Page!Temp(f) => shown'[e] = shown[e]
    BY <2>2, ShownLists
  <2>4. Page!TypeOK'
    BY <1>1, <2>1, <2>3 DEF Page!CreateFile, Page!Send, Page!TypeOK, Page!serverVars
  <2>5. \A e : Page!Optimistic(e) => Page!Optimistic(e)'
    BY <2>1 DEF Page!Optimistic
  <2>6. Page!Optimistic(Page!Temp(f))'
    BY <2>1 DEF Page!Optimistic
  <2>7. Page!Coming => Page!Coming'
    BY <1>1, <2>1 DEF Page!Coming, Page!CreateFile, Page!Send
  <2> QED
    BY <1>1, <2>1, <2>3, <2>4, <2>5, <2>6, <2>7, StepBesideListings DEF Page!CreateFile, Page!Send, Page!serverVars
<1>2. ASSUME NEW f \in Files, Page!DeleteFile(f) PROVE Page!TypeOK' /\ Page!TreeInv'
  <2> DEFINE n == [by |-> "page", kind |-> "delete", file |-> f, step |-> "sent"]
  <2>1. n \in Page!Call /\ calls' = calls \cup {n}
    BY <1>2 DEF Page!DeleteFile, Page!Send, Page!Call
  <2>2. shown' = Page!Without(f) /\ f \in Page!Entries
    BY <1>2, ShownLists DEF Page!DeleteFile
  <2>3. shown' \in [Page!Entries -> Nat] /\ \A e \in Page!Entries : e # f => shown'[e] = shown[e]
    BY <2>2, ShownLists
  <2>4. Page!TypeOK'
    BY <1>2, <2>1, <2>3 DEF Page!DeleteFile, Page!Send, Page!TypeOK, Page!serverVars
  <2>5. \A e : Page!Optimistic(e) => Page!Optimistic(e)'
    BY <2>1 DEF Page!Optimistic
  <2>6. Page!Optimistic(f)'
    BY <2>1 DEF Page!Optimistic
  <2>7. Page!Coming => Page!Coming'
    BY <1>2, <2>1 DEF Page!Coming, Page!DeleteFile, Page!Send
  <2> QED
    BY <1>2, <2>1, <2>3, <2>4, <2>5, <2>6, <2>7, StepBesideListings DEF Page!DeleteFile, Page!Send, Page!serverVars
<1>3. ASSUME NEW f \in Files, Page!OtherCalls(f) PROVE Page!TypeOK' /\ Page!TreeInv'
  <2>1. PICK k \in {"create", "delete"} : Page!Send("other", k, f)
    BY <1>3 DEF Page!OtherCalls
  <2> DEFINE n == [by |-> "other", kind |-> k, file |-> f, step |-> "sent"]
  <2>2. n \in Page!Call /\ calls' = calls \cup {n}
    BY <2>1 DEF Page!Send, Page!Call
  <2>3. Page!TypeOK'
    BY <1>3, <2>1, <2>2 DEF Page!OtherCalls, Page!Send, Page!TypeOK, Page!serverVars
  <2>4. \A e : Page!Optimistic(e) => Page!Optimistic(e)'
    BY <2>2 DEF Page!Optimistic
  <2>5. Page!Coming => Page!Coming'
    BY <2>1, <2>2 DEF Page!Coming, Page!Send
  <2> QED
    BY <1>3, <2>1, <2>2, <2>3, <2>4, <2>5, StepBesideListings DEF Page!OtherCalls, Page!Send, Page!serverVars
<1>4. ASSUME NEW f \in Files, Page!Open(f) PROVE Page!TypeOK' /\ Page!TreeInv'
  <2>1. Page!TypeOK'
    BY <1>4 DEF Page!Open, Page!TypeOK, Page!serverVars
  <2> QED
    BY <1>4, <2>1, StepBesideListings DEF Page!Open, Page!serverVars, Page!Coming, Page!Optimistic
<1>5. ASSUME NEW c \in calls, NEW succeeds \in BOOLEAN, Page!Write(c, succeeds) PROVE Page!TypeOK' /\ Page!TreeInv'
  <2>1. c \in Page!Call /\ c.step = "sent" /\ c.file \in given /\ rows \subseteq given
    BY <1>5 DEF Page!TypeOK, Page!Write
  <2>2. rows' \subseteq given
    BY <1>5, <2>1 DEF Page!Write
  <2>3. CASE succeeds
    <3>1. calls' = Page!Step(c, "written")
      BY <1>5, <2>3 DEF Page!Write
    <3>2. calls' \subseteq Page!Call /\ (\A d \in calls' : d.file \in given) /\ \E d \in calls' : d.step = "written"
      BY <2>1, <3>1, SteppedCalls
    <3>3. Page!TypeOK'
      BY <1>5, <2>2, <3>2 DEF Page!Write, Page!TypeOK, Page!pageVars
    <3>4. Page!Coming'
      BY <3>2 DEF Page!Coming
    <3>5. Page!TreeInv'
      BY <1>5, <3>2, <3>4 DEF Page!TreeInv, Page!CacheFollows, Page!ListingFollows, Page!ListFollows, Page!Youngest, Page!Write, Page!pageVars
    <3> QED
      BY <3>3, <3>5
  <2>4. CASE ~succeeds
    <3>1. rows' = rows
      BY <1>5, <2>4 DEF Page!Write
    <3>2. calls' = Page!Step(c, "failed") \/ (c.by # "page" /\ calls' = calls \ {c})
      BY <1>5, <2>4 DEF Page!Write
    <3>3. calls' \subseteq Page!Call /\ (\A d \in calls' : d.file \in given) /\ \A d \in calls : d.step # "sent" => d \in calls'
      BY <2>1, <3>2, SteppedCalls DEF Page!TypeOK
    <3>4. \A e : Page!Optimistic(e) => Page!Optimistic(e)'
      BY <3>2, SteppedCalls, SMTT(30) DEF Page!Optimistic
    <3>5. Page!TypeOK'
      BY <1>5, <3>1, <3>3 DEF Page!Write, Page!TypeOK, Page!pageVars
    <3>6. (\E d \in calls : d.step = "written") => \E d \in calls' : d.step = "written"
      BY <3>3
    <3>7. Page!Coming => Page!Coming'
      BY <1>5, <3>6 DEF Page!Coming, Page!Write
    <3> QED
      BY <1>5, <3>1, <3>4, <3>5, <3>6, <3>7, StepBesideListings DEF Page!Write, Page!pageVars
  <2> QED
    BY <2>3, <2>4
<1>6. ASSUME NEW c \in calls, Page!Announce(c) PROVE Page!TypeOK' /\ Page!TreeInv'
  <2>1. c \in Page!Call /\ c.file \in Files
    BY DEF Page!TypeOK, Page!Call
  <2>2. Page!Announced(c) \in Seq(Page!Event) /\ Page!Announced(c) # <<>>
    <3> DEFINE e == IF c.kind = "create" THEN <<"created", c.file>> ELSE <<"deleted", c.file>>
    <3>1. e \in Page!Event
      BY <2>1 DEF Page!Event
    <3>2. Page!Announced(c) = <<e>>
      BY DEF Page!Announced
    <3> HIDE DEF e
    <3> QED
      BY <3>1, <3>2, EventLines
  <2>3. events' \in Seq(Page!Event) /\ Page!Coming'
    BY <1>6, <2>2, EmittedLines DEF Page!Announce, Page!Coming
  <2>4. calls' = Page!Step(c, "done") \/ calls' = calls \ {c}
    BY <1>6 DEF Page!Announce
  <2>5. calls' \subseteq Page!Call /\ \A d \in calls' : d.file \in given
    BY <2>4, SteppedCalls DEF Page!TypeOK
  <2>6. Page!TypeOK'
    BY <1>6, <2>3, <2>5 DEF Page!Announce, Page!TypeOK, Page!pageVars
  <2>7. Page!TreeInv'
    BY <1>6, <2>3 DEF Page!TreeInv, Page!CacheFollows, Page!ListingFollows, Page!ListFollows, Page!Youngest, Page!Announce, Page!pageVars
  <2> QED
    BY <2>6, <2>7
<1>7. ASSUME NEW c \in calls, Page!Answered(c) PROVE Page!TypeOK' /\ Page!TreeInv'
  <2>1. c \in Page!Call /\ c.file \in Files /\ c.step = "done"
    BY <1>7 DEF Page!TypeOK, Page!Call, Page!Answered
  <2>2. <<Page!Update>> \in Seq(Page!Event) /\ <<Page!Update>> # <<>>
    BY EventLines DEF Page!Event
  <2>3. events' \in Seq(Page!Event) /\ Page!Coming'
    BY <1>7, <2>2, EmittedLines DEF Page!Answered, Page!Coming
  <2>4. shown' \in [Page!Entries -> Nat] /\ active' \in Files \cup {Page!NoFile}
    <3>1. PICK w \in [Page!Entries -> Nat] : w = Page!Without(Page!Temp(c.file))
      BY <2>1, ShownLists
    <3>2. c.file \in Page!Entries /\ shown[Page!Temp(c.file)] \in Nat
      BY <2>1, ShownLists DEF Page!TypeOK
    <3>3. shown' = IF c.kind = "create" THEN [w EXCEPT ![c.file] = @ + shown[Page!Temp(c.file)]] ELSE shown
      BY <1>7, <3>1 DEF Page!Answered
    <3>4. shown' \in [Page!Entries -> Nat]
      BY <3>2, <3>3 DEF Page!TypeOK
    <3> QED
      BY <1>7, <2>1, <3>4 DEF Page!Answered, Page!TypeOK
  <2>5. Page!TypeOK'
    BY <1>7, <2>3, <2>4 DEF Page!Answered, Page!TypeOK, Page!serverVars
  <2>6. (\E d \in calls : d.step = "written") => \E d \in calls' : d.step = "written"
    BY <1>7, <2>1 DEF Page!Answered
  <2> QED
    BY <1>7, <2>3, <2>5, <2>6, StepBesideListings DEF Page!Answered, Page!serverVars
<1>8. ASSUME NEW c \in calls, Page!RollBack(c) PROVE Page!TypeOK' /\ Page!TreeInv'
  <2>1. c \in Page!Call /\ c.file \in Files /\ c.step = "failed"
    BY <1>8 DEF Page!TypeOK, Page!Call, Page!RollBack
  <2>2. shown' = IF c.kind = "create" THEN Page!Without(Page!Temp(c.file)) ELSE Page!With(c.file)
    BY <1>8 DEF Page!RollBack
  <2>3. shown' \in [Page!Entries -> Nat]
    BY <2>1, <2>2, ShownLists
  <2>4. Page!TypeOK'
    BY <1>8, <2>3 DEF Page!RollBack, Page!TypeOK, Page!serverVars
  <2>5. (\E d \in calls : d.step = "written") => \E d \in calls' : d.step = "written"
    BY <1>8, <2>1 DEF Page!RollBack
  <2>6. Page!Coming => Page!Coming'
    BY <1>8, <2>5 DEF Page!Coming, Page!RollBack
  <2>7. ASSUME ~misled', NEW e \in Page!Entries, shown[e] = Page!As(rows)[e] \/ Page!Optimistic(e)
        PROVE  shown'[e] = Page!As(rows)[e] \/ Page!Optimistic(e)'
    <3>1. c.kind = "create"
      BY <1>8, <2>1, <2>7 DEF Page!RollBack, Page!Call
    <3>2. CASE e = Page!Temp(c.file)
      BY <2>1, <2>2, <3>1, <3>2, ShownLists
    <3>3. CASE e # Page!Temp(c.file)
      <4>1. shown'[e] = shown[e]
        BY <2>1, <2>2, <3>1, <3>3, ShownLists
      <4>2. Page!Optimistic(e) => Page!Optimistic(e)'
        BY <1>8, <3>1, <3>3 DEF Page!Optimistic, Page!RollBack
      <4> QED
        BY <2>7, <4>1, <4>2
    <3> QED
      BY <3>2, <3>3
  <2> QED
    BY <1>8, <2>4, <2>5, <2>6, <2>7, StepBesideListings DEF Page!RollBack, Page!serverVars
<1>9. ASSUME NEW q \in fetches, Page!ServeFetch(q) PROVE Page!TypeOK' /\ Page!TreeInv'
  <2>1. PICK n \in Page!Fetch :
            /\ fetches' = (fetches \ {q}) \cup {n} /\ n.number = q.number
            /\ n.tree = rows \/ n.stale \/ \E c \in calls : c.step = "written"
    <3>1. q \in Page!Fetch
      BY DEF Page!TypeOK
    <3>2. CASE cachedTree = {}
      <4> DEFINE m == [q EXCEPT !.step = "read", !.tree = rows]
      <4>1. rows \in SUBSET Files
        BY DEF Page!TypeOK
      <4>2. m \in Page!Fetch /\ m.number = q.number /\ m.tree = rows
        BY <3>1, <4>1 DEF Page!Fetch
      <4>3. fetches' = (fetches \ {q}) \cup {m}
        BY <1>9, <3>2 DEF Page!ServeFetch
      <4> QED
        BY <4>2, <4>3
    <3>3. CASE cachedTree # {}
      <4>1. PICK t \in cachedTree : t = (CHOOSE u \in cachedTree : TRUE)
        BY <3>3
      <4>2. t = rows \/ staleTree \/ \E c \in calls : c.step = "written"
        BY DEF Page!TreeInv, Page!CacheFollows
      <4>3. fetches' = (fetches \ {q}) \cup {[q EXCEPT !.step = "answered", !.tree = t, !.stale = staleTree]}
        BY <1>9, <3>3, <4>1 DEF Page!ServeFetch
      <4> DEFINE m == [q EXCEPT !.step = "answered", !.tree = t, !.stale = staleTree]
      <4>4. t \in SUBSET Files /\ staleTree \in BOOLEAN
        BY DEF Page!TypeOK
      <4>5. m \in Page!Fetch /\ m.number = q.number /\ m.tree = t /\ m.stale = staleTree
        BY <3>1, <4>4 DEF Page!Fetch
      <4> HIDE DEF m
      <4> QED
        BY <4>2, <4>3, <4>5 DEF m
    <3> QED
      BY <3>2, <3>3
  <2>2. Page!TypeOK'
    BY <1>9, <2>1 DEF Page!ServeFetch, Page!TypeOK, Page!serverVars, Page!pageVars
  <2>3. (Page!Coming <=> Page!Coming') /\ ((\E c \in calls : c.step = "written") => Page!Coming)
    BY <1>9 DEF Page!Coming, Page!ServeFetch
  <2>4. (\A p \in fetches : p.number <= asked)' /\ Page!CacheFollows' /\ Page!ListFollows'
    BY <1>9, <2>1, <2>3, ListingMoves DEF Page!ServeFetch, Page!serverVars, Page!pageVars, Page!TreeInv, Page!CacheFollows
  <2>5. Page!ListingFollows'
    BY <1>9, <2>1, <2>3 DEF Page!ServeFetch, Page!serverVars, Page!TreeInv, Page!ListingFollows, Page!Youngest
  <2> QED
    BY <2>2, <2>4, <2>5 DEF Page!TreeInv
<1>10. ASSUME NEW q \in fetches, Page!StoreTree(q) PROVE Page!TypeOK' /\ Page!TreeInv'
  <2> DEFINE n == [q EXCEPT !.step = "answered"]
  <2>1. q \in Page!Fetch /\ q.step = "read" /\ fetches' = (fetches \ {q}) \cup {n}
    BY <1>10 DEF Page!StoreTree, Page!TypeOK
  <2>2. n \in Page!Fetch /\ n.number = q.number /\ n.tree = q.tree /\ n.stale = q.stale
    BY <2>1 DEF Page!Fetch
  <2> HIDE DEF n
  <2>3. cachedTree' = {q.tree} /\ q.tree \in SUBSET Files
    BY <1>10, <2>1 DEF Page!StoreTree, Page!Fetch
  <2>4. staleTree' = (q.tree # rows /\ \A c \in calls : c.step # "written")
    BY <1>10 DEF Page!StoreTree
  <2>5. staleTree' \in BOOLEAN
    BY <2>4
  <2>6. Page!TypeOK'
    BY <1>10, <2>1, <2>2, <2>3, <2>5 DEF Page!StoreTree, Page!TypeOK, Page!pageVars
  <2>7. Page!Coming <=> Page!Coming'
    BY <1>10 DEF Page!Coming, Page!StoreTree
  <2>8. Page!CacheFollows'
    BY <1>10, <2>3, <2>4 DEF Page!CacheFollows, Page!StoreTree
  <2>9. (\A p \in fetches : p.number <= asked)' /\ Page!ListFollows'
    BY <1>10, <2>1, <2>2, <2>7, ListingMoves DEF Page!StoreTree, Page!pageVars
  <2>10. Page!ListingFollows'
    BY <1>10, <2>1, <2>2, <2>7 DEF Page!StoreTree, Page!pageVars, Page!TreeInv, Page!ListingFollows, Page!Youngest
  <2> QED
    BY <2>6, <2>8, <2>9, <2>10 DEF Page!TreeInv
<1>11. ASSUME NEW q \in fetches, Page!Show(q) PROVE Page!TypeOK' /\ Page!TreeInv'
  <2>1. q \in Page!Fetch /\ q.step = "answered" /\ q.number \in Nat /\ q.number <= asked /\ q.stale \in BOOLEAN
    BY <1>11 DEF Page!Show, Page!TypeOK, Page!Fetch, Page!TreeInv
  <2>2. asked \in Nat /\ newest \in 0..asked
    BY TreeAssumption DEF Page!TypeOK
  <2>3. newest' \in 0..asked /\ (q.number = asked \/ newest = asked => newest' = asked)
    BY <1>11, <2>1, <2>2 DEF Page!Show, Page!Younger
  <2>4. misled' \in BOOLEAN /\ (misled' <=> q.stale \/ q.number < newest)
    BY <1>11, <2>1 DEF Page!Show
  <2>5. shown' = Page!As(q.tree) /\ fetches' = fetches \ {q} /\ rows' = rows /\ calls' = calls
    BY <1>11 DEF Page!Show, Page!serverVars
  <2>6. shown' \in [Page!Entries -> Nat]
    BY <2>5, ShownLists
  <2>7. Page!TypeOK'
    BY <1>11, <2>3, <2>4, <2>5, <2>6 DEF Page!Show, Page!TypeOK, Page!serverVars
  <2>8. Page!Coming <=> Page!Coming'
    BY <1>11 DEF Page!Coming, Page!Show
  <2>9. (\A p \in fetches : p.number <= asked)' /\ Page!CacheFollows' /\ Page!ListingFollows'
    BY <1>11, <2>5, <2>8 DEF Page!Show, Page!serverVars, Page!TreeInv, Page!CacheFollows, Page!ListingFollows, Page!Youngest
  <2>10. Page!ListFollows'
    <3>1. CASE q.number = asked
      <4>1. q.tree = rows \/ misled' \/ Page!Coming
        BY <2>1, <2>4, <3>1 DEF Page!TreeInv, Page!ListingFollows, Page!Youngest
      <4>2. Page!As(rows)' = Page!As(rows)
        BY <2>5 DEF Page!As
      <4>3. newest' = asked /\ asked' = asked
        BY <1>11, <2>3, <3>1 DEF Page!Show
      <4> QED
        BY <2>5, <2>8, <4>1, <4>2, <4>3 DEF Page!ListFollows
    <3>2. CASE q.number # asked /\ \E p \in fetches : Page!Youngest(p)
      BY <1>11, <2>5, <3>2 DEF Page!ListFollows, Page!Youngest, Page!Show
    <3>3. CASE q.number # asked /\ ~\E p \in fetches : Page!Youngest(p)
      <4>1. newest = asked /\ newest' = asked /\ asked' = asked
        BY <1>11, <2>3, <3>3 DEF Page!TreeInv, Page!ListFollows, Page!Show
      <4>2. misled'
        BY <2>1, <2>2, <2>4, <3>3, <4>1
      <4> QED
        BY <4>1, <4>2 DEF Page!ListFollows
    <3> QED
      BY <3>1, <3>2, <3>3
  <2> QED
    BY <2>7, <2>9, <2>10 DEF Page!TreeInv
<1>12. ASSUME NEW q \in fetches, Page!FetchFails(q) PROVE Page!TypeOK' /\ Page!TreeInv'
  <2>1. q \in Page!Fetch /\ q.number \in Nat /\ q.number <= asked
    BY DEF Page!TypeOK, Page!Fetch, Page!TreeInv
  <2>2. asked \in Nat /\ newest \in 0..asked
    BY TreeAssumption DEF Page!TypeOK
  <2>3. newest' \in 0..asked /\ (q.number = asked \/ newest = asked => newest' = asked)
    BY <1>12, <2>1, <2>2 DEF Page!FetchFails, Page!Younger
  <2>4. misled' = TRUE /\ fetches' = fetches \ {q} /\ asked' = asked
    BY <1>12 DEF Page!FetchFails
  <2>5. Page!TypeOK'
    BY <1>12, <2>3, <2>4 DEF Page!FetchFails, Page!TypeOK, Page!serverVars
  <2>6. Page!Coming <=> Page!Coming'
    BY <1>12 DEF Page!Coming, Page!FetchFails
  <2>7. (\A p \in fetches : p.number <= asked)' /\ Page!CacheFollows' /\ Page!ListingFollows'
    BY <1>12, <2>4, <2>6 DEF Page!FetchFails, Page!serverVars, Page!TreeInv, Page!CacheFollows, Page!ListingFollows, Page!Youngest
  <2>8. Page!ListFollows'
    <3>1. CASE q.number = asked \/ newest = asked
      BY <2>3, <2>4, <3>1 DEF Page!ListFollows
    <3>2. CASE q.number # asked /\ newest # asked
      BY <2>4, <3>2 DEF Page!TreeInv, Page!ListFollows, Page!Youngest
    <3> QED
      BY <3>1, <3>2
  <2> QED
    BY <2>5, <2>7, <2>8 DEF Page!TreeInv
<1>13. CASE Page!Receive
  <2>1. events # <<>> /\ events' = Tail(events) /\ shown' = Page!Received(Head(events)) /\ Page!Asks
    BY <1>13 DEF Page!Receive
  <2>2. PICK e \in {Page!Update} \cup ({"created", "deleted"} \X Files) : e = Head(events)
    <3>1. Head(events) \in Page!Event
      BY <2>1 DEF Page!TypeOK
    <3> QED
      BY <3>1 DEF Page!Event
  <2>3. shown' \in [Page!Entries -> Nat]
    <3>1. CASE e = Page!Update
      BY <2>1, <2>2, <3>1 DEF Page!Received, Page!TypeOK
    <3>2. CASE e # Page!Update
      <4>1. e[2] \in Files
        BY <2>2, <3>2
      <4> QED
        BY <2>1, <2>2, <3>2, <4>1, ShownLists DEF Page!Received, Page!TypeOK
    <3> QED
      BY <3>1, <3>2
  <2>4. events' \in Seq(Page!Event)
    BY <2>1 DEF Page!TypeOK
  <2>5. Page!TypeOK'
    BY <1>13, <2>1, <2>3, <2>4, AskedForYoungest DEF Page!Receive, Page!TypeOK, Page!serverVars
  <2> QED
    BY <1>13, <2>1, <2>5, AskingKeeps DEF Page!Receive, Page!serverVars
<1>14. CASE Page!Connect
  <2>1. Page!TypeOK'
    BY <1>14, AskedForYoungest DEF Page!Connect, Page!TypeOK, Page!serverVars, Page!pageVars
  <2> QED
    BY <1>14, <2>1, AskingKeeps DEF Page!Connect, Page!serverVars
<1>15. CASE Page!JoinWorkspace
  <2>1. events' \in Seq(Page!Event) /\ events' # <<>>
    <3>1. PICK e \in Page!Event : e = Page!Update
      BY DEF Page!Event
    <3>2. events' = events \o <<e>> /\ events \in Seq(Page!Event)
      BY <1>15, <3>1 DEF Page!JoinWorkspace, Page!OnJoin, Page!TypeOK
    <3> QED
      BY <3>2
  <2>2. Page!TypeOK'
    BY <1>15, <2>1 DEF Page!JoinWorkspace, Page!TypeOK, Page!serverVars, Page!pageVars
  <2>3. Page!Coming'
    BY <2>1 DEF Page!Coming
  <2> QED
    BY <1>15, <2>2, <2>3, StepBesideListings DEF Page!JoinWorkspace, Page!serverVars, Page!pageVars
<1>16. CASE Page!Drop
  <2>1. Page!TypeOK'
    BY <1>16, TreeAssumption DEF Page!Drop, Page!TypeOK, Page!serverVars, Page!pageVars
  <2>2. Page!Coming'
    BY <1>16 DEF Page!Coming, Page!Drop
  <2> QED
    BY <1>16, <2>1, <2>2, StepBesideListings DEF Page!Drop, Page!serverVars, Page!pageVars
<1>17. CASE UNCHANGED Page!treeVars
  <2>1. Page!TypeOK'
    BY <1>17 DEF Page!treeVars, Page!TypeOK
  <2> QED
    BY <1>17, <2>1, StepBesideListings DEF Page!treeVars, Page!Coming, Page!Optimistic
<1> QED
  BY <1>1, <1>2, <1>3, <1>4, <1>5, <1>6, <1>7, <1>8, <1>9, <1>10, <1>11, <1>12, <1>13, <1>14, <1>15, <1>16, <1>17 DEF Page!Next

(* The invariant of the list holds: what the page may not know of makes it  *)
(* ask for another listing, and the youngest listing is of the rows as     *)
(* they are (IdePage.tsx, repositories/file.repository.ts). *)
THEOREM TreeInvariant == Page!Spec => [](Page!TypeOK /\ Page!TreeInv)
BY TreeAssumption, TreeInit, TreeStep, PTL DEF Page!Spec

(* For any ids, calls, listings and broken sockets: when every call and     *)
(* listing is answered and every event handled, the page lists the files   *)
(* the workspace has, but for an overtaken or failed listing or a deletion *)
(* put back (IdePage.tsx, fetchFiles and the handlers of its socket). *)
THEOREM TreeStaysRight == Page!Spec => []TreeConverges
<1>1. Page!TypeOK /\ Page!TreeInv => Page!TreeConverges
  <2>1. SUFFICES ASSUME Page!TypeOK, Page!TreeInv, Page!Quiet, ~misled PROVE shown = Page!As(rows)
    BY DEF Page!TreeConverges
  <2>2. \A e \in Page!Entries : shown[e] = Page!As(rows)[e]
    BY <2>1 DEF Page!Quiet, Page!TreeInv, Page!ListFollows, Page!Coming, Page!Optimistic
  <2>3. shown \in [Page!Entries -> Nat] /\ Page!As(rows) \in [Page!Entries -> Nat]
    BY <2>1 DEF Page!TypeOK, Page!As
  <2> QED
    BY <2>2, <2>3
<1> QED
  BY <1>1, TreeInvariant, PTL DEF TreeConverges

-----------------------------------------------------------------------------
(* The worker threads when they crash and end, too: the pool's lists and   *)
(* tables keep to the indices, tasks and threads there are, and what still *)
(* runs or has an event to emit belongs to an index. *)
Indexed(p) ==
    \A s \in Workers!Threads : p.threads[s].up \/ p.threads[s].events # {} => p.threads[s].index # 0
WorkersTyped ==
    /\ threads \in Workers!Pools /\ Indexed(threads)
    /\ promise \in [Workers!Tasks -> {"none", "waiting", "resolved", "rejected"}]
    /\ crashes \in 0..MaxCrashes /\ finished \in BOOLEAN

LEMMA LeastOf ==
    ASSUME NEW T \in SUBSET Nat, T # {}
    PROVE  Workers!Min(T) \in T
<1>1. PICK n \in T : \A m \in T : <<m, n>> \notin OpToRel(<, Nat)
  BY WFMin, NatLessThanWellFounded
<1>2. \A m \in T : m \in Nat /\ n \in Nat /\ ~(m < n)
  BY <1>1 DEF OpToRel
<1>3. \A m \in T : n <= m
  BY <1>2
<1> QED
  BY <1>3 DEF Workers!Min

(* What a pool is made of. *)
LEMMA PoolParts ==
    /\ \A p \in Workers!Pools :
          /\ p.workers \in [Workers!Indices -> 0..MaxThreads]
          /\ p.idle \in Seq(Workers!Indices) /\ p.queue \in Seq(Workers!Tasks)
          /\ p.taskMap \in [Workers!Tasks -> 0..PoolSize]
          /\ p.threads \in [Workers!Threads -> Workers!ThreadStates]
    /\ \A t \in Workers!ThreadStates :
          /\ t.index \in 0..PoolSize /\ t.up \in BOOLEAN /\ t.events \in SUBSET {"error", "exit"}
          /\ t.inbox \in Seq(Workers!Tasks) /\ t.outbox \in Seq(Workers!Results)
BY DEF Workers!Pools, Workers!ThreadStates

(* One thread changes. *)
LEMMA ChangedThread ==
    ASSUME NEW p \in Workers!Pools, NEW s \in Workers!Threads, NEW thread \in Workers!ThreadStates,
           NEW n, n = [p EXCEPT !.threads = [p.threads EXCEPT ![s] = thread]],
           Indexed(p), thread.up \/ thread.events # {} => thread.index # 0
    PROVE  n \in Workers!Pools /\ Indexed(n)
<1>1. n \in Workers!Pools /\ n.threads = [p.threads EXCEPT ![s] = thread]
  BY DEF Workers!Pools
<1>2. \A r \in Workers!Threads : n.threads[r] = IF r = s THEN thread ELSE p.threads[r]
  BY <1>1, PoolParts
<1> QED
  BY <1>1, <1>2 DEF Indexed

LEMMA DispatchTypes ==
    ASSUME NEW p \in Workers!Pools, Indexed(p)
    PROVE  Workers!ProcessNextTask(p) \in Workers!Pools /\ Indexed(Workers!ProcessNextTask(p))
<1> DEFINE n == Workers!ProcessNextTask(p)
           i == Head(p.idle)
           t == Head(p.queue)
           s == p.workers[i]
           inbox == IF p.threads[s].up THEN Append(p.threads[s].inbox, t) ELSE p.threads[s].inbox
           thread == [p.threads[s] EXCEPT !.inbox = inbox]
<1>1. CASE p.queue = <<>> \/ p.idle = <<>>
  BY <1>1 DEF Workers!ProcessNextTask
<1>2. CASE p.queue # <<>> /\ p.idle # <<>>
  <2>1. /\ i \in Workers!Indices /\ Tail(p.idle) \in Seq(Workers!Indices)
        /\ t \in Workers!Tasks /\ Tail(p.queue) \in Seq(Workers!Tasks)
    BY <1>2, PoolParts, TailOf
  <2>2. i \in 0..PoolSize
    BY <2>1, WorkerAssumption DEF Workers!Indices
  <2>3. n = [p EXCEPT !.idle = Tail(p.idle), !.queue = Tail(p.queue), !.taskMap[t] = i, !.threads[s].inbox = inbox]
    BY <1>2, SMTT(30) DEF Workers!ProcessNextTask, Workers!IdleAfterDispatch
  <2>4. s \in Workers!Threads => thread \in Workers!ThreadStates
    <3>1. ASSUME s \in Workers!Threads PROVE inbox \in Seq(Workers!Tasks) /\ p.threads[s] \in Workers!ThreadStates
      <4>1. p.threads[s] \in Workers!ThreadStates
        BY <3>1, PoolParts
      <4>2. p.threads[s].inbox \in Seq(Workers!Tasks)
        BY <4>1, PoolParts
      <4>3. Append(p.threads[s].inbox, t) \in Seq(Workers!Tasks)
        BY <2>1, <4>2
      <4> QED
        BY <4>1, <4>2, <4>3
    <3> HIDE DEF inbox
    <3> QED
      BY <3>1, Zenon DEF Workers!ThreadStates
  <2> HIDE DEF i, t, s, inbox
  <2>5. [p.taskMap EXCEPT ![t] = i] \in [Workers!Tasks -> 0..PoolSize]
    BY <2>2, PoolParts
  <2>6. /\ n = [p EXCEPT !.idle = Tail(p.idle), !.queue = Tail(p.queue), !.taskMap = [p.taskMap EXCEPT ![t] = i],
                         !.threads = [p.threads EXCEPT ![s] = thread]]
    BY <2>3
  <2>7. [p.threads EXCEPT ![s] = thread] \in [Workers!Threads -> Workers!ThreadStates]
    BY <2>4, PoolParts
  <2>8. n \in Workers!Pools /\ n.threads = [p.threads EXCEPT ![s] = thread]
    BY <2>1, <2>5, <2>6, <2>7 DEF Workers!Pools
  <2>9. s \in Workers!Threads => thread.up = p.threads[s].up /\ thread.events = p.threads[s].events /\ thread.index = p.threads[s].index
    BY PoolParts DEF Workers!ThreadStates
  <2>10. \A r \in Workers!Threads : n.threads[r] = IF r = s THEN thread ELSE p.threads[r]
    BY <2>8, PoolParts
  <2> HIDE DEF thread
  <2>11. Indexed(n)
    BY <2>9, <2>10 DEF Indexed
  <2> QED
    BY <2>8, <2>11
<1> QED
  BY <1>1, <1>2

LEMMA RemovedOnce ==
    ASSUME NEW q \in Seq(Workers!Indices), NEW i \in Workers!Indices
    PROVE  Append(Workers!WithoutFirst(q, i), i) \in Seq(Workers!Indices)
<1>1. CASE \E k \in 1..Len(q) : q[k] = i
  <2>0. PICK places : places = {j \in 1..Len(q) : q[j] = i}
    OBVIOUS
  <2>1. PICK k \in 1..Len(q) : k = Workers!Min(places)
    <3>1. places \in SUBSET Nat /\ places # {} /\ places \subseteq 1..Len(q)
      BY <1>1, <2>0
    <3> QED
      BY <3>1, LeastOf
  <2>2. Workers!WithoutFirst(q, i) = SubSeq(q, 1, k - 1) \o SubSeq(q, k + 1, Len(q))
    BY <1>1, <2>0, <2>1 DEF Workers!WithoutFirst
  <2>3. SubSeq(q, 1, k - 1) \in Seq(Workers!Indices) /\ SubSeq(q, k + 1, Len(q)) \in Seq(Workers!Indices)
    OBVIOUS
  <2> QED
    BY <2>2, <2>3
<1>2. CASE ~\E k \in 1..Len(q) : q[k] = i
  BY <1>2 DEF Workers!WithoutFirst
<1> QED
  BY <1>1, <1>2

LEMMA ThreadKinds ==
    /\ Workers!NoThread \in Workers!ThreadStates /\ ~Workers!NoThread.up /\ Workers!NoThread.events = {}
    /\ \A i \in Workers!Indices : Workers!NewThread(i) \in Workers!ThreadStates /\ Workers!NewThread(i).index = i /\ i # 0
    /\ \A t \in Workers!ThreadStates :
          /\ Workers!Terminated(t) \in Workers!ThreadStates /\ Workers!Terminated(t).index = t.index
          /\ ~t.up => Workers!Terminated(t) = t
<1>1. 0 \in 0..PoolSize /\ <<>> \in Seq(Workers!Tasks) /\ <<>> \in Seq(Workers!Results)
  BY WorkerAssumption
<1>2. Workers!NoThread \in Workers!ThreadStates /\ ~Workers!NoThread.up /\ Workers!NoThread.events = {}
  BY <1>1 DEF Workers!NoThread, Workers!ThreadStates
<1>3. ASSUME NEW i \in Workers!Indices
      PROVE  Workers!NewThread(i) \in Workers!ThreadStates /\ Workers!NewThread(i).index = i /\ i # 0
  <2>1. i \in 0..PoolSize /\ i # 0
    BY WorkerAssumption DEF Workers!Indices
  <2> QED
    BY <1>1, <2>1 DEF Workers!NewThread, Workers!NoThread, Workers!ThreadStates
<1>4. ASSUME NEW t \in Workers!ThreadStates
      PROVE  /\ Workers!Terminated(t) \in Workers!ThreadStates /\ Workers!Terminated(t).index = t.index
             /\ ~t.up => Workers!Terminated(t) = t
  BY <1>1 DEF Workers!Terminated, Workers!ThreadStates
<1> QED
  BY <1>2, <1>3, <1>4

LEMMA RecreateTypes ==
    ASSUME NEW p \in Workers!Pools, NEW i \in Workers!Indices, NEW new \in Workers!Threads, Indexed(p)
    PROVE  Workers!RecreateWorker(p, i, new) \in Workers!Pools /\ Indexed(Workers!RecreateWorker(p, i, new))
<1> DEFINE n == Workers!RecreateWorker(p, i, new)
           old == p.workers[i]
           after2(r) == IF r = new THEN Workers!NewThread(i)
                        ELSE IF r = old THEN Workers!Terminated(p.threads[r]) ELSE p.threads[r]
           thr == [r \in Workers!Threads |-> after2(r)]
           idle2 == Append(Workers!WithoutFirst(p.idle, i), i)
<1>1. n = [p EXCEPT !.threads = thr, !.workers[i] = new, !.idle = idle2]
  BY SMTT(30) DEF Workers!RecreateWorker
<1>2. idle2 \in Seq(Workers!Indices)
  BY PoolParts, RemovedOnce
<1>3. ASSUME NEW s \in Workers!Threads
      PROVE  /\ after2(s) \in Workers!ThreadStates
             /\ after2(s).up \/ after2(s).events # {} => after2(s).index # 0
  <2>1. p.threads[s] \in Workers!ThreadStates
    BY PoolParts
  <2> QED
    BY <2>1, ThreadKinds DEF Indexed
<1> HIDE DEF after2, idle2, old
<1>4. thr \in [Workers!Threads -> Workers!ThreadStates] /\ \A s \in Workers!Threads : thr[s] = after2(s)
  BY <1>3
<1>5. [p.workers EXCEPT ![i] = new] \in [Workers!Indices -> 0..MaxThreads]
  BY PoolParts DEF Workers!Threads
<1> HIDE DEF thr
<1>6. n \in Workers!Pools /\ n.threads = thr
  BY <1>1, <1>2, <1>4, <1>5 DEF Workers!Pools
<1>7. Indexed(n)
  BY <1>3, <1>4, <1>6 DEF Indexed
<1> QED
  BY <1>6, <1>7

LEMMA FreeThread == Workers!FreeThreads # {} => Workers!Min(Workers!FreeThreads) \in Workers!Threads
<1>1. Workers!FreeThreads \in SUBSET Nat /\ Workers!FreeThreads \subseteq Workers!Threads
  BY DEF Workers!FreeThreads, Workers!Threads
<1> QED
  BY <1>1, LeastOf

LEMMA WorkersTypesStep == WorkersTyped /\ [Workers!Next]_(Workers!workerVars) => WorkersTyped'
<1> SUFFICES ASSUME WorkersTyped, [Workers!Next]_(Workers!workerVars) PROVE WorkersTyped'
  OBVIOUS
<1>1. ASSUME NEW t \in Workers!Tasks, Workers!RunTask(t) PROVE WorkersTyped'
  <2>1. PICK p : p = [threads EXCEPT !.queue = Append(threads.queue, t)]
    OBVIOUS
  <2>2. Append(threads.queue, t) \in Seq(Workers!Tasks)
    BY PoolParts DEF WorkersTyped
  <2>3. p \in Workers!Pools /\ p.threads = threads.threads
    BY <2>1, <2>2 DEF WorkersTyped, Workers!Pools
  <2>4. threads' = Workers!ProcessNextTask(p)
    BY <1>1, <2>1 DEF Workers!RunTask
  <2>5. promise' \in [Workers!Tasks -> {"none", "waiting", "resolved", "rejected"}]
    BY <1>1 DEF Workers!RunTask, WorkersTyped
  <2>6. Indexed(p)
    BY <2>3 DEF WorkersTyped, Indexed
  <2>7. threads' \in Workers!Pools /\ Indexed(threads')
    BY <2>3, <2>4, <2>6, DispatchTypes
  <2>8. UNCHANGED <<crashes, finished>>
    BY <1>1, ZenonT(60) DEF Workers!RunTask
  <2> QED
    BY <2>5, <2>7, <2>8 DEF WorkersTyped, Indexed
<1>2. ASSUME NEW s \in Workers!Threads, NEW success \in BOOLEAN, Workers!Compute(s, success) PROVE WorkersTyped'
  <2>1. threads.threads[s] \in Workers!ThreadStates /\ threads.threads[s].inbox # <<>>
    BY <1>2, PoolParts DEF WorkersTyped, Workers!Compute
  <2>2. PICK result : result = [task |-> Head(threads.threads[s].inbox), success |-> success]
    OBVIOUS
  <2>3. Tail(threads.threads[s].inbox) \in Seq(Workers!Tasks) /\ result \in Workers!Results
    BY <2>1, <2>2, PoolParts, TailOf DEF Workers!Results
  <2>4. Append(threads.threads[s].outbox, result) \in Seq(Workers!Results)
    BY <2>1, <2>3, PoolParts
  <2>5. PICK thread : thread = [threads.threads[s] EXCEPT !.inbox = Tail(threads.threads[s].inbox),
                                                          !.outbox = Append(threads.threads[s].outbox, result)]
    OBVIOUS
  <2>6. /\ thread \in Workers!ThreadStates /\ thread.up = threads.threads[s].up
        /\ thread.events = threads.threads[s].events /\ thread.index = threads.threads[s].index
    BY <2>1, <2>3, <2>4, <2>5 DEF Workers!ThreadStates
  <2>7. threads' = [threads EXCEPT !.threads[s].inbox = Tail(@), !.threads[s].outbox = Append(@, result)]
    BY <1>2, <2>2 DEF Workers!Compute
  <2>8. threads' = [threads EXCEPT !.threads = [threads.threads EXCEPT ![s] = thread]]
    BY <2>1, <2>5, <2>7 DEF WorkersTyped, Workers!Pools, Workers!ThreadStates
  <2>9. threads.threads[s].up \/ threads.threads[s].events # {} => threads.threads[s].index # 0
    BY DEF WorkersTyped, Indexed
  <2>10. threads' \in Workers!Pools /\ Indexed(threads')
    BY <2>6, <2>8, <2>9, ChangedThread DEF WorkersTyped
  <2> QED
    BY <1>2, <2>10 DEF Workers!Compute, WorkersTyped, Indexed
<1>3. ASSUME NEW s \in Workers!Threads, Workers!Message(s) PROVE WorkersTyped'
  <2>1. threads.threads[s] \in Workers!ThreadStates /\ threads.threads[s].outbox # <<>>
    BY <1>3, PoolParts DEF WorkersTyped, Workers!Message
  <2>2. PICK result : result = Head(threads.threads[s].outbox)
    OBVIOUS
  <2>3. result \in Workers!Results /\ Tail(threads.threads[s].outbox) \in Seq(Workers!Results)
    BY <2>1, <2>2, PoolParts, TailOf
  <2>4. PICK t \in Workers!Tasks : t = result.task
    BY <2>3 DEF Workers!Results
  <2>5. PICK thread : thread = [threads.threads[s] EXCEPT !.outbox = Tail(threads.threads[s].outbox)]
    OBVIOUS
  <2>6. /\ thread \in Workers!ThreadStates /\ thread.up = threads.threads[s].up
        /\ thread.events = threads.threads[s].events /\ thread.index = threads.threads[s].index
    BY <2>1, <2>3, <2>5 DEF Workers!ThreadStates
  <2>7. PICK emptied : emptied = [threads EXCEPT !.threads = [threads.threads EXCEPT ![s] = thread]]
    OBVIOUS
  <2>8. /\ emptied \in Workers!Pools
        /\ Indexed(emptied)
    <3>1. threads.threads[s].up \/ threads.threads[s].events # {} => threads.threads[s].index # 0
      BY DEF WorkersTyped, Indexed
    <3> QED
      BY <2>6, <2>7, <3>1, ChangedThread DEF WorkersTyped
  <2>9. [threads EXCEPT !.threads[s].outbox = Tail(threads.threads[s].outbox)] = emptied
    BY <2>5, <2>7
  <2>10. CASE threads.taskMap[t] = 0
    <3>1. threads' = emptied /\ UNCHANGED <<promise, crashes, finished>>
      BY <1>3, <2>2, <2>4, <2>9, <2>10 DEF Workers!Message
    <3> QED
      BY <2>8, <3>1 DEF WorkersTyped, Indexed
  <2>11. CASE threads.taskMap[t] # 0
    <3>1. threads.taskMap[t] \in Workers!Indices
      <4>1. threads.taskMap[t] \in 0..PoolSize
        BY PoolParts DEF WorkersTyped
      <4> QED
        BY <2>11, <4>1, WorkerAssumption DEF Workers!Indices
    <3>2. PICK p : p = [emptied EXCEPT !.taskMap = [emptied.taskMap EXCEPT ![t] = 0], !.idle = Append(emptied.idle, threads.taskMap[t])]
      OBVIOUS
    <3>3. p \in Workers!Pools /\ p.threads = emptied.threads
      <4>1. Append(emptied.idle, threads.taskMap[t]) \in Seq(Workers!Indices)
        BY <2>8, <3>1, PoolParts
      <4>2. [emptied.taskMap EXCEPT ![t] = 0] \in [Workers!Tasks -> 0..PoolSize]
        <5>1. 0 \in 0..PoolSize
          BY WorkerAssumption
        <5> QED
          BY <2>8, <5>1, PoolParts
      <4> QED
        BY <2>8, <3>2, <4>1, <4>2 DEF Workers!Pools
    <3>4. threads' = Workers!ProcessNextTask(p)
      <4>1. threads' = Workers!ProcessNextTask([emptied EXCEPT !.taskMap[t] = 0, !.idle = Append(emptied.idle, threads.taskMap[t])])
        BY <1>3, <2>2, <2>4, <2>9, <2>11, Zenon DEF Workers!Message
      <4>2. [emptied EXCEPT !.taskMap[t] = 0, !.idle = Append(emptied.idle, threads.taskMap[t])] = p
        BY <3>2, SMTT(30)
      <4> QED
        BY <4>1, <4>2, Zenon
    <3>5. promise' \in [Workers!Tasks -> {"none", "waiting", "resolved", "rejected"}]
      BY <1>3, <2>2, <2>4, <2>11 DEF Workers!Message, WorkersTyped
    <3>6. Indexed(p)
      BY <2>8, <3>3 DEF Indexed
    <3>7. threads' \in Workers!Pools /\ Indexed(threads')
      BY <3>3, <3>4, <3>6, DispatchTypes, ZenonT(60)
    <3>8. UNCHANGED <<crashes, finished>>
      BY <1>3, <2>2, <2>4, <2>11 DEF Workers!Message
    <3> QED
      BY <3>5, <3>7, <3>8 DEF WorkersTyped, Indexed
  <2> QED
    BY <2>10, <2>11, Zenon
<1>4. ASSUME NEW s \in Workers!Threads, Workers!Crash(s) PROVE WorkersTyped'
  <2>1. threads.threads[s] \in Workers!ThreadStates /\ threads.threads[s].up /\ threads.threads[s].index # 0
    BY <1>4, PoolParts DEF WorkersTyped, Indexed, Workers!Crash
  <2>2. PICK thread : thread = [threads.threads[s] EXCEPT !.up = FALSE, !.inbox = <<>>, !.events = {"error", "exit"}]
    OBVIOUS
  <2>3. thread \in Workers!ThreadStates /\ thread.index = threads.threads[s].index
    <3>1. <<>> \in Seq(Workers!Tasks)
      OBVIOUS
    <3> QED
      BY <2>1, <2>2, <3>1 DEF Workers!ThreadStates
  <2>4. threads' = [threads EXCEPT !.threads = [threads.threads EXCEPT ![s] = thread]]
    <3>1. threads' = [threads EXCEPT !.threads[s].up = FALSE, !.threads[s].inbox = <<>>,
                                     !.threads[s].events = {"error", "exit"}]
      BY <1>4 DEF Workers!Crash
    <3> QED
      BY <2>1, <2>2, <3>1, ZenonT(60)
  <2>5. crashes' \in 0..MaxCrashes
    BY <1>4, WorkerAssumption DEF Workers!Crash, WorkersTyped
  <2>6. threads' \in Workers!Pools /\ Indexed(threads')
    BY <2>1, <2>3, <2>4, ChangedThread DEF WorkersTyped
  <2>7. UNCHANGED <<promise, finished>>
    BY <1>4 DEF Workers!Crash
  <2> QED
    BY <2>5, <2>6, <2>7 DEF WorkersTyped, Indexed
<1>5. ASSUME NEW s \in Workers!Threads, NEW new \in Workers!Threads, Workers!ErrorEvent(s, new) PROVE WorkersTyped'
  <2>1. threads.threads[s] \in Workers!ThreadStates /\ threads.threads[s].index # 0
    BY <1>5, PoolParts DEF WorkersTyped, Indexed, Workers!ErrorEvent
  <2>2. PICK i \in Workers!Indices : i = threads.threads[s].index
    BY <2>1, PoolParts, WorkerAssumption DEF Workers!Indices
  <2>3. PICK lost : lost = {t \in Workers!Tasks : threads.taskMap[t] = i}
    OBVIOUS
  <2>4. PICK thread : thread = [threads.threads[s] EXCEPT !.events = {"exit"}]
    OBVIOUS
  <2>5. thread \in Workers!ThreadStates /\ thread.index # 0
    BY <2>1, <2>4 DEF Workers!ThreadStates
  <2>6. PICK first : first = [threads EXCEPT !.threads = [threads.threads EXCEPT ![s] = thread]]
    OBVIOUS
  <2>7. /\ first \in Workers!Pools
        /\ Indexed(first)
    BY <2>5, <2>6, ChangedThread DEF WorkersTyped
  <2>8. PICK p : p = [first EXCEPT !.taskMap = [t \in Workers!Tasks |-> IF t \in lost THEN 0 ELSE threads.taskMap[t]]]
    OBVIOUS
  <2>9. p \in Workers!Pools /\ p.threads = first.threads
    <3>1. [t \in Workers!Tasks |-> IF t \in lost THEN 0 ELSE threads.taskMap[t]] \in [Workers!Tasks -> 0..PoolSize]
      BY PoolParts, WorkerAssumption DEF WorkersTyped
    <3> QED
      BY <2>7, <2>8, <3>1 DEF Workers!Pools
  <2>10. [threads EXCEPT !.threads[s].events = {"exit"},
                         !.taskMap = [t \in Workers!Tasks |-> IF t \in lost THEN 0 ELSE threads.taskMap[t]]] = p
    BY <2>4, <2>6, <2>8
  <2>11. threads' = Workers!RecreateWorker(p, i, new)
    BY <1>5, <2>2, <2>3, <2>10 DEF Workers!ErrorEvent
  <2>12. promise' \in [Workers!Tasks -> {"none", "waiting", "resolved", "rejected"}]
    BY <1>5 DEF Workers!ErrorEvent, WorkersTyped
  <2>13. Indexed(p)
    BY <2>7, <2>9 DEF Indexed
  <2>14. threads' \in Workers!Pools /\ Indexed(threads')
    BY <2>9, <2>11, <2>13, RecreateTypes
  <2>15. UNCHANGED <<crashes, finished>>
    BY <1>5, ZenonT(60) DEF Workers!ErrorEvent
  <2> QED
    BY <2>12, <2>14, <2>15 DEF WorkersTyped, Indexed
<1>6. ASSUME NEW s \in Workers!Threads, NEW new \in Workers!Threads, Workers!ExitEvent(s, new) PROVE WorkersTyped'
  <2>1. threads.threads[s] \in Workers!ThreadStates /\ threads.threads[s].index # 0
    BY <1>6, PoolParts DEF WorkersTyped, Indexed, Workers!ExitEvent
  <2>2. PICK i \in Workers!Indices : i = threads.threads[s].index
    BY <2>1, PoolParts, WorkerAssumption DEF Workers!Indices
  <2>3. PICK p : p = Workers!RecreateWorker(threads, i, new)
    OBVIOUS
  <2>4. /\ p \in Workers!Pools
        /\ Indexed(p)
    BY <2>3, RecreateTypes DEF WorkersTyped
  <2>5. threads' = [p EXCEPT !.threads = [p.threads EXCEPT ![s] = Workers!NoThread]]
    BY <1>6, <2>2, <2>3 DEF Workers!ExitEvent
  <2>6. threads' \in Workers!Pools /\ Indexed(threads')
    BY <2>4, <2>5, ThreadKinds, ChangedThread
  <2> QED
    BY <1>6, <2>6 DEF Workers!ExitEvent, WorkersTyped, Indexed
<1>7. CASE Workers!Terminate
  <2>1. 0 \in 0..MaxThreads /\ 0 \in 0..PoolSize /\ <<>> \in Seq(Workers!Indices) /\ <<>> \in Seq(Workers!Tasks)
    BY WorkerAssumption
  <2> DEFINE thr == [s \in Workers!Threads |-> IF \E i \in Workers!Indices : threads.workers[i] = s
                                               THEN Workers!Terminated(threads.threads[s]) ELSE threads.threads[s]]
  <2>2. threads' = [workers |-> [i \in Workers!Indices |-> 0], idle |-> <<>>, queue |-> <<>>,
                    taskMap |-> [t \in Workers!Tasks |-> 0], threads |-> thr]
    BY <1>7 DEF Workers!Terminate
  <2>3. ASSUME NEW s \in Workers!Threads
        PROVE  thr[s] \in Workers!ThreadStates /\ (thr[s].up \/ thr[s].events # {} => thr[s].index # 0)
    <3>1. threads.threads[s] \in Workers!ThreadStates
      BY PoolParts DEF WorkersTyped
    <3> QED
      BY <3>1, ThreadKinds DEF WorkersTyped, Indexed
  <2>4. thr \in [Workers!Threads -> Workers!ThreadStates]
    BY <2>3
  <2> HIDE DEF thr
  <2>5. threads' \in Workers!Pools /\ threads'.threads = thr
    BY <2>1, <2>2, <2>4 DEF Workers!Pools
  <2> QED
    BY <1>7, <2>3, <2>5 DEF Workers!Terminate, WorkersTyped, Indexed
<1>8. CASE UNCHANGED Workers!workerVars
  BY <1>8 DEF Workers!workerVars, WorkersTyped, Indexed
<1>9. ASSUME NEW s \in Workers!Threads, Workers!FreeThreads # {},
             Workers!ErrorEvent(s, Workers!Min(Workers!FreeThreads)) \/ Workers!ExitEvent(s, Workers!Min(Workers!FreeThreads))
      PROVE  WorkersTyped'
  BY <1>5, <1>6, <1>9, FreeThread
<1> QED
  BY <1>1, <1>2, <1>3, <1>4, <1>7, <1>8, <1>9 DEF Workers!Next

LEMMA WorkersTypesStart == Workers!Init => WorkersTyped
<1> SUFFICES ASSUME Workers!Init PROVE WorkersTyped
  OBVIOUS
<1>1. /\ crashes = 0 /\ ~finished /\ Workers!Quiet(threads) /\ threads \in Workers!Pools
      /\ promise \in [Workers!Tasks -> {"none", "waiting", "resolved", "rejected"}]
      /\ crashes \in 0..MaxCrashes /\ finished \in BOOLEAN
  BY WorkersStart DEF Workers!WorkerInv, Workers!Init
<1>2. ASSUME NEW s \in Workers!Threads
      PROVE  threads.threads[s].up \/ threads.threads[s].events # {} => threads.threads[s].index # 0
  <2>1. threads.threads[s] = IF s \in Workers!Indices THEN Workers!NewThread(s) ELSE Workers!NoThread
    BY DEF Workers!Init
  <2> QED
    BY <2>1, ThreadKinds
<1> QED
  BY <1>1, <1>2 DEF WorkersTyped, Indexed

(* Queue, idle list, task table and threads keep their types, for any pool *)
(* size and tasks, whatever thread crashes, is replaced or terminated, and *)
(* what runs belongs to an index of the pool (workerPool.service.ts). *)
THEOREM WorkersKeepTypes == Workers!Spec => []WorkersTyped
BY WorkersTypesStart, WorkersTypesStep, PTL DEF Workers!Spec

-----------------------------------------------------------------------------
(* All parts run at once: the variables keep their types, for every value  *)
(* of the constants. *)
THEOREM TypesHold == ServicesSpec => []TypesOK
<1>1. WorkersTyped => Workers!TypeOK
  BY PoolParts DEF WorkersTyped, Workers!TypeOK
<1>2. TextIInv => File!TypeOK
  BY DEF TextIInv
<1> QED
  BY <1>1, <1>2, PoolInvariant, DebouncerInvariant, WorkersKeepTypes, PanelInvariant, PlayerInvariant,
     AccessInvariant, AccountsInvariant, TreeInvariant, PresenceInvariant, EditorInvariant, TextInvariant,
     PTL DEF ServicesSpec, TypesOK, AccessSpec
=============================================================================
