----------------------- MODULE WorkspaceContainerProofs -----------------------
(***************************************************************************)
(* Proofs about WorkspaceContainer for any sessions and editors: the       *)
(* registry only offers running containers, an unused one has a timer, and *)
(* the warm pool's session count covers every running container.  Until    *)
(* the first upset everybody who uses the container is counted, so that    *)
(* neither timer nor removal takes it from under a user.                   *)
(***************************************************************************)
EXTENDS WorkspaceContainer, FiniteSetTheorems, TLAPS

USE SessionAssumption

LEMMA Typing == TypeOK /\ [Next]_vars => TypeOK'
<1> SUFFICES ASSUME TypeOK, [Next]_vars PROVE TypeOK'
  OBVIOUS
<1> USE DEF TypeOK, recordVars, poolVars, sessionVars
<1>1. ASSUME NEW s \in Session, Connect(s) \/ Authorize(s) \/ Reject(s) \/ Attach(s)
      PROVE  TypeOK'
  BY <1>1 DEF Connect, Authorize, Reject, Attach
<1>2. ASSUME NEW s \in Session, AcquireExisting(s) PROVE TypeOK'
  <2>1. refCount' \in Nat /\ timer' \in [Session -> {"none", "armed"}]
    BY <1>2 DEF AcquireExisting, CountAfterAcquire
  <2>2. holds' \in [Session -> Session \cup {NoRef}] /\ stale' \in BOOLEAN
    BY <1>2 DEF AcquireExisting, Held
  <2>3. phase' \in [Session -> {"new", "authorizing", "authorized", "popping",
                                "populating", "setup", "attached", "ended"}]
    BY <1>2 DEF AcquireExisting
  <2> QED
    BY <1>2, <2>1, <2>2, <2>3 DEF AcquireExisting
<1>3. ASSUME NEW s \in Session, AcquireNew(s) PROVE TypeOK'
  BY <1>3 DEF AcquireNew
<1>4. ASSUME NEW s \in Session, Popped(s) PROVE TypeOK'
  BY <1>4 DEF Popped
<1>5. ASSUME NEW s \in Session, Register(s) PROVE TypeOK'
  BY <1>5 DEF Register, Held
<1>6. ASSUME Release PROVE /\ refCount' \in Nat
                           /\ timer' \in [Session -> {"none", "armed"}]
  BY <1>6 DEF Release, CountAfterRelease, TimerAfterRelease
<1>7. ASSUME NEW s \in Session, Fails(s) PROVE TypeOK'
  BY <1>6, <1>7 DEF Fails
<1>9. ASSUME NEW s \in Session, SessionCloses(s) PROVE TypeOK'
  BY <1>6, <1>9 DEF SessionCloses
<1>10. ASSUME NEW s \in Session, RemoveDone(s) PROVE TypeOK'
  BY <1>10 DEF RemoveDone
<1>11. ASSUME NEW s \in Session, GraceTimerFires(s) PROVE TypeOK'
  BY <1>11 DEF GraceTimerFires, Remove, RefAfterRemove
<1>13. ASSUME NEW e \in Editor, EditorCloses(e) PROVE TypeOK'
  BY <1>6, <1>13 DEF EditorCloses
<1>14. CASE DeleteWorkspace
  BY <1>6, <1>14 DEF DeleteWorkspace
<1>15. CASE Reap
  BY <1>15 DEF Reap, CanReap, Remove, RefAfterRemove
<1>16. CASE Touch \/ HalfAnHour
  BY <1>16 DEF Touch, HalfAnHour
<1>17. CASE UNCHANGED vars
  BY <1>17 DEF vars
<1> QED
  BY <1>1, <1>2, <1>3, <1>4, <1>5, <1>7, <1>9, <1>10, <1>11,
     <1>13, <1>14, <1>15, <1>16, <1>17 DEF Next

(* The registry and the timers, without the pool's count. *)
RegistryInv == RegistryOffersRunning /\ UnusedIsTimed /\ CreationMatchesPhase

LEMMA RegistryStep == TypeOK /\ RegistryInv /\ [Next]_vars => RegistryInv'
<1> SUFFICES ASSUME TypeOK, RegistryInv, [Next]_vars PROVE RegistryInv'
  OBVIOUS
<1> USE DEF TypeOK, RegistryInv, RegistryOffersRunning, UnusedIsTimed,
            CreationMatchesPhase, recordVars, poolVars, sessionVars
<1>1. ASSUME NEW s \in Session, Connect(s) \/ Authorize(s) \/ Reject(s) \/ Attach(s)
      PROVE  RegistryInv'
  BY <1>1 DEF Connect, Authorize, Reject, Attach
<1>2. ASSUME NEW s \in Session, AcquireExisting(s) PROVE RegistryInv'
  BY <1>2 DEF AcquireExisting, CountAfterAcquire
<1>3. ASSUME NEW s \in Session, AcquireNew(s) PROVE RegistryInv'
  BY <1>3 DEF AcquireNew
<1>4. ASSUME NEW s \in Session, Popped(s) PROVE RegistryInv'
  BY <1>4 DEF Popped
<1>5. ASSUME NEW s \in Session, Register(s) PROVE RegistryInv'
  BY <1>5 DEF Register
<1>6. ASSUME Release, ref' = ref PROVE UnusedIsTimed'
  BY <1>6 DEF Release, CountAfterRelease, TimerAfterRelease
<1>7. ASSUME NEW s \in Session, Fails(s) PROVE RegistryInv'
  <2>1. UnusedIsTimed'
    BY <1>6, <1>7 DEF Fails
  <2>2. RegistryOffersRunning' /\ CreationMatchesPhase'
    BY <1>7 DEF Fails
  <2> QED
    BY <2>1, <2>2
<1>9. ASSUME NEW s \in Session, SessionCloses(s) PROVE RegistryInv'
  <2>1. UnusedIsTimed'
    BY <1>6, <1>9 DEF SessionCloses
  <2>2. RegistryOffersRunning' /\ CreationMatchesPhase'
    BY <1>9 DEF SessionCloses
  <2> QED
    BY <2>1, <2>2
<1>10. ASSUME NEW s \in Session, RemoveDone(s) PROVE RegistryInv'
  BY <1>10 DEF RemoveDone
<1>11. ASSUME NEW s \in Session, GraceTimerFires(s) PROVE RegistryInv'
  BY <1>11 DEF GraceTimerFires, Remove, RefAfterRemove
<1>13. ASSUME NEW e \in Editor, EditorCloses(e) PROVE RegistryInv'
  <2>1. UnusedIsTimed'
    BY <1>6, <1>13 DEF EditorCloses
  <2>2. RegistryOffersRunning' /\ CreationMatchesPhase'
    BY <1>13 DEF EditorCloses
  <2> QED
    BY <2>1, <2>2
<1>14. CASE DeleteWorkspace
  <2>1. UnusedIsTimed'
    BY <1>6, <1>14 DEF DeleteWorkspace
  <2>2. RegistryOffersRunning' /\ CreationMatchesPhase'
    BY <1>14 DEF DeleteWorkspace
  <2> QED
    BY <2>1, <2>2
<1>15. CASE Reap
  BY <1>15 DEF Reap, CanReap, Remove, RefAfterRemove
<1>16. CASE Touch \/ HalfAnHour
  BY <1>16 DEF Touch, HalfAnHour
<1>17. CASE UNCHANGED vars
  BY <1>17 DEF vars
<1> QED
  BY <1>1, <1>2, <1>3, <1>4, <1>5, <1>7, <1>9, <1>10, <1>11,
     <1>13, <1>14, <1>15, <1>16, <1>17 DEF Next

(* The pool's count follows the containers that run or are being popped.   *)
LEMMA CountStep ==
    ASSUME TypeOK, RegistryInv, Cardinality(Counted) <= sessions, [Next]_vars
    PROVE  Cardinality(Counted') <= sessions'
<1>0. /\ IsFiniteSet(Counted) /\ Cardinality(Counted) \in Nat
      /\ Counted \subseteq Session /\ sessions \in Nat
  BY FS_Subset, FS_CardinalityType DEF Counted, TypeOK
<1>1. ASSUME Counted' \subseteq Counted, sessions' >= sessions, sessions' \in Nat
      PROVE  Cardinality(Counted') <= sessions'
  <2>1. IsFiniteSet(Counted') /\ Cardinality(Counted') <= Cardinality(Counted)
    BY <1>0, <1>1, FS_Subset
  <2>2. Cardinality(Counted') \in Nat
    BY <2>1, FS_CardinalityType
  <2> QED
    BY <1>0, <1>1, <2>1, <2>2
<1> USE DEF TypeOK, recordVars, poolVars, sessionVars
<1>2. ASSUME NEW s \in Session, AcquireNew(s) PROVE Cardinality(Counted') <= sessions'
  <2>1. Counted' = Counted \cup {s} /\ s \notin Counted /\ sessions' = sessions + 1
    BY <1>2 DEF AcquireNew, Counted, RegistryInv, CreationMatchesPhase
  <2>2. Cardinality(Counted') = Cardinality(Counted) + 1
    BY <1>0, <2>1, FS_AddElement
  <2> QED
    BY <1>0, <2>1, <2>2
<1>3. ASSUME NEW s \in Session, RemoveDone(s) PROVE Cardinality(Counted') <= sessions'
  <2>1. container[s] = "running" /\ phase[s] # "popping"
    BY <1>3 DEF RemoveDone, RegistryInv, CreationMatchesPhase
  <2>2. s \in Counted /\ Counted' = Counted \ {s}
    BY <1>3, <2>1 DEF RemoveDone, Counted
  <2>3. Cardinality(Counted') = Cardinality(Counted) - 1
    BY <1>0, <2>2, FS_RemoveElement
  <2>4. Cardinality(Counted) > 0
    BY <1>0, <2>2, FS_EmptySet
  <2>5. sessions' = sessions - 1
    BY <1>0, <1>3, <2>4 DEF RemoveDone
  <2> QED
    BY <1>0, <2>3, <2>5
<1>4. ASSUME NEW s \in Session,
             \/ Connect(s) \/ Authorize(s) \/ Reject(s) \/ AcquireExisting(s)
             \/ Popped(s) \/ Register(s) \/ Fails(s) \/ Attach(s)
             \/ SessionCloses(s) \/ GraceTimerFires(s)
      PROVE  Cardinality(Counted') <= sessions'
  <2>1. sessions' = sessions
    BY <1>4 DEF Connect, Authorize, Reject, AcquireExisting, Popped, Register,
                Fails, Attach, SessionCloses, GraceTimerFires
  <2>2. Counted' \subseteq Counted
    BY <1>4 DEF Connect, Authorize, Reject, AcquireExisting, Popped, Register,
                Fails, Attach, SessionCloses, GraceTimerFires,
                Counted
  <2> QED
    BY <1>0, <1>1, <2>1, <2>2
<1>5. ASSUME \/ \E e \in Editor : EditorCloses(e)
             \/ DeleteWorkspace \/ Reap \/ Touch \/ HalfAnHour \/ UNCHANGED vars
      PROVE  Cardinality(Counted') <= sessions'
  <2>1. UNCHANGED <<container, phase, sessions>>
    BY <1>5 DEF EditorCloses, DeleteWorkspace, Reap, Touch,
                HalfAnHour, vars
  <2>2. Counted' = Counted
    BY <2>1 DEF Counted
  <2> QED
    BY <1>0, <1>1, <2>1, <2>2
<1> QED
  BY <1>2, <1>3, <1>4, <1>5 DEF Next

(* Types and the inductive invariant of the registry and the pool's count. *)
THEOREM ContainerInvariant == Spec => [](TypeOK /\ ContainerInv)
<1>1. Init => TypeOK /\ ContainerInv
  <2> SUFFICES ASSUME Init PROVE TypeOK /\ ContainerInv
    OBVIOUS
  <2>1. TypeOK
    BY DEF Init, TypeOK
  <2>2. RegistryOffersRunning /\ UnusedIsTimed /\ CreationMatchesPhase
    BY DEF Init, RegistryOffersRunning, UnusedIsTimed, CreationMatchesPhase
  <2>3. Counted = {} /\ sessions = 0
    BY DEF Init, Counted
  <2> QED
    BY <2>1, <2>2, <2>3, FS_EmptySet DEF ContainerInv
<1>2. TypeOK /\ ContainerInv /\ [Next]_vars => TypeOK' /\ ContainerInv'
  BY Typing, RegistryStep, CountStep DEF ContainerInv, RegistryInv
<1> QED
  BY <1>1, <1>2, PTL DEF Spec

(* Nobody is handed a container that is being removed. *)
THEOREM OffersOnlyRunning == Spec => []RegistryOffersRunning
<1>1. ContainerInv => RegistryOffersRunning
  BY DEF ContainerInv
<1> QED
  BY <1>1, ContainerInvariant, PTL

(* A registered container without users has its grace timer. *)
THEOREM UnusedHasTimer == Spec => []UnusedIsTimed
<1>1. ContainerInv => UnusedIsTimed
  BY DEF ContainerInv
<1> QED
  BY <1>1, ContainerInvariant, PTL

(* The pool's session count covers the running containers. *)
THEOREM PoolCoversContainers == Spec => []SessionsCoverContainers
<1>1. TypeOK /\ ContainerInv => SessionsCoverContainers
  <2> SUFFICES ASSUME TypeOK, ContainerInv PROVE SessionsCoverContainers
    OBVIOUS
  <2> DEFINE Running == {c \in Session : container[c] = "running"}
  <2>1. IsFiniteSet(Counted)
    BY FS_Subset DEF Counted
  <2>2. Running \subseteq Counted
    BY DEF Counted
  <2>3. Cardinality(Running) <= Cardinality(Counted) /\ IsFiniteSet(Running)
    BY <2>1, <2>2, FS_Subset
  <2>4. Cardinality(Running) \in Nat /\ Cardinality(Counted) \in Nat
    BY <2>1, <2>3, FS_CardinalityType
  <2>5. Cardinality(Running) <= sessions
    BY <2>3, <2>4 DEF ContainerInv, TypeOK
  <2> QED
    BY <2>5 DEF SessionsCoverContainers
<1> QED
  BY <1>1, ContainerInvariant, PTL

(* Registry, timer and pool never lose a container. *)
THEOREM ContainersStayTracked == Spec => []ContainersAreTracked
BY OffersOnlyRunning, UnusedHasTimer, PoolCoversContainers, PTL DEF ContainersAreTracked

-----------------------------------------------------------------------------
(* The users and their count. *)

(* Sessions that have been counted in and not yet out again, those that    *)
(* left too early to be counted out included.                              *)
Attending == {s \in Session : phase[s] \in {"setup", "attached"}}

(* Until the first upset the registered record counts everybody who uses   *)
(* the container, and there is only that one to use.                       *)
UsersAreCounted ==
    /\ ref = NoRef => refCount = 0
    /\ ~upset =>
         /\ Cardinality(Attending) <= refCount
         /\ \A s \in Session : Using(s) => holds[s] = ref

LEMMA AttendingIsFinite ==
    ASSUME TypeOK
    PROVE  /\ IsFiniteSet(Attending) /\ Cardinality(Attending) \in Nat
           /\ (Cardinality(Attending) <= 0 => Attending = {})
<1>1. IsFiniteSet(Attending)
  BY FS_Subset DEF Attending
<1> QED
  BY <1>1, FS_CardinalityType, FS_EmptySet

LEMMA CountedStep == TypeOK /\ TypeOK' /\ UsersAreCounted /\ [Next]_vars => UsersAreCounted'
<1> SUFFICES ASSUME TypeOK, TypeOK', UsersAreCounted, [Next]_vars PROVE UsersAreCounted'
  OBVIOUS
<1>0. /\ IsFiniteSet(Attending) /\ Cardinality(Attending) \in Nat
      /\ (Cardinality(Attending) <= 0 => Attending = {})
      /\ IsFiniteSet(Attending') /\ Cardinality(Attending)' \in Nat
  <2>1. IsFiniteSet(Attending')
    BY FS_Subset DEF Attending
  <2> QED
    BY <2>1, AttendingIsFinite, FS_CardinalityType
<1>1. refCount \in Nat /\ refCount' \in Nat /\ upset \in BOOLEAN /\ upset' \in BOOLEAN
  BY DEF TypeOK
(* Nobody is counted in, and the count and the users stay. *)
<1>2. ASSUME Attending' \subseteq Attending, UNCHANGED <<ref, refCount>>,
             upset => upset',
             \A s \in Session : Using(s)' => Using(s) /\ holds'[s] = holds[s]
      PROVE  UsersAreCounted'
  <2>1. Cardinality(Attending)' <= Cardinality(Attending)
    BY <1>0, <1>2, FS_Subset
  <2> QED
    BY <1>0, <1>1, <1>2, <2>1 DEF UsersAreCounted
(* Whoever had been counted in is counted out. *)
<1>3. ASSUME NEW s \in Attending, Release, Attending' = Attending \ {s},
             UNCHANGED <<ref, upset>>,
             \A q \in Session : Using(q)' => Using(q) /\ holds'[q] = holds[q]
      PROVE  UsersAreCounted'
  <2>1. CASE upset
    BY <1>1, <1>3, <2>1 DEF UsersAreCounted, Release
  <2>2. CASE ~upset
    <3>1. Cardinality(Attending)' = Cardinality(Attending) - 1
      BY <1>0, <1>3, FS_RemoveElement
    <3>2. refCount > 0 /\ ref # NoRef
      BY <1>0, <1>1, <1>3, <2>2 DEF UsersAreCounted
    <3>3. refCount' = refCount - 1
      BY <1>3, <3>2 DEF Release, CountAfterRelease
    <3> QED
      BY <1>0, <1>1, <1>3, <2>2, <3>1, <3>2, <3>3 DEF UsersAreCounted
  <2> QED
    BY <2>1, <2>2
(* Once upset only the count of an empty registry matters. *)
<1>4. ASSUME upset', ref' = ref, Release PROVE UsersAreCounted'
  BY <1>1, <1>4 DEF UsersAreCounted, Release
<1> USE DEF TypeOK, recordVars, poolVars, sessionVars, Attending, Using
<1>5. ASSUME NEW s \in Session, Connect(s) \/ Authorize(s) \/ Reject(s) \/ Attach(s)
                                  \/ AcquireNew(s) \/ Popped(s)
      PROVE  UsersAreCounted'
  <2>1. /\ UNCHANGED <<ref, refCount, upset, holds>>
        /\ Attending' \subseteq Attending
        /\ \A q \in Session : Using(q)' => Using(q)
    BY <1>5 DEF Connect, Authorize, Reject, Attach, AcquireNew, Popped
  <2> QED
    BY <1>2, <2>1
<1>6. ASSUME NEW s \in Session, AcquireExisting(s) PROVE UsersAreCounted'
  <2>1. /\ ref # NoRef /\ UNCHANGED <<ref, upset, ws>> /\ refCount' = refCount + 1
        /\ s \notin Attending /\ Attending' = Attending \cup {s}
        /\ \A q \in Session : holds'[q] = IF q = s THEN Held(s, ref) ELSE holds[q]
    BY <1>6 DEF AcquireExisting, CountAfterAcquire
  <2>2. Cardinality(Attending)' = Cardinality(Attending) + 1
    BY <1>0, <2>1, FS_AddElement, ZenonT(60)
  <2>3. ~upset => \A q \in Session : Using(q)' => holds'[q] = ref
    BY <1>6, <2>1 DEF AcquireExisting, UsersAreCounted, Held
  <2> QED
    BY <1>0, <1>1, <2>1, <2>2, <2>3 DEF UsersAreCounted
<1>7. ASSUME NEW s \in Session, Register(s) PROVE UsersAreCounted'
  <2>1. ref' = s /\ refCount' = 1 /\ s # NoRef /\ ref' # NoRef
    BY <1>7 DEF Register
  <2>2. ASSUME ~upset' PROVE Cardinality(Attending)' <= 1 /\
                             \A q \in Session : Using(q)' => holds'[q] = s
    <3>1. ref = NoRef /\ refCount = 0 /\ ~upset
      BY <1>7, <2>2 DEF Register, UsersAreCounted
    <3>2. Attending = {}
      BY <1>0, <3>1 DEF UsersAreCounted
    <3>3. Attending' = {s}
      BY <1>7, <3>2 DEF Register
    <3>4. Cardinality(Attending)' = 1
      BY <3>3, FS_Singleton
    <3>5. \A q \in Session : Using(q)' => q \in Attending' /\ ws'[q] = "open"
      OBVIOUS
    <3>6. ws[s] = "open" => holds'[s] = s
      BY <1>7 DEF Register, Held
    <3> QED
      BY <1>7, <3>3, <3>4, <3>5, <3>6 DEF Register
  <2> QED
    BY <2>1, <2>2 DEF UsersAreCounted
<1>8. ASSUME NEW s \in Session, Fails(s) PROVE UsersAreCounted'
  <2>1. /\ ref' = ref /\ (upset => upset')
        /\ \A q \in Session : Using(q)' => Using(q) /\ holds'[q] = holds[q]
        /\ Attending' = Attending \ {s}
    BY <1>8 DEF Fails
  <2>2. CASE s \in Lsp /\ phase[s] = "setup"
    <3>1. s \in Attending /\ Release /\ upset' = upset
      BY <1>8, <2>2 DEF Fails
    <3> QED
      BY <1>3, <2>1, <3>1
  <2>3. CASE s \in Lsp /\ phase[s] # "setup" /\ ref # NoRef
    <3>1. upset' /\ Release
      BY <1>8, <2>3 DEF Fails
    <3> QED
      BY <1>4, <2>1, <3>1
  <2>4. CASE s \notin Lsp \/ (phase[s] # "setup" /\ ref = NoRef)
    <3>1. refCount' = refCount
      BY <1>8, <2>4 DEF Fails, Release
    <3> QED
      BY <1>2, <2>1, <3>1
  <2> QED
    BY <2>2, <2>3, <2>4
<1>9. ASSUME NEW s \in Session, SessionCloses(s) PROVE UsersAreCounted'
  <2>1. /\ UNCHANGED <<ref, upset>>
        /\ \A q \in Session : Using(q)' => Using(q) /\ holds'[q] = holds[q]
    BY <1>9 DEF SessionCloses
  <2>2. CASE phase[s] = "attached"
    <3>1. s \in Attending /\ Attending' = Attending \ {s} /\ Release
      BY <1>9, <2>2 DEF SessionCloses
    <3> QED
      BY <1>3, <2>1, <3>1
  <2>3. CASE phase[s] # "attached"
    <3>1. Attending' = Attending /\ refCount' = refCount
      BY <1>9, <2>3 DEF SessionCloses
    <3> QED
      BY <1>2, <2>1, <3>1
  <2> QED
    BY <2>2, <2>3
<1>10. ASSUME NEW o \in Session, GraceTimerFires(o) PROVE UsersAreCounted'
  <2>1. UNCHANGED <<phase, holds, ws, upset>>
    BY <1>10 DEF GraceTimerFires
  <2>2. CASE UNCHANGED <<ref, refCount>>
    BY <1>2, <2>1, <2>2
  <2>3. CASE refCount = 0 /\ Remove
    <3>1. refCount' = 0
      BY <2>3 DEF Remove
    <3>2. ~upset => Attending = {}
      BY <1>0, <2>3 DEF UsersAreCounted
    <3> QED
      BY <1>0, <2>1, <3>1, <3>2, FS_EmptySet DEF UsersAreCounted
  <2> QED
    BY <1>10, <2>2, <2>3 DEF GraceTimerFires
<1>11. CASE Reap
  BY <1>11 DEF Reap, Remove, UsersAreCounted
<1>12. ASSUME (\E e \in Editor : EditorCloses(e)) \/ DeleteWorkspace
       PROVE  UsersAreCounted'
  <2>1. Release /\ UNCHANGED <<ref, phase, holds, ws>> /\ upset' = (upset \/ ref # NoRef)
    BY <1>12 DEF EditorCloses, DeleteWorkspace
  <2>2. CASE ref = NoRef
    <3>1. refCount' = refCount
      BY <2>1, <2>2 DEF Release
    <3> QED
      BY <1>1, <1>2, <2>1, <2>2, <3>1
  <2>3. CASE ref # NoRef
    BY <1>4, <2>1, <2>3
  <2> QED
    BY <2>2, <2>3
<1>13. ASSUME UNCHANGED <<ref, refCount, phase, holds, ws, upset>> PROVE UsersAreCounted'
  BY <1>2, <1>13
<1>14. CASE Touch \/ HalfAnHour \/ UNCHANGED vars
  BY <1>13, <1>14 DEF Touch, HalfAnHour, vars
<1>15. ASSUME NEW s \in Session, RemoveDone(s) PROVE UsersAreCounted'
  BY <1>13, <1>15 DEF RemoveDone
<1> QED
  BY <1>5, <1>6, <1>7, <1>8, <1>9, <1>10, <1>11, <1>12, <1>14, <1>15 DEF Next

(* The inductive invariant of the reference count. *)
THEOREM CountInvariant == Spec => []UsersAreCounted
<1>1. Init => UsersAreCounted
  <2> SUFFICES ASSUME Init PROVE UsersAreCounted
    OBVIOUS
  <2>1. Attending = {} /\ refCount = 0 /\ \A s \in Session : ~Using(s)
    BY DEF Init, Attending, Using
  <2> QED
    BY <2>1, FS_EmptySet DEF UsersAreCounted
<1> QED
  BY <1>1, CountedStep, ContainerInvariant, PTL DEF Spec

(* No container is taken from under a user until the first upset. *)
THEOREM UsersKeepTheirContainer == Spec => []UsedContainerRuns
<1>1. TypeOK /\ ContainerInv /\ UsersAreCounted => UsedContainerRuns
  <2> SUFFICES ASSUME TypeOK, ContainerInv, UsersAreCounted, ~upset,
                      NEW s \in Session, Using(s)
               PROVE  container[holds[s]] = "running"
    BY DEF UsedContainerRuns
  <2>1. holds[s] = ref /\ Attending # {}
    BY DEF UsersAreCounted, Using, Attending
  <2>2. refCount # 0
    BY <2>1, AttendingIsFinite DEF UsersAreCounted
  <2>3. ref # NoRef
    BY <2>2 DEF UsersAreCounted
  <2> QED
    BY <2>1, <2>3 DEF ContainerInv, RegistryOffersRunning
<1> QED
  BY <1>1, CountInvariant, ContainerInvariant, PTL

(* "reference-counted lifecycle tracking" up to the first upset: the grace *)
(* period never takes a container that somebody uses.                      *)
THEOREM GraceSparesTheCounted ==
    Spec => [][\A o \in Session :
                 GraceTimerFires(o) /\ ref' # ref /\ ~upset => Users(ref) = {}]_vars
<1>1. ASSUME TypeOK, UsersAreCounted, NEW o \in Session, GraceTimerFires(o),
             ref' # ref, ~upset
      PROVE  Users(ref) = {}
  <2>1. refCount = 0
    BY <1>1 DEF GraceTimerFires
  <2>2. Attending = {}
    BY <1>1, <2>1, AttendingIsFinite DEF UsersAreCounted
  <2> QED
    BY <2>2 DEF Attending, Users, Using
<1>2. TypeOK /\ UsersAreCounted =>
        [\A o \in Session :
           GraceTimerFires(o) /\ ref' # ref /\ ~upset => Users(ref) = {}]_vars
  BY <1>1
<1> QED
  BY <1>2, CountInvariant, ContainerInvariant, PTL
=============================================================================
