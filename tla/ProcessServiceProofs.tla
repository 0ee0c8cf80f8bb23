------------------------ MODULE ProcessServiceProofs ------------------------
(***************************************************************************)
(* Theorems about ProcessService, for any set of processes, any budget and *)
(* any bound on the list.                                                  *)
(***************************************************************************)
EXTENDS ProcessService, FiniteSetTheorems, TLAPS

\* The types without the bound on the list, which needs an argument of its own.
Types ==
    /\ pc \in [Procs -> Places] /\ clean \in [Procs -> CleanPlaces]
    /\ child \in [Procs -> {"none", "running", "dead", "exited"}]
    /\ entry \in [Procs -> {"none", "live", "disposing", "gone"}]
    /\ origin \in [Procs -> {"running", "observer", "registry"}]
    /\ answer \in [Procs -> {"none", "status", "failed", "cancelled"}]
    /\ snapshots \in [Procs -> {"none", "running", "exited"}]
    /\ signalled \subseteq Procs /\ permits \subseteq Procs
    /\ closed \subseteq Procs /\ observed \subseteq Procs
    /\ closer \in [active : BOOLEAN, todo : SUBSET Procs, current : Procs \cup {None}]

\* Before its process is registered a spawn is alone with it.
SpawnOf(p) ==
    /\ pc[p] \in {"new", "reserved", "failed"} => child[p] = "none"
    /\ pc[p] \in {"new", "reserved"} => p \notin closed
    /\ pc[p] = "reserved" => p \in permits
    /\ pc[p] \in {"new", "reserved", "launched", "failed"} => entry[p] = "none"
    /\ entry[p] \in {"none", "live"} => clean[p] = "none"

\* What the observer has seen, it has seen after the exit.
ObserverOf(p) ==
    /\ pc[p] \in {"marked", "answered", "disposing", "removing"} => child[p] = "exited"
    /\ origin[p] = "observer" => child[p] = "exited"
    /\ pc[p] = "marked" => snapshots[p] # "running"

\* disposeChild goes on only in the registry's name, and past the finalizer of
\* the spawner only when the child has ended; the scope is closed by who goes on.
DisposalOf(p) ==
    /\ clean[p] \in {"checking", "killing", "ending", "closing", "stopping", "terminating",
                     "reaping", "releasing", "failing"} => origin[p] = "registry"
    /\ clean[p] \in {"releasing", "failing", "finished"} => child[p] # "running"
    /\ p \in closed /\ child[p] = "running" =>
        clean[p] \in {"stopping", "terminating", "reaping", "abandoned"}

AnswerOf(p) ==
    /\ answer[p] = "status" =>
        child[p] = "exited" /\ snapshots[p] # "running" /\ pc[p] \notin Spawning
    /\ answer[p] = "cancelled" =>
        child[p] # "running" /\ origin[p] = "registry" /\ entry[p] # "none"

PermitOf(p) == child[p] = "running" => p \in permits

LifeOf(p) == SpawnOf(p) /\ ObserverOf(p) /\ DisposalOf(p) /\ AnswerOf(p) /\ PermitOf(p)

LifeInv == \A p \in Procs : LifeOf(p)

\* The permits and the list are finite, and within their bounds.
BoundsInv ==
    /\ IsFiniteSet(permits) /\ Cardinality(permits) <= MaxConcurrent
    /\ IsFiniteSet(Listed) /\ ListBounded

-------------------------------------------------------------------------------
\* The shapes of all variables, as far as one step at a time keeps them.
LEMMA TypesCorrect == Spec => []Types
<1>1. Init => Types
  BY ProcessAssumption DEF Init, Types, Places, CleanPlaces, Spawning, Interruptible, Uninterruptible
<1>2. Types /\ [Next]_vars => Types'
  <2> SUFFICES ASSUME Types, [Next]_vars PROVE Types'
    OBVIOUS
  <2> USE ProcessAssumption DEF Types, Places, CleanPlaces, Spawning, Interruptible, Uninterruptible, child_, registry
  <2>1. ASSUME NEW p \in Procs, Reserve(p) PROVE Types'
    BY <2>1 DEF Reserve, At
  <2>2. ASSUME NEW p \in Procs, Launch(p) PROVE Types'
    BY <2>2 DEF Launch, At
  <2>3. ASSUME NEW p \in Procs, LaunchFails(p) PROVE Types'
    BY <2>3 DEF LaunchFails, At
  <2>4. ASSUME NEW p \in Procs, Register(p) PROVE Types'
    BY <2>4 DEF Register, At
  <2>33. ASSUME NEW p \in Procs, RegisterFails(p) PROVE Types'
    BY <2>33 DEF RegisterFails, At
  <2>5. ASSUME NEW p \in Procs, Observe(p) PROVE Types'
    BY <2>5 DEF Observe, At, List, Listed
  <2>6. ASSUME NEW p \in Procs, Drop(p) PROVE Types'
    BY <2>6 DEF Drop, At, List, Listed
  <2>7. ASSUME NEW p \in Procs, MarkExited(p) PROVE Types'
    BY <2>7 DEF MarkExited, At
  <2>8. ASSUME NEW p \in Procs, AnswerExit(p) PROVE Types'
    BY <2>8 DEF AnswerExit, At, Complete
  <2>9. ASSUME NEW p \in Procs, ExitUnreadable(p) PROVE Types'
    BY <2>9 DEF ExitUnreadable, At, Complete
  <2>10. ASSUME NEW p \in Procs, ClaimForObserver(p) PROVE Types'
    BY <2>10 DEF ClaimForObserver, At
  <2>11. ASSUME NEW p \in Procs, DisposeOwn(p) PROVE Types'
    BY <2>11 DEF DisposeOwn, At, Take
  <2>12. ASSUME NEW p \in Procs, CloseOwn(p) PROVE Types'
    BY <2>12 DEF CloseOwn, At
  <2>13. ASSUME NEW p \in Procs, StopLateObserver(p) PROVE Types'
    BY <2>13 DEF StopLateObserver
  <2>14. ASSUME NEW p \in Procs, ClaimForRegistry(p) PROVE Types'
    BY <2>14 DEF ClaimForRegistry, Cleaning
  <2>15. ASSUME NEW p \in Procs, Check(p) PROVE Types'
    BY <2>15 DEF Check, Cleaning
  <2>16. ASSUME NEW p \in Procs, Kill(p) PROVE Types'
    BY <2>16 DEF Kill, Cleaning
  <2>17. ASSUME NEW p \in Procs, Ended(p) PROVE Types'
    BY <2>17 DEF Ended
  <2>18. ASSUME NEW p \in Procs, CloseProcessScope(p) PROVE Types'
    BY <2>18 DEF CloseProcessScope, Cleaning
  <2>19. ASSUME NEW p \in Procs, StopObserver(p) PROVE Types'
    BY <2>19 DEF StopObserver, Cleaning
  <2>20. ASSUME NEW p \in Procs, Terminate(p) PROVE Types'
    BY <2>20 DEF Terminate, Cleaning
  <2>21. ASSUME NEW p \in Procs, ReleasePermit(p) PROVE Types'
    BY <2>21 DEF ReleasePermit, Cleaning
  <2>22. ASSUME NEW p \in Procs, FailExit(p) PROVE Types'
    BY <2>22 DEF FailExit, Cleaning, Complete
  <2>23. ASSUME NEW p \in Procs, GraceExpires(p) PROVE Types'
    BY <2>23 DEF GraceExpires, Waits
  <2>24. ASSUME NEW p \in Procs, Clear(p) PROVE Types'
    BY <2>24 DEF Clear
  <2>25. ASSUME NEW p \in Procs, CloseTake(p) PROVE Types'
    <3>1. closer' = [closer EXCEPT !.todo = @ \ {p}, !.current = p]
      BY <2>25 DEF CloseTake
    <3>2. closer' \in [active : BOOLEAN, todo : SUBSET Procs, current : Procs \cup {None}]
      BY <3>1
    <3>3. /\ entry' \in [Procs -> {"none", "live", "disposing", "gone"}]
          /\ clean' \in [Procs -> CleanPlaces]
      BY <2>25 DEF CloseTake, Take
    <3>4. UNCHANGED <<pc, child, signalled, permits, closed, origin, observed, answer, snapshots>>
      BY <2>25 DEF CloseTake
    <3> QED
      BY <3>2, <3>3, <3>4
  <2>26. ASSUME NEW p \in Procs, DisposeHandle(p) PROVE Types'
    BY <2>26 DEF DisposeHandle, Take, HasHandle
  <2>27. ASSUME NEW p \in Procs, KillHandle(p) PROVE Types'
    BY <2>27 DEF KillHandle, HasHandle
  <2>28. ASSUME NEW p \in Procs, Die(p) PROVE Types'
    BY <2>28 DEF Die
  <2>29. ASSUME NEW p \in Procs, ExitEvent(p) PROVE Types'
    BY <2>29 DEF ExitEvent
  <2>30. CASE CloseScope
    BY <2>30 DEF CloseScope
  <2>31. CASE CloseScopeDone
    BY <2>31 DEF CloseScopeDone
  <2>32. CASE UNCHANGED vars
    BY <2>32 DEF vars
  <2> QED
    BY <2>1, <2>2, <2>3, <2>4, <2>5, <2>6, <2>7, <2>8, <2>9, <2>10, <2>11, <2>12, <2>13, <2>14, <2>15, <2>16, <2>17, <2>18, <2>19, <2>20, <2>21, <2>22, <2>23, <2>24, <2>25, <2>26, <2>27, <2>28, <2>29, <2>30, <2>31, <2>32, <2>33 DEF Next, Advance, Dispose, Environment, Close
<1> QED
  BY <1>1, <1>2, PTL DEF Spec

\* The life of a process, fiber by fiber.
LEMMA LifeKept == Spec => []LifeInv
<1>1. Init => LifeInv
  BY ProcessAssumption DEF Init, Types, LifeInv, LifeOf, SpawnOf, ObserverOf, DisposalOf, AnswerOf, PermitOf, Places, CleanPlaces, Spawning, Interruptible, Uninterruptible
<1>2. Types /\ LifeInv /\ [Next]_vars => LifeInv'
  <2> SUFFICES ASSUME Types /\ LifeInv, [Next]_vars PROVE LifeInv'
    OBVIOUS
  <2> USE ProcessAssumption DEF Types, LifeInv, LifeOf, SpawnOf, ObserverOf, DisposalOf, AnswerOf, PermitOf, Places, CleanPlaces, Spawning, Interruptible, Uninterruptible, child_, registry
  <2>1. ASSUME NEW p \in Procs, Reserve(p) PROVE LifeInv'
    BY <2>1 DEF Reserve, At
  <2>2. ASSUME NEW p \in Procs, Launch(p) PROVE LifeInv'
    BY <2>2 DEF Launch, At
  <2>3. ASSUME NEW p \in Procs, LaunchFails(p) PROVE LifeInv'
    BY <2>3 DEF LaunchFails, At
  <2>4. ASSUME NEW p \in Procs, Register(p) PROVE LifeInv'
    BY <2>4 DEF Register, At
  <2>33. ASSUME NEW p \in Procs, RegisterFails(p) PROVE LifeInv'
    BY <2>33 DEF RegisterFails, At
  <2>5. ASSUME NEW p \in Procs, Observe(p) PROVE LifeInv'
    BY <2>5 DEF Observe, At, List, Listed
  <2>6. ASSUME NEW p \in Procs, Drop(p) PROVE LifeInv'
    BY <2>6 DEF Drop, At, List, Listed
  <2>7. ASSUME NEW p \in Procs, MarkExited(p) PROVE LifeInv'
    BY <2>7 DEF MarkExited, At
  <2>8. ASSUME NEW p \in Procs, AnswerExit(p) PROVE LifeInv'
    BY <2>8 DEF AnswerExit, At, Complete
  <2>9. ASSUME NEW p \in Procs, ExitUnreadable(p) PROVE LifeInv'
    BY <2>9 DEF ExitUnreadable, At, Complete
  <2>10. ASSUME NEW p \in Procs, ClaimForObserver(p) PROVE LifeInv'
    BY <2>10 DEF ClaimForObserver, At
  <2>11. ASSUME NEW p \in Procs, DisposeOwn(p) PROVE LifeInv'
    BY <2>11 DEF DisposeOwn, At, Take
  <2>12. ASSUME NEW p \in Procs, CloseOwn(p) PROVE LifeInv'
    BY <2>12 DEF CloseOwn, At
  <2>13. ASSUME NEW p \in Procs, StopLateObserver(p) PROVE LifeInv'
    BY <2>13 DEF StopLateObserver
  <2>14. ASSUME NEW p \in Procs, ClaimForRegistry(p) PROVE LifeInv'
    BY <2>14 DEF ClaimForRegistry, Cleaning
  <2>15. ASSUME NEW p \in Procs, Check(p) PROVE LifeInv'
    BY <2>15 DEF Check, Cleaning
  <2>16. ASSUME NEW p \in Procs, Kill(p) PROVE LifeInv'
    BY <2>16 DEF Kill, Cleaning
  <2>17. ASSUME NEW p \in Procs, Ended(p) PROVE LifeInv'
    BY <2>17 DEF Ended
  <2>18. ASSUME NEW p \in Procs, CloseProcessScope(p) PROVE LifeInv'
    BY <2>18 DEF CloseProcessScope, Cleaning
  <2>19. ASSUME NEW p \in Procs, StopObserver(p) PROVE LifeInv'
    BY <2>19 DEF StopObserver, Cleaning
  <2>20. ASSUME NEW p \in Procs, Terminate(p) PROVE LifeInv'
    BY <2>20 DEF Terminate, Cleaning
  <2>21. ASSUME NEW p \in Procs, ReleasePermit(p) PROVE LifeInv'
    BY <2>21 DEF ReleasePermit, Cleaning
  <2>22. ASSUME NEW p \in Procs, FailExit(p) PROVE LifeInv'
    BY <2>22 DEF FailExit, Cleaning, Complete
  <2>23. ASSUME NEW p \in Procs, GraceExpires(p) PROVE LifeInv'
    BY <2>23 DEF GraceExpires, Waits
  <2>24. ASSUME NEW p \in Procs, Clear(p) PROVE LifeInv'
    BY <2>24 DEF Clear
  <2>25. ASSUME NEW p \in Procs, CloseTake(p) PROVE LifeInv'
    BY <2>25 DEF CloseTake, Take, CurrentGone
  <2>26. ASSUME NEW p \in Procs, DisposeHandle(p) PROVE LifeInv'
    BY <2>26 DEF DisposeHandle, Take, HasHandle
  <2>27. ASSUME NEW p \in Procs, KillHandle(p) PROVE LifeInv'
    BY <2>27 DEF KillHandle, HasHandle
  <2>28. ASSUME NEW p \in Procs, Die(p) PROVE LifeInv'
    BY <2>28 DEF Die
  <2>29. ASSUME NEW p \in Procs, ExitEvent(p) PROVE LifeInv'
    BY <2>29 DEF ExitEvent
  <2>30. CASE CloseScope
    BY <2>30 DEF CloseScope
  <2>31. CASE CloseScopeDone
    BY <2>31 DEF CloseScopeDone
  <2>32. CASE UNCHANGED vars
    BY <2>32 DEF vars
  <2> QED
    BY <2>1, <2>2, <2>3, <2>4, <2>5, <2>6, <2>7, <2>8, <2>9, <2>10, <2>11, <2>12, <2>13, <2>14, <2>15, <2>16, <2>17, <2>18, <2>19, <2>20, <2>21, <2>22, <2>23, <2>24, <2>25, <2>26, <2>27, <2>28, <2>29, <2>30, <2>31, <2>32, <2>33 DEF Next, Advance, Dispose, Environment, Close
<1> QED
  BY <1>1, <1>2, TypesCorrect, PTL DEF Spec

-------------------------------------------------------------------------------
(* The bounds *)

\* The list never grows past its bound: what List keeps is what is listed then.
LEMMA ListKeepsBound ==
    ASSUME NEW p \in Procs, Types, IsFiniteSet(Listed), List(p)
    PROVE  IsFiniteSet(Listed') /\ ListBounded'
<1> DEFINE Candidates == Listed \cup {p}
<1>1. IsFiniteSet(Candidates) /\ Cardinality(Candidates) \in Nat
  BY FS_AddElement, FS_CardinalityType
<1>2. Min({MaxSnapshots, Cardinality(Candidates)}) <= MaxSnapshots
  <2> DEFINE c == Cardinality(Candidates)
  <2>1. c \in Nat /\ MaxSnapshots \in Nat
    BY <1>1, ProcessAssumption
  <2>2. \E x \in {MaxSnapshots, c} : \A y \in {MaxSnapshots, c} : x <= y
    BY <2>1
  <2> HIDE DEF c
  <2>3. Min({MaxSnapshots, c}) <= MaxSnapshots
    BY <2>1, <2>2 DEF Min
  <2> QED
    BY <2>3 DEF c
<1>3. PICK kept \in SUBSET Candidates :
        /\ Cardinality(kept) = Min({MaxSnapshots, Cardinality(Candidates)})
        /\ snapshots' = [q \in Procs |-> IF q \notin kept THEN "none"
                                        ELSE IF q = p THEN "running" ELSE snapshots[q]]
  BY DEF List
<1>4. Listed' = kept
  BY <1>3 DEF Listed
<1>5. IsFiniteSet(kept)
  BY <1>1, <1>3, FS_Subset
<1> QED
  BY <1>2, <1>3, <1>4, <1>5 DEF ListBounded

\* A permit given back makes room.
LEMMA PermitsShrink ==
    ASSUME BoundsInv, permits' \subseteq permits
    PROVE  IsFiniteSet(permits') /\ Cardinality(permits') <= MaxConcurrent
<1>1. IsFiniteSet(permits') /\ Cardinality(permits') <= Cardinality(permits)
  BY FS_Subset DEF BoundsInv
<1>2. Cardinality(permits) \in Nat /\ Cardinality(permits') \in Nat
  BY <1>1, FS_CardinalityType DEF BoundsInv
<1> QED
  BY <1>1, <1>2, ProcessAssumption DEF BoundsInv

\* The permits and the list keep within their bounds.
LEMMA BoundsKept == Spec => []BoundsInv
<1>1. Init => BoundsInv
  <2> SUFFICES ASSUME Init PROVE BoundsInv
    OBVIOUS
  <2>1. permits = {} /\ Listed = {}
    BY DEF Init, Listed
  <2> QED
    BY <2>1, FS_EmptySet, ProcessAssumption DEF BoundsInv, ListBounded
<1>2. Types /\ BoundsInv /\ [Next]_vars => BoundsInv'
  <2> SUFFICES ASSUME Types, BoundsInv, [Next]_vars PROVE BoundsInv'
    OBVIOUS
  <2>1. ASSUME Listed' = Listed
        PROVE  IsFiniteSet(Listed') /\ ListBounded'
    BY <2>1 DEF BoundsInv, ListBounded
  <2>2. ASSUME permits' \subseteq permits, Listed' = Listed PROVE BoundsInv'
    BY <2>1, <2>2, PermitsShrink DEF BoundsInv
  <2>3. ASSUME UNCHANGED <<permits, snapshots>> PROVE BoundsInv'
    BY <2>2, <2>3 DEF Listed
  <2>4. ASSUME NEW p \in Procs, Reserve(p) PROVE BoundsInv'
    <3>1. Listed' = Listed
      BY <2>4 DEF Reserve, Listed
    <3>2. Cardinality(permits) \in Nat
      BY FS_CardinalityType DEF BoundsInv
    <3>3. \/ permits' = permits
          \/ Cardinality(permits) < MaxConcurrent /\ permits' = permits \cup {p}
      BY <2>4 DEF Reserve
    <3>4. /\ IsFiniteSet(permits \cup {p})
          /\ Cardinality(permits \cup {p}) <= Cardinality(permits) + 1
      <4>1. IsFiniteSet(permits)
        BY DEF BoundsInv
      <4>2. /\ IsFiniteSet(permits \cup {p})
            /\ Cardinality(permits \cup {p}) =
                IF p \in permits THEN Cardinality(permits) ELSE Cardinality(permits) + 1
        BY <4>1, FS_AddElement, Zenon
      <4> QED
        BY <3>2, <4>2
    <3>5. Cardinality(permits \cup {p}) \in Nat
      BY <3>4, FS_CardinalityType
    <3>6. IsFiniteSet(permits') /\ Cardinality(permits') <= MaxConcurrent
      BY <3>2, <3>3, <3>4, <3>5, ProcessAssumption DEF BoundsInv
    <3> QED
      BY <3>1, <3>6, <2>1 DEF BoundsInv
  <2>5. ASSUME NEW p \in Procs, LaunchFails(p) PROVE BoundsInv'
    BY <2>5, <2>2 DEF LaunchFails, Listed
  <2>6. ASSUME NEW p \in Procs, Observe(p) \/ Drop(p) PROVE BoundsInv'
    <3>1. List(p) /\ permits' = permits
      BY <2>6 DEF Observe, Drop
    <3>2. IsFiniteSet(Listed') /\ ListBounded'
      BY <3>1, ListKeepsBound DEF BoundsInv
    <3> QED
      BY <3>1, <3>2 DEF BoundsInv
  <2>7. ASSUME NEW p \in Procs, MarkExited(p) PROVE BoundsInv'
    <3>1. Listed' = Listed /\ permits' = permits
      BY <2>7 DEF MarkExited, Listed, Types
    <3> QED
      BY <3>1, <2>2
  <2>8. ASSUME NEW p \in Procs, CloseOwn(p) PROVE BoundsInv'
    BY <2>8, <2>2 DEF CloseOwn, Listed
  <2>9. ASSUME NEW p \in Procs, ReleasePermit(p) PROVE BoundsInv'
    BY <2>9, <2>2 DEF ReleasePermit, Listed
  <2>10. ASSUME NEW p \in Procs,
                \/ Launch(p) \/ Register(p) \/ RegisterFails(p) \/ AnswerExit(p)
                \/ ExitUnreadable(p)
                \/ ClaimForObserver(p) \/ DisposeOwn(p) \/ StopLateObserver(p)
         PROVE  BoundsInv'
    BY <2>10, <2>3 DEF Launch, Register, RegisterFails, AnswerExit, ExitUnreadable, ClaimForObserver,
       DisposeOwn, StopLateObserver
  <2>11. ASSUME NEW p \in Procs,
                \/ ClaimForRegistry(p) \/ Check(p) \/ Kill(p) \/ Ended(p)
                \/ CloseProcessScope(p) \/ StopObserver(p) \/ Terminate(p)
                \/ FailExit(p) \/ Clear(p)
         PROVE  BoundsInv'
    BY <2>11, <2>3 DEF ClaimForRegistry, Check, Kill, Ended, CloseProcessScope,
       StopObserver, Terminate, FailExit, Clear
  <2>12. ASSUME NEW p \in Procs,
                \/ DisposeHandle(p) \/ KillHandle(p) \/ Die(p) \/ ExitEvent(p)
                \/ GraceExpires(p) \/ CloseTake(p)
         PROVE  BoundsInv'
    BY <2>12, <2>3 DEF DisposeHandle, KillHandle, Die, ExitEvent, GraceExpires, CloseTake
  <2>13. CASE CloseScope \/ CloseScopeDone
    BY <2>13, <2>3 DEF CloseScope, CloseScopeDone
  <2>14. CASE UNCHANGED vars
    BY <2>14, <2>3 DEF vars
  <2> QED
    BY <2>4, <2>5, <2>6, <2>7, <2>8, <2>9, <2>10, <2>11, <2>12, <2>13, <2>14
       DEF Next, Advance, Dispose, Environment, Close
<1> QED
  BY <1>1, <1>2, TypesCorrect, PTL DEF Spec

-------------------------------------------------------------------------------
(* What follows from the invariants *)

\* Type correctness: all variables keep their shapes, and upsertProcessSnapshot
\* and markProcessExited keep the list within maxSnapshots.
THEOREM TypeCorrect == Spec => []TypeOK
<1>1. Types /\ BoundsInv => TypeOK
  BY DEF Types, BoundsInv, TypeOK
<1> QED
  BY <1>1, TypesCorrect, BoundsKept, PTL

\* No path through spawn, observeChildExit and disposeChild releases the permit of
\* holdScopedExecutionPermit while the child runs.
THEOREM PermitsOutliveChildren == Spec => []ChildrenHoldPermits
<1>1. LifeInv => ChildrenHoldPermits
  BY DEF LifeInv, LifeOf, PermitOf, ChildrenHoldPermits
<1> QED
  BY <1>1, LifeKept, PTL

\* maxConcurrent bounds the children that run, whatever interrupts whatever.
THEOREM BudgetKept == Spec => []RunningWithinBudget
<1>1. Types /\ LifeInv /\ BoundsInv => RunningWithinBudget
  <2> SUFFICES ASSUME Types, LifeInv, BoundsInv PROVE RunningWithinBudget
    OBVIOUS
  <2> DEFINE Running == {p \in Procs : child[p] = "running"}
  <2>1. Running \in SUBSET permits
    BY DEF LifeInv, LifeOf, PermitOf
  <2>2. IsFiniteSet(Running) /\ Cardinality(Running) <= Cardinality(permits)
    BY <2>1, FS_Subset DEF BoundsInv
  <2>3. Cardinality(Running) \in Nat /\ Cardinality(permits) \in Nat
    BY <2>2, FS_CardinalityType DEF BoundsInv
  <2> QED
    BY <2>2, <2>3, ProcessAssumption DEF BoundsInv, RunningWithinBudget
<1> QED
  BY <1>1, TypesCorrect, LifeKept, BoundsKept, PTL

\* A disposal that was not cut off leaves no running child behind.
THEOREM DisposalKills == Spec => []DisposedMeansDead
<1>1. LifeInv => DisposedMeansDead
  BY DEF LifeInv, LifeOf, DisposalOf, DisposedMeansDead
<1> QED
  BY <1>1, LifeKept, PTL

\* exit never reports a status before the exit, nor a cancellation of a child that
\* goes on.
THEOREM ExitTellsTheTruth == Spec => []AnswersAreTrue
<1>1. LifeInv => AnswersAreTrue
  BY DEF LifeInv, LifeOf, AnswerOf, AnswersAreTrue
<1> QED
  BY <1>1, LifeKept, PTL
===============================================================================
