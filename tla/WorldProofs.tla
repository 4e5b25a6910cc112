---------------------------- MODULE WorldProofs -----------------------------
(***************************************************************************)
(* Proofs about World: its type invariant and that a collection has the    *)
(* world stopped, for every set of threads, both numbers of barriers, and  *)
(* whether or not pthread_create may fail.                                 *)
(***************************************************************************)
EXTENDS World, FiniteSetTheorems, TLAPS

Types ==
    /\ pc \in [Threads -> Places]
    /\ op \in [Threads -> Operations]
    /\ round \in [Threads -> 0 .. Barriers]
    /\ child \in [Threads -> Threads \union {NoThread}]
    /\ lock \in Threads \union {NoThread}
    /\ stopTheWorld \in BOOLEAN
    /\ threadCount \in Int
    /\ barrier \in [ct : Int, arrived : SUBSET Threads]
    /\ blockedThreads \in SUBSET Threads
    /\ rootList \in SUBSET Threads
    /\ rootJIT \in SUBSET Threads

\* A thread owns the lock exactly where the code is between the two calls.
LockInv == \A t \in Threads : Owning(t) <=> lock = t

\* Which operations a thread may be in the middle of where it is.
Idle == {"absent", "reserved", "spawning", "failed", "starting", "running",
         "blocked", "freeing", "dead"}

PlaceInv ==
    \A t \in Threads :
        /\ pc[t] \in Idle => op[t] = "none"
        /\ pc[t] \in {"spin", "locked"} =>
             op[t] \in {"collect", "create", "pre", "post", "exit"}
        /\ pc[t] = "unlock" => op[t] \in {"create", "pre", "post", "exit"}
        /\ pc[t] = "spawn" => op[t] = "create"
        /\ pc[t] = "rooted" => op[t] = "collecting"
        /\ pc[t] = "seen" => op[t] \in {"none", "collect", "create", "pre", "exit"}
        /\ pc[t] \in {"arrive", "wait", "passed"} => op[t] # "post" /\ round[t] # 0

\* The thread being created by t belongs to no other, and is not running yet.
ChildInv ==
    \A t \in Threads : op[t] = "create" =>
        /\ child[t] \in Threads
        /\ pc[child[t]] = IF pc[t] \in {"unlock", "spawn"} THEN "spawning" ELSE "reserved"
        /\ \A u \in Threads \ {t} : op[u] = "create" => child[u] # child[t]

\* Before anything used the barrier, Main is alone.
AloneInv ==
    threadCount = -1 =>
        /\ pc[Main] \in {"running", "spin", "locked"}
        /\ op[Main] \in {"none", "collect", "create", "pre"}
        /\ \A t \in Threads \ {Main} : pc[t] \in {"absent", "reserved"}

CountInv ==
    /\ threadCount # -1 => threadCount = Cardinality(Counted)
    /\ threadCount > 0 => barrier.ct = threadCount
    /\ barrier.ct \in -1 .. Cardinality(Threads)

ArrivedInv == \A t \in barrier.arrived : pc[t] = "wait"

InRounds(t) == pc[t] \in {"arrive", "wait", "passed"}

\* t has no more barrier to wait for.
Out(t) == ~InRounds(t) \/ LetGo(t) = Barriers

RoundsInv ==
    /\ \A t \in Threads : ~Out(t) \/ pc[t] = "seen" \/ stopTheWorld =>
         \E c \in Threads : op[c] = "collecting" /\ InRounds(c)
    /\ \A t \in Threads : pc[t] = "seen" => stopTheWorld
    /\ \A c \in Threads : op[c] = "collecting" /\ InRounds(c) =>
         /\ stopTheWorld <=> round[c] = 1
         /\ LetGo(c) = 0 => \A t \in Threads : Out(t) \/ LetGo(t) = 0
         /\ LetGo(c) \in 1 .. Barriers - 1 =>
              \A t \in Counted : InRounds(t) /\ LetGo(t) = LetGo(c)
         /\ LetGo(c) = Barriers => \A t \in Threads : Out(t)

BlockedInv ==
    blockedThreads = {t \in Threads : \/ pc[t] = "blocked"
                                      \/ pc[t] \in {"spin", "locked"} /\ op[t] = "post"
                                      \/ pc[t] = "unlock" /\ op[t] = "pre"}

\* Until a collection ends, its root lists hold the collector, the blocked
\* threads and those that came past the first barrier and pushed their own.
RootsInv ==
    \A c \in Threads : op[c] = "collecting" /\ LetGo(c) # Barriers =>
        rootList = blockedThreads \union {c}
                     \union {t \in Threads : ~Out(t) /\ round[t] >= 2}

IInv == Types /\ LockInv /\ PlaceInv /\ ChildInv /\ AloneInv /\ CountInv
            /\ ArrivedInv /\ RoundsInv /\ BlockedInv /\ RootsInv

-----------------------------------------------------------------------------
(* Sizes of sets of threads: one thread more or less is one more or less.  *)
LEMMA SubsetSize ==
    ASSUME NEW S \in SUBSET Threads
    PROVE  /\ IsFiniteSet(S)
           /\ Cardinality(S) \in 0 .. Cardinality(Threads)
           /\ \A x \in S : Cardinality(S) >= 1 /\ Cardinality(S \ {x}) = Cardinality(S) - 1
           /\ \A x : x \notin S => Cardinality(S \union {x}) = Cardinality(S) + 1
           /\ \A T \in SUBSET S : Cardinality(T) = Cardinality(S) => T = S
<1>1. IsFiniteSet(S) /\ Cardinality(S) \in Nat /\ Cardinality(Threads) \in Nat
        /\ Cardinality(S) <= Cardinality(Threads)
  BY ThreadsAssumption, FS_Subset, FS_CardinalityType
<1>2. ASSUME NEW x \in S
      PROVE  Cardinality(S) >= 1 /\ Cardinality(S \ {x}) = Cardinality(S) - 1
  <2>1. Cardinality(S \ {x}) = Cardinality(S) - 1
    BY <1>1, FS_RemoveElement
  <2>2. Cardinality(S) # 0
    BY <1>1, FS_EmptySet
  <2>3. QED
    BY <1>1, <2>1, <2>2
<1>3. ASSUME NEW x, x \notin S PROVE Cardinality(S \union {x}) = Cardinality(S) + 1
  BY <1>1, <1>3, FS_AddElement
<1>4. ASSUME NEW T \in SUBSET S, Cardinality(T) = Cardinality(S) PROVE T = S
  BY <1>1, <1>4, FS_Subset
<1>5. QED
  BY <1>1, <1>2, <1>3, <1>4

(* Every step keeps the types of the variables.                            *)
LEMMA TypesStep ==
    ASSUME TimeoutIsLock = FALSE, Types, LockInv, PlaceInv, ChildInv, [Next]_vars
    PROVE  Types'
<1>1. CASE UNCHANGED vars
  BY <1>1 DEF vars, Types
<1>2. ASSUME NEW t \in Threads, Choose(t) \/ Continue(t) PROVE Types'
  <2>1. CASE BeginCollect(t)
    BY <2>1 DEF BeginCollect, Begin, shared, lists, Types, Places, Operations
  <2>2. CASE BeginBlocking(t)
    BY <2>2 DEF BeginBlocking, Begin, shared, lists, Types, Places, Operations
  <2>3. CASE BeginExit(t)
    BY <2>3 DEF BeginExit, Begin, shared, lists, Types, Places, Operations
  <2>4. CASE Unblock(t)
    BY <2>4 DEF Unblock, shared, lists, Types, Places, Operations
  <2>5. ASSUME NEW u \in Threads, BeginCreate(t, u) PROVE Types'
    BY <2>5 DEF BeginCreate, shared, lists, Types, Places, Operations
  <2>6. CASE InitRoots(t)
    BY <2>6 DEF InitRoots, Recount, Types, Places, Operations
  <2>7. CASE RaiseStop(t)
    BY <2>7, BarriersAssumption DEF RaiseStop, ArriveNext, lists, Types, Places
  <2>8. CASE LowerStop(t)
    <3>1. pc' \in [Threads -> Places] /\ round' \in [Threads -> 0 .. Barriers]
      BY <2>8, BarriersAssumption DEF LowerStop, ArriveNext, Types, Places
    <3>2. QED
      BY <2>8, <3>1 DEF LowerStop, lists, Types
  <2>9. CASE Collect(t)
    BY <2>9, BarriersAssumption DEF Collect, ArriveNext, shared, lists, Types, Places
  <2>10. CASE Restart(t)
    BY <2>10 DEF Restart, Released, lists, Types, Places, Operations
  <2>11. CASE SeeStop(t)
    BY <2>11 DEF SeeStop, MayYield, LockAvailable, shared, lists, Types, Places
  <2>12. CASE EnterYield(t)
    BY <2>12, BarriersAssumption DEF EnterYield, Resumed, shared, lists, Types, Places
  <2>13. CASE PushRoots(t)
    BY <2>13, BarriersAssumption DEF PushRoots, ArriveNext, Types, Places
  <2>14. CASE AllowCollection(t)
    BY <2>14, BarriersAssumption DEF AllowCollection, ArriveNext, shared, lists, Types, Places
  <2>15. CASE ReturnFromYield(t)
    BY <2>15 DEF ReturnFromYield, Resumed, shared, lists, Types, Places
  <2>16. CASE CountChild(t)
    BY <2>16 DEF CountChild, KnownCount, Recount, lists, Types, Places, ChildInv
  <2>17. CASE CountOutBlocking(t)
    BY <2>17 DEF CountOutBlocking, KnownCount, Recount, Types, Places
  <2>18. CASE CountInBlocking(t)
    BY <2>18 DEF CountInBlocking, Recount, Types, Places
  <2>19. CASE CountOutExit(t)
    BY <2>19 DEF CountOutExit, Recount, lists, Types, Places
  <2>20. CASE Unlock(t)
    BY <2>20 DEF Unlock, AfterUnlock, Released, lists, Types, Places, Operations, PlaceInv
  <2>21. CASE Spawn(t)
    BY <2>21 DEF Spawn, FinishCreate, shared, lists, Types, Places, Operations
  <2>22. CASE SpawnFail(t)
    BY <2>22 DEF SpawnFail, FinishCreate, shared, lists, Types, Places, Operations
  <2>23. CASE Start(t)
    BY <2>23 DEF Start, shared, lists, Types, Places
  <2>24. CASE FreeGeneration(t)
    BY <2>24 DEF FreeGeneration, shared, lists, Types, Places
  <2>25. CASE Arrive(t)
    BY <2>25 DEF Arrive, lists, Types, Places
  <2>26. CASE Pass(t)
    BY <2>26 DEF Pass, Leaving, shared, lists, Types, Places
  <2>27. CASE SweepOwnHeap(t)
    BY <2>27 DEF SweepOwnHeap, ArriveNext, shared, lists, Types, Places
  <2>28. CASE TryLock(t)
    BY <2>28 DEF TryLock, LockAvailable, lists, Types, Places
  <2>29. QED
    BY <1>2, <2>1, <2>2, <2>3, <2>4, <2>5, <2>6, <2>7, <2>8, <2>9, <2>10, <2>11, <2>12, <2>13, <2>14, <2>15, <2>16, <2>17, <2>18, <2>19, <2>20, <2>21, <2>22, <2>23, <2>24, <2>25, <2>26, <2>27, <2>28 DEF Choose, Continue, Collector, Yielder, Counting
<1>3. QED
  BY <1>1, <1>2 DEF Next

(* Every step keeps the lock with the thread that took it.                 *)
LEMMA LockStep ==
    ASSUME TimeoutIsLock = FALSE, Types, LockInv, PlaceInv, ChildInv, [Next]_vars
    PROVE  LockInv'
<1>1. CASE UNCHANGED vars
  BY <1>1 DEF vars, LockInv, Owning
<1>2. ASSUME NEW t \in Threads, Choose(t) \/ Continue(t) PROVE LockInv'
  <2>1. CASE BeginCollect(t)
    BY <2>1 DEF BeginCollect, Begin, shared, LockInv, PlaceInv, Owning, Idle
  <2>2. CASE BeginBlocking(t)
    BY <2>2 DEF BeginBlocking, Begin, shared, LockInv, PlaceInv, Owning, Idle
  <2>3. CASE BeginExit(t)
    BY <2>3 DEF BeginExit, Begin, shared, LockInv, PlaceInv, Owning, Idle
  <2>4. CASE Unblock(t)
    BY <2>4 DEF Unblock, shared, LockInv, PlaceInv, Owning, Idle
  <2>5. ASSUME NEW u \in Threads, BeginCreate(t, u) PROVE LockInv'
    BY <2>5 DEF BeginCreate, shared, Types, LockInv, PlaceInv, Owning, Idle
  <2>6. CASE InitRoots(t)
    BY <2>6 DEF InitRoots, Recount, LockInv, Owning
  <2>7. CASE RaiseStop(t)
    BY <2>7 DEF RaiseStop, ArriveNext, LockInv, PlaceInv, Owning
  <2>8. CASE LowerStop(t)
    BY <2>8 DEF LowerStop, ArriveNext, LockInv, Owning
  <2>9. CASE Collect(t)
    BY <2>9 DEF Collect, ArriveNext, shared, LockInv, Owning
  <2>10. CASE Restart(t)
    BY <2>10, NoThreadAssumption DEF Restart, Released, Types, LockInv, Owning
  <2>11. CASE SeeStop(t)
    BY <2>11 DEF SeeStop, MayYield, LockAvailable, shared, LockInv, Owning
  <2>12. CASE EnterYield(t)
    BY <2>12 DEF EnterYield, Resumed, shared, Types, LockInv, Owning
  <2>13. CASE PushRoots(t)
    BY <2>13 DEF PushRoots, ArriveNext, LockInv, Owning
  <2>14. CASE AllowCollection(t)
    BY <2>14 DEF AllowCollection, ArriveNext, shared, LockInv, Owning
  <2>15. CASE ReturnFromYield(t)
    BY <2>15 DEF ReturnFromYield, Resumed, shared, LockInv, Owning
  <2>16. CASE CountChild(t)
    BY <2>16 DEF CountChild, KnownCount, Recount, Types, LockInv, Owning
  <2>17. CASE CountOutBlocking(t)
    BY <2>17 DEF CountOutBlocking, KnownCount, Recount, LockInv, Owning
  <2>18. CASE CountInBlocking(t)
    BY <2>18 DEF CountInBlocking, Recount, LockInv, Owning
  <2>19. CASE CountOutExit(t)
    BY <2>19 DEF CountOutExit, Recount, LockInv, Owning
  <2>20. CASE Unlock(t)
    BY <2>20, NoThreadAssumption DEF Unlock, AfterUnlock, Released, Types, LockInv, PlaceInv, Owning
  <2>21. CASE Spawn(t)
    BY <2>21 DEF Spawn, FinishCreate, shared, Types, LockInv, PlaceInv, Owning, ChildInv
  <2>22. CASE SpawnFail(t)
    BY <2>22 DEF SpawnFail, FinishCreate, shared, Types, LockInv, PlaceInv, Owning, ChildInv
  <2>23. CASE Start(t)
    BY <2>23 DEF Start, shared, LockInv, Owning
  <2>24. CASE FreeGeneration(t)
    BY <2>24 DEF FreeGeneration, shared, LockInv, Owning
  <2>25. CASE Arrive(t)
    BY <2>25 DEF Arrive, LockInv, Owning
  <2>26. CASE Pass(t)
    BY <2>26 DEF Pass, Leaving, shared, LockInv, Owning
  <2>27. CASE SweepOwnHeap(t)
    BY <2>27 DEF SweepOwnHeap, ArriveNext, shared, LockInv, Owning
  <2>28. CASE TryLock(t)
    BY <2>28, NoThreadAssumption DEF TryLock, LockAvailable, Types, LockInv, Owning
  <2>29. QED
    BY <1>2, <2>1, <2>2, <2>3, <2>4, <2>5, <2>6, <2>7, <2>8, <2>9, <2>10, <2>11, <2>12, <2>13, <2>14, <2>15, <2>16, <2>17, <2>18, <2>19, <2>20, <2>21, <2>22, <2>23, <2>24, <2>25, <2>26, <2>27, <2>28 DEF Choose, Continue, Collector, Yielder, Counting
<1>3. QED
  BY <1>1, <1>2 DEF Next

(* Every step keeps places and operations in agreement.                    *)
LEMMA PlaceStep ==
    ASSUME TimeoutIsLock = FALSE, Types, LockInv, PlaceInv, ChildInv, [Next]_vars
    PROVE  PlaceInv'
<1>1. CASE UNCHANGED vars
  BY <1>1 DEF vars, PlaceInv
<1>2. ASSUME NEW t \in Threads, Choose(t) \/ Continue(t) PROVE PlaceInv'
  <2>1. CASE BeginCollect(t)
    BY <2>1 DEF BeginCollect, Begin, Types, PlaceInv, Idle
  <2>2. CASE BeginBlocking(t)
    BY <2>2 DEF BeginBlocking, Begin, Types, PlaceInv, Idle
  <2>3. CASE BeginExit(t)
    BY <2>3 DEF BeginExit, Begin, Types, PlaceInv, Idle
  <2>4. CASE Unblock(t)
    BY <2>4 DEF Unblock, Types, PlaceInv, Idle
  <2>5. ASSUME NEW u \in Threads, BeginCreate(t, u) PROVE PlaceInv'
    BY <2>5 DEF BeginCreate, Types, PlaceInv, Idle
  <2>6. CASE InitRoots(t)
    BY <2>6 DEF InitRoots, Recount, Types, PlaceInv, Idle
  <2>7. CASE RaiseStop(t)
    BY <2>7 DEF RaiseStop, ArriveNext, Types, PlaceInv, Idle
  <2>8. CASE LowerStop(t)
    BY <2>8 DEF LowerStop, ArriveNext, PlaceInv, Idle
  <2>9. CASE Collect(t)
    BY <2>9 DEF Collect, ArriveNext, PlaceInv, Idle
  <2>10. CASE Restart(t)
    BY <2>10 DEF Restart, Released, Types, PlaceInv
  <2>11. CASE SeeStop(t)
    BY <2>11 DEF SeeStop, MayYield, LockAvailable, PlaceInv, Idle
  <2>12. CASE EnterYield(t)
    BY <2>12 DEF EnterYield, Resumed, Types, PlaceInv, Idle
  <2>13. CASE PushRoots(t)
    BY <2>13 DEF PushRoots, ArriveNext, PlaceInv, Idle
  <2>14. CASE AllowCollection(t)
    BY <2>14 DEF AllowCollection, ArriveNext, PlaceInv, Idle
  <2>15. CASE ReturnFromYield(t)
    BY <2>15 DEF ReturnFromYield, Resumed, Types, Operations, PlaceInv, Idle
  <2>16. CASE CountChild(t)
    BY <2>16 DEF CountChild, KnownCount, Recount, Types, PlaceInv, Idle, ChildInv
  <2>17. CASE CountOutBlocking(t)
    BY <2>17 DEF CountOutBlocking, KnownCount, Recount, PlaceInv, Idle
  <2>18. CASE CountInBlocking(t)
    BY <2>18 DEF CountInBlocking, Recount, PlaceInv, Idle
  <2>19. CASE CountOutExit(t)
    BY <2>19 DEF CountOutExit, Recount, PlaceInv, Idle
  <2>20. CASE Unlock(t)
    BY <2>20 DEF Unlock, AfterUnlock, Released, Types, PlaceInv, Idle
  <2>21. CASE Spawn(t)
    BY <2>21 DEF Spawn, FinishCreate, Types, PlaceInv, Idle, ChildInv
  <2>22. CASE SpawnFail(t)
    BY <2>22 DEF SpawnFail, FinishCreate, Types, PlaceInv, Idle, ChildInv
  <2>23. CASE Start(t)
    BY <2>23 DEF Start, PlaceInv, Idle
  <2>24. CASE FreeGeneration(t)
    BY <2>24 DEF FreeGeneration, PlaceInv, Idle
  <2>25. CASE Arrive(t)
    BY <2>25 DEF Arrive, PlaceInv, Idle
  <2>26. CASE Pass(t)
    BY <2>26 DEF Pass, Leaving, PlaceInv, Idle
  <2>27. CASE SweepOwnHeap(t)
    BY <2>27 DEF SweepOwnHeap, ArriveNext, PlaceInv, Idle
  <2>28. CASE TryLock(t)
    BY <2>28 DEF TryLock, LockAvailable, PlaceInv, Idle
  <2>29. QED
    BY <1>2, <2>1, <2>2, <2>3, <2>4, <2>5, <2>6, <2>7, <2>8, <2>9, <2>10, <2>11, <2>12, <2>13, <2>14, <2>15, <2>16, <2>17, <2>18, <2>19, <2>20, <2>21, <2>22, <2>23, <2>24, <2>25, <2>26, <2>27, <2>28 DEF Choose, Continue, Collector, Yielder, Counting
<1>3. QED
  BY <1>1, <1>2 DEF Next

(* Every step keeps a thread under creation with its one creator.          *)
LEMMA ChildStep ==
    ASSUME TimeoutIsLock = FALSE, Types, LockInv, PlaceInv, ChildInv, [Next]_vars
    PROVE  ChildInv'
<1>1. CASE UNCHANGED vars
  BY <1>1 DEF vars, ChildInv
<1>2. ASSUME NEW t \in Threads, Choose(t) \/ Continue(t) PROVE ChildInv'
  <2>1. CASE BeginCollect(t)
    BY <2>1 DEF BeginCollect, Begin, ChildInv
  <2>2. CASE BeginBlocking(t)
    BY <2>2 DEF BeginBlocking, Begin, ChildInv
  <2>3. CASE BeginExit(t)
    BY <2>3 DEF BeginExit, Begin, ChildInv
  <2>4. CASE Unblock(t)
    BY <2>4 DEF Unblock, ChildInv
  <2>5. ASSUME NEW u \in Threads, BeginCreate(t, u) PROVE ChildInv'
    BY <2>5 DEF BeginCreate, Types, ChildInv
  <2>6. CASE InitRoots(t)
    BY <2>6 DEF InitRoots, Recount, ChildInv
  <2>7. CASE RaiseStop(t)
    BY <2>7 DEF RaiseStop, ArriveNext, ChildInv
  <2>8. CASE LowerStop(t)
    BY <2>8 DEF LowerStop, ArriveNext, ChildInv
  <2>9. CASE Collect(t)
    BY <2>9 DEF Collect, ArriveNext, ChildInv
  <2>10. CASE Restart(t)
    BY <2>10 DEF Restart, Released, ChildInv
  <2>11. CASE SeeStop(t)
    BY <2>11 DEF SeeStop, MayYield, LockAvailable, ChildInv
  <2>12. CASE EnterYield(t)
    BY <2>12 DEF EnterYield, Resumed, Types, ChildInv
  <2>13. CASE PushRoots(t)
    BY <2>13 DEF PushRoots, ArriveNext, ChildInv
  <2>14. CASE AllowCollection(t)
    BY <2>14 DEF AllowCollection, ArriveNext, ChildInv
  <2>15. CASE ReturnFromYield(t)
    BY <2>15 DEF ReturnFromYield, Resumed, ChildInv
  <2>16. CASE CountChild(t)
    BY <2>16 DEF CountChild, KnownCount, Recount, Types, ChildInv
  <2>17. CASE CountOutBlocking(t)
    BY <2>17 DEF CountOutBlocking, KnownCount, Recount, ChildInv
  <2>18. CASE CountInBlocking(t)
    BY <2>18 DEF CountInBlocking, Recount, ChildInv
  <2>19. CASE CountOutExit(t)
    BY <2>19 DEF CountOutExit, Recount, ChildInv
  <2>20. CASE Unlock(t)
    BY <2>20 DEF Unlock, AfterUnlock, Released, ChildInv
  <2>21. CASE Spawn(t)
    BY <2>21 DEF Spawn, FinishCreate, Types, PlaceInv, ChildInv
  <2>22. CASE SpawnFail(t)
    BY <2>22 DEF SpawnFail, FinishCreate, Types, PlaceInv, ChildInv
  <2>23. CASE Start(t)
    BY <2>23 DEF Start, ChildInv
  <2>24. CASE FreeGeneration(t)
    BY <2>24 DEF FreeGeneration, ChildInv
  <2>25. CASE Arrive(t)
    BY <2>25 DEF Arrive, ChildInv
  <2>26. CASE Pass(t)
    BY <2>26 DEF Pass, Leaving, ChildInv
  <2>27. CASE SweepOwnHeap(t)
    BY <2>27 DEF SweepOwnHeap, ArriveNext, ChildInv
  <2>28. CASE TryLock(t)
    BY <2>28 DEF TryLock, LockAvailable, ChildInv
  <2>29. QED
    BY <1>2, <2>1, <2>2, <2>3, <2>4, <2>5, <2>6, <2>7, <2>8, <2>9, <2>10, <2>11, <2>12, <2>13, <2>14, <2>15, <2>16, <2>17, <2>18, <2>19, <2>20, <2>21, <2>22, <2>23, <2>24, <2>25, <2>26, <2>27, <2>28 DEF Choose, Continue, Collector, Yielder, Counting
<1>3. QED
  BY <1>1, <1>2 DEF Next

(* Until the barrier is first made, Main stays alone.                      *)
LEMMA AloneStep ==
    ASSUME TimeoutIsLock = FALSE, Types, LockInv, PlaceInv, ChildInv, AloneInv, CountInv, RoundsInv, [Next]_vars
    PROVE  AloneInv'
<1>1. CASE UNCHANGED vars
  BY <1>1 DEF vars, AloneInv
<1>2. ASSUME NEW t \in Threads, Choose(t) \/ Continue(t) PROVE AloneInv'
  <2>1. CASE BeginCollect(t)
    BY <2>1 DEF BeginCollect, Begin, shared, AloneInv
  <2>2. CASE BeginBlocking(t)
    BY <2>2 DEF BeginBlocking, Begin, shared, AloneInv
  <2>3. CASE BeginExit(t)
    BY <2>3 DEF BeginExit, Begin, shared, AloneInv
  <2>4. CASE Unblock(t)
    BY <2>4 DEF Unblock, shared, AloneInv
  <2>5. ASSUME NEW u \in Threads, BeginCreate(t, u) PROVE AloneInv'
    BY <2>5 DEF BeginCreate, shared, Types, AloneInv
  <2>6. CASE InitRoots(t)
    BY <2>6 DEF InitRoots, Recount, AloneInv
  <2>7. CASE RaiseStop(t)
    BY <2>7 DEF RaiseStop, ArriveNext, AloneInv
  <2>8. CASE LowerStop(t)
    BY <2>8 DEF LowerStop, ArriveNext, AloneInv
  <2>9. CASE Collect(t)
    BY <2>9 DEF Collect, ArriveNext, shared, AloneInv
  <2>10. CASE Restart(t)
    BY <2>10 DEF Restart, Released, AloneInv
  <2>11. CASE SeeStop(t)
    BY <2>11 DEF SeeStop, MayYield, LockAvailable, shared, PlaceInv, Idle, AloneInv, RoundsInv
  <2>12. CASE EnterYield(t)
    BY <2>12 DEF EnterYield, Resumed, shared, AloneInv
  <2>13. CASE PushRoots(t)
    BY <2>13 DEF PushRoots, ArriveNext, AloneInv
  <2>14. CASE AllowCollection(t)
    BY <2>14 DEF AllowCollection, ArriveNext, shared, AloneInv
  <2>15. CASE ReturnFromYield(t)
    BY <2>15 DEF ReturnFromYield, Resumed, shared, AloneInv
  <2>16. CASE CountChild(t)
    <3>1. t \in Counted /\ Counted \in SUBSET Threads
      BY <2>16 DEF CountChild, Counted, Uncounted
    <3>2. Cardinality(Counted) >= 1
      BY <3>1, SubsetSize
    <3>3. QED
      BY <2>16, <3>2 DEF CountChild, Types, AloneInv, CountInv, Recount, KnownCount
  <2>17. CASE CountOutBlocking(t)
    <3>1. t \in Counted /\ Counted \in SUBSET Threads
      BY <2>17 DEF CountOutBlocking, Counted, Uncounted
    <3>2. Cardinality(Counted) >= 1
      BY <3>1, SubsetSize
    <3>3. QED
      BY <2>17, <3>2 DEF CountOutBlocking, AloneInv, CountInv, Recount, KnownCount
  <2>18. CASE CountInBlocking(t)
    <3>1. threadCount # -1
      BY <2>18 DEF CountInBlocking, AloneInv
    <3>2. threadCount >= 0
      BY <3>1, SubsetSize DEF CountInv, Counted
    <3>3. QED
      BY <2>18, <3>2 DEF CountInBlocking, Types, AloneInv, Recount, KnownCount
  <2>19. CASE CountOutExit(t)
    <3>1. t \in Counted /\ Counted \in SUBSET Threads
      BY <2>19 DEF CountOutExit, Counted, Uncounted
    <3>2. Cardinality(Counted) >= 1
      BY <3>1, SubsetSize
    <3>3. QED
      BY <2>19, <3>2 DEF CountOutExit, Types, AloneInv, CountInv, Recount, KnownCount
  <2>20. CASE Unlock(t)
    BY <2>20 DEF Unlock, AfterUnlock, Released, AloneInv
  <2>21. CASE Spawn(t)
    BY <2>21 DEF Spawn, FinishCreate, shared, AloneInv
  <2>22. CASE SpawnFail(t)
    BY <2>22 DEF SpawnFail, FinishCreate, shared, AloneInv
  <2>23. CASE Start(t)
    BY <2>23 DEF Start, shared, AloneInv
  <2>24. CASE FreeGeneration(t)
    BY <2>24 DEF FreeGeneration, shared, AloneInv
  <2>25. CASE Arrive(t)
    BY <2>25 DEF Arrive, AloneInv
  <2>26. CASE Pass(t)
    BY <2>26 DEF Pass, Leaving, shared, AloneInv
  <2>27. CASE SweepOwnHeap(t)
    BY <2>27 DEF SweepOwnHeap, ArriveNext, shared, AloneInv
  <2>28. CASE TryLock(t)
    BY <2>28 DEF TryLock, LockAvailable, AloneInv
  <2>29. QED
    BY <1>2, <2>1, <2>2, <2>3, <2>4, <2>5, <2>6, <2>7, <2>8, <2>9, <2>10, <2>11, <2>12, <2>13, <2>14, <2>15, <2>16, <2>17, <2>18, <2>19, <2>20, <2>21, <2>22, <2>23, <2>24, <2>25, <2>26, <2>27, <2>28 DEF Choose, Continue, Collector, Yielder, Counting
<1>3. QED
  BY <1>1, <1>2 DEF Next

(* Only threads at the barrier are in it.                                  *)
LEMMA ArrivedStep ==
    ASSUME TimeoutIsLock = FALSE, Types, PlaceInv, ChildInv, ArrivedInv, [Next]_vars
    PROVE  ArrivedInv'
<1>1. CASE UNCHANGED vars
  BY <1>1 DEF vars, ArrivedInv
<1>2. ASSUME NEW t \in Threads, Choose(t) \/ Continue(t) PROVE ArrivedInv'
  <2>1. CASE BeginCollect(t)
    BY <2>1 DEF BeginCollect, Begin, shared, ArrivedInv
  <2>2. CASE BeginBlocking(t)
    BY <2>2 DEF BeginBlocking, Begin, shared, ArrivedInv
  <2>3. CASE BeginExit(t)
    BY <2>3 DEF BeginExit, Begin, shared, ArrivedInv
  <2>4. CASE Unblock(t)
    BY <2>4 DEF Unblock, shared, ArrivedInv
  <2>5. ASSUME NEW u \in Threads, BeginCreate(t, u) PROVE ArrivedInv'
    BY <2>5 DEF BeginCreate, shared, Types, ArrivedInv
  <2>6. CASE InitRoots(t)
    BY <2>6 DEF InitRoots, Recount, ArrivedInv
  <2>7. CASE RaiseStop(t)
    BY <2>7 DEF RaiseStop, ArriveNext, ArrivedInv
  <2>8. CASE LowerStop(t)
    BY <2>8 DEF LowerStop, ArriveNext, ArrivedInv
  <2>9. CASE Collect(t)
    BY <2>9 DEF Collect, ArriveNext, shared, ArrivedInv
  <2>10. CASE Restart(t)
    BY <2>10 DEF Restart, Released, ArrivedInv
  <2>11. CASE SeeStop(t)
    BY <2>11 DEF SeeStop, MayYield, LockAvailable, shared, ArrivedInv
  <2>12. CASE EnterYield(t)
    BY <2>12 DEF EnterYield, Resumed, shared, Types, ArrivedInv
  <2>13. CASE PushRoots(t)
    BY <2>13 DEF PushRoots, ArriveNext, ArrivedInv
  <2>14. CASE AllowCollection(t)
    BY <2>14 DEF AllowCollection, ArriveNext, shared, ArrivedInv
  <2>15. CASE ReturnFromYield(t)
    BY <2>15 DEF ReturnFromYield, Resumed, shared, ArrivedInv
  <2>16. CASE CountChild(t)
    BY <2>16 DEF CountChild, KnownCount, Recount, Types, ArrivedInv
  <2>17. CASE CountOutBlocking(t)
    BY <2>17 DEF CountOutBlocking, KnownCount, Recount, ArrivedInv
  <2>18. CASE CountInBlocking(t)
    BY <2>18 DEF CountInBlocking, Recount, ArrivedInv
  <2>19. CASE CountOutExit(t)
    BY <2>19 DEF CountOutExit, Recount, ArrivedInv
  <2>20. CASE Unlock(t)
    BY <2>20 DEF Unlock, AfterUnlock, Released, ArrivedInv
  <2>21. CASE Spawn(t)
    BY <2>21 DEF Spawn, FinishCreate, shared, Types, PlaceInv, ChildInv, ArrivedInv
  <2>22. CASE SpawnFail(t)
    BY <2>22 DEF SpawnFail, FinishCreate, shared, Types, PlaceInv, ChildInv, ArrivedInv
  <2>23. CASE Start(t)
    BY <2>23 DEF Start, shared, ArrivedInv
  <2>24. CASE FreeGeneration(t)
    BY <2>24 DEF FreeGeneration, shared, ArrivedInv
  <2>25. CASE Arrive(t)
    BY <2>25 DEF Arrive, Types, ArrivedInv
  <2>26. CASE Pass(t)
    BY <2>26 DEF Pass, Leaving, shared, ArrivedInv
  <2>27. CASE SweepOwnHeap(t)
    BY <2>27 DEF SweepOwnHeap, ArriveNext, shared, ArrivedInv
  <2>28. CASE TryLock(t)
    BY <2>28 DEF TryLock, LockAvailable, ArrivedInv
  <2>29. QED
    BY <1>2, <2>1, <2>2, <2>3, <2>4, <2>5, <2>6, <2>7, <2>8, <2>9, <2>10, <2>11, <2>12, <2>13, <2>14, <2>15, <2>16, <2>17, <2>18, <2>19, <2>20, <2>21, <2>22, <2>23, <2>24, <2>25, <2>26, <2>27, <2>28 DEF Choose, Continue, Collector, Yielder, Counting
<1>3. QED
  BY <1>1, <1>2 DEF Next

(* What each recount does to the set of counted threads.                   *)
LEMMA CountedStep ==
    ASSUME TimeoutIsLock = FALSE, Types, LockInv, PlaceInv, ChildInv, NEW t \in Threads
    PROVE  /\ CountChild(t) => child[t] \in Threads \ Counted /\ Counted' = Counted \union {child[t]}
           /\ CountOutBlocking(t) => t \in Counted /\ Counted' = Counted \ {t}
           /\ CountOutExit(t) => t \in Counted /\ Counted' = Counted \ {t}
           /\ CountInBlocking(t) => t \in Threads \ Counted /\ Counted' = Counted \union {t}

<1>1. ASSUME CountChild(t) PROVE child[t] \in Threads \ Counted /\ Counted' = Counted \union {child[t]}
  BY <1>1 DEF CountChild, Types, ChildInv, Counted, Uncounted
<1>2. ASSUME CountOutBlocking(t) PROVE t \in Counted /\ Counted' = Counted \ {t}
  BY <1>2 DEF CountOutBlocking, Types, Counted, Uncounted
<1>3. ASSUME CountOutExit(t) PROVE t \in Counted /\ Counted' = Counted \ {t}
  BY <1>3 DEF CountOutExit, Types, Counted, Uncounted
<1>4. ASSUME CountInBlocking(t) PROVE t \in Threads \ Counted /\ Counted' = Counted \union {t}
  BY <1>4 DEF CountInBlocking, Types, Counted, Uncounted
<1>5. QED
  BY <1>1, <1>2, <1>3, <1>4

\* The steps that change the count of threads.
CountStep(t) == CountChild(t) \/ CountOutBlocking(t) \/ CountInBlocking(t) \/ CountOutExit(t) \/ InitRoots(t)

QuietStep ==
    /\ Counted' = Counted
    /\ threadCount' = threadCount
    /\ barrier'.ct = barrier.ct

(* No other step changes the count, or who is counted.                     *)
LEMMA CountStepOrQuiet ==
    ASSUME TimeoutIsLock = FALSE, Types, LockInv, PlaceInv, ChildInv, [Next]_vars
    PROVE  QuietStep \/ \E u \in Threads : CountStep(u)
<1>1. CASE UNCHANGED vars
  BY <1>1 DEF vars, Counted, Uncounted, QuietStep
<1>2. ASSUME NEW t \in Threads, Choose(t) \/ Continue(t) PROVE QuietStep \/ \E u \in Threads : CountStep(u)
  <2>1. CASE BeginCollect(t)
    BY <2>1 DEF BeginCollect, Begin, shared, Types, Counted, Uncounted, QuietStep
  <2>2. CASE BeginBlocking(t)
    BY <2>2 DEF BeginBlocking, Begin, shared, Types, Counted, Uncounted, QuietStep
  <2>3. CASE BeginExit(t)
    BY <2>3 DEF BeginExit, Begin, shared, Types, Counted, Uncounted, QuietStep
  <2>4. CASE Unblock(t)
    BY <2>4 DEF Unblock, shared, Types, Counted, Uncounted, QuietStep
  <2>5. ASSUME NEW u \in Threads, BeginCreate(t, u) PROVE QuietStep \/ \E v \in Threads : CountStep(v)
    BY <2>5 DEF BeginCreate, shared, Types, Counted, Uncounted, QuietStep
  <2>6. CASE InitRoots(t)
    BY <2>6 DEF CountStep
  <2>7. CASE RaiseStop(t)
    BY <2>7 DEF RaiseStop, ArriveNext, Counted, Uncounted, QuietStep
  <2>8. CASE LowerStop(t)
    BY <2>8 DEF LowerStop, ArriveNext, Counted, Uncounted, QuietStep
  <2>9. CASE Collect(t)
    BY <2>9 DEF Collect, ArriveNext, shared, Counted, Uncounted, QuietStep
  <2>10. CASE Restart(t)
    BY <2>10 DEF Restart, Released, Counted, Uncounted, QuietStep
  <2>11. CASE SeeStop(t)
    BY <2>11 DEF SeeStop, MayYield, LockAvailable, shared, Counted, Uncounted, QuietStep
  <2>12. CASE EnterYield(t)
    BY <2>12 DEF EnterYield, Resumed, shared, Types, PlaceInv, Counted, Uncounted, QuietStep
  <2>13. CASE PushRoots(t)
    BY <2>13 DEF PushRoots, ArriveNext, Counted, Uncounted, QuietStep
  <2>14. CASE AllowCollection(t)
    BY <2>14 DEF AllowCollection, ArriveNext, shared, Counted, Uncounted, QuietStep
  <2>15. CASE ReturnFromYield(t)
    BY <2>15 DEF ReturnFromYield, Resumed, shared, PlaceInv, Counted, Uncounted, QuietStep
  <2>16. CASE CountChild(t)
    BY <2>16 DEF CountStep
  <2>17. CASE CountOutBlocking(t)
    BY <2>17 DEF CountStep
  <2>18. CASE CountInBlocking(t)
    BY <2>18 DEF CountStep
  <2>19. CASE CountOutExit(t)
    BY <2>19 DEF CountStep
  <2>20. CASE Unlock(t)
    BY <2>20 DEF Unlock, AfterUnlock, Released, Types, PlaceInv, Counted, Uncounted, QuietStep
  <2>21. CASE Spawn(t)
    BY <2>21 DEF Spawn, FinishCreate, shared, Types, PlaceInv, ChildInv, Counted, Uncounted, QuietStep
  <2>22. CASE SpawnFail(t)
    BY <2>22 DEF SpawnFail, FinishCreate, shared, Types, PlaceInv, ChildInv, Counted, Uncounted, QuietStep
  <2>23. CASE Start(t)
    BY <2>23 DEF Start, shared, Counted, Uncounted, QuietStep
  <2>24. CASE FreeGeneration(t)
    BY <2>24 DEF FreeGeneration, shared, Counted, Uncounted, QuietStep
  <2>25. CASE Arrive(t)
    BY <2>25 DEF Arrive, Counted, Uncounted, QuietStep
  <2>26. CASE Pass(t)
    BY <2>26 DEF Pass, Leaving, shared, Counted, Uncounted, QuietStep
  <2>27. CASE SweepOwnHeap(t)
    BY <2>27 DEF SweepOwnHeap, ArriveNext, shared, Counted, Uncounted, QuietStep
  <2>28. CASE TryLock(t)
    BY <2>28 DEF TryLock, LockAvailable, Counted, Uncounted, QuietStep
  <2>29. QED
    BY <1>2, <2>1, <2>2, <2>3, <2>4, <2>5, <2>6, <2>7, <2>8, <2>9, <2>10, <2>11, <2>12, <2>13, <2>14, <2>15, <2>16, <2>17, <2>18, <2>19, <2>20, <2>21, <2>22, <2>23, <2>24, <2>25, <2>26, <2>27, <2>28 DEF Choose, Continue, Collector, Yielder, Counting
<1>3. QED
  BY <1>1, <1>2 DEF Next

(* Every step keeps the count equal to the number of counted threads.      *)
LEMMA CountInvStep ==
    ASSUME TimeoutIsLock = FALSE, Types, LockInv, PlaceInv, ChildInv, AloneInv, CountInv, [Next]_vars
    PROVE  CountInv'
<1> USE DEF Types
<1> Counted \in SUBSET Threads
  BY DEF Counted
<1>1. CASE QuietStep
  BY <1>1 DEF QuietStep, CountInv
<1>2. ASSUME NEW t \in Threads, CountStep(t) PROVE CountInv'
  <2>1. Cardinality(Counted) \in 0 .. Cardinality(Threads) /\ Cardinality(Threads) \in Nat
    BY SubsetSize, FS_CardinalityType, ThreadsAssumption
  <2>2. threadCount = -1 => Counted = {Main}
    BY MainAssumption DEF AloneInv, Counted, Uncounted
  <2>3. Cardinality(Counted) = KnownCount
    BY <2>2, FS_Singleton DEF KnownCount, CountInv
  <2>4. CASE CountChild(t)
    <3>1. child[t] \in Threads \ Counted /\ Counted' = Counted \union {child[t]}
      BY <2>4, CountedStep
    <3>2. Cardinality(Counted') = Cardinality(Counted) + 1
      BY <3>1, SubsetSize
    <3>3. Cardinality(Counted') \in 0 .. Cardinality(Threads)
      BY <3>1, SubsetSize
    <3>4. QED
      BY <2>1, <2>3, <2>4, <3>2, <3>3 DEF CountChild, Recount, CountInv, KnownCount
  <2>5. CASE CountOutBlocking(t)
    <3>1. t \in Counted /\ Counted' = Counted \ {t}
      BY <2>5, CountedStep
    <3>2. Cardinality(Counted') = Cardinality(Counted) - 1
      BY <3>1, SubsetSize
    <3>3. Cardinality(Counted') \in 0 .. Cardinality(Threads)
      BY <3>1, SubsetSize
    <3>4. QED
      BY <2>1, <2>3, <2>5, <3>2, <3>3 DEF CountOutBlocking, Recount, CountInv, KnownCount
  <2>6. CASE CountOutExit(t)
    <3>1. t \in Counted /\ Counted' = Counted \ {t}
      BY <2>6, CountedStep
    <3>2. Cardinality(Counted') = Cardinality(Counted) - 1
      BY <3>1, SubsetSize
    <3>3. Cardinality(Counted') \in 0 .. Cardinality(Threads)
      BY <3>1, SubsetSize
    <3>4. threadCount # -1
      BY <2>6 DEF CountOutExit, AloneInv
    <3>5. QED
      BY <2>1, <2>3, <2>6, <3>2, <3>3, <3>4 DEF CountOutExit, Recount, CountInv, KnownCount
  <2>7. CASE CountInBlocking(t)
    <3>1. t \in Threads \ Counted /\ Counted' = Counted \union {t}
      BY <2>7, CountedStep
    <3>2. Cardinality(Counted') = Cardinality(Counted) + 1
      BY <3>1, SubsetSize
    <3>3. Cardinality(Counted') \in 0 .. Cardinality(Threads)
      BY <3>1, SubsetSize
    <3>4. threadCount # -1
      BY <2>7 DEF CountInBlocking, AloneInv
    <3>5. QED
      BY <2>1, <2>3, <2>7, <3>2, <3>3, <3>4 DEF CountInBlocking, Recount, CountInv, KnownCount
  <2>8. CASE InitRoots(t)
    <3>1. Counted' = Counted
      BY <2>8 DEF InitRoots, Counted, Uncounted
    <3>2. t \in Counted
      BY <2>8 DEF InitRoots, Counted, Uncounted
    <3>3. Cardinality(Counted) >= 1
      BY <3>2, SubsetSize
    <3>4. QED
      BY <2>1, <2>3, <2>8, <3>1, <3>3 DEF InitRoots, Recount, CountInv, KnownCount
  <2>9. QED
    BY <1>2, <2>4, <2>5, <2>6, <2>7, <2>8 DEF CountStep
<1>3. QED
  BY <1>1, <1>2, CountStepOrQuiet

(* The barrier opens only when every counted thread is in it.              *)
LEMMA AllArrived ==
    ASSUME Types, AloneInv, CountInv, ArrivedInv, PlaceInv, NEW t \in Threads, pc[t] = "arrive",
           Cardinality(barrier.arrived) + 1 = barrier.ct
    PROVE  Counted = barrier.arrived \union {t}
<1> DEFINE S == barrier.arrived \union {t}
<1>1. S \in SUBSET Counted /\ Counted \in SUBSET Threads /\ t \notin barrier.arrived
  BY DEF Types, ArrivedInv, Counted, Uncounted
<1>2. Cardinality(S) = Cardinality(barrier.arrived) + 1
  <2>1. barrier.arrived \in SUBSET Threads
    BY DEF Types
  <2>2. QED
    BY <1>1, <2>1, SubsetSize
<1>3. threadCount # -1
  BY MainAssumption DEF AloneInv
<1>4. t \in Counted
  BY <1>1
<1>5. Cardinality(Counted) >= 1
  BY <1>1, <1>4, SubsetSize
<1>6. Cardinality(S) = Cardinality(Counted)
  BY <1>2, <1>3, <1>5 DEF CountInv, Types
<1>7. S = Counted
  BY <1>1, <1>6, SubsetSize
<1>8. QED
  BY <1>7

\* The barrier opens for the collection of c.
OpensFor(c) ==
    /\ op[c] = "collecting" /\ InRounds(c)
    /\ round[c] \in 1 .. Barriers
    /\ \A u \in Counted : /\ LetGo(u) = round[c] - 1 /\ LetGo(u)' = round[c]
                          /\ InRounds(u)' /\ round[u] = round[c] /\ ~Out(u)
    /\ \A u \in Threads \ Counted : ~InRounds(u) /\ ~InRounds(u)' /\ pc'[u] # "seen"

(* When the barrier opens, every counted thread was in the same round of   *)
(* one collection, and all of them are let go together.                    *)
LEMMA ArriveTogether ==
    ASSUME Types, LockInv, PlaceInv, AloneInv, CountInv, ArrivedInv, RoundsInv,
           NEW t \in Threads, Arrive(t), Cardinality(barrier.arrived) + 1 = barrier.ct
    PROVE  \E c \in Counted : OpensFor(c)
<1> USE BarriersAssumption DEF Types
<1>1. ~Out(t) /\ LetGo(t) = round[t] - 1
  BY DEF Arrive, Out, InRounds, LetGo, PlaceInv
<1>2. PICK c \in Threads : op[c] = "collecting" /\ InRounds(c)
  BY <1>1 DEF RoundsInv
<1>3. Counted = barrier.arrived \union {t}
  BY AllArrived DEF Arrive
<1>4. \A u \in Counted : InRounds(u) /\ LetGo(u) = round[u] - 1 /\ ~Out(u)
  BY <1>1, <1>3 DEF Arrive, ArrivedInv, InRounds, LetGo, Out
<1>5. c \in Counted /\ LetGo(c) \in 0 .. Barriers - 1
  BY <1>2, <1>4 DEF InRounds, Counted, Uncounted, PlaceInv
<1>6. \A u \in Counted : round[u] = round[c]
  BY <1>2, <1>4, <1>5 DEF RoundsInv, Counted
<1>7. \A u \in Counted : InRounds(u)' /\ LetGo(u)' = round[c]
  BY <1>3, <1>4, <1>6 DEF Arrive, ArrivedInv, InRounds, LetGo
<1>8. \A u \in Threads \ Counted : ~InRounds(u) /\ ~InRounds(u)' /\ pc'[u] # "seen"
  BY DEF InRounds, Counted, Uncounted, Arrive
<1>9. QED
  BY <1>2, <1>4, <1>5, <1>6, <1>7, <1>8 DEF OpensFor

(* When it does not open, no thread is let go.                             *)
LEMMA ArriveWaits ==
    ASSUME Types, ArrivedInv, NEW t \in Threads, Arrive(t),
           Cardinality(barrier.arrived) + 1 # barrier.ct
    PROVE  \A u \in Threads : /\ InRounds(u)' <=> InRounds(u)
                              /\ LetGo(u)' = LetGo(u)
                              /\ Out(u)' <=> Out(u)
BY DEF Types, Arrive, ArrivedInv, InRounds, LetGo, Out

(* Arriving at the barrier keeps the rounds in step.                       *)
LEMMA ArriveRounds ==
    ASSUME Types, LockInv, PlaceInv, AloneInv, CountInv, ArrivedInv, RoundsInv,
           NEW t \in Threads, Arrive(t)
    PROVE  RoundsInv'
<1> USE DEF Types
<1>1. Counted' = Counted /\ op' = op /\ round' = round /\ stopTheWorld' = stopTheWorld
  BY DEF Arrive, lists, Counted, Uncounted
<1>2. \A u \in Threads : pc'[u] = "seen" => pc[u] = "seen"
  BY DEF Arrive
<1>3. CASE Cardinality(barrier.arrived) + 1 = barrier.ct
  <2>1. PICK c \in Counted : OpensFor(c)
    BY <1>3, ArriveTogether
  <2>2. \A d \in Threads : op[d] = "collecting" => d = c
    BY <2>1 DEF LockInv, Owning, Counted, OpensFor
  <2>3. \A u \in Counted : pc'[u] # "seen"
    BY <2>1 DEF InRounds, OpensFor
  <2>4. stopTheWorld <=> round[c] = 1
    BY <2>1 DEF RoundsInv, Counted, OpensFor
  <2>5. round[c] = Barriers => \A u \in Threads : Out(u)'
    BY <2>1 DEF Out, OpensFor
  <2>6. QED
    BY <1>1, <2>1, <2>2, <2>3, <2>4, <2>5 DEF RoundsInv, Counted, OpensFor
<1>4. CASE Cardinality(barrier.arrived) + 1 # barrier.ct
  BY <1>1, <1>2, <1>4, ArriveWaits DEF RoundsInv, Counted
<1>5. QED
  BY <1>3, <1>4

(* Arriving at the barrier keeps the root lists complete.                  *)
LEMMA ArriveRoots ==
    ASSUME Types, LockInv, PlaceInv, AloneInv, CountInv, ArrivedInv, RoundsInv,
           RootsInv, NEW t \in Threads, Arrive(t)
    PROVE  RootsInv'
<1>1. op' = op /\ round' = round /\ rootList' = rootList /\ blockedThreads' = blockedThreads
  BY DEF Arrive, lists
<1>2. CASE Cardinality(barrier.arrived) + 1 = barrier.ct
  <2>1. PICK c \in Counted : OpensFor(c)
    BY <1>2, ArriveTogether
  <2>2. \A d \in Threads : op[d] = "collecting" => d = c
    BY <2>1 DEF LockInv, Owning, Counted, OpensFor
  <2>3. round[c] # Barriers => \A u \in Threads : Out(u)' <=> Out(u)
    BY <2>1 DEF Out, OpensFor
  <2>4. CASE round[c] = Barriers
    BY <1>1, <2>1, <2>2, <2>4 DEF RootsInv, OpensFor
  <2>5. CASE round[c] # Barriers
    BY <1>1, <2>1, <2>2, <2>3, <2>5 DEF RootsInv, OpensFor
  <2>6. QED
    BY <2>4, <2>5
<1>3. CASE Cardinality(barrier.arrived) + 1 # barrier.ct
  BY <1>1, <1>3, ArriveWaits DEF RootsInv
<1>4. QED
  BY <1>2, <1>3

(* Every step keeps the rounds of a collection in step.                    *)
LEMMA RoundsStep ==
    ASSUME TimeoutIsLock = FALSE, Types, LockInv, PlaceInv, ChildInv, AloneInv, CountInv, ArrivedInv, RoundsInv, [Next]_vars
    PROVE  RoundsInv'
<1>1. CASE UNCHANGED vars
  BY <1>1 DEF vars, RoundsInv, Out, InRounds, LetGo, Counted, Uncounted
<1>2. ASSUME NEW t \in Threads, Choose(t) \/ Continue(t) PROVE RoundsInv'
  <2>1. CASE BeginCollect(t)
    BY <2>1 DEF BeginCollect, Begin, shared, RoundsInv, Out, InRounds, LetGo, Counted, Uncounted
  <2>2. CASE BeginBlocking(t)
    BY <2>2 DEF BeginBlocking, Begin, shared, RoundsInv, Out, InRounds, LetGo, Counted, Uncounted
  <2>3. CASE BeginExit(t)
    BY <2>3 DEF BeginExit, Begin, shared, RoundsInv, Out, InRounds, LetGo, Counted, Uncounted
  <2>4. CASE Unblock(t)
    BY <2>4 DEF Unblock, shared, Types, RoundsInv, Out, InRounds, LetGo, Counted, Uncounted
  <2>5. ASSUME NEW u \in Threads, BeginCreate(t, u) PROVE RoundsInv'
    BY <2>5 DEF BeginCreate, shared, Types, RoundsInv, Out, InRounds, LetGo, Counted, Uncounted
  <2>6. CASE InitRoots(t)
    BY <2>6 DEF InitRoots, Recount, Types, LockInv, Owning, RoundsInv, Out, InRounds, LetGo
  <2>7. CASE RaiseStop(t)
    BY <2>7 DEF RaiseStop, ArriveNext, Types, PlaceInv, LockInv, Owning, RoundsInv, Out, InRounds, LetGo
  <2>8. CASE LowerStop(t)
    BY <2>8, BarriersAssumption DEF LowerStop, ArriveNext, Types, LockInv, Owning, RoundsInv, InRounds, LetGo, Counted, Uncounted
  <2>9. CASE Collect(t)
    BY <2>9, BarriersAssumption DEF Collect, ArriveNext, shared, Types, RoundsInv, InRounds, LetGo, Counted, Uncounted
  <2>10. CASE Restart(t)
    BY <2>10, BarriersAssumption DEF Restart, Released, Types, PlaceInv, RoundsInv, Out, InRounds, LetGo
  <2>11. CASE SeeStop(t)
    BY <2>11 DEF SeeStop, MayYield, LockAvailable, shared, RoundsInv, Out, InRounds, LetGo, Counted, Uncounted
  <2>12. CASE EnterYield(t)
    BY <2>12, BarriersAssumption, NoThreadAssumption DEF EnterYield, Resumed, shared, Types, RoundsInv, Out, InRounds, LetGo, Counted, Uncounted
  <2>13. CASE PushRoots(t)
    BY <2>13 DEF PushRoots, ArriveNext, Types, RoundsInv, Out, InRounds, LetGo, Counted, Uncounted
  <2>14. CASE AllowCollection(t)
    BY <2>14 DEF AllowCollection, ArriveNext, shared, Types, RoundsInv, Out, InRounds, LetGo, Counted, Uncounted
  <2>15. CASE ReturnFromYield(t)
    BY <2>15 DEF ReturnFromYield, Resumed, shared, Types, PlaceInv, RoundsInv, Out, InRounds, LetGo, Counted, Uncounted
  <2>16. CASE CountChild(t)
    BY <2>16 DEF CountChild, KnownCount, Recount, Types, PlaceInv, LockInv, Owning, RoundsInv, Out, InRounds, LetGo
  <2>17. CASE CountOutBlocking(t)
    BY <2>17 DEF CountOutBlocking, KnownCount, Recount, Types, LockInv, Owning, RoundsInv, Out, InRounds, LetGo
  <2>18. CASE CountInBlocking(t)
    BY <2>18 DEF CountInBlocking, Recount, Types, LockInv, Owning, RoundsInv, Out, InRounds, LetGo
  <2>19. CASE CountOutExit(t)
    BY <2>19 DEF CountOutExit, Recount, Types, LockInv, Owning, RoundsInv, Out, InRounds, LetGo
  <2>20. CASE Unlock(t)
    BY <2>20 DEF Unlock, AfterUnlock, Released, Types, PlaceInv, RoundsInv, Out, InRounds, LetGo, Counted, Uncounted
  <2>21. CASE Spawn(t)
    BY <2>21 DEF Spawn, FinishCreate, shared, Types, PlaceInv, ChildInv, LockInv, RoundsInv, Out, InRounds, LetGo, Counted, Uncounted
  <2>22. CASE SpawnFail(t)
    BY <2>22 DEF SpawnFail, FinishCreate, shared, Types, PlaceInv, ChildInv, RoundsInv, Out, InRounds, LetGo, Counted, Uncounted
  <2>23. CASE Start(t)
    BY <2>23 DEF Start, shared, RoundsInv, Out, InRounds, LetGo, Counted, Uncounted
  <2>24. CASE FreeGeneration(t)
    BY <2>24 DEF FreeGeneration, shared, RoundsInv, Out, InRounds, LetGo, Counted, Uncounted
  <2>25. CASE Arrive(t)
    BY <2>25, ArriveRounds
  <2>26. CASE Pass(t)
    BY <2>26 DEF Pass, Leaving, shared, PlaceInv, RoundsInv, Out, InRounds, LetGo, Counted, Uncounted
  <2>27. CASE SweepOwnHeap(t)
    BY <2>27 DEF SweepOwnHeap, ArriveNext, shared, Types, PlaceInv, RoundsInv, Out, InRounds, LetGo, Counted, Uncounted
  <2>28. CASE TryLock(t)
    BY <2>28 DEF TryLock, LockAvailable, PlaceInv, RoundsInv, Out, InRounds, LetGo, Counted, Uncounted
  <2>29. QED
    BY <1>2, <2>1, <2>2, <2>3, <2>4, <2>5, <2>6, <2>7, <2>8, <2>9, <2>10, <2>11, <2>12, <2>13, <2>14, <2>15, <2>16, <2>17, <2>18, <2>19, <2>20, <2>21, <2>22, <2>23, <2>24, <2>25, <2>26, <2>27, <2>28 DEF Choose, Continue, Collector, Yielder, Counting
<1>3. QED
  BY <1>1, <1>2 DEF Next

(* The blocked lists hold the blocked threads.                             *)
LEMMA BlockedStep ==
    ASSUME TimeoutIsLock = FALSE, Types, LockInv, PlaceInv, ChildInv, BlockedInv, [Next]_vars
    PROVE  BlockedInv'
<1>1. CASE UNCHANGED vars
  BY <1>1 DEF vars, BlockedInv
<1>2. ASSUME NEW t \in Threads, Choose(t) \/ Continue(t) PROVE BlockedInv'
  <2>1. CASE BeginCollect(t)
    BY <2>1 DEF BeginCollect, Begin, shared, lists, Types, BlockedInv
  <2>2. CASE BeginBlocking(t)
    BY <2>2 DEF BeginBlocking, Begin, shared, lists, Types, BlockedInv
  <2>3. CASE BeginExit(t)
    BY <2>3 DEF BeginExit, Begin, shared, lists, Types, BlockedInv
  <2>4. CASE Unblock(t)
    BY <2>4 DEF Unblock, shared, lists, Types, BlockedInv
  <2>5. ASSUME NEW u \in Threads, BeginCreate(t, u) PROVE BlockedInv'
    BY <2>5 DEF BeginCreate, shared, lists, Types, BlockedInv
  <2>6. CASE InitRoots(t)
    BY <2>6 DEF InitRoots, Recount, BlockedInv
  <2>7. CASE RaiseStop(t)
    BY <2>7 DEF RaiseStop, ArriveNext, lists, BlockedInv
  <2>8. CASE LowerStop(t)
    BY <2>8 DEF LowerStop, ArriveNext, lists, BlockedInv
  <2>9. CASE Collect(t)
    BY <2>9 DEF Collect, ArriveNext, shared, lists, BlockedInv
  <2>10. CASE Restart(t)
    BY <2>10 DEF Restart, Released, lists, BlockedInv
  <2>11. CASE SeeStop(t)
    BY <2>11 DEF SeeStop, MayYield, LockAvailable, shared, lists, BlockedInv
  <2>12. CASE EnterYield(t)
    BY <2>12 DEF EnterYield, Resumed, shared, lists, Types, PlaceInv, BlockedInv
  <2>13. CASE PushRoots(t)
    BY <2>13 DEF PushRoots, ArriveNext, BlockedInv
  <2>14. CASE AllowCollection(t)
    BY <2>14 DEF AllowCollection, ArriveNext, shared, lists, BlockedInv
  <2>15. CASE ReturnFromYield(t)
    BY <2>15 DEF ReturnFromYield, Resumed, shared, lists, PlaceInv, BlockedInv
  <2>16. CASE CountChild(t)
    BY <2>16 DEF CountChild, KnownCount, Recount, lists, Types, BlockedInv, ChildInv
  <2>17. CASE CountOutBlocking(t)
    BY <2>17 DEF CountOutBlocking, KnownCount, Recount, Types, BlockedInv
  <2>18. CASE CountInBlocking(t)
    BY <2>18 DEF CountInBlocking, Recount, Types, BlockedInv
  <2>19. CASE CountOutExit(t)
    BY <2>19 DEF CountOutExit, Recount, lists, BlockedInv
  <2>20. CASE Unlock(t)
    BY <2>20 DEF Unlock, AfterUnlock, Released, lists, Types, PlaceInv, BlockedInv
  <2>21. CASE Spawn(t)
    BY <2>21 DEF Spawn, FinishCreate, shared, lists, Types, PlaceInv, BlockedInv, ChildInv
  <2>22. CASE SpawnFail(t)
    BY <2>22 DEF SpawnFail, FinishCreate, shared, lists, Types, PlaceInv, BlockedInv, ChildInv
  <2>23. CASE Start(t)
    BY <2>23 DEF Start, shared, lists, BlockedInv
  <2>24. CASE FreeGeneration(t)
    BY <2>24 DEF FreeGeneration, shared, lists, BlockedInv
  <2>25. CASE Arrive(t)
    BY <2>25 DEF Arrive, lists, BlockedInv
  <2>26. CASE Pass(t)
    BY <2>26 DEF Pass, Leaving, shared, lists, BlockedInv
  <2>27. CASE SweepOwnHeap(t)
    BY <2>27 DEF SweepOwnHeap, ArriveNext, shared, lists, BlockedInv
  <2>28. CASE TryLock(t)
    BY <2>28 DEF TryLock, LockAvailable, lists, BlockedInv
  <2>29. QED
    BY <1>2, <2>1, <2>2, <2>3, <2>4, <2>5, <2>6, <2>7, <2>8, <2>9, <2>10, <2>11, <2>12, <2>13, <2>14, <2>15, <2>16, <2>17, <2>18, <2>19, <2>20, <2>21, <2>22, <2>23, <2>24, <2>25, <2>26, <2>27, <2>28 DEF Choose, Continue, Collector, Yielder, Counting
<1>3. QED
  BY <1>1, <1>2 DEF Next

(* Every step keeps the root lists complete.                               *)
LEMMA RootsStep ==
    ASSUME TimeoutIsLock = FALSE, Types, LockInv, PlaceInv, ChildInv, AloneInv, CountInv, ArrivedInv, RoundsInv, BlockedInv, RootsInv, [Next]_vars
    PROVE  RootsInv'
<1>1. CASE UNCHANGED vars
  BY <1>1 DEF vars, Out, InRounds, LetGo, RootsInv
<1>2. ASSUME NEW t \in Threads, Choose(t) \/ Continue(t) PROVE RootsInv'
  <2>1. CASE BeginCollect(t)
    BY <2>1 DEF BeginCollect, Begin, shared, lists, Out, InRounds, LetGo, RootsInv
  <2>2. CASE BeginBlocking(t)
    BY <2>2 DEF BeginBlocking, Begin, shared, lists, Out, InRounds, LetGo, RootsInv
  <2>3. CASE BeginExit(t)
    BY <2>3 DEF BeginExit, Begin, shared, lists, Out, InRounds, LetGo, RootsInv
  <2>4. CASE Unblock(t)
    BY <2>4 DEF Unblock, shared, lists, Out, InRounds, LetGo, RootsInv
  <2>5. ASSUME NEW u \in Threads, BeginCreate(t, u) PROVE RootsInv'
    BY <2>5 DEF BeginCreate, shared, lists, Types, Out, InRounds, LetGo, RootsInv
  <2>6. CASE InitRoots(t)
    BY <2>6 DEF InitRoots, Recount, Types, PlaceInv, LockInv, Owning, RoundsInv, Out, InRounds, LetGo, RootsInv
  <2>7. CASE RaiseStop(t)
    BY <2>7 DEF RaiseStop, ArriveNext, lists, Types, Out, InRounds, LetGo, RootsInv
  <2>8. CASE LowerStop(t)
    BY <2>8, BarriersAssumption DEF LowerStop, ArriveNext, lists, Out, InRounds, LetGo, RootsInv
  <2>9. CASE Collect(t)
    BY <2>9 DEF Collect, ArriveNext, shared, lists, Types, Out, InRounds, LetGo, RootsInv
  <2>10. CASE Restart(t)
    BY <2>10 DEF Restart, Released, lists, Types, Out, InRounds, LetGo, RootsInv
  <2>11. CASE SeeStop(t)
    BY <2>11 DEF SeeStop, MayYield, LockAvailable, shared, lists, Out, InRounds, LetGo, RootsInv
  <2>12. CASE EnterYield(t)
    BY <2>12 DEF EnterYield, Resumed, shared, lists, Types, Out, InRounds, LetGo, RootsInv
  <2>13. CASE PushRoots(t)
    BY <2>13, BarriersAssumption DEF PushRoots, ArriveNext, Types, Out, InRounds, LetGo, RootsInv
  <2>14. CASE AllowCollection(t)
    BY <2>14 DEF AllowCollection, ArriveNext, shared, lists, Types, Out, InRounds, LetGo, RootsInv
  <2>15. CASE ReturnFromYield(t)
    BY <2>15 DEF ReturnFromYield, Resumed, shared, lists, Out, InRounds, LetGo, RootsInv
  <2>16. CASE CountChild(t)
    BY <2>16 DEF CountChild, KnownCount, Recount, LockInv, Owning, RootsInv
  <2>17. CASE CountOutBlocking(t)
    BY <2>17 DEF CountOutBlocking, KnownCount, Recount, LockInv, Owning, RootsInv
  <2>18. CASE CountInBlocking(t)
    BY <2>18 DEF CountInBlocking, Recount, LockInv, Owning, RootsInv
  <2>19. CASE CountOutExit(t)
    BY <2>19, NoThreadAssumption DEF CountOutExit, Recount, lists, Types, PlaceInv, ArrivedInv, RoundsInv, Out, InRounds, LetGo, Counted, Uncounted, RootsInv
  <2>20. CASE Unlock(t)
    BY <2>20 DEF Unlock, AfterUnlock, Released, lists, PlaceInv, Out, InRounds, LetGo, RootsInv
  <2>21. CASE Spawn(t)
    BY <2>21 DEF Spawn, FinishCreate, shared, lists, Types, PlaceInv, Out, InRounds, LetGo, RootsInv, ChildInv
  <2>22. CASE SpawnFail(t)
    BY <2>22 DEF SpawnFail, FinishCreate, shared, lists, Types, PlaceInv, Out, InRounds, LetGo, RootsInv, ChildInv
  <2>23. CASE Start(t)
    BY <2>23 DEF Start, shared, lists, Out, InRounds, LetGo, RootsInv
  <2>24. CASE FreeGeneration(t)
    BY <2>24 DEF FreeGeneration, shared, lists, Out, InRounds, LetGo, RootsInv
  <2>25. CASE Arrive(t)
    BY <2>25, ArriveRoots
  <2>26. CASE Pass(t)
    BY <2>26 DEF Pass, Leaving, shared, lists, Out, InRounds, LetGo, RootsInv
  <2>27. CASE SweepOwnHeap(t)
    BY <2>27 DEF SweepOwnHeap, ArriveNext, shared, lists, Types, Out, InRounds, LetGo, RootsInv
  <2>28. CASE TryLock(t)
    BY <2>28 DEF TryLock, LockAvailable, lists, Out, InRounds, LetGo, RootsInv
  <2>29. QED
    BY <1>2, <2>1, <2>2, <2>3, <2>4, <2>5, <2>6, <2>7, <2>8, <2>9, <2>10, <2>11, <2>12, <2>13, <2>14, <2>15, <2>16, <2>17, <2>18, <2>19, <2>20, <2>21, <2>22, <2>23, <2>24, <2>25, <2>26, <2>27, <2>28 DEF Choose, Continue, Collector, Yielder, Counting
<1>3. QED
  BY <1>1, <1>2 DEF Next

-----------------------------------------------------------------------------
(* The invariant holds initially.                                          *)
LEMMA InitIInv == Init => IInv
<1> SUFFICES ASSUME Init PROVE IInv
  OBVIOUS
<1> USE MainAssumption, NoThreadAssumption, BarriersAssumption DEF Init
<1>1. Types
  <2>1. pc \in [Threads -> Places] /\ op \in [Threads -> Operations]
    BY DEF Places, Operations
  <2>2. round \in [Threads -> 0 .. Barriers] /\ child \in [Threads -> Threads \union {NoThread}]
    OBVIOUS
  <2>3. barrier \in [ct : Int, arrived : SUBSET Threads]
    OBVIOUS
  <2>4. lock \in Threads \union {NoThread} /\ stopTheWorld \in BOOLEAN
    OBVIOUS
  <2>5. QED
    BY <2>1, <2>2, <2>3, <2>4 DEF Types
<1>2. LockInv /\ PlaceInv /\ ChildInv
  BY DEF LockInv, PlaceInv, Idle, ChildInv, Owning
<1>3. Cardinality(Threads) \in Nat
  BY ThreadsAssumption, FS_CardinalityType
<1>4. AloneInv /\ CountInv /\ ArrivedInv
  BY <1>3 DEF AloneInv, CountInv, ArrivedInv
<1>5. RoundsInv /\ BlockedInv /\ RootsInv
  BY DEF RoundsInv, BlockedInv, RootsInv, Out, InRounds, LetGo
<1>6. QED
  BY <1>1, <1>2, <1>4, <1>5 DEF IInv

(* Every step preserves it.                                                *)
LEMMA StepIInv ==
    ASSUME TimeoutIsLock = FALSE, IInv, [Next]_vars
    PROVE  IInv'
<1> USE DEF IInv
<1>1. Types' /\ LockInv' /\ PlaceInv' /\ ChildInv'
  BY TypesStep, LockStep, PlaceStep, ChildStep
<1>2. AloneInv' /\ CountInv' /\ ArrivedInv'
  BY AloneStep, CountInvStep, ArrivedStep
<1>3. RoundsInv' /\ BlockedInv' /\ RootsInv'
  BY RoundsStep, BlockedStep, RootsStep
<1>4. QED
  BY <1>1, <1>2, <1>3

(* The inductive invariant, for a trylock that can fail.                    *)
LEMMA InvariantIInv == TimeoutIsLock = FALSE => (Spec => []IInv)
<1> SUFFICES ASSUME TimeoutIsLock = FALSE PROVE Spec => []IInv
  OBVIOUS
<1>1. Init => IInv
  BY InitIInv
<1>2. IInv /\ [Next]_vars => IInv'
  BY StepIInv
<1>3. QED
  BY <1>1, <1>2, PTL DEF Spec

-----------------------------------------------------------------------------
(* Where trylock tells a timeout from success, every variable always has   *)
(* its type; the thread count stays between -1 and the number of threads.  *)
THEOREM TypeCorrect == TimeoutIsLock = FALSE => (Spec => []TypeOk)
<1> SUFFICES ASSUME TimeoutIsLock = FALSE PROVE Spec => []TypeOk
  OBVIOUS
<1>1. ASSUME IInv PROVE TypeOk
  <2>1. Counted \in SUBSET Threads
    BY DEF Counted
  <2>2. Cardinality(Counted) \in 0 .. Cardinality(Threads)
    BY <2>1, SubsetSize
  <2>3. Cardinality(Threads) \in Nat
    BY ThreadsAssumption, FS_CardinalityType
  <2>4. threadCount \in -1 .. Cardinality(Threads)
    BY <1>1, <2>2, <2>3 DEF IInv, CountInv
  <2>5. barrier \in [ct : -1 .. Cardinality(Threads), arrived : SUBSET Threads]
    BY <1>1 DEF IInv, Types, CountInv
  <2>6. QED
    BY <1>1, <2>4, <2>5 DEF IInv, Types, TypeOk
<1>2. QED
  BY <1>1, InvariantIInv, PTL

(* A collection has the world stopped: no thread touches objects, and no   *)
(* other thread collects, between the gathering of the roots and the last  *)
(* barrier - however many threads there are, and even when creating one    *)
(* has failed.                                                             *)
THEOREM CollectionIsAlone == TimeoutIsLock = FALSE => (Spec => []WorldStopped)
<1> SUFFICES ASSUME TimeoutIsLock = FALSE PROVE Spec => []WorldStopped
  OBVIOUS
<1>1. ASSUME IInv PROVE WorldStopped
  <2> SUFFICES ASSUME NEW t \in Threads, WorldIsStopped(t), NEW u \in Threads
               PROVE  ~Active(u) /\ (WorldIsStopped(u) => u = t)
    BY DEF WorldStopped
  <2>1. op[t] = "collecting" /\ InRounds(t) /\ LetGo(t) \in 1 .. Barriers - 1
    BY BarriersAssumption DEF WorldIsStopped, LetGo, InRounds
  <2>2. u \in Counted => InRounds(u)
    BY <1>1, <2>1 DEF IInv, RoundsInv
  <2>3. ~Active(u)
    BY <2>2 DEF Active, InRounds, Counted, Uncounted
  <2>4. WorldIsStopped(u) => u = t
    BY <1>1 DEF IInv, LockInv, Owning, WorldIsStopped
  <2>5. QED
    BY <2>3, <2>4
<1>2. QED
  BY <1>1, InvariantIInv, PTL

(* A collection has the stacks of every thread that holds references, and  *)
(* of no other.                                                            *)
THEOREM CollectionHasAllRoots == TimeoutIsLock = FALSE => (Spec => []RootsComplete)
<1> SUFFICES ASSUME TimeoutIsLock = FALSE PROVE Spec => []RootsComplete
  OBVIOUS
<1>1. ASSUME IInv PROVE RootsComplete
  <2> SUFFICES ASSUME NEW t \in Threads, WorldIsStopped(t) PROVE rootList = Live
    BY DEF RootsComplete
  <2> USE BarriersAssumption DEF IInv
  <2>1. op[t] = "collecting" /\ InRounds(t) /\ LetGo(t) \in 2 .. Barriers - 1
    BY DEF WorldIsStopped, LetGo, InRounds
  <2>2. \A u \in Counted : InRounds(u) /\ LetGo(u) = LetGo(t)
    BY <1>1, <2>1 DEF RoundsInv
  <2>3. \A u \in Counted : ~Out(u) /\ round[u] >= 2
    BY <1>1, <2>1, <2>2 DEF Out, LetGo, Types, Counted
  <2>4. \A u \in Threads : ~Out(u) => u \in Counted
    BY DEF Out, InRounds, Counted, Uncounted
  <2>5. t \in Counted
    BY <2>1 DEF InRounds, Counted, Uncounted
  <2>6. rootList = blockedThreads \union Counted
    BY <1>1, <2>1, <2>3, <2>4, <2>5 DEF RootsInv, Counted
  <2>7. Live = blockedThreads \union Counted
    BY <1>1, <2>2 DEF BlockedInv, Live, InRounds, Counted
  <2>8. QED
    BY <2>6, <2>7
<1>2. QED
  BY <1>1, InvariantIInv, PTL

(* A thread that saw the stop flag in GGC_YIELD finds it still raised when *)
(* ggggc_yield looks again.                                                *)
THEOREM StopIsStillRaised == TimeoutIsLock = FALSE => (Spec => []SeenStopStaysRaised)
<1> SUFFICES ASSUME TimeoutIsLock = FALSE PROVE Spec => []SeenStopStaysRaised
  OBVIOUS
<1>1. IInv => SeenStopStaysRaised
  BY DEF IInv, RoundsInv, SeenStopStaysRaised
<1>2. QED
  BY <1>1, InvariantIInv, PTL

(* No two threads inside the rounds of a collection are out of step.       *)
THEOREM YieldersKeepStep == TimeoutIsLock = FALSE => (Spec => []PhaseAgreement)
<1> SUFFICES ASSUME TimeoutIsLock = FALSE PROVE Spec => []PhaseAgreement
  OBVIOUS
<1>1. ASSUME IInv PROVE PhaseAgreement
  <2> SUFFICES ASSUME NEW t \in Threads, NEW u \in Counted,
                      pc[t] = "passed", round[t] < Barriers
               PROVE  LetGo(u) = round[t]
    BY DEF PhaseAgreement, Counted
  <2> USE BarriersAssumption DEF IInv, Types, Counted
  <2>1. InRounds(t) /\ LetGo(t) = round[t] /\ ~Out(t) /\ round[t] # 0
    <3>1. LetGo(t) = round[t]
      BY DEF LetGo
    <3>2. round[t] # 0
      BY <1>1 DEF PlaceInv
    <3>3. InRounds(t) /\ ~Out(t)
      BY <1>1, <3>1 DEF InRounds, Out
    <3>. QED
      BY <3>1, <3>2, <3>3
  <2>2. PICK c \in Threads : op[c] = "collecting" /\ InRounds(c)
    BY <1>1, <2>1 DEF RoundsInv
  <2>3. LetGo(c) \in 1 .. Barriers - 1
    BY SMTT(20), <1>1, <2>1, <2>2 DEF RoundsInv, LetGo, PlaceInv
  <2>4. LetGo(t) = LetGo(c) /\ LetGo(u) = LetGo(c)
    <3>1. \A v \in Counted : LetGo(v) = LetGo(c)
      BY <1>1, <2>2, <2>3 DEF RoundsInv
    <3>2. t \in Counted
      BY DEF Uncounted
    <3>3. QED
      BY <3>1, <3>2
  <2>5. QED
    BY <2>1, <2>4
<1>2. QED
  BY <1>1, InvariantIInv, PTL

(* Only one thread at a time is between taking and releasing the lock, and *)
(* one that is about to use the barrier finds it made for the count.       *)
THEOREM LockAndBarrier ==
    TimeoutIsLock = FALSE => (Spec => [](MutualExclusion /\ BarrierCurrent))
<1> SUFFICES ASSUME TimeoutIsLock = FALSE
             PROVE  Spec => [](MutualExclusion /\ BarrierCurrent)
  OBVIOUS
<1>1. ASSUME IInv PROVE MutualExclusion
  BY <1>1 DEF IInv, LockInv, MutualExclusion
<1>2. ASSUME IInv PROVE BarrierCurrent
  <2> SUFFICES ASSUME NEW t \in Threads, pc[t] \in {"rooted", "arrive", "passed"}
               PROVE  barrier.ct = threadCount
    BY DEF BarrierCurrent
  <2>1. t \in Counted /\ Counted \in SUBSET Threads
    BY DEF Counted, Uncounted
  <2>2. Cardinality(Counted) >= 1
    BY <2>1, SubsetSize
  <2>3. threadCount # -1
    BY <1>2 DEF IInv, AloneInv
  <2>4. QED
    BY <1>2, <2>2, <2>3 DEF IInv, CountInv, Types
<1>3. QED
  BY <1>1, <1>2, InvariantIInv, PTL

-----------------------------------------------------------------------------
NobodyFailed == \A t \in Threads : pc[t] # "failed"

(* Where pthread_create does not fail, no thread is ever counted that will *)
(* not run.                                                                *)
LEMMA NobodyFails ==
    ASSUME SpawnMayFail = FALSE, Types, PlaceInv, ChildInv, NobodyFailed, [Next]_vars
    PROVE  NobodyFailed'
<1>1. CASE UNCHANGED vars
  BY <1>1 DEF vars, NobodyFailed
<1>2. ASSUME NEW t \in Threads, Choose(t) PROVE NobodyFailed'
  BY <1>2 DEF Choose, BeginCollect, BeginBlocking, BeginExit, BeginCreate, Begin, Unblock,
     Types, NobodyFailed
<1>3. ASSUME NEW t \in Threads, Collector(t) \/ Yielder(t) PROVE NobodyFailed'
  BY <1>3 DEF Collector, InitRoots, RaiseStop, LowerStop, Collect, Restart, Yielder, SeeStop,
     EnterYield, PushRoots, AllowCollection, ReturnFromYield, ArriveNext, Resumed,
     Types, NobodyFailed
<1>4. ASSUME NEW t \in Threads, Counting(t) PROVE NobodyFailed'
  <2>1. CASE CountChild(t)
    BY <2>1 DEF CountChild, Types, ChildInv, NobodyFailed
  <2>2. CASE Unlock(t)
    <3>1. pc' = [pc EXCEPT ![t] = AfterUnlock(op[t])]
      BY <2>2 DEF Unlock
    <3>2. op[t] \in {"create", "pre", "post", "exit"} => AfterUnlock(op[t]) # "failed"
      BY DEF AfterUnlock
    <3>3. QED
      BY <2>2, <3>1, <3>2 DEF Unlock, PlaceInv, Types, NobodyFailed
  <2>3. CASE Spawn(t)
    BY <2>3 DEF Spawn, FinishCreate, Types, ChildInv, NobodyFailed
  <2>4. CASE \/ CountOutBlocking(t) \/ CountInBlocking(t) \/ CountOutExit(t)
             \/ Start(t) \/ FreeGeneration(t)
    BY <2>4 DEF CountOutBlocking, CountInBlocking, CountOutExit, Start, FreeGeneration,
       Types, NobodyFailed
  <2>5. QED
    BY <1>4, <2>1, <2>2, <2>3, <2>4 DEF Counting, SpawnFail
<1>5. ASSUME NEW t \in Threads, Arrive(t) \/ Pass(t) \/ SweepOwnHeap(t) \/ TryLock(t)
      PROVE  NobodyFailed'
  BY <1>5 DEF Arrive, Pass, SweepOwnHeap, TryLock, ArriveNext, Types, NobodyFailed
<1>6. QED
  BY <1>1, <1>2, <1>3, <1>4, <1>5 DEF Next, Continue

(* Whenever nobody has the lock, the thread count is the number of threads *)
(* in the system that are not blocked, if pthread_create does not fail.    *)
THEOREM CountIsExact ==
    TimeoutIsLock = FALSE /\ SpawnMayFail = FALSE => (Spec => []ThreadCountExact)
<1> SUFFICES ASSUME TimeoutIsLock = FALSE, SpawnMayFail = FALSE
             PROVE  Spec => []ThreadCountExact
  OBVIOUS
<1>1. Init => NobodyFailed
  BY DEF Init, NobodyFailed
<1>2. IInv /\ NobodyFailed /\ [Next]_vars => NobodyFailed'
  BY NobodyFails DEF IInv
<1>3. ASSUME IInv, NobodyFailed PROVE ThreadCountExact
  <2>1. {t \in Counted : pc[t] # "failed"} = Counted
    BY <1>3 DEF NobodyFailed, Counted
  <2>2. QED
    BY <1>3, <2>1 DEF IInv, CountInv, ThreadCountExact
<1>4. QED
  BY <1>1, <1>2, <1>3, InvariantIInv, PTL DEF Spec

-----------------------------------------------------------------------------
(* Only an arrival at the barrier begins or ends the time in which the     *)
(* world is stopped, and the root lists do not change during that time.    *)
LEMMA OnlyArriveStops ==
    ASSUME TimeoutIsLock = FALSE, IInv, ~\E t \in Threads : Arrive(t), [Next]_vars
    PROVE  Collecting' = Collecting /\ (rootList' = rootList \/ Collecting = {})
<1> USE DEF IInv
<1>1. CASE UNCHANGED vars
  BY <1>1 DEF vars, LetGo, Collecting, WorldIsStopped
<1>2. ASSUME NEW t \in Threads, Choose(t) \/ Continue(t) PROVE Collecting' = Collecting /\ (rootList' = rootList \/ Collecting = {})
  <2>1. CASE BeginCollect(t)
    BY <2>1 DEF BeginCollect, Begin, shared, lists, LetGo, Collecting, WorldIsStopped
  <2>2. CASE BeginBlocking(t)
    BY <2>2 DEF BeginBlocking, Begin, shared, lists, LetGo, Collecting, WorldIsStopped
  <2>3. CASE BeginExit(t)
    BY <2>3 DEF BeginExit, Begin, shared, lists, LetGo, Collecting, WorldIsStopped
  <2>4. CASE Unblock(t)
    BY <2>4 DEF Unblock, shared, lists, LetGo, Collecting, WorldIsStopped
  <2>5. ASSUME NEW u \in Threads, BeginCreate(t, u) PROVE Collecting' = Collecting /\ (rootList' = rootList \/ Collecting = {})
    BY <2>5 DEF BeginCreate, shared, lists, Types, LetGo, Collecting, WorldIsStopped
  <2>6. CASE InitRoots(t)
    BY <2>6, BarriersAssumption DEF InitRoots, Recount, RoundsInv, InRounds, LetGo, Collecting, WorldIsStopped, Counted, Uncounted
  <2>7. CASE RaiseStop(t)
    BY <2>7 DEF RaiseStop, ArriveNext, lists, Types, LetGo, Collecting, WorldIsStopped
  <2>8. CASE LowerStop(t)
    BY <2>8 DEF LowerStop, ArriveNext, lists, Types, LetGo, Collecting, WorldIsStopped
  <2>9. CASE Collect(t)
    BY <2>9 DEF Collect, ArriveNext, shared, lists, Types, LetGo, Collecting, WorldIsStopped
  <2>10. CASE Restart(t)
    BY <2>10 DEF Restart, Released, lists, LetGo, Collecting, WorldIsStopped
  <2>11. CASE SeeStop(t)
    BY <2>11 DEF SeeStop, MayYield, LockAvailable, shared, lists, LetGo, Collecting, WorldIsStopped
  <2>12. CASE EnterYield(t)
    BY <2>12 DEF EnterYield, Resumed, shared, lists, Types, LetGo, Collecting, WorldIsStopped
  <2>13. CASE PushRoots(t)
    BY <2>13 DEF PushRoots, ArriveNext, RoundsInv, InRounds, LetGo, Collecting, WorldIsStopped, Counted, Uncounted
  <2>14. CASE AllowCollection(t)
    BY <2>14 DEF AllowCollection, ArriveNext, shared, lists, LetGo, Collecting, WorldIsStopped
  <2>15. CASE ReturnFromYield(t)
    BY <2>15 DEF ReturnFromYield, Resumed, shared, lists, LetGo, Collecting, WorldIsStopped
  <2>16. CASE CountChild(t)
    BY <2>16, BarriersAssumption DEF CountChild, KnownCount, Recount, Types, RoundsInv, InRounds, LetGo, Collecting, WorldIsStopped, Counted, Uncounted
  <2>17. CASE CountOutBlocking(t)
    BY <2>17, BarriersAssumption DEF CountOutBlocking, KnownCount, Recount, RoundsInv, InRounds, LetGo, Collecting, WorldIsStopped, Counted, Uncounted
  <2>18. CASE CountInBlocking(t)
    BY <2>18 DEF CountInBlocking, Recount, LockInv, Owning, Collecting, WorldIsStopped
  <2>19. CASE CountOutExit(t)
    BY <2>19, BarriersAssumption DEF CountOutExit, Recount, RoundsInv, InRounds, LetGo, Collecting, WorldIsStopped, Counted, Uncounted
  <2>20. CASE Unlock(t)
    BY <2>20 DEF Unlock, AfterUnlock, Released, lists, Types, LetGo, Collecting, WorldIsStopped
  <2>21. CASE Spawn(t)
    BY <2>21 DEF Spawn, FinishCreate, shared, Types, RoundsInv, InRounds, LetGo, Collecting, WorldIsStopped, Counted, Uncounted
  <2>22. CASE SpawnFail(t)
    BY <2>22 DEF SpawnFail, FinishCreate, shared, Types, RoundsInv, InRounds, LetGo, Collecting, WorldIsStopped, Counted, Uncounted
  <2>23. CASE Start(t)
    BY <2>23 DEF Start, shared, lists, LetGo, Collecting, WorldIsStopped
  <2>24. CASE FreeGeneration(t)
    BY <2>24 DEF FreeGeneration, shared, lists, LetGo, Collecting, WorldIsStopped
  <2>25. CASE Arrive(t)
    BY <2>25
  <2>26. CASE Pass(t)
    BY <2>26 DEF Pass, Leaving, shared, lists, LetGo, Collecting, WorldIsStopped
  <2>27. CASE SweepOwnHeap(t)
    BY <2>27 DEF SweepOwnHeap, ArriveNext, shared, lists, Types, LetGo, Collecting, WorldIsStopped
  <2>28. CASE TryLock(t)
    BY <2>28 DEF TryLock, LockAvailable, lists, LetGo, Collecting, WorldIsStopped
  <2>29. QED
    BY <1>2, <2>1, <2>2, <2>3, <2>4, <2>5, <2>6, <2>7, <2>8, <2>9, <2>10, <2>11, <2>12, <2>13, <2>14, <2>15, <2>16, <2>17, <2>18, <2>19, <2>20, <2>21, <2>22, <2>23, <2>24, <2>25, <2>26, <2>27, <2>28 DEF Choose, Continue, Collector, Yielder, Counting
<1>3. QED
  BY <1>1, <1>2 DEF Next

\* What a step does to the live and the active threads, as SafeRegion says it.
Stays    == Live' = Live /\ ActiveThreads' = ActiveThreads
Pauses(t)  == t \in ActiveThreads /\ ActiveThreads' = ActiveThreads \ {t} /\ Live' = Live
Resumes(t) ==
    /\ t \in Live \ ActiveThreads
    /\ ActiveThreads' = ActiveThreads \union {t}
    /\ Live' = Live
    /\ Collecting = {}
Retires(t) ==
    /\ t \in Live \ ActiveThreads
    /\ Live' = Live \ {t}
    /\ ActiveThreads' = ActiveThreads
    /\ Collecting = {}
Spawns(t, u) ==
    /\ t \in ActiveThreads
    /\ u \in Threads \ Live
    /\ Live' = Live \union {u}
    /\ ActiveThreads' = ActiveThreads \union {u}

Moves ==
    \/ Stays
    \/ \E t \in Threads : Pauses(t) \/ Resumes(t) \/ Retires(t)
    \/ \E t, u \in Threads : Spawns(t, u)

(* While somebody collects, nobody owns the lock but the collector and all *)
(* counted threads are inside the rounds.                                  *)
LEMMA StoppedMeans ==
    ASSUME IInv, Collecting # {}
    PROVE  /\ \A t \in Counted : InRounds(t) /\ LetGo(t) \in 2 .. Barriers - 1
           /\ \A t \in Threads : Owning(t) => t \in Collecting
           /\ ActiveThreads = {}
<1>1. PICK c \in Threads : WorldIsStopped(c)
  BY DEF Collecting
<1> USE DEF IInv
<1>2. op[c] = "collecting" /\ InRounds(c) /\ LetGo(c) \in 2 .. Barriers - 1
  BY <1>1 DEF WorldIsStopped, LetGo, InRounds
<1>3. \A t \in Counted : InRounds(t) /\ LetGo(t) = LetGo(c)
  BY <1>2 DEF RoundsInv
<1>4. \A t \in Threads : Owning(t) => t = c
  BY <1>2 DEF LockInv, Owning
<1>5. ActiveThreads = {}
  BY <1>3 DEF ActiveThreads, Active, Counted, Uncounted, InRounds
<1>6. QED
  BY <1>1, <1>2, <1>3, <1>4, <1>5 DEF Collecting

(* Every step moves the live and the active threads as SafeRegion allows.  *)
LEMMA StepMoves ==
    ASSUME TimeoutIsLock = FALSE, IInv, [Next]_vars
    PROVE  Moves
<1> USE DEF IInv
<1>1. CASE UNCHANGED vars
  BY <1>1 DEF vars, Moves, Stays, Live, ActiveThreads, Active, Counted, Uncounted
<1>2. ASSUME NEW t \in Threads, Choose(t) \/ Continue(t) PROVE Moves
  <2>1. CASE BeginCollect(t)
    <3>1. t \in ActiveThreads /\ ActiveThreads' = ActiveThreads \ {t} /\ Live' = Live
      BY <2>1 DEF BeginCollect, Begin, Types, Live, ActiveThreads, Active, Counted, Uncounted
    <3>2. QED
      BY <3>1 DEF Moves, Pauses
  <2>2. CASE BeginBlocking(t)
    <3>1. t \in ActiveThreads /\ ActiveThreads' = ActiveThreads \ {t} /\ Live' = Live
      BY <2>2 DEF BeginBlocking, Begin, Types, Live, ActiveThreads, Active, Counted, Uncounted
    <3>2. QED
      BY <3>1 DEF Moves, Pauses
  <2>3. CASE BeginExit(t)
    <3>1. t \in ActiveThreads /\ ActiveThreads' = ActiveThreads \ {t} /\ Live' = Live
      BY <2>3 DEF BeginExit, Begin, Types, Live, ActiveThreads, Active, Counted, Uncounted
    <3>2. QED
      BY <3>1 DEF Moves, Pauses
  <2>4. CASE Unblock(t)
    BY <2>4 DEF Unblock, Live, ActiveThreads, Active, Counted, Uncounted, Moves, Stays
  <2>5. ASSUME NEW u \in Threads, BeginCreate(t, u) PROVE Moves
    <3>1. t \in ActiveThreads /\ ActiveThreads' = ActiveThreads \ {t} /\ Live' = Live
      BY <2>5 DEF BeginCreate, Types, Live, ActiveThreads, Active, Counted, Uncounted
    <3>2. QED
      BY <3>1 DEF Moves, Pauses
  <2>6. CASE InitRoots(t)
    BY <2>6 DEF InitRoots, Recount, Live, ActiveThreads, Active, Counted, Uncounted, Moves, Stays
  <2>7. CASE RaiseStop(t)
    BY <2>7 DEF RaiseStop, ArriveNext, Live, ActiveThreads, Active, Counted, Uncounted, Moves, Stays
  <2>8. CASE LowerStop(t)
    BY <2>8 DEF LowerStop, ArriveNext, Live, ActiveThreads, Active, Counted, Uncounted, Moves, Stays
  <2>9. CASE Collect(t)
    BY <2>9 DEF Collect, ArriveNext, Live, ActiveThreads, Active, Counted, Uncounted, Moves, Stays
  <2>10. CASE Restart(t)
    <3>1. t \in Live \ ActiveThreads /\ ActiveThreads' = ActiveThreads \union {t} /\ Live' = Live
      BY <2>10 DEF Restart, Released, Types, Live, ActiveThreads, Active, Counted, Uncounted
    <3>2. Collecting = {}
      BY <2>10, StoppedMeans DEF Restart, Owning, Collecting, WorldIsStopped, LetGo
    <3>3. QED
      BY <3>1, <3>2 DEF Moves, Resumes
  <2>11. CASE SeeStop(t)
    <3>1. CASE pc[t] = "running"
      <4>1. t \in ActiveThreads /\ ActiveThreads' = ActiveThreads \ {t} /\ Live' = Live
        BY <2>11, <3>1 DEF SeeStop, MayYield, LockAvailable, Types, Live, ActiveThreads, Active, Counted, Uncounted
      <4>2. QED
        BY <4>1 DEF Moves, Pauses
    <3>2. CASE pc[t] = "spin"
      BY <2>11, <3>2 DEF SeeStop, MayYield, LockAvailable, Live, ActiveThreads, Active, Counted, Uncounted, Moves, Stays
    <3>3. QED
      BY <2>11, <3>1, <3>2 DEF SeeStop, MayYield
  <2>12. CASE EnterYield(t)
    <3>1. stopTheWorld
      BY <2>12 DEF EnterYield, RoundsInv
    <3>2. QED
      BY <2>12, <3>1 DEF EnterYield, Types, Live, ActiveThreads, Active, Counted, Uncounted, Moves, Stays
  <2>13. CASE PushRoots(t)
    BY <2>13 DEF PushRoots, ArriveNext, Live, ActiveThreads, Active, Counted, Uncounted, Moves, Stays
  <2>14. CASE AllowCollection(t)
    BY <2>14 DEF AllowCollection, ArriveNext, Live, ActiveThreads, Active, Counted, Uncounted, Moves, Stays
  <2>15. CASE ReturnFromYield(t)
    <3>1. CASE op[t] = "none"
      <4>1. t \in Live \ ActiveThreads /\ ActiveThreads' = ActiveThreads \union {t} /\ Live' = Live
        BY <2>15, <3>1 DEF ReturnFromYield, Resumed, Types, Live, ActiveThreads, Active, Counted, Uncounted
      <4>2. t \in Counted /\ LetGo(t) = Barriers
        BY <2>15 DEF ReturnFromYield, Counted, Uncounted, LetGo
      <4>3. Collecting = {}
        BY <4>2, StoppedMeans, BarriersAssumption
      <4>4. QED
        BY <4>1, <4>3 DEF Moves, Resumes
    <3>2. CASE op[t] # "none"
      BY <2>15, <3>2 DEF ReturnFromYield, Resumed, Live, ActiveThreads, Active, Counted, Uncounted, Moves, Stays
    <3>3. QED
      BY <3>1, <3>2
  <2>16. CASE CountChild(t)
    BY <2>16 DEF CountChild, KnownCount, Recount, Types, ChildInv, Live, ActiveThreads, Active, Counted, Uncounted, Moves, Stays
  <2>17. CASE CountOutBlocking(t)
    BY <2>17 DEF CountOutBlocking, KnownCount, Recount, Live, ActiveThreads, Active, Counted, Uncounted, Moves, Stays
  <2>18. CASE CountInBlocking(t)
    BY <2>18 DEF CountInBlocking, Recount, Live, ActiveThreads, Active, Counted, Uncounted, Moves, Stays
  <2>19. CASE CountOutExit(t)
    <3>1. t \in Live \ ActiveThreads /\ Live' = Live \ {t} /\ ActiveThreads' = ActiveThreads
      BY <2>19 DEF CountOutExit, Recount, Types, Live, ActiveThreads, Active, Counted, Uncounted
    <3>2. Collecting = {}
      BY <2>19, StoppedMeans DEF CountOutExit, Owning, Collecting, WorldIsStopped
    <3>3. QED
      BY <3>1, <3>2 DEF Moves, Retires
  <2>20. CASE Unlock(t)
    <3>1. CASE op[t] \in {"create", "post"}
      <4>1. t \in Live \ ActiveThreads /\ ActiveThreads' = ActiveThreads \union {t} /\ Live' = Live
        BY <2>20, <3>1 DEF Unlock, AfterUnlock, Released, Types, Live, ActiveThreads, Active, Counted, Uncounted
      <4>2. Collecting = {}
        BY <2>20, StoppedMeans, BarriersAssumption
           DEF Unlock, Owning, Collecting, WorldIsStopped, LetGo, PlaceInv
      <4>3. QED
        BY <4>1, <4>2 DEF Moves, Resumes
    <3>2. CASE op[t] \in {"pre", "exit"}
      BY <2>20, <3>2 DEF Unlock, AfterUnlock, Released, Types, Live, ActiveThreads, Active, Counted, Uncounted, Moves, Stays
    <3>3. QED
      BY <2>20, <3>1, <3>2 DEF Unlock, PlaceInv
  <2>21. CASE Spawn(t)
    <3>1. t \in ActiveThreads /\ child[t] \in Threads \ Live
             /\ Live' = Live \union {child[t]} /\ ActiveThreads' = ActiveThreads \union {child[t]}
      BY <2>21 DEF Spawn, FinishCreate, Types, PlaceInv, ChildInv, Live, ActiveThreads, Active, Counted, Uncounted
    <3>2. QED
      BY <3>1 DEF Moves, Spawns
  <2>22. CASE SpawnFail(t)
    BY <2>22 DEF SpawnFail, FinishCreate, Types, PlaceInv, ChildInv, Live, ActiveThreads, Active, Counted, Uncounted, Moves, Stays
  <2>23. CASE Start(t)
    BY <2>23 DEF Start, Live, ActiveThreads, Active, Counted, Uncounted, Moves, Stays
  <2>24. CASE FreeGeneration(t)
    BY <2>24 DEF FreeGeneration, Live, ActiveThreads, Active, Counted, Uncounted, Moves, Stays
  <2>25. CASE Arrive(t)
    BY <2>25 DEF Arrive, Live, ActiveThreads, Active, Counted, Uncounted, Moves, Stays
  <2>26. CASE Pass(t)
    BY <2>26 DEF Pass, Leaving, Live, ActiveThreads, Active, Counted, Uncounted, Moves, Stays
  <2>27. CASE SweepOwnHeap(t)
    BY <2>27 DEF SweepOwnHeap, ArriveNext, Live, ActiveThreads, Active, Counted, Uncounted, Moves, Stays
  <2>28. CASE TryLock(t)
    BY <2>28 DEF TryLock, LockAvailable, Live, ActiveThreads, Active, Counted, Uncounted, Moves, Stays
  <2>29. QED
    BY <1>2, <2>1, <2>2, <2>3, <2>4, <2>5, <2>6, <2>7, <2>8, <2>9, <2>10, <2>11, <2>12, <2>13, <2>14, <2>15, <2>16, <2>17, <2>18, <2>19, <2>20, <2>21, <2>22, <2>23, <2>24, <2>25, <2>26, <2>27, <2>28 DEF Choose, Continue, Collector, Yielder, Counting
<1>3. QED
  BY <1>1, <1>2 DEF Next


(* The steps of World other than an arrival are steps of SafeRegion.       *)
LEMMA MovesRefine ==
    ASSUME Moves, Collecting' = Collecting, rootList' = rootList \/ Collecting = {}
    PROVE  [Region!Next]_(Region!vars)
<1>1. TheCollector' = TheCollector /\ Scanned' = Scanned
  BY DEF TheCollector, Scanned
<1>2. Collecting = {} => TheCollector = NoThread
  BY DEF TheCollector
<1>3. CASE Stays
  BY <1>1, <1>3 DEF Stays, Region!vars
<1>4. ASSUME NEW t \in Threads, Pauses(t) PROVE Region!Next
  BY <1>1, <1>4 DEF Pauses, Region!Next, Region!Pause
<1>5. ASSUME NEW t \in Threads, Resumes(t) PROVE Region!Next
  BY <1>1, <1>2, <1>5 DEF Resumes, Region!Next, Region!Resume
<1>6. ASSUME NEW t \in Threads, Retires(t) PROVE Region!Next
  BY <1>1, <1>2, <1>6 DEF Retires, Region!Next, Region!Retire
<1>7. ASSUME NEW t \in Threads, NEW u \in Threads, Spawns(t, u) PROVE Region!Next
  BY <1>1, <1>7 DEF Spawns, Region!Next, Region!Spawn
<1>8. QED
  BY <1>3, <1>4, <1>5, <1>6, <1>7 DEF Moves

(* An arrival that opens the barrier begins the collection after the       *)
(* second round and ends it in the last; any other changes nothing.        *)
LEMMA ArriveRefines ==
    ASSUME IInv, NEW t \in Threads, Arrive(t)
    PROVE  [Region!Next]_(Region!vars)
<1> USE BarriersAssumption DEF IInv
<1>1. Live' = Live /\ ActiveThreads' = ActiveThreads /\ Counted' = Counted
        /\ rootList' = rootList /\ op' = op
  BY DEF Arrive, lists, Types, Live, ActiveThreads, Active, Counted, Uncounted
<1>2. CASE Cardinality(barrier.arrived) + 1 # barrier.ct
  <2>1. Collecting' = Collecting
    BY <1>1, <1>2, ArriveWaits DEF Collecting, WorldIsStopped
  <2>2. QED
    BY <1>1, <2>1 DEF Region!vars, TheCollector, Scanned
<1>3. CASE Cardinality(barrier.arrived) + 1 = barrier.ct
  <2>1. PICK c \in Counted : OpensFor(c)
    BY <1>3, ArriveTogether
  <2>2. c \in Threads /\ \A d \in Threads : op[d] = "collecting" => d = c
    BY <2>1 DEF LockInv, Owning, Counted, OpensFor
  <2>3. LetGo(c) = round[c] - 1
    BY <2>1 DEF OpensFor
  <2>4. Collecting = IF round[c] \in 3 .. Barriers THEN {c} ELSE {}
    BY <2>1, <2>2, <2>3 DEF Collecting, WorldIsStopped, OpensFor
  <2>5. Collecting' = IF round[c] \in 2 .. Barriers - 1 THEN {c} ELSE {}
    BY <1>1, <2>1, <2>2 DEF Collecting, WorldIsStopped, OpensFor
  <2>6. CASE round[c] = 1
    <3>1. Collecting = {} /\ Collecting' = {}
      BY <2>4, <2>5, <2>6
    <3>2. QED
      BY <1>1, <3>1 DEF Region!vars, TheCollector, Scanned
  <2>7. CASE round[c] = 2
    <3>1. Collecting = {} /\ Collecting' = {c}
      BY <2>4, <2>5, <2>7
    <3>2. TheCollector = NoThread /\ TheCollector' = c /\ Scanned' = rootList
      BY <1>1, <3>1 DEF TheCollector, Scanned
    <3>3. ActiveThreads = {}
      BY <2>1 DEF ActiveThreads, Active, Counted, Uncounted, Out, InRounds, IInv, OpensFor
    <3>4. \A u \in Counted : InRounds(u)
      BY <2>1 DEF Out, OpensFor
    <3>5. Live = blockedThreads \union Counted
      BY <3>4 DEF BlockedInv, Live, InRounds, Counted
    <3>6. \A u \in Threads : u \in Counted <=> ~Out(u) /\ round[u] >= 2
      BY <2>1, <2>7 DEF Out, OpensFor
    <3>7. rootList = blockedThreads \union Counted
      BY <2>1, <2>2, <2>3, <2>7, <3>6 DEF RootsInv, Counted, OpensFor
    <3>8. Region!Begin(c)
      BY <1>1, <2>1, <3>2, <3>3, <3>5, <3>7 DEF Region!Begin
    <3>9. QED
      BY <2>2, <3>8 DEF Region!Next
  <2>8. CASE round[c] \in 3 .. Barriers - 1
    <3>1. Collecting = {c} /\ Collecting' = {c}
      BY <2>4, <2>5, <2>8
    <3>2. QED
      BY <1>1, <3>1 DEF Region!vars, TheCollector, Scanned
  <2>9. CASE round[c] = Barriers
    <3>1. Collecting = {c} /\ Collecting' = {}
      BY <2>4, <2>5, <2>9
    <3>2. TheCollector = c /\ TheCollector' = NoThread /\ Scanned' = {}
      BY <3>1 DEF TheCollector, Scanned
    <3>3. QED
      BY <1>1, <2>2, <3>2, NoThreadAssumption DEF Region!Next, Region!End
  <2>10. QED
    BY <2>1, <2>6, <2>7, <2>8, <2>9 DEF OpensFor
<1>4. QED
  BY <1>2, <1>3

(* Stopping the world implements SafeRegion: whatever the threads do, a    *)
(* collection runs only while no thread is active, and with exactly the    *)
(* live threads' roots.                                                    *)
THEOREM WorldImplementsSafeRegion == TimeoutIsLock = FALSE => (Spec => ImplementsSafeRegion)
<1> SUFFICES ASSUME TimeoutIsLock = FALSE PROVE Spec => Region!Spec
  BY DEF ImplementsSafeRegion
<1>1. Init => Region!Init
  <2> SUFFICES ASSUME Init PROVE Region!Init
    OBVIOUS
  <2>1. Live = {Main} /\ ActiveThreads = {Main}
    BY MainAssumption DEF Init, Live, ActiveThreads, Active, Counted, Uncounted
  <2>2. Collecting = {}
    BY DEF Init, Collecting, WorldIsStopped
  <2>3. QED
    BY <2>1, <2>2 DEF Region!Init, TheCollector, Scanned
<1>2. IInv /\ [Next]_vars => [Region!Next]_(Region!vars)
  <2> SUFFICES ASSUME IInv, [Next]_vars PROVE [Region!Next]_(Region!vars)
    OBVIOUS
  <2>1. CASE \E t \in Threads : Arrive(t)
    BY <2>1, ArriveRefines
  <2>2. CASE ~\E t \in Threads : Arrive(t)
    BY <2>2, StepMoves, OnlyArriveStops, MovesRefine
  <2>3. QED
    BY <2>1, <2>2
<1>3. QED
  BY <1>1, <1>2, InvariantIInv, PTL DEF Spec, Region!Spec

(* The world barrier is never made anew while a thread waits in it or is   *)
(* about to arrive, whichever operation recounts the threads.              *)
THEOREM BarrierIsNotLost == TimeoutIsLock = FALSE => (Spec => BarrierNotLost)
<1> SUFFICES ASSUME TimeoutIsLock = FALSE PROVE Spec => BarrierNotLost
  OBVIOUS
<1> DEFINE Quiet == barrier.arrived = {} /\ \A t \in Threads : pc[t] # "arrive"
<1>1. ASSUME IInv, [Next]_vars, barrier'.ct # barrier.ct PROVE Quiet
  <2> USE DEF IInv
  <2>1. PICK u \in Threads : CountStep(u)
    BY <1>1, CountStepOrQuiet DEF QuietStep
  <2>2. pc[u] = "locked" /\ op[u] # "collecting"
    BY <1>1, <2>1 DEF CountStep, CountChild, CountOutBlocking, CountInBlocking,
                      CountOutExit, InitRoots
  <2>3. \A c \in Threads : op[c] # "collecting"
    BY <1>1, <2>2 DEF LockInv, Owning
  <2>4. \A t \in Threads : Out(t)
    BY <1>1, <2>3 DEF RoundsInv
  <2>5. \A t \in Threads : pc[t] # "arrive" /\ t \notin barrier.arrived
    BY <1>1, <2>4 DEF Out, LetGo, InRounds, ArrivedInv, Types
  <2>6. barrier.arrived \in SUBSET Threads
    BY <1>1 DEF Types
  <2>7. QED
    BY <2>5, <2>6
<1>2. IInv /\ [Next]_vars => [barrier'.ct # barrier.ct => Quiet]_vars
  BY <1>1
<1>3. QED
  BY <1>2, InvariantIInv, PTL DEF Spec, BarrierNotLost
=============================================================================
