------------------------------- MODULE World --------------------------------
(***************************************************************************)
(* How GGGGC stops the world: the world barrier lock, the stop flag, the   *)
(* world barrier and its thread count, and every operation that uses them: *)
(* a collection, a yield, creating a thread, a thread's exit, and entering *)
(* and leaving a blocking call.                                            *)
(*                                                                         *)
(* One action is one step between two points at which another thread can   *)
(* be seen: taking the lock, reading the flag, arriving at the barrier,    *)
(* leaving it.  What a thread does to shared variables while it owns the   *)
(* lock and before it lets it go is one action.                            *)
(***************************************************************************)
EXTENDS Integers, FiniteSets

CONSTANTS
    Threads,        \* Every thread there may ever be (bounds thread creation).
    Main,           \* The thread the process starts with.
    NoThread,       \* Not a thread.
    Barriers,       \* Barrier rounds of one collection: 3 in gembc, 4 in portablems.
    SpawnMayFail,   \* TRUE if pthread_create may return an error.
    TimeoutIsLock   \* TRUE if trylock takes a timeout for the lock (windows.c).

ASSUME ThreadsAssumption  == IsFiniteSet(Threads)
ASSUME MainAssumption     == Main \in Threads
ASSUME NoThreadAssumption == NoThread \notin Threads
ASSUME BarriersAssumption == Barriers \in {3, 4}
ASSUME FlagsAssumption    == SpawnMayFail \in BOOLEAN /\ TimeoutIsLock \in BOOLEAN

VARIABLES
    pc,             \* Where each thread is.
    op,             \* The operation each thread is in the middle of.
    round,          \* The last barrier round each thread arrived for.
    child,          \* The thread each thread is creating, or NoThread.
    lock,           \* ggggc_worldBarrierLock: its owner or NoThread.
    stopTheWorld,   \* ggggc_stopTheWorld.
    threadCount,    \* ggggc_threadCount; -1 until the barrier is first needed.
    barrier,        \* ggggc_worldBarrier: its count (-1: never made) and who waits.
    blockedThreads, \* Owners of ggggc_blockedThreadPool0s and ..PointerStacks.
    rootList,       \* Owners of ggggc_rootPool0List and ..rootPointerStackList.
    rootJIT         \* Owners of the nodes of ggggc_rootJITPointerStackList.

vars == <<pc, op, round, child, lock, stopTheWorld, threadCount, barrier,
          blockedThreads, rootList, rootJIT>>

\* The variables that the lock, the flag and the barrier do not include.
lists   == <<blockedThreads, rootList, rootJIT>>
shared  == <<lock, stopTheWorld, threadCount, barrier, lists>>

Init ==
    /\ pc = [t \in Threads |-> IF t = Main THEN "running" ELSE "absent"]
    /\ op = [t \in Threads |-> "none"]
    /\ round = [t \in Threads |-> 0]
    /\ child = [t \in Threads |-> NoThread]
    /\ lock = NoThread
    /\ stopTheWorld = FALSE
    /\ threadCount = -1
    /\ barrier = [ct |-> -1, arrived |-> {}]
    /\ blockedThreads = {}
    /\ rootList = {}
    /\ rootJIT = {}

-----------------------------------------------------------------------------
(***************************************************************************)
(* A running thread starts an operation; each begins at the trylock loop.  *)
(***************************************************************************)
Begin(t, operation) ==
    /\ pc[t] = "running"
    /\ pc' = [pc EXCEPT ![t] = "spin"]
    /\ op' = [op EXCEPT ![t] = operation]
    /\ UNCHANGED <<round, child, shared>>

BeginCollect(t) == Begin(t, "collect")

BeginBlocking(t) == Begin(t, "pre")

\* The thread's function has returned; the main thread has no wrapper.
BeginExit(t) == t # Main /\ Begin(t, "exit")

\* ggc_thread_create, up to its trylock loop; u is the thread it will create.
BeginCreate(t, u) ==
    /\ pc[t] = "running"
    /\ pc[u] = "absent"
    /\ pc' = [pc EXCEPT ![t] = "spin", ![u] = "reserved"]
    /\ op' = [op EXCEPT ![t] = "create"]
    /\ child' = [child EXCEPT ![t] = u]
    /\ UNCHANGED <<round, shared>>

\* The call that blocked returns, and ggc_post_blocking begins.
Unblock(t) ==
    /\ pc[t] = "blocked"
    /\ pc' = [pc EXCEPT ![t] = "spin"]
    /\ op' = [op EXCEPT ![t] = "post"]
    /\ UNCHANGED <<round, child, shared>>

LockAvailable == lock = NoThread \/ TimeoutIsLock

TryLock(t) ==
    /\ pc[t] = "spin"
    /\ LockAvailable
    /\ lock' = IF lock = NoThread THEN t ELSE lock
    /\ pc' = [pc EXCEPT ![t] = "locked"]
    /\ UNCHANGED <<op, round, child, stopTheWorld, threadCount, barrier, lists>>

Released(t) == IF lock = t THEN NoThread ELSE lock

-----------------------------------------------------------------------------
(***************************************************************************)
(* Yielding.  GGC_YIELD reads the flag, and ggggc_yield reads it again.    *)
(* Every loop on the lock yields when it fails, except post_blocking's.    *)
(***************************************************************************)
\* Mutant of MayYield: the loops on the lock do not yield.
MayYieldRunning(t) == pc[t] = "running"

MayYield(t) ==
    \/ pc[t] = "running"
    \/ pc[t] = "spin" /\ op[t] # "post" /\ ~LockAvailable

SeeStop(t) ==
    /\ MayYield(t)
    /\ stopTheWorld
    /\ pc' = [pc EXCEPT ![t] = "seen"]
    /\ UNCHANGED <<op, round, child, shared>>

\* Where a yield returns to: the program, or the loop on the lock.
Resumed(t) == IF op[t] = "none" THEN "running" ELSE "spin"

EnterYield(t) ==
    /\ pc[t] = "seen"
    /\ IF stopTheWorld
       THEN /\ pc' = [pc EXCEPT ![t] = "arrive"]
            /\ round' = [round EXCEPT ![t] = 1]
       ELSE /\ pc' = [pc EXCEPT ![t] = Resumed(t)]
            /\ UNCHANGED round
    /\ UNCHANGED <<op, child, shared>>

-----------------------------------------------------------------------------
(***************************************************************************)
(* The barrier: the last of ct threads to arrive lets all of them go, and  *)
(* each then leaves in its own time.  A pthread barrier cannot be made for *)
(* no threads (EINVAL), and destroying one waits until all have left.      *)
(***************************************************************************)
\* Mutant of Arrive: the barrier opens for one thread too few.
ArriveOffByOne(t) ==
    /\ pc[t] = "arrive"
    /\ pc' = [pc EXCEPT ![t] = "wait"]
    /\ barrier' = [barrier EXCEPT !.arrived =
                     IF Cardinality(@) + 2 >= barrier.ct THEN {} ELSE @ \union {t}]
    /\ UNCHANGED <<op, round, child, lock, stopTheWorld, threadCount, lists>>

Arrive(t) ==
    /\ pc[t] = "arrive"
    /\ pc' = [pc EXCEPT ![t] = "wait"]
    /\ barrier' = [barrier EXCEPT !.arrived =
                     IF Cardinality(@) + 1 = barrier.ct THEN {} ELSE @ \union {t}]
    /\ UNCHANGED <<op, round, child, lock, stopTheWorld, threadCount, lists>>

\* Threads the barrier has let go and that have not left it yet.
Leaving == {t \in Threads : pc[t] = "wait" /\ t \notin barrier.arrived}

Pass(t) ==
    /\ t \in Leaving
    /\ pc' = [pc EXCEPT ![t] = "passed"]
    /\ UNCHANGED <<op, round, child, shared>>

\* Mutant of Recount: the barrier is not made anew.
RecountNoBarrier(count) ==
    /\ Leaving = {}
    /\ threadCount' = count
    /\ barrier' = IF barrier.ct = -1 THEN [ct |-> count, arrived |-> {}] ELSE barrier

Recount(count) ==
    /\ Leaving = {}
    /\ threadCount' = count
    /\ barrier' = IF count = 0 THEN barrier ELSE [ct |-> count, arrived |-> {}]

-----------------------------------------------------------------------------
(***************************************************************************)
(* The collector.                                                          *)
(***************************************************************************)
ArriveNext(t, r) ==
    /\ pc' = [pc EXCEPT ![t] = "arrive"]
    /\ round' = [round EXCEPT ![t] = r]

\* Mutant of InitRoots: without ggggc_blockedThreadPool0s and ..PointerStacks.
InitRootsUnblocked(t) ==
    /\ pc[t] = "locked"
    /\ op[t] = "collect"
    /\ pc' = [pc EXCEPT ![t] = "rooted"]
    /\ op' = [op EXCEPT ![t] = "collecting"]
    /\ IF threadCount = -1
       THEN Recount(1)
       ELSE UNCHANGED <<threadCount, barrier>>
    /\ rootList' = {t}
    /\ rootJIT' = {t}
    /\ UNCHANGED <<round, child, lock, stopTheWorld, blockedThreads>>

InitRoots(t) ==
    /\ pc[t] = "locked"
    /\ op[t] = "collect"
    /\ pc' = [pc EXCEPT ![t] = "rooted"]
    /\ op' = [op EXCEPT ![t] = "collecting"]
    /\ IF threadCount = -1
       THEN Recount(1)
       ELSE UNCHANGED <<threadCount, barrier>>
    /\ rootList' = {t} \union blockedThreads
    /\ rootJIT' = {t}       \* the list of blocked threads' JIT stacks is empty
    /\ UNCHANGED <<round, child, lock, stopTheWorld, blockedThreads>>

\* Mutant of RaiseStop: the lock is let go while the collection runs.
RaiseStopUnlocked(t) ==
    /\ pc[t] = "rooted"
    /\ stopTheWorld' = TRUE
    /\ lock' = Released(t)
    /\ ArriveNext(t, 1)
    /\ UNCHANGED <<op, child, threadCount, barrier, lists>>

RaiseStop(t) ==
    /\ pc[t] = "rooted"
    /\ stopTheWorld' = TRUE
    /\ ArriveNext(t, 1)
    /\ UNCHANGED <<op, child, lock, threadCount, barrier, lists>>

\* Mutant of LowerStop: the flag may be lowered before the barrier is passed.
LowerStopEarly(t) ==
    /\ round[t] = 1 /\ op[t] = "collecting"
    /\ IF pc[t] = "passed"
       THEN ArriveNext(t, 2)
       ELSE stopTheWorld /\ UNCHANGED <<pc, round>>
    /\ stopTheWorld' = FALSE
    /\ UNCHANGED <<op, child, lock, threadCount, barrier, lists>>

LowerStop(t) ==
    /\ pc[t] = "passed" /\ round[t] = 1 /\ op[t] = "collecting"
    /\ stopTheWorld' = FALSE
    /\ ArriveNext(t, 2)
    /\ UNCHANGED <<op, child, lock, threadCount, barrier, lists>>

\* The collection itself (gembc) or the marking (portablems).
Collect(t) ==
    /\ pc[t] = "passed" /\ round[t] = 2 /\ op[t] = "collecting"
    /\ ArriveNext(t, 3)
    /\ UNCHANGED <<op, child, shared>>

Restart(t) ==
    /\ pc[t] = "passed" /\ round[t] = Barriers /\ op[t] = "collecting"
    /\ pc' = [pc EXCEPT ![t] = "running"]
    /\ op' = [op EXCEPT ![t] = "none"]
    /\ round' = [round EXCEPT ![t] = 0]
    /\ lock' = Released(t)
    /\ UNCHANGED <<child, stopTheWorld, threadCount, barrier, lists>>

\* Mutant of SweepOwnHeap: no barrier after the sweep.
SweepUnmet(t) ==
    /\ pc[t] = "passed" /\ round[t] = 3 /\ Barriers = 4
    /\ round' = [round EXCEPT ![t] = 4]
    /\ UNCHANGED <<pc, op, child, shared>>

\* portablems: between the last two rounds every thread sweeps its own heap.
SweepOwnHeap(t) ==
    /\ pc[t] = "passed" /\ round[t] = 3 /\ Barriers = 4
    /\ ArriveNext(t, 4)
    /\ UNCHANGED <<op, child, shared>>

-----------------------------------------------------------------------------
(***************************************************************************)
(* The threads that yield to it.                                           *)
(***************************************************************************)
PushRoots(t) ==
    /\ pc[t] = "passed" /\ round[t] = 1 /\ op[t] # "collecting"
    /\ rootList' = rootList \union {t}
    /\ rootJIT' = rootJIT \union {t}
    /\ ArriveNext(t, 2)
    /\ UNCHANGED <<op, child, lock, stopTheWorld, threadCount, barrier, blockedThreads>>

AllowCollection(t) ==
    /\ pc[t] = "passed" /\ round[t] = 2 /\ op[t] # "collecting"
    /\ ArriveNext(t, 3)
    /\ UNCHANGED <<op, child, shared>>

\* Mutant of ReturnFromYield: back to the program one barrier early.
ReturnFromYieldEarly(t) ==
    /\ pc[t] = "passed" /\ round[t] = Barriers - 1 /\ op[t] # "collecting"
    /\ pc' = [pc EXCEPT ![t] = Resumed(t)]
    /\ round' = [round EXCEPT ![t] = 0]
    /\ UNCHANGED <<op, child, shared>>

ReturnFromYield(t) ==
    /\ pc[t] = "passed" /\ round[t] = Barriers /\ op[t] # "collecting"
    /\ pc' = [pc EXCEPT ![t] = Resumed(t)]
    /\ round' = [round EXCEPT ![t] = 0]
    /\ UNCHANGED <<op, child, shared>>

-----------------------------------------------------------------------------
(***************************************************************************)
(* The operations that change the number of threads.                       *)
(***************************************************************************)

\* Mutant of KnownCount: the test for the count's first use is missing.
KnownCountUntested == threadCount

\* The count before this operation, were it known: nobody counted Main yet.
KnownCount == IF threadCount = -1 THEN 1 ELSE threadCount

CountChild(t) ==
    /\ pc[t] = "locked" /\ op[t] = "create"
    /\ Recount(KnownCount + 1)
    /\ pc' = [pc EXCEPT ![t] = "unlock", ![child[t]] = "spawning"]
    /\ UNCHANGED <<op, round, child, lock, stopTheWorld, lists>>

\* Mutant of CountOutBlocking: the thread does not store its roots aside.
CountOutUnstored(t) ==
    /\ pc[t] = "locked" /\ op[t] = "pre"
    /\ Recount(KnownCount - 1)
    /\ pc' = [pc EXCEPT ![t] = "unlock"]
    /\ UNCHANGED <<op, round, child, lock, stopTheWorld, lists>>

CountOutBlocking(t) ==
    /\ pc[t] = "locked" /\ op[t] = "pre"
    /\ Recount(KnownCount - 1)
    /\ blockedThreads' = blockedThreads \union {t}
    /\ pc' = [pc EXCEPT ![t] = "unlock"]
    /\ UNCHANGED <<op, round, child, lock, stopTheWorld, rootList, rootJIT>>

\* Mutant of CountInBlocking: the thread's roots stay on the blocked lists.
CountInStored(t) ==
    /\ pc[t] = "locked" /\ op[t] = "post"
    /\ Recount(threadCount + 1)
    /\ pc' = [pc EXCEPT ![t] = "unlock"]
    /\ UNCHANGED <<op, round, child, lock, stopTheWorld, lists>>

CountInBlocking(t) ==
    /\ pc[t] = "locked" /\ op[t] = "post"
    /\ Recount(threadCount + 1)
    /\ blockedThreads' = blockedThreads \ {t}
    /\ pc' = [pc EXCEPT ![t] = "unlock"]
    /\ UNCHANGED <<op, round, child, lock, stopTheWorld, rootList, rootJIT>>

\* Mutant of CountOutExit: the count is not decremented.
ExitUncounted(t) ==
    /\ pc[t] = "locked" /\ op[t] = "exit"
    /\ Recount(threadCount)
    /\ pc' = [pc EXCEPT ![t] = "unlock"]
    /\ UNCHANGED <<op, round, child, lock, stopTheWorld, lists>>

CountOutExit(t) ==
    /\ pc[t] = "locked" /\ op[t] = "exit"
    /\ Recount(threadCount - 1)
    /\ pc' = [pc EXCEPT ![t] = "unlock"]
    /\ UNCHANGED <<op, round, child, lock, stopTheWorld, lists>>

\* Where each of these operations goes on once it has let go of the lock.
AfterUnlock(operation) ==
    CASE operation = "create" -> "spawn"
      [] operation = "pre"    -> "blocked"
      [] operation = "post"   -> "running"
      [] operation = "exit"   -> "freeing"

Unlock(t) ==
    /\ pc[t] = "unlock"
    /\ lock' = Released(t)
    /\ pc' = [pc EXCEPT ![t] = AfterUnlock(op[t])]
    /\ op' = [op EXCEPT ![t] = IF @ = "create" THEN @ ELSE "none"]
    /\ UNCHANGED <<round, child, stopTheWorld, threadCount, barrier, lists>>

\* pthread_create returns; on failure nothing is undone.
FinishCreate(t, outcome) ==
    /\ pc[t] = "spawn"
    /\ pc' = [pc EXCEPT ![t] = "running", ![child[t]] = outcome]
    /\ op' = [op EXCEPT ![t] = "none"]
    /\ child' = [child EXCEPT ![t] = NoThread]
    /\ UNCHANGED <<round, shared>>

Spawn(t) == FinishCreate(t, "starting")

SpawnFail(t) == SpawnMayFail /\ FinishCreate(t, "failed")

\* The new thread pushes its thread info and calls its function.
Start(t) ==
    /\ pc[t] = "starting"
    /\ pc' = [pc EXCEPT ![t] = "running"]
    /\ UNCHANGED <<op, round, child, shared>>

\* The exiting thread gives back its pools.
FreeGeneration(t) ==
    /\ pc[t] = "freeing"
    /\ pc' = [pc EXCEPT ![t] = "dead"]
    /\ UNCHANGED <<op, round, child, shared>>

-----------------------------------------------------------------------------
\* What a thread does of its own choice, and what it must go on to do.
Choose(t) ==
    \/ BeginCollect(t) \/ BeginBlocking(t) \/ BeginExit(t) \/ Unblock(t)
    \/ \E u \in Threads : BeginCreate(t, u)

Collector(t) ==
    \/ InitRoots(t) \/ RaiseStop(t) \/ LowerStop(t) \/ Collect(t) \/ Restart(t)

Yielder(t) ==
    \/ SeeStop(t) \/ EnterYield(t) \/ PushRoots(t) \/ AllowCollection(t)
    \/ ReturnFromYield(t)

Counting(t) ==
    \/ CountChild(t) \/ CountOutBlocking(t) \/ CountInBlocking(t) \/ CountOutExit(t)
    \/ Unlock(t) \/ Spawn(t) \/ SpawnFail(t) \/ Start(t) \/ FreeGeneration(t)

Continue(t) ==
    \/ Collector(t) \/ Yielder(t) \/ Counting(t)
    \/ Arrive(t) \/ Pass(t) \/ SweepOwnHeap(t) \/ TryLock(t)

Next == \E t \in Threads : Choose(t) \/ Continue(t)

Spec == Init /\ [][Next]_vars

(***************************************************************************)
(* Every thread goes on with what it has begun, and a program that uses    *)
(* the collector yields: that is the contract of GGC_YIELD.  Whether a     *)
(* thread starts another operation, or its blocking call ever returns, is  *)
(* left open.                                                              *)
(***************************************************************************)
Fairness ==
    \A t \in Threads :
        /\ WF_vars(Collector(t))
        /\ WF_vars(Yielder(t))
        /\ WF_vars(Counting(t))
        /\ WF_vars(Arrive(t) \/ Pass(t) \/ SweepOwnHeap(t))

FairSpec == Spec /\ Fairness

-----------------------------------------------------------------------------
(***************************************************************************)
(* Properties.                                                             *)
(***************************************************************************)
Operations == {"none", "collect", "collecting", "create", "pre", "post", "exit"}

Places == {"absent", "reserved", "spawning", "failed", "starting", "running",
           "spin", "locked", "rooted", "seen", "arrive", "wait", "passed",
           "unlock", "spawn", "blocked", "freeing", "dead"}

(* Every variable has its type: unsigned counts are -1 or the number of    *)
(* threads, and only threads are ever in the barrier or in a list.         *)
TypeOk ==
    /\ pc \in [Threads -> Places]
    /\ op \in [Threads -> Operations]
    /\ round \in [Threads -> 0 .. Barriers]
    /\ child \in [Threads -> Threads \union {NoThread}]
    /\ lock \in Threads \union {NoThread}
    /\ stopTheWorld \in BOOLEAN
    /\ threadCount \in -1 .. Cardinality(Threads)
    /\ barrier \in [ct : -1 .. Cardinality(Threads), arrived : SUBSET Threads]
    /\ blockedThreads \in SUBSET Threads
    /\ rootList \in SUBSET Threads
    /\ rootJIT \in SUBSET Threads

\* Threads that touch objects, or carry a reference that no stack has yet.
Active(t) == pc[t] \in {"running", "starting", "spawn"}

\* Threads outside the world barrier: not there, or blocked.
Uncounted(t) ==
    \/ pc[t] \in {"absent", "reserved", "blocked", "freeing", "dead"}
    \/ pc[t] \in {"spin", "locked"} /\ op[t] = "post"
    \/ pc[t] = "unlock" /\ op[t] \in {"pre", "exit"}

Counted == {t \in Threads : ~Uncounted(t)}

\* How many barriers of its present collection or yield have let t go.
LetGo(t) ==
    IF pc[t] = "passed" \/ (pc[t] = "wait" /\ t \notin barrier.arrived) THEN round[t]
    ELSE IF pc[t] \in {"arrive", "wait"} THEN round[t] - 1
    ELSE 0

\* t collects, and every round from the second to the last but one is over.
WorldIsStopped(t) == op[t] = "collecting" /\ LetGo(t) \in 2 .. Barriers - 1

(* While a collection runs, from the barrier that ends the gathering of    *)
(* roots to the one that restarts the world (gembc.c:466-722), no thread   *)
(* runs program code, no new thread holds an unregistered ThreadInfo, and  *)
(* nobody else collects.                                                   *)
WorldStopped ==
    \A t \in Threads : WorldIsStopped(t) =>
        \A u \in Threads : ~Active(u) /\ (WorldIsStopped(u) => u = t)

\* Threads whose pointer stacks refer to objects: counted or blocked ones.
Live == {t \in Threads : \/ t \in Counted /\ pc[t] \notin {"spawning", "failed"}
                         \/ pc[t] = "blocked"
                         \/ pc[t] \in {"spin", "locked"} /\ op[t] = "post"
                         \/ pc[t] = "unlock" /\ op[t] = "pre"}

(* The collector's root lists hold the stacks and pools of every thread    *)
(* that has references and of no other: none is forgotten, and no node on  *)
(* the list belongs to a thread that has left (the nodes are locals of     *)
(* ggggc_yield, gembc.c:1303-1320, or thread-locals, threads.c:61-82).     *)
RootsComplete == \A t \in Threads : WorldIsStopped(t) => rootList = Live

(* The same for the JIT stacks, of which a blocked thread must store its   *)
(* own aside too (ggggc-internals.h:90-95).                                *)
JITRootsComplete == \A t \in Threads : WorldIsStopped(t) => Live \subseteq rootJIT

(* Outside the lock, the thread count is the number of threads in the      *)
(* system that are not blocked (ggggc-internals.h:66): threads that were   *)
(* never started are not in the system.                                    *)
ThreadCountExact ==
    lock = NoThread /\ threadCount # -1 =>
        threadCount = Cardinality({t \in Counted : pc[t] # "failed"})

(* A barrier that somebody may wait in is one made for the current count.  *)
BarrierCurrent ==
    \A t \in Threads : pc[t] \in {"rooted", "arrive", "passed"} => barrier.ct = threadCount

(* The world barrier is never destroyed or made anew under a thread that   *)
(* waits in it or is about to arrive (threads.c:51-52, 73-74, 100-101):    *)
(* that thread would wait forever.                                         *)
BarrierNotLost ==
    [][barrier'.ct # barrier.ct =>
        /\ barrier.arrived = {}
        /\ \A t \in Threads : pc[t] # "arrive"]_vars

(* A thread that saw the flag in GGC_YIELD (gc.h:431) finds it still       *)
(* raised when ggggc_yield reads it again, outside any lock: otherwise it  *)
(* would return to the program while the collector counts on it.           *)
SeenStopStaysRaised == \A t \in Threads : pc[t] = "seen" => stopTheWorld

(* Threads inside the rounds of a collection are never out of step: one    *)
(* that is pushing its roots, marking or sweeping is not met by one that   *)
(* is a round ahead or behind, except on the way out of the last round.    *)
PhaseAgreement ==
    \A t, u \in Threads :
        pc[t] = "passed" /\ round[t] < Barriers /\ u \in Counted =>
            LetGo(u) = round[t]

(* Only one thread at a time is between taking and releasing the world     *)
(* barrier lock ("It should be acquired to change any of these, and by the *)
(* main thread during collection", ggggc-internals.h:58-59).               *)
Owning(t) == pc[t] \in {"locked", "rooted", "unlock"} \/ op[t] = "collecting"
MutualExclusion == \A t, u \in Threads : Owning(t) /\ Owning(u) => t = u

(* A collection that has begun ends: the lock does not stay taken.         *)
CollectionCompletes == \A t \in Threads : op[t] = "collecting" ~> op[t] = "none"

(* A thread that begins to yield gets back to what it was doing.           *)
YieldReturns == \A t \in Threads : pc[t] = "seen" ~> pc[t] \in {"running", "spin"}

(* What all of it is for: the collector has the heap to itself, with the   *)
(* roots of exactly the live threads.                                      *)
Collecting == {t \in Threads : WorldIsStopped(t)}

ActiveThreads == {t \in Threads : Active(t)}
TheCollector  == IF Collecting = {} THEN NoThread ELSE CHOOSE t \in Collecting : TRUE
Scanned       == IF Collecting = {} THEN {} ELSE rootList

Region == INSTANCE SafeRegion WITH
    live <- Live, active <- ActiveThreads, collector <- TheCollector, scanned <- Scanned

ImplementsSafeRegion == Region!Spec

=============================================================================
