----------------------------- MODULE GenBarrier -----------------------------
(***************************************************************************)
(* The barrier of gen-barriers.c, for systems without one: a mutex, a      *)
(* count and two semaphores, and the threads that stop the world with it.  *)
(*                                                                         *)
(* A semaphore is an object of its own that the barrier refers to.  When   *)
(* the barrier is made anew it refers to new ones, while a thread that     *)
(* already waits does so on the old one.  The mutex lives in the barrier   *)
(* and is overwritten.  A follower's critical section does not wait, so it *)
(* is one step; the last thread's does.                                    *)
(*                                                                         *)
(* Whoever makes the barrier anew owns the world barrier lock and does not *)
(* look whether the last wait of the collection before is over.  The       *)
(* history variable early remembers that it was not.                       *)
(***************************************************************************)
EXTENDS Integers, FiniteSets

CONSTANTS
    Threads,
    NoThread,
    Rounds,         \* Waits of one collection (3 or 4); then the lock is free.
    MaxMade         \* Bound: how often the barrier is made.

ASSUME GenThreads == IsFiniteSet(Threads) /\ Threads # {} /\ NoThread \notin Threads
ASSUME GenBounds  == Rounds \in Nat \ {0} /\ MaxMade \in Nat \ {0}

VARIABLES
    pc,         \* Where each thread is in ggc_barrier_wait_raw; "out": not in it.
    i,          \* The loop counter of the last thread to arrive.
    on,         \* The barrier whose semaphore each thread waits on.
    round,      \* How many waits each thread has begun in this collection.
    members,    \* The threads that are counted.
    early,      \* TRUE once the barrier was made anew with a thread inside it.
    made,       \* How often the barrier was made: which semaphores it has now.
    lock,       \* barrier->lock: its owner or NoThread.
    cur,        \* barrier->cur.
    ct,         \* barrier->ct.
    waiters,    \* Value of each barrier's waiters semaphore.
    leader      \* Value of each barrier's leader semaphore.

client  == <<round, members, early>>
barrier == <<lock, cur, ct>>
sems    == <<waiters, leader>>
vars    == <<pc, i, on, client, made, barrier, sems>>

Init ==
    /\ pc = [t \in Threads |-> "out"]
    /\ i = [t \in Threads |-> 0]
    /\ on = [t \in Threads |-> 1]
    /\ round = [t \in Threads |-> 0]
    /\ members = Threads
    /\ early = FALSE
    /\ made = 1
    /\ lock = NoThread
    /\ cur = 0
    /\ ct = Cardinality(Threads)
    /\ waiters = [k \in 1 .. MaxMade |-> 0]
    /\ leader = [k \in 1 .. MaxMade |-> 0]

Goto(t, place) == pc' = [pc EXCEPT ![t] = place]

-----------------------------------------------------------------------------
(***************************************************************************)
(* Semaphores: a post is for the barrier's present one, and a wait for the *)
(* one the thread has got hold of.                                         *)
(***************************************************************************)
Posted(sem) == [sem EXCEPT ![made] = @ + 1]

CanWake(sem, t) == sem[on[t]] > 0

Woken(sem, t) == [sem EXCEPT ![on[t]] = @ - 1]

-----------------------------------------------------------------------------
\* A member of the world goes to its next barrier.
Enter(t) ==
    /\ t \in members
    /\ pc[t] = "out"
    /\ round[t] < Rounds
    /\ Goto(t, "lock")
    /\ round' = [round EXCEPT ![t] = @ + 1]
    /\ UNCHANGED <<i, on, members, early, made, barrier, sems>>

\* Not the last one: count, let the lock go, and wait.
Follow(t) ==
    /\ pc[t] = "lock"
    /\ lock = NoThread
    /\ cur # ct - 1
    /\ cur' = cur + 1
    /\ Goto(t, "wait")
    /\ UNCHANGED <<i, on, client, made, lock, ct, sems>>

StartWait(t) ==
    /\ pc[t] = "wait"
    /\ on' = [on EXCEPT ![t] = made]
    /\ Goto(t, "waiting")
    /\ UNCHANGED <<i, client, made, barrier, sems>>

\* Mutant of Wake: a follower does not wait.
WakeAtOnce(t) ==
    /\ pc[t] = "waiting"
    /\ Goto(t, "awake")
    /\ UNCHANGED <<i, on, client, made, barrier, sems>>

Wake(t) ==
    /\ pc[t] = "waiting"
    /\ CanWake(waiters, t)
    /\ waiters' = Woken(waiters, t)
    /\ Goto(t, "awake")
    /\ UNCHANGED <<i, on, client, made, barrier, leader>>

\* The follower tells the leader and returns.
Return(t) ==
    /\ pc[t] = "awake"
    /\ leader' = Posted(leader)
    /\ Goto(t, "out")
    /\ UNCHANGED <<i, on, client, made, barrier, waiters>>

\* The last one keeps the lock.
Lead(t) ==
    /\ pc[t] = "lock"
    /\ lock = NoThread
    /\ cur = ct - 1
    /\ lock' = t
    /\ i' = [i EXCEPT ![t] = 0]
    /\ Goto(t, "signal")
    /\ UNCHANGED <<on, client, made, cur, ct, sems>>

Signal(t) ==
    /\ pc[t] = "signal"
    /\ i[t] < cur
    /\ waiters' = Posted(waiters)
    /\ i' = [i EXCEPT ![t] = @ + 1]
    /\ UNCHANGED <<pc, on, client, made, barrier, leader>>

Signalled(t) ==
    /\ pc[t] = "signal"
    /\ i[t] >= cur
    /\ i' = [i EXCEPT ![t] = 0]
    /\ Goto(t, "gather")
    /\ UNCHANGED <<on, client, made, barrier, sems>>

StartGather(t) ==
    /\ pc[t] = "gather"
    /\ i[t] < cur
    /\ Goto(t, "load")
    /\ UNCHANGED <<i, on, client, made, barrier, sems>>

LoadLeader(t) ==
    /\ pc[t] = "load"
    /\ on' = [on EXCEPT ![t] = made]
    /\ Goto(t, "gathering")
    /\ UNCHANGED <<i, client, made, barrier, sems>>

Gather(t) ==
    /\ pc[t] = "gathering"
    /\ CanWake(leader, t)
    /\ leader' = Woken(leader, t)
    /\ i' = [i EXCEPT ![t] = @ + 1]
    /\ Goto(t, "gather")
    /\ UNCHANGED <<on, client, made, barrier, waiters>>

\* Mutant of Gathered: the leader does not wait for all to wake up.
GatheredEarly(t) ==
    /\ pc[t] = "gather"
    /\ i[t] + 1 >= cur
    /\ cur' = 0
    /\ lock' = NoThread
    /\ Goto(t, "out")
    /\ UNCHANGED <<i, on, client, made, ct, sems>>

\* Mutant of Gathered: the barrier is not reset.
GatheredNoReset(t) ==
    /\ pc[t] = "gather"
    /\ i[t] >= cur
    /\ lock' = NoThread
    /\ Goto(t, "out")
    /\ UNCHANGED <<i, on, client, made, cur, ct, sems>>

\* Everybody is awake: reset the barrier and return.
Gathered(t) ==
    /\ pc[t] = "gather"
    /\ i[t] >= cur
    /\ cur' = 0
    /\ lock' = NoThread
    /\ Goto(t, "out")
    /\ UNCHANGED <<i, on, client, made, ct, sems>>

-----------------------------------------------------------------------------
(***************************************************************************)
(* Destroying the barrier and making it for the threads S.  Whoever does   *)
(* so owns the world barrier lock: either no collection has begun, or the  *)
(* collector has returned from its last wait and given the lock back, and  *)
(* others may be in that wait yet.  No thread is about to arrive (World's  *)
(* BarrierNotLost).                                                        *)
(***************************************************************************)
Inside == {t \in Threads : pc[t] # "out"}

CollectionOver ==
    \/ \A t \in members : round[t] = 0
    \/ \E t \in members : pc[t] = "out" /\ round[t] = Rounds

\* A thread blocks or ends; one returns from blocking or is created.
OneMoreOrLess(S) ==
    \/ \E t \in members : S = members \ {t}
    \/ \E t \in Threads \ members : S = members \union {t}

\* Mutant of Remake: made for one thread too few.
RemakeTooFew(S) ==
    /\ made < MaxMade
    /\ CollectionOver
    /\ OneMoreOrLess(S)
    /\ S # {}
    /\ Inside \subseteq S
    /\ made' = made + 1
    /\ early' = (early \/ Inside # {})
    /\ members' = S
    /\ round' = [t \in Threads |-> 0]
    /\ lock' = NoThread
    /\ cur' = 0
    /\ ct' = Cardinality(S) - 1
    /\ UNCHANGED <<pc, i, on, sems>>

Remake(S) ==
    /\ made < MaxMade
    /\ CollectionOver
    /\ OneMoreOrLess(S)
    /\ S # {}
    /\ Inside \subseteq S
    /\ made' = made + 1
    /\ early' = (early \/ Inside # {})
    /\ members' = S
    /\ round' = [t \in Threads |-> 0]
    /\ lock' = NoThread
    /\ cur' = 0
    /\ ct' = Cardinality(S)
    /\ UNCHANGED <<pc, i, on, sems>>

Wait(t) ==
    \/ Follow(t) \/ StartWait(t) \/ Wake(t) \/ Return(t)
    \/ Lead(t) \/ Signal(t) \/ Signalled(t)
    \/ StartGather(t) \/ LoadLeader(t) \/ Gather(t) \/ Gathered(t)

Next ==
    \/ \E t \in Threads : Enter(t) \/ Wait(t)
    \/ \E S \in SUBSET Threads : Remake(S)

Spec == Init /\ [][Next]_vars

\* Threads that have begun to wait go on, and all that are counted come.
FairSpec == Spec /\ \A t \in Threads : WF_vars(Enter(t)) /\ WF_vars(Wait(t))

-----------------------------------------------------------------------------
(***************************************************************************)
(* Properties.                                                             *)
(***************************************************************************)
Places ==
    {"out", "lock", "wait", "waiting", "awake", "signal", "gather", "load", "gathering"}

(* Every variable has its type, however the barrier is remade: the count   *)
(* stays below what the barrier is made for, and no semaphore is waited    *)
(* for below zero.                                                         *)
TypeOk ==
    /\ pc \in [Threads -> Places]
    /\ i \in [Threads -> 0 .. Cardinality(Threads)]
    /\ on \in [Threads -> 1 .. MaxMade]
    /\ round \in [Threads -> 0 .. Rounds]
    /\ members \in SUBSET Threads
    /\ early \in BOOLEAN
    /\ made \in 1 .. MaxMade
    /\ lock \in Threads \union {NoThread}
    /\ ct \in 1 .. Cardinality(Threads)
    /\ cur \in 0 .. ct - 1
    /\ waiters \in [1 .. MaxMade -> Nat]
    /\ leader \in [1 .. MaxMade -> Nat]

(* As long as the barrier has not been made anew under a thread inside it, *)
(* nobody returns from a wait before every counted thread has come to it   *)
(* ("otherwise, wait on the others", gen-barriers.c:54).                   *)
NobodyLeavesEarly ==
    ~early => \A t \in members : pc[t] = "out" => \A u \in members : round[u] >= round[t]

(* Every wait returns, unless the barrier is made anew under it.           *)
WaitsReturnIfIntact == \A t \in Threads : pc[t] # "out" ~> pc[t] = "out" \/ early

(* What the comments say: the last thread signals all the others and waits *)
(* for them to wake up, and then all of them return (gen-barriers.c:42-60).*)
(* The code breaks it, as nothing keeps threads.c from making the barrier  *)
(* anew while a follower has not told the leader that it is awake.         *)
WaitsReturn == \A t \in Threads : pc[t] # "out" ~> pc[t] = "out"

(* It is a barrier, what World takes pthread barriers to be, until it is   *)
(* made anew with somebody inside.                                         *)
Arrived ==
    IF lock = NoThread THEN {t \in Threads : pc[t] \in {"wait", "waiting"}} ELSE {}

Abstract == INSTANCE CountedBarrier WITH
    First <- Cardinality(Threads), inside <- Inside \ {t \in Threads : pc[t] = "lock"},
    arrived <- Arrived, broken <- early

ImplementsCountedBarrier == Abstract!Spec
=============================================================================
