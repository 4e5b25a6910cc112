-------------------------- MODULE GenBarrierProofs --------------------------
(***************************************************************************)
(* Proofs about GenBarrier, for any number of threads, rounds and          *)
(* remakings: it is the barrier World assumes, until it is made anew with  *)
(* somebody inside (the code does, so no theorem assumes that it does      *)
(* not), and its counters are in bounds even then.                         *)
(***************************************************************************)
EXTENDS GenBarrier, FiniteSetTheorems, TLAPS

\* Followers that no semaphore has woken yet, and those that one has.
Waiting == {t \in Threads : pc[t] \in {"wait", "waiting"}}
Awake   == {t \in Threads : pc[t] = "awake"}

\* Where only the thread is that came last, and has the lock.
Leading == {"signal", "gather", "load", "gathering"}

Types ==
    /\ pc \in [Threads -> Places]
    /\ i \in [Threads -> Nat]
    /\ on \in [Threads -> 1 .. MaxMade]
    /\ round \in [Threads -> Nat]
    /\ members \in SUBSET Threads
    /\ made \in 1 .. MaxMade
    /\ lock \in Threads \union {NoThread}
    /\ cur \in Nat
    /\ ct \in Nat
    /\ waiters \in [1 .. MaxMade -> Int]
    /\ leader \in [1 .. MaxMade -> Int]

\* The lock's owner is the one thread that leads, and whoever is at a
\* semaphore is at one of the present barrier.
LockInv ==
    /\ lock = NoThread => \A t \in Threads : pc[t] \notin Leading
    /\ \A t \in Threads : lock = t => pc[t] \in Leading
    /\ \A t, u \in Threads : lock = t /\ pc[u] \in Leading => t = u
    /\ \A t \in Threads : pc[t] \in {"waiting", "gathering"} => on[t] = made

MembersInv ==
    /\ \A t \in Threads : pc[t] # "out" => t \in members
    /\ members # {}
    /\ ct = Cardinality(members)

\* Semaphores that were not made yet have no posts.
FreshInv == \A k \in 1 .. MaxMade : k > made => waiters[k] = 0 /\ leader[k] = 0

\* What count, semaphores and the leader's loop say about who waits and who is awake.
FreeInv ==
    lock = NoThread =>
        /\ Cardinality(Awake) = 0
        /\ waiters[made] = 0
        /\ leader[made] = 0
        /\ cur = Cardinality(Waiting)
        /\ cur < ct

SignalInv ==
    \A t \in Threads : pc[t] = "signal" =>
        /\ i[t] <= cur
        /\ i[t] + Cardinality(Waiting) = waiters[made] + cur
        /\ leader[made] + Cardinality(Awake) + Cardinality(Waiting) = cur

GatherInv ==
    \A t \in Threads : pc[t] \in {"gather", "load", "gathering"} =>
        /\ waiters[made] = Cardinality(Waiting)
        /\ i[t] + leader[made] + Cardinality(Awake) + Cardinality(Waiting) = cur

PostsInv == waiters[made] >= 0 /\ leader[made] >= 0

\* Threads that are not inside are a round behind those that wait; once the
\* last one has come they are in the same round, and a round behind those that
\* already come to the next.
RoundsInv ==
    \E r \in Nat : \A t \in members :
        round[t] = IF IF lock = NoThread THEN pc[t] = "out" ELSE pc[t] # "lock"
                   THEN r ELSE r + 1

CountsInv == FreeInv /\ SignalInv /\ GatherInv /\ PostsInv

IInv == Types /\ LockInv /\ MembersInv /\ FreshInv /\ CountsInv /\ RoundsInv

-----------------------------------------------------------------------------
(* Sizes of sets of threads: one thread more or less is one more or less.  *)
LEMMA SubsetSize ==
    ASSUME NEW S \in SUBSET Threads
    PROVE  /\ IsFiniteSet(S)
           /\ Cardinality(S) \in 0 .. Cardinality(Threads)
           /\ Cardinality(S) = 0 <=> S = {}
           /\ \A x \in S : Cardinality(S \ {x}) = Cardinality(S) - 1
           /\ \A x : x \notin S => Cardinality(S \union {x}) = Cardinality(S) + 1
           /\ \A T \in SUBSET S : Cardinality(T) = Cardinality(S) => T = S
<1>1. IsFiniteSet(S) /\ Cardinality(S) \in Nat /\ Cardinality(Threads) \in Nat
        /\ Cardinality(S) <= Cardinality(Threads)
  BY GenThreads, FS_Subset, FS_CardinalityType
<1>2. Cardinality(S) = 0 <=> S = {}
  BY <1>1, FS_EmptySet
<1>3. ASSUME NEW x \in S PROVE Cardinality(S \ {x}) = Cardinality(S) - 1
  BY <1>1, FS_RemoveElement
<1>4. ASSUME NEW x, x \notin S PROVE Cardinality(S \union {x}) = Cardinality(S) + 1
  BY <1>1, <1>4, FS_AddElement
<1>5. ASSUME NEW T \in SUBSET S, Cardinality(T) = Cardinality(S) PROVE T = S
  BY <1>1, <1>5, FS_Subset
<1>6. QED
  BY <1>1, <1>2, <1>3, <1>4, <1>5

(* Posting or waiting on a semaphore leaves all of them integers.          *)
LEMMA Updated ==
    ASSUME NEW sem \in [1 .. MaxMade -> Int], NEW k \in 1 .. MaxMade, NEW d \in Int
    PROVE  [sem EXCEPT ![k] = @ + d] \in [1 .. MaxMade -> Int]
OBVIOUS

\* What a step of t, which goes to place, does to the numbers: the semaphores
\* of the barrier, t's loop counter, those who wait, and those who are awake.
Effect(t, place, w, l, n, waiting, awake) ==
    /\ pc' = [pc EXCEPT ![t] = place]
    /\ made' = made
    /\ waiters'[made] = waiters[made] + w
    /\ leader'[made] = leader[made] + l
    /\ i'[t] = i[t] + n
    /\ \A u \in Threads \ {t} : i'[u] = i[u]
    /\ Cardinality(Waiting') = Cardinality(Waiting) + waiting
    /\ Cardinality(Awake') = Cardinality(Awake) + awake

(* What each step does to the numbers.                                     *)
LEMMA Effects ==
    ASSUME Types, LockInv, NEW t \in Threads
    PROVE  /\ Enter(t) => Effect(t, "lock", 0, 0, 0, 0, 0)
           /\ Follow(t) => Effect(t, "wait", 0, 0, 0, 1, 0)
           /\ StartWait(t) => Effect(t, "waiting", 0, 0, 0, 0, 0)
           /\ Wake(t) => Effect(t, "awake", -1, 0, 0, -1, 1)
           /\ Return(t) => Effect(t, "out", 0, 1, 0, 0, -1)
           /\ Lead(t) => Effect(t, "signal", 0, 0, -i[t], 0, 0)
           /\ Signal(t) => Effect(t, "signal", 1, 0, 1, 0, 0)
           /\ Signalled(t) => Effect(t, "gather", 0, 0, -i[t], 0, 0)
           /\ StartGather(t) => Effect(t, "load", 0, 0, 0, 0, 0)
           /\ LoadLeader(t) => Effect(t, "gathering", 0, 0, 0, 0, 0)
           /\ Gather(t) => Effect(t, "gather", 0, -1, 1, 0, 0)
           /\ Gathered(t) => Effect(t, "out", 0, 0, 0, 0, 0)
<1>1. /\ Waiting \in SUBSET Threads /\ Awake \in SUBSET Threads
      /\ Cardinality(Waiting) \in Nat /\ Cardinality(Awake) \in Nat
      /\ waiters[made] \in Int /\ leader[made] \in Int /\ i[t] \in Nat
  BY SubsetSize DEF Types, Waiting, Awake
<1>q. ASSUME NEW place, pc' = [pc EXCEPT ![t] = place], UNCHANGED <<made, i, sems>>,
             Waiting' = Waiting, Awake' = Awake
      PROVE  Effect(t, place, 0, 0, 0, 0, 0)
  <2>1. /\ Cardinality(Waiting') = Cardinality(Waiting) + 0
        /\ Cardinality(Awake') = Cardinality(Awake) + 0
        /\ waiters'[made] = waiters[made] + 0 /\ leader'[made] = leader[made] + 0
        /\ i'[t] = i[t] + 0
    BY <1>1, <1>q DEF sems
  <2>2. QED
    BY <1>q, <2>1 DEF Effect
<1>2. ASSUME Enter(t) PROVE Effect(t, "lock", 0, 0, 0, 0, 0)
  <2>1. Waiting' = Waiting /\ Awake' = Awake
    BY <1>2 DEF Types, Enter, Goto, Waiting, Awake
  <2>2. pc' = [pc EXCEPT ![t] = "lock"] /\ UNCHANGED <<made, i, sems>>
    BY <1>2 DEF Enter, Goto
  <2>3. QED
    BY <1>q, <2>1, <2>2
<1>3. ASSUME Follow(t) PROVE Effect(t, "wait", 0, 0, 0, 1, 0)
  <2>1. t \notin Waiting /\ Waiting' = Waiting \union {t} /\ Awake' = Awake
    BY <1>3 DEF Types, Follow, Goto, Waiting, Awake
  <2>2. /\ Cardinality(Waiting') = Cardinality(Waiting) + 1
        /\ Cardinality(Awake') = Cardinality(Awake) + 0
    BY <1>1, <2>1, SubsetSize
  <2>3. QED
    BY <1>1, <1>3, <2>2 DEF Effect, Types, Follow, Goto, client, barrier, sems
<1>4. ASSUME StartWait(t) PROVE Effect(t, "waiting", 0, 0, 0, 0, 0)
  <2>1. Waiting' = Waiting /\ Awake' = Awake
    BY <1>4 DEF Types, StartWait, Goto, Waiting, Awake
  <2>2. pc' = [pc EXCEPT ![t] = "waiting"] /\ UNCHANGED <<made, i, sems>>
    BY <1>4 DEF StartWait, Goto
  <2>3. QED
    BY <1>q, <2>1, <2>2
<1>5. ASSUME Wake(t) PROVE Effect(t, "awake", -1, 0, 0, -1, 1)
  <2>1. t \in Waiting /\ Waiting' = Waiting \ {t} /\ t \notin Awake /\ Awake' = Awake \union {t}
    BY <1>5 DEF Types, Wake, Goto, Waiting, Awake
  <2>2. /\ Cardinality(Waiting') = Cardinality(Waiting) + -1
        /\ Cardinality(Awake') = Cardinality(Awake) + 1
    BY <1>1, <2>1, SubsetSize
  <2>3. waiters' = [waiters EXCEPT ![made] = @ - 1] /\ waiters'[made] = waiters[made] - 1
    BY <1>1, <1>5 DEF Types, Wake, LockInv, Woken
  <2>4. pc' = [pc EXCEPT ![t] = "awake"] /\ UNCHANGED <<made, i, leader>>
    BY <1>5 DEF Wake, Goto
  <2>5. i'[t] = i[t] + 0 /\ leader'[made] = leader[made] + 0 /\ waiters'[made] = waiters[made] + -1
    BY <1>1, <2>3, <2>4
  <2>6. QED
    BY <2>2, <2>4, <2>5 DEF Effect
<1>6. ASSUME Return(t) PROVE Effect(t, "out", 0, 1, 0, 0, -1)
  <2>1. Waiting' = Waiting /\ t \in Awake /\ Awake' = Awake \ {t}
    BY <1>6 DEF Types, Return, Goto, Waiting, Awake
  <2>2. /\ Cardinality(Waiting') = Cardinality(Waiting) + 0
        /\ Cardinality(Awake') = Cardinality(Awake) + -1
    BY <1>1, <2>1, SubsetSize
  <2>3. leader' = [leader EXCEPT ![made] = @ + 1] /\ leader'[made] = leader[made] + 1
    BY <1>1, <1>6 DEF Types, Return, Posted
  <2>4. pc' = [pc EXCEPT ![t] = "out"] /\ UNCHANGED <<made, i, waiters>>
    BY <1>6 DEF Return, Goto
  <2>5. i'[t] = i[t] + 0 /\ waiters'[made] = waiters[made] + 0
    BY <1>1, <2>4
  <2>6. QED
    BY <2>2, <2>3, <2>4, <2>5 DEF Effect
<1>7. ASSUME Lead(t) PROVE Effect(t, "signal", 0, 0, -i[t], 0, 0)
  <2>1. Waiting' = Waiting /\ Awake' = Awake
    BY <1>7 DEF Types, Lead, Goto, Waiting, Awake
  <2>2. /\ Cardinality(Waiting') = Cardinality(Waiting) + 0
        /\ Cardinality(Awake') = Cardinality(Awake) + 0
    BY <1>1, <2>1
  <2>3. i'[t] = i[t] + -i[t]
    BY <1>1, <1>7 DEF Types, Lead
  <2>4. QED
    BY <1>1, <1>7, <2>2, <2>3 DEF Effect, Types, Lead, Goto, client, barrier, sems
<1>8. ASSUME Signal(t) PROVE Effect(t, "signal", 1, 0, 1, 0, 0)
  <2>1. Waiting' = Waiting /\ Awake' = Awake
    BY <1>8 DEF Types, Signal, Goto, Waiting, Awake
  <2>2. /\ Cardinality(Waiting') = Cardinality(Waiting) + 0
        /\ Cardinality(Awake') = Cardinality(Awake) + 0
    BY <1>1, <2>1
  <2>3. waiters' = [waiters EXCEPT ![made] = @ + 1] /\ waiters'[made] = waiters[made] + 1
    BY <1>1, <1>8 DEF Types, Signal, Posted
  <2>4. QED
    BY <1>1, <1>8, <2>2, <2>3 DEF Effect, Types, Signal, Goto, client, barrier, sems
<1>9. ASSUME Signalled(t) PROVE Effect(t, "gather", 0, 0, -i[t], 0, 0)
  <2>1. Waiting' = Waiting /\ Awake' = Awake
    BY <1>9 DEF Types, Signalled, Goto, Waiting, Awake
  <2>2. /\ Cardinality(Waiting') = Cardinality(Waiting) + 0
        /\ Cardinality(Awake') = Cardinality(Awake) + 0
    BY <1>1, <2>1
  <2>3. i'[t] = i[t] + -i[t]
    BY <1>1, <1>9 DEF Types, Signalled
  <2>4. /\ pc' = [pc EXCEPT ![t] = "gather"] /\ UNCHANGED <<made, waiters, leader>>
        /\ \A u \in Threads \ {t} : i'[u] = i[u]
    BY <1>9 DEF Types, Signalled, Goto, sems
  <2>5. waiters'[made] = waiters[made] + 0 /\ leader'[made] = leader[made] + 0
    BY <1>1, <2>4
  <2>6. QED
    BY <2>2, <2>3, <2>4, <2>5 DEF Effect
<1>10. ASSUME StartGather(t) PROVE Effect(t, "load", 0, 0, 0, 0, 0)
  <2>1. Waiting' = Waiting /\ Awake' = Awake
    BY <1>10 DEF Types, StartGather, Goto, Waiting, Awake
  <2>2. pc' = [pc EXCEPT ![t] = "load"] /\ UNCHANGED <<made, i, sems>>
    BY <1>10 DEF StartGather, Goto
  <2>3. QED
    BY <1>q, <2>1, <2>2
<1>11. ASSUME LoadLeader(t) PROVE Effect(t, "gathering", 0, 0, 0, 0, 0)
  <2>1. Waiting' = Waiting /\ Awake' = Awake
    BY <1>11 DEF Types, LoadLeader, Goto, Waiting, Awake
  <2>2. pc' = [pc EXCEPT ![t] = "gathering"] /\ UNCHANGED <<made, i, sems>>
    BY <1>11 DEF LoadLeader, Goto
  <2>3. QED
    BY <1>q, <2>1, <2>2
<1>12. ASSUME Gather(t) PROVE Effect(t, "gather", 0, -1, 1, 0, 0)
  <2>1. Waiting' = Waiting /\ Awake' = Awake
    BY <1>12 DEF Types, Gather, Goto, Waiting, Awake
  <2>2. /\ Cardinality(Waiting') = Cardinality(Waiting) + 0
        /\ Cardinality(Awake') = Cardinality(Awake) + 0
    BY <1>1, <2>1
  <2>3. leader' = [leader EXCEPT ![made] = @ - 1] /\ leader'[made] = leader[made] - 1
    BY <1>1, <1>12 DEF Types, Gather, LockInv, Woken
  <2>4. pc' = [pc EXCEPT ![t] = "gather"] /\ UNCHANGED <<made, waiters>>
    BY <1>12 DEF Gather, Goto
  <2>5. i'[t] = i[t] + 1 /\ \A u \in Threads \ {t} : i'[u] = i[u]
    BY <1>12 DEF Types, Gather
  <2>6. leader'[made] = leader[made] + -1 /\ waiters'[made] = waiters[made] + 0
    BY <1>1, <2>3, <2>4
  <2>7. QED
    BY <2>2, <2>4, <2>5, <2>6 DEF Effect
<1>13. ASSUME Gathered(t) PROVE Effect(t, "out", 0, 0, 0, 0, 0)
  <2>1. Waiting' = Waiting /\ Awake' = Awake
    BY <1>13 DEF Types, Gathered, Goto, Waiting, Awake
  <2>2. pc' = [pc EXCEPT ![t] = "out"] /\ UNCHANGED <<made, i, sems>>
    BY <1>13 DEF Gathered, Goto
  <2>3. QED
    BY <1>q, <2>1, <2>2
<1>14. QED
  BY <1>2, <1>3, <1>4, <1>5, <1>6, <1>7, <1>8, <1>9, <1>10, <1>11, <1>12, <1>13

(* The barrier is made anew only when nobody is inside, has the lock or is *)
(* counted.                                                                *)
LEMMA NobodyInside ==
    ASSUME ~early', Types, LockInv, MembersInv, NEW S \in SUBSET Threads, Remake(S)
    PROVE  /\ \A t \in Threads : pc[t] = "out" /\ pc'[t] = "out"
           /\ lock = NoThread
           /\ Cardinality(Waiting') = 0 /\ Cardinality(Awake') = 0
           /\ made \in 1 .. MaxMade /\ made' \in 1 .. MaxMade /\ made' > made
           /\ Cardinality(S) \in Nat /\ Cardinality(S) > 0
<1>1. \A t \in Threads : pc[t] = "out"
  BY DEF Remake, Inside
<1>2. Waiting' = {} /\ Awake' = {}
  BY <1>1 DEF Remake, Waiting, Awake
<1>3. S # {} /\ Cardinality(S) \in Nat /\ Cardinality(S) > 0
  BY SubsetSize, Z3 DEF Remake
<1>4. made' \in 1 .. MaxMade /\ made' > made /\ made \in 1 .. MaxMade
  BY GenBounds DEF Types, Remake
<1>5. Cardinality(Waiting') = 0 /\ Cardinality(Awake') = 0
  BY <1>2, FS_EmptySet
<1>6. pc' = pc
  BY DEF Remake
<1>7. lock = NoThread
  BY <1>1 DEF Types, LockInv, Leading
<1>8. QED
  BY <1>1, <1>3, <1>4, <1>5, <1>6, <1>7

(* Whoever is where only the last thread is has the lock, alone.           *)
LEMMA LeaderHasLock ==
    ASSUME Types, LockInv, NEW t \in Threads, pc[t] \in Leading
    PROVE  lock = t /\ lock # NoThread /\ \A u \in Threads : pc[u] \in Leading => u = t
<1>1. lock # NoThread /\ lock \in Threads
  BY DEF Types, LockInv
<1>2. QED
  BY <1>1, GenThreads DEF LockInv

(* There is always somebody to count.                                      *)
LEMMA MembersPositive ==
    ASSUME Types, MembersInv
    PROVE  ct \in Nat /\ ct > 0
<1>1. members \in SUBSET Threads /\ members # {} /\ ct = Cardinality(members)
  BY DEF Types, MembersInv
<1>2. Cardinality(members) \in Nat /\ Cardinality(members) # 0
  BY <1>1, SubsetSize
<1>3. QED
  BY <1>1, <1>2

(* Nobody is awake unless somebody leads.                                  *)
LEMMA AwakeIsLed ==
    ASSUME Types, LockInv, MembersInv, CountsInv, NEW t \in Threads, pc[t] = "awake"
    PROVE  lock # NoThread
<1>1. Awake \in SUBSET Threads /\ t \in Awake
  BY DEF Awake
<1>2. Cardinality(Awake) # 0
  BY <1>1, SubsetSize
<1>3. QED
  BY <1>2 DEF CountsInv, FreeInv

(* When the last one comes, all the other members wait.                    *)
LEMMA OthersWait ==
    ASSUME Types, LockInv, MembersInv, CountsInv, NEW t \in Threads, Lead(t)
    PROVE  \A u \in members \ {t} : pc[u] \in {"wait", "waiting"}
<1>1. Waiting \in SUBSET (members \ {t}) /\ members \ {t} \in SUBSET Threads
        /\ t \in members /\ members \in SUBSET Threads
  BY DEF Types, MembersInv, Lead, Waiting
<1>2. Cardinality(members \ {t}) = Cardinality(members) - 1
  BY <1>1, SubsetSize
<1>3. Cardinality(Waiting) = Cardinality(members) - 1
  BY DEF CountsInv, FreeInv, MembersInv, Lead
<1>4. Waiting = members \ {t}
  BY <1>1, <1>2, <1>3, SubsetSize
<1>5. QED
  BY <1>4 DEF Waiting

(* What the leader has gathered leaves nothing for the others.             *)
LEMMA NothingLeft ==
    ASSUME NEW n \in Nat, NEW g \in Nat, NEW l \in Int, NEW a \in Nat, NEW w \in Nat,
           g >= n, l >= 0, g + l + a + w = n
    PROVE  l = 0 /\ a = 0 /\ w = 0
OBVIOUS

(* When the leader is done, all the others are on their way or outside.    *)
LEMMA OthersGone ==
    ASSUME Types, LockInv, MembersInv, CountsInv, NEW t \in Threads, Gathered(t)
    PROVE  /\ Waiting = {} /\ Awake = {}
           /\ waiters[made] = 0 /\ leader[made] = 0
           /\ \A u \in Threads \ {t} : pc[u] \in {"out", "lock"}
<1>1. /\ Waiting \in SUBSET Threads /\ Awake \in SUBSET Threads
      /\ Cardinality(Waiting) \in Nat /\ Cardinality(Awake) \in Nat
  BY SubsetSize DEF Waiting, Awake
<1>2. waiters[made] \in Int /\ leader[made] \in Int /\ cur \in Nat /\ i[t] \in Nat
  BY DEF Types
<1>3. pc[t] = "gather" /\ i[t] >= cur
  BY DEF Gathered
<1>4. /\ waiters[made] = Cardinality(Waiting) /\ leader[made] >= 0
      /\ i[t] + leader[made] + Cardinality(Awake) + Cardinality(Waiting) = cur
  BY <1>3 DEF CountsInv, GatherInv, PostsInv
<1>5. /\ Cardinality(Waiting) = 0 /\ Cardinality(Awake) = 0
      /\ waiters[made] = 0 /\ leader[made] = 0
  BY <1>1, <1>2, <1>3, <1>4, NothingLeft
<1>6. Waiting = {} /\ Awake = {}
  BY <1>1, <1>5, SubsetSize
<1>7. \A u \in Threads \ {t} : pc[u] \notin Leading
  BY <1>3, LeaderHasLock DEF Leading
<1>8. QED
  BY <1>5, <1>6, <1>7 DEF Types, Places, Leading, Waiting, Awake

(* Every step keeps the types of the variables.                            *)
LEMMA TypesStep ==
    ASSUME Types, [Next]_vars
    PROVE  Types'
<1>1. CASE UNCHANGED vars
  BY <1>1 DEF Types, Places, vars, client, barrier, sems
<1>2. ASSUME NEW t \in Threads, Enter(t) \/ Wait(t) PROVE Types'
  <2>1. CASE Enter(t)
    BY <2>1 DEF Types, Places, Enter, Goto, client, barrier, sems
  <2>2. CASE Follow(t)
    BY <2>2 DEF Types, Places, Follow, Goto, client, barrier, sems
  <2>3. CASE StartWait(t)
    BY <2>3 DEF Types, Places, StartWait, Goto, client, barrier, sems
  <2>4. CASE Wake(t)
    <3>1. waiters' = [waiters EXCEPT ![on[t]] = @ - 1] /\ leader' = leader
      BY <2>4 DEF Wake, Posted, Woken
    <3>2. /\ waiters \in [1 .. MaxMade -> Int] /\ leader \in [1 .. MaxMade -> Int]
          /\ on[t] \in 1 .. MaxMade
      BY DEF Types
    <3>3. waiters' \in [1 .. MaxMade -> Int] /\ leader' \in [1 .. MaxMade -> Int]
      BY <3>1, <3>2
    <3>4. /\ pc' \in [Threads -> Places] /\ i' \in [Threads -> Nat]
      BY <2>4 DEF Types, Places, Wake, Goto
    <3>5. QED
      BY <2>4, <3>3, <3>4 DEF Types, Wake, client, barrier
  <2>5. CASE Return(t)
    <3>1. leader' = [leader EXCEPT ![made] = @ + 1] /\ waiters' = waiters
      BY <2>5 DEF Return, Posted, Woken
    <3>2. /\ leader \in [1 .. MaxMade -> Int] /\ waiters \in [1 .. MaxMade -> Int]
          /\ made \in 1 .. MaxMade
      BY DEF Types
    <3>3. leader' \in [1 .. MaxMade -> Int] /\ waiters' \in [1 .. MaxMade -> Int]
      BY <3>1, <3>2
    <3>4. /\ pc' \in [Threads -> Places] /\ i' \in [Threads -> Nat]
      BY <2>5 DEF Types, Places, Return, Goto
    <3>5. QED
      BY <2>5, <3>3, <3>4 DEF Types, Return, client, barrier
  <2>6. CASE Lead(t)
    BY <2>6 DEF Types, Places, Lead, Goto, client, barrier, sems
  <2>7. CASE Signal(t)
    <3>1. waiters' = [waiters EXCEPT ![made] = @ + 1] /\ leader' = leader
      BY <2>7 DEF Signal, Posted, Woken
    <3>2. /\ waiters \in [1 .. MaxMade -> Int] /\ leader \in [1 .. MaxMade -> Int]
          /\ made \in 1 .. MaxMade
      BY DEF Types
    <3>3. waiters' \in [1 .. MaxMade -> Int] /\ leader' \in [1 .. MaxMade -> Int]
      BY <3>1, <3>2
    <3>4. /\ pc' \in [Threads -> Places] /\ i' \in [Threads -> Nat]
      BY <2>7 DEF Types, Places, Signal, Goto
    <3>5. QED
      BY <2>7, <3>3, <3>4 DEF Types, Signal, client, barrier
  <2>8. CASE Signalled(t)
    BY <2>8 DEF Types, Places, Signalled, Goto, client, barrier, sems
  <2>9. CASE StartGather(t)
    BY <2>9 DEF Types, Places, StartGather, Goto, client, barrier, sems
  <2>10. CASE LoadLeader(t)
    BY <2>10 DEF Types, Places, LoadLeader, Goto, client, barrier, sems
  <2>11. CASE Gather(t)
    <3>1. leader' = [leader EXCEPT ![on[t]] = @ - 1] /\ waiters' = waiters
      BY <2>11 DEF Gather, Posted, Woken
    <3>2. /\ leader \in [1 .. MaxMade -> Int] /\ waiters \in [1 .. MaxMade -> Int]
          /\ on[t] \in 1 .. MaxMade
      BY DEF Types
    <3>3. leader' \in [1 .. MaxMade -> Int] /\ waiters' \in [1 .. MaxMade -> Int]
      BY <3>1, <3>2
    <3>4. /\ pc' \in [Threads -> Places] /\ i' \in [Threads -> Nat]
      <4>1. pc' = [pc EXCEPT ![t] = "gather"] /\ i' = [i EXCEPT ![t] = @ + 1]
        BY <2>11 DEF Gather, Goto
      <4>2. pc \in [Threads -> Places] /\ i \in [Threads -> Nat] /\ "gather" \in Places
        BY DEF Types, Places
      <4>. QED
        BY <4>1, <4>2
    <3>5. UNCHANGED <<on, round, members, early, made, lock, cur, ct>>
      BY <2>11 DEF Gather, client, barrier
    <3>6. QED
      BY <3>2, <3>3, <3>4, <3>5 DEF Types
  <2>12. CASE Gathered(t)
    BY <2>12 DEF Types, Places, Gathered, Goto, client, barrier, sems
  <2>13. QED
    BY <1>2, <2>1, <2>2, <2>3, <2>4, <2>5, <2>6, <2>7, <2>8, <2>9, <2>10, <2>11, <2>12 DEF Wait
<1>3. ASSUME NEW S \in SUBSET Threads, Remake(S) PROVE Types'
  <2>1. /\ made' \in 1 .. MaxMade /\ Cardinality(S) \in Nat
    BY <1>3, GenBounds, SubsetSize DEF Types, Remake
  <2>2. /\ waiters' = waiters /\ leader' = leader /\ pc' = pc /\ i' = i /\ on' = on
        /\ round' = [t \in Threads |-> 0] /\ members' = S /\ lock' = NoThread
        /\ cur' = 0 /\ ct' = Cardinality(S)
    BY <1>3 DEF Remake, sems
  <2>3. round' \in [Threads -> Nat]
    BY <2>2
  <2>4. QED
    BY <2>1, <2>2, <2>3 DEF Types
<1>4. QED
  BY <1>1, <1>2, <1>3 DEF Next

(* The leader has the lock, and semaphores are those of this barrier.      *)
LEMMA LockStep ==
    ASSUME ~early',
           Types, LockInv, MembersInv, FreshInv, CountsInv, RoundsInv, [Next]_vars
    PROVE  LockInv'
<1>1. CASE UNCHANGED vars
  BY <1>1 DEF Types, LockInv, Leading, vars, client, barrier, sems
<1>2. ASSUME NEW t \in Threads, Enter(t) \/ Wait(t) PROVE LockInv'
  <2>1. CASE Enter(t)
    BY <2>1 DEF Types, LockInv, Leading, Enter, Goto, client, barrier, sems
  <2>2. CASE Follow(t)
    BY <2>2 DEF Types, LockInv, Leading, Follow, Goto, client, barrier, sems
  <2>3. CASE StartWait(t)
    BY <2>3 DEF Types, LockInv, Leading, StartWait, Goto, client, barrier, sems
  <2>4. CASE Wake(t)
    BY <2>4 DEF Types, LockInv, Leading, Wake, Goto, client, barrier, sems
  <2>5. CASE Return(t)
    BY <2>5 DEF Types, LockInv, Leading, Return, Goto, client, barrier, sems
  <2>6. CASE Lead(t)
    BY <2>6 DEF Types, LockInv, Leading, Lead, Goto, client, barrier, sems
  <2>7. CASE Signal(t)
    BY <2>7 DEF Types, LockInv, Leading, Signal, Goto, client, barrier, sems
  <2>8. CASE Signalled(t)
    BY <2>8 DEF Types, LockInv, Leading, Signalled, Goto, client, barrier, sems
  <2>9. CASE StartGather(t)
    BY <2>9 DEF Types, LockInv, Leading, StartGather, Goto, client, barrier, sems
  <2>10. CASE LoadLeader(t)
    BY <2>10 DEF Types, LockInv, Leading, LoadLeader, Goto, client, barrier, sems
  <2>11. CASE Gather(t)
    BY <2>11 DEF Types, LockInv, Leading, Gather, Goto, client, barrier, sems
  <2>12. CASE Gathered(t)
    <3>1. \A u \in Threads \ {t} : pc[u] \notin Leading
      BY <2>12, LeaderHasLock DEF Gathered, Leading
    <3>2. QED
      BY <2>12, <3>1, GenThreads DEF Types, LockInv, Gathered, Goto, Leading
  <2>13. QED
    BY <1>2, <2>1, <2>2, <2>3, <2>4, <2>5, <2>6, <2>7, <2>8, <2>9, <2>10, <2>11, <2>12 DEF Wait
<1>3. ASSUME NEW S \in SUBSET Threads, Remake(S) PROVE LockInv'
  BY <1>3, NobodyInside DEF Types, LockInv, Leading, Remake
<1>4. QED
  BY <1>1, <1>2, <1>3 DEF Next

(* The barrier is made for the members, and only they are inside.          *)
LEMMA MembersStep ==
    ASSUME ~early',
           Types, LockInv, MembersInv, FreshInv, CountsInv, RoundsInv, [Next]_vars
    PROVE  MembersInv'
<1>1. CASE UNCHANGED vars
  BY <1>1 DEF Types, MembersInv, vars, client, barrier, sems
<1>2. ASSUME NEW t \in Threads, Enter(t) \/ Wait(t) PROVE MembersInv'
  <2>1. CASE Enter(t)
    BY <2>1 DEF Types, MembersInv, Enter, Goto, client, barrier, sems
  <2>2. CASE Follow(t)
    BY <2>2 DEF Types, MembersInv, Follow, Goto, client, barrier, sems
  <2>3. CASE StartWait(t)
    BY <2>3 DEF Types, MembersInv, StartWait, Goto, client, barrier, sems
  <2>4. CASE Wake(t)
    BY <2>4 DEF Types, MembersInv, Wake, Goto, client, barrier, sems
  <2>5. CASE Return(t)
    BY <2>5 DEF Types, MembersInv, Return, Goto, client, barrier, sems
  <2>6. CASE Lead(t)
    BY <2>6 DEF Types, MembersInv, Lead, Goto, client, barrier, sems
  <2>7. CASE Signal(t)
    BY <2>7 DEF Types, MembersInv, Signal, Goto, client, barrier, sems
  <2>8. CASE Signalled(t)
    BY <2>8 DEF Types, MembersInv, Signalled, Goto, client, barrier, sems
  <2>9. CASE StartGather(t)
    BY <2>9 DEF Types, MembersInv, StartGather, Goto, client, barrier, sems
  <2>10. CASE LoadLeader(t)
    BY <2>10 DEF Types, MembersInv, LoadLeader, Goto, client, barrier, sems
  <2>11. CASE Gather(t)
    BY <2>11 DEF Types, MembersInv, Gather, Goto, client, barrier, sems
  <2>12. CASE Gathered(t)
    BY <2>12 DEF Types, MembersInv, Gathered, Goto, client, barrier, sems
  <2>13. QED
    BY <1>2, <2>1, <2>2, <2>3, <2>4, <2>5, <2>6, <2>7, <2>8, <2>9, <2>10, <2>11, <2>12 DEF Wait
<1>3. ASSUME NEW S \in SUBSET Threads, Remake(S) PROVE MembersInv'
  BY <1>3, NobodyInside DEF Types, MembersInv, Remake
<1>4. QED
  BY <1>1, <1>2, <1>3 DEF Next

(* Nobody posts a semaphore that is not made yet.                          *)
LEMMA FreshStep ==
    ASSUME ~early',
           Types, LockInv, MembersInv, FreshInv, CountsInv, RoundsInv, [Next]_vars
    PROVE  FreshInv'
<1>1. CASE UNCHANGED vars
  BY <1>1 DEF Types, FreshInv, LockInv, Posted, Woken, vars, client, barrier, sems
<1>2. ASSUME NEW t \in Threads, Enter(t) \/ Wait(t) PROVE FreshInv'
  <2>1. CASE Enter(t)
    BY <2>1 DEF Types, FreshInv, LockInv, Posted, Woken, Enter, Goto, client, barrier, sems
  <2>2. CASE Follow(t)
    BY <2>2 DEF Types, FreshInv, LockInv, Posted, Woken, Follow, Goto, client, barrier, sems
  <2>3. CASE StartWait(t)
    BY <2>3 DEF Types, FreshInv, LockInv, Posted, Woken, StartWait, Goto, client, barrier, sems
  <2>4. CASE Wake(t)
    BY <2>4 DEF Types, FreshInv, LockInv, Posted, Woken, Wake, Goto, client, barrier, sems
  <2>5. CASE Return(t)
    BY <2>5 DEF Types, FreshInv, LockInv, Posted, Woken, Return, Goto, client, barrier, sems
  <2>6. CASE Lead(t)
    BY <2>6 DEF Types, FreshInv, LockInv, Posted, Woken, Lead, Goto, client, barrier, sems
  <2>7. CASE Signal(t)
    BY <2>7 DEF Types, FreshInv, LockInv, Posted, Woken, Signal, Goto, client, barrier, sems
  <2>8. CASE Signalled(t)
    BY <2>8 DEF Types, FreshInv, LockInv, Posted, Woken, Signalled, Goto, client, barrier, sems
  <2>9. CASE StartGather(t)
    BY <2>9 DEF Types, FreshInv, LockInv, Posted, Woken, StartGather, Goto, client, barrier, sems
  <2>10. CASE LoadLeader(t)
    BY <2>10 DEF Types, FreshInv, LockInv, Posted, Woken, LoadLeader, Goto, client, barrier, sems
  <2>11. CASE Gather(t)
    BY <2>11 DEF Types, FreshInv, LockInv, Posted, Woken, Gather, Goto, client, barrier, sems
  <2>12. CASE Gathered(t)
    BY <2>12 DEF Types, FreshInv, LockInv, Posted, Woken, Gathered, Goto, client, barrier, sems
  <2>13. QED
    BY <1>2, <2>1, <2>2, <2>3, <2>4, <2>5, <2>6, <2>7, <2>8, <2>9, <2>10, <2>11, <2>12 DEF Wait
<1>3. ASSUME NEW S \in SUBSET Threads, Remake(S) PROVE FreshInv'
  <2>1. made' > made /\ made \in 1 .. MaxMade /\ made' \in 1 .. MaxMade
    BY <1>3, NobodyInside
  <2>2. waiters' = waiters /\ leader' = leader
    BY <1>3 DEF Remake, sems
  <2>3. QED
    BY <2>1, <2>2 DEF FreshInv
<1>4. QED
  BY <1>1, <1>2, <1>3 DEF Next

(* Whoever follows, leads or returns, the count, the posts and the threads *)
(* add up.                                                                 *)
LEMMA CountsStep ==
    ASSUME ~early',
           Types, LockInv, MembersInv, FreshInv, CountsInv, RoundsInv, [Next]_vars
    PROVE  CountsInv'
<1>1. CASE UNCHANGED vars
  BY <1>1 DEF CountsInv, FreeInv, SignalInv, GatherInv, PostsInv, Waiting, Awake, vars, client, barrier, sems
<1>2. ASSUME NEW t \in Threads, Enter(t) \/ Wait(t) PROVE CountsInv'
  <2>1. /\ Cardinality(Waiting) \in Nat /\ Cardinality(Awake) \in Nat
        /\ waiters[made] \in Int /\ leader[made] \in Int /\ cur \in Nat /\ ct \in Nat
        /\ i \in [Threads -> Nat] /\ pc \in [Threads -> Places]
    <3>1. Waiting \in SUBSET Threads /\ Awake \in SUBSET Threads
      BY DEF Waiting, Awake
    <3>2. Cardinality(Waiting) \in Nat /\ Cardinality(Awake) \in Nat
      BY <3>1, SubsetSize
    <3>3. QED
      BY <3>2 DEF Types
  <2>2. CASE Enter(t)
    <3>1. Effect(t, "lock", 0, 0, 0, 0, 0)
      BY <2>2, Effects
    <3>2. pc[t] = "out" /\ lock' = lock /\ cur' = cur /\ ct' = ct
      BY <2>2 DEF Enter, client, barrier
    <3>3. QED
      BY <2>1, <3>1, <3>2 DEF Effect, CountsInv, FreeInv, SignalInv, GatherInv, PostsInv, Leading
  <2>3. CASE Follow(t)
    <3>1. Effect(t, "wait", 0, 0, 0, 1, 0)
      BY <2>3, Effects
    <3>2. pc[t] = "lock" /\ lock = NoThread /\ lock' = lock /\ cur # ct - 1 /\ cur' = cur + 1 /\ ct' = ct
      BY <2>3 DEF Follow, client, barrier
    <3>3. \A u \in Threads : pc[u] \notin Leading
      BY <3>2 DEF LockInv
    <3>4. \A u \in Threads : pc'[u] \notin Leading
      BY <2>1, <3>1, <3>3 DEF Effect, Leading
    <3>5. FreeInv'
      BY <2>1, <3>1, <3>2, <3>3, <3>4 DEF Effect, CountsInv, FreeInv, Leading
    <3>6. SignalInv'
      BY <2>1, <3>1, <3>2, <3>3, <3>4 DEF Effect, CountsInv, SignalInv, Leading
    <3>7. GatherInv'
      BY <2>1, <3>1, <3>2, <3>3, <3>4 DEF Effect, CountsInv, GatherInv, Leading
    <3>8. PostsInv'
      BY <2>1, <3>1, <3>2, <3>3, <3>4 DEF Effect, CountsInv, PostsInv, Leading
    <3>9. QED
      BY <3>5, <3>6, <3>7, <3>8 DEF CountsInv
  <2>4. CASE StartWait(t)
    <3>1. Effect(t, "waiting", 0, 0, 0, 0, 0)
      BY <2>4, Effects
    <3>2. pc[t] = "wait" /\ lock' = lock /\ cur' = cur /\ ct' = ct
      BY <2>4 DEF StartWait, client, barrier
    <3>3. QED
      BY <2>1, <3>1, <3>2 DEF Effect, CountsInv, FreeInv, SignalInv, GatherInv, PostsInv, Leading
  <2>5. CASE Wake(t)
    <3>1. Effect(t, "awake", -1, 0, 0, -1, 1)
      BY <2>5, Effects
    <3>2. pc[t] = "waiting" /\ waiters[made] > 0 /\ lock' = lock /\ cur' = cur /\ ct' = ct
      BY <2>5 DEF Wake, client, barrier, CanWake, LockInv
    <3>3. QED
      BY <2>1, <3>1, <3>2 DEF Effect, CountsInv, FreeInv, SignalInv, GatherInv, PostsInv, Leading
  <2>6. CASE Return(t)
    <3>1. Effect(t, "out", 0, 1, 0, 0, -1)
      BY <2>6, Effects
    <3>2. pc[t] = "awake" /\ lock' = lock /\ cur' = cur /\ ct' = ct
      BY <2>6 DEF Return, client, barrier
    <3>3. lock # NoThread
      BY <3>2, AwakeIsLed
    <3>4. \A u \in Threads : pc'[u] \in Leading => pc'[u] = pc[u] /\ i'[u] = i[u]
      BY <2>1, <3>1, <3>2 DEF Effect, Leading
    <3>5. FreeInv'
      BY <2>1, <3>1, <3>2, <3>3, <3>4 DEF Effect, CountsInv, FreeInv, Leading
    <3>6. SignalInv'
      BY <2>1, <3>1, <3>2, <3>3, <3>4 DEF Effect, CountsInv, SignalInv, Leading
    <3>7. GatherInv'
      BY <2>1, <3>1, <3>2, <3>3, <3>4 DEF Effect, CountsInv, GatherInv, Leading
    <3>8. PostsInv'
      BY <2>1, <3>1, <3>2, <3>3, <3>4 DEF Effect, CountsInv, PostsInv, Leading
    <3>9. QED
      BY <3>5, <3>6, <3>7, <3>8 DEF CountsInv
  <2>7. CASE Lead(t)
    <3>1. Effect(t, "signal", 0, 0, -i[t], 0, 0)
      BY <2>7, Effects
    <3>2. pc[t] = "lock" /\ lock = NoThread /\ lock' # NoThread /\ cur' = cur /\ ct' = ct
      BY <2>7, GenThreads DEF Lead, client, barrier
    <3>3. \A u \in Threads : pc[u] \notin Leading
      BY <3>2 DEF LockInv
    <3>4. QED
      BY <2>1, <3>1, <3>2, <3>3 DEF Effect, CountsInv, FreeInv, SignalInv, GatherInv, PostsInv, Leading
  <2>8. CASE Signal(t)
    <3>1. Effect(t, "signal", 1, 0, 1, 0, 0)
      BY <2>8, Effects
    <3>2. pc[t] = "signal" /\ i[t] < cur /\ lock' = lock /\ cur' = cur /\ ct' = ct
      BY <2>8 DEF Signal, client, barrier
    <3>3. lock # NoThread /\ \A u \in Threads : pc[u] \in Leading => u = t
      BY <3>2, LeaderHasLock DEF Leading
    <3>4. QED
      BY <2>1, <3>1, <3>2, <3>3 DEF Effect, CountsInv, FreeInv, SignalInv, GatherInv, PostsInv, Leading
  <2>9. CASE Signalled(t)
    <3>1. Effect(t, "gather", 0, 0, -i[t], 0, 0)
      BY <2>9, Effects
    <3>2. pc[t] = "signal" /\ i[t] >= cur /\ lock' = lock /\ cur' = cur /\ ct' = ct
      BY <2>9 DEF Signalled, client, barrier
    <3>3. lock # NoThread /\ \A u \in Threads : pc[u] \in Leading => u = t
      BY <3>2, LeaderHasLock DEF Leading
    <3>4. FreeInv'
      BY <2>1, <3>1, <3>2, <3>3 DEF Effect, CountsInv, FreeInv, Leading
    <3>5. SignalInv'
      BY <2>1, <3>1, <3>2, <3>3 DEF Effect, CountsInv, SignalInv, Leading
    <3>6. GatherInv'
      BY <2>1, <3>1, <3>2, <3>3 DEF Effect, CountsInv, GatherInv, Leading, SignalInv
    <3>7. PostsInv'
      BY <2>1, <3>1, <3>2, <3>3 DEF Effect, CountsInv, PostsInv, Leading
    <3>8. QED
      BY <3>4, <3>5, <3>6, <3>7 DEF CountsInv
  <2>10. CASE StartGather(t)
    <3>1. Effect(t, "load", 0, 0, 0, 0, 0)
      BY <2>10, Effects
    <3>2. pc[t] = "gather" /\ lock' = lock /\ cur' = cur /\ ct' = ct
      BY <2>10 DEF StartGather, client, barrier
    <3>3. lock # NoThread /\ \A u \in Threads : pc[u] \in Leading => u = t
      BY <3>2, LeaderHasLock DEF Leading
    <3>4. QED
      BY <2>1, <3>1, <3>2, <3>3 DEF Effect, CountsInv, FreeInv, SignalInv, GatherInv, PostsInv, Leading
  <2>11. CASE LoadLeader(t)
    <3>1. Effect(t, "gathering", 0, 0, 0, 0, 0)
      BY <2>11, Effects
    <3>2. pc[t] = "load" /\ lock' = lock /\ cur' = cur /\ ct' = ct
      BY <2>11 DEF LoadLeader, client, barrier
    <3>3. lock # NoThread /\ \A u \in Threads : pc[u] \in Leading => u = t
      BY <3>2, LeaderHasLock DEF Leading
    <3>4. QED
      BY <2>1, <3>1, <3>2, <3>3 DEF Effect, CountsInv, FreeInv, SignalInv, GatherInv, PostsInv, Leading
  <2>12. CASE Gather(t)
    <3>1. Effect(t, "gather", 0, -1, 1, 0, 0)
      BY <2>12, Effects
    <3>2. pc[t] = "gathering" /\ leader[made] > 0 /\ lock' = lock /\ cur' = cur /\ ct' = ct
      BY <2>12 DEF Gather, client, barrier, CanWake, LockInv
    <3>3. lock # NoThread /\ \A u \in Threads : pc[u] \in Leading => u = t
      BY <3>2, LeaderHasLock DEF Leading
    <3>4. FreeInv'
      BY <2>1, <3>1, <3>2, <3>3 DEF Effect, CountsInv, FreeInv, Leading
    <3>5. SignalInv'
      BY <2>1, <3>1, <3>2, <3>3 DEF Effect, CountsInv, SignalInv, Leading
    <3>6. GatherInv'
      BY <2>1, <3>1, <3>2, <3>3 DEF Effect, CountsInv, GatherInv, Leading
    <3>7. PostsInv'
      BY <2>1, <3>1, <3>2, <3>3 DEF Effect, CountsInv, PostsInv, Leading
    <3>8. QED
      BY <3>4, <3>5, <3>6, <3>7 DEF CountsInv
  <2>13. CASE Gathered(t)
    <3>1. Effect(t, "out", 0, 0, 0, 0, 0)
      BY <2>13, Effects
    <3>2. pc[t] = "gather" /\ cur' = 0 /\ ct' = ct /\ ct > 0
      BY <2>13, MembersPositive DEF Gathered, client, barrier
    <3>3. lock # NoThread /\ \A u \in Threads : pc[u] \in Leading => u = t
      BY <3>2, LeaderHasLock DEF Leading
    <3>4. Cardinality(Waiting) = 0 /\ Cardinality(Awake) = 0 /\ waiters[made] = 0 /\ leader[made] = 0
      BY <2>13, OthersGone, FS_EmptySet
    <3>5. QED
      BY <2>1, <3>1, <3>2, <3>3, <3>4 DEF Effect, CountsInv, FreeInv, SignalInv, GatherInv, PostsInv, Leading
  <2>14. QED
    BY <1>2, <2>2, <2>3, <2>4, <2>5, <2>6, <2>7, <2>8, <2>9, <2>10, <2>11, <2>12, <2>13 DEF Wait
<1>3. ASSUME NEW S \in SUBSET Threads, Remake(S) PROVE CountsInv'
  <2>1. /\ \A u \in Threads : pc'[u] = "out"
        /\ Cardinality(Waiting') = 0 /\ Cardinality(Awake') = 0
        /\ made' > made /\ made' \in 1 .. MaxMade /\ Cardinality(S) > 0
    BY <1>3, NobodyInside
  <2>2. waiters' = waiters /\ leader' = leader /\ cur' = 0 /\ ct' = Cardinality(S)
    BY <1>3 DEF Remake, sems
  <2>3. waiters'[made'] = 0 /\ leader'[made'] = 0
    BY <2>1, <2>2 DEF FreshInv
  <2>4. QED
    BY <2>1, <2>2, <2>3 DEF CountsInv, FreeInv, SignalInv, GatherInv, PostsInv
<1>4. QED
  BY <1>1, <1>2, <1>3 DEF Next

(* Threads keep in step.                                                   *)
LEMMA RoundsStep ==
    ASSUME ~early',
           Types, LockInv, MembersInv, FreshInv, CountsInv, RoundsInv, [Next]_vars
    PROVE  RoundsInv'
<1>1. CASE UNCHANGED vars
  BY <1>1 DEF Types, LockInv, RoundsInv, vars, client, barrier, sems
<1>2. ASSUME NEW t \in Threads, Enter(t) \/ Wait(t) PROVE RoundsInv'
  <2>1. CASE Enter(t)
    BY <2>1 DEF Types, LockInv, RoundsInv, Enter, Goto, client, barrier, sems
  <2>2. CASE Follow(t)
    BY <2>2 DEF Types, LockInv, RoundsInv, Follow, Goto, client, barrier, sems
  <2>3. CASE StartWait(t)
    BY <2>3 DEF Types, LockInv, RoundsInv, StartWait, Goto, client, barrier, sems
  <2>4. CASE Wake(t)
    BY <2>4 DEF Types, LockInv, RoundsInv, Wake, Goto, client, barrier, sems
  <2>5. CASE Return(t)
    <3>1. lock # NoThread
      BY <2>5, AwakeIsLed DEF Return
    <3>2. QED
      BY <2>5, <3>1 DEF Types, RoundsInv, Return, Goto, client, barrier
  <2>6. CASE Lead(t)
    <3>1. \A u \in members \ {t} : pc[u] \in {"wait", "waiting"}
      BY <2>6, OthersWait
    <3>2. PICK r \in Nat : \A u \in members :
            round[u] = IF IF lock = NoThread THEN pc[u] = "out" ELSE pc[u] # "lock" THEN r ELSE r + 1
      BY DEF RoundsInv
    <3>3. \A u \in members : round[u] = r + 1 /\ pc'[u] # "lock"
      BY <2>6, <3>1, <3>2 DEF Types, Lead, Goto
    <3>4. lock' # NoThread /\ round' = round /\ members' = members
      BY <2>6, GenThreads DEF Lead, client
    <3>5. \A u \in members' :
            round'[u] = IF IF lock' = NoThread THEN pc'[u] = "out" ELSE pc'[u] # "lock"
                        THEN r + 1 ELSE (r + 1) + 1
      BY <3>3, <3>4
    <3>6. r + 1 \in Nat
      OBVIOUS
    <3>7. QED
      BY <3>5, <3>6 DEF RoundsInv
  <2>7. CASE Signal(t)
    BY <2>7 DEF Types, LockInv, RoundsInv, Signal, Goto, client, barrier, sems
  <2>8. CASE Signalled(t)
    BY <2>8 DEF Types, LockInv, RoundsInv, Signalled, Goto, client, barrier, sems
  <2>9. CASE StartGather(t)
    BY <2>9 DEF Types, LockInv, RoundsInv, StartGather, Goto, client, barrier, sems
  <2>10. CASE LoadLeader(t)
    BY <2>10 DEF Types, LockInv, RoundsInv, LoadLeader, Goto, client, barrier, sems
  <2>11. CASE Gather(t)
    BY <2>11 DEF Types, LockInv, RoundsInv, Gather, Goto, client, barrier, sems
  <2>12. CASE Gathered(t)
    <3>1. \A u \in Threads \ {t} : pc[u] \in {"out", "lock"}
      BY <2>12, OthersGone
    <3>2. lock # NoThread
      BY <2>12, LeaderHasLock DEF Gathered, Leading
    <3>3. QED
      BY <2>12, <3>1, <3>2 DEF Types, RoundsInv, Gathered, Goto, client
  <2>13. QED
    BY <1>2, <2>1, <2>2, <2>3, <2>4, <2>5, <2>6, <2>7, <2>8, <2>9, <2>10, <2>11, <2>12 DEF Wait
<1>3. ASSUME NEW S \in SUBSET Threads, Remake(S) PROVE RoundsInv'
  BY <1>3, NobodyInside DEF Types, LockInv, RoundsInv, Remake
<1>4. QED
  BY <1>1, <1>2, <1>3 DEF Next

(* The invariant holds at first.                                           *)
LEMMA InitIInv == MaxMade \in Nat \ {0} /\ Init => IInv
<1>1. SUFFICES ASSUME MaxMade \in Nat \ {0}, Init PROVE IInv
  OBVIOUS
<1>2. Waiting = {} /\ Awake = {} /\ Cardinality(Waiting) = 0 /\ Cardinality(Awake) = 0
  BY <1>1, FS_EmptySet DEF Init, Waiting, Awake
<1>3. Threads # {} /\ Cardinality(Threads) \in Nat /\ Cardinality(Threads) > 0
  <2>1. Threads \in SUBSET Threads /\ Threads # {}
    BY GenThreads
  <2>2. Cardinality(Threads) \in Nat /\ Cardinality(Threads) # 0
    BY <2>1, SubsetSize, FS_CardinalityType, GenThreads
  <2>3. QED
    BY <2>1, <2>2
<1>4. Types
  BY <1>1, <1>3 DEF Init, Types, Places
<1>5. LockInv /\ MembersInv /\ FreshInv
  BY <1>1, <1>3, GenThreads DEF Init, LockInv, Leading, MembersInv, FreshInv
<1>6. CountsInv
  BY <1>1, <1>2, <1>3 DEF Init, CountsInv, FreeInv, SignalInv, GatherInv, PostsInv
<1>7. RoundsInv
  <2>1. 0 \in Nat /\ \A t \in members : round[t] = 0 /\ pc[t] = "out"
    BY <1>1 DEF Init
  <2>2. lock = NoThread
    BY <1>1 DEF Init
  <2>3. QED
    BY <2>1, <2>2 DEF RoundsInv
<1>8. QED
  BY <1>4, <1>5, <1>6, <1>7 DEF IInv

(* Every step keeps it, unless it makes the barrier anew too early.        *)
LEMMA StepIInv ==
    (early \/ IInv) /\ [Next]_vars => (early \/ IInv)'
<1>1. SUFFICES ASSUME early \/ IInv, [Next]_vars, ~early' PROVE IInv'
  OBVIOUS
<1>2. early => early'
  BY <1>1 DEF Next, Wait, vars, client, Enter, Follow, StartWait, Wake, Return, Lead, Signal,
     Signalled, StartGather, LoadLeader, Gather, Gathered, Remake
<1>3. IInv
  BY <1>1, <1>2
<1>4. QED
  BY <1>1, <1>3, TypesStep, LockStep, MembersStep, FreshStep, CountsStep, RoundsStep DEF IInv

(* So it holds for as long as nobody does.                                 *)
LEMMA InvariantIInv == Spec => [](early \/ IInv)
<1>1. Init => IInv
  BY GenBounds, InitIInv
<1>2. QED
  BY <1>1, StepIInv, PTL DEF Spec

(* Until the barrier is made anew with somebody inside, nobody returns     *)
(* from a wait before every counted thread has come to it.                 *)
THEOREM BarrierHolds == Spec => []NobodyLeavesEarly
<1>1. early \/ IInv => NobodyLeavesEarly
  <2>1. SUFFICES ASSUME IInv, NEW t \in members, pc[t] = "out", NEW u \in members
                 PROVE  round[u] >= round[t]
    BY DEF NobodyLeavesEarly
  <2>2. PICK r \in Nat : \A v \in members :
          round[v] = IF IF lock = NoThread THEN pc[v] = "out" ELSE pc[v] # "lock" THEN r ELSE r + 1
    BY <2>1 DEF IInv, RoundsInv
  <2>3. round[t] = r /\ (round[u] = r \/ round[u] = r + 1)
    BY <2>1, <2>2
  <2>4. QED
    BY <2>3
<1>2. QED
  BY <1>1, InvariantIInv, PTL

-----------------------------------------------------------------------------
\* Counters and semaphores stay within what their C types are used for; the
\* leader is about to gather one of those it found counted.
BoundsInv ==
    /\ early \in BOOLEAN
    /\ cur < ct /\ ct <= Cardinality(Threads)
    /\ \A t \in Threads :
        /\ i[t] <= Cardinality(Threads) /\ round[t] <= Rounds
        /\ pc[t] \in {"load", "gathering"} => i[t] < Cardinality(Threads)
    /\ \A k \in 1 .. MaxMade : waiters[k] >= 0 /\ leader[k] >= 0

(* No step takes a count beyond the threads or a semaphore below zero,     *)
(* whenever the barrier is made anew.                                      *)
LEMMA BoundsStep ==
    ASSUME Types, BoundsInv, [Next]_vars
    PROVE  BoundsInv'
<1>1. Cardinality(Threads) \in Nat /\ ct \in Nat /\ cur \in Nat
  BY FS_CardinalityType, GenThreads DEF Types
<1>2. Rounds \in Nat /\ MaxMade \in Nat
  BY GenBounds
<1>3. cur' < ct' /\ ct' <= Cardinality(Threads)
  <2>1. ASSUME NEW S \in SUBSET Threads, Remake(S)
        PROVE  cur' < ct' /\ ct' <= Cardinality(Threads)
    <3>1. S # {} /\ cur' = 0 /\ ct' = Cardinality(S)
      BY <2>1 DEF Remake
    <3>2. Cardinality(S) \in 0 .. Cardinality(Threads) /\ Cardinality(S) # 0
      BY <3>1, SubsetSize
    <3>3. QED
      BY <1>1, <3>1, <3>2
  <2>2. ASSUME NEW t \in Threads, Follow(t) PROVE cur' < ct' /\ ct' <= Cardinality(Threads)
    BY <1>1, <2>2 DEF Follow, BoundsInv
  <2>3. ASSUME NEW t \in Threads, Gathered(t) PROVE cur' < ct' /\ ct' <= Cardinality(Threads)
    BY <1>1, <2>3 DEF Gathered, BoundsInv
  <2>4. CASE cur' = cur /\ ct' = ct
    BY <2>4 DEF BoundsInv
  <2>5. QED
    BY <2>1, <2>2, <2>3, <2>4 DEF Next, Wait, vars, Enter, StartWait, Wake, Return, Lead, Signal,
       Signalled, StartGather, LoadLeader, Gather, barrier
<1>4. ASSUME NEW t \in Threads PROVE round'[t] <= Rounds
  <2>1. round' = round \/ (\E u \in Threads : Enter(u)) \/ (\E S \in SUBSET Threads : Remake(S))
    BY DEF Next, Wait, vars, Follow, StartWait, Wake, Return, Lead, Signal, Signalled,
       StartGather, LoadLeader, Gather, Gathered, client
  <2>2. ASSUME NEW u \in Threads, Enter(u) PROVE round'[t] <= Rounds
    BY <1>1, <1>2, <2>2 DEF Enter, Types, BoundsInv
  <2>3. QED
    BY <1>2, <2>1, <2>2 DEF Remake, BoundsInv
<1>5. ASSUME NEW t \in Threads
      PROVE  /\ i'[t] <= Cardinality(Threads)
             /\ pc'[t] \in {"load", "gathering"} => i'[t] < Cardinality(Threads)
  <2>1. ASSUME NEW u \in Threads, Signal(u)
        PROVE  /\ i'[t] <= Cardinality(Threads)
               /\ pc'[t] \in {"load", "gathering"} => i'[t] < Cardinality(Threads)
    <3>1. i' = [i EXCEPT ![u] = @ + 1] /\ pc[u] = "signal" /\ pc' = pc
      BY <2>1 DEF Signal
    <3>2. i[u] < Cardinality(Threads) /\ i[u] \in Nat
      BY <1>1, <2>1 DEF Signal, Types, BoundsInv
    <3>3. CASE t = u
      BY <1>1, <3>1, <3>2, <3>3 DEF Types
    <3>4. CASE t # u
      BY <3>1, <3>4 DEF Types, BoundsInv
    <3>5. QED
      BY <3>3, <3>4
  <2>2. ASSUME NEW u \in Threads, Gather(u)
        PROVE  /\ i'[t] <= Cardinality(Threads)
               /\ pc'[t] \in {"load", "gathering"} => i'[t] < Cardinality(Threads)
    BY <1>1, <2>2 DEF Gather, Goto, Types, BoundsInv
  <2>3. ASSUME NEW u \in Threads, StartGather(u)
        PROVE  /\ i'[t] <= Cardinality(Threads)
               /\ pc'[t] \in {"load", "gathering"} => i'[t] < Cardinality(Threads)
    BY <1>1, <2>3 DEF StartGather, Goto, Types, BoundsInv
  <2>4. ASSUME NEW u \in Threads, Lead(u) \/ Signalled(u)
        PROVE  /\ i'[t] <= Cardinality(Threads)
               /\ pc'[t] \in {"load", "gathering"} => i'[t] < Cardinality(Threads)
    <3>1. PICK place \in {"signal", "gather"} :
            i' = [i EXCEPT ![u] = 0] /\ pc' = [pc EXCEPT ![u] = place]
      BY <2>4 DEF Lead, Signalled, Goto
    <3>2. CASE t = u
      BY <1>1, <3>1, <3>2 DEF Types
    <3>3. CASE t # u
      BY <3>1, <3>3 DEF Types, BoundsInv
    <3>4. QED
      BY <3>2, <3>3
  <2>5. ASSUME NEW u \in Threads, NEW place,
               pc' = [pc EXCEPT ![u] = place], place \in {"load", "gathering"} => pc[u] = "load",
               i' = i
        PROVE  /\ i'[t] <= Cardinality(Threads)
               /\ pc'[t] \in {"load", "gathering"} => i'[t] < Cardinality(Threads)
    BY <1>1, <2>5 DEF Types, BoundsInv
  <2>6. ASSUME NEW u \in Threads,
               \/ Enter(u) \/ Follow(u) \/ StartWait(u) \/ Wake(u) \/ Return(u)
               \/ LoadLeader(u) \/ Gathered(u)
        PROVE  \E place : /\ pc' = [pc EXCEPT ![u] = place] /\ i' = i
                          /\ place \in {"load", "gathering"} => pc[u] = "load"
    BY <2>6 DEF Enter, Follow, StartWait, Wake, Return, LoadLeader, Gathered, Goto
  <2>7. CASE pc' = pc /\ i' = i
    BY <2>7 DEF BoundsInv
  <2>8. QED
    BY <2>1, <2>2, <2>3, <2>4, <2>5, <2>6, <2>7 DEF Next, Wait, vars, Remake
<1>6. ASSUME NEW k \in 1 .. MaxMade PROVE waiters'[k] >= 0 /\ leader'[k] >= 0
  <2>1. waiters[k] \in Int /\ waiters[k] >= 0 /\ leader[k] \in Int /\ leader[k] >= 0
    BY DEF Types, BoundsInv
  <2>2. CASE UNCHANGED sems
    BY <2>1, <2>2 DEF sems
  <2>3. ASSUME NEW t \in Threads, Wake(t) PROVE waiters'[k] >= 0 /\ leader'[k] >= 0
    BY <2>1, <2>3 DEF Wake, CanWake, Woken, Types
  <2>4. ASSUME NEW t \in Threads, Gather(t) PROVE waiters'[k] >= 0 /\ leader'[k] >= 0
    BY <2>1, <2>4 DEF Gather, CanWake, Woken, Types
  <2>5. ASSUME NEW t \in Threads, Signal(t) PROVE waiters'[k] >= 0 /\ leader'[k] >= 0
    BY <2>1, <2>5 DEF Signal, Posted, Types
  <2>6. ASSUME NEW t \in Threads, Return(t) PROVE waiters'[k] >= 0 /\ leader'[k] >= 0
    BY <2>1, <2>6 DEF Return, Posted, Types
  <2>7. QED
    BY <2>2, <2>3, <2>4, <2>5, <2>6 DEF Next, Wait, vars, Enter, Follow, StartWait, Lead,
       Signalled, StartGather, LoadLeader, Gathered, Remake
<1>7. early' \in BOOLEAN
  BY DEF BoundsInv, Next, Wait, vars, client, Enter, Follow, StartWait, Wake, Return, Lead,
     Signal, Signalled, StartGather, LoadLeader, Gather, Gathered, Remake
<1>8. QED
  BY <1>3, <1>4, <1>5, <1>6, <1>7 DEF BoundsInv

(* So the bounds always hold.                                              *)
LEMMA InvariantBounds == Spec => [](Types /\ BoundsInv)
<1>1. Init => Types /\ BoundsInv
  <2>1. SUFFICES ASSUME Init PROVE Types /\ BoundsInv
    OBVIOUS
  <2>2. Threads \in SUBSET Threads /\ Threads # {}
    BY GenThreads
  <2>3. Cardinality(Threads) \in Nat /\ Cardinality(Threads) # 0
    BY <2>2, SubsetSize, FS_CardinalityType, GenThreads
  <2>4. Types
    BY <2>1, GenBounds, InitIInv DEF IInv
  <2>5. early \in BOOLEAN
    BY <2>1 DEF Init
  <2>6. cur < ct /\ ct <= Cardinality(Threads)
    BY <2>1, <2>3 DEF Init
  <2>7. \A t \in Threads :
          /\ i[t] <= Cardinality(Threads) /\ round[t] <= Rounds
          /\ pc[t] \in {"load", "gathering"} => i[t] < Cardinality(Threads)
    BY <2>1, <2>3, GenBounds DEF Init
  <2>8. \A k \in 1 .. MaxMade : waiters[k] >= 0 /\ leader[k] >= 0
    BY <2>1 DEF Init
  <2>9. QED
    BY <2>4, <2>5, <2>6, <2>7, <2>8 DEF BoundsInv
<1>2. Types /\ BoundsInv /\ [Next]_vars => (Types /\ BoundsInv)'
  BY TypesStep, BoundsStep
<1>3. QED
  BY <1>1, <1>2, PTL DEF Spec

(* Every variable has its type, even when the barrier is made anew with    *)
(* somebody inside: it never counts as many arrivals as it is made for,    *)
(* and no semaphore goes below zero.                                       *)
THEOREM TypeCorrect == Spec => []TypeOk
<1>1. ASSUME Types, BoundsInv PROVE TypeOk
  <2>1. Cardinality(Threads) \in Nat /\ Rounds \in Nat /\ MaxMade \in Nat
    BY GenThreads, GenBounds, FS_CardinalityType
  <2>2. ct \in 1 .. Cardinality(Threads) /\ cur \in 0 .. ct - 1
    BY <1>1, <2>1 DEF Types, BoundsInv
  <2>3. i \in [Threads -> 0 .. Cardinality(Threads)] /\ round \in [Threads -> 0 .. Rounds]
    BY <1>1, <2>1 DEF Types, BoundsInv
  <2>4. waiters \in [1 .. MaxMade -> Nat] /\ leader \in [1 .. MaxMade -> Nat]
    BY <1>1, <2>1 DEF Types, BoundsInv
  <2>5. /\ early \in BOOLEAN
        /\ pc \in [Threads -> Places] /\ on \in [Threads -> 1 .. MaxMade]
        /\ members \in SUBSET Threads /\ made \in 1 .. MaxMade
        /\ lock \in Threads \union {NoThread}
    BY <1>1 DEF Types, BoundsInv
  <2>6. QED
    BY <2>2, <2>3, <2>4, <2>5 DEF TypeOk
<1>2. QED
  BY <1>1, InvariantBounds, PTL

-----------------------------------------------------------------------------
\* The abstract barrier's inside.
InsideNow == Inside \ {t \in Threads : pc[t] = "lock"}

(* The abstract barrier counts as this one does.                           *)
LEMMA SameCardinality ==
    ASSUME NEW S
    PROVE  Abstract!Cardinality(S) = Cardinality(S)
BY Zenon DEF Abstract!Cardinality, Cardinality

(* Whoever finds the collection over, but somebody inside, finds the last  *)
(* one to arrive there.                                                    *)
LEMMA LeaderInside ==
    ASSUME IInv, BoundsInv, CollectionOver, Inside # {}
    PROVE  InsideNow # {}
<1>1. Types /\ LockInv /\ MembersInv /\ RoundsInv
  BY DEF IInv
<1>2. PICK u \in Threads : pc[u] # "out"
  BY DEF Inside
<1>3. CASE lock # NoThread
  BY <1>1, <1>3 DEF Types, LockInv, Leading, InsideNow, Inside
<1>4. CASE lock = NoThread
  <2>1. PICK r \in Nat : \A v \in members : round[v] = IF pc[v] = "out" THEN r ELSE r + 1
    BY <1>1, <1>4 DEF RoundsInv
  <2>2. u \in members /\ round[u] = r + 1 /\ round[u] <= Rounds
    BY <1>1, <1>2, <2>1 DEF MembersInv, BoundsInv
  <2>3. PICK v \in members : pc[v] = "out" /\ round[v] = Rounds
    BY <2>2 DEF CollectionOver
  <2>4. r = Rounds
    BY <2>1, <2>3
  <2>5. QED
    BY <2>2, <2>4, GenBounds
<1>5. QED
  BY <1>3, <1>4

(* While the barrier is intact, every step is one of the abstract barrier, *)
(* or changes nothing of it.                                               *)
LEMMA IntactRefines ==
    ASSUME ~early', IInv, BoundsInv, [Next]_vars
    PROVE  [Abstract!Next]_(Abstract!vars)
<1>0. early = FALSE /\ early' = FALSE
  <2>1. early \in BOOLEAN /\ early' \in BOOLEAN
    BY BoundsStep DEF IInv, BoundsInv
  <2>2. early => early'
    BY DEF Next, Wait, vars, client, Enter, Follow, StartWait, Wake, Return, Lead, Signal,
       Signalled, StartGather, LoadLeader, Gather, Gathered, Remake
  <2>3. QED
    BY <2>1, <2>2
<1>1. /\ Types /\ LockInv /\ MembersInv /\ CountsInv
      /\ Arrived = IF lock = NoThread THEN Waiting ELSE {}
  BY DEF IInv, Arrived, Waiting
<1>q. ASSUME Arrived' = Arrived, InsideNow' = InsideNow, ct' = ct
      PROVE  [Abstract!Next]_(Abstract!vars)
  BY <1>0, <1>q DEF Abstract!vars, InsideNow
<1>2. CASE UNCHANGED vars
  BY <1>2, <1>q DEF vars, client, barrier, sems, Arrived, InsideNow, Inside
<1>3. ASSUME NEW t \in Threads, Enter(t) \/ Wait(t) PROVE [Abstract!Next]_(Abstract!vars)
  <2>1. CASE \/ Enter(t) \/ StartWait(t) \/ Signal(t) \/ Signalled(t)
             \/ StartGather(t) \/ LoadLeader(t) \/ Gather(t)
    <3>1. /\ lock' = lock /\ ct' = ct
          /\ \A u \in Threads \ {t} : pc'[u] = pc[u]
      BY <1>1, <2>1 DEF Types, Enter, StartWait, Signal, Signalled, StartGather,
         LoadLeader, Gather, Goto, client, barrier
    <3>2. /\ pc'[t] \in {"wait", "waiting"} <=> pc[t] \in {"wait", "waiting"}
          /\ pc'[t] \in {"out", "lock"} <=> pc[t] \in {"out", "lock"}
      BY <1>1, <2>1 DEF Types, Enter, StartWait, Signal, Signalled, StartGather,
         LoadLeader, Gather, Goto
    <3>3. \A u \in Threads :
            /\ pc'[u] \in {"wait", "waiting"} <=> pc[u] \in {"wait", "waiting"}
            /\ pc'[u] \in {"out", "lock"} <=> pc[u] \in {"out", "lock"}
      BY <3>1, <3>2
    <3>4. Arrived' = Arrived
      BY <3>1, <3>3 DEF Arrived
    <3>5. InsideNow' = InsideNow
      BY <3>3 DEF InsideNow, Inside
    <3>. QED
      BY <1>q, <3>1, <3>4, <3>5
  <2>2. CASE Follow(t)
    <3>1. /\ t \notin InsideNow /\ InsideNow' = InsideNow \union {t} /\ ct' = ct
          /\ Arrived' = Arrived \union {t}
      BY <1>1, <2>2 DEF Types, Places, Follow, Goto, InsideNow, Inside, Arrived
    <3>2. Cardinality(Arrived) + 1 # ct
      BY <1>1, <2>2, MembersPositive DEF Types, Follow, CountsInv, FreeInv
    <3>3. Abstract!Arrive(t)
      BY <3>1, <3>2, SameCardinality DEF Abstract!Arrive, InsideNow
    <3>4. QED
      BY <1>0, <3>3 DEF Abstract!Next
  <2>3. CASE Wake(t)
    <3>1. lock # NoThread
      BY <1>1, <2>3 DEF Wake, CanWake, LockInv, CountsInv, FreeInv
    <3>2. Arrived' = Arrived /\ InsideNow' = InsideNow /\ ct' = ct
      BY <1>1, <2>3, <3>1 DEF Types, Places, Wake, Goto, Arrived, InsideNow, Inside, barrier
    <3>3. QED
      BY <1>q, <3>2
  <2>4. CASE Return(t)
    <3>1. lock # NoThread /\ lock' # NoThread
      BY <1>1, <2>4, AwakeIsLed DEF Return, barrier
    <3>2. t \in InsideNow /\ InsideNow' = InsideNow \ {t} /\ ct' = ct
      BY <1>1, <2>4 DEF Types, Places, Return, Goto, InsideNow, Inside, barrier
    <3>3. Arrived = {} /\ Arrived' = {}
      BY <3>1 DEF Arrived
    <3>4. Abstract!Leave(t)
      BY <3>2, <3>3 DEF Abstract!Leave, InsideNow
    <3>5. QED
      BY <1>0, <3>4 DEF Abstract!Next
  <2>5. CASE Lead(t)
    <3>1. /\ t \notin InsideNow /\ InsideNow' = InsideNow \union {t} /\ ct' = ct
          /\ Arrived' = {}
      BY <1>1, <2>5, GenThreads DEF Types, Places, Lead, Goto, InsideNow, Inside, Arrived
    <3>2. Cardinality(Arrived) + 1 = ct
      BY <1>1, <2>5, MembersPositive DEF Types, Lead, CountsInv, FreeInv
    <3>3. Abstract!Arrive(t)
      BY <3>1, <3>2, SameCardinality DEF Abstract!Arrive, InsideNow
    <3>4. QED
      BY <1>0, <3>3 DEF Abstract!Next
  <2>6. CASE Gathered(t)
    <3>1. lock # NoThread
      BY <1>1, <2>6, LeaderHasLock DEF Gathered, Leading
    <3>2. Waiting = {}
      BY <1>1, <2>6, OthersGone
    <3>3. Arrived = {} /\ Arrived' = {}
      BY <1>1, <2>6, <3>1, <3>2 DEF Types, Gathered, Goto, Arrived, Waiting
    <3>4. t \in InsideNow /\ InsideNow' = InsideNow \ {t} /\ ct' = ct
      BY <1>1, <2>6 DEF Types, Places, Gathered, Goto, InsideNow, Inside
    <3>5. Abstract!Leave(t)
      BY <3>3, <3>4 DEF Abstract!Leave, InsideNow
    <3>6. QED
      BY <1>0, <3>5 DEF Abstract!Next
  <2>7. QED
    BY <1>3, <2>1, <2>2, <2>3, <2>4, <2>5, <2>6 DEF Wait
<1>4. ASSUME NEW S \in SUBSET Threads, Remake(S) PROVE [Abstract!Next]_(Abstract!vars)
  <2>1. /\ \A u \in Threads : pc[u] = "out" /\ pc'[u] = "out"
        /\ Cardinality(S) \in Nat /\ Cardinality(S) > 0
    BY <1>1, <1>4, NobodyInside
  <2>2. InsideNow = {} /\ InsideNow' = {} /\ Arrived = {} /\ Arrived' = {}
    BY <2>1 DEF InsideNow, Inside, Arrived
  <2>3. ct' = Cardinality(S)
    BY <1>4 DEF Remake
  <2>4. Cardinality(S) \in 1 .. Cardinality(Threads)
    BY <2>1, SubsetSize
  <2>5. Abstract!Make(Cardinality(S))
    BY <2>2, <2>3 DEF Abstract!Make, InsideNow
  <2>6. QED
    BY <1>0, <2>4, <2>5, SameCardinality DEF Abstract!Next
<1>5. QED
  BY <1>2, <1>3, <1>4 DEF Next

(* Every step is one of the abstract barrier, which is broken from when it *)
(* is made anew with somebody inside.                                      *)
LEMMA StepRefines ==
    ASSUME early \/ IInv, Types, BoundsInv, [Next]_vars
    PROVE  [Abstract!Next]_(Abstract!vars)
<1>1. early \in BOOLEAN /\ early' \in BOOLEAN
  BY BoundsStep DEF BoundsInv
<1>2. CASE ~early'
  <2>1. early => early'
    BY DEF Next, Wait, vars, client, Enter, Follow, StartWait, Wake, Return, Lead, Signal,
       Signalled, StartGather, LoadLeader, Gather, Gathered, Remake
  <2>2. QED
    BY <1>2, <2>1, IntactRefines
<1>3. CASE early /\ early'
  BY <1>1, <1>3 DEF Abstract!Next
<1>4. CASE ~early /\ early'
  <2>1. PICK S \in SUBSET Threads : Remake(S)
    BY <1>4 DEF Next, Wait, vars, client, Enter, Follow, StartWait, Wake, Return, Lead, Signal,
       Signalled, StartGather, LoadLeader, Gather, Gathered
  <2>2. CollectionOver /\ Inside # {}
    BY <1>4, <2>1 DEF Remake
  <2>3. InsideNow # {} /\ early' = TRUE
    BY <1>1, <1>4, <2>2, LeaderInside
  <2>4. Abstract!Break
    BY <2>3 DEF Abstract!Break, InsideNow
  <2>5. QED
    BY <2>4 DEF Abstract!Next
<1>5. QED
  BY <1>1, <1>2, <1>3, <1>4

(* Every execution of gen-barriers.c is one of the barrier World assumes:  *)
(* whoever leaves has waited until all had come, until the barrier is made *)
(* anew with somebody inside.                                              *)
THEOREM GenBarrierIsBarrier == Spec => ImplementsCountedBarrier
<1>1. Init => Abstract!Init
  BY DEF Init, Abstract!Init, Inside, Arrived
<1>2. (early \/ IInv) /\ (Types /\ BoundsInv) /\ [Next]_vars
        => [Abstract!Next]_(Abstract!vars)
  BY StepRefines
<1>3. QED
  BY <1>1, <1>2, InvariantIInv, InvariantBounds, PTL
     DEF Spec, Abstract!Spec, ImplementsCountedBarrier
=============================================================================
