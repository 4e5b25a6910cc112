----------------------------- MODULE PortableMS -----------------------------
(***************************************************************************)
(* The mark and sweep collector of collector/portablems.c, word by word:   *)
(* allocation from a free list, marking, the sweep of each thread's own    *)
(* heap beside the others', and the second pass over its free list.        *)
(*                                                                         *)
(* The world is stopped and restarted as in module World: a collection     *)
(* begins when every other thread yields or blocks.  Words are numbered,   *)
(* and 0 is NULL.  The mark, the low bit of a descriptor pointer, is kept  *)
(* apart from it, and a free list is the sequence of its nodes.            *)
(***************************************************************************)
EXTENDS Integers, FiniteSets, Sequences, SequencesExt

CONSTANTS
    Threads,
    Main,           \* The thread whose heap has the first descriptors.
    Locals,         \* Local variables of each thread.
    Globals,        \* Variables that all of them use.
    Sizes,          \* Sizes of types without pointers, for which the program makes descriptors.
    PoolWords,      \* Words of a pool.
    WordBytes,      \* sizeof(ggc_size_t).
    MaxPools,       \* Bound: pools that the system has.
    MaxTypes,       \* Bound: descriptors the program has made that are still in memory.
    MayBlock,       \* TRUE if threads may block while others collect.
    CallsCollect    \* TRUE if the program calls ggggc_collect itself.

Pools    == 1 .. MaxPools
Words    == 1 .. MaxPools * (PoolWords + 1)         \* One more for a pool's header.
First(p) == (p - 1) * (PoolWords + 1) + 2
End(p)   == First(p) + PoolWords

\* A descriptor is a header, a size, a user's pointer and a word of pointer bits.
DescriptorWords == 4
DD == First(1)                  \* The descriptor of descriptors.
D  == DD + DescriptorWords      \* The descriptor of a type with one pointer.
PlainWords == 3                 \* The size of that type: GGGGC_MINIMUM_OBJECT_SIZE.

ASSUME PoolAssumption ==
    /\ Main \in Threads
    /\ PoolWords \in Nat /\ PoolWords >= 2 * DescriptorWords + PlainWords
    /\ WordBytes \in Nat \ {0} /\ MaxPools \in Nat \ {0} /\ MaxTypes \in Nat
    /\ \A s \in Sizes : s \in PlainWords .. PoolWords - 4
    /\ MayBlock \in BOOLEAN /\ CallsCollect \in BOOLEAN

VARIABLES
    mem,        \* The words of all pools.
    marked,     \* Objects whose descriptor pointer has the mark.
    gen0,       \* Each thread's pools.
    freeList,   \* Each thread's free list.
    var,        \* What variables point to.
    pc,         \* Each thread: "run", "full" (about to collect) or "retry".
    req,        \* What a thread in mallocRaw is to allocate.
    phase,      \* "run", "mark" or "sweep".
    toSearch,   \* The stack of objects yet to be marked.
    gc,         \* Each thread's part: "idle", "sweep", "swept" or "clear", or "away".
    pool,       \* The index of the pool a thread is sweeping.
    cur,        \* The word a sweep is at.
    lastFree,   \* The free block it has met last, or 0.
    survivors   \* The words it has met that survive.

sweeping == <<pool, cur, lastFree, survivors>>
heap     == <<mem, gen0, freeList>>
vars     == <<heap, marked, var, pc, req, phase, toSearch, gc, sweeping>>

Vars   == (Threads \X Locals) \union Globals
Own(t) == ({t} \X Locals) \union Globals

PerThread(v) == [t \in Threads |-> v]

NoRequest == [d |-> 0, s |-> 0]

\* Main has allocated its first descriptors.  Bits of a pointer word: 1 is the
\* descriptor pointer's, 2 that of the word after it, 4 the user's pointer's.
Init ==
    /\ mem = [w \in Words |->
                CASE w \in {DD, D} -> DD
                  [] w = DD + 1 -> DescriptorWords
                  [] w = D + 1 -> PlainWords
                  [] w = DD + 3 -> 1 + 4
                  [] w = D + 3 -> 1 + 2
                  [] w = D + 5 -> PoolWords - 2 * DescriptorWords
                  [] OTHER -> 0]
    /\ marked = {}
    /\ gen0 = [t \in Threads |-> IF t = Main THEN <<1>> ELSE <<>>]
    /\ freeList = [t \in Threads |-> IF t = Main THEN <<D + 4>> ELSE <<>>]
    /\ var = [x \in Vars |-> 0]
    /\ pc = PerThread("run")
    /\ req = PerThread(NoRequest)
    /\ phase = "run"
    /\ toSearch = <<>>
    /\ gc = PerThread("idle")
    /\ pool = PerThread(0) /\ cur = PerThread(0) /\ lastFree = PerThread(0)
    /\ survivors = PerThread(0)

Running(t) == phase = "run" /\ pc[t] = "run" /\ gc[t] = "idle"

-----------------------------------------------------------------------------
(***************************************************************************)
(* Allocation.  A request is for an object with descriptor d; s is the     *)
(* size it describes if it is itself a descriptor.  The program assigns    *)
(* what it gets to a variable x.                                           *)
(***************************************************************************)
Unused == Pools \ UNION {Range(gen0[t]) : t \in Threads}

\* The pools ps, each a free block of its own, in front of t's.
WithPools(m, ps) ==
    [w \in Words |-> IF \E p \in ps : w = First(p) THEN 0
                     ELSE IF \E p \in ps : w = First(p) + 1 THEN PoolWords ELSE m[w]]

\* The numbers of a set, the largest first.
Descending(S) ==
    CHOOSE s \in [1 .. Cardinality(S) -> S] : \A i, j \in DOMAIN s : i < j => s[i] > s[j]

Newest(ps)  == Descending(ps)
NodesOf(ps) == Descending({First(p) : p \in ps})

\* A block is taken whole, or if the rest of it can be a block.
Fits(size, rest) == rest = size \/ rest >= size + 4

Fit(m, list, size) == SelectInSeq(list, LAMBDA n : Fits(size, m[n + 1]))

NewWord(r, i) ==
    CASE i = 0 -> r.d
      [] r.d = DD /\ i = 1 -> r.s
      [] OTHER -> 0

\* Allocate r from memory m and the free list; the first block that fits is split.
Allocate(t, x, r, m, list) ==
    LET size == m[r.d + 1]
        i    == Fit(m, list, size)
        n    == list[i]
        rest == m[n + 1] - size
    IN /\ i # 0
       /\ mem' = [w \in Words |->
                    IF w \in n .. n + size - 1 THEN NewWord(r, w - n)
                    ELSE IF rest > 0 /\ w = n + size THEN 0
                    ELSE IF rest > 0 /\ w = n + size + 1 THEN rest ELSE m[w]]
       /\ freeList' = [freeList EXCEPT ![t] =
                         IF rest > 0 THEN [list EXCEPT ![i] = n + size] ELSE RemoveAt(list, i)]
       /\ var' = [var EXCEPT ![x] = n]

\* A new pool for t, and r from it.
AllocateInNew(t, x, r) ==
    /\ Unused # {}
    /\ LET p == CHOOSE q \in Unused : \A o \in Unused : q <= o
       IN /\ gen0' = [gen0 EXCEPT ![t] = <<p>> \o @]
          /\ Allocate(t, x, r, WithPools(mem, {p}), <<First(p)>> \o freeList[t])

HasRoom(t, r) == Fit(mem, freeList[t], mem[r.d + 1]) # 0

New(t, x, r) ==
    /\ Running(t)
    /\ \/ HasRoom(t, r) /\ Allocate(t, x, r, mem, freeList[t]) /\ UNCHANGED gen0
       \/ gen0[t] = <<>> /\ AllocateInNew(t, x, r)
    /\ UNCHANGED <<marked, pc, req, phase, toSearch, gc, sweeping>>

NoRoom(t, r) ==
    /\ Running(t)
    /\ ~HasRoom(t, r) /\ gen0[t] # <<>>
    /\ pc' = [pc EXCEPT ![t] = "full"]
    /\ req' = [req EXCEPT ![t] = r]
    /\ UNCHANGED <<heap, marked, var, phase, toSearch, gc, sweeping>>

\* After a collection: try again, and make more.  Or else the program aborts.
Retry(t, x) ==
    /\ phase = "run" /\ pc[t] = "retry" /\ gc[t] = "idle"
    /\ IF HasRoom(t, req[t])
       THEN Allocate(t, x, req[t], mem, freeList[t]) /\ UNCHANGED gen0
       ELSE AllocateInNew(t, x, req[t])
    /\ pc' = [pc EXCEPT ![t] = "run"]
    /\ req' = [req EXCEPT ![t] = NoRequest]
    /\ UNCHANGED <<marked, phase, toSearch, gc, sweeping>>

IsDescriptor(a) == a # 0 /\ mem[a] = DD

MayMakeType == Cardinality({w \in Words : mem[w] = DD} \ {DD, D}) < MaxTypes

Requests(t) ==
    [d : {D} \union {var[y] : y \in {z \in Own(t) : IsDescriptor(var[z])}}, s : {0}]
        \union [d : {DD}, s : IF MayMakeType THEN Sizes ELSE {}]

-----------------------------------------------------------------------------
(***************************************************************************)
(* The program.  The pointer of an object that has one is the word after   *)
(* its descriptor pointer.                                                 *)
(***************************************************************************)
SetVar(x, a) ==
    /\ var' = [var EXCEPT ![x] = a]
    /\ UNCHANGED <<heap, marked, pc, req, phase, toSearch, gc, sweeping>>

Assign(t, x, y) == Running(t) /\ SetVar(x, var[y])

Clear(t, x) == Running(t) /\ SetVar(x, 0)

\* The value of the bit i.
Bit[i \in 0 .. PoolWords] == IF i = 0 THEN 1 ELSE 2 * Bit[i - 1]

\* Pointer bit w of the descriptor d.
HasPointer(d, w) == (mem[d + 3] \div Bit[w]) % 2 = 1

HasMember(a) == a # 0 /\ HasPointer(mem[a], 1)

Read(t, x, y) == Running(t) /\ HasMember(var[y]) /\ SetVar(x, mem[var[y] + 1])

Write(t, x, y) ==
    /\ Running(t)
    /\ HasMember(var[x])
    /\ mem' = [mem EXCEPT ![var[x] + 1] = var[y]]
    /\ UNCHANGED <<gen0, freeList, marked, var, pc, req, phase, toSearch, gc, sweeping>>

-----------------------------------------------------------------------------
(***************************************************************************)
(* Marking: from all variables, the slots of descriptors, and the          *)
(* descriptors that threads in mallocRaw push.                             *)
(***************************************************************************)
Roots ==
    ({var[x] : x \in Vars} \union {DD, D} \union {req[t].d : t \in Threads}) \ {0}

\* All threads have come to the barrier, except those in blocking calls.  As
\* they take no steps there, it does not matter when they went in; they cannot
\* come back while the lock is held.
Collect(t, absent) ==
    /\ phase = "run"
    /\ pc[t] = "full" \/ (CallsCollect /\ pc[t] = "run")
    /\ \A u \in Threads : gc[u] = "idle" /\ pc[u] # "retry"
    /\ absent \subseteq {u \in Threads \ {t} : pc[u] = "run"}
    /\ gc' = [u \in Threads |-> IF u \in absent THEN "away" ELSE "idle"]
    /\ phase' = "mark"
    /\ pc' = [pc EXCEPT ![t] = IF @ = "full" THEN "retry" ELSE @]
    /\ toSearch' = SetToSeq(Roots)
    /\ UNCHANGED <<heap, marked, var, req, sweeping>>

\* Mutant of Referred: the first bit taken is that of the second word.
ReferredLate(a) ==
    {mem[a + w] : w \in {v \in 2 .. mem[mem[a] + 1] - 1 : HasPointer(mem[a], v)}} \ {0}

Referred(a) ==
    IF HasPointer(mem[a], 0)
    THEN {mem[a + w] : w \in {v \in 1 .. mem[mem[a] + 1] - 1 : HasPointer(mem[a], v)}} \ {0}
    ELSE {}

\* What an object refers to.  Bit 0 says whether there is more than the descriptor.
Pointers(a) == {mem[a]} \union Referred(a)

MarkAgain ==
    /\ phase = "mark" /\ toSearch # <<>>
    /\ Last(toSearch) \in marked
    /\ toSearch' = Front(toSearch)
    /\ UNCHANGED <<heap, marked, var, pc, req, phase, gc, sweeping>>

\* Mutant of Mark: descriptors are not marked.
MarkReferred ==
    /\ phase = "mark" /\ toSearch # <<>>
    /\ Last(toSearch) \notin marked
    /\ marked' = marked \union {Last(toSearch)}
    /\ toSearch' = Front(toSearch) \o SetToSeq(Referred(Last(toSearch)))
    /\ UNCHANGED <<heap, var, pc, req, phase, gc, sweeping>>

Mark ==
    /\ phase = "mark" /\ toSearch # <<>>
    /\ Last(toSearch) \notin marked
    /\ marked' = marked \union {Last(toSearch)}
    /\ toSearch' = Front(toSearch) \o SetToSeq(Pointers(Last(toSearch)))
    /\ UNCHANGED <<heap, var, pc, req, phase, gc, sweeping>>

-----------------------------------------------------------------------------
(***************************************************************************)
(* The sweep.  A block that is free has its size in its first word until   *)
(* clearFreeList, as the second may be the size in a dead descriptor that  *)
(* other threads still have to read.                                       *)
(***************************************************************************)
Sweepers == {t \in Threads : gc[t] # "away"}

\* Marking is over, and everybody who is not blocked sweeps.
StartSweep ==
    /\ phase = "mark" /\ toSearch = <<>>
    /\ phase' = "sweep"
    /\ gc' = [t \in Threads |-> IF t \notin Sweepers THEN "away"
                                ELSE IF gen0[t] = <<>> THEN "swept" ELSE "sweep"]
    /\ freeList' = [t \in Threads |-> IF t \in Sweepers THEN <<>> ELSE freeList[t]]
    /\ pool' = [t \in Threads |-> 1]
    /\ cur' = [t \in Threads |-> IF t \in Sweepers /\ gen0[t] # <<>> THEN First(gen0[t][1]) ELSE 0]
    /\ lastFree' = PerThread(0)
    /\ survivors' = PerThread(0)
    /\ UNCHANGED <<mem, gen0, marked, var, pc, req, toSearch>>

\* The sweep goes on at a, in the next pool, or nowhere.
GoOn(t, a) ==
    IF a < End(gen0[t][pool[t]])
    THEN cur' = [cur EXCEPT ![t] = a] /\ UNCHANGED <<pool, gc>>
    ELSE IF pool[t] < Len(gen0[t])
    THEN /\ pool' = [pool EXCEPT ![t] = @ + 1]
         /\ cur' = [cur EXCEPT ![t] = First(gen0[t][pool[t] + 1])]
         /\ UNCHANGED gc
    ELSE gc' = [gc EXCEPT ![t] = "swept"] /\ UNCHANGED <<pool, cur>>

SweepMarked(t) ==
    /\ gc[t] = "sweep"
    /\ cur[t] \in marked
    /\ marked' = marked \ {cur[t]}
    /\ LET size == mem[mem[cur[t]] + 1]
       IN /\ GoOn(t, cur[t] + size)
          /\ survivors' = [survivors EXCEPT ![t] = @ + size]
    /\ UNCHANGED <<heap, var, pc, req, phase, toSearch, lastFree>>

FreeSize(a) == IF mem[a] = 0 THEN mem[a + 1] ELSE mem[mem[a] + 1]

\* Mutant of Coalesces: the last free block is forgotten at once.
CoalescesNever(t) == FALSE

Coalesces(t) == lastFree[t] # 0 /\ cur[t] = lastFree[t] + mem[lastFree[t]]

\* Mutant of Sized: sizes are put where they belong while others still sweep.
SizedAtOnce(a, size) == [mem EXCEPT ![a] = size, ![a + 1] = size]

Sized(a, size) == [mem EXCEPT ![a] = size]

SweepFree(t) ==
    /\ gc[t] = "sweep"
    /\ cur[t] \notin marked
    /\ GoOn(t, cur[t] + FreeSize(cur[t]))
    /\ IF Coalesces(t)
       THEN /\ mem' = Sized(lastFree[t], mem[lastFree[t]] + FreeSize(cur[t]))
            /\ UNCHANGED <<freeList, lastFree>>
       ELSE /\ mem' = Sized(cur[t], FreeSize(cur[t]))
            /\ freeList' = [freeList EXCEPT ![t] = Append(@, cur[t])]
            /\ lastFree' = [lastFree EXCEPT ![t] = cur[t]]
    /\ UNCHANGED <<gen0, marked, var, pc, req, phase, toSearch, survivors>>

\* Everybody has swept: the last barrier.
Restart ==
    /\ phase = "sweep"
    /\ \A t \in Sweepers : gc[t] = "swept"
    /\ phase' = "run"
    /\ gc' = [t \in Threads |-> IF t \in Sweepers THEN "clear" ELSE "idle"]
    /\ UNCHANGED <<heap, marked, var, pc, req, toSearch, sweeping>>

\* Pools to add when more than half of t's heap survived.  The words that are
\* missing are counted as bytes, a pool's being POOL_BYTES.
Wanted(t) ==
    LET total == PoolWords * Len(gen0[t])
        bytes == PoolWords * WordBytes
    IN IF survivors[t] > total \div 2
       THEN (2 * survivors[t] - total + bytes - 1) \div bytes ELSE 0

\* What the rest of a free block holds is not kept: allocation clears it first.
ClearFreeList(t, granted) ==
    /\ gc[t] = "clear"
    /\ LET nodes == Range(freeList[t])
           freed == UNION {n .. n + mem[n] - 1 : n \in nodes}
           sized == [w \in Words |-> IF w - 1 \in nodes THEN mem[w - 1]
                                     ELSE IF w \in freed THEN 0 ELSE mem[w]]
           new   == {p \in Unused : Cardinality({q \in Unused : q <= p}) <= granted}
       IN /\ mem' = WithPools(sized, new)
          /\ gen0' = [gen0 EXCEPT ![t] = Newest(new) \o @]
          /\ freeList' = [freeList EXCEPT ![t] = NodesOf(new) \o @]
    /\ gc' = [gc EXCEPT ![t] = "idle"]
    /\ pool' = [pool EXCEPT ![t] = 0]
    /\ cur' = [cur EXCEPT ![t] = 0]
    /\ lastFree' = [lastFree EXCEPT ![t] = 0]
    /\ survivors' = [survivors EXCEPT ![t] = 0]
    /\ UNCHANGED <<marked, var, pc, req, phase, toSearch>>

-----------------------------------------------------------------------------
Program(t) ==
    \/ \E r \in Requests(t) : NoRoom(t, r) \/ \E x \in Own(t) : New(t, x, r)
    \/ \E x \in Own(t) : Clear(t, x) \/ Retry(t, x)
    \/ \E x, y \in Own(t) : Assign(t, x, y) \/ Read(t, x, y) \/ Write(t, x, y)

Collection(t) ==
    \/ \E absent \in (IF MayBlock THEN SUBSET Threads ELSE {{}}) : Collect(t, absent)
    \/ SweepMarked(t) \/ SweepFree(t)
    \/ \E granted \in 0 .. Wanted(t) : ClearFreeList(t, granted)

Next ==
    \/ \E t \in Threads : Program(t) \/ Collection(t)
    \/ MarkAgain \/ Mark \/ StartSweep \/ Restart

Spec == Init /\ [][Next]_vars

-----------------------------------------------------------------------------
(***************************************************************************)
(* Properties.                                                             *)
(***************************************************************************)
(* Every variable has its type; pools belong to one thread.                *)
TypeOk ==
    /\ mem \in [Words -> Nat]
    /\ marked \subseteq Words
    /\ \A t \in Threads :
         /\ gen0[t] \in Seq(Pools) /\ IsInjective(gen0[t])
         /\ freeList[t] \in Seq(Words)
         /\ \A u \in Threads \ {t} : Range(gen0[t]) \intersect Range(gen0[u]) = {}
    /\ var \in [Vars -> Words \union {0}]
    /\ pc \in [Threads -> {"run", "full", "retry"}]
    /\ \A t \in Threads : req[t].d # 0 <=> pc[t] \in {"full", "retry"}
    /\ phase \in {"run", "mark", "sweep"}
    /\ toSearch \in Seq(Words)
    /\ gc \in [Threads -> {"idle", "sweep", "swept", "clear", "away"}]
    /\ survivors \in [Threads -> Nat]

\* The size of the block at a, as t's heap has it at the moment.
BlockSize(t, a) ==
    IF gc[t] \in {"sweep", "swept", "clear"} /\ a \in Range(freeList[t]) THEN mem[a]
    ELSE IF mem[a] + 1 \in Words THEN FreeSize(a) ELSE 0

\* Where the blocks of p begin, from block to block, and where the last one ends.
Steps(t, p) ==
    LET from[a \in First(p) .. End(p)] ==
          IF a < End(p) /\ a + BlockSize(t, a) \in a + 1 .. End(p)
          THEN {a} \union from[a + BlockSize(t, a)] ELSE {a}
    IN from[First(p)]

Blocks(t) == UNION {Steps(t, p) \ {End(p)} : p \in Range(gen0[t])}

Objects(t) == {a \in Blocks(t) : mem[a] # 0 /\ a \notin Range(freeList[t])}

Free(t) == {a \in Blocks(t) : mem[a] = 0}

\* What the roots lead to (a word that is free leads nowhere).
Reachable ==
    LET closure[S \in SUBSET Words] ==
          LET T == S \union (Words \intersect UNION {Pointers(a) : a \in {b \in S : mem[b] # 0}})
          IN IF T = S THEN S ELSE closure[T]
    IN closure[Roots]

(* In every state no pool has two owners, and from its first word to its   *)
(* end each is blocks whose sizes can be read: in free ones, or in         *)
(* descriptors, dead ones included, that another thread may have freed     *)
(* already (portablems.c:478, 486, 523).  A sweep that lost step would     *)
(* free the middle of objects.                                             *)
HeapParses ==
    /\ TypeOk
    /\ \A t \in Threads : \A p \in Range(gen0[t]) : End(p) \in Steps(t, p)

(* Between collections a free list has every free block of its thread's    *)
(* pools, once, and no two of them are side by side (portablems.c:68-87,   *)
(* 490-505, 522): no space is lost, and none is given out twice.           *)
FreeListExact ==
    \A t \in Threads : gc[t] = "idle" =>
        /\ Range(freeList[t]) = Free(t)
        /\ IsInjective(freeList[t])
        /\ \A a \in Free(t) : a + mem[a + 1] \notin Free(t)

(* What a thread's heap holds once it has been swept is what can be        *)
(* reached, no more and no less, and no mark is left in it for the next    *)
(* collection to stop at (portablems.c:376-382, 467-475).                  *)
SweptHeapIsLive ==
    \A t \in Threads : phase = "sweep" /\ gc[t] = "swept" =>
        /\ Objects(t) = Reachable \intersect Blocks(t)
        /\ marked \intersect Objects(t) = {}

(* When marking is over, everything that can be reached has its mark:      *)
(* "mark this object and all objects it refers to" (portablems.c:350).     *)
ReachableMarked == phase = "mark" /\ toSearch = <<>> => Reachable \subseteq marked

-----------------------------------------------------------------------------
(* To the program there is no collector: in every state its variables lead *)
(* to what an object graph with the same history holds.  An object that is *)
(* swept, split or given out again while something leads to it is a step   *)
(* that no object graph takes.                                             *)
Lost == 0 - 1

FreeWords ==
    UNION {UNION {n .. n + BlockSize(t, n) - 1 : n \in Range(freeList[t])} : t \in Threads}

Led ==
    LET closure[S \in SUBSET Words] ==
          LET T == S \union (Words \intersect {mem[a + 1] : a \in {b \in S : HasMember(b)}})
          IN IF T = S THEN S ELSE closure[T]
    IN closure[Range(var) \ {0}]

Graph == INSTANCE ObjectGraph WITH
    Members   <- {1},
    Addresses <- Words,
    Null      <- 0,
    var       <- var,
    member    <- LET free == FreeWords
                 IN [a \in Led |->
                       [f \in {1} |-> IF mem[a] = 0 \/ a \in free THEN Lost
                                       ELSE IF HasMember(a) THEN mem[a + f] ELSE 0]]

ImplementsObjectGraph == Graph!SpecInPlace
=============================================================================
