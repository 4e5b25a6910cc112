------------------------------- MODULE Gembc --------------------------------
(***************************************************************************)
(* The generational collector of collector/gembc.c: the nursery and the    *)
(* older generations, each a list of pools; allocation; the write barrier  *)
(* and its remembered sets; a collection that copies the survivors of the  *)
(* generations up to gen into the next one; its restart one generation     *)
(* higher when that is full; and the full collection that marks and        *)
(* compacts in place.                                                      *)
(*                                                                         *)
(* An object fills one slot of a pool: sizes and word-level layout are     *)
(* abstracted, and an object's descriptor is one of its members.  There is *)
(* one nursery, and its pointer stack is a set of variables.  The world is *)
(* stopped during a collection (module World), so the steps of a program   *)
(* and those of a collection do not interleave.                            *)
(***************************************************************************)
EXTENDS Integers, FiniteSets, Sequences, FiniteSetsExt

CONSTANTS
    Vars,           \* Pointers on the pointer stacks.
    Members,        \* Pointer members of an object.
    Generations,    \* GGGGC_GENERATIONS.
    PoolSize,       \* Objects that fit in a pool.
    CardSize,       \* Objects that fit in a card.
    MaxPools,       \* How many pools the system gives to one generation.
    CallsCollect,   \* TRUE if the program ever calls ggggc_collect itself.
    Null

ASSUME SizesAssumption ==
    /\ IsFiniteSet(Vars)
    /\ IsFiniteSet(Members)
    /\ Generations \in Nat \ {0, 1}
    /\ PoolSize \in Nat \ {0}
    /\ CardSize \in 1 .. PoolSize
    /\ MaxPools \in Nat \ {0}
    /\ CallsCollect \in BOOLEAN
    /\ Null \notin Nat \X Nat \X Nat

Gens  == 0 .. Generations - 1
Pools == Gens \X (1 .. MaxPools)
Slots == 0 .. PoolSize - 1
Locs  == Gens \X (1 .. MaxPools) \X Slots
Cards == Gens \X (1 .. MaxPools) \X (0 .. (PoolSize - 1) \div CardSize)

GenOf(l)  == l[1]
PoolOf(l) == <<l[1], l[2]>>
CardOf(l) == <<l[1], l[2], l[3] \div CardSize>>

VARIABLES
    var,        \* What each variable points to.
    heap,       \* What is in each slot.
    used,       \* Objects in each pool: its free pointer, in slots.
    pools,      \* Number of pools in each generation's list; 0: not made yet.
    current,    \* Which of them allocation is at (ggggc_pool0, ggggc_pools[]).
    remember,   \* The cards that are remembered.
    survivors,  \* Survivors counted in each pool.
    phase,      \* "run", or what a collection is doing: "copy" or "mark".
    gen,        \* The generation being collected.
    toSearch,   \* The stack of addresses of pointers yet to look at.
    nextAll     \* The generation ggggc_collect collects next; 0: not in it.

lists    == <<used, pools, current>>
heapVars == <<var, heap, lists, remember, survivors>>
vars     == <<heapVars, phase, gen, toSearch, nextAll>>

(***************************************************************************)
(* A slot.  at is where the object was moved to, that is, the forwarding   *)
(* word in place of the descriptor; marked is the mark bit of the same     *)
(* word; to are its pointers.  In a slot without an object the first word  *)
(* is clear if it was zeroed, so that a scan stops there, and else Junk.   *)
(***************************************************************************)
NewObject == [word |-> "object", at |-> Null, marked |-> FALSE, to |-> [f \in Members |-> Null]]
Cleared   == [NewObject EXCEPT !.word = "clear"]
Junk      == [NewObject EXCEPT !.word = "junk"]

\* Survivors of a pool that was never counted: the field is never set up.
Unset == -1

Init ==
    /\ var = [x \in Vars |-> Null]
    /\ heap = [l \in Locs |-> Junk]
    /\ used = [p \in Pools |-> 0]
    /\ pools = [g \in Gens |-> 0]
    /\ current = [g \in Gens |-> 1]
    /\ remember = {}
    /\ survivors = [p \in Pools |-> Unset]
    /\ phase = "run"
    /\ gen = 0
    /\ toSearch = <<>>
    /\ nextAll = 0

IsObject(l) == l[3] < used[PoolOf(l)]

Objects == {l \in Locs : IsObject(l)}

-----------------------------------------------------------------------------
(***************************************************************************)
(* Addresses of pointers, and what they point to.                          *)
(***************************************************************************)
VarAt(x)       == <<"var", x>>
MemberAt(l, f) == <<"member", l, f>>

Value(a) == IF a[1] = "var" THEN var[a[2]] ELSE heap[a[2]].to[a[3]]

\* Stores l at address a of a heap that is h otherwise.
Store(a, l, h) ==
    IF a[1] = "var"
    THEN var' = [var EXCEPT ![a[2]] = l] /\ heap' = h
    ELSE var' = var /\ heap' = [h EXCEPT ![a[2]].to[a[3]] = l]

\* FOLLOW_FORWARDED_OBJECT.  Every forwarding goes to an older generation.
Follow(l) ==
    LET last[m \in Locs] == IF heap[m].at = Null THEN m ELSE last[heap[m].at]
    IN last[l]

Listed(S) == FoldSet(LAMBDA a, s : Append(s, a), <<>>, S)

PointersOf(l, to) == {MemberAt(l, f) : f \in {g \in Members : to[g] # Null}}

-----------------------------------------------------------------------------
(***************************************************************************)
(* Allocation in the current pool of a generation or one after it.         *)
(***************************************************************************)
\* Mutant of RoomIn: off by one.
RoomInFull(g) == {k \in current[g] .. pools[g] : used[<<g, k>>] <= PoolSize}

RoomIn(g) == {k \in current[g] .. pools[g] : used[<<g, k>>] < PoolSize}

HasRoom(g) == pools[g] = 0 \/ RoomIn(g) # {}

FreePool(g) == IF pools[g] = 0 THEN 1 ELSE Min(RoomIn(g))
FreeLoc(g)  == <<g, FreePool(g), used[<<g, FreePool(g)>>]>>

Take(g) ==
    /\ pools' = [pools EXCEPT ![g] = IF @ = 0 THEN 1 ELSE @]
    /\ current' = [current EXCEPT ![g] = FreePool(g)]
    /\ used' = [used EXCEPT ![<<g, FreePool(g)>>] = @ + 1]

\* Without room, the search has walked to the last pool of the list.
Exhaust(g) ==
    /\ current' = [current EXCEPT ![g] = pools[g]]
    /\ UNCHANGED <<used, pools>>

New(x) ==
    /\ phase = "run"
    /\ HasRoom(0)
    /\ Take(0)
    /\ heap' = [heap EXCEPT ![FreeLoc(0)] = NewObject]
    /\ var' = [var EXCEPT ![x] = FreeLoc(0)]
    /\ UNCHANGED <<remember, survivors, phase, gen, toSearch, nextAll>>

-----------------------------------------------------------------------------
(***************************************************************************)
(* The program's other steps.                                              *)
(***************************************************************************)
SetVar(x, l) ==
    /\ phase = "run"
    /\ var' = [var EXCEPT ![x] = l]
    /\ UNCHANGED <<heap, lists, remember, survivors, phase, gen, toSearch, nextAll>>

Assign(x, y) == SetVar(x, var[y])

Clear(x) == SetVar(x, Null)

Read(x, y, f) == var[y] # Null /\ SetVar(x, heap[var[y]].to[f])

\* Mutant of Write: without the write barrier.
WriteUnremembered(x, f, y) ==
    /\ phase = "run"
    /\ var[x] # Null
    /\ heap' = [heap EXCEPT ![var[x]].to[f] = var[y]]
    /\ UNCHANGED <<var, lists, remember, survivors, phase, gen, toSearch, nextAll>>

\* GGGGC_WP: a write to an object that is not in the nursery is remembered.
Write(x, f, y) ==
    /\ phase = "run"
    /\ var[x] # Null
    /\ remember' = IF GenOf(var[x]) > 0 THEN remember \union {CardOf(var[x])} ELSE remember
    /\ heap' = [heap EXCEPT ![var[x]].to[f] = var[y]]
    /\ UNCHANGED <<var, lists, survivors, phase, gen, toSearch, nextAll>>

-----------------------------------------------------------------------------
(***************************************************************************)
(* A collection starts with the roots and, if it copies, the pointers in   *)
(* the remembered cards of the generations it does not collect.  The scan  *)
(* of a card goes from its first slot on until the next word is clear or   *)
(* the card (or the pool) ends.                                            *)
(***************************************************************************)
CardScan(c) ==
    LET on   == {l \in Locs : CardOf(l) = c}
        ends == {l \in on : heap[l] = Cleared /\ \E m \in on : m[3] < l[3]}
    IN {l \in on : \A m \in ends : l[3] < m[3]}

Roots == {VarAt(x) : x \in Vars}

\* Mutant of RememberedPointers: only the next generation's cards are scanned.
RememberedPointersNext(g) ==
    UNION {PointersOf(l, heap[l].to) :
             l \in UNION {CardScan(c) : c \in {d \in remember : GenOf(d) = g + 1}}}

RememberedPointers(g) ==
    UNION {PointersOf(l, heap[l].to) :
             l \in UNION {CardScan(c) : c \in {d \in remember : GenOf(d) > g}}}

Start(g) ==
    /\ gen' = g
    /\ phase' = IF g >= Generations - 1 THEN "mark" ELSE "copy"
    /\ toSearch' = IF g >= Generations - 1
                   THEN Listed(Roots)
                   ELSE Listed(Roots) \o Listed(RememberedPointers(g))

\* A program allocates and there is no room in the nursery; it tries again after.
CollectForRoom ==
    /\ phase = "run"
    /\ ~HasRoom(0)
    /\ Exhaust(0)
    /\ Start(0)
    /\ UNCHANGED <<var, heap, remember, survivors, nextAll>>

\* ggggc_collect: one generation after the other; other threads run between.
CollectAll ==
    /\ phase = "run"
    /\ CallsCollect
    /\ Start(nextAll)
    /\ nextAll' = (nextAll + 1) % Generations
    /\ UNCHANGED heapVars

-----------------------------------------------------------------------------
(***************************************************************************)
(* One step of a collection takes an address off the stack.                *)
(***************************************************************************)
Top  == toSearch[Len(toSearch)]
Rest == SubSeq(toSearch, 1, Len(toSearch) - 1)

Searching(p) == phase = p /\ toSearch # <<>>

Target == Follow(Value(Top))

Survived(l) ==
    survivors' = [survivors EXCEPT ![PoolOf(l)] = IF @ = Unset THEN Unset ELSE @ + 1]

SkipNull ==
    /\ toSearch # <<>>
    /\ Value(Top) = Null
    /\ toSearch' = Rest
    /\ UNCHANGED <<heapVars, phase, gen, nextAll>>

\* The object is, or was moved to, where it need not be moved from.
KeepOld ==
    /\ Searching("copy")
    /\ Value(Top) # Null
    /\ GenOf(Target) > gen
    /\ Store(Top, Target, heap)
    /\ toSearch' = Rest
    /\ UNCHANGED <<lists, remember, survivors, phase, gen, nextAll>>

\* Mutant of ClearNext: the next word stays as it is.
ClearNothing(l, h) == h

\* h with the slot after l cleared, if the pool has one.
ClearNext(l, h) ==
    IF l[3] + 1 < PoolSize THEN [h EXCEPT ![<<l[1], l[2], l[3] + 1>>] = Cleared] ELSE h

Promote ==
    /\ Searching("copy")
    /\ Value(Top) # Null
    /\ GenOf(Target) <= gen
    /\ HasRoom(gen + 1)
    /\ Take(gen + 1)
    /\ Survived(Target)
    /\ LET l == FreeLoc(gen + 1)
           h == [ClearNext(l, heap) EXCEPT ![l] = heap[Target], ![Target].at = l]
       IN /\ Store(Top, l, h)
          /\ toSearch' = Rest \o Listed(PointersOf(l, heap[Target].to))
    /\ UNCHANGED <<remember, phase, gen, nextAll>>

\* Mutant of PromoteFails: the collection starts again with the same generation.
PromoteFailsAgain ==
    /\ Searching("copy")
    /\ Value(Top) # Null
    /\ GenOf(Target) <= gen
    /\ ~HasRoom(gen + 1)
    /\ Exhaust(gen + 1)
    /\ Survived(Target)
    /\ Store(Top, Target, heap)
    /\ Start(gen)
    /\ UNCHANGED <<remember, nextAll>>

\* The next generation is full: it has to be collected too.
PromoteFails ==
    /\ Searching("copy")
    /\ Value(Top) # Null
    /\ GenOf(Target) <= gen
    /\ ~HasRoom(gen + 1)
    /\ Exhaust(gen + 1)
    /\ Survived(Target)
    /\ Store(Top, Target, heap)
    /\ Start(gen + 1)
    /\ UNCHANGED <<remember, nextAll>>

\* Mutant of Mark: the forwarding is followed, but not written back.
MarkUnstored ==
    /\ Searching("mark")
    /\ Value(Top) # Null
    /\ IF heap[Target].marked
       THEN toSearch' = Rest /\ UNCHANGED <<heap, survivors>>
       ELSE /\ heap' = [heap EXCEPT ![Target].marked = TRUE]
            /\ toSearch' = Rest \o Listed(PointersOf(Target, heap[Target].to))
            /\ Survived(Target)
    /\ UNCHANGED <<var, lists, remember, phase, gen, nextAll>>

Mark ==
    /\ Searching("mark")
    /\ Value(Top) # Null
    /\ IF heap[Target].marked
       THEN /\ Store(Top, Target, heap)
            /\ toSearch' = Rest
            /\ UNCHANGED survivors
       ELSE /\ Store(Top, Target, [heap EXCEPT ![Target].marked = TRUE])
            /\ toSearch' = Rest \o Listed(PointersOf(Target, heap[Target].to))
            /\ Survived(Target)
    /\ UNCHANGED <<lists, remember, phase, gen, nextAll>>

-----------------------------------------------------------------------------
(***************************************************************************)
(* The end of a collection.  Generations of whose space more than half     *)
(* survived are given up to as many pools again as they have, if the       *)
(* system has them.                                                        *)
(***************************************************************************)
PoolsOf(g) == {g} \X (1 .. pools[g])

TooSmall(g) ==
    \/ \E p \in PoolsOf(g) : survivors[p] = Unset
    \/ 2 * MapThenSumSet(LAMBDA p : survivors[p], PoolsOf(g)) > pools[g] * PoolSize

Expand ==
    /\ \E more \in [Gens -> 0 .. MaxPools] :
         /\ \A g \in Gens : more[g] > 0 =>
              /\ g <= gen
              /\ TooSmall(g)
              /\ more[g] <= pools[g]
              /\ pools[g] + more[g] <= MaxPools
         /\ pools' = [g \in Gens |-> pools[g] + more[g]]
    /\ survivors' = [p \in Pools |->
                       IF GenOf(p) <= gen /\ p[2] <= pools[GenOf(p)] THEN 0 ELSE survivors[p]]

\* Mutant of EndCopy: every remembered set is cleared.
EndCopyForgets ==
    /\ phase = "copy"
    /\ toSearch = <<>>
    /\ Expand
    /\ used' = [p \in Pools |-> IF GenOf(p) <= gen THEN 0 ELSE used[p]]
    /\ heap' = [l \in Locs |-> IF GenOf(l) <= gen THEN Junk ELSE heap[l]]
    /\ current' = [g \in Gens |-> IF g <= gen THEN 1 ELSE current[g]]
    /\ remember' = {}
    /\ phase' = "run"
    /\ gen' = 0
    /\ UNCHANGED <<var, toSearch, nextAll>>

EndCopy ==
    /\ phase = "copy"
    /\ toSearch = <<>>
    /\ Expand
    /\ used' = [p \in Pools |-> IF GenOf(p) <= gen THEN 0 ELSE used[p]]
    /\ heap' = [l \in Locs |-> IF GenOf(l) <= gen THEN Junk ELSE heap[l]]
    /\ current' = [g \in Gens |-> IF g <= gen THEN 1 ELSE current[g]]
    /\ remember' = {c \in remember : GenOf(c) > gen + 1}
    /\ phase' = "run"
    /\ gen' = 0
    /\ UNCHANGED <<var, toSearch, nextAll>>

\* In-place compaction slides the marked objects of each pool to its start.
Marked(p) == {l \in Objects : PoolOf(l) = p /\ heap[l].marked}

NewLoc(l) ==
    IF l = Null THEN Null
    ELSE <<l[1], l[2], Cardinality({m \in Marked(PoolOf(l)) : m[3] < l[3]})>>

Slid(object) ==
    [object EXCEPT !.marked = FALSE, !.to = [f \in Members |-> NewLoc(object.to[f])]]

Compacted(l) ==
    LET count == Cardinality(Marked(PoolOf(l)))
    IN IF l[3] < count
       THEN Slid(heap[CHOOSE m \in Marked(PoolOf(l)) : NewLoc(m) = l])
       ELSE IF l[3] = count /\ GenOf(l) > 0 THEN Cleared
       ELSE Junk

Younger(object, g) == \E f \in Members : object.to[f] # Null /\ GenOf(object.to[f]) < g

\* Mutant of EndMark: the remembered sets are cleared and not found again.
EndMarkForgets ==
    /\ phase = "mark"
    /\ toSearch = <<>>
    /\ Expand
    /\ var' = [x \in Vars |-> NewLoc(var[x])]
    /\ heap' = [l \in Locs |-> Compacted(l)]
    /\ used' = [p \in Pools |-> Cardinality(Marked(p))]
    /\ current' = [g \in Gens |-> 1]
    /\ remember' = {}
    /\ phase' = "run"
    /\ gen' = 0
    /\ UNCHANGED <<toSearch, nextAll>>

EndMark ==
    /\ phase = "mark"
    /\ toSearch = <<>>
    /\ Expand
    /\ var' = [x \in Vars |-> NewLoc(var[x])]
    /\ heap' = [l \in Locs |-> Compacted(l)]
    /\ used' = [p \in Pools |-> Cardinality(Marked(p))]
    /\ current' = [g \in Gens |-> 1]
    /\ remember' = {CardOf(NewLoc(l)) : l \in
                      {m \in Objects : heap[m].marked /\ Younger(heap[m], GenOf(m))}}
    /\ phase' = "run"
    /\ gen' = 0
    /\ UNCHANGED <<toSearch, nextAll>>

-----------------------------------------------------------------------------
Program ==
    \E x, y \in Vars, f \in Members :
        New(x) \/ Clear(x) \/ Assign(x, y) \/ Read(x, y, f) \/ Write(x, f, y)

Collector ==
    SkipNull \/ KeepOld \/ Promote \/ PromoteFails \/ Mark \/ EndCopy \/ EndMark

Next == Program \/ CollectForRoom \/ CollectAll \/ Collector

Spec == Init /\ [][Next]_vars

\* Nothing stops a collection once the world is stopped for it.
FairSpec == Spec /\ WF_vars(Collector)

-----------------------------------------------------------------------------
(***************************************************************************)
(* Properties.                                                             *)
(***************************************************************************)
SlotContents ==
    [word : {"object", "clear", "junk"}, at : Locs \union {Null}, marked : BOOLEAN,
     to : [Members -> Locs \union {Null}]]

(* Every variable has its type, and no pool holds more than fits in it.    *)
TypeOk ==
    /\ var \in [Vars -> Locs \union {Null}]
    /\ heap \in [Locs -> SlotContents]
    /\ used \in [Pools -> 0 .. PoolSize]
    /\ pools \in [Gens -> 0 .. MaxPools]
    /\ current \in [Gens -> 1 .. MaxPools]
    /\ remember \subseteq Cards
    /\ survivors \in [Pools -> Int]
    /\ phase \in {"run", "copy", "mark"}
    /\ gen \in Gens
    /\ \A i \in DOMAIN toSearch :
         \/ \E x \in Vars : toSearch[i] = VarAt(x)
         \/ \E l \in Locs, f \in Members : toSearch[i] = MemberAt(l, f)
    /\ nextAll \in Gens

Pointees(l) == {heap[l].to[f] : f \in Members} \ {Null}

(* While the program runs, every pointer of every object in the heap, dead *)
(* ones included (a card scan follows theirs, gembc.c:541), leads to an    *)
(* object that is where it says: never to a slot given up, or to an        *)
(* abandoned copy.                                                         *)
HeapClosed ==
    phase = "run" => \A l \in Objects :
        heap[l].at = Null /\ \A m \in Pointees(l) : m \in Objects

(* While the program runs, each pointer from a generation to a younger one *)
(* is in a remembered card, whatever writes, promotions, failed promotions *)
(* and compactions led here (gc-gembc.h:65, gembc.c:679-699, 1199-1248).   *)
RememberedComplete ==
    phase = "run" => \A l \in Objects :
        (\E m \in Pointees(l) : GenOf(m) < GenOf(l)) => CardOf(l) \in remember

(* The scan of a remembered card, which has no other end than a cleared    *)
(* word, meets objects only (gembc.c:144-146, 541-546, 1042).              *)
ScanMeetsObjects ==
    \A c \in remember : GenOf(c) > gen => CardScan(c) \subseteq Objects

(* A copying collection never loses sight of a pointer it has to change:   *)
(* one that leads into the generations being collected is still on the     *)
(* stack, unless it is itself in one of them.                              *)
NothingUnseen ==
    phase = "copy" =>
        LET seen == {toSearch[i] : i \in DOMAIN toSearch}
        IN /\ \A x \in Vars : var[x] # Null /\ GenOf(var[x]) <= gen => VarAt(x) \in seen
           /\ \A l \in Objects, f \in Members :
                /\ GenOf(l) > gen
                /\ heap[l].to[f] # Null
                /\ GenOf(heap[l].to[f]) <= gen
                => MemberAt(l, f) \in seen

(* A collection that has begun ends, after however many restarts.          *)
CollectionEnds == phase # "run" ~> phase = "run"

-----------------------------------------------------------------------------
(* To the program there is no collector: what its variables lead to is     *)
(* what an object graph with the same history holds, in every state, those *)
(* in the middle of a collection included (there, through forwarding).     *)
(* Collections only move objects; one that is lost, overwritten, half      *)
(* moved or confused with another is a step that no object graph takes.    *)
Lost == <<>>

AddressOf(l) ==
    IF l = Null THEN Null ELSE IF IsObject(Follow(l)) THEN Follow(l) ELSE Lost

Led ==
    LET closure[S \in SUBSET Locs] ==
          LET T == S \union {Follow(m) : m \in UNION {Pointees(l) : l \in S}}
          IN IF T = S THEN S ELSE closure[T]
    IN closure[{Follow(var[x]) : x \in {y \in Vars : var[y] # Null}}]

Graph == INSTANCE ObjectGraph WITH
    Addresses <- Locs,
    var       <- [x \in Vars |-> AddressOf(var[x])],
    member    <- [i \in {AddressOf(l) : l \in Led} |->
                    [f \in Members |-> IF i = Lost THEN Lost ELSE AddressOf(heap[i].to[f])]]

ImplementsObjectGraph == Graph!Spec
=============================================================================
