-------------------------------- MODULE Compact --------------------------------
(***************************************************************************)
(* The full collection of collector/gembc.c word by word: how objects that *)
(* stay are slid together inside their pools, with the tables that tell    *)
(* where they went built in the gaps, and with the first-object and        *)
(* remembered cards made anew.  Gembc models what this does to whole       *)
(* objects of one size.                                                    *)
(*                                                                         *)
(* Two pools lie side by side, the nursery and that of generation 1, with  *)
(* the header of another pool behind them.  Descriptors are objects too;   *)
(* the pointer to its descriptor is the only one an object has.            *)
(***************************************************************************)
EXTENDS Integers, FiniteSets, SequencesExt, BreakTable

CONSTANTS
    PoolWords,
    HeaderWords,    \* Of a pool, before its first object.
    CardWords,
    Types, Plain,   \* Names of descriptors and of other objects.
    Root,           \* The descriptor of descriptors.
    TypeSize        \* The size asked for the objects of each type.

ASSUME CompactAssumption ==
    /\ PoolWords \in Nat /\ HeaderWords \in Nat /\ CardWords \in Nat \ {0}
    /\ PoolWords % CardWords = 0
    /\ CardWords <= HeaderWords /\ HeaderWords < PoolWords
    /\ Root \in Types /\ Types \cap Plain = {}
    /\ TypeSize \in [Types -> Nat]

VARIABLES
    mem,            \* The words of memory.
    free,           \* Of each pool: where its objects end.
    roots,          \* Where the program's variables find what they name, or 0.
    firstObject, remember,  \* The cards of generation 1.
    table,          \* Break table and size of each pool, during a collection.
    phase, fresh    \* Copies made by the present collection start at fresh.

vars == <<mem, free, roots, firstObject, remember, table, phase, fresh>>

Names == Types \cup Plain
Pools == {0, 1}     \* Numbered as their generations are.
Cards == 0 .. (PoolWords \div CardWords) - 1
Addr  == 0 .. 2 * PoolWords + 1

PoolOf(a) == a \div PoolWords
Start(p)  == p * PoolWords + HeaderWords
End(p)    == (p + 1) * PoolWords
CardOf(a) == (a % PoolWords) \div CardWords
Inner(a)  == a % CardWords

\* Words.
Object(d)  == <<"object", d>>       \* The pointer to a descriptor,
Marked(d)  == <<"marked", d>>       \* the same with the mark,
Moved(a)   == <<"moved", a>>        \* the address of a copy with the other bit,
Place(a)   == <<"place", a>>        \* an address in a break table,
Number(n)  == <<"number", n>>       \* a size, or NULL,
Data(n, t) == <<"data", n, t>>      \* what the program keeps in an object,
Members    == <<"members", 0>>      \* of a pool,
Junk       == <<"junk", 0>>         \* what nobody reads before writing it.

IsMarked(m, a) == m[a][1] = "marked"

\* FOLLOW_FORWARDED_OBJECT.
RECURSIVE Followed(_, _)
Followed(m, a) == IF m[a][1] = "moved" THEN Followed(m, m[a][2]) ELSE a

\* Whatever is read as a size has some effect: a wrong one leaves the pool.
SizeIn(m, d) ==
    IF d \in Addr \ {2 * PoolWords + 1} /\ m[d + 1][1] = "number" /\ m[d + 1][2] # 0
    THEN m[d + 1][2] ELSE PoolWords

\* The size of an object, and where the next one is.
Size(m, a)  == SizeIn(m, m[a][2])
Past(a, sz) == IF a + sz > End(PoolOf(a)) THEN End(PoolOf(a)) ELSE a + sz

WordsAt(m, a, n) == [i \in 1 .. n |-> m[a + i - 1]]

Written(m, a, words) == [x \in a .. a + Len(words) - 1 |-> words[x - a + 1]] @@ m

MinimumObjectSize == 3

\* The size of the objects of type t.
Sized(t) == IF TypeSize[t] < MinimumObjectSize THEN MinimumObjectSize ELSE TypeSize[t]

\* Object n of type t as the program writes it, when t is at d.
Contents(n, t, d) ==
    [i \in 1 .. Sized(t) |->
        IF i = 1 THEN Object(d)
        ELSE IF i = 2 /\ n \in Types THEN Number(Sized(n))
        ELSE Data(n, t)]

\* m, without what nobody reads before writing it when objects end at fr and the
\* program names r: the words behind the objects, save the one that ends them in
\* generation 1, and what the program kept in objects it has given up.
Forgotten(m, fr, r) ==
    LET Behind(a) == \E p \in Pools : fr[p] + p <= a /\ a < End(p)
        Lost(a)   == /\ m[a][1] = "data" /\ m[a][2] \in Plain
                     /\ LET b == r[m[a][2]] IN b = 0 \/ a \notin b .. b + Size(m, b) - 1
    IN [a \in {x \in Addr : Behind(x) \/ Lost(x)} |-> Junk] @@ m

\* The objects of pool p from address a on.
RECURSIVE Objects(_, _, _, _)
Objects(m, fr, p, a) ==
    IF a >= fr[p] THEN {} ELSE {a} \cup Objects(m, fr, p, Past(a, Size(m, Followed(m, a))))

Init ==
    /\ mem = Written([a \in Addr |-> IF a % PoolWords < HeaderWords THEN Members ELSE Junk],
                     Start(0), Contents(Root, Root, Start(0)))
    /\ free = [p \in Pools |-> IF p = 0 THEN Start(0) + Sized(Root) ELSE Start(1)]
    /\ roots = [n \in Names |-> IF n = Root THEN Start(0) ELSE 0]
    /\ firstObject = [c \in Cards |-> IF c = CardOf(Start(1)) THEN Inner(Start(1)) ELSE 0]
    /\ remember = {}
    /\ table = [p \in Pools |-> [at |-> 0, size |-> 0]]
    /\ phase = "program"
    /\ fresh = Start(1)

-----------------------------------------------------------------------------
(* The program *)

New(n, t) ==
    /\ phase = "program"
    /\ roots[n] = 0 /\ roots[t] # 0
    /\ (n \in Types) = (t = Root)
    /\ LET size == SizeIn(mem, roots[t])
       IN /\ free[0] + size <= End(0)
          /\ mem' = Written(mem, free[0], Contents(n, t, roots[t]))
          /\ free' = [free EXCEPT ![0] = @ + size]
    /\ roots' = [roots EXCEPT ![n] = free[0]]
    /\ UNCHANGED <<firstObject, remember, table, phase, fresh>>

\* The program calls for a collection, or has no room, and has by then given up
\* all but what it keeps.
StartCollection(keeps) ==
    /\ phase = "program"
    /\ roots' = [n \in Names |-> IF n \in keeps THEN roots[n] ELSE 0]
    /\ mem' = Forgotten(mem, free, roots')
    /\ fresh' = free[1]
    /\ phase' = "copying"
    /\ UNCHANGED <<free, firstObject, remember, table>>

-----------------------------------------------------------------------------
(* The collection of the nursery *)

\* The objects met when card c is scanned, from a on.
RECURSIVE Met(_, _, _)
Met(m, c, a) ==
    IF CardOf(a) # c THEN {}
    ELSE LET next == Past(a, Size(m, a)) IN
         {a} \cup IF m[next] = Number(0) THEN {} ELSE Met(m, c, next)

Scan(c) == Met(mem, c, PoolWords + c * CardWords + firstObject[c])

\* Objects of generation 1 whose pointers the collection visits.
Visited ==
    UNION {Scan(c) : c \in remember} \cup {a \in Objects(mem, free, 1, Start(1)) : a >= fresh}

FollowedRoots == [n \in Names |-> IF roots[n] = 0 THEN 0 ELSE Followed(mem, roots[n])]

\* Where the program's variables lead.
Named == {FollowedRoots[n] : n \in {x \in Names : roots[x] # 0}}

ToCopy ==
    {a \in Named \cup {Followed(mem, mem[v][2]) : v \in Visited} : PoolOf(a) = 0}

DescriptorOf(a) == Followed(mem, mem[a][2])

\* ggggc_mallocGen1 for size words: what it does to memory, and to the cards.
Ended(past) == IF past < End(1) THEN [mem EXCEPT ![past] = Number(0)] ELSE mem

CardsPast(a, past) ==
    IF CardOf(a) # CardOf(past) /\ past < End(1)
    THEN [firstObject EXCEPT ![CardOf(past)] = Inner(past)] ELSE firstObject

\* One pool is all there is in generation 1.
Copy(a) ==
    LET size == SizeIn(mem, DescriptorOf(a))
        past == free[1] + size
    IN /\ past <= End(1)
       /\ mem' = [Written(Ended(past), free[1], WordsAt(mem, a, size)) EXCEPT ![a] = Moved(free[1])]
       /\ free' = [free EXCEPT ![1] = past]
       /\ firstObject' = CardsPast(free[1], past)
       /\ UNCHANGED <<roots, remember, table, phase, fresh>>

FinishCopying ==
    /\ ToCopy = {}
    /\ roots' = FollowedRoots
    /\ free' = [free EXCEPT ![0] = Start(0)]
    /\ mem' = Forgotten(
            [a \in Visited |-> Object(DescriptorOf(a))] @@ mem, free', roots')
    /\ remember' = {}
    /\ phase' = "program" /\ fresh' = Start(1)
    /\ UNCHANGED <<firstObject, table>>

\* All objects that those in live lead to.
RECURSIVE Closed(_)
Closed(live) ==
    LET more == live \cup {DescriptorOf(a) : a \in live}
    IN IF more = live THEN live ELSE Closed(more)

\* Mutant of Live: remembered cards are roots here too.
LiveOrRemembered == Closed(Named \cup {Followed(mem, mem[v][2]) : v \in Visited})

Live == Closed(Named)

\* There is no room for a copy: the full collection begins by marking.
MarkInstead(a) ==
    /\ free[1] + SizeIn(mem, DescriptorOf(a)) > End(1)
    /\ mem' = [x \in Live |-> Marked(DescriptorOf(x))] @@ mem
    /\ roots' = FollowedRoots
    /\ phase' = "marked"
    /\ UNCHANGED <<free, firstObject, remember, table, fresh>>

-----------------------------------------------------------------------------
(* The full collection *)

RECURSIVE UsedEnd(_, _, _), UnusedEnd(_, _, _), Counted(_, _, _)

UsedEnd(m, p, a) ==
    IF a >= free[p] \/ ~IsMarked(m, a) THEN a ELSE UsedEnd(m, p, Past(a, Size(m, a)))

\* Mutant of UnusedEnd: an object that has moved is not followed.
UnusedEndStay(m, p, a) ==
    IF a >= free[p] THEN End(p)
    ELSE IF IsMarked(m, a) THEN a
    ELSE UnusedEnd(m, p, Past(a, Size(m, a)))

UnusedEnd(m, p, a) ==
    IF a >= free[p] THEN End(p)
    ELSE IF IsMarked(m, a) THEN a
    ELSE UnusedEnd(m, p, Past(a, Size(m, Followed(m, a))))

Unmarked(m, a, b) ==
    [x \in {y \in a .. b - 1 : IsMarked(m, y)} |-> Object(m[x][2])] @@ m

\* The pool when its chunks are counted from a on, where an unused one begins.
Counted(m, p, a) ==
    LET b == UnusedEnd(m, p, a)
        n == [m EXCEPT ![a] = Number(b - a)]
        c == UsedEnd(n, p, b)
        o == [Unmarked(n, b, c) EXCEPT ![b - 1] = Number(c - b)]
    IN IF b >= End(p) THEN n ELSE IF c >= End(p) THEN o ELSE Counted(o, p, c)

CountUsed(m, p) ==
    LET c == UsedEnd(m, p, Start(p))
        n == Unmarked(m, Start(p), c)
    IN IF c >= End(p) THEN n ELSE Counted(n, p, c)

Count ==
    /\ phase = "marked"
    /\ mem' = CountUsed(CountUsed(mem, 0), 1)
    /\ table' = [p \in Pools |-> [at |-> 0, size |-> UsedEnd(mem, p, Start(p)) - Start(p)]]
    /\ phase' = "counted"
    /\ UNCHANGED <<free, roots, firstObject, remember, fresh>>

\* A pool being compacted: its memory, where its objects end by now, and where
\* the table begins and ends.
Slot(m, f, b, e) == [mem |-> m, free |-> f, bt |-> b, btEnd |-> e]

RECURSIVE Rolled(_, _, _, _), Compacted(_, _, _, _)

\* Mutant of Rolled: it stops a word early.
RolledShort(s, cur, size, i) ==
    IF i + 1 >= size THEN s
    ELSE LET table2 == Written(s.mem, s.btEnd, WordsAt(s.mem, s.bt, 2))
             first  == Written(table2, s.free + i, WordsAt(table2, cur + i, 1))
             second == Written(first, s.free + i + 1, WordsAt(first, cur + i + 1, 1))
         IN Rolled(Slot(second, s.free, s.bt + 2, s.btEnd + 2), cur, size, i + 2)

\* From word i on, two words of the chunk at cur are copied after two words of
\* the table have made way for them.
Rolled(s, cur, size, i) ==
    IF i >= size THEN s
    ELSE LET table2 == Written(s.mem, s.btEnd, WordsAt(s.mem, s.bt, 2))
             first  == Written(table2, s.free + i, WordsAt(table2, cur + i, 1))
             second == Written(first, s.free + i + 1, WordsAt(first, cur + i + 1, 1))
         IN Rolled(Slot(second, s.free, s.bt + 2, s.btEnd + 2), cur, size, i + 2)

\* An unused chunk of the given size is at cur.
Compacted(s, p, at, size) ==
    LET cur  == at + size
        used == s.mem[cur - 1][2]
        gap  == IF cur + used < End(p) THEN s.mem[cur + used][2] ELSE 0
        r    == Rolled(s, cur, used, 0)
        t    == Slot(Written(r.mem, r.btEnd, <<Place(cur), Place(r.free)>>),
                     r.free + used, r.bt, r.btEnd + 2)
    IN IF cur >= End(p) THEN s
       ELSE IF cur + used >= End(p) THEN t ELSE Compacted(t, p, cur + used, gap)

CompactPool(m, p) ==
    LET cur == Start(p) + table[p].size
        s   == Slot(m, cur, cur, cur)
    IN IF cur >= End(p) THEN s ELSE Compacted(s, p, cur, m[cur][2])

\* qsort: entries are two words, in the order of the first.
Sorted(s) ==
    LET entries == {WordsAt(s.mem, s.bt + 2 * i, 2) : i \in 0 .. (s.btEnd - s.bt) \div 2 - 1}
        order   == SetToSortSeq(entries, LAMBDA l, r : l[1][2] < r[1][2])
    IN Written(s.mem, s.bt, FlattenSeq(order))

CompactPools ==
    LET s0 == CompactPool(mem, 0)
        s1 == CompactPool(Sorted(s0), 1)
    IN /\ phase = "counted"
       /\ mem' = Sorted(s1)
       /\ free' = [p \in Pools |-> IF p = 0 THEN s0.free ELSE s1.free]
       /\ table' = [p \in Pools |->
                LET s == IF p = 0 THEN s0 ELSE s1
                IN [at |-> s.bt, size |-> (s.btEnd - s.bt) \div 2]]
       /\ phase' = "compacted"
       /\ UNCHANGED <<roots, firstObject, remember, fresh>>

\* FOLLOW_COMPACTED_OBJECT.
NewAddress(a) ==
    LET tab         == table[PoolOf(a)]
        original    == [i \in 0 .. tab.size - 1 |-> mem[tab.at + 2 * i][2]]
        newPlace(i) == mem[tab.at + 2 * i + 1][2]
        entry       == FindEntry(original, tab.size, a)
    IN IF entry = {} THEN a
       ELSE LET i == CHOOSE e \in entry : TRUE IN a - (original[i] - newPlace(i))

\* The objects of pool p from address a on, as their new descriptors size them.
RECURSIVE Slid(_, _)
Slid(p, a) ==
    IF a >= free[p] THEN {} ELSE {a} \cup Slid(p, Past(a, SizeIn(mem, NewAddress(mem[a][2]))))

FirstIn(starts, c) == CHOOSE a \in starts : CardOf(a) = c /\ \A b \in starts : CardOf(b) = c => a <= b

\* postCompact: the first objects of cards, and of the free space perhaps.
FirstObjects(starts) ==
    [c \in Cards |->
        IF c \in {CardOf(a) : a \in starts} THEN Inner(FirstIn(starts, c))
        ELSE IF c = CardOf(free[1]) THEN Inner(free[1])
        ELSE firstObject[c]]

\* Mutant of Younger: cards are not remembered.
NoYounger(a) == FALSE

\* Whether object a of generation 1 leads to the nursery.
Younger(a) == PoolOf(NewAddress(mem[a][2])) = 0

Finish ==
    /\ phase = "compacted"
    /\ roots' = [n \in Names |-> IF roots[n] = 0 THEN 0 ELSE NewAddress(roots[n])]
    /\ LET old    == Slid(1, Start(1))
           starts == Slid(0, Start(0)) \cup old
           m      == [a \in starts |-> Object(NewAddress(mem[a][2]))] @@ mem
       IN /\ firstObject' = FirstObjects(old)
          /\ remember' = {CardOf(a) : a \in {b \in old : Younger(b)}}
          /\ mem' = Forgotten(IF free[1] < End(1) THEN [m EXCEPT ![free[1]] = Number(0)] ELSE m, free, roots')
    /\ table' = [p \in Pools |-> [at |-> 0, size |-> 0]]
    /\ phase' = "program" /\ fresh' = Start(1)
    /\ UNCHANGED free

Next ==
    \/ \E n \in Names, t \in Types : New(n, t)
    \/ \E keeps \in SUBSET {n \in Names : roots[n] # 0} : Root \in keeps /\ StartCollection(keeps)
    \/ /\ phase = "copying"
       /\ \/ \E a \in ToCopy : Copy(a) \/ MarkInstead(a)
          \/ FinishCopying
    \/ Count
    \/ CompactPools
    \/ Finish

Spec == Init /\ [][Next]_vars

-----------------------------------------------------------------------------
(***************************************************************************)
(* What the program named is where its variables say, word for word, and   *)
(* its descriptor as well, after any number of collections of both kinds   *)
(* (gembc.c, findBreakTableEntry and compact).                             *)
(***************************************************************************)
ObjectsIntact ==
    phase \in {"program", "copying"} =>
        \A n \in {x \in Names : roots[x] # 0} : \E t \in Types :
            LET a == FollowedRoots[n]
                d == mem[a][2]
                e == DescriptorOf(a)
            IN /\ (n \in Types) = (t = Root)
               /\ WordsAt(mem, a, Sized(t)) = Contents(n, t, d)
               /\ WordsAt(mem, e, Sized(Root)) = Contents(t, Root, mem[e][2])

(***************************************************************************)
(* Dead or alive, the objects of a pool stand one behind the other up to   *)
(* where it is free, each with a descriptor that still tells its size      *)
(* (countUsed steps over the dead by them), and nothing but objects is     *)
(* written: the pools' own members are intact.                             *)
(***************************************************************************)
HeapParses ==
    /\ phase \in {"program", "copying", "marked"} => \A p \in Pools :
        LET starts == Objects(mem, free, p, Start(p))
        IN /\ \A a \in starts :
                LET d == mem[Followed(mem, a)][2]
                IN /\ mem[Followed(mem, a)][1] \in {"object", "marked"}
                   /\ \E t \in Types :
                        WordsAt(mem, d + 1, Sized(Root) - 1) = Tail(Contents(t, Root, d))
           /\ \A a \in starts :
                    a + Size(mem, Followed(mem, a)) \in starts \cup {free[p]}
    /\ \A a \in Addr : a % PoolWords < HeaderWords => mem[a] = Members

(***************************************************************************)
(* Between collections the scan of a card of generation 1 meets just the   *)
(* objects that begin in it, and every card from which a descriptor in the *)
(* nursery is referred to is remembered (mallocGen1, postCompact).         *)
(***************************************************************************)
CardsRight ==
    phase = "program" =>
        LET old == Objects(mem, free, 1, Start(1)) IN
        /\ \A a \in old :
            Scan(CardOf(a)) = {b \in old : CardOf(b) = CardOf(a)}
        /\ {CardOf(a) : a \in {b \in old : PoolOf(mem[b][2]) = 0}} \subseteq remember

(***************************************************************************)
(* A full collection leaves no object in either pool that the program does *)
(* not reach (gembc.c: countUsed and compact).                             *)
(***************************************************************************)
NoGarbageLeft ==
    [][phase = "compacted" =>
        LET Reached(s) == s \cup {mem'[a][2] : a \in s}
            named == {roots'[n] : n \in {x \in Names : roots'[x] # 0}}
        IN UNION {Objects(mem', free', p, Start(p)) : p \in Pools} = Reached(Reached(named))]_vars
=============================================================================
