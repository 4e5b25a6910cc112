------------------------------- MODULE Finalizers ------------------------------
(***************************************************************************)
(* Finalizers (GGGGC_FEATURE_FINALIZERS): the list of entries each pool    *)
(* keeps, what a full collection makes of the lists, and the run of those  *)
(* that are ready, in the thread that collected, by functions that may do  *)
(* what any other code does: drop the object, keep it, collect.            *)
(*                                                                         *)
(* Each thread has one pool.  A collection is one step (module World), at  *)
(* a time when the other threads can yield.  With Collector = "portablems" *)
(* this is collector/portablems.c; with "gembc" the collection is          *)
(* ggggc_collectFull after a promotion that failed.                        *)
(***************************************************************************)
EXTENDS Naturals, FiniteSets, FrontLists

CONSTANTS
    Threads,
    Objects,        \* All there from the beginning.
    Entries,        \* Bound: a number for each call of GGC_FINALIZE.
    Collector,
    Null

ASSUME FinalizersAssumption ==
    /\ Collector \in {"portablems", "gembc"}
    /\ Null \notin Threads \cup Objects \cup Entries
    /\ Entries \subseteq Nat /\ Objects \cap Entries = {}
    /\ IsFiniteSet(Threads) /\ IsFiniteSet(Objects) /\ IsFiniteSet(Entries)

VARIABLES
    local,          \* The objects a thread's variables lead to.
    pointer,        \* The pointer in each object.
    heap,           \* Objects and entries that have been made and not swept.
    obj, next,      \* Of each entry.
    finalizers,     \* The first entry on the list of each thread's pool.
    frames,         \* The calls of ggggc_runFinalizers under way, per thread.
    called          \* Entries whose function has been called.

vars == <<local, pointer, heap, obj, next, finalizers, frames, called>>

Init ==
    /\ local = [t \in Threads |-> Objects]
    /\ pointer = [o \in Objects |-> Null]
    /\ heap = Objects
    /\ obj = [e \in Entries |-> Null]
    /\ next = [e \in Entries |-> Null]
    /\ finalizers = [t \in Threads |-> Null]
    /\ frames = [t \in Threads |-> <<>>]
    /\ called = {}

\* A frame: the list it was given, and the entry whose function it is calling,
\* or Null before the first, where GGC_PUSH_3 yields.
Frame(list, current) == [list |-> list, current |-> current]

Top(t) == Last(frames[t])

\* In the program, or in a function called by ggggc_runFinalizers.
RunsCode(t) == frames[t] # <<>> => Top(t).current # Null

\* The objects thread t can name.
Known(t) ==
    local[t] \cup IF frames[t] = <<>> \/ Top(t).current = Null THEN {}
                  ELSE {obj[Top(t).current]}

\* The entries chained from e on.
Chain(following, e) ==
    LET chain[n \in 0 .. Cardinality(Entries)] ==
            IF n = 0 THEN <<>>
            ELSE LET c    == chain[n - 1]
                     more == IF n = 1 THEN e ELSE IF Len(c) < n - 1 THEN Null ELSE following[Last(c)]
                 IN IF more = Null THEN c ELSE Append(c, more)
    IN chain[Cardinality(Entries)]

\* All that pointers lead to from those in given, when entries are chained as
\* following says.
Reached(following, given) ==
    LET Pointers(x) == IF x \in Objects THEN {pointer[x]} ELSE {obj[x], following[x]}
        closure[S \in SUBSET (Objects \cup Entries)] ==
            LET T == S \cup ((UNION {Pointers(x) : x \in S}) \ {Null})
            IN IF T = S THEN S ELSE closure[T]
    IN closure[given \ {Null}]

-----------------------------------------------------------------------------
(* The program *)

Drop(t, o) ==
    /\ RunsCode(t)
    /\ o \in local[t]
    /\ local' = [local EXCEPT ![t] = @ \ {o}]
    /\ UNCHANGED <<pointer, heap, obj, next, finalizers, frames, called>>

\* A finalizer may keep its object like any other.
Keep(t, o) ==
    /\ RunsCode(t)
    /\ o \in Known(t) \cup {pointer[p] : p \in Known(t)}
    /\ o \notin local[t] \cup {Null}
    /\ local' = [local EXCEPT ![t] = @ \cup {o}]
    /\ UNCHANGED <<pointer, heap, obj, next, finalizers, frames, called>>

Write(t, o, p) ==
    /\ RunsCode(t)
    /\ o \in Known(t) /\ p \in Known(t)
    /\ pointer' = [pointer EXCEPT ![o] = p]
    /\ UNCHANGED <<local, heap, obj, next, finalizers, frames, called>>

Unused == {e \in Entries : obj[e] = Null}

\* ggggc_finalize; that it may collect to allocate the entry is a step before.
Finalize(t, o, e) ==
    /\ RunsCode(t)
    /\ o \in Known(t)
    /\ e \in Unused /\ \A f \in Unused : e <= f
    /\ heap' = heap \cup {e}
    /\ obj' = [obj EXCEPT ![e] = o]
    /\ next' = [next EXCEPT ![e] = finalizers[t]]
    /\ finalizers' = [finalizers EXCEPT ![t] = e]
    /\ UNCHANGED <<local, pointer, frames, called>>

-----------------------------------------------------------------------------
(* The collection *)

Framed == UNION {ToSet(frames[t]) : t \in Threads}

\* Mutant of Marked: the lists being run are not pushed.
MarkedUnpushed == Reached(next, UNION {Known(t) : t \in Threads})

Marked ==
    Reached(next,
        (UNION {Known(t) : t \in Threads}) \cup UNION {{f.list, f.current} : f \in Framed})

\* Mutant of Survives: whether an entry itself is marked.
EntrySurvives(e, moved) == e \in Marked

\* Whether an entry's object is found to survive.  gembc looks whether it has
\* moved, which only the objects copied before a promotion failed have.
Survives(e, moved) == obj[e] \in IF Collector = "gembc" THEN moved ELSE Marked

\* The lists are taken apart from the head on, in the order of the pools on the
\* root list; each entry goes to the front of one list or the other.
Split(order, entries) ==
    InFront(FlattenSeq([i \in DOMAIN order |-> Chain(next, finalizers[order[i]])]), entries)

Survivors(moved) == {e \in Entries : Survives(e, moved)}

Ready(order, moved) == Split(order, Entries \ Survivors(moved))

\* The list of survivors of each pool.  gembc makes one list, for the pool at
\* home to its first entry.
Surviving(order, moved, home) ==
    [t \in Threads |->
        IF Collector = "gembc"
        THEN IF t = home THEN Split(order, Survivors(moved)) ELSE <<>>
        ELSE Split(<<t>>, Survivors(moved))]

\* The objects that may have been copied before a promotion failed, and the
\* pools that may be home to the first survivor.
MovedSets == IF Collector = "gembc" THEN SUBSET (Marked \cap Objects) ELSE {{}}

Homes(t) == IF Collector = "gembc" THEN Threads ELSE {t}

\* How the pools may stand on the root list.
Orders == {s \in [1 .. Cardinality(Threads) -> Threads] : ToSet(s) = Threads}

FirstOf(list) == IF list = <<>> THEN Null ELSE list[1]

\* How entries are chained when they stand in the given lists.
Chained(lists) ==
    [e \in Entries |->
        LET On(l) == {i \in DOMAIN l : l[i] = e} IN
        IF \A l \in lists : On(l) = {} THEN next[e]
        ELSE LET l == CHOOSE m \in lists : On(m) # {}
                 i == CHOOSE j \in On(l) : TRUE
             IN IF i = Len(l) THEN Null ELSE l[i + 1]]

\* Whether the lists are looked at.  gembc does so after the last pointer it pops,
\* unless that is NULL.  The last is the first root of the first thread on the
\* root list, which is not NULL in the frame of ggggc_runFinalizers.
Looks(order) ==
    IF Collector = "gembc" /\ RunsCode(order[1]) THEN BOOLEAN ELSE {TRUE}

\* All that is left on the pools' lists is marked, and what is ready.  If nobody
\* looks at the lists, they stay as they are and what is on them is not marked.
\* When somebody looks at a list whose entries are gone, no defined step follows.
Collect(t, order, moved, home, looks) ==
    LET ready == IF looks THEN Ready(order, moved) ELSE <<>>
        kept  == Surviving(order, moved, home)
    IN /\ RunsCode(t)
       /\ looks => \A u \in Threads : ToSet(Chain(next, finalizers[u])) \subseteq heap
       /\ finalizers' = IF looks THEN [u \in Threads |-> FirstOf(kept[u])] ELSE finalizers
       /\ next' = IF looks THEN Chained({ready} \cup {kept[u] : u \in Threads}) ELSE next
       /\ heap' = heap \cap (Marked \cup IF ~looks THEN {}
                ELSE Reached(next', {FirstOf(ready)} \cup {finalizers'[u] : u \in Threads}))
       /\ frames' =
            IF ready = <<>> THEN frames
            ELSE [frames EXCEPT ![t] = Append(@, Frame(FirstOf(ready), Null))]
       /\ UNCHANGED <<local, pointer, obj, called>>

Following(f) == IF f.current = Null THEN f.list ELSE next[f.current]

\* Mutant of CallNext: the list is left after one call.
CallOne(t) ==
    /\ frames[t] # <<>>
    /\ IF Top(t).current # Null
       THEN frames' = [frames EXCEPT ![t] = Front(@)] /\ UNCHANGED called
       ELSE /\ frames' = [frames EXCEPT ![t][Len(frames[t])].current = Following(Top(t))]
            /\ called' = called \cup {Following(Top(t))}
    /\ UNCHANGED <<local, pointer, heap, obj, next, finalizers>>

\* A finalizer returns, or none has been called yet: the next one is called.
CallNext(t) ==
    /\ frames[t] # <<>>
    /\ IF Following(Top(t)) = Null
       THEN frames' = [frames EXCEPT ![t] = Front(@)] /\ UNCHANGED called
       ELSE /\ frames' = [frames EXCEPT ![t][Len(frames[t])].current = Following(Top(t))]
            /\ called' = called \cup {Following(Top(t))}
    /\ UNCHANGED <<local, pointer, heap, obj, next, finalizers>>

Next == \E t \in Threads :
    \/ \E o \in Objects : Drop(t, o) \/ Keep(t, o)
    \/ \E o, p \in Objects : Write(t, o, p)
    \/ \E o \in Objects, e \in Entries : Finalize(t, o, e)
    \/ \E order \in Orders, moved \in MovedSets, home \in Homes(t) :
        \E looks \in Looks(order) : Collect(t, order, moved, home, looks)
    \/ CallNext(t)

\* Finalizers return, and what calls them goes on.
Fairness == \A t \in Threads : WF_vars(CallNext(t))

Spec == Init /\ [][Next]_vars /\ Fairness

-----------------------------------------------------------------------------
\* The entries frame f has yet to call.
Pending(f) == ToSet(Chain(next, Following(f)))

(***************************************************************************)
(* Every entry whose function has not been called is on one list: that of  *)
(* a pool, or one being run; none of those called is; and as long as one   *)
(* is on a list it is not swept, nor is its object, nor what that leads to *)
(* (doc/FINALIZERS.md; each thread may be in a finalizer, and collect).    *)
(* True of portablems; gembc loses the lists it does not look at.          *)
(***************************************************************************)
EntriesKept ==
    LET Listed(t) == ToSet(Chain(next, finalizers[t])) IN
    /\ \A e \in {x \in Entries : obj[x] # Null} :
        Cardinality({t \in Threads : e \in Listed(t)})
            + Cardinality({p \in Threads \X (1 .. Cardinality(Entries)) :
                /\ p[2] \in DOMAIN frames[p[1]]
                /\ e \in Pending(frames[p[1]][p[2]])})
        = IF e \in called THEN 0 ELSE 1
    /\ Reached(next, {e \in Entries : obj[e] # Null} \ called) \subseteq heap
    /\ Reached(next, UNION {Known(t) : t \in Threads}) \subseteq heap

(***************************************************************************)
(* What becomes ready to be called is an entry of an object that was dead: *)
(* no thread could get to it, and no finalizer that had been ready before  *)
(* was to have it (gembc.c:275, object died, add this to ready             *)
(* finalizers).                                                            *)
(***************************************************************************)
OnlyTheDead ==
    [][\A t \in Threads : Len(frames'[t]) > Len(frames[t]) =>
        LET owed == UNION {Pending(f) : f \in Framed}
            usable == Reached(next, (UNION {Known(u) : u \in Threads}) \cup owed)
        IN \A e \in ToSet(Chain(next', Last(frames'[t]).list)) : obj[e] \notin usable]_vars

(***************************************************************************)
(* An entry that is ready has its function called, whatever the functions  *)
(* called before it do, collections that make more ready included.         *)
(***************************************************************************)
ReadyGetsCalled ==
    \A e \in Entries : (\E f \in Framed : e \in Pending(f)) ~> e \in called
=============================================================================
