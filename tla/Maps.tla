---------------------------------- MODULE Maps ---------------------------------
(***************************************************************************)
(* The hash maps of collections/map.c: a table of buckets, each a chain of *)
(* entries, doubled when it gets full.  The typed maps of GGC_MAP are      *)
(* casts around them.                                                      *)
(*                                                                         *)
(* An entry is a place in memory with a key and a value; a chain is the    *)
(* sequence of its entries.  As with lists, an operation is one step.      *)
(***************************************************************************)
EXTENDS Naturals, FrontLists

CONSTANTS
    Maps,       \* Variables of the program, each with a map of its own.
    Keys,
    Hash,       \* The hash of each key; keys are equal or not (cmp).
    Values,
    MaxSize,    \* Bound: the largest table.
    Absent

ASSUME MapsAssumption ==
    /\ Hash \in [Keys -> Nat]
    /\ Absent \notin Values

VARIABLES
    size,       \* Of each map's table; 0 as long as there is none.
    used,       \* Its count of entries.
    buckets,    \* The chain of each bucket, from 1 on.
    key, value  \* Of each entry that a map leads to.

mapVars == <<size, used, buckets, key, value>>

MapInit ==
    /\ size = [m \in Maps |-> 0]
    /\ used = [m \in Maps |-> 0]
    /\ buckets = [m \in Maps |-> <<>>]
    /\ key = <<>>
    /\ value = <<>>

\* All entries of a table, in the order of a walk over it.
Walk(table)  == FlattenSeq(table)
EntriesOf(m) == ToSet(Walk(buckets[m]))

\* Where MapPut puts a new entry for map m and key k: which free place it is
\* makes no difference.
NewEntry(m, k) == CHOOSE e \in {m} \X {k} \X {1, 2} : e \notin DOMAIN key

\* A new entry that leads to x.
Added(f, e, x) == [d \in DOMAIN f \union {e} |-> IF d = e THEN x ELSE f[d]]

Bucket(k, sz) == (Hash[k] % sz) + 1

Matches(chain, k) == {i \in 1 .. Len(chain) : key[chain[i]] = k}

-----------------------------------------------------------------------------
\* MapGet.
Get(m, k) ==
    IF size[m] = 0 THEN Absent
    ELSE LET chain == buckets[m][Bucket(k, size[m])] IN
         IF Matches(chain, k) = {} THEN Absent
         ELSE value[chain[Min(Matches(chain, k))]]

Empty(sz) == [h \in 1 .. sz |-> <<>>]

\* Mutant of Rehashed: entries stay in their buckets.
NotRehashed(table, sz) == [h \in 1 .. sz |-> IF h <= Len(table) THEN table[h] ELSE <<>>]

\* The table when it has grown to sz buckets: each entry goes to the front of
\* its new bucket as the walk meets it.
Rehashed(table, sz) ==
    [h \in 1 .. sz |-> InFront(Walk(table), {e \in ToSet(Walk(table)) : Bucket(key[e], sz) = h})]

FirstSize(m) == IF size[m] = 0 THEN 4 ELSE size[m]

NewSize(m) == IF used[m] > FirstSize(m) \div 2 THEN FirstSize(m) * 2 ELSE FirstSize(m)

\* The table MapPut puts an entry into.
Roomy(m) ==
    IF size[m] = 0 THEN Empty(4)
    ELSE IF NewSize(m) > size[m] THEN Rehashed(buckets[m], NewSize(m))
    ELSE buckets[m]

Update(m, table, k, v) ==
    LET chain == table[Bucket(k, NewSize(m))] IN
    /\ Matches(chain, k) # {}
    /\ value' = [value EXCEPT ![chain[Min(Matches(chain, k))]] = v]
    /\ buckets' = [buckets EXCEPT ![m] = table]
    /\ UNCHANGED <<used, key>>

Insert(m, table, k, v) ==
    /\ Matches(table[Bucket(k, NewSize(m))], k) = {}
    /\ key' = Added(key, NewEntry(m, k), k)
    /\ value' = Added(value, NewEntry(m, k), v)
    /\ buckets' = [buckets EXCEPT ![m] =
            [table EXCEPT ![Bucket(k, NewSize(m))] = Cons(NewEntry(m, k), @)]]
    /\ used' = [used EXCEPT ![m] = @ + 1]

Put(m, k, v) ==
    /\ NewSize(m) <= MaxSize
    /\ size' = [size EXCEPT ![m] = NewSize(m)]
    /\ Update(m, Roomy(m), k, v) \/ Insert(m, Roomy(m), k, v)

\* Mutant of Clone: only the table is copied.
CloneTable(m, c) ==
    /\ size' = [size EXCEPT ![c] = size[m]]
    /\ used' = [used EXCEPT ![c] = used[m]]
    /\ buckets' = [buckets EXCEPT ![c] = buckets[m]]
    /\ UNCHANGED <<key, value>>

\* The entry of map m that is, or is a copy of, entry e of another map.
Of(m, e) == <<m, e[2], e[3]>>

\* c becomes a clone of m, with a new entry for each of m's in the same order;
\* nothing leads to its old ones any more, and a new one may take their place.
Clone(m, c) ==
    LET kept      == UNION {EntriesOf(n) : n \in Maps \ {c}}
        Copied(f) == [e \in kept \union {Of(c, o) : o \in EntriesOf(m)} |->
                        IF e \in kept THEN f[e] ELSE f[Of(m, e)]]
    IN /\ size' = [size EXCEPT ![c] = size[m]]
       /\ used' = [used EXCEPT ![c] = used[m]]
       /\ buckets' = [buckets EXCEPT ![c] =
                [h \in 1 .. size[m] |->
                    [i \in DOMAIN buckets[m][h] |-> Of(c, buckets[m][h][i])]]]
       /\ key' = Copied(key)
       /\ value' = Copied(value)

MapNext == \E m \in Maps :
    \/ \E k \in Keys, v \in Values : Put(m, k, v)
    \/ \E c \in Maps \ {m} : Clone(m, c)

MapSpec == MapInit /\ [][MapNext]_mapVars

-----------------------------------------------------------------------------
(***************************************************************************)
(* used counts the entries, which are of different keys, each in the       *)
(* bucket of its hash under the present size, in no other map, and at most *)
(* one more than half the buckets (map.c: MapPut and MapGet search for a   *)
(* key in one bucket only, and growth is decided before the search).       *)
(***************************************************************************)
TableExact ==
    /\ \A m \in Maps :
        /\ size[m] = Len(buckets[m])
        /\ used[m] = Len(Walk(buckets[m]))
        /\ Cardinality({key[e] : e \in EntriesOf(m)}) = used[m]
        /\ \A h \in 1 .. size[m] : \A i \in 1 .. Len(buckets[m][h]) :
                Bucket(key[buckets[m][h][i]], size[m]) = h
        /\ used[m] <= size[m] \div 2 + 1
    /\ \A m, n \in Maps : m # n => EntriesOf(m) \cap EntriesOf(n) = {}

(***************************************************************************)
(* Whatever was put, rehashed and cloned, MapGet finds for every key in    *)
(* every map what was put there last (map.h): maps are functions.          *)
(***************************************************************************)
Function == INSTANCE FunctionMap
    WITH value <- [m \in Maps |-> [k \in Keys |-> Get(m, k)]]

ImplementsFunctions == Function!Spec
=============================================================================
