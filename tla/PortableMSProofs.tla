-------------------------- MODULE PortableMSProofs --------------------------
(***************************************************************************)
(* Proofs about PortableMS: for any number of threads, variables, pools    *)
(* and words of a pool, any sizes of objects, and any choice of pools that *)
(* cannot be had, pools are blocks from end to end, free lists are exact,  *)
(* a sweep frees just what cannot be reached, and to the program there is  *)
(* no collector: the whole implements ObjectGraph with objects that never  *)
(* move.  The theorems assume ~MayBlock: if threads may block while others *)
(* collect they do not hold, as the run portablems_blocked shows.          *)
(*                                                                         *)
(* All of it follows from one inductive invariant, IInv: blocks begin at   *)
(* the words B and hold the objects X, of which L are alive.  That blocks  *)
(* fill pools (HeapRight), that objects refer only to objects (Shut) and   *)
(* that lists have what is free (ListRight) is stated of any words, so     *)
(* that what allocation, sweep and clearFreeList do to the words is proved *)
(* before any action is looked at.                                         *)
(***************************************************************************)
EXTENDS PortableMS, DataLemmas

-----------------------------------------------------------------------------
(***************************************************************************)
(* Pools, and the blocks that fill them.                                   *)
(***************************************************************************)
\* The words of the pool p, and of the pools ps.
Area(p) == First(p) .. End(p) - 1
Inside(ps) == UNION {Area(p) : p \in ps}

(* Pools do not overlap, and lie within the words.                         *)
LEMMA PoolsApart ==
  /\ \A p \in Pools : /\ First(p) \in Nat /\ First(p) >= 2 /\ End(p) = First(p) + PoolWords
                      /\ Area(p) \subseteq Words
  /\ \A p, q \in Pools : p < q => End(p) < First(q)
  /\ PoolWords \in Nat /\ PoolWords >= 11
  /\ 1 \in Pools /\ DD = First(1) /\ D = DD + 4 /\ DD \in Nat
  /\ Pools \subseteq Nat /\ Words \subseteq Nat \ {0}
<1>1. PoolWords \in Nat /\ PoolWords >= 11 /\ MaxPools \in Nat /\ MaxPools >= 1
  BY PoolAssumption DEF DescriptorWords, PlainWords
<1>. DEFINE k == PoolWords + 1
<1>2. k \in Nat /\ k >= 12 /\ k = PoolWords + 1
  BY <1>1
<1>. HIDE DEF k
<1>3. ASSUME NEW i \in Nat, NEW j \in Nat, i <= j
      PROVE  i * k \in Nat /\ j * k \in Nat /\ i * k <= j * k
  BY <1>2, <1>3
<1>4. ASSUME NEW p \in Pools
      PROVE  First(p) \in Nat /\ First(p) >= 2 /\ First(p) = (p - 1) * k + 2 /\ End(p) = p * k + 1
  <2>1. p \in Nat /\ p - 1 \in Nat
    BY DEF Pools
  <2>2. (p - 1) * k \in Nat /\ First(p) = (p - 1) * k + 2
    BY <1>2, <1>3, <2>1 DEF First
  <2>3. (p - 1) * k + k = p * k
    BY <1>2, <2>1
  <2>. QED
    BY <1>1, <1>2, <2>2, <2>3 DEF End
<1>5. ASSUME NEW p \in Pools, NEW q \in Pools, p < q PROVE End(p) < First(q)
  <2>1. p \in Nat /\ q - 1 \in Nat /\ p <= q - 1
    BY <1>5 DEF Pools
  <2>2. p * k <= (q - 1) * k /\ p * k \in Nat /\ (q - 1) * k \in Nat
    BY <1>3, <2>1
  <2>. QED
    BY <1>4, <2>2
<1>6. ASSUME NEW p \in Pools PROVE Area(p) \subseteq Words
  <2>1. p \in Nat /\ MaxPools \in Nat /\ p <= MaxPools
    BY <1>1 DEF Pools
  <2>2. p * k <= MaxPools * k /\ p * k \in Nat /\ MaxPools * k \in Nat
    BY <1>3, <2>1
  <2>3. Words = 1 .. MaxPools * k
    BY <1>2 DEF Words
  <2>4. First(p) >= 2 /\ First(p) \in Nat /\ End(p) = p * k + 1
    BY <1>4
  <2>. QED
    BY <2>2, <2>3, <2>4 DEF Area
<1>7. 1 \in Pools /\ DD = First(1) /\ D = DD + 4
  BY <1>1 DEF Pools, DD, D, DescriptorWords
<1>8. Pools \subseteq Nat /\ Words \subseteq Nat \ {0}
  <2>1. MaxPools * k \in Nat
    BY <1>1, <1>2, <1>3
  <2>. QED
    BY <1>1, <1>2, <2>1 DEF Pools, Words
<1>9. \A p \in Pools : End(p) = First(p) + PoolWords
  BY DEF End
<1>. QED
  BY <1>1, <1>4, <1>5, <1>6, <1>7, <1>8, <1>9

\* Blocks that begin at the words B and have sizes z, from end to end of the pools ps.
Tiles(z, B, ps) ==
    /\ ps \subseteq Pools
    /\ B \subseteq Inside(ps)
    /\ \A p \in ps : First(p) \in B
    /\ \A a \in B : z[a] \in Nat /\ z[a] >= PlainWords
    /\ \A p \in ps : \A a \in B \intersect Area(p) :
          a + z[a] <= End(p) /\ (a + z[a] = End(p) \/ a + z[a] \in B)
    /\ \A a, b \in B : a < b => a + z[a] <= b

\* The words of the block at a.
Extent(z, a) == a .. a + z[a] - 1

(* Blocks lie within the words and apart from each other.                  *)
LEMMA TilesApart ==
  ASSUME NEW ps, NEW z, NEW B, Tiles(z, B, ps)
  PROVE  /\ B \subseteq Words
         /\ \A a \in B : \A w \in Extent(z, a) : w \in Words
         /\ \A a \in B : \A w \in Extent(z, a) : w # a => w \notin B
         /\ \A a \in B : \A p \in ps : a \in Area(p) => \A w \in Extent(z, a) : w \in Area(p)
<1>. ps \subseteq Pools
  BY DEF Tiles
<1>1. ASSUME NEW a \in B
      PROVE  /\ a \in Nat /\ z[a] \in Nat /\ z[a] >= 3
             /\ \E p \in ps : a \in Area(p)
             /\ \A p \in ps : a \in Area(p) => First(p) \in Nat /\ End(p) \in Nat /\ First(p) <= a
                                               /\ a + z[a] <= End(p) /\ Area(p) \subseteq Words
  <2>1. \E p \in ps : a \in Area(p)
    BY DEF Tiles, Inside
  <2>2. ASSUME NEW p \in ps, a \in Area(p)
        PROVE  a \in Nat /\ First(p) \in Nat /\ End(p) \in Nat /\ First(p) <= a /\ a + z[a] <= End(p)
    BY <2>2, PoolsApart DEF Tiles, Area
  <2>3. z[a] \in Nat /\ z[a] >= 3
    BY DEF Tiles, PlainWords
  <2>. QED
    BY <2>1, <2>2, <2>3, PoolsApart
<1>2. \A a, b \in B : a < b => a + z[a] <= b
  BY DEF Tiles
<1>3. ASSUME NEW a \in B, NEW p \in ps, a \in Area(p), NEW w \in Extent(z, a)
      PROVE  w \in Area(p) /\ w \in Words
  BY <1>1, <1>3 DEF Area, Extent
<1>4. ASSUME NEW a \in B, NEW w \in Extent(z, a), w \in B PROVE w = a
  BY <1>1, <1>2, <1>4 DEF Extent
<1>5. B \subseteq Words
  BY <1>1
<1>6. ASSUME NEW a \in B, NEW w \in Extent(z, a) PROVE w \in Words
  BY <1>1, <1>3
<1>. QED
  BY <1>3, <1>4, <1>5, <1>6

(* Their sizes keep them apart, and each ends at a place of its own.       *)
LEMMA TileSizes ==
  ASSUME NEW ps, NEW z, NEW B, Tiles(z, B, ps)
  PROVE  /\ \A a \in B : a \in Nat /\ z[a] \in Nat /\ z[a] >= 3
         /\ \A a, b \in B : a # b => a + z[a] <= b \/ b + z[b] <= a
         /\ \A a, b \in B : a + z[a] = b + z[b] => a = b
<1>. ps \subseteq Pools
  BY DEF Tiles
<1>1. \A a \in B : a \in Nat
  BY TilesApart, PoolsApart
<1>2. \A a \in B : a \in Nat /\ z[a] \in Nat /\ z[a] >= 3
  BY <1>1 DEF Tiles, PlainWords
<1>3. \A a, b \in B : a # b => a + z[a] <= b \/ b + z[b] <= a
  BY <1>2 DEF Tiles
<1>4. ASSUME NEW a \in B, NEW b \in B, a + z[a] = b + z[b] PROVE a = b
  BY <1>2, <1>3, <1>4
<1>. QED
  BY <1>2, <1>3, <1>4

\* The sizes y are z, but that k words of the block n are a block of their own.
Splits(z, B, n, k, y) ==
    /\ n \in B /\ k \in Nat /\ k >= 3 /\ z[n] >= k + 3
    /\ y[n] = k /\ y[n + k] = z[n] - k
    /\ \A a \in B \ {n} : y[a] = z[a]

(* A block can be split in two.                                            *)
LEMMA SplitTile ==
  ASSUME NEW ps, NEW z, NEW B, Tiles(z, B, ps),
         NEW n, NEW k, NEW y, Splits(z, B, n, k, y)
  PROVE  Tiles(y, B \union {n + k}, ps) /\ n + k \notin B /\ n + k \in Words
         /\ \A p \in ps : n \in Area(p) => n + k \in Area(p)
<1>. /\ n \in B /\ k \in Nat /\ k >= 3 /\ z[n] >= k + 3
     /\ y[n] = k /\ y[n + k] = z[n] - k
     /\ \A a \in B \ {n} : y[a] = z[a]
  BY DEF Splits
<1>. ps \subseteq Pools
  BY DEF Tiles
<1>. DEFINE C == B \union {n + k}
<1>1. /\ \A a \in B : a \in Nat /\ z[a] \in Nat /\ z[a] >= 3
      /\ n \in Nat /\ z[n] \in Nat /\ k >= 3 /\ z[n] >= k + 3 /\ n + k \in n .. n + z[n] - 1 /\ n + k # n
  <2>1. \A a \in B : a \in Nat /\ z[a] \in Nat /\ z[a] >= 3
    BY TileSizes
  <2>. QED
    BY <2>1 DEF PlainWords
<1>2. /\ n + k \notin B /\ n + k \in Words
      /\ \A p \in ps : n \in Area(p) => n + k \in Area(p)
  <2>. DEFINE e == n + k
  <2>1. e \in Extent(z, n) /\ e # n
    BY <1>1 DEF Extent
  <2>. HIDE DEF e
  <2>2. e \notin B /\ e \in Words
    BY <2>1, TilesApart
  <2>3. ASSUME NEW p \in ps, n \in Area(p) PROVE e \in Area(p)
    BY <2>1, <2>3, TilesApart
  <2>. QED
    BY <2>2, <2>3 DEF e
<1>3. C \subseteq Inside(ps)
  <2>1. PICK p \in ps : n \in Area(p)
    BY DEF Tiles, Inside
  <2>. QED
    BY <1>2, <2>1 DEF Tiles, Inside
<1>4. \A p \in ps : First(p) \in C
  BY DEF Tiles
<1>5. \A a \in C : y[a] \in Nat /\ y[a] >= PlainWords
  BY <1>1 DEF PlainWords
<1>6. ASSUME NEW p \in ps, NEW a \in C, a \in Area(p)
      PROVE  a + y[a] <= End(p) /\ (a + y[a] = End(p) \/ a + y[a] \in C)
  <2>1. End(p) \in Nat
    BY PoolsApart
  <2>2. CASE a = n
    BY <1>1, <2>1, <2>2, <1>6 DEF Tiles
  <2>3. CASE a = n + k
    <3>1. PICK q \in ps : n \in Area(q)
      BY DEF Tiles, Inside
    <3>2. q = p
      <4>1. n + k \in Area(q)
        BY <1>2, <3>1
      <4>. QED
        BY <1>6, <2>3, <4>1, PoolsApart DEF Area
    <3>3. a + y[a] = n + z[n]
      BY <1>1, <2>3
    <3>. QED
      BY <3>1, <3>2, <3>3 DEF Tiles
  <2>4. CASE a \in B \ {n}
    BY <2>4, <1>6 DEF Tiles
  <2>. QED
    BY <2>2, <2>3, <2>4
<1>7. ASSUME NEW a \in C, NEW b \in C, a < b PROVE a + y[a] <= b
  <2>0. \A c \in B, d \in B : c < d => c + z[c] <= d
    BY DEF Tiles
  <2>1. CASE a = n + k
    <3>1. b \in B /\ b > n
      BY <1>1, <1>7, <2>1
    <3>. QED
      BY <1>1, <2>0, <2>1, <3>1
  <2>2. CASE b = n + k
    BY <1>1, <1>7, <2>0, <2>2
  <2>3. CASE a \in B /\ b \in B
    BY <1>1, <1>7, <2>0, <2>3
  <2>. QED
    BY <2>1, <2>2, <2>3
<1>. QED
  BY <1>2, <1>3, <1>4, <1>5, <1>6, <1>7 DEF Tiles

(* A block and the one behind it can be made one.                          *)
LEMMA MergeTiles ==
  ASSUME NEW ps, NEW z, NEW B, Tiles(z, B, ps),
         NEW n \in B, NEW e \in B, e = n + z[n],
         NEW y, y[n] = z[n] + z[e], \A a \in B \ {n, e} : y[a] = z[a]
  PROVE  Tiles(y, B \ {e}, ps)
<1>. ps \subseteq Pools
  BY DEF Tiles
<1>. DEFINE C == B \ {e}
<1>1. /\ \A a \in B : a \in Nat /\ z[a] \in Nat /\ z[a] >= 3
      /\ \A a, b \in B : a < b => a + z[a] <= b
      /\ \A a, b \in B : a + z[a] = b + z[b] => a = b
  <2>1. \A a \in B : a \in Nat /\ z[a] \in Nat /\ z[a] >= 3
    BY TileSizes
  <2>. QED
    BY <2>1, TileSizes DEF Tiles
<1>2. n \in C /\ n < e
  BY <1>1
<1>3. PICK q \in ps : n \in Area(q)
  BY DEF Tiles, Inside
<1>4. e \in Area(q)
  <2>1. PICK p \in ps : e \in Area(p)
    BY DEF Tiles, Inside
  <2>2. e <= End(q)
    BY <1>3 DEF Tiles
  <2>3. e # End(q)
    BY <2>1, PoolsApart DEF Area
  <2>. QED
    BY <1>1, <1>2, <1>3, <2>2, <2>3, PoolsApart DEF Area
<1>5. C \subseteq Inside(ps)
  BY DEF Tiles
<1>6. ASSUME NEW p \in ps PROVE First(p) \in C
  <2>1. First(p) # e
    <3>1. CASE p = q
      BY <1>1, <1>2, <1>3, <3>1, PoolsApart DEF Area
    <3>2. CASE p # q
      BY <1>4, <3>2, PoolsApart DEF Area
    <3>. QED
      BY <3>1, <3>2
  <2>. QED
    BY <2>1 DEF Tiles
<1>7. \A a \in C : y[a] \in Nat /\ y[a] >= PlainWords
  BY <1>1 DEF PlainWords
<1>8. ASSUME NEW p \in ps, NEW a \in C, a \in Area(p)
      PROVE  a + y[a] <= End(p) /\ (a + y[a] = End(p) \/ a + y[a] \in C)
  <2>1. CASE a = n
    <3>1. p = q
      BY <1>3, <1>8, <2>1, PoolsApart DEF Area
    <3>2. e + z[e] <= End(p) /\ (e + z[e] = End(p) \/ e + z[e] \in B) /\ e + z[e] # e
      BY <1>1, <1>4, <3>1 DEF Tiles
    <3>3. a + y[a] = e + z[e]
      BY <1>1, <2>1
    <3>. QED
      BY <3>2, <3>3
  <2>2. CASE a # n
    <3>1. y[a] = z[a] /\ a + z[a] # e
      BY <1>1, <2>2
    <3>. QED
      BY <1>8, <3>1 DEF Tiles
  <2>. QED
    BY <2>1, <2>2
<1>9. ASSUME NEW a \in C, NEW b \in C, a < b PROVE a + y[a] <= b
  <2>1. CASE a = n
    BY <1>1, <1>9, <2>1
  <2>2. CASE a # n
    BY <1>1, <1>9, <2>2
  <2>. QED
    BY <2>1, <2>2
<1>. QED
  BY <1>5, <1>6, <1>7, <1>8, <1>9 DEF Tiles

(* New pools are a block each.                                             *)
LEMMA AddTiles ==
  ASSUME NEW ps, NEW z, NEW B, Tiles(z, B, ps),
         NEW qs \in SUBSET (Pools \ ps),
         NEW y, \A q \in qs : y[First(q)] = PoolWords, \A a \in B : y[a] = z[a]
  PROVE  Tiles(y, B \union {First(q) : q \in qs}, ps \union qs)
         /\ \A q \in qs : First(q) \notin B
<1>. ps \subseteq Pools
  BY DEF Tiles
<1>. DEFINE C == B \union {First(q) : q \in qs}
            rs == ps \union qs
<1>0. \A p \in Pools : /\ First(p) \in Nat /\ End(p) = First(p) + PoolWords /\ End(p) \in Nat
                       /\ First(p) \in Area(p)
  BY PoolsApart DEF Area
<1>1. \A a \in B : \E p \in ps : a \in Area(p)
  BY DEF Tiles, Inside
<1>2. \A a \in C : \E p \in rs : a \in Area(p)
  BY <1>0, <1>1
<1>3. \A p, q \in Pools : p # q => Area(p) \intersect Area(q) = {} /\ First(q) # End(p)
  BY PoolsApart DEF Area
<1>4. \A q \in qs : First(q) \notin B /\ \A a \in B : a \notin Area(q)
  BY <1>0, <1>1, <1>3
<1>5. \A a \in B : a \in Nat /\ z[a] \in Nat /\ z[a] >= 3
  BY TileSizes
<1>6. C \subseteq Inside(rs)
  BY <1>2 DEF Inside
<1>7. \A p \in rs : First(p) \in C
  BY DEF Tiles
<1>8. \A a \in C : y[a] \in Nat /\ y[a] >= PlainWords
  <2>1. PoolWords \in Nat /\ PoolWords >= 3
    BY PoolsApart
  <2>2. \A a \in C : a \in B \/ \E q \in qs : a = First(q)
    OBVIOUS
  <2>. QED
    BY <1>5, <2>1, <2>2 DEF PlainWords
<1>9. ASSUME NEW p \in rs, NEW a \in C, a \in Area(p)
      PROVE  a + y[a] <= End(p) /\ (a + y[a] = End(p) \/ a + y[a] \in C)
  <2>1. CASE a \in B
    <3>1. p \in ps
      BY <1>4, <1>9, <2>1
    <3>. QED
      BY <1>9, <2>1, <3>1 DEF Tiles
  <2>2. CASE a \notin B
    <3>1. PICK q \in qs : a = First(q)
      BY <2>2
    <3>2. q = p
      BY <1>0, <1>3, <1>9, <3>1
    <3>. QED
      BY <1>0, <3>1, <3>2
  <2>. QED
    BY <2>1, <2>2
<1>10. ASSUME NEW a \in C, NEW b \in C, a < b PROVE a + y[a] <= b
  <2>1. CASE a \in B /\ b \in B
    BY <1>10, <2>1 DEF Tiles
  <2>2. CASE a \notin B \/ b \notin B
    <3>1. PICK p \in rs : a \in Area(p)
      BY <1>2
    <3>2. PICK q \in rs : b \in Area(q)
      BY <1>2
    <3>3. p # q
      <4>1. CASE a \notin B /\ b \in B
        BY <1>0, <1>3, <1>4, <3>1, <3>2, <4>1
      <4>2. CASE b \notin B /\ a \in B
        BY <1>0, <1>3, <1>4, <3>1, <3>2, <4>2
      <4>3. CASE a \notin B /\ b \notin B
        <5>1. PICK c \in qs : a = First(c)
          BY <4>3
        <5>2. PICK d \in qs : b = First(d)
          BY <4>3
        <5>3. c = p /\ d = q
          BY <1>0, <1>3, <3>1, <3>2, <5>1, <5>2
        <5>. QED
          BY <1>0, <1>10, <5>1, <5>2, <5>3
      <4>. QED
        BY <2>2, <4>1, <4>2, <4>3
    <3>4. p < q
      BY <1>10, <3>1, <3>2, <3>3, PoolsApart DEF Area
    <3>. QED
      <4>1. a + y[a] <= End(p)
        BY <1>9, <3>1
      <4>. QED
        BY <1>0, <1>5, <1>8, <3>1, <3>2, <3>4, <4>1, PoolsApart DEF Area
  <2>. QED
    BY <2>1, <2>2
<1>. QED
  BY <1>4, <1>6, <1>7, <1>8, <1>9, <1>10 DEF Tiles

(* Only the sizes of blocks matter.                                        *)
LEMMA SameTiles ==
  ASSUME NEW ps, NEW z, NEW B, Tiles(z, B, ps), NEW y, \A a \in B : y[a] = z[a]
  PROVE  Tiles(y, B, ps)
BY DEF Tiles

-----------------------------------------------------------------------------
(***************************************************************************)
(* Heaps.  In the words m, blocks begin at the words B; those in S are     *)
(* free and have their size in their first word, the others that are free  *)
(* have 0 there and their size in the second.                              *)
(***************************************************************************)
\* The size of the block at a.
Size(m, S, a) == IF a \in S THEN m[a] ELSE IF m[a] = 0 THEN m[a + 1] ELSE m[m[a] + 1]

SizesOf(m, S, B) == [a \in B |-> Size(m, S, a)]

\* Blocks that are not free hold objects.
ObjectsIn(m, S, B) == {a \in B \ S : m[a] # 0}

\* The words that say what the type d is, d being a descriptor.
IsType(m, d) ==
    /\ m[d + 2] = 0
    /\ d = DD => m[d + 1] = DescriptorWords /\ m[d + 3] = 5
    /\ d = D => m[d + 1] = PlainWords /\ m[d + 3] = 3
    /\ d \notin {DD, D} => m[d + 1] \in Sizes /\ m[d + 3] = 0

TypesRight(m, X) ==
    /\ DD \in X /\ D \in X /\ m[DD] = DD /\ m[D] = DD
    /\ \A d \in X : m[d] = DD => IsType(m, d)

\* Blocks fill the pools ps, and the word that has the size of an object
\* is none that a sweep writes to.
HeapRight(m, S, B, ps) ==
    /\ m \in [Words -> Nat]
    /\ S \subseteq B
    /\ Tiles(SizesOf(m, S, B), B, ps)
    /\ \A a \in ObjectsIn(m, S, B) : m[a] \in Words /\ m[a] + 1 \in Words /\ m[a] + 1 \notin B
    /\ TypesRight(m, ObjectsIn(m, S, B))

\* Objects X refer to objects X, and have descriptors.
Shut(m, X) ==
    \A a \in X : /\ m[a] \in X /\ m[m[a]] = DD
                 /\ m[a] = D => m[a + 1] \in (X \ {DD, D}) \union {0}

(* How long blocks are.                                                    *)
LEMMA SizeFacts ==
  ASSUME NEW ps, NEW m, NEW S, NEW B, HeapRight(m, S, B, ps)
  PROVE  /\ \A a \in B : SizesOf(m, S, B)[a] = Size(m, S, a)
         /\ \A a \in B : Size(m, S, a) \in Nat /\ Size(m, S, a) >= 3
         /\ \A d \in ObjectsIn(m, S, B) : m[d] = DD =>
              /\ Size(m, S, d) = 4
              /\ m[d + 1] \in Nat /\ m[d + 1] >= 3 /\ IsType(m, d)
         /\ \A a \in ObjectsIn(m, S, B) : m[a] = D => Size(m, S, a) = 3
<1>. m \in [Words -> Nat]
  BY DEF HeapRight
<1>. DEFINE z == SizesOf(m, S, B)
<1>1. \A a \in B : z[a] = Size(m, S, a)
  BY DEF SizesOf
<1>2. Tiles(z, B, ps)
  BY DEF HeapRight
<1>. HIDE DEF z
<1>3. \A a \in B : z[a] \in Nat /\ z[a] >= 3
  BY <1>2, TileSizes
<1>4. DD # 0 /\ D # 0 /\ DD # D
  BY PoolsApart
<1>5. \A s \in Sizes : s \in Nat /\ s >= 3
  BY PoolAssumption DEF PlainWords
<1>6. IsType(m, DD) /\ IsType(m, D) /\ m[DD] = DD /\ m[D] = DD
  BY DEF HeapRight, TypesRight
<1>7. m[DD + 1] = 4 /\ m[D + 1] = 3
  BY <1>4, <1>6 DEF IsType, PlainWords, DescriptorWords
<1>8. ASSUME NEW d \in ObjectsIn(m, S, B), m[d] = DD
      PROVE  Size(m, S, d) = 4 /\ m[d + 1] \in Nat /\ m[d + 1] >= 3 /\ IsType(m, d)
  <2>1. Size(m, S, d) = 4
    BY <1>4, <1>7, <1>8 DEF Size, ObjectsIn
  <2>2. IsType(m, d)
    BY <1>8 DEF HeapRight, TypesRight
  <2>. QED
    BY <1>5, <1>7, <2>1, <2>2 DEF IsType
<1>9. ASSUME NEW a \in ObjectsIn(m, S, B), m[a] = D PROVE Size(m, S, a) = 3
  BY <1>4, <1>7, <1>9 DEF Size, ObjectsIn
<1>. QED
  BY <1>1, <1>3, <1>8, <1>9 DEF z

(* The words of different blocks are different words.                      *)
LEMMA BlockWords ==
  ASSUME NEW ps, NEW m, NEW S, NEW B, HeapRight(m, S, B, ps)
  PROVE  /\ B \subseteq Words
         /\ \A a \in B : \A i \in 0 .. Size(m, S, a) - 1 : a + i \in Words
         /\ \A a \in B : \A i \in 0 .. Size(m, S, a) - 1 : i # 0 => a + i \notin B
         /\ \A a, b \in B : a # b => \A i \in 0 .. Size(m, S, a) - 1 :
               ~ (b <= a + i /\ a + i < b + Size(m, S, b))
<1>. m \in [Words -> Nat]
  BY DEF HeapRight
<1>. DEFINE z == SizesOf(m, S, B)
<1>1. Tiles(z, B, ps)
  BY DEF HeapRight
<1>. HIDE DEF z
<1>2. /\ B \subseteq Words
      /\ \A a \in B : \A w \in Extent(z, a) : w \in Words
      /\ \A a \in B : \A w \in Extent(z, a) : w # a => w \notin B
  BY <1>1, TilesApart
<1>3. /\ \A a \in B : a \in Nat /\ z[a] \in Nat /\ z[a] >= 3
      /\ \A a, b \in B : a # b => a + z[a] <= b \/ b + z[b] <= a
  BY <1>1, TileSizes
<1>4. \A a \in B : z[a] = Size(m, S, a)
  BY DEF z, SizesOf
<1>5. ASSUME NEW a \in B, NEW i \in 0 .. Size(m, S, a) - 1
      PROVE  a + i \in Words /\ (i # 0 => a + i \notin B)
  <2>. DEFINE w == a + i
  <2>1. w \in Extent(z, a) /\ (i # 0 => w # a)
    BY <1>3, <1>4 DEF Extent
  <2>. HIDE DEF w
  <2>2. w \in Words /\ (i # 0 => w \notin B)
    BY <1>2, <2>1
  <2>. QED
    BY <2>2 DEF w
<1>6. ASSUME NEW a \in B, NEW b \in B, a # b, NEW i \in 0 .. Size(m, S, a) - 1
      PROVE  ~ (b <= a + i /\ a + i < b + Size(m, S, b))
  <2>1. /\ a \in Nat /\ b \in Nat /\ i \in Nat /\ i < z[a] /\ z[a] \in Nat /\ z[b] \in Nat
        /\ Size(m, S, b) = z[b] /\ (a + z[a] <= b \/ b + z[b] <= a)
    BY <1>3, <1>4, <1>6
  <2>. QED
    BY <2>1
<1>. QED
  BY <1>2, <1>5, <1>6

-----------------------------------------------------------------------------
(***************************************************************************)
(* Allocation.                                                             *)
(***************************************************************************)
\* The words m after n has been given to r: size words, and the rest.
Taken(m, n, r, size, rest) ==
    [w \in Words |-> IF w \in n .. n + size - 1 THEN NewWord(r, w - n)
                     ELSE IF rest > 0 /\ w = n + size THEN 0
                     ELSE IF rest > 0 /\ w = n + size + 1 THEN rest ELSE m[w]]

Cut(B, n, size, rest) == IF rest > 0 THEN B \union {n + size} ELSE B

\* What may be asked for when the objects are X.
IsRequest(m, X, r) ==
    /\ r.d \in X /\ m[r.d] = DD
    /\ r.d = DD => r.s \in Sizes

\* r, of the given size, is taken from the free block n, which makes m2 of m.
Takes(m, S, B, n, r, size, rest, m2) ==
    /\ n \in B \ S /\ m[n] = 0
    /\ IsRequest(m, ObjectsIn(m, S, B), r)
    /\ size = m[r.d + 1] /\ rest = m[n + 1] - size
    /\ rest = 0 \/ rest >= 4
    /\ m2 = Taken(m, n, r, size, rest)

(* What allocation does to the words.                                      *)
LEMMA TakenWords ==
  ASSUME NEW ps, NEW m, NEW S, NEW B,
         HeapRight(m, S, B, ps),
         NEW n, NEW r, NEW size, NEW rest, NEW m2, Takes(m, S, B, n, r, size, rest, m2)
  PROVE  /\ m2 \in [Words -> Nat]
         /\ \A a \in B \ {n} : \A i \in 0 .. Size(m, S, a) - 1 : m2[a + i] = m[a + i]
         /\ size \in Nat /\ size >= 3 /\ n + size \in Nat /\ Size(m, S, n) = size + rest
         /\ rest \in Nat
         /\ m2[n] = r.d /\ r.d # 0
         /\ r.d = DD => size = 4 /\ m2[n + 1] = r.s /\ m2[n + 3] = 0
         /\ r.d = D => size = 3 /\ m2[n + 1] = 0
         /\ m2[n + 2] = 0
         /\ rest > 0 => m2[n + size] = 0 /\ m2[n + size + 1] = rest
<1>. /\ n \in B \ S /\ m[n] = 0
     /\ IsRequest(m, ObjectsIn(m, S, B), r)
     /\ size = m[r.d + 1] /\ rest = m[n + 1] - size
     /\ rest = 0 \/ rest >= 4
     /\ m2 = Taken(m, n, r, size, rest)
  BY DEF Takes
<1>. m \in [Words -> Nat]
  BY DEF HeapRight
<1>1. /\ size \in Nat /\ size >= 3 /\ IsType(m, r.d) /\ r.d \in B \ S /\ r.d # 0
      /\ Size(m, S, n) = m[n + 1]
  <2>1. r.d # 0
    BY BlockWords, PoolsApart DEF IsRequest, ObjectsIn
  <2>. QED
    BY <2>1, SizeFacts DEF IsRequest, ObjectsIn, Size
<1>2. n \in Nat /\ n \in Words /\ Size(m, S, n) \in Nat
  BY BlockWords, SizeFacts, PoolsApart
<1>3. rest \in Nat /\ Size(m, S, n) = size + rest
  BY <1>1, <1>2
<1>4. \A i \in 0 .. size + rest - 1 : n + i \in Words
  BY <1>2, <1>3, BlockWords
<1>5. r.d \in Nat /\ r.d \in Words /\ (r.d = DD => r.s \in Nat)
  <2>1. \A s \in Sizes : s \in Nat
    BY PoolAssumption DEF PlainWords
  <2>. QED
    BY <1>1, <2>1, BlockWords, PoolsApart DEF IsRequest
<1>6. \A i \in 0 .. size - 1 : m2[n + i] = NewWord(r, i)
  <2>. SUFFICES ASSUME NEW i \in 0 .. size - 1 PROVE m2[n + i] = NewWord(r, i)
    OBVIOUS
  <2>1. i \in 0 .. size + rest - 1
    BY <1>1, <1>3
  <2>2. n + i \in Words
    BY <1>4, <2>1
  <2>3. n + i \in n .. n + size - 1 /\ (n + i) - n = i
    BY <1>1, <1>2
  <2>. QED
    BY <2>2, <2>3 DEF Taken
<1>7. \A i : NewWord(r, i) \in Nat
  BY <1>5 DEF NewWord
<1>8. m2 \in [Words -> Nat]
  BY <1>3, <1>7 DEF Taken
<1>9. ASSUME NEW a \in B \ {n}, NEW i \in 0 .. Size(m, S, a) - 1 PROVE m2[a + i] = m[a + i]
  <2>. DEFINE w == a + i
  <2>1. w \in Words /\ ~ (n <= w /\ w < n + Size(m, S, n)) /\ w \in Nat
    BY <1>9, BlockWords, PoolsApart
  <2>. HIDE DEF w
  <2>2. w \notin n .. n + size - 1 /\ ~ (rest > 0 /\ w = n + size) /\ ~ (rest > 0 /\ w = n + size + 1)
    <3>1. size \in Nat /\ size >= 3 /\ n \in Nat /\ rest \in Nat /\ (rest = 0 \/ rest >= 4)
      BY <1>1, <1>2, <1>3
    <3>2. w < n \/ w >= n + size + rest
      BY <1>3, <2>1, <3>1
    <3>. QED
      BY <2>1, <3>1, <3>2
  <2>3. m2[w] = m[w]
    BY <2>1, <2>2 DEF Taken
  <2>. QED
    BY <2>3 DEF w
<1>10. m2[n] = r.d /\ m2[n + 2] = 0
  <2>1. n + 0 = n /\ 0 \in 0 .. size - 1 /\ 2 \in 0 .. size - 1
    BY <1>1, <1>2
  <2>. QED
    BY <1>6, <2>1 DEF NewWord
<1>11. ASSUME r.d = DD PROVE size = 4 /\ m2[n + 1] = r.s /\ m2[n + 3] = 0
  <2>1. size = 4
    BY <1>1, <1>11 DEF IsType, DescriptorWords
  <2>2. 1 \in 0 .. size - 1 /\ 3 \in 0 .. size - 1
    BY <2>1
  <2>. QED
    BY <1>6, <1>11, <2>1, <2>2 DEF NewWord
<1>12. ASSUME r.d = D PROVE size = 3 /\ m2[n + 1] = 0
  <2>1. size = 3 /\ DD # D
    BY <1>1, <1>12, PoolsApart DEF IsType, PlainWords
  <2>2. 1 \in 0 .. size - 1
    BY <2>1
  <2>. QED
    BY <1>6, <1>12, <2>1, <2>2 DEF NewWord
<1>13. ASSUME rest > 0 PROVE m2[n + size] = 0 /\ m2[n + size + 1] = rest
  <2>. DEFINE v == n + size
              w == n + size + 1
  <2>1. /\ v \notin n .. n + size - 1 /\ w \notin n .. n + size - 1 /\ v # w
        /\ size \in 0 .. size + rest - 1 /\ size + 1 \in 0 .. size + rest - 1
        /\ w = n + (size + 1)
    <3>1. size \in Nat /\ size >= 3 /\ n \in Nat /\ rest \in Nat /\ rest >= 4
      BY <1>1, <1>2, <1>3, <1>13
    <3>. QED
      BY <3>1
  <2>2. v \in Words /\ w \in Words
    BY <1>4, <2>1
  <2>3. m2[v] = 0 /\ m2[w] = rest
    <3>1. m2[v] = 0
      BY <1>13, <2>1, <2>2 DEF Taken
    <3>2. m2[w] = IF rest > 0 /\ w = v THEN 0 ELSE IF rest > 0 /\ w = w THEN rest ELSE m[w]
      BY <2>1, <2>2 DEF Taken
    <3>. QED
      BY <1>13, <2>1, <3>1, <3>2
  <2>. QED
    BY <2>3
<1>14. n + size \in Nat
  BY <1>1, <1>2
<1>. QED
  BY <1>1, <1>3, <1>8, <1>9, <1>10, <1>11, <1>12, <1>13, <1>14

(* After allocation blocks still fill the pools, there is one more object, *)
(* and all else is as it was.                                              *)
LEMMA AllocateHeap ==
  ASSUME NEW ps, NEW m, NEW S, NEW B,
         HeapRight(m, S, B, ps), Shut(m, ObjectsIn(m, S, B)),
         NEW n, NEW r, NEW size, NEW rest, NEW m2, Takes(m, S, B, n, r, size, rest, m2),
         NEW C, C = Cut(B, n, size, rest)
  PROVE  /\ HeapRight(m2, S, C, ps)
         /\ ObjectsIn(m2, S, C) = ObjectsIn(m, S, B) \union {n}
         /\ Shut(m2, ObjectsIn(m2, S, C))
         /\ \A a \in B \ {n} : a \in C /\ m2[a] = m[a] /\ m2[a + 1] = m[a + 1]
                               /\ Size(m2, S, a) = Size(m, S, a)
         /\ Size(m2, S, n) = size /\ m2[n] # 0 /\ n \in C
         /\ rest > 0 => /\ n + size \in C \ (B \union S) /\ m2[n + size] = 0
                        /\ Size(m2, S, n + size) = rest
                        /\ \A p \in ps : n \in Area(p) => n + size \in Area(p)
         /\ C \subseteq B \union {n + size} /\ (rest = 0 => C = B)
<1>. /\ n \in B \ S /\ m[n] = 0
     /\ IsRequest(m, ObjectsIn(m, S, B), r)
  BY DEF Takes
<1>. m \in [Words -> Nat]
  BY DEF HeapRight
<1>. DEFINE X == ObjectsIn(m, S, B)
            Y == ObjectsIn(m2, S, C)
<1>1. /\ m2 \in [Words -> Nat]
      /\ \A a \in B \ {n} : \A i \in 0 .. Size(m, S, a) - 1 : m2[a + i] = m[a + i]
      /\ size \in Nat /\ size >= 3 /\ n + size \in Nat /\ Size(m, S, n) = size + rest
      /\ rest \in Nat
      /\ m2[n] = r.d /\ r.d # 0
      /\ r.d = DD => size = 4 /\ m2[n + 1] = r.s /\ m2[n + 3] = 0
      /\ r.d = D => size = 3 /\ m2[n + 1] = 0
      /\ m2[n + 2] = 0
      /\ rest > 0 => m2[n + size] = 0 /\ m2[n + size + 1] = rest
  BY TakenWords
<1>2. \A a \in B : a \in Nat /\ a \in Words /\ Size(m, S, a) \in Nat /\ Size(m, S, a) >= 3
  BY SizeFacts, BlockWords, PoolsApart
<1>3. ASSUME NEW a \in B \ {n} PROVE m2[a] = m[a] /\ m2[a + 1] = m[a + 1] /\ m2[a + 2] = m[a + 2]
  <2>1. 0 \in 0 .. Size(m, S, a) - 1 /\ 1 \in 0 .. Size(m, S, a) - 1 /\ 2 \in 0 .. Size(m, S, a) - 1
        /\ a + 0 = a
    BY <1>2
  <2>. QED
    BY <1>1, <2>1
<1>4. /\ rest > 0 => n + size \notin B /\ n + size \in Words /\ C = B \union {n + size}
      /\ rest = 0 => C = B
      /\ S \subseteq B /\ B \subseteq C
  <2>1. rest > 0 => size \in 0 .. Size(m, S, n) - 1 /\ size # 0
    BY <1>1
  <2>. QED
    BY <1>1, <2>1, BlockWords DEF Cut, HeapRight
<1>5. n \notin X /\ X \subseteq B \ {n} /\ r.d \in X
  BY DEF ObjectsIn, IsRequest
<1>6. Y = X \union {n}
  <2>1. \A a \in C : a \in Y <=> a \in X \/ a = n
    <3>1. ASSUME NEW a \in B \ {n} PROVE a \in Y <=> a \in X
      BY <1>3, <1>4, <3>1 DEF ObjectsIn
    <3>2. n \in Y
      BY <1>1, <1>4 DEF ObjectsIn
    <3>3. rest > 0 => n + size \notin Y /\ n + size \notin X /\ n + size # n
      BY <1>1, <1>4 DEF ObjectsIn
    <3>. QED
      BY <1>1, <1>4, <3>1, <3>2, <3>3
  <2>. QED
    BY <1>4, <2>1 DEF ObjectsIn
<1>7. ASSUME NEW d \in X, m[d] = DD
      PROVE  /\ d # n /\ m2[d] = DD /\ m2[d + 1] = m[d + 1] /\ m2[d + 2] = m[d + 2]
             /\ m2[d + 3] = m[d + 3] /\ d + 1 # n + size /\ d + 1 \in Words /\ d + 1 \notin B
             /\ IsType(m, d)
  <2>1. d \in B \ {n} /\ Size(m, S, d) = 4 /\ IsType(m, d) /\ d \in Nat
    BY <1>2, <1>5, <1>7, SizeFacts
  <2>2. 3 \in 0 .. Size(m, S, d) - 1 /\ 1 \in 0 .. Size(m, S, d) - 1 /\ 1 # 0
    BY <2>1
  <2>3. d + 1 \in Words /\ d + 1 \notin B
    BY <2>1, <2>2, BlockWords
  <2>4. rest > 0 => d + 1 # n + size
    <3>1. ~ (n <= d + 1 /\ d + 1 < n + Size(m, S, n))
      BY <2>1, <2>2, BlockWords
    <3>. QED
      BY <1>1, <1>2, <2>1, <3>1
  <2>5. m2[d + 3] = m[d + 3]
    BY <1>1, <2>1, <2>2
  <2>6. d + 1 # n + size
    <3>1. CASE rest > 0
      BY <2>4, <3>1
    <3>2. CASE rest = 0
      <4>1. ~ (d <= n /\ n < d + 4) /\ (n < d => n + Size(m, S, n) <= d)
        <5>1. 0 \in 0 .. Size(m, S, n) - 1 /\ n + 0 = n /\ d + 0 = d /\ 0 \in 0 .. Size(m, S, d) - 1
          BY <1>2, <2>1
        <5>2. ~ (d <= n /\ n < d + 4) /\ ~ (n <= d /\ d < n + Size(m, S, n))
          BY <2>1, <5>1, BlockWords
        <5>. QED
          BY <1>2, <2>1, <5>2
      <4>. QED
        BY <1>1, <1>2, <2>1, <3>2, <4>1
    <3>. QED
      BY <1>1, <3>1, <3>2
  <2>. QED
    BY <1>3, <1>7, <2>1, <2>3, <2>5, <2>6
<1>8. \A a \in X : m[a] \in X /\ m[m[a]] = DD
  BY DEF Shut
<1>9. ASSUME NEW a \in B \ {n} PROVE Size(m2, S, a) = Size(m, S, a)
  <2>1. CASE a \in S
    BY <1>3, <2>1 DEF Size
  <2>2. CASE a \notin S /\ m[a] = 0
    BY <1>3, <2>2 DEF Size
  <2>3. CASE a \notin S /\ m[a] # 0
    <3>1. m[a] \in X /\ m[m[a]] = DD
      BY <1>8, <2>3 DEF ObjectsIn
    <3>. QED
      BY <1>3, <1>7, <2>3, <3>1 DEF Size
  <2>. QED
    BY <2>1, <2>2, <2>3
<1>10. Size(m2, S, n) = size
  <2>1. m[r.d] = DD /\ size = m[r.d + 1]
    BY DEF IsRequest, Takes
  <2>2. m2[r.d + 1] = size
    BY <1>5, <1>7, <2>1
  <2>. QED
    BY <1>1, <2>2 DEF Size
<1>11. rest > 0 => Size(m2, S, n + size) = rest
  BY <1>1, <1>4 DEF Size
<1>12. Tiles(SizesOf(m2, S, C), C, ps) /\ (rest > 0 => \A p \in ps : n \in Area(p) => n + size \in Area(p))
  <2>. DEFINE z == SizesOf(m, S, B)
              y == SizesOf(m2, S, C)
  <2>1. Tiles(z, B, ps)
    BY DEF HeapRight
  <2>2. /\ \A a \in B \ {n} : y[a] = z[a]
        /\ y[n] = size /\ z[n] = size + rest /\ (rest > 0 => y[n + size] = rest)
    BY <1>1, <1>4, <1>9, <1>10, <1>11 DEF SizesOf
  <2>. HIDE DEF y, z
  <2>3. CASE rest = 0
    <3>1. \A a \in B : y[a] = z[a]
      BY <1>1, <2>2, <2>3
    <3>2. Tiles(y, B, ps)
      BY <2>1, <3>1, SameTiles
    <3>. QED
      BY <1>4, <2>3, <3>2 DEF y
  <2>4. CASE rest > 0
    <3>1. rest \in Nat /\ rest >= 4 /\ size \in Nat /\ size >= 3
      BY <1>1, <2>4 DEF Takes
    <3>2. Splits(z, B, n, size, y)
      BY <2>2, <2>4, <3>1 DEF Splits
    <3>3. Tiles(y, B \union {n + size}, ps) /\ \A p \in ps : n \in Area(p) => n + size \in Area(p)
      BY <2>1, <3>2, SplitTile
    <3>. QED
      BY <1>4, <2>4, <3>3 DEF y
  <2>. QED
    BY <1>1, <2>3, <2>4
<1>13. \A a \in Y : m2[a] \in X /\ m[m2[a]] = DD /\ m2[m2[a]] = DD
  <2>1. m[r.d] = DD
    BY DEF IsRequest
  <2>2. \A a \in X : m2[a] = m[a]
    BY <1>3, <1>5
  <2>. QED
    BY <1>1, <1>5, <1>6, <1>7, <1>8, <2>1, <2>2
<1>14. ASSUME NEW a \in Y PROVE m2[a] \in Words /\ m2[a] + 1 \in Words /\ m2[a] + 1 \notin C
  <2>. DEFINE d == m2[a]
  <2>1. d \in X /\ m[d] = DD
    BY <1>13
  <2>. HIDE DEF d
  <2>2. d \in Words /\ d + 1 \in Words /\ d + 1 \notin B /\ d + 1 # n + size
    BY <1>2, <1>5, <1>7, <2>1
  <2>3. d + 1 \notin C
    BY <1>1, <1>4, <2>2
  <2>. QED
    BY <2>2, <2>3 DEF d
<1>15. TypesRight(m2, Y)
  <2>1. DD \in X /\ D \in X /\ m[DD] = DD /\ m[D] = DD
    BY DEF HeapRight, TypesRight
  <2>2. ASSUME NEW d \in X, m2[d] = DD PROVE IsType(m2, d)
    <3>1. m[d] = DD
      BY <1>3, <1>5, <2>2
    <3>. QED
      BY <1>7, <3>1 DEF IsType
  <2>3. ASSUME m2[n] = DD PROVE IsType(m2, n)
    <3>1. n \notin {DD, D}
      BY <1>5, <2>1
    <3>. QED
      BY <1>1, <2>3, <3>1 DEF IsType, IsRequest
  <2>. QED
    BY <1>6, <1>7, <2>1, <2>2, <2>3 DEF TypesRight
<1>16. Shut(m2, Y)
  <2>1. ASSUME NEW a \in X, m2[a] = D PROVE m2[a + 1] \in (Y \ {DD, D}) \union {0}
    <3>1. m[a] = D /\ m2[a + 1] = m[a + 1]
      BY <1>3, <1>5, <2>1
    <3>. QED
      BY <1>6, <3>1 DEF Shut
  <2>2. m2[n] = D => m2[n + 1] = 0
    BY <1>1
  <2>. QED
    BY <1>6, <1>13, <2>1, <2>2 DEF Shut
<1>17. HeapRight(m2, S, C, ps)
  BY <1>1, <1>4, <1>12, <1>14, <1>15 DEF HeapRight
<1>18. \A a \in B \ {n} : a \in C
  BY <1>4
<1>19. n \in C /\ m2[n] # 0
  BY <1>1, <1>4
<1>20. rest > 0 => n + size \in C \ (B \union S) /\ m2[n + size] = 0
  BY <1>1, <1>4
<1>21. C \subseteq B \union {n + size} /\ (rest = 0 => C = B)
  BY <1>1, <1>4
<1>. QED
  BY <1>3, <1>6, <1>9, <1>10, <1>11, <1>12, <1>16, <1>17, <1>18, <1>19, <1>20, <1>21

-----------------------------------------------------------------------------
(***************************************************************************)
(* Other changes of a heap.                                                *)
(***************************************************************************)
\* The objects X of the words m are those of m2, where blocks begin at C, R being free.
Keeps(m, S, B, m2, R, C, X) ==
    /\ m2 \in [Words -> Nat] /\ R \subseteq C
    /\ ObjectsIn(m2, R, C) = X /\ X \subseteq ObjectsIn(m, S, B) /\ DD \in X /\ D \in X
    /\ \A a \in X : m2[a] = m[a] /\ m[a] + 1 \notin C
    /\ \A d \in X : m[d] = DD =>
          m2[d + 1] = m[d + 1] /\ m2[d + 2] = m[d + 2] /\ m2[d + 3] = m[d + 3]

(* A heap stays right if the objects that are left stay what they are.     *)
LEMMA HeapKept ==
  ASSUME NEW ps, NEW qs, NEW m, NEW S, NEW B, HeapRight(m, S, B, ps),
         NEW m2, NEW R, NEW C, NEW X, Keeps(m, S, B, m2, R, C, X), Tiles(SizesOf(m2, R, C), C, qs)
  PROVE  HeapRight(m2, R, C, qs)
<1>. /\ m2 \in [Words -> Nat] /\ R \subseteq C
     /\ ObjectsIn(m2, R, C) = X /\ X \subseteq ObjectsIn(m, S, B) /\ DD \in X /\ D \in X
     /\ \A a \in X : m2[a] = m[a] /\ m[a] + 1 \notin C
     /\ \A d \in X : m[d] = DD =>
           m2[d + 1] = m[d + 1] /\ m2[d + 2] = m[d + 2] /\ m2[d + 3] = m[d + 3]
  BY DEF Keeps
<1>1. m2[DD] = DD /\ m2[D] = DD
  BY DEF HeapRight, TypesRight
<1>2. ASSUME NEW d \in X, m2[d] = DD PROVE IsType(m2, d)
  <2>1. m[d] = DD
    BY <1>2
  <2>2. IsType(m, d)
    BY <2>1 DEF HeapRight, TypesRight
  <2>. QED
    BY <2>1, <2>2 DEF IsType
<1>3. \A a \in X : m2[a] \in Words /\ m2[a] + 1 \in Words /\ m2[a] + 1 \notin C
  BY DEF HeapRight
<1>4. TypesRight(m2, X)
  BY <1>1, <1>2 DEF TypesRight
<1>. QED
  BY <1>3, <1>4 DEF HeapRight

(* The descriptors of objects, and where their words are.                  *)
LEMMA TypeWords ==
  ASSUME NEW ps, NEW m, NEW S, NEW B, HeapRight(m, S, B, ps),
         NEW d \in ObjectsIn(m, S, B), m[d] = DD
  PROVE  /\ d \in B /\ Size(m, S, d) = 4
         /\ \A i \in 1 .. 3 : d + i \in Words /\ d + i \notin B
         /\ \A b \in B \ {d} : \A i \in 0 .. 3 : ~ (b <= d + i /\ d + i < b + Size(m, S, b))
<1>. m \in [Words -> Nat]
  BY DEF HeapRight
<1>1. d \in B /\ Size(m, S, d) = 4
  BY SizeFacts DEF ObjectsIn
<1>2. \A i \in 1 .. 3 : i \in 0 .. Size(m, S, d) - 1 /\ i # 0
  BY <1>1
<1>3. \A i \in 0 .. 3 : i \in 0 .. Size(m, S, d) - 1
  BY <1>1
<1>4. \A i \in 1 .. 3 : d + i \in Words /\ d + i \notin B
  BY <1>1, <1>2, BlockWords
<1>5. ASSUME NEW b \in B \ {d}, NEW i \in 0 .. 3
      PROVE  ~ (b <= d + i /\ d + i < b + Size(m, S, b))
  BY <1>1, <1>3, BlockWords
<1>. QED
  BY <1>1, <1>4, <1>5

(* The first words of a block.                                             *)
LEMMA FirstWords ==
  ASSUME NEW ps, NEW m, NEW S, NEW B, HeapRight(m, S, B, ps),
         NEW a \in B
  PROVE  /\ a \in Nat /\ a # 0 /\ Size(m, S, a) \in Nat /\ Size(m, S, a) >= 3
         /\ a \in Words /\ a + 1 \in Words /\ a + 2 \in Words /\ a + 1 \notin B /\ a + 2 \notin B
         /\ \A b \in B \ {a} : /\ b + Size(m, S, b) <= a \/ a + Size(m, S, a) <= b
                               /\ a + 1 # b /\ b + 1 # a /\ a + 1 # b + 1 /\ b \in Nat
<1>. m \in [Words -> Nat]
  BY DEF HeapRight
<1>1. /\ a \in Nat /\ Size(m, S, a) \in Nat /\ Size(m, S, a) >= 3 /\ a \in Words /\ a # 0
      /\ \A b \in B : b \in Nat
  BY SizeFacts, BlockWords, PoolsApart
<1>2. 1 \in 0 .. Size(m, S, a) - 1 /\ 1 # 0 /\ 2 \in 0 .. Size(m, S, a) - 1 /\ 2 # 0
  BY <1>1
<1>3. a + 1 \in Words /\ a + 2 \in Words /\ a + 1 \notin B /\ a + 2 \notin B
  BY <1>2, BlockWords
<1>4. Tiles(SizesOf(m, S, B), B, ps) /\ \A b \in B : SizesOf(m, S, B)[b] = Size(m, S, b)
  BY DEF HeapRight, SizesOf
<1>5. \A b \in B : a # b => a + Size(m, S, a) <= b \/ b + Size(m, S, b) <= a
  <2>. DEFINE z == SizesOf(m, S, B)
  <2>. HIDE DEF z
  <2>1. \A c, b \in B : c # b => c + z[c] <= b \/ b + z[b] <= c
    BY <1>4, TileSizes DEF z
  <2>. QED
    BY <1>4, <2>1 DEF z
<1>6. \A b \in B \ {a} : a + 1 # b /\ b + 1 # a /\ a + 1 # b + 1
  <2>1. \A b \in B : Size(m, S, b) >= 3 /\ Size(m, S, b) \in Nat
    BY SizeFacts
  <2>. QED
    BY <1>1, <1>5, <2>1
<1>. QED
  BY <1>1, <1>3, <1>5, <1>6

Firsts(qs) == {First(q) : q \in qs}

\* The pools qs are free blocks that have been added to the heap of the objects X.
HasMore(m, S, B, ps, X, qs, m2, C) ==
    /\ HeapRight(m2, S, C, ps \union qs)
    /\ ObjectsIn(m2, S, C) = X /\ Shut(m2, X)
    /\ \A a \in B : m2[a] = m[a] /\ m2[a + 1] = m[a + 1] /\ Size(m2, S, a) = Size(m, S, a)
    /\ \A q \in qs : First(q) \notin B /\ m2[First(q)] = 0 /\ Size(m2, S, First(q)) = PoolWords

(* New pools are free blocks.                                              *)
LEMMA AddHeap ==
  ASSUME NEW ps, NEW m, NEW S, NEW B,
         HeapRight(m, S, B, ps), Shut(m, ObjectsIn(m, S, B)),
         NEW qs, qs \subseteq Pools \ ps,
         NEW m2, m2 = WithPools(m, qs), NEW C, C = B \union Firsts(qs)
  PROVE  HasMore(m, S, B, ps, ObjectsIn(m, S, B), qs, m2, C)
<1>. C = B \union {First(q) : q \in qs} /\ qs \in SUBSET (Pools \ ps)
  BY DEF Firsts
<1>. m \in [Words -> Nat] /\ ps \subseteq Pools
  BY DEF HeapRight, Tiles
<1>. DEFINE X == ObjectsIn(m, S, B)
<1>1. \A w \in Words : m2[w] = IF \E p \in qs : w = First(p) THEN 0
                               ELSE IF \E p \in qs : w = First(p) + 1 THEN PoolWords ELSE m[w]
  BY DEF WithPools
<1>2. m2 \in [Words -> Nat]
  BY PoolsApart DEF WithPools
<1>3. ASSUME NEW q \in qs
      PROVE  /\ First(q) \in Words /\ First(q) + 1 \in Words
             /\ First(q) \in Area(q) /\ First(q) + 1 \in Area(q)
  BY <1>3, PoolsApart DEF Area
<1>4. ASSUME NEW q \in qs PROVE m2[First(q)] = 0 /\ m2[First(q) + 1] = PoolWords
  <2>1. \A p \in qs : First(q) + 1 # First(p)
    <3>1. ASSUME NEW p \in qs, First(q) + 1 = First(p) PROVE FALSE
      <4>1. First(p) \in Area(p) /\ First(p) \in Area(q) /\ p # q
        BY <1>3, <3>1, PoolsApart
      <4>. QED
        BY <4>1, PoolsApart DEF Area
    <3>. QED
      BY <3>1
  <2>. QED
    BY <1>1, <1>3, <2>1
<1>5. Tiles(SizesOf(m, S, B), B, ps) /\ S \subseteq B
  BY DEF HeapRight
<1>6. ASSUME NEW a \in B, NEW i \in 0 .. Size(m, S, a) - 1 PROVE m2[a + i] = m[a + i]
  <2>. DEFINE z == SizesOf(m, S, B)
              w == a + i
  <2>1. z[a] = Size(m, S, a) /\ a \in Nat /\ z[a] \in Nat
    BY FirstWords DEF SizesOf
  <2>2. w \in Extent(z, a)
    BY <1>6, <2>1 DEF Extent
  <2>. HIDE DEF z, w
  <2>3. PICK p \in ps : a \in Area(p)
    BY DEF HeapRight, Tiles, Inside
  <2>4. w \in Area(p) /\ w \in Words
    BY <1>5, <2>2, <2>3, TilesApart DEF z
  <2>5. \A q \in qs : w \notin Area(q)
    BY SMTT(20), <2>4, PoolsApart DEF Area
  <2>6. \A q \in qs : w # First(q) /\ w # First(q) + 1
    BY <1>3, <2>5
  <2>7. m2[w] = m[w]
    BY <1>1, <2>4, <2>6
  <2>. QED
    BY <2>7 DEF w
<1>7. ASSUME NEW a \in B PROVE m2[a] = m[a] /\ m2[a + 1] = m[a + 1] /\ m2[a + 2] = m[a + 2]
  <2>1. 0 \in 0 .. Size(m, S, a) - 1 /\ 1 \in 0 .. Size(m, S, a) - 1 /\ 2 \in 0 .. Size(m, S, a) - 1
        /\ a + 0 = a
    BY FirstWords
  <2>. QED
    BY <1>6, <2>1
<1>8. ASSUME NEW d \in X, m[d] = DD
      PROVE  m2[d + 1] = m[d + 1] /\ m2[d + 2] = m[d + 2] /\ m2[d + 3] = m[d + 3]
  <2>1. d \in B /\ Size(m, S, d) = 4
    BY <1>8, TypeWords
  <2>2. 3 \in 0 .. Size(m, S, d) - 1
    BY <2>1
  <2>. QED
    BY <1>6, <1>7, <2>1, <2>2
<1>9. \A a \in X : m[a] \in X /\ m[m[a]] = DD
  BY DEF Shut
<1>10. ASSUME NEW a \in B PROVE Size(m2, S, a) = Size(m, S, a)
  <2>1. CASE a \in S \/ m[a] = 0
    BY <1>7, <2>1 DEF Size
  <2>2. CASE a \notin S /\ m[a] # 0
    <3>1. m[a] \in X /\ m[m[a]] = DD
      BY <1>9, <2>2 DEF ObjectsIn
    <3>. QED
      BY <1>7, <1>8, <2>2, <3>1 DEF Size
  <2>. QED
    BY <2>1, <2>2
<1>11. /\ Tiles(SizesOf(m2, S, C), C, ps \union qs)
       /\ \A q \in qs : First(q) \notin B /\ Size(m2, S, First(q)) = PoolWords
  <2>. DEFINE y == SizesOf(m2, S, C)
              z == SizesOf(m, S, B)
  <2>1. ASSUME NEW q \in qs PROVE First(q) \notin B
    <3>1. ASSUME First(q) \in B PROVE FALSE
      <4>1. PICK p \in ps : First(q) \in Area(p)
        BY <3>1 DEF HeapRight, Tiles, Inside
      <4>. QED
        BY SMTT(20), <1>3, <4>1, PoolsApart DEF Area
    <3>. QED
      BY <3>1
  <2>2. \A q \in qs : Size(m2, S, First(q)) = PoolWords
    BY <1>4, <1>5, <2>1 DEF Size
  <2>3. \A q \in qs : y[First(q)] = PoolWords
    BY <2>2 DEF SizesOf
  <2>4. \A a \in B : y[a] = z[a]
    BY <1>10 DEF SizesOf
  <2>. HIDE DEF y, z
  <2>5. Tiles(y, C, ps \union qs)
    BY <1>5, <2>3, <2>4, AddTiles DEF z
  <2>. QED
    BY <2>1, <2>2, <2>5 DEF y
<1>12. ObjectsIn(m2, S, C) = X
  BY <1>4, <1>7, <1>11 DEF ObjectsIn
<1>13. ASSUME NEW a \in X PROVE m2[a] = m[a] /\ m[a] + 1 \notin C
  <2>. DEFINE d == m[a]
  <2>1. d \in X /\ m[d] = DD
    BY <1>9
  <2>. HIDE DEF d
  <2>2. d \in B /\ d + 1 \notin B /\ 1 \in 0 .. Size(m, S, d) - 1
    <3>1. 1 \in 1 .. 3 /\ Size(m, S, d) = 4
      BY <2>1, TypeWords
    <3>. QED
      BY <2>1, <3>1, TypeWords
  <2>3. \A q \in qs : d + 1 # First(q)
    <3>. DEFINE z == SizesOf(m, S, B)
                w == d + 1
    <3>1. z[d] = Size(m, S, d) /\ d \in Nat /\ Size(m, S, d) >= 3 /\ Size(m, S, d) \in Nat
      BY <2>2, FirstWords DEF SizesOf
    <3>2. w \in Extent(z, d)
      BY <3>1 DEF Extent
    <3>. HIDE DEF z, w
    <3>3. PICK p \in ps : d \in Area(p)
      BY <2>2 DEF HeapRight, Tiles, Inside
    <3>4. w \in Area(p)
      BY <1>5, <2>2, <3>2, <3>3, TilesApart DEF z
    <3>5. \A q \in qs : w # First(q)
      BY <1>3, <3>4, PoolsApart DEF Area
    <3>. QED
      BY <3>5 DEF w
  <2>. QED
    BY <1>7, <2>2, <2>3 DEF ObjectsIn, d
<1>14. HeapRight(m2, S, C, ps \union qs)
  <2>1. S \subseteq C
    BY <1>5
  <2>2. X \subseteq ObjectsIn(m, S, B) /\ DD \in X /\ D \in X
    BY DEF HeapRight, TypesRight
  <2>5. Keeps(m, S, B, m2, S, C, X)
    BY <1>2, <1>8, <1>12, <1>13, <2>1, <2>2 DEF Keeps
  <2>. HIDE DEF X
  <2>. QED
    BY <1>11, <2>5, HeapKept
<1>15. Shut(m2, X)
  <2>1. \A a \in X : a \in B /\ m2[a] = m[a] /\ m2[a + 1] = m[a + 1]
    BY <1>7 DEF ObjectsIn
  <2>. QED
    BY <1>9, <2>1 DEF Shut
<1>. QED
  BY <1>4, <1>7, <1>10, <1>11, <1>12, <1>14, <1>15 DEF HasMore

\* The words m after the sizes of the free blocks N have been put where they
\* belong, and the rest of these blocks has been cleared.
Resized(m, N) ==
    [w \in Words |-> IF w - 1 \in N THEN m[w - 1]
                     ELSE IF w \in UNION {n .. n + m[n] - 1 : n \in N} THEN 0 ELSE m[w]]

\* The nodes N of the heap are free blocks with their sizes where they belong.
HasSizes(m, S, B, ps, N, R, m2) ==
    /\ m2 \in [Words -> Nat]
    /\ HeapRight(m2, R, B, ps)
    /\ ObjectsIn(m2, R, B) = ObjectsIn(m, S, B)
    /\ Shut(m2, ObjectsIn(m2, R, B))
    /\ \A a \in B \ N : m2[a] = m[a] /\ m2[a + 1] = m[a + 1]
    /\ \A a \in N : m2[a] = 0
    /\ \A a \in B : Size(m2, R, a) = Size(m, S, a)

(* Putting the sizes where they belong changes no block.                   *)
LEMMA ResizeHeap ==
  ASSUME NEW ps, NEW m, NEW S, NEW B, HeapRight(m, S, B, ps), Shut(m, ObjectsIn(m, S, B)),
         NEW N, N \subseteq S, NEW R, R = S \ N, NEW m2, m2 = Resized(m, N)
  PROVE  HasSizes(m, S, B, ps, N, R, m2)
<1>. DEFINE X == ObjectsIn(m, S, B)
<1>. m \in [Words -> Nat] /\ S \subseteq B /\ Tiles(SizesOf(m, S, B), B, ps)
  BY DEF HeapRight
<1>1. \A w \in Words : m2[w] = IF w - 1 \in N THEN m[w - 1]
                     ELSE IF w \in UNION {n .. n + m[n] - 1 : n \in N} THEN 0 ELSE m[w]
  BY DEF Resized
<1>2. \A a \in B : /\ a \in Nat /\ a # 0 /\ Size(m, S, a) \in Nat /\ Size(m, S, a) >= 3
                   /\ a \in Words /\ a + 1 \in Words /\ a + 1 \notin B
  BY FirstWords
<1>3. \A n \in N : m[n] = Size(m, S, n) /\ n \in B
  BY DEF Size
<1>4. ASSUME NEW n \in N PROVE m2[n] = 0 /\ m2[n + 1] = Size(m, S, n)
  <2>1. n - 1 \notin N
    <3>1. ASSUME n - 1 \in N PROVE FALSE
      <4>1. (n - 1) + 1 = n /\ n - 1 \in B
        BY <1>2, <1>3, <3>1
      <4>. QED
        BY <1>2, <1>3, <4>1
    <3>. QED
      BY <3>1
  <2>2. n \in n .. n + m[n] - 1
    BY <1>2, <1>3
  <2>3. (n + 1) - 1 = n
    BY <1>2, <1>3
  <2>. QED
    BY <1>1, <1>2, <1>3, <2>1, <2>2, <2>3
<1>5. ASSUME NEW a \in B \ N, NEW i \in 0 .. Size(m, S, a) - 1 PROVE m2[a + i] = m[a + i]
  <2>. DEFINE w == a + i
  <2>1. w \in Words
    BY <1>5, BlockWords
  <2>2. w - 1 \notin N
    <3>1. ASSUME w - 1 \in N PROVE FALSE
      <4>1. w - 1 \in B /\ w - 1 # a /\ (w - 1) + 1 = w /\ w \notin B
        BY <1>2, <1>3, <1>5, <3>1
      <4>2. i # 0
        BY <1>2, <4>1
      <4>3. i - 1 \in 0 .. Size(m, S, a) - 1 /\ a + (i - 1) = w - 1 /\ i - 1 # 0
        BY <1>2, <1>5, <4>1, <4>2
      <4>. QED
        BY <4>1, <4>3, BlockWords
    <3>. QED
      BY <3>1
  <2>3. ASSUME NEW n \in N PROVE w \notin n .. n + m[n] - 1
    <3>1. n \in B /\ n # a /\ m[n] = Size(m, S, n)
      BY <1>3, <1>5
    <3>2. ~ (n <= w /\ w < n + Size(m, S, n))
      BY <1>5, <3>1, BlockWords
    <3>. QED
      BY <1>2, <3>1, <3>2
  <2>. HIDE DEF w
  <2>4. m2[w] = m[w]
    BY <1>1, <2>1, <2>2, <2>3
  <2>. QED
    BY <2>4 DEF w
<1>6. ASSUME NEW a \in B \ N PROVE m2[a] = m[a] /\ m2[a + 1] = m[a + 1]
  <2>1. 0 \in 0 .. Size(m, S, a) - 1 /\ 1 \in 0 .. Size(m, S, a) - 1 /\ a + 0 = a
    BY <1>2
  <2>. QED
    BY <1>5, <2>1
<1>7. X \subseteq B \ N /\ X \intersect S = {} /\ \A a \in B \ S : a \in X <=> m[a] # 0
  BY DEF ObjectsIn
<1>8. ASSUME NEW d \in X, m[d] = DD
      PROVE  m2[d + 1] = m[d + 1] /\ m2[d + 2] = m[d + 2] /\ m2[d + 3] = m[d + 3] /\ d + 1 \notin B
  <2>1. d \in B \ N /\ Size(m, S, d) = 4
    BY <1>7, <1>8, TypeWords
  <2>2. 1 \in 0 .. Size(m, S, d) - 1 /\ 2 \in 0 .. Size(m, S, d) - 1 /\ 3 \in 0 .. Size(m, S, d) - 1
    BY <2>1
  <2>. QED
    BY <1>2, <1>5, <2>1, <2>2
<1>9. \A a \in X : m[a] \in X /\ m[m[a]] = DD
  BY DEF Shut
<1>10. ASSUME NEW a \in B PROVE Size(m2, R, a) = Size(m, S, a)
  <2>1. CASE a \in N
    BY <1>4, <2>1 DEF Size
  <2>2. CASE a \notin N /\ (a \in S \/ m[a] = 0)
    BY <1>6, <2>2 DEF Size
  <2>3. CASE a \notin S /\ m[a] # 0
    <3>1. m[a] \in X /\ m[m[a]] = DD
      BY <1>7, <1>9, <2>3
    <3>. QED
      BY <1>6, <1>8, <2>3, <3>1 DEF Size
  <2>. QED
    BY <2>1, <2>2, <2>3
<1>11. Tiles(SizesOf(m2, R, B), B, ps)
  <2>. DEFINE y == SizesOf(m2, R, B)
              z == SizesOf(m, S, B)
  <2>1. \A a \in B : y[a] = z[a]
    BY <1>10 DEF SizesOf
  <2>. HIDE DEF y, z
  <2>2. Tiles(y, B, ps)
    BY <2>1, SameTiles DEF z
  <2>. QED
    BY <2>2 DEF y
<1>12. ObjectsIn(m2, R, B) = X
  <2>1. \A a \in B : a \in B \ R /\ m2[a] # 0 <=> a \in B \ S /\ m[a] # 0
    BY <1>4, <1>6
  <2>. QED
    BY <2>1 DEF ObjectsIn
<1>13. m2 \in [Words -> Nat]
  <2>1. \A n \in N : m[n] \in Nat
    BY <1>2, <1>3
  <2>2. \A w \in Words : w - 1 \in N => m[w - 1] \in Nat
    BY <2>1
  <2>3. \A w \in Words : m2[w] \in Nat
    BY <1>1, <2>2
  <2>. QED
    BY <2>3 DEF Resized
<1>14. HeapRight(m2, R, B, ps)
  <2>1. R \subseteq B
    OBVIOUS
  <2>2. DD \in X /\ D \in X /\ X \subseteq ObjectsIn(m, S, B)
    BY DEF HeapRight, TypesRight
  <2>3. \A a \in X : m2[a] = m[a] /\ m[a] + 1 \notin B
    BY <1>6, <1>7, <1>8, <1>9
  <2>5. Keeps(m, S, B, m2, R, B, X)
    BY <1>8, <1>12, <1>13, <2>1, <2>2, <2>3 DEF Keeps
  <2>. HIDE DEF X
  <2>. QED
    BY <1>11, <2>5, HeapKept
<1>15. Shut(m2, X)
  <2>1. \A a \in X : m2[a] = m[a] /\ m2[a + 1] = m[a + 1]
    BY <1>6, <1>7
  <2>. QED
    BY <1>9, <2>1 DEF Shut
<1>. QED
  BY <1>4, <1>6, <1>10, <1>12, <1>13, <1>14, <1>15 DEF HasSizes

\* The function m with the value x at w.
Put(m, w, x) == [m EXCEPT ![w] = x]

(* Writing an object's pointer.                                            *)
LEMMA WriteHeap ==
  ASSUME NEW ps, NEW m, NEW S, NEW B, HeapRight(m, S, B, ps), Shut(m, ObjectsIn(m, S, B)),
         NEW v \in ObjectsIn(m, S, B), m[v] = D,
         NEW y \in (ObjectsIn(m, S, B) \ {DD, D}) \union {0},
         NEW m2, m2 = Put(m, v + 1, y)
  PROVE  /\ HeapRight(m2, S, B, ps)
         /\ ObjectsIn(m2, S, B) = ObjectsIn(m, S, B)
         /\ Shut(m2, ObjectsIn(m2, S, B))
         /\ \A a \in B : m2[a] = m[a] /\ Size(m2, S, a) = Size(m, S, a)
         /\ \A a \in B \ {v} : m2[a + 1] = m[a + 1]
         /\ m2[v + 1] = y
<1>. m \in [Words -> Nat] /\ S \subseteq B /\ Tiles(SizesOf(m, S, B), B, ps)
  BY DEF HeapRight
<1>. DEFINE X == ObjectsIn(m, S, B)
<1>1. X \subseteq B /\ v \in B /\ X \subseteq Nat /\ X \subseteq Words
  BY FirstWords DEF ObjectsIn
<1>2. v + 1 \in Words /\ v + 1 \notin B
  BY <1>1, FirstWords
<1>3. m2 \in [Words -> Nat] /\ \A w \in Words : m2[w] = IF w = v + 1 THEN y ELSE m[w]
  BY <1>1, <1>2 DEF Put
<1>4. \A a \in B : m2[a] = m[a] /\ a \in Words
  BY <1>2, <1>3, FirstWords
<1>5. ASSUME NEW a \in B \ {v} PROVE m2[a + 1] = m[a + 1]
  BY <1>1, <1>3, FirstWords
<1>6. ASSUME NEW d \in X, m[d] = DD
      PROVE  m2[d + 1] = m[d + 1] /\ m2[d + 2] = m[d + 2] /\ m2[d + 3] = m[d + 3]
  <2>1. v # d /\ Size(m, S, v) = 3
    BY <1>6, SizeFacts, PoolsApart
  <2>2. /\ \A i \in 1 .. 3 : d + i \in Words
        /\ \A i \in 0 .. 3 : ~ (v <= d + i /\ d + i < v + Size(m, S, v))
    BY <1>1, <1>6, <2>1, TypeWords
  <2>3. v <= v + 1 /\ v + 1 < v + 3
    BY <1>1
  <2>4. \A i \in 1 .. 3 : d + i # v + 1
    BY <2>1, <2>2, <2>3
  <2>. QED
    BY <1>3, <2>2, <2>4
<1>7. \A a \in X : m[a] \in X /\ m[m[a]] = DD /\ m[a] + 1 \notin B
  BY DEF Shut, HeapRight
<1>8. ASSUME NEW a \in B PROVE Size(m2, S, a) = Size(m, S, a)
  <2>1. CASE a \in S
    BY <1>4, <2>1 DEF Size
  <2>2. CASE a \notin S /\ m[a] = 0
    <3>1. a # v
      BY <2>2 DEF ObjectsIn
    <3>. QED
      BY <1>4, <1>5, <2>2, <3>1 DEF Size
  <2>3. CASE a \notin S /\ m[a] # 0
    <3>1. m[a] \in X /\ m[m[a]] = DD
      BY <1>7, <2>3 DEF ObjectsIn
    <3>. QED
      BY <1>4, <1>6, <2>3, <3>1 DEF Size
  <2>. QED
    BY <2>1, <2>2, <2>3
<1>9. Tiles(SizesOf(m2, S, B), B, ps)
  <2>. DEFINE z == SizesOf(m2, S, B)
              u == SizesOf(m, S, B)
  <2>1. \A a \in B : z[a] = u[a]
    BY <1>8 DEF SizesOf
  <2>. HIDE DEF z, u
  <2>2. Tiles(z, B, ps)
    BY <2>1, SameTiles DEF u
  <2>. QED
    BY <2>2 DEF z
<1>10. ObjectsIn(m2, S, B) = X
  BY <1>4 DEF ObjectsIn
<1>11. HeapRight(m2, S, B, ps)
  <2>1. DD \in X /\ D \in X /\ X \subseteq ObjectsIn(m, S, B)
    BY DEF HeapRight, TypesRight
  <2>2. \A a \in X : m2[a] = m[a] /\ m[a] + 1 \notin B
    BY <1>1, <1>4, <1>7
  <2>5. Keeps(m, S, B, m2, S, B, X)
    BY <1>3, <1>6, <1>10, <2>1, <2>2 DEF Keeps
  <2>. HIDE DEF X
  <2>. QED
    BY <1>9, <2>5, HeapKept
<1>12. Shut(m2, X)
  <2>1. \A a \in X : m2[a] = m[a] /\ m2[a + 1] = IF a = v THEN y ELSE m[a + 1]
    BY <1>1, <1>2, <1>3, <1>4, <1>5
  <2>. QED
    BY <1>1, <1>7, <2>1 DEF Shut
<1>13. m2[v + 1] = y
  BY <1>2, <1>3
<1>. QED
  BY <1>4, <1>5, <1>8, <1>10, <1>11, <1>12, <1>13

\* The block e of the heap is a node.
HasFree(m, S, B, ps, e, L, R, m2) ==
    /\ HeapRight(m2, R, B, ps)
    /\ ObjectsIn(m2, R, B) = ObjectsIn(m, S, B) \ {e}
    /\ Shut(m2, L)
    /\ \A a \in B \ {e} : m2[a] = m[a]
    /\ \A a \in B : m2[a + 1] = m[a + 1] /\ Size(m2, R, a) = Size(m, S, a)

(* A block is freed: its size is put in its first word.                    *)
LEMMA FreeHeap ==
  ASSUME NEW ps, NEW m, NEW S, NEW B, HeapRight(m, S, B, ps),
         NEW e \in B \ S, NEW L \in SUBSET (ObjectsIn(m, S, B) \ {e}), Shut(m, L),
         DD \in L, D \in L,
         NEW R, R = S \union {e}, NEW m2, m2 = Put(m, e, Size(m, S, e))
  PROVE  HasFree(m, S, B, ps, e, L, R, m2)
<1>. m \in [Words -> Nat] /\ S \subseteq B /\ Tiles(SizesOf(m, S, B), B, ps)
  BY DEF HeapRight
<1>. DEFINE X == ObjectsIn(m, S, B)
            Y == ObjectsIn(m, S, B) \ {e}
<1>1. X \subseteq B /\ e \in Words /\ Size(m, S, e) \in Nat
  BY FirstWords DEF ObjectsIn
<1>2. m2 \in [Words -> Nat] /\ \A w \in Words : m2[w] = IF w = e THEN Size(m, S, e) ELSE m[w]
  BY <1>1 DEF Put
<1>3. \A a \in B : a \in Words /\ a + 1 \in Words /\ a + 1 \notin B
  BY FirstWords
<1>4. \A a \in B : m2[a + 1] = m[a + 1] /\ (a # e => m2[a] = m[a])
  BY <1>2, <1>3
<1>5. \A a \in X : m[a] + 1 \in Words /\ m[a] + 1 \notin B
  BY DEF HeapRight
<1>6. ASSUME NEW a \in B PROVE Size(m2, R, a) = Size(m, S, a)
  <2>1. CASE a = e
    BY <1>1, <1>2, <2>1 DEF Size
  <2>2. CASE a \in S
    BY <1>4, <2>2 DEF Size
  <2>3. CASE a \notin S /\ a # e /\ m[a] = 0
    BY <1>4, <2>3 DEF Size
  <2>4. CASE a \notin S /\ a # e /\ m[a] # 0
    <3>1. m[a] + 1 \in Words /\ m[a] + 1 # e
      BY <1>5, <2>4 DEF ObjectsIn
    <3>2. m2[m[a] + 1] = m[m[a] + 1] /\ m2[a] = m[a]
      BY <1>2, <1>4, <2>4, <3>1
    <3>. QED
      BY <2>4, <3>2 DEF Size
  <2>. QED
    BY <2>1, <2>2, <2>3, <2>4
<1>7. Tiles(SizesOf(m2, R, B), B, ps)
  <2>. DEFINE z == SizesOf(m2, R, B)
              u == SizesOf(m, S, B)
  <2>1. \A a \in B : z[a] = u[a]
    BY <1>6 DEF SizesOf
  <2>. HIDE DEF z, u
  <2>2. Tiles(z, B, ps)
    BY <2>1, SameTiles DEF u
  <2>. QED
    BY <2>2 DEF z
<1>8. ObjectsIn(m2, R, B) = Y
  BY <1>4 DEF ObjectsIn
<1>9. ASSUME NEW d \in Y, m[d] = DD
      PROVE  m2[d + 1] = m[d + 1] /\ m2[d + 2] = m[d + 2] /\ m2[d + 3] = m[d + 3]
  <2>1. \A i \in 1 .. 3 : d + i \in Words /\ d + i \notin B
    BY <1>9, TypeWords
  <2>2. \A i \in 1 .. 3 : d + i # e
    BY <2>1
  <2>. QED
    BY <1>2, <2>1, <2>2
<1>10. HeapRight(m2, R, B, ps)
  <2>1. DD \in Y /\ D \in Y /\ Y \subseteq ObjectsIn(m, S, B) /\ R \subseteq B
    OBVIOUS
  <2>2. \A a \in Y : m2[a] = m[a] /\ m[a] + 1 \notin B
    BY <1>1, <1>4, <1>5
  <2>5. Keeps(m, S, B, m2, R, B, Y)
    BY <1>2, <1>8, <1>9, <2>1, <2>2 DEF Keeps
  <2>. HIDE DEF Y
  <2>. QED
    BY <1>7, <2>5, HeapKept
<1>11. Shut(m2, L)
  <2>1. \A a \in L : a \in B /\ m2[a] = m[a] /\ m2[a + 1] = m[a + 1]
    BY <1>1, <1>4
  <2>. QED
    BY <2>1 DEF Shut
<1>. QED
  BY <1>4, <1>6, <1>8, <1>10, <1>11 DEF HasFree

\* The block e of the heap is a part of the node n.
HasMerged(m, S, B, ps, n, e, L, C, m2) ==
    /\ HeapRight(m2, S, C, ps)
    /\ ObjectsIn(m2, S, C) = ObjectsIn(m, S, B) \ {e}
    /\ Shut(m2, L)
    /\ \A a \in C \ {n} : m2[a] = m[a] /\ Size(m2, S, a) = Size(m, S, a)
    /\ \A a \in C : m2[a + 1] = m[a + 1]
    /\ Size(m2, S, n) = Size(m, S, n) + Size(m, S, e)
    /\ m2[n] # 0

(* A block that is freed is added to the free one in front of it.          *)
LEMMA MergeHeap ==
  ASSUME NEW ps, NEW m, NEW S, NEW B, HeapRight(m, S, B, ps),
         NEW n \in S, NEW e \in B \ S, e = n + m[n],
         NEW L \in SUBSET (ObjectsIn(m, S, B) \ {e}), Shut(m, L), DD \in L, D \in L,
         NEW C, C = B \ {e}, NEW m2, m2 = Put(m, n, m[n] + Size(m, S, e))
  PROVE  HasMerged(m, S, B, ps, n, e, L, C, m2)
<1>. m \in [Words -> Nat] /\ S \subseteq B /\ Tiles(SizesOf(m, S, B), B, ps)
  BY DEF HeapRight
<1>. DEFINE X == ObjectsIn(m, S, B)
            Y == ObjectsIn(m, S, B) \ {e}
<1>1. /\ X \subseteq B /\ n \in Words /\ Size(m, S, e) \in Nat /\ Size(m, S, n) \in Nat /\ Size(m, S, n) >= 3
      /\ m[n] = Size(m, S, n)
  BY FirstWords DEF ObjectsIn, Size
<1>2. m2 \in [Words -> Nat] /\ \A w \in Words : m2[w] = IF w = n THEN m[n] + Size(m, S, e) ELSE m[w]
  BY <1>1 DEF Put
<1>3. \A a \in B : a \in Words /\ a + 1 \in Words /\ a + 1 \notin B
  BY FirstWords
<1>4. \A a \in B : m2[a + 1] = m[a + 1] /\ (a # n => m2[a] = m[a])
  BY <1>2, <1>3
<1>5. \A a \in X : m[a] + 1 \in Words /\ m[a] + 1 \notin B
  BY DEF HeapRight
<1>6. ASSUME NEW a \in B, a # n PROVE Size(m2, S, a) = Size(m, S, a)
  <2>2. CASE a \in S
    BY <1>4, <1>6, <2>2 DEF Size
  <2>3. CASE a \notin S /\ m[a] = 0
    BY <1>4, <1>6, <2>3 DEF Size
  <2>4. CASE a \notin S /\ m[a] # 0
    <3>1. m[a] + 1 \in Words /\ m[a] + 1 # n
      BY <1>5, <2>4 DEF ObjectsIn
    <3>2. m2[m[a] + 1] = m[m[a] + 1] /\ m2[a] = m[a]
      BY <1>2, <1>4, <1>6, <3>1
    <3>. QED
      BY <2>4, <3>2 DEF Size
  <2>. QED
    BY <2>2, <2>3, <2>4
<1>7. Size(m2, S, n) = Size(m, S, n) + Size(m, S, e)
  BY <1>1, <1>2 DEF Size
<1>8. Tiles(SizesOf(m2, S, C), C, ps)
  <2>. DEFINE z == SizesOf(m2, S, C)
              u == SizesOf(m, S, B)
  <2>0. n # e /\ n \in B /\ e \in B
    OBVIOUS
  <2>1. \A a \in B \ {n, e} : z[a] = u[a]
    BY <1>6 DEF SizesOf
  <2>2. z[n] = u[n] + u[e] /\ u[n] = m[n]
    BY <1>1, <1>7, <2>0 DEF SizesOf
  <2>. HIDE DEF z, u
  <2>3. Tiles(z, B \ {e}, ps)
    BY <2>0, <2>1, <2>2, MergeTiles DEF u
  <2>. QED
    BY <2>3 DEF z
<1>9. ObjectsIn(m2, S, C) = Y
  BY <1>4 DEF ObjectsIn
<1>10. ASSUME NEW d \in Y, m[d] = DD
       PROVE  m2[d + 1] = m[d + 1] /\ m2[d + 2] = m[d + 2] /\ m2[d + 3] = m[d + 3]
  <2>1. \A i \in 1 .. 3 : d + i \in Words /\ d + i \notin B
    BY <1>10, TypeWords
  <2>2. \A i \in 1 .. 3 : d + i # n
    BY <2>1
  <2>. QED
    BY <1>2, <2>1, <2>2
<1>11. HeapRight(m2, S, C, ps)
  <2>1. DD \in Y /\ D \in Y /\ Y \subseteq ObjectsIn(m, S, B) /\ S \subseteq C
    OBVIOUS
  <2>2. \A a \in Y : m2[a] = m[a] /\ m[a] + 1 \notin C
    BY <1>1, <1>4, <1>5 DEF ObjectsIn
  <2>3. m2 \in [Words -> Nat]
    BY <1>2
  <2>5. Keeps(m, S, B, m2, S, C, Y)
    BY <1>9, <1>10, <2>1, <2>2, <2>3 DEF Keeps
  <2>. HIDE DEF Y
  <2>. QED
    BY <1>8, <2>5, HeapKept
<1>12. Shut(m2, L)
  <2>1. \A a \in L : a \in B /\ m2[a] = m[a] /\ m2[a + 1] = m[a + 1]
    BY <1>1, <1>4 DEF ObjectsIn
  <2>. QED
    BY <2>1 DEF Shut
<1>13. m2[n] # 0
  BY <1>1, <1>2
<1>. QED
  BY <1>4, <1>6, <1>7, <1>9, <1>11, <1>12, <1>13 DEF HasMerged

-----------------------------------------------------------------------------
(***************************************************************************)
(* Sequences, and the values of bits.                                      *)
(***************************************************************************)
(* What a sequence is.                                                     *)
LEMMA SequenceIsFunction ==
  ASSUME NEW E, NEW n \in Nat, NEW s, s \in [1 .. n -> E]
  PROVE  s \in Seq(E) /\ Len(s) = n /\ DOMAIN s = 1 .. n
OBVIOUS

(* What stands in a sequence is one of its elements.                       *)
LEMMA ElementAt ==
  ASSUME NEW E, NEW s \in Seq(E), NEW i \in 1 .. Len(s)
  PROVE  s[i] \in Range(s) /\ s[i] \in E
BY DEF Range

(* Sequences with the elements of a set, each once.                        *)
LEMMA OntoWhenInjective ==
  ASSUME NEW S, IsFiniteSet(S), NEW s, s \in [1 .. Cardinality(S) -> S], IsInjective(s)
  PROVE  s \in Seq(S) /\ Range(s) = S
<1>. DEFINE n == Cardinality(S)
<1>1. n \in Nat
  BY FS_CardinalityType
<1>2. IsFiniteSet(1 .. n) /\ Cardinality(1 .. n) = n
  BY <1>1, FS_Interval
<1>3. s \in Injection(1 .. n, S)
  BY DEF Injection
<1>4. s \in Surjection(1 .. n, S)
  BY <1>2, <1>3, FS_Injection
<1>. QED
  BY <1>1, <1>4, SequenceIsFunction DEF Surjection, Range

(* SetToSeq makes a sequence of a set's elements.                          *)
LEMMA SetToSeqElements ==
  ASSUME NEW S, IsFiniteSet(S)
  PROVE  SetToSeq(S) \in Seq(S) /\ Range(SetToSeq(S)) = S
<1>. DEFINE n == Cardinality(S)
            s == SetToSeq(S)
<1>1. n \in Nat
  BY FS_CardinalityType
<1>2. IsFiniteSet(1 .. n) /\ Cardinality(1 .. n) = n
  BY <1>1, FS_Interval
<1>3. ExistsBijection(1 .. n, S)
  BY <1>2, FS_SameCardinalityBij
<1>4. \E f \in [1 .. n -> S] : IsInjective(f)
  BY <1>3 DEF ExistsBijection, Bijection, Injection
<1>5. s \in [1 .. n -> S] /\ IsInjective(s)
  BY <1>4 DEF SetToSeq
<1>. HIDE DEF s, n
<1>. QED
  BY <1>5, OntoWhenInjective DEF s, n

(* Every rank is that of an element.                                       *)
LEMMA EveryRank ==
  ASSUME NEW S, IsFiniteSet(S), NEW f \in [S -> Nat], \A x, y \in S : f[x] = f[y] => x = y
  PROVE  \A k \in 0 .. Cardinality(S) - 1 : \E x \in S : Rank(f, S, x) = k
BY RankOnto

(* The numbers of a set, the largest first.                                *)
LEMMA DescendingElements ==
  ASSUME NEW S, S \subseteq Nat, IsFiniteSet(S)
  PROVE  Descending(S) \in Seq(S) /\ Range(Descending(S)) = S /\ IsInjective(Descending(S))
<1>. DEFINE n == Cardinality(S)
            f == [x \in S |-> x]
            Falls(s) == \A i, j \in DOMAIN s : i < j => s[i] > s[j]
            d == Descending(S)
<1>1. n \in Nat
  BY FS_CardinalityType
<1>2. f \in [S -> Nat] /\ \A x, y \in S : f[x] = f[y] => x = y
  OBVIOUS
<1>3. \A k \in 0 .. n - 1 : \E x \in S : Rank(f, S, x) = k
  <2>1. f \in [S -> Nat]
    OBVIOUS
  <2>2. \A x, y \in S : f[x] = f[y] => x = y
    OBVIOUS
  <2>. HIDE DEF f
  <2>. QED
    BY <2>1, <2>2, EveryRank
<1>4. /\ \A x \in S : Rank(f, S, x) \in 0 .. n - 1
      /\ \A x, y \in S : f[x] < f[y] => Rank(f, S, x) < Rank(f, S, y)
  <2>. HIDE DEF f
  <2>. QED
    BY <1>2, RankGrows
<1>. DEFINE s == [i \in 1 .. n |-> CHOOSE x \in S : Rank(f, S, x) = n - i]
<1>5. \A i \in 1 .. n : n - i \in 0 .. n - 1
  BY <1>1
<1>6. \A i \in 1 .. n : s[i] \in S /\ Rank(f, S, s[i]) = n - i
  BY <1>3, <1>5
<1>7. s \in [1 .. n -> S]
  BY <1>6
<1>8. Falls(s)
  <2>. SUFFICES ASSUME NEW i \in 1 .. n, NEW j \in 1 .. n, i < j PROVE s[i] > s[j]
    BY <1>7
  <2>. DEFINE x == s[i]
              y == s[j]
  <2>1. x \in S /\ y \in S /\ Rank(f, S, x) = n - i /\ Rank(f, S, y) = n - j /\ f[x] = x /\ f[y] = y
    BY <1>6
  <2>. HIDE DEF x, y, f, s
  <2>2. ~ (Rank(f, S, x) < Rank(f, S, y)) /\ x # y
    BY <1>1, <2>1
  <2>3. ~ (x < y)
    BY <1>4, <2>1, <2>2
  <2>4. x \in Nat /\ y \in Nat
    BY <2>1
  <2>. QED
    BY <2>2, <2>3, <2>4 DEF x, y
<1>9. d \in [1 .. n -> S] /\ Falls(d)
  <2>. HIDE DEF s
  <2>1. \E e \in [1 .. n -> S] : Falls(e)
    BY <1>7, <1>8
  <2>. QED
    BY <2>1 DEF Descending
<1>. HIDE DEF d
<1>10. IsInjective(d)
  <2>. SUFFICES ASSUME NEW i \in 1 .. n, NEW j \in 1 .. n, d[i] = d[j] PROVE i = j
    BY <1>9 DEF IsInjective
  <2>0. d[i] \in Nat /\ (i < j => d[i] > d[j]) /\ (j < i => d[j] > d[i])
    BY <1>9
  <2>1. ~ (i < j) /\ ~ (j < i)
    BY <2>0
  <2>. QED
    BY <1>1, <2>1
<1>11. Range(d) = S /\ d \in Seq(S)
  BY <1>9, <1>10, OntoWhenInjective
<1>. QED
  BY <1>10, <1>11 DEF d

(* Two sequences, one after the other.                                     *)
LEMMA JoinElements ==
  ASSUME NEW E, NEW s \in Seq(E), NEW t \in Seq(E)
  PROVE  /\ s \o t \in Seq(E) /\ Range(s \o t) = Range(s) \union Range(t)
         /\ IsInjective(s) /\ IsInjective(t) /\ Range(s) \intersect Range(t) = {} => IsInjective(s \o t)
<1>1. \A u : Range(u) = ToSet(u)
  BY DEF Range, ToSet
<1>. QED
  BY <1>1, ConcatElements

(* A sequence of one element.                                              *)
LEMMA OneElement ==
  ASSUME NEW E, NEW x \in E
  PROVE  <<x>> \in Seq(E) /\ Range(<<x>>) = {x} /\ IsInjective(<<x>>)
BY DEF Range, IsInjective

(* An element in the place of another.                                     *)
LEMMA ReplaceElement ==
  ASSUME NEW E, NEW s \in Seq(E), IsInjective(s), NEW i \in 1 .. Len(s), NEW y \in E, y \notin Range(s),
         NEW u, u = Put(s, i, y)
  PROVE  u \in Seq(E) /\ IsInjective(u) /\ Range(u) = (Range(s) \ {s[i]}) \union {y}
<1>1. u \in Seq(E) /\ DOMAIN u = DOMAIN s /\ DOMAIN s = 1 .. Len(s)
      /\ \A j \in DOMAIN s : u[j] = IF j = i THEN y ELSE s[j]
  BY DEF Put
<1>2. \A j \in DOMAIN s : s[j] # y /\ (s[j] = s[i] => j = i)
  BY <1>1 DEF IsInjective, Range
<1>3. IsInjective(u)
  BY <1>1, <1>2 DEF IsInjective
<1>4. Range(u) = (Range(s) \ {s[i]}) \union {y}
  <2>1. Range(u) \subseteq (Range(s) \ {s[i]}) \union {y}
    BY <1>1, <1>2 DEF Range
  <2>2. Range(s) \ {s[i]} \subseteq Range(u)
    <3>1. ASSUME NEW j \in DOMAIN s, s[j] # s[i] PROVE j \in DOMAIN u /\ u[j] = s[j]
      BY <1>1, <3>1
    <3>. QED
      BY <3>1 DEF Range
  <2>3. y \in Range(u)
    BY <1>1 DEF Range
  <2>. QED
    BY <2>1, <2>2, <2>3
<1>. QED
  BY <1>1, <1>3, <1>4

(* A sequence without one of its elements.                                 *)
LEMMA RemoveElement ==
  ASSUME NEW E, NEW s \in Seq(E), IsInjective(s), NEW i \in 1 .. Len(s)
  PROVE  /\ RemoveAt(s, i) \in Seq(E)
         /\ Range(RemoveAt(s, i)) = Range(s) \ {s[i]}
         /\ IsInjective(RemoveAt(s, i))
<1>. DEFINE n == Len(s)
            p == SubSeq(s, 1, i - 1)
            q == SubSeq(s, i + 1, n)
<1>1. n \in Nat /\ i \in Nat /\ DOMAIN s = 1 .. n
  OBVIOUS
<1>2. /\ p \in Seq(E) /\ DOMAIN p = 1 .. i - 1 /\ \A j \in 1 .. i - 1 : p[j] = s[j]
      /\ q \in Seq(E) /\ DOMAIN q = 1 .. n - i /\ \A j \in 1 .. n - i : q[j] = s[i + j]
  <2>1. Len(p) = i - 1 /\ p \in Seq(E) /\ \A j \in 1 .. i - 1 : p[j] = s[j]
    OBVIOUS
  <2>2. Len(q) = n - i /\ q \in Seq(E) /\ \A j \in 1 .. n - i : q[j] = s[i + j]
    OBVIOUS
  <2>3. \A t \in Seq(E) : DOMAIN t = 1 .. Len(t)
    OBVIOUS
  <2>. HIDE DEF p, q
  <2>. QED
    BY <2>1, <2>2, <2>3
<1>3. RemoveAt(s, i) = p \o q
  BY DEF RemoveAt
<1>. HIDE DEF p, q, n
<1>4. \A j, k \in 1 .. n : s[j] = s[k] => j = k
  BY <1>1 DEF IsInjective
<1>5. /\ \A j \in 1 .. i - 1 : j \in 1 .. n /\ j # i
      /\ \A j \in 1 .. n - i : i + j \in 1 .. n /\ i + j # i
      /\ \A j \in 1 .. n : j # i => j \in 1 .. i - 1 \/ (j - i \in 1 .. n - i /\ i + (j - i) = j)
  BY <1>1 DEF n
<1>6. IsInjective(p) /\ IsInjective(q)
  <2>1. \A j, k \in 1 .. n - i : i + j = i + k => j = k
    BY <1>1
  <2>2. IsInjective(p)
    BY <1>2, <1>4, <1>5 DEF IsInjective
  <2>3. \A j, k \in 1 .. n - i : q[j] = q[k] => j = k
    <3>. TAKE j, k \in 1 .. n - i
    <3>1. q[j] = s[i + j] /\ q[k] = s[i + k] /\ i + j \in 1 .. n /\ i + k \in 1 .. n
      BY <1>2, <1>5
    <3>. QED
      BY <1>4, <2>1, <3>1
  <2>4. IsInjective(q)
    BY <1>2, <2>3 DEF IsInjective
  <2>. QED
    BY <2>2, <2>4
<1>7. Range(p) \intersect Range(q) = {}
  <2>. SUFFICES ASSUME NEW j \in 1 .. i - 1, NEW k \in 1 .. n - i, p[j] = q[k] PROVE FALSE
    BY <1>2 DEF Range
  <2>1. j = i + k
    BY <1>2, <1>4, <1>5
  <2>. QED
    BY <1>1, <2>1
<1>8. Range(p) \union Range(q) = Range(s) \ {s[i]}
  <2>1. Range(p) \subseteq Range(s) \ {s[i]} /\ Range(q) \subseteq Range(s) \ {s[i]}
    <3>1. \A j \in 1 .. i - 1 : j \in DOMAIN s /\ p[j] = s[j] /\ s[j] # s[i]
      BY <1>1, <1>2, <1>4, <1>5
    <3>2. ASSUME NEW j \in 1 .. n - i PROVE i + j \in DOMAIN s /\ q[j] = s[i + j] /\ s[i + j] # s[i]
      BY <1>1, <1>2, <1>4, <1>5 DEF n
    <3>. QED
      BY <1>2, <3>1, <3>2 DEF Range
  <2>2. ASSUME NEW j \in 1 .. n, j # i PROVE s[j] \in Range(p) \union Range(q)
    <3>1. CASE j \in 1 .. i - 1
      BY <1>2, <3>1 DEF Range
    <3>2. CASE j - i \in 1 .. n - i /\ i + (j - i) = j
      BY <1>2, <3>2 DEF Range
    <3>. QED
      BY <1>5, <2>2, <3>1, <3>2
  <2>3. Range(s) \ {s[i]} \subseteq Range(p) \union Range(q)
    BY <1>1, <2>2 DEF Range
  <2>. QED
    BY <2>1, <2>3
<1>. QED
  BY <1>2, <1>3, <1>6, <1>7, <1>8, JoinElements

(* The last element of a sequence, and those before it.                    *)
LEMMA LastElement ==
  ASSUME NEW E, NEW s \in Seq(E), s # <<>>
  PROVE  /\ Front(s) \in Seq(E) /\ Last(s) \in Range(s)
         /\ Range(s) = Range(Front(s)) \union {Last(s)}
<1>. DEFINE n == Len(s)
<1>1. /\ n \in Nat /\ n # 0 /\ DOMAIN s = 1 .. n
      /\ Front(s) \in Seq(E) /\ DOMAIN Front(s) = 1 .. n - 1
      /\ \A i \in 1 .. n - 1 : Front(s)[i] = s[i]
      /\ Last(s) = s[n]
  BY DEF Front, Last
<1>. HIDE DEF n
<1>2. \A i \in 1 .. n : i = n \/ i \in 1 .. n - 1
  BY <1>1
<1>3. n \in 1 .. n /\ \A i \in 1 .. n - 1 : i \in 1 .. n
  BY <1>1
<1>. QED
  BY <1>1, <1>2, <1>3 DEF Range

(* An element at the end of a sequence.                                    *)
LEMMA AppendElement ==
  ASSUME NEW E, NEW s \in Seq(E), NEW x \in E
  PROVE  /\ Append(s, x) \in Seq(E)
         /\ Range(Append(s, x)) = Range(s) \union {x}
         /\ IsInjective(s) /\ x \notin Range(s) => IsInjective(Append(s, x))
<1>1. Append(s, x) = s \o <<x>>
  OBVIOUS
<1>2. <<x>> \in Seq(E) /\ Range(<<x>>) = {x} /\ IsInjective(<<x>>)
  BY OneElement
<1>. DEFINE t == <<x>>
<1>. HIDE DEF t
<1>3. /\ s \o t \in Seq(E) /\ Range(s \o t) = Range(s) \union Range(t)
      /\ IsInjective(s) /\ IsInjective(t) /\ Range(s) \intersect Range(t) = {} => IsInjective(s \o t)
  BY <1>2, JoinElements DEF t
<1>4. t \in Seq(E) /\ Range(t) = {x} /\ IsInjective(t) /\ Append(s, x) = s \o t
  BY <1>1, <1>2 DEF t
<1>. QED
  BY <1>3, <1>4

(* Where Fit finds a block.                                                *)
LEMMA FitFacts ==
  ASSUME NEW m, NEW s \in Seq(Words), NEW size
  PROVE  Fit(m, s, size) = 0 \/ (Fit(m, s, size) \in 1 .. Len(s)
                                   /\ Fits(size, m[s[Fit(m, s, size)] + 1]))
<1>. DEFINE I == {i \in 1 .. Len(s) : Fits(size, m[s[i] + 1])}
<1>1. Fit(m, s, size) = IF I # {} THEN Min(I) ELSE 0
  BY DEF Fit, SelectInSeq
<1>. HIDE DEF I
<1>2. I \subseteq Nat
  BY DEF I
<1>3. I # {} => Min(I) \in I
  BY <1>2, MinOfNaturals
<1>. QED
  BY <1>1, <1>3 DEF I

(* A value of a bit.                                                       *)
LEMMA BitFacts ==
  \A i \in 0 .. PoolWords : Bit[i] = IF i = 0 THEN 1 ELSE 2 * Bit[i - 1]
<1>. DEFINE n == PoolWords
            f == [k \in 1 .. n |-> [v \in Nat |-> 2 * v]]
            b == CHOOSE h : h = [i \in 0 .. n |-> IF i = 0 THEN 1 ELSE 2 * h[i - 1]]
<1>1. n \in Nat
  BY PoolsApart
<1>2. f \in [1 .. n -> [Nat -> Nat]]
  OBVIOUS
<1>3. PICK g \in [0 .. n -> Nat] : Iterates(Nat, 1, f, n, g)
  <2>. HIDE DEF f, n
  <2>. QED
    BY <1>1, <1>2, IterationExists
<1>4. g = [i \in 0 .. n |-> IF i = 0 THEN 1 ELSE 2 * g[i - 1]]
  <2>1. g = [i \in 0 .. n |-> IF i = 0 THEN 1 ELSE f[i][g[i - 1]]]
    BY <1>3 DEF Iterates
  <2>2. \A i \in 0 .. n : i # 0 => i \in 1 .. n /\ i - 1 \in 0 .. n /\ g[i - 1] \in Nat
    <3>1. \A i \in 0 .. n : i # 0 => i \in 1 .. n /\ i - 1 \in 0 .. n
      BY <1>1
    <3>2. \A i \in 0 .. n : g[i] \in Nat
      OBVIOUS
    <3>. HIDE DEF n
    <3>. QED
      BY <3>1, <3>2
  <2>3. \A i \in 0 .. n : i # 0 => f[i][g[i - 1]] = 2 * g[i - 1]
    BY <2>2
  <2>. HIDE DEF f
  <2>. QED
    BY <2>1, <2>3
<1>5. b = [i \in 0 .. n |-> IF i = 0 THEN 1 ELSE 2 * b[i - 1]]
  <2>1. \E h : h = [i \in 0 .. n |-> IF i = 0 THEN 1 ELSE 2 * h[i - 1]]
    BY <1>4
  <2>. QED
    BY <2>1
<1>6. Bit = b
  BY DEF Bit
<1>. HIDE DEF b
<1>. QED
  BY <1>5, <1>6

-----------------------------------------------------------------------------
(***************************************************************************)
(* The heap of all threads.  g, l and c are what gen0, freeList and gc are *)
(* in a state.                                                             *)
(***************************************************************************)
\* In these states of its sweep a thread's free list has blocks whose size is
\* in their first word.
Sweepy == {"sweep", "swept", "clear"}

\* The words of t's pools, the pools of all threads, and the blocks that have
\* their size in their first word.
HeapOf(g, t) == Inside(Range(g[t]))
Owned(g)     == UNION {Range(g[t]) : t \in Threads}
Nodes(l, c)  == UNION {Range(l[t]) : t \in {u \in Threads : c[u] \in Sweepy}}

\* Pools belong to one thread, and the first pool to some thread.
Owners(g) ==
    /\ g \in [Threads -> Seq(Pools)]
    /\ \A t \in Threads : IsInjective(g[t])
    /\ \A t, u \in Threads : t # u => Range(g[t]) \intersect Range(g[u]) = {}
    /\ 1 \in Owned(g)

\* The list s has the free ones of the blocks K, and no two side by side.
ListRight(m, S, K, s, c) ==
    /\ IsInjective(s) /\ Range(s) \subseteq K
    /\ c = "idle" => \A a \in Range(s) : m[a] = 0
    /\ \A a \in K \ Range(s) : m[a] # 0
    /\ \A a \in Range(s) : a + Size(m, S, a) \notin Range(s)

\* Blocks begin at the words B; those in U are still to be swept.
Heaps(m, g, l, c, B, U) ==
    /\ Owners(g)
    /\ l \in [Threads -> Seq(Words)]
    /\ HeapRight(m, Nodes(l, c), B, Owned(g))
    /\ \A t \in Threads : ListRight(m, Nodes(l, c), (B \intersect HeapOf(g, t)) \ U, l[t], c[t])

(* The heaps of threads do not overlap.                                    *)
LEMMA HeapsApart ==
  ASSUME NEW g, Owners(g)
  PROVE  /\ Owned(g) \subseteq Pools
         /\ Inside(Owned(g)) = UNION {HeapOf(g, t) : t \in Threads}
         /\ \A t \in Threads : HeapOf(g, t) \subseteq Words
         /\ \A t, u \in Threads : t # u => HeapOf(g, t) \intersect HeapOf(g, u) = {}
<1>1. \A t \in Threads : Range(g[t]) \subseteq Pools
  BY DEF Owners, Range
<1>2. \A p, q \in Pools : p # q => Area(p) \intersect Area(q) = {}
  BY PoolsApart DEF Area
<1>3. \A p \in Pools : Area(p) \subseteq Words
  BY PoolsApart
<1>4. \A t, u \in Threads : t # u => Range(g[t]) \intersect Range(g[u]) = {}
  BY DEF Owners
<1>. QED
  BY <1>1, <1>2, <1>3, <1>4 DEF Owned, HeapOf, Inside

(* The free blocks of a thread that has swept are in its own list.         *)
LEMMA ThreadBlocks ==
  ASSUME NEW m, NEW g, NEW l, NEW c, NEW B, NEW U, Heaps(m, g, l, c, B, U)
  PROVE  /\ B \subseteq Words /\ B \subseteq Inside(Owned(g))
         /\ \A a \in B : \E t \in Threads : a \in HeapOf(g, t)
         /\ \A t \in Threads : Range(l[t]) \subseteq B /\ Range(l[t]) \subseteq HeapOf(g, t)
                               /\ Range(l[t]) \intersect U = {}
         /\ \A t \in Threads : \A a \in HeapOf(g, t) :
               a \in Nodes(l, c) <=> c[t] \in Sweepy /\ a \in Range(l[t])
<1>. Owners(g) /\ HeapRight(m, Nodes(l, c), B, Owned(g))
  BY DEF Heaps
<1>1. B \subseteq Words /\ B \subseteq Inside(Owned(g))
  <2>1. B \subseteq Words
    BY BlockWords
  <2>. QED
    BY <2>1 DEF HeapRight, Tiles
<1>2. \A a \in B : \E t \in Threads : a \in HeapOf(g, t)
  BY <1>1, HeapsApart
<1>3. \A t \in Threads : Range(l[t]) \subseteq B /\ Range(l[t]) \subseteq HeapOf(g, t)
                         /\ Range(l[t]) \intersect U = {}
  BY DEF Heaps, ListRight
<1>4. ASSUME NEW t \in Threads, NEW a \in HeapOf(g, t)
      PROVE  a \in Nodes(l, c) <=> c[t] \in Sweepy /\ a \in Range(l[t])
  <2>1. \A u \in Threads : a \in Range(l[u]) => u = t
    BY <1>3, HeapsApart
  <2>. QED
    BY <2>1 DEF Nodes
<1>. QED
  BY <1>1, <1>2, <1>3, <1>4

(* A list stays right if its blocks stay what they are.                    *)
LEMMA ListKept ==
  ASSUME NEW m, NEW S, NEW K, NEW s, NEW c, ListRight(m, S, K, s, c),
         NEW m2, NEW R, \A a \in K : m2[a] = m[a] /\ Size(m2, R, a) = Size(m, S, a),
         NEW J, J = K, NEW c2, c2 = "idle" => c = "idle"
  PROVE  ListRight(m2, R, J, s, c2)
BY DEF ListRight

\* What changes m, g, l, c, B and U into those with a 2 is done by thread t alone.
OnlyOf(t, m, g, l, c, B, U, m2, g2, l2, c2, B2, U2) ==
    \A u \in Threads \ {t} :
      /\ g2[u] = g[u] /\ l2[u] = l[u] /\ c2[u] = c[u]
      /\ \A a \in HeapOf(g, u) :
           /\ a \in B2 \ U2 <=> a \in B \ U
           /\ a \in B => m2[a] = m[a] /\ Size(m2, Nodes(l2, c2), a) = Size(m, Nodes(l, c), a)

(* What one thread does to the heap leaves the heaps of others right.      *)
LEMMA OwnStep ==
  ASSUME NEW m, NEW g, NEW l, NEW c, NEW B, NEW U, Heaps(m, g, l, c, B, U),
         NEW m2, NEW g2, NEW l2, NEW c2, NEW B2, NEW U2, NEW t \in Threads,
         OnlyOf(t, m, g, l, c, B, U, m2, g2, l2, c2, B2, U2),
         Owners(g2), l2 \in [Threads -> Seq(Words)],
         HeapRight(m2, Nodes(l2, c2), B2, Owned(g2)),
         ListRight(m2, Nodes(l2, c2), (B2 \intersect HeapOf(g2, t)) \ U2, l2[t], c2[t])
  PROVE  Heaps(m2, g2, l2, c2, B2, U2)
<1>1. ASSUME NEW u \in Threads \ {t}
      PROVE  ListRight(m2, Nodes(l2, c2), (B2 \intersect HeapOf(g2, u)) \ U2, l2[u], c2[u])
  <2>. DEFINE S == Nodes(l, c)
              R == Nodes(l2, c2)
              K == (B \intersect HeapOf(g, u)) \ U
              J == (B2 \intersect HeapOf(g2, u)) \ U2
  <2>1. /\ g2[u] = g[u] /\ l2[u] = l[u] /\ c2[u] = c[u]
        /\ \A a \in HeapOf(g, u) :
             /\ a \in B2 \ U2 <=> a \in B \ U
             /\ a \in B => m2[a] = m[a] /\ Size(m2, R, a) = Size(m, S, a)
    BY DEF OnlyOf
  <2>2. HeapOf(g2, u) = HeapOf(g, u)
    BY <2>1 DEF HeapOf
  <2>3. J = K
    BY <2>1, <2>2
  <2>4. ListRight(m, S, K, l[u], c[u])
    BY DEF Heaps
  <2>5. \A a \in K : m2[a] = m[a] /\ Size(m2, R, a) = Size(m, S, a)
    BY <2>1
  <2>. HIDE DEF S, R, K, J
  <2>6. ListRight(m2, R, J, l[u], c[u])
    BY <2>3, <2>4, <2>5, ListKept
  <2>. QED
    BY <2>1, <2>6 DEF R, J
<1>2. \A u \in Threads :
        ListRight(m2, Nodes(l2, c2), (B2 \intersect HeapOf(g2, u)) \ U2, l2[u], c2[u])
  BY <1>1
<1>. QED
  BY <1>2 DEF Heaps

(* It does not matter in which part of its sweep a thread is.              *)
LEMMA SameHeaps ==
  ASSUME NEW m, NEW g, NEW l, NEW c, NEW B, NEW U, Heaps(m, g, l, c, B, U),
         NEW c2, \A t \in Threads : (c2[t] \in Sweepy <=> c[t] \in Sweepy) /\ (c2[t] = "idle" => c[t] = "idle"),
         NEW U2, \A a \in B : a \in U2 <=> a \in U
  PROVE  Heaps(m, g, l, c2, B, U2) /\ Nodes(l, c2) = Nodes(l, c)
<1>1. Nodes(l, c2) = Nodes(l, c)
  BY DEF Nodes
<1>2. ASSUME NEW t \in Threads
      PROVE  ListRight(m, Nodes(l, c2), (B \intersect HeapOf(g, t)) \ U2, l[t], c2[t])
  <2>1. (B \intersect HeapOf(g, t)) \ U2 = (B \intersect HeapOf(g, t)) \ U
    OBVIOUS
  <2>2. ListRight(m, Nodes(l, c), (B \intersect HeapOf(g, t)) \ U, l[t], c[t])
    BY DEF Heaps
  <2>. QED
    BY <1>1, <2>1, <2>2 DEF ListRight
<1>. QED
  BY <1>1, <1>2 DEF Heaps

\* Heaps are right, with objects X.
IsHeap(m, g, l, c, B, U, X) ==
    Heaps(m, g, l, c, B, U) /\ ObjectsIn(m, Nodes(l, c), B) = X

\* The words m2 still have the objects X that m has.
Keep(m, m2, X) == \A a \in X : m2[a] = m[a] /\ m2[a + 1] = m[a + 1]

\* And these refer to each other.
Carries(m, m2, X) == Shut(m2, X) /\ Keep(m, m2, X)

-----------------------------------------------------------------------------
(***************************************************************************)
(* Allocation, by one of the threads.                                      *)
(***************************************************************************)
\* t is given n for its request r, which makes m2 of the words m and l2 of the lists l.
Gives(t, m, l, r, m2, l2, n, i, size, rest) ==
    /\ size = m[r.d + 1]
    /\ i = Fit(m, l[t], size) /\ i # 0
    /\ n = l[t][i]
    /\ rest = m[n + 1] - size
    /\ m2 = Taken(m, n, r, size, rest)
    /\ l2 = [l EXCEPT ![t] = IF rest > 0 THEN [l[t] EXCEPT ![i] = n + size] ELSE RemoveAt(l[t], i)]

\* n is a new object for r.
Given(m, g, c, X, r, m2, l2, n, C) ==
    /\ IsHeap(m2, g, l2, c, C, {}, X \union {n})
    /\ Shut(m2, X \union {n}) /\ Keep(m, m2, X)
    /\ n \notin X /\ m2[n] = r.d /\ (r.d = D => m2[n + 1] = 0)

(* What fits is taken from a free block of the thread.                     *)
LEMMA GivesFree ==
  ASSUME NEW m, NEW g, NEW l, NEW c, NEW B, Heaps(m, g, l, c, B, {}),
         NEW t \in Threads, c[t] = "idle",
         NEW r, IsRequest(m, ObjectsIn(m, Nodes(l, c), B), r),
         NEW m2, NEW l2, NEW n, NEW i, NEW size, NEW rest, Gives(t, m, l, r, m2, l2, n, i, size, rest)
  PROVE  /\ Takes(m, Nodes(l, c), B, n, r, size, rest, m2)
         /\ n \in B /\ n \in HeapOf(g, t) /\ n \in Range(l[t]) /\ i \in 1 .. Len(l[t])
<1>. DEFINE S == Nodes(l, c)
<1>1. /\ l[t] \in Seq(Words) /\ Range(l[t]) \subseteq B /\ Range(l[t]) \subseteq HeapOf(g, t)
      /\ \A a \in Range(l[t]) : m[a] = 0
  BY ThreadBlocks DEF Heaps, ListRight
<1>2. /\ size = m[r.d + 1] /\ i = Fit(m, l[t], size) /\ i # 0 /\ n = l[t][i]
      /\ rest = m[n + 1] - size /\ m2 = Taken(m, n, r, size, rest)
  BY DEF Gives
<1>3. i \in 1 .. Len(l[t]) /\ Fits(size, m[n + 1])
  BY <1>1, <1>2, FitFacts
<1>4. n \in Range(l[t])
  BY <1>1, <1>2, <1>3, ElementAt
<1>5. n \in B \ S /\ m[n] = 0
  BY <1>1, <1>4, ThreadBlocks DEF Sweepy
<1>6. HeapRight(m, S, B, Owned(g))
  BY DEF Heaps
<1>7. rest = 0 \/ rest >= 4
  <2>1. size \in Nat
    BY <1>2, <1>6, SizeFacts DEF IsRequest
  <2>2. m[n + 1] \in Nat
    BY <1>5, <1>6, SizeFacts DEF Size
  <2>. DEFINE k == m[n + 1]
  <2>3. k \in Nat /\ rest = k - size /\ (k = size \/ k >= size + 4)
    BY <1>2, <1>3, <2>2 DEF Fits
  <2>. HIDE DEF k
  <2>. QED
    BY <2>1, <2>3
<1>. HIDE DEF S
<1>8. Takes(m, S, B, n, r, size, rest, m2)
  BY <1>2, <1>5, <1>7 DEF Takes, S
<1>. QED
  BY <1>1, <1>3, <1>4, <1>5, <1>8 DEF S

(* Allocation.                                                             *)
LEMMA AllocateStep ==
  ASSUME NEW m, NEW g, NEW l, NEW c, NEW B, NEW X, IsHeap(m, g, l, c, B, {}, X), Shut(m, X),
         NEW t \in Threads, c[t] = "idle",
         NEW r, IsRequest(m, X, r),
         NEW m2, NEW l2, NEW n, NEW i, NEW size, NEW rest, Gives(t, m, l, r, m2, l2, n, i, size, rest)
  PROVE  \E C : Given(m, g, c, X, r, m2, l2, n, C)
<1>. DEFINE S == Nodes(l, c)
            C == Cut(B, n, size, rest)
            H == HeapOf(g, t)
            K == B \intersect H
            J == C \intersect H
            s == l[t]
            s2 == l2[t]
<1>. Heaps(m, g, l, c, B, {}) /\ X = ObjectsIn(m, Nodes(l, c), B)
  BY DEF IsHeap
<1>1. Takes(m, S, B, n, r, size, rest, m2) /\ n \in B /\ n \in H /\ n \in Range(s) /\ i \in 1 .. Len(s)
  BY GivesFree
<1>2. HeapRight(m, S, B, Owned(g)) /\ Owners(g) /\ l \in [Threads -> Seq(Words)]
      /\ ListRight(m, S, K, s, "idle")
  <2>1. ListRight(m, S, (B \intersect H) \ {}, s, c[t])
    BY DEF Heaps
  <2>2. (B \intersect H) \ {} = K
    OBVIOUS
  <2>. QED
    BY <2>1, <2>2 DEF Heaps
<1>3. /\ n = s[i] /\ l2 = [l EXCEPT ![t] = s2]
      /\ s2 = IF rest > 0 THEN [s EXCEPT ![i] = n + size] ELSE RemoveAt(s, i)
      /\ \A u \in Threads \ {t} : l2[u] = l[u]
  BY <1>2 DEF Gives
<1>. HIDE DEF S, C, s2
<1>4. /\ HeapRight(m2, S, C, Owned(g))
      /\ ObjectsIn(m2, S, C) = X \union {n}
      /\ Shut(m2, X \union {n})
      /\ \A a \in B \ {n} : a \in C /\ m2[a] = m[a] /\ m2[a + 1] = m[a + 1]
                            /\ Size(m2, S, a) = Size(m, S, a)
      /\ Size(m2, S, n) = size /\ m2[n] # 0 /\ n \in C
      /\ rest > 0 => /\ n + size \in C \ (B \union S) /\ m2[n + size] = 0
                     /\ Size(m2, S, n + size) = rest
                     /\ \A p \in Owned(g) : n \in Area(p) => n + size \in Area(p)
      /\ C \subseteq B \union {n + size} /\ (rest = 0 => C = B)
  <2>1. X = ObjectsIn(m, S, B) /\ Shut(m, ObjectsIn(m, S, B))
    BY DEF S
  <2>2. C = Cut(B, n, size, rest)
    BY DEF C
  <2>3. HeapRight(m, S, B, Owned(g)) /\ Takes(m, S, B, n, r, size, rest, m2)
    BY <1>1, <1>2
  <2>4. ObjectsIn(m2, S, C) = ObjectsIn(m, S, B) \union {n} /\ Shut(m2, ObjectsIn(m2, S, C))
    BY <2>1, <2>2, <2>3, AllocateHeap
  <2>5. /\ HeapRight(m2, S, C, Owned(g))
        /\ \A a \in B \ {n} : a \in C /\ m2[a] = m[a] /\ m2[a + 1] = m[a + 1]
                              /\ Size(m2, S, a) = Size(m, S, a)
        /\ Size(m2, S, n) = size /\ m2[n] # 0 /\ n \in C
        /\ rest > 0 => /\ n + size \in C \ (B \union S) /\ m2[n + size] = 0
                       /\ Size(m2, S, n + size) = rest
                       /\ \A p \in Owned(g) : n \in Area(p) => n + size \in Area(p)
        /\ C \subseteq B \union {n + size} /\ (rest = 0 => C = B)
    BY <2>1, <2>2, <2>3, AllocateHeap
  <2>. QED
    BY <2>1, <2>4, <2>5
<1>5. m2[n] = r.d /\ (r.d = D => m2[n + 1] = 0) /\ rest \in Nat
      /\ Size(m, S, n) = size + rest /\ size \in Nat /\ size >= 3 /\ n \in Nat
  BY <1>1, <1>2, TakenWords, FirstWords
<1>6. m[n] = 0 /\ n \notin S
  BY <1>1 DEF Takes
<1>7. rest > 0 => n + size \in H /\ n + size \in Words
  <2>. SUFFICES ASSUME rest > 0 PROVE n + size \in H
    BY <1>2, HeapsApart
  <2>1. PICK p \in Range(g[t]) : n \in Area(p)
    BY <1>1 DEF HeapOf, Inside
  <2>2. p \in Owned(g)
    BY <2>1 DEF Owned
  <2>. QED
    BY <1>4, <2>1, <2>2 DEF HeapOf, Inside
<1>8. Range(s) \subseteq B /\ Range(s) \subseteq H /\ s \in Seq(Words)
  BY <1>2, ThreadBlocks
<1>9. IsInjective(s) /\ \A a \in Range(s) : m[a] = 0 /\ a + Size(m, S, a) \notin Range(s)
  BY <1>2 DEF ListRight
<1>10. /\ s2 \in Seq(Words) /\ IsInjective(s2)
       /\ rest > 0 => Range(s2) = (Range(s) \ {n}) \union {n + size}
       /\ rest = 0 => Range(s2) = Range(s) \ {n}
  <2>1. CASE rest > 0
    <3>1. n + size \notin Range(s)
      BY <1>4, <1>8, <2>1
    <3>. DEFINE e == n + size
    <3>2. e \in Words /\ e \notin Range(s)
      BY <1>7, <2>1, <3>1
    <3>3. n = s[i] /\ i \in 1 .. Len(s) /\ s \in Seq(Words) /\ IsInjective(s)
      BY <1>1, <1>3, <1>8, <1>9
    <3>4. s2 = Put(s, i, e)
      BY <1>3, <2>1 DEF Put
    <3>. HIDE DEF e, s
    <3>5. s2 \in Seq(Words) /\ IsInjective(s2) /\ Range(s2) = (Range(s) \ {s[i]}) \union {e}
      BY <3>2, <3>3, <3>4, ReplaceElement
    <3>6. rest # 0
      BY <2>1
    <3>. QED
      BY <3>3, <3>5, <3>6 DEF e
  <2>2. CASE rest = 0
    BY <1>1, <1>3, <1>8, <1>9, <2>2, RemoveElement
  <2>. QED
    BY <1>5, <2>1, <2>2
<1>11. l2 \in [Threads -> Seq(Words)]
  BY <1>2, <1>3, <1>10
<1>12. Nodes(l2, c) = S
  BY <1>3 DEF Nodes, S, Sweepy
<1>13. ListRight(m2, S, J, s2, "idle")
  <2>1. \A a \in Range(s2) : a \in C /\ a \in H /\ m2[a] = 0
    <3>1. CASE rest > 0
      BY <1>4, <1>7, <1>8, <1>9, <1>10, <3>1
    <3>2. CASE rest = 0
      BY <1>4, <1>8, <1>9, <1>10, <3>2
    <3>. QED
      BY <1>5, <3>1, <3>2
  <2>2. \A a \in J \ Range(s2) : m2[a] # 0
    <3>1. ASSUME NEW a \in J, a \notin Range(s2) PROVE m2[a] # 0
      <4>1. CASE a = n
        BY <1>4, <4>1
      <4>2. CASE a \in B \ {n}
        <5>1. a \notin Range(s) /\ a \in K
          BY <1>5, <1>10, <3>1, <4>2
        <5>2. m[a] # 0
          BY <1>2, <5>1 DEF ListRight
        <5>. QED
          BY <1>4, <4>2, <5>2
      <4>3. CASE a \notin B
        BY SMTT(20), <1>4, <1>5, <1>10, <3>1, <4>3
      <4>. QED
        BY <4>1, <4>2, <4>3
    <3>. QED
      BY <3>1
  <2>3. ASSUME NEW a \in Range(s2) PROVE a + Size(m2, S, a) \notin Range(s2)
    <3>. DEFINE z == SizesOf(m2, S, C)
    <3>1. Tiles(z, C, Owned(g)) /\ \A b \in C : z[b] = Size(m2, S, b)
      BY <1>4 DEF HeapRight, SizesOf
    <3>. HIDE DEF z
    <3>2. \A b, d \in C : b + z[b] = d + z[d] => b = d
      BY <3>1, TileSizes
    <3>3. a \in C
      BY <2>1
    <3>4. CASE rest > 0 /\ a = n + size
      <4>1. a + Size(m2, S, a) = n + Size(m, S, n)
        BY <1>4, <1>5, <3>4
      <4>2. a + Size(m2, S, a) \notin Range(s)
        BY <1>1, <1>9, <4>1
      <4>3. a + Size(m2, S, a) # n + size
        BY <1>4, <1>5, <3>4
      <4>. QED
        BY <1>10, <3>4, <4>2, <4>3
    <3>5. CASE a \in Range(s) \ {n}
      <4>1. Size(m2, S, a) = Size(m, S, a) /\ a + Size(m, S, a) \notin Range(s)
        BY <1>4, <1>8, <1>9, <3>5
      <4>2. a + Size(m2, S, a) # n + size
        BY <1>4, <3>1, <3>2, <3>3, <3>5
      <4>. QED
        BY <1>5, <1>10, <4>1, <4>2
    <3>. QED
      BY <1>5, <1>10, <3>4, <3>5
  <2>4. Range(s2) \subseteq J
    BY <2>1
  <2>. QED
    BY <1>10, <2>1, <2>2, <2>3, <2>4 DEF ListRight
<1>14. OnlyOf(t, m, g, l, c, B, {}, m2, g, l2, c, C, {})
  <2>. SUFFICES ASSUME NEW u \in Threads \ {t}, NEW a \in HeapOf(g, u)
                PROVE  /\ a \in C <=> a \in B
                       /\ a \in B => m2[a] = m[a] /\ Size(m2, S, a) = Size(m, S, a)
    BY <1>3, <1>12 DEF OnlyOf, S
  <2>1. a \notin H
    BY <1>2, HeapsApart
  <2>2. a # n
    BY <1>1, <2>1
  <2>3. rest > 0 => a # n + size
    BY <1>7, <2>1
  <2>4. a \in C <=> a \in B
    <3>1. CASE rest = 0
      BY <1>4, <3>1
    <3>2. CASE rest > 0
      BY <1>4, <2>2, <2>3, <3>2
    <3>. QED
      BY <1>5, <3>1, <3>2
  <2>. QED
    BY <1>4, <2>2, <2>4
<1>15. Heaps(m2, g, l2, c, C, {})
  <2>1. (C \intersect HeapOf(g, t)) \ {} = J
    OBVIOUS
  <2>2. ListRight(m2, Nodes(l2, c), (C \intersect HeapOf(g, t)) \ {}, l2[t], c[t])
    BY <1>12, <1>13, <2>1 DEF s2
  <2>3. HeapRight(m2, Nodes(l2, c), C, Owned(g))
    BY <1>4, <1>12
  <2>. QED
    BY <1>2, <1>11, <1>14, <2>2, <2>3, OwnStep
<1>16. Keep(m, m2, X) /\ n \notin X
  BY <1>4, <1>6 DEF Keep, ObjectsIn, S
<1>17. ObjectsIn(m2, Nodes(l2, c), C) = X \union {n}
  BY <1>4, <1>12
<1>18. Given(m, g, c, X, r, m2, l2, n, C)
  BY <1>4, <1>5, <1>15, <1>16, <1>17 DEF Given, IsHeap
<1>. QED
  BY <1>18

-----------------------------------------------------------------------------
(***************************************************************************)
(* Pools that are added to a thread's.                                     *)
(***************************************************************************)
(* The words of pools, and their ends.                                     *)
LEMMA PoolFacts ==
  /\ \A p \in Pools : /\ First(p) \in Nat /\ End(p) \in Nat /\ First(p) \in Area(p)
                      /\ First(p) + PoolWords = End(p)
  /\ \A p \in Pools : \A w \in Area(p) : w \in Nat /\ First(p) <= w /\ w < End(p)
  /\ \A p, q \in Pools : p # q => End(p) < First(q) \/ End(q) < First(p)
  /\ \A p, q \in Pools : p # q => Area(p) \intersect Area(q) = {} /\ End(p) \notin Area(q)
<1>1. ASSUME NEW p \in Pools
      PROVE  /\ First(p) \in Nat /\ End(p) \in Nat /\ First(p) + PoolWords = End(p)
             /\ First(p) < End(p)
  BY PoolsApart
<1>2. ASSUME NEW p \in Pools PROVE First(p) \in Area(p)
  BY <1>1 DEF Area
<1>3. ASSUME NEW p \in Pools, NEW w \in Area(p) PROVE w \in Nat /\ First(p) <= w /\ w < End(p)
  BY <1>1 DEF Area
<1>4. ASSUME NEW p \in Pools, NEW q \in Pools, p # q PROVE End(p) < First(q) \/ End(q) < First(p)
  <2>1. p \in Nat /\ q \in Nat
    BY PoolsApart
  <2>2. p < q \/ q < p
    BY <1>4, <2>1
  <2>. QED
    BY <2>2, PoolsApart
<1>5. ASSUME NEW p \in Pools, NEW q \in Pools, p # q
      PROVE  Area(p) \intersect Area(q) = {} /\ End(p) \notin Area(q)
  <2>1. End(p) < First(q) \/ End(q) < First(p)
    BY <1>4, <1>5
  <2>2. \A w \in Area(p) : w \in Nat /\ First(p) <= w /\ w < End(p)
    BY <1>3
  <2>3. \A w \in Area(q) : w \in Nat /\ First(q) <= w /\ w < End(q)
    BY <1>3
  <2>4. First(p) \in Nat /\ End(p) \in Nat /\ First(q) \in Nat /\ End(q) \in Nat /\ First(p) < End(p)
    BY <1>1
  <2>. QED
    BY <2>1, <2>2, <2>3, <2>4
<1>. QED
  BY <1>1, <1>2, <1>3, <1>4, <1>5

\* The sequences f with s in front of t's.
Joined(f, t, s) == [f EXCEPT ![t] = s \o f[t]]

\* The sequences f2 are f with s in front of t's.
IsJoined(E, f, t, s, f2) ==
    /\ f2 \in [Threads -> Seq(E)]
    /\ Range(f2[t]) = Range(s) \union Range(f[t])
    /\ IsInjective(s) /\ IsInjective(f[t]) /\ Range(s) \intersect Range(f[t]) = {}
         => IsInjective(f2[t])
    /\ \A u \in Threads \ {t} : f2[u] = f[u]

(* Pools in front of a thread's.                                           *)
LEMMA JoinedPools ==
  ASSUME NEW f, f \in [Threads -> Seq(Pools)], NEW t \in Threads, NEW s \in Seq(Pools),
         NEW f2, f2 = Joined(f, t, s)
  PROVE  IsJoined(Pools, f, t, s, f2)
<1>1. f2[t] = s \o f[t] /\ f[t] \in Seq(Pools)
  BY DEF Joined
<1>. DEFINE r == f[t]
<1>2. f2 = [f EXCEPT ![t] = s \o r]
  BY DEF Joined
<1>. HIDE DEF r
<1>3. /\ s \o r \in Seq(Pools) /\ Range(s \o r) = Range(s) \union Range(r)
      /\ IsInjective(s) /\ IsInjective(r) /\ Range(s) \intersect Range(r) = {} => IsInjective(s \o r)
  BY <1>1, JoinElements DEF r
<1>4. f2 \in [Threads -> Seq(Pools)] /\ \A u \in Threads \ {t} : f2[u] = f[u]
  BY <1>2, <1>3
<1>. QED
  BY <1>1, <1>3, <1>4 DEF r, IsJoined

(* Blocks in front of a thread's free list.                                *)
LEMMA JoinedLists ==
  ASSUME NEW f, f \in [Threads -> Seq(Words)], NEW t \in Threads, NEW s \in Seq(Words),
         NEW f2, f2 = Joined(f, t, s)
  PROVE  IsJoined(Words, f, t, s, f2)
<1>1. f2[t] = s \o f[t] /\ f[t] \in Seq(Words)
  BY DEF Joined
<1>. DEFINE r == f[t]
<1>2. f2 = [f EXCEPT ![t] = s \o r]
  BY DEF Joined
<1>. HIDE DEF r
<1>3. /\ s \o r \in Seq(Words) /\ Range(s \o r) = Range(s) \union Range(r)
      /\ IsInjective(s) /\ IsInjective(r) /\ Range(s) \intersect Range(r) = {} => IsInjective(s \o r)
  BY <1>1, JoinElements DEF r
<1>4. f2 \in [Threads -> Seq(Words)] /\ \A u \in Threads \ {t} : f2[u] = f[u]
  BY <1>2, <1>3
<1>. QED
  BY <1>1, <1>3, <1>4 DEF r, IsJoined

\* The pools qs, in the order sp, are new in front of t's, and their blocks sn.
Adds(t, m, g, l, qs, sp, sn, m2, g2, l2) ==
    /\ qs \subseteq Pools \ Owned(g)
    /\ sp \in Seq(Pools) /\ IsInjective(sp) /\ Range(sp) = qs
    /\ sn \in Seq(Words) /\ IsInjective(sn) /\ Range(sn) = Firsts(qs)
    /\ m2 = WithPools(m, qs)
    /\ g2 = Joined(g, t, sp)
    /\ l2 = Joined(l, t, sn)

\* t owns the pools qs too.
OwnsMore(t, qs, g, g2) ==
    /\ Owners(g2) /\ Owned(g2) = Owned(g) \union qs
    /\ HeapOf(g2, t) = HeapOf(g, t) \union Inside(qs)
    /\ \A u \in Threads \ {t} : g2[u] = g[u]

(* Who owns the pools then.                                                *)
LEMMA AddOwners ==
  ASSUME NEW g, Owners(g), NEW t \in Threads, NEW qs, qs \subseteq Pools \ Owned(g),
         NEW sp \in Seq(Pools), IsInjective(sp), Range(sp) = qs, NEW g2, g2 = Joined(g, t, sp)
  PROVE  OwnsMore(t, qs, g, g2)
<1>1. /\ g \in [Threads -> Seq(Pools)]
      /\ \A u \in Threads : IsInjective(g[u]) /\ Range(g[u]) \subseteq Owned(g)
      /\ \A u, v \in Threads : u # v => Range(g[u]) \intersect Range(g[v]) = {}
      /\ 1 \in Owned(g)
  BY DEF Owners, Owned
<1>2. Range(sp) \intersect Range(g[t]) = {}
  BY <1>1
<1>3. /\ g2 \in [Threads -> Seq(Pools)]
      /\ Range(g2[t]) = qs \union Range(g[t]) /\ IsInjective(g2[t])
      /\ \A u \in Threads \ {t} : g2[u] = g[u]
  <2>1. Range(sp) \intersect Range(g[t]) = {} /\ IsInjective(sp) /\ IsInjective(g[t])
    BY <1>1, <1>2
  <2>2. g \in [Threads -> Seq(Pools)] /\ sp \in Seq(Pools) /\ g2 = Joined(g, t, sp)
    BY <1>1
  <2>3. /\ g2 \in [Threads -> Seq(Pools)]
        /\ Range(g2[t]) = Range(sp) \union Range(g[t])
        /\ IsInjective(g2[t])
        /\ \A u \in Threads \ {t} : g2[u] = g[u]
    <3>1. IsJoined(Pools, g, t, sp, g2)
      BY <2>2, JoinedPools
    <3>. QED
      BY <2>1, <3>1 DEF IsJoined
  <2>. QED
    BY <2>3
<1>4. \A u, v \in Threads : u # v => Range(g2[u]) \intersect Range(g2[v]) = {}
  BY ZenonT(40), <1>1, <1>3
<1>5. Owned(g2) = Owned(g) \union qs
  <2>1. ASSUME NEW p \in Owned(g2) PROVE p \in Owned(g) \union qs
    <3>1. PICK u \in Threads : p \in Range(g2[u])
      BY DEF Owned
    <3>2. CASE u = t
      BY <1>1, <1>3, <3>1, <3>2
    <3>3. CASE u # t
      BY <1>1, <1>3, <3>1, <3>3
    <3>. QED
      BY <3>2, <3>3
  <2>2. ASSUME NEW p \in Owned(g) PROVE p \in Owned(g2)
    <3>1. PICK u \in Threads : p \in Range(g[u])
      BY DEF Owned
    <3>2. p \in Range(g2[u])
      BY <1>3, <3>1
    <3>. QED
      BY <3>2 DEF Owned
  <2>3. ASSUME NEW p \in qs PROVE p \in Owned(g2)
    BY <1>3 DEF Owned
  <2>. QED
    BY <2>1, <2>2, <2>3
<1>6. \A u \in Threads : IsInjective(g2[u])
  BY <1>1, <1>3
<1>7. HeapOf(g2, t) = HeapOf(g, t) \union Inside(qs)
  BY <1>3 DEF HeapOf, Inside
<1>. QED
  BY <1>1, <1>3, <1>4, <1>5, <1>6, <1>7 DEF Owners, OwnsMore

(* Pools are added.                                                        *)
LEMMA AddStep ==
  ASSUME NEW m, NEW g, NEW l, NEW c, NEW B, NEW X, IsHeap(m, g, l, c, B, {}, X), Shut(m, X),
         NEW t \in Threads, c[t] = "idle",
         NEW qs, NEW sp, NEW sn, NEW m2, NEW g2, NEW l2, Adds(t, m, g, l, qs, sp, sn, m2, g2, l2)
  PROVE  \E C : IsHeap(m2, g2, l2, c, C, {}, X) /\ Carries(m, m2, X)
<1>. DEFINE S == Nodes(l, c)
            C == B \union Firsts(qs)
            H == HeapOf(g, t)
            H2 == HeapOf(g2, t)
            N == Firsts(qs)
<1>. Heaps(m, g, l, c, B, {}) /\ X = ObjectsIn(m, Nodes(l, c), B)
  BY DEF IsHeap
<1>1. /\ qs \subseteq Pools \ Owned(g)
      /\ sp \in Seq(Pools) /\ IsInjective(sp) /\ Range(sp) = qs
      /\ sn \in Seq(Words) /\ IsInjective(sn) /\ Range(sn) = N
      /\ m2 = WithPools(m, qs) /\ g2 = Joined(g, t, sp) /\ l2 = Joined(l, t, sn)
  BY DEF Adds
<1>2. /\ Owners(g) /\ l \in [Threads -> Seq(Words)] /\ HeapRight(m, S, B, Owned(g))
      /\ ListRight(m, S, B \intersect H, l[t], "idle")
  <2>1. ListRight(m, S, (B \intersect H) \ {}, l[t], c[t])
    BY DEF Heaps
  <2>2. (B \intersect H) \ {} = B \intersect H
    OBVIOUS
  <2>. QED
    BY <2>1, <2>2 DEF Heaps
<1>3. /\ Range(l[t]) \subseteq B /\ Range(l[t]) \subseteq H
      /\ B \subseteq Inside(Owned(g))
  BY ThreadBlocks
<1>4. /\ Owners(g2) /\ Owned(g2) = Owned(g) \union qs
      /\ H2 = H \union Inside(qs)
      /\ \A u \in Threads \ {t} : g2[u] = g[u]
  <2>1. qs \subseteq Pools \ Owned(g) /\ sp \in Seq(Pools) /\ IsInjective(sp) /\ Range(sp) = qs
    BY <1>1
  <2>2. Owners(g) /\ g2 = Joined(g, t, sp)
    BY <1>1, <1>2
  <2>3. OwnsMore(t, qs, g, g2)
    BY <2>1, <2>2, AddOwners
  <2>. QED
    BY <2>3 DEF OwnsMore
<1>5. /\ HeapRight(m2, S, C, Owned(g) \union qs)
      /\ ObjectsIn(m2, S, C) = X /\ Shut(m2, X)
      /\ \A a \in B : m2[a] = m[a] /\ m2[a + 1] = m[a + 1] /\ Size(m2, S, a) = Size(m, S, a)
      /\ \A q \in qs : /\ First(q) \notin B /\ m2[First(q)] = 0
                       /\ Size(m2, S, First(q)) = PoolWords
  <2>1. qs \subseteq Pools \ Owned(g) /\ m2 = WithPools(m, qs) /\ C = B \union Firsts(qs)
    BY <1>1
  <2>2. X = ObjectsIn(m, S, B) /\ HeapRight(m, S, B, Owned(g))
    BY <1>2
  <2>. HIDE DEF S, C
  <2>3. HasMore(m, S, B, Owned(g), ObjectsIn(m, S, B), qs, m2, C)
    BY <2>1, <2>2, AddHeap
  <2>. QED
    BY <2>2, <2>3 DEF HasMore
<1>. HIDE DEF S, H, H2
<1>6. N \intersect Range(l[t]) = {} /\ N \intersect B = {}
  BY <1>3, <1>5 DEF Firsts
<1>7. /\ l2 \in [Threads -> Seq(Words)] /\ Range(l2[t]) = N \union Range(l[t]) /\ IsInjective(l2[t])
      /\ \A u \in Threads \ {t} : l2[u] = l[u]
  <2>1. IsInjective(l[t])
    BY <1>2 DEF ListRight
  <2>2. IsJoined(Words, l, t, sn, l2)
    BY <1>1, <1>2, JoinedLists
  <2>. QED
    BY <1>1, <1>6, <2>1, <2>2 DEF IsJoined
<1>8. Nodes(l2, c) = S
  BY <1>7 DEF Nodes, S, Sweepy
<1>9. \A q \in qs : First(q) \in H2
  BY <1>1, <1>4, PoolFacts DEF Inside
<1>10. ListRight(m2, S, C \intersect H2, l2[t], "idle")
  <2>1. /\ \A a \in Range(l[t]) : m[a] = 0 /\ a + Size(m, S, a) \notin Range(l[t])
        /\ \A a \in (B \intersect H) \ Range(l[t]) : m[a] # 0
    BY <1>2 DEF ListRight
  <2>2. Range(l2[t]) \subseteq C \intersect H2
    BY <1>3, <1>4, <1>7, <1>9 DEF Firsts
  <2>3. \A a \in Range(l2[t]) : m2[a] = 0
    BY <1>3, <1>5, <1>7, <2>1 DEF Firsts
  <2>4. \A a \in (C \intersect H2) \ Range(l2[t]) : m2[a] # 0
    <3>1. ASSUME NEW a \in C, a \in H2, a \notin Range(l2[t]) PROVE m2[a] # 0
      <4>1. a \in B /\ a \notin Range(l[t])
        BY <1>7, <3>1 DEF Firsts
      <4>2. a \notin Inside(qs)
        <5>1. PICK p \in Owned(g) : a \in Area(p)
          BY <1>3, <4>1 DEF Inside
        <5>2. Owned(g) \subseteq Pools
          BY <1>2, HeapsApart
        <5>. QED
          BY <1>1, <5>1, <5>2, PoolFacts DEF Inside
      <4>. QED
        BY <1>4, <1>5, <2>1, <3>1, <4>1, <4>2
    <3>. QED
      BY <3>1
  <2>5. ASSUME NEW a \in Range(l2[t]) PROVE a + Size(m2, S, a) \notin Range(l2[t])
    <3>. DEFINE z == SizesOf(m2, S, C)
    <3>1. Tiles(z, C, Owned(g) \union qs) /\ \A b \in C : z[b] = Size(m2, S, b)
      BY <1>5 DEF HeapRight, SizesOf
    <3>. HIDE DEF z
    <3>2. /\ \A b \in C : \E p \in Owned(g) \union qs : b \in Area(p)
          /\ \A p \in Owned(g) \union qs : \A b \in C \intersect Area(p) : b + z[b] <= End(p)
          /\ Owned(g) \union qs \subseteq Pools
      BY <3>1 DEF Tiles, Inside
    <3>3. ASSUME NEW q \in qs PROVE a + Size(m2, S, a) # First(q)
      <4>1. PICK p \in Owned(g) \union qs : a \in Area(p)
        BY <1>7, <2>2, <3>2
      <4>2. p \in Pools /\ q \in Pools
        BY <1>1, <3>2
      <4>. DEFINE k == Size(m2, S, a)
      <4>3. k \in Nat /\ k >= 3 /\ a + k <= End(p)
        <5>1. a \in C
          BY <2>2
        <5>2. k \in Nat /\ k >= 3
          BY <1>5, <5>1, SizeFacts
        <5>. QED
          BY <3>1, <3>2, <4>1, <5>1, <5>2
      <4>. HIDE DEF k
      <4>4. /\ a \in Nat /\ First(p) <= a /\ First(p) \in Nat /\ End(p) \in Nat
            /\ First(q) \in Nat /\ End(q) \in Nat /\ First(q) < End(q)
        BY <4>1, <4>2, PoolFacts
      <4>5. p = q \/ End(p) < First(q) \/ End(q) < First(p)
        BY <4>2, PoolFacts
      <4>6. a + k # First(q)
        BY <4>3, <4>4, <4>5
      <4>. QED
        BY <4>6 DEF k
    <3>4. a + Size(m2, S, a) \notin N
      BY <3>3 DEF Firsts
    <3>5. a + Size(m2, S, a) \notin Range(l[t])
      <4>1. CASE a \in Range(l[t])
        BY <1>3, <1>5, <2>1, <4>1
      <4>2. CASE a \in N
        <5>1. PICK q \in qs : a = First(q)
          BY <4>2 DEF Firsts
        <5>2. a + Size(m2, S, a) = End(q)
          BY <1>1, <1>5, <5>1, PoolFacts
        <5>3. End(q) \notin Inside(Owned(g))
          <6>1. Owned(g) \subseteq Pools
            BY <1>2, HeapsApart
          <6>2. ASSUME NEW p \in Owned(g), End(q) \in Area(p) PROVE FALSE
            BY <1>1, <6>1, <6>2, PoolFacts
          <6>. QED
            BY <6>2 DEF Inside
        <5>. QED
          BY <1>3, <5>2, <5>3
      <4>. QED
        BY <1>7, <4>1, <4>2
    <3>. QED
      BY <1>7, <3>4, <3>5
  <2>. QED
    BY <1>7, <2>2, <2>3, <2>4, <2>5 DEF ListRight
<1>11. OnlyOf(t, m, g, l, c, B, {}, m2, g2, l2, c, C, {})
  <2>. SUFFICES ASSUME NEW u \in Threads \ {t}, NEW a \in HeapOf(g, u)
                PROVE  /\ a \in C <=> a \in B
                       /\ a \in B => m2[a] = m[a] /\ Size(m2, S, a) = Size(m, S, a)
    BY <1>4, <1>7, <1>8 DEF OnlyOf, S
  <2>1. ASSUME NEW q \in qs PROVE a # First(q)
    <3>1. PICK p \in Range(g[u]) : a \in Area(p)
      BY DEF HeapOf, Inside
    <3>2. p \in Owned(g) /\ Owned(g) \subseteq Pools
      BY <1>2, <3>1, HeapsApart DEF Owned
    <3>3. p # q /\ p \in Pools /\ q \in Pools
      BY <1>1, <3>2
    <3>. QED
      BY <3>1, <3>3, PoolFacts
  <2>. QED
    BY <1>5, <2>1 DEF Firsts
<1>12. Heaps(m2, g2, l2, c, C, {})
  <2>1. (C \intersect HeapOf(g2, t)) \ {} = C \intersect H2
    BY DEF H2
  <2>2. ListRight(m2, Nodes(l2, c), (C \intersect HeapOf(g2, t)) \ {}, l2[t], c[t])
    BY <1>8, <1>10, <2>1
  <2>3. HeapRight(m2, Nodes(l2, c), C, Owned(g2))
    BY <1>4, <1>5, <1>8
  <2>. HIDE DEF C
  <2>. QED
    BY <1>4, <1>7, <1>11, <2>2, <2>3, OwnStep
<1>13. Keep(m, m2, X)
  BY <1>5 DEF Keep, ObjectsIn, S
<1>14. ObjectsIn(m2, Nodes(l2, c), C) = X
  BY <1>5, <1>8
<1>15. IsHeap(m2, g2, l2, c, C, {}, X) /\ Carries(m, m2, X)
  BY <1>5, <1>12, <1>13, <1>14 DEF IsHeap, Carries
<1>. QED
  BY <1>15

-----------------------------------------------------------------------------
(***************************************************************************)
(* Other steps of one thread.                                              *)
(***************************************************************************)
(* What is between the blocks does not matter to the lists.                *)
LEMMA SameBlocks ==
  ASSUME NEW m, NEW g, NEW l, NEW c, NEW B, NEW U, Heaps(m, g, l, c, B, U),
         NEW m2, HeapRight(m2, Nodes(l, c), B, Owned(g)),
         \A a \in B : m2[a] = m[a] /\ Size(m2, Nodes(l, c), a) = Size(m, Nodes(l, c), a)
  PROVE  Heaps(m2, g, l, c, B, U)
<1>. DEFINE S == Nodes(l, c)
<1>1. ASSUME NEW t \in Threads
      PROVE  ListRight(m2, S, (B \intersect HeapOf(g, t)) \ U, l[t], c[t])
  <2>. DEFINE K == (B \intersect HeapOf(g, t)) \ U
  <2>1. ListRight(m, S, K, l[t], c[t])
    BY DEF Heaps
  <2>2. \A a \in K : m2[a] = m[a] /\ Size(m2, S, a) = Size(m, S, a)
    OBVIOUS
  <2>. HIDE DEF S, K
  <2>3. ListRight(m2, S, K, l[t], c[t])
    BY <2>1, <2>2, ListKept
  <2>. QED
    BY <2>3 DEF K
<1>. QED
  BY <1>1 DEF Heaps

(* Writing an object's pointer.                                            *)
LEMMA WriteStep ==
  ASSUME NEW m, NEW g, NEW l, NEW c, NEW B, NEW X, IsHeap(m, g, l, c, B, {}, X), Shut(m, X),
         NEW v \in X, m[v] = D, NEW y, y \in (X \ {DD, D}) \union {0},
         NEW m2, m2 = Put(m, v + 1, y)
  PROVE  /\ IsHeap(m2, g, l, c, B, {}, X) /\ Shut(m2, X)
         /\ \A a \in X : m2[a] = m[a] /\ (a # v => m2[a + 1] = m[a + 1])
         /\ m2[v + 1] = y
<1>. DEFINE S == Nodes(l, c)
<1>1. Heaps(m, g, l, c, B, {}) /\ X = ObjectsIn(m, S, B) /\ HeapRight(m, S, B, Owned(g))
  BY DEF IsHeap, Heaps
<1>2. v \in ObjectsIn(m, S, B) /\ y \in (ObjectsIn(m, S, B) \ {DD, D}) \union {0}
      /\ Shut(m, ObjectsIn(m, S, B))
  BY <1>1
<1>. HIDE DEF S
<1>3. /\ HeapRight(m2, S, B, Owned(g))
      /\ ObjectsIn(m2, S, B) = ObjectsIn(m, S, B)
      /\ Shut(m2, ObjectsIn(m2, S, B))
      /\ \A a \in B : m2[a] = m[a] /\ Size(m2, S, a) = Size(m, S, a)
      /\ \A a \in B \ {v} : m2[a + 1] = m[a + 1]
      /\ m2[v + 1] = y
  BY <1>1, <1>2, WriteHeap
<1>4. Heaps(m2, g, l, c, B, {})
  BY <1>1, <1>3, SameBlocks DEF S
<1>5. X \subseteq B
  BY <1>1 DEF ObjectsIn
<1>. QED
  BY <1>1, <1>3, <1>4, <1>5 DEF IsHeap, S

(* clearFreeList puts the sizes where they belong.                         *)
LEMMA ResizeStep ==
  ASSUME NEW m, NEW g, NEW l, NEW c, NEW B, NEW X, IsHeap(m, g, l, c, B, {}, X), Shut(m, X),
         NEW t \in Threads, c[t] = "clear",
         NEW c2, c2[t] = "idle", \A u \in Threads \ {t} : c2[u] = c[u],
         NEW m2, m2 = Resized(m, Range(l[t]))
  PROVE  IsHeap(m2, g, l, c2, B, {}, X) /\ Carries(m, m2, X)
<1>. DEFINE S == Nodes(l, c)
            R == Nodes(l, c2)
            N == Range(l[t])
            K == B \intersect HeapOf(g, t)
<1>1. Heaps(m, g, l, c, B, {}) /\ X = ObjectsIn(m, S, B) /\ HeapRight(m, S, B, Owned(g))
      /\ Owners(g) /\ l \in [Threads -> Seq(Words)] /\ Shut(m, ObjectsIn(m, S, B))
  BY DEF IsHeap, Heaps
<1>2. N \subseteq S
  BY DEF Nodes, Sweepy
<1>3. R = S \ N
  <2>1. \A u \in Threads \ {t} : Range(l[u]) \intersect N = {}
    <3>1. \A u \in Threads : Range(l[u]) \subseteq HeapOf(g, u)
      BY <1>1, ThreadBlocks
    <3>2. \A u \in Threads \ {t} : HeapOf(g, u) \intersect HeapOf(g, t) = {}
      BY <1>1, HeapsApart
    <3>. QED
      BY <3>1, <3>2
  <2>2. \A u \in Threads : c2[u] \in Sweepy <=> c[u] \in Sweepy /\ u # t
    BY DEF Sweepy
  <2>. QED
    BY <2>1, <2>2 DEF Nodes
<1>5. /\ IsInjective(l[t]) /\ N \subseteq K /\ \A a \in K \ N : m[a] # 0
      /\ \A a \in N : a + Size(m, S, a) \notin N
  <2>1. ListRight(m, S, K \ {}, l[t], c[t])
    BY <1>1 DEF Heaps
  <2>. QED
    BY <2>1 DEF ListRight
<1>. HIDE DEF S, R, N, K
<1>6. m2 = Resized(m, N)
  BY DEF N
<1>7. HasSizes(m, S, B, Owned(g), N, R, m2)
  BY <1>1, <1>2, <1>3, <1>6, ResizeHeap
<1>8. /\ \A a \in B \ N : m2[a] = m[a] /\ m2[a + 1] = m[a + 1]
      /\ \A a \in N : m2[a] = 0
      /\ \A a \in B : Size(m2, R, a) = Size(m, S, a)
  BY <1>7 DEF HasSizes
<1>9. ListRight(m2, R, K, l[t], "idle")
  <2>1. K \subseteq B
    BY DEF K
  <2>. QED
    BY <1>5, <1>8, <2>1 DEF ListRight, N
<1>10. OnlyOf(t, m, g, l, c, B, {}, m2, g, l, c2, B, {})
  <2>1. ASSUME NEW u \in Threads \ {t}, NEW a \in HeapOf(g, u), a \in B
        PROVE  m2[a] = m[a] /\ Size(m2, R, a) = Size(m, S, a)
    <3>1. a \notin N
      BY <1>1, <1>5, HeapsApart DEF K
    <3>. QED
      BY <1>8, <2>1, <3>1
  <2>. QED
    BY <2>1 DEF OnlyOf, R, S
<1>11. Heaps(m2, g, l, c2, B, {})
  <2>1. ListRight(m2, Nodes(l, c2), (B \intersect HeapOf(g, t)) \ {}, l[t], c2[t])
    <3>1. (B \intersect HeapOf(g, t)) \ {} = K
      BY DEF K
    <3>. QED
      BY <1>9, <3>1 DEF R
  <2>2. HeapRight(m2, Nodes(l, c2), B, Owned(g))
    BY <1>7 DEF R, HasSizes
  <2>. QED
    BY <1>1, <1>10, <2>1, <2>2, OwnStep
<1>12. Keep(m, m2, X)
  <2>1. \A a \in X : a \in B /\ a \notin N
    BY <1>1, <1>2 DEF ObjectsIn
  <2>. QED
    BY <1>8, <2>1 DEF Keep
<1>. QED
  BY <1>1, <1>7, <1>11, <1>12 DEF IsHeap, Carries, R, HasSizes

-----------------------------------------------------------------------------
(***************************************************************************)
(* The sweep of one thread.                                                *)
(***************************************************************************)
\* t's sweep passes the block e, which is all that changes in its part c of the
\* collection and in what is unswept, U.
Passes(t, m, g, l, c, B, U, e, c2, U2) ==
    /\ c[t] = "sweep" /\ c2[t] \in {"sweep", "swept"}
    /\ \A u \in Threads \ {t} : c2[u] = c[u]
    /\ e \in B /\ e \in HeapOf(g, t) /\ e \in U
    /\ \A a \in B : a \in U2 <=> a \in U /\ a # e
    /\ e + Size(m, Nodes(l, c), e) \in B => e + Size(m, Nodes(l, c), e) \in U

(* The sweep passes an object that survives.                               *)
LEMMA SkipStep ==
  ASSUME NEW m, NEW g, NEW l, NEW c, NEW B, NEW U, NEW X, IsHeap(m, g, l, c, B, U, X),
         NEW t \in Threads, NEW e, NEW c2, NEW U2, Passes(t, m, g, l, c, B, U, e, c2, U2), m[e] # 0
  PROVE  IsHeap(m, g, l, c2, B, U2, X) /\ Nodes(l, c2) = Nodes(l, c)
<1>. DEFINE S == Nodes(l, c)
<1>1. Heaps(m, g, l, c, B, U) /\ X = ObjectsIn(m, S, B) /\ HeapRight(m, S, B, Owned(g))
      /\ Owners(g) /\ l \in [Threads -> Seq(Words)]
  BY DEF IsHeap, Heaps
<1>2. /\ c[t] = "sweep" /\ c2[t] \in {"sweep", "swept"}
      /\ \A u \in Threads \ {t} : c2[u] = c[u]
      /\ e \in B /\ e \in HeapOf(g, t) /\ e \in U
      /\ \A a \in B : a \in U2 <=> a \in U /\ a # e
  BY DEF Passes
<1>3. Nodes(l, c2) = S
  <2>1. \A u \in Threads : c2[u] \in Sweepy <=> c[u] \in Sweepy
    BY <1>2 DEF Sweepy
  <2>. QED
    BY <2>1 DEF Nodes
<1>. HIDE DEF S
<1>4. ListRight(m, S, (B \intersect HeapOf(g, t)) \ U2, l[t], c2[t])
  <2>1. ListRight(m, S, (B \intersect HeapOf(g, t)) \ U, l[t], c[t])
    BY <1>1 DEF Heaps, S
  <2>2. (B \intersect HeapOf(g, t)) \ U2 = ((B \intersect HeapOf(g, t)) \ U) \union {e}
    BY <1>2
  <2>. DEFINE K == (B \intersect HeapOf(g, t)) \ U
  <2>. HIDE DEF K
  <2>3. ListRight(m, S, K, l[t], c[t])
    BY <2>1 DEF K
  <2>4. ListRight(m, S, K \union {e}, l[t], c2[t])
    BY <1>2, <2>3 DEF ListRight
  <2>. QED
    BY <2>2, <2>4 DEF K
<1>5. OnlyOf(t, m, g, l, c, B, U, m, g, l, c2, B, U2)
  <2>1. ASSUME NEW u \in Threads \ {t}, NEW a \in HeapOf(g, u) PROVE a \in B \ U2 <=> a \in B \ U
    <3>1. a # e
      BY <1>1, <1>2, HeapsApart
    <3>. QED
      BY <1>2, <3>1
  <2>. QED
    BY <1>2, <1>3, <2>1 DEF OnlyOf, S
<1>6. Heaps(m, g, l, c2, B, U2)
  <2>1. ListRight(m, Nodes(l, c2), (B \intersect HeapOf(g, t)) \ U2, l[t], c2[t])
    BY <1>3, <1>4
  <2>2. HeapRight(m, Nodes(l, c2), B, Owned(g))
    BY <1>1, <1>3
  <2>. QED
    BY <1>1, <1>5, <2>1, <2>2, OwnStep
<1>. QED
  BY <1>1, <1>3, <1>6 DEF IsHeap, S

(* Everybody begins to sweep: free lists are empty, and all is unswept.    *)
LEMMA StartStep ==
  ASSUME NEW m, NEW g, NEW l, NEW c, NEW B, NEW X, IsHeap(m, g, l, c, B, {}, X),
         \A t \in Threads : c[t] = "idle",
         NEW l2, l2 = [t \in Threads |-> <<>>],
         NEW c2, \A t \in Threads : c2[t] \in {"sweep", "swept"},
         NEW U2, B \subseteq U2
  PROVE  IsHeap(m, g, l2, c2, B, U2, X)
<1>1. Heaps(m, g, l, c, B, {}) /\ X = ObjectsIn(m, Nodes(l, c), B)
      /\ HeapRight(m, Nodes(l, c), B, Owned(g)) /\ Owners(g)
  BY DEF IsHeap, Heaps
<1>2. Nodes(l, c) = {}
  BY DEF Nodes, Sweepy
<1>3. <<>> \in Seq(Words) /\ Range(<<>>) = {} /\ IsInjective(<<>>)
  BY DEF Range, IsInjective
<1>4. l2 \in [Threads -> Seq(Words)] /\ \A t \in Threads : Range(l2[t]) = {} /\ IsInjective(l2[t])
  BY <1>3
<1>5. Nodes(l2, c2) = {}
  BY <1>4 DEF Nodes
<1>6. ASSUME NEW t \in Threads
      PROVE  ListRight(m, {}, (B \intersect HeapOf(g, t)) \ U2, l2[t], c2[t])
  <2>1. (B \intersect HeapOf(g, t)) \ U2 = {}
    OBVIOUS
  <2>2. ListRight(m, {}, {}, l2[t], c2[t])
    BY <1>4 DEF ListRight
  <2>. QED
    BY <2>1, <2>2
<1>7. Heaps(m, g, l2, c2, B, U2)
  BY <1>1, <1>2, <1>4, <1>5, <1>6 DEF Heaps
<1>. QED
  BY <1>1, <1>2, <1>5, <1>7 DEF IsHeap

Appended(l, t, e) == [l EXCEPT ![t] = Append(l[t], e)]

\* What may be kept of the objects X when the block e becomes free.
Survive(m, L, X, e) == L \subseteq X \ {e} /\ Shut(m, L) /\ DD \in L /\ D \in L

\* The sweep has made m2, l2 of m, l, in which e is a free block.
Freed(t, m, g, l, c, B, U, X, L, e, m2, l2, c2, U2) ==
    /\ IsHeap(m2, g, l2, c2, B, U2, X \ {e})
    /\ Carries(m, m2, L)
    /\ Range(l2[t]) = Range(l[t]) \union {e} /\ \A u \in Threads \ {t} : l2[u] = l[u]
    /\ \A a \in B : Size(m2, Nodes(l2, c2), a) = Size(m, Nodes(l, c), a)
    /\ \A a \in B \ {e} : m2[a] = m[a]
    /\ m2[e] = Size(m, Nodes(l, c), e)

(* The sweep makes a block of a dead object, or one it found free, a node. *)
LEMMA FreeStep ==
  ASSUME NEW m, NEW g, NEW l, NEW c, NEW B, NEW U, NEW X, IsHeap(m, g, l, c, B, U, X),
         NEW t \in Threads, NEW e, NEW c2, NEW U2, Passes(t, m, g, l, c, B, U, e, c2, U2),
         \A a \in Range(l[t]) : a + m[a] # e,
         NEW L, Survive(m, L, X, e),
         NEW m2, m2 = Put(m, e, Size(m, Nodes(l, c), e)), NEW l2, l2 = Appended(l, t, e)
  PROVE  Freed(t, m, g, l, c, B, U, X, L, e, m2, l2, c2, U2)
<1>. DEFINE S == Nodes(l, c)
            R == Nodes(l2, c2)
            H == HeapOf(g, t)
            s == l[t]
            s2 == l2[t]
<1>1. Heaps(m, g, l, c, B, U) /\ X = ObjectsIn(m, S, B) /\ HeapRight(m, S, B, Owned(g))
      /\ Owners(g) /\ l \in [Threads -> Seq(Words)]
  BY DEF IsHeap, Heaps
<1>2. /\ c[t] = "sweep" /\ c2[t] \in {"sweep", "swept"}
      /\ \A u \in Threads \ {t} : c2[u] = c[u]
      /\ e \in B /\ e \in H /\ e \in U
      /\ \A a \in B : a \in U2 <=> a \in U /\ a # e
      /\ e + Size(m, S, e) \in B => e + Size(m, S, e) \in U
  BY DEF Passes
<1>3. L \subseteq X \ {e} /\ Shut(m, L) /\ DD \in L /\ D \in L
  BY DEF Survive
<1>4. /\ B \subseteq Words /\ s \in Seq(Words) /\ Range(s) \subseteq B /\ Range(s) \subseteq H
      /\ Range(s) \intersect U = {}
      /\ \A a \in H : a \in S <=> a \in Range(s)
  <2>1. c[t] \in Sweepy
    BY <1>2 DEF Sweepy
  <2>. QED
    BY <1>1, <2>1, ThreadBlocks
<1>5. e \notin Range(s) /\ e \notin S
  BY <1>2, <1>4
<1>6. s2 = Append(s, e) /\ \A u \in Threads \ {t} : l2[u] = l[u]
  BY <1>1 DEF Appended
<1>7. IsInjective(s) /\ (\A a \in (B \intersect H) \ U : a \notin Range(s) => m[a] # 0)
      /\ \A a \in Range(s) : a + Size(m, S, a) \notin Range(s)
  <2>1. ListRight(m, S, (B \intersect H) \ U, s, c[t])
    BY <1>1 DEF Heaps
  <2>. QED
    BY <2>1 DEF ListRight
<1>8. s2 \in Seq(Words) /\ IsInjective(s2) /\ Range(s2) = Range(s) \union {e}
  <2>1. e \in Words /\ e \notin Range(s) /\ IsInjective(s) /\ s \in Seq(Words)
    BY <1>2, <1>4, <1>5, <1>7
  <2>. HIDE DEF s, s2
  <2>. QED
    BY <1>6, <2>1, AppendElement
<1>9. l2 \in [Threads -> Seq(Words)]
  <2>1. l2 = [l EXCEPT ![t] = s2]
    BY <1>6 DEF Appended
  <2>. HIDE DEF s2
  <2>. QED
    BY <1>1, <1>8, <2>1
<1>10. R = S \union {e}
  <2>1. \A u \in Threads : c2[u] \in Sweepy <=> c[u] \in Sweepy
    BY <1>2 DEF Sweepy
  <2>2. c[t] \in Sweepy
    BY <1>2 DEF Sweepy
  <2>3. \A a : a \in R <=> \E u \in Threads : c[u] \in Sweepy /\ a \in Range(l2[u])
    BY <2>1 DEF Nodes
  <2>4. \A a : a \in S <=> \E u \in Threads : c[u] \in Sweepy /\ a \in Range(l[u])
    BY DEF Nodes
  <2>5. \A a, u : u \in Threads => (a \in Range(l2[u]) <=> a \in Range(l[u]) \/ (u = t /\ a = e))
    BY <1>6, <1>8
  <2>. HIDE DEF S, R
  <2>6. \A a : a \in R <=> a \in S \/ a = e
    BY <2>2, <2>3, <2>4, <2>5
  <2>. QED
    BY <2>6
<1>. HIDE DEF S, R, H, s, s2
<1>11. e \in B \ S /\ L \in SUBSET (ObjectsIn(m, S, B) \ {e})
       /\ Shut(m, L) /\ DD \in L /\ D \in L /\ m2 = Put(m, e, Size(m, S, e))
  BY <1>1, <1>2, <1>3, <1>5 DEF S
<1>12. HasFree(m, S, B, Owned(g), e, L, R, m2)
  BY <1>1, <1>10, <1>11, FreeHeap
<1>13. HeapRight(m2, R, B, Owned(g)) /\ ObjectsIn(m2, R, B) = ObjectsIn(m, S, B) \ {e}
  BY <1>12 DEF HasFree
<1>14. Shut(m2, L)
  BY <1>12 DEF HasFree
<1>15. \A a \in B \ {e} : m2[a] = m[a]
  BY <1>12 DEF HasFree
<1>16. ASSUME NEW a \in B PROVE m2[a + 1] = m[a + 1] /\ Size(m2, R, a) = Size(m, S, a)
  BY <1>12 DEF HasFree
<1>17. m2[e] = Size(m, S, e)
  <2>1. Size(m2, R, e) = m2[e]
    BY <1>10 DEF Size
  <2>. QED
    BY <1>2, <1>16, <2>1
<1>18. ListRight(m2, R, (B \intersect H) \ U2, s2, c2[t])
  <2>1. \A a \in (B \intersect H) \ U2 : a = e \/ a \in (B \intersect H) \ U
    BY <1>2
  <2>2. Range(s2) \subseteq (B \intersect H) \ U2
    BY <1>2, <1>4, <1>8
  <2>3. ASSUME NEW a \in (B \intersect H) \ U2, a \notin Range(s2) PROVE m2[a] # 0
    <3>1. a # e /\ a \in (B \intersect H) \ U /\ a \notin Range(s)
      BY <1>8, <2>1, <2>3
    <3>. QED
      BY <1>7, <1>15, <3>1
  <2>4. ASSUME NEW a \in Range(s2) PROVE a + Size(m2, R, a) \notin Range(s2)
    <3>1. CASE a = e
      <4>1. Size(m2, R, a) = Size(m, S, e)
        BY <1>2, <1>16, <3>1
      <4>2. e + Size(m, S, e) \notin Range(s)
        BY <1>2, <1>4
      <4>3. e + Size(m, S, e) # e
        BY <1>1, <1>2, FirstWords
      <4>. QED
        BY <1>8, <3>1, <4>1, <4>2, <4>3
    <3>2. CASE a \in Range(s)
      <4>1. a \in B /\ Size(m2, R, a) = Size(m, S, a)
        BY <1>4, <1>16, <3>2
      <4>2. Size(m, S, a) = m[a]
        BY <1>4, <3>2 DEF Size
      <4>3. a + Size(m, S, a) # e
        BY <3>2, <4>2 DEF s
      <4>. QED
        BY <1>7, <1>8, <3>2, <4>1, <4>3
    <3>. QED
      BY <1>8, <3>1, <3>2
  <2>5. c2[t] # "idle"
    BY <1>2
  <2>. QED
    BY <1>8, <2>2, <2>3, <2>4, <2>5 DEF ListRight
<1>19. OnlyOf(t, m, g, l, c, B, U, m2, g, l2, c2, B, U2)
  <2>1. ASSUME NEW u \in Threads \ {t}, NEW a \in HeapOf(g, u)
        PROVE  /\ a \in B \ U2 <=> a \in B \ U
               /\ a \in B => m2[a] = m[a] /\ Size(m2, R, a) = Size(m, S, a)
    <3>1. a # e
      BY <1>1, <1>2, HeapsApart DEF H
    <3>. QED
      BY <1>2, <1>15, <1>16, <3>1
  <2>. QED
    BY <1>2, <1>6, <2>1 DEF OnlyOf, R, S
<1>20. Heaps(m2, g, l2, c2, B, U2)
  <2>1. ListRight(m2, Nodes(l2, c2), (B \intersect HeapOf(g, t)) \ U2, l2[t], c2[t])
    BY <1>18 DEF R, H, s2
  <2>2. HeapRight(m2, Nodes(l2, c2), B, Owned(g))
    BY <1>13 DEF R
  <2>. QED
    BY <1>1, <1>9, <1>19, <2>1, <2>2, OwnStep
<1>21. Keep(m, m2, L)
  <2>1. \A a \in L : a \in B \ {e}
    BY <1>1, <1>3 DEF ObjectsIn
  <2>. QED
    BY <1>15, <1>16, <2>1 DEF Keep
<1>22. IsHeap(m2, g, l2, c2, B, U2, X \ {e}) /\ Carries(m, m2, L)
  BY <1>1, <1>13, <1>14, <1>20, <1>21 DEF IsHeap, Carries, R
<1>. QED
  BY <1>6, <1>8, <1>15, <1>16, <1>17, <1>22 DEF Freed, R, S, s, s2

\* The sweep has made m2 of m, in which the node n has the block e too.
Merged(t, m, g, l, c, B, U, X, L, n, e, m2, c2, U2) ==
    /\ IsHeap(m2, g, l, c2, B \ {e}, U2, X \ {e})
    /\ Carries(m, m2, L)
    /\ \A a \in B \ {e, n} : m2[a] = m[a] /\ Size(m2, Nodes(l, c2), a) = Size(m, Nodes(l, c), a)
    /\ Size(m2, Nodes(l, c2), n) = Size(m, Nodes(l, c), n) + Size(m, Nodes(l, c), e)
    /\ Size(m2, Nodes(l, c2), n) = m2[n]

(* The sweep adds a block to the node in front of it.                      *)
LEMMA MergeStep ==
  ASSUME NEW m, NEW g, NEW l, NEW c, NEW B, NEW U, NEW X, IsHeap(m, g, l, c, B, U, X),
         NEW t \in Threads, NEW e, NEW c2, NEW U2, Passes(t, m, g, l, c, B, U, e, c2, U2),
         NEW n \in Range(l[t]), e = n + m[n],
         NEW L, Survive(m, L, X, e),
         NEW m2, m2 = Put(m, n, m[n] + Size(m, Nodes(l, c), e))
  PROVE  Merged(t, m, g, l, c, B, U, X, L, n, e, m2, c2, U2)
<1>. DEFINE S == Nodes(l, c)
            H == HeapOf(g, t)
            s == l[t]
            C == B \ {e}
<1>1. Heaps(m, g, l, c, B, U) /\ X = ObjectsIn(m, S, B) /\ HeapRight(m, S, B, Owned(g))
      /\ Owners(g) /\ l \in [Threads -> Seq(Words)]
  BY DEF IsHeap, Heaps
<1>2. /\ c[t] = "sweep" /\ c2[t] \in {"sweep", "swept"}
      /\ \A u \in Threads \ {t} : c2[u] = c[u]
      /\ e \in B /\ e \in H /\ e \in U
      /\ \A a \in B : a \in U2 <=> a \in U /\ a # e
      /\ e + Size(m, S, e) \in B => e + Size(m, S, e) \in U
  BY DEF Passes
<1>3. L \subseteq X \ {e} /\ Shut(m, L) /\ DD \in L /\ D \in L
  BY DEF Survive
<1>4. /\ Range(s) \subseteq B /\ Range(s) \subseteq H
      /\ Range(s) \intersect U = {}
      /\ \A a \in H : a \in S <=> a \in Range(s)
  <2>1. c[t] \in Sweepy
    BY <1>2 DEF Sweepy
  <2>. QED
    BY <1>1, <2>1, ThreadBlocks
<1>5. e \notin Range(s) /\ e \notin S /\ n \in S /\ n # e
  BY <1>2, <1>4
<1>6. Nodes(l, c2) = S
  <2>1. \A u \in Threads : c2[u] \in Sweepy <=> c[u] \in Sweepy
    BY <1>2 DEF Sweepy
  <2>. QED
    BY <2>1 DEF Nodes
<1>7. IsInjective(s) /\ (\A a \in (B \intersect H) \ U : a \notin Range(s) => m[a] # 0)
      /\ \A a \in Range(s) : a + Size(m, S, a) \notin Range(s)
  <2>1. ListRight(m, S, (B \intersect H) \ U, s, c[t])
    BY <1>1 DEF Heaps
  <2>. QED
    BY <2>1 DEF ListRight
<1>. HIDE DEF S, H, s, C
<1>8. HasMerged(m, S, B, Owned(g), n, e, L, C, m2)
  <2>1. n \in S /\ e \in B \ S /\ L \in SUBSET (ObjectsIn(m, S, B) \ {e})
        /\ Shut(m, L) /\ DD \in L /\ D \in L /\ m2 = Put(m, n, m[n] + Size(m, S, e))
    BY <1>1, <1>2, <1>3, <1>5 DEF S
  <2>2. C = B \ {e}
    BY DEF C
  <2>. QED
    BY <1>1, <2>1, <2>2, MergeHeap
<1>9. HeapRight(m2, S, C, Owned(g)) /\ ObjectsIn(m2, S, C) = ObjectsIn(m, S, B) \ {e} /\ Shut(m2, L)
  BY <1>8 DEF HasMerged
<1>10. /\ \A a \in C \ {n} : m2[a] = m[a] /\ Size(m2, S, a) = Size(m, S, a)
       /\ \A a \in C : m2[a + 1] = m[a + 1]
       /\ Size(m2, S, n) = Size(m, S, n) + Size(m, S, e)
       /\ m2[n] # 0
  BY <1>8 DEF HasMerged
<1>11. n + Size(m, S, n) = e /\ n \in Nat /\ Size(m, S, n) \in Nat /\ Size(m, S, e) \in Nat /\ e \in Nat
       /\ n \in B
  <2>1. n \in B /\ Size(m, S, n) = m[n]
    BY <1>4, <1>5 DEF Size, s
  <2>. QED
    BY <1>1, <1>2, <2>1, FirstWords
<1>12. ListRight(m2, S, (C \intersect H) \ U2, s, c2[t])
  <2>1. \A a \in C : a \in U2 <=> a \in U
    BY <1>2 DEF C
  <2>2. Range(s) \subseteq (C \intersect H) \ U2
    BY <1>4, <1>5, <2>1 DEF C
  <2>3. ASSUME NEW a \in (C \intersect H) \ U2, a \notin Range(s) PROVE m2[a] # 0
    <3>1. a \in (B \intersect H) \ U /\ a # n
      BY <2>1, <2>3 DEF C, s
    <3>. QED
      BY <1>7, <1>10, <2>3, <3>1
  <2>4. ASSUME NEW a \in Range(s) PROVE a + Size(m2, S, a) \notin Range(s)
    <3>1. CASE a = n
      <4>1. a + Size(m2, S, a) = e + Size(m, S, e)
        BY <1>10, <1>11, <3>1
      <4>. QED
        BY <1>2, <1>4, <4>1
    <3>2. CASE a # n
      <4>1. Size(m2, S, a) = Size(m, S, a)
        BY <1>10, <2>2, <3>2
      <4>. QED
        BY <1>7, <4>1
    <3>. QED
      BY <3>1, <3>2
  <2>5. c2[t] # "idle"
    BY <1>2
  <2>. QED
    BY <1>7, <2>2, <2>3, <2>4, <2>5 DEF ListRight
<1>13. OnlyOf(t, m, g, l, c, B, U, m2, g, l, c2, C, U2)
  <2>1. ASSUME NEW u \in Threads \ {t}, NEW a \in HeapOf(g, u)
        PROVE  /\ a \in C \ U2 <=> a \in B \ U
               /\ a \in B => m2[a] = m[a] /\ Size(m2, S, a) = Size(m, S, a)
    <3>1. a # e /\ a # n
      BY <1>1, <1>2, <1>4, HeapsApart DEF H, s
    <3>. QED
      BY <1>2, <1>10, <3>1 DEF C
  <2>. QED
    BY <1>2, <1>6, <2>1 DEF OnlyOf, S
<1>14. Heaps(m2, g, l, c2, C, U2)
  <2>1. ListRight(m2, Nodes(l, c2), (C \intersect HeapOf(g, t)) \ U2, l[t], c2[t])
    BY <1>6, <1>12 DEF H, s
  <2>2. HeapRight(m2, Nodes(l, c2), C, Owned(g))
    BY <1>6, <1>9
  <2>. QED
    BY <1>1, <1>13, <2>1, <2>2, OwnStep
<1>15. Carries(m, m2, L)
  <2>1. \A a \in L : a \in C \ {n}
    BY <1>1, <1>3, <1>5 DEF ObjectsIn, C
  <2>. QED
    BY <1>9, <1>10, <2>1 DEF Keep, Carries
<1>16. IsHeap(m2, g, l, c2, C, U2, X \ {e})
  BY <1>1, <1>6, <1>9, <1>14 DEF IsHeap
<1>17. Size(m2, S, n) = m2[n]
  BY <1>5 DEF Size
<1>. QED
  BY <1>6, <1>10, <1>15, <1>16, <1>17 DEF Merged, C, S

-----------------------------------------------------------------------------
(***************************************************************************)
(* What is still to be swept.                                              *)
(***************************************************************************)
\* The words of the pools ps that a sweep at the word w of the ith has to sweep.
Rest(ps, i, w) ==
    {a \in Words : \E j \in DOMAIN ps : a \in Area(ps[j]) /\ (j > i \/ (j = i /\ a >= w))}

\* For c, p and w see gc, pool and cur.
Unswept(g, c, p, w) == UNION {Rest(g[t], p[t], w[t]) : t \in {u \in Threads : c[u] = "sweep"}}

(* A word is in one pool.                                                  *)
LEMMA RestFacts ==
  ASSUME NEW ps \in Seq(Pools), IsInjective(ps), NEW j \in DOMAIN ps, NEW a \in Area(ps[j]),
         NEW i, NEW w
  PROVE  a \in Rest(ps, i, w) <=> (j > i \/ (j = i /\ a >= w))
<1>1. \A k \in DOMAIN ps : ps[k] \in Pools
  OBVIOUS
<1>2. a \in Words
  BY <1>1, PoolsApart
<1>3. \A k \in DOMAIN ps : a \in Area(ps[k]) => k = j
  BY <1>1, PoolFacts DEF IsInjective
<1>. QED
  BY <1>2, <1>3 DEF Rest

(* What is unswept of a thread's heap is what its own sweep has before it. *)
LEMMA UnsweptFacts ==
  ASSUME NEW g, Owners(g), NEW c, NEW p, NEW w, NEW t \in Threads, NEW a \in HeapOf(g, t)
  PROVE  a \in Unswept(g, c, p, w) <=> c[t] = "sweep" /\ a \in Rest(g[t], p[t], w[t])
<1>1. ASSUME NEW u \in Threads, a \in Rest(g[u], p[u], w[u]) PROVE u = t
  <2>1. PICK j \in DOMAIN g[u] : a \in Area(g[u][j])
    BY <1>1 DEF Rest
  <2>2. a \in HeapOf(g, u)
    BY <2>1 DEF HeapOf, Inside, Range
  <2>. QED
    BY <2>2, HeapsApart
<1>. QED
  BY <1>1 DEF Unswept

\* The sweep of the pools ps goes from the ith to a, and is then at b in the jth
\* or over, as c says.
Moves(ps, i, a, c, j, b) ==
    \/ a < End(ps[i]) /\ c = "sweep" /\ j = i /\ b = a
    \/ a >= End(ps[i]) /\ i < Len(ps) /\ c = "sweep" /\ j = i + 1 /\ b = First(ps[i + 1])
    \/ a >= End(ps[i]) /\ i >= Len(ps) /\ c = "swept"

\* The sweep is at a block in the ith of ps.
At(ps, B, i, w) == i \in DOMAIN ps /\ w \in B /\ w \in Area(ps[i])

(* The sweep goes from block to block.                                     *)
LEMMA MoveFacts ==
  ASSUME NEW m, NEW S, NEW B, NEW rs, HeapRight(m, S, B, rs),
         NEW ps \in Seq(Pools), IsInjective(ps), Range(ps) \subseteq rs,
         NEW i, NEW w, At(ps, B, i, w), NEW c, NEW j, NEW b,
         Moves(ps, i, w + Size(m, S, w), c, j, b)
  PROVE  /\ c \in {"sweep", "swept"}
         /\ c = "sweep" => At(ps, B, j, b) /\ b # w
                           /\ (b = w + Size(m, S, w) \/ \E q \in Pools : b = First(q))
         /\ w + Size(m, S, w) \in B => w + Size(m, S, w) \in Rest(ps, i, w)
         /\ \A a \in B \intersect Inside(Range(ps)) :
              (c = "sweep" /\ a \in Rest(ps, j, b)) <=> (a \in Rest(ps, i, w) /\ a # w)
<1>. DEFINE z == SizesOf(m, S, B)
            n == Len(ps)
            e == w + Size(m, S, w)
<1>1. /\ i \in 1 .. n /\ n \in Nat /\ DOMAIN ps = 1 .. n /\ w \in B /\ w \in Area(ps[i])
      /\ \A k \in 1 .. n : ps[k] \in Pools /\ ps[k] \in rs
  BY DEF At, Range
<1>2. Tiles(z, B, rs) /\ \A a \in B : z[a] = Size(m, S, a)
  BY DEF HeapRight, SizesOf
<1>. HIDE DEF z, n
<1>3. /\ \A a \in B : a \in Nat /\ z[a] \in Nat /\ z[a] >= 3
      /\ \A a, d \in B : a # d => a + z[a] <= d \/ d + z[d] <= a
  BY <1>2, TileSizes
<1>4. /\ \A p \in rs : First(p) \in B
      /\ \A p \in rs : \A a \in B \intersect Area(p) :
            a + z[a] <= End(p) /\ (a + z[a] = End(p) \/ a + z[a] \in B)
  BY <1>2 DEF Tiles
<1>5. e = w + z[w] /\ w \in Nat /\ e \in Nat /\ w < e
  BY <1>1, <1>2, <1>3
<1>6. e <= End(ps[i]) /\ (e = End(ps[i]) \/ e \in B)
  BY <1>1, <1>4, <1>5
<1>7. /\ First(ps[i]) \in Nat /\ End(ps[i]) \in Nat
      /\ First(ps[i]) <= w /\ w < End(ps[i]) /\ First(ps[i]) < End(ps[i])
  BY <1>1, PoolFacts
<1>8. e < End(ps[i]) => e \in B /\ e \in Area(ps[i])
  BY <1>5, <1>6, <1>7 DEF Area
<1>. HIDE DEF e
<1>9. /\ c \in {"sweep", "swept"}
      /\ e >= End(ps[i]) => e = End(ps[i])
  BY <1>5, <1>6, <1>7 DEF Moves, e
<1>10. e \notin B \/ e < End(ps[i])
  <2>1. ASSUME e = End(ps[i]), e \in B PROVE FALSE
    <3>1. PICK p \in rs : e \in Area(p)
      BY <1>2, <2>1 DEF Tiles, Inside
    <3>2. rs \subseteq Pools /\ ps[i] \in Pools
      BY <1>1, <1>2 DEF Tiles
    <3>3. p = ps[i]
      BY <2>1, <3>1, <3>2, PoolFacts
    <3>. QED
      BY <1>7, <2>1, <3>1, <3>2, <3>3, PoolFacts
  <2>. QED
    BY <1>5, <1>6, <1>7, <2>1
<1>11. \A k \in 1 .. n : \A a \in Area(ps[k]) : a \in Rest(ps, i, w) <=> (k > i \/ (k = i /\ a >= w))
  BY <1>1, RestFacts
<1>12. e \in B => e \in Rest(ps, i, w)
  <2>1. e >= w
    BY <1>5
  <2>. QED
    BY <1>1, <1>8, <1>10, <1>11, <2>1
<1>13. c = "sweep" => At(ps, B, j, b) /\ b # w /\ (b = e \/ \E q \in Pools : b = First(q))
  <2>1. CASE e < End(ps[i])
    <3>1. c = "sweep" => j = i /\ b = e
      BY <1>5, <1>7, <2>1 DEF Moves, e
    <3>. QED
      BY <1>1, <1>5, <1>8, <2>1, <3>1 DEF At
  <2>2. CASE e >= End(ps[i])
    <3>1. c = "sweep" => i < n /\ j = i + 1 /\ b = First(ps[i + 1])
      BY <1>5, <1>7, <2>2 DEF Moves, e, n
    <3>2. SUFFICES ASSUME c = "sweep" PROVE At(ps, B, j, b) /\ b # w /\ \E q \in Pools : b = First(q)
      OBVIOUS
    <3>3. j \in 1 .. n /\ j # i /\ b = First(ps[j])
      BY <1>1, <3>1, <3>2
    <3>4. ps[j] \in Pools /\ ps[j] \in rs /\ ps[i] \in Pools /\ ps[i] # ps[j]
      BY <1>1, <3>3 DEF IsInjective
    <3>5. b \in Area(ps[j]) /\ b \in B
      BY <1>4, <3>3, <3>4, PoolFacts
    <3>6. b # w
      BY <1>1, <3>4, <3>5, PoolFacts
    <3>. QED
      BY <1>1, <3>3, <3>4, <3>5, <3>6 DEF At
  <2>. QED
    BY <1>5, <1>7, <2>1, <2>2
<1>14. ASSUME NEW a \in B, a \in Inside(Range(ps))
       PROVE  (c = "sweep" /\ a \in Rest(ps, j, b)) <=> (a \in Rest(ps, i, w) /\ a # w)
  <2>1. PICK k \in 1 .. n : a \in Area(ps[k])
    BY <1>1, <1>14 DEF Inside, Range
  <2>2. a \in Rest(ps, i, w) <=> (k > i \/ (k = i /\ a >= w))
    BY <1>11, <2>1
  <2>3. a \in Rest(ps, j, b) <=> (k > j \/ (k = j /\ a >= b))
    BY <1>1, <2>1, RestFacts
  <2>4. a \in Nat /\ z[a] \in Nat /\ z[a] >= 3 /\ (a # w => a + z[a] <= w \/ w + z[w] <= a)
    BY <1>1, <1>3
  <2>5. (a >= w /\ a # w) <=> a >= e
    BY <1>5, <2>4
  <2>6. k = i => a < End(ps[i])
    BY <1>1, <2>1, PoolFacts
  <2>7. k # i => a # w
    <3>1. SUFFICES ASSUME k # i PROVE a # w
      OBVIOUS
    <3>2. ps[k] \in Pools /\ ps[i] \in Pools /\ ps[i] # ps[k]
      BY <1>1, <3>1 DEF IsInjective
    <3>. QED
      BY <1>1, <2>1, <3>2, PoolFacts
  <2>8. (a \in Rest(ps, i, w) /\ a # w) <=> (k > i \/ (k = i /\ a >= e))
    BY <1>1, <2>2, <2>5, <2>7
  <2>9. CASE e < End(ps[i])
    <3>1. c = "sweep" /\ j = i /\ b = e
      BY <1>5, <1>7, <2>9 DEF Moves, e
    <3>. QED
      BY <2>3, <2>8, <3>1
  <2>10. CASE e >= End(ps[i])
    <3>1. (a \in Rest(ps, i, w) /\ a # w) <=> k > i
      BY <1>1, <1>5, <1>7, <2>4, <2>6, <2>8, <2>10
    <3>2. CASE i < n
      <4>1. c = "sweep" /\ j = i + 1 /\ b = First(ps[i + 1])
        BY <1>1, <1>5, <1>7, <2>10, <3>2 DEF Moves, e, n
      <4>2. k = j => a >= b
        <5>1. i + 1 \in 1 .. n
          BY <1>1, <3>2
        <5>. QED
          BY <1>1, <2>1, <4>1, <5>1, PoolFacts
      <4>3. k > i <=> (k > j \/ k = j)
        BY <1>1, <4>1
      <4>. QED
        BY <2>3, <3>1, <4>1, <4>2, <4>3
    <3>3. CASE i >= n
      <4>1. c = "swept"
        BY <1>1, <1>5, <1>7, <2>10, <3>3 DEF Moves, e, n
      <4>2. ~ k > i
        BY <1>1, <3>3
      <4>. QED
        BY <3>1, <4>1, <4>2
    <3>. QED
      BY <1>1, <3>2, <3>3
  <2>. QED
    BY <1>5, <1>7, <2>9, <2>10
<1>. QED
  BY <1>9, <1>12, <1>13, <1>14 DEF e

(* Blocks that end at the same word are the same, and none ends where a    *)
(* pool begins.                                                            *)
LEMMA EndFacts ==
  ASSUME NEW m, NEW S, NEW B, NEW ps, HeapRight(m, S, B, ps)
  PROVE  /\ \A a, b \in B : a + Size(m, S, a) = b + Size(m, S, b) => a = b
         /\ \A a \in B : \A q \in Pools : a + Size(m, S, a) # First(q)
<1>. DEFINE z == SizesOf(m, S, B)
<1>1. Tiles(z, B, ps) /\ \A a \in B : z[a] = Size(m, S, a)
  BY DEF HeapRight, SizesOf
<1>. HIDE DEF z
<1>2. /\ \A a \in B : a \in Nat /\ z[a] \in Nat /\ z[a] >= 3
      /\ \A a, b \in B : a + z[a] = b + z[b] => a = b
  BY <1>1, TileSizes
<1>3. ASSUME NEW a \in B, NEW q \in Pools PROVE a + z[a] # First(q)
  <2>1. PICK p \in ps : a \in Area(p)
    BY <1>1 DEF Tiles, Inside
  <2>2. p \in Pools /\ a + z[a] <= End(p)
    BY <1>1, <2>1 DEF Tiles
  <2>3. /\ a \in Nat /\ First(p) <= a /\ First(p) \in Nat /\ End(p) \in Nat
        /\ First(q) \in Nat /\ End(q) \in Nat /\ First(q) < End(q)
    BY <2>1, <2>2, PoolFacts
  <2>4. p = q \/ End(p) < First(q) \/ End(q) < First(p)
    BY <2>2, PoolFacts
  <2>5. z[a] \in Nat /\ z[a] >= 3
    BY <1>2
  <2>. QED
    BY <2>2, <2>3, <2>4, <2>5
<1>. QED
  BY <1>1, <1>2, <1>3

\* The sweep has passed the block e and is, if it is not over, at another one:
\* at d, where e ended, or at the beginning of a pool.
Ahead(ps, B, e, d, c, i, w) ==
    c = "sweep" => At(ps, B, i, w) /\ w # e /\ (w = d \/ \E q \in Pools : w = First(q))

(* The sweep of a thread passes a block.                                   *)
LEMMA PassStep ==
  ASSUME NEW m, NEW g, NEW l, NEW c, NEW B, NEW p, NEW w, Heaps(m, g, l, c, B, Unswept(g, c, p, w)),
         NEW t \in Threads, c[t] = "sweep", At(g[t], B, p[t], w[t]),
         NEW c2, NEW p2, NEW w2,
         \A u \in Threads \ {t} : c2[u] = c[u] /\ p2[u] = p[u] /\ w2[u] = w[u],
         NEW d, d = w[t] + Size(m, Nodes(l, c), w[t]),
         Moves(g[t], p[t], d, c2[t], p2[t], w2[t])
  PROVE  /\ Passes(t, m, g, l, c, B, Unswept(g, c, p, w), w[t], c2, Unswept(g, c2, p2, w2))
         /\ Ahead(g[t], B, w[t], d, c2[t], p2[t], w2[t])
<1>. DEFINE S == Nodes(l, c)
            U == Unswept(g, c, p, w)
            U2 == Unswept(g, c2, p2, w2)
            ps == g[t]
            e == w[t]
<1>1. HeapRight(m, S, B, Owned(g)) /\ Owners(g) /\ B \subseteq Inside(Owned(g))
  <2>1. HeapRight(m, S, B, Owned(g)) /\ Owners(g)
    BY DEF Heaps
  <2>. QED
    BY <2>1 DEF HeapRight, Tiles
<1>2. ps \in Seq(Pools) /\ IsInjective(ps) /\ Range(ps) \subseteq Owned(g)
  BY <1>1 DEF Owners, Owned
<1>3. e \in B /\ e \in HeapOf(g, t) /\ p[t] \in DOMAIN ps /\ e \in Area(ps[p[t]])
  BY <1>2 DEF At, HeapOf, Inside, Range
<1>4. d = e + Size(m, S, e)
  OBVIOUS
<1>. HIDE DEF S, ps, e, U, U2
<1>5. At(ps, B, p[t], e) /\ Moves(ps, p[t], e + Size(m, S, e), c2[t], p2[t], w2[t])
  BY <1>4 DEF ps, e
<1>6. /\ c2[t] \in {"sweep", "swept"}
      /\ c2[t] = "sweep" => At(ps, B, p2[t], w2[t]) /\ w2[t] # e
                            /\ (w2[t] = d \/ \E q \in Pools : w2[t] = First(q))
  BY <1>1, <1>2, <1>4, <1>5, MoveFacts
<1>7. d \in B => d \in Rest(ps, p[t], e)
  BY <1>1, <1>2, <1>4, <1>5, MoveFacts
<1>8. \A a \in B \intersect Inside(Range(ps)) :
        (c2[t] = "sweep" /\ a \in Rest(ps, p2[t], w2[t])) <=> (a \in Rest(ps, p[t], e) /\ a # e)
  BY <1>1, <1>2, <1>5, MoveFacts
<1>9. \A a \in HeapOf(g, t) :
        /\ a \in U <=> a \in Rest(ps, p[t], e)
        /\ a \in U2 <=> c2[t] = "sweep" /\ a \in Rest(ps, p2[t], w2[t])
  BY <1>1, UnsweptFacts DEF U, U2, ps, e
<1>10. Inside(Range(ps)) = HeapOf(g, t)
  BY DEF HeapOf, ps
<1>11. ASSUME NEW a \in B PROVE a \in U2 <=> a \in U /\ a # e
  <2>1. PICK u \in Threads : a \in HeapOf(g, u)
    BY <1>1, HeapsApart
  <2>2. CASE u = t
    BY <1>8, <1>9, <1>10, <2>1, <2>2
  <2>3. CASE u # t
    <3>1. a # e
      BY <1>1, <1>3, <2>1, <2>3, HeapsApart
    <3>2. /\ a \in U <=> c[u] = "sweep" /\ a \in Rest(g[u], p[u], w[u])
          /\ a \in U2 <=> c2[u] = "sweep" /\ a \in Rest(g[u], p2[u], w2[u])
      BY <1>1, <2>1, UnsweptFacts DEF U, U2
    <3>. QED
      BY <2>3, <3>1, <3>2
  <2>. QED
    BY <2>2, <2>3
<1>12. e \in U
  <2>1. PICK i \in DOMAIN ps : i = p[t]
    BY <1>3
  <2>2. e \in Rest(ps, p[t], e) <=> (i > p[t] \/ (i = p[t] /\ e >= e))
    BY <1>2, <1>3, <2>1, RestFacts
  <2>3. e \in Nat
    BY <1>1, <1>3, FirstWords
  <2>. QED
    BY <1>3, <1>9, <2>1, <2>2, <2>3
<1>13. d \in B => d \in U
  <2>1. SUFFICES ASSUME d \in B PROVE d \in U
    OBVIOUS
  <2>2. d \in Rest(ps, p[t], e)
    BY <1>7, <2>1
  <2>3. d \in HeapOf(g, t)
    BY <1>10, <2>2 DEF Rest, Inside, Range
  <2>. QED
    BY <1>9, <2>2, <2>3
<1>14. Ahead(ps, B, e, d, c2[t], p2[t], w2[t])
  BY <1>6 DEF Ahead
<1>15. Passes(t, m, g, l, c, B, U, e, c2, U2)
  BY <1>3, <1>4, <1>6, <1>11, <1>12, <1>13 DEF Passes, S
<1>. QED
  BY <1>14, <1>15 DEF ps, e, U, U2

-----------------------------------------------------------------------------
(***************************************************************************)
(* Where sweeps are.                                                       *)
(***************************************************************************)
\* For p, w and f see pool, cur and lastFree.
Spot(m, ps, s, B, i, w, f) ==
    At(ps, B, i, w) /\ f \in Range(s) \union {0} /\ \A a \in Range(s) : a + m[a] = w => a = f

Spots(m, g, l, c, B, p, w, f) ==
    \A t \in Threads : c[t] = "sweep" => Spot(m, g[t], l[t], B, p[t], w[t], f[t])

\* t, and no other, sweeps on, or changes words of its heap.
Alone(t, m, g, l, c, B, p, w, f, m2, l2, c2, C, p2, w2, f2) ==
    /\ \A u \in Threads \ {t} :
         c2[u] = c[u] /\ p2[u] = p[u] /\ w2[u] = w[u] /\ f2[u] = f[u] /\ l2[u] = l[u]
    /\ \A a \in Words : a \notin HeapOf(g, t) => m2[a] = m[a] /\ (a \in B => a \in C)

(* Sweeps of others are where they were.                                   *)
LEMMA OtherSpots ==
  ASSUME NEW m, NEW g, NEW l, NEW c, NEW B, NEW p, NEW w, NEW f, Spots(m, g, l, c, B, p, w, f),
         Owners(g), \A u \in Threads : Range(l[u]) \subseteq HeapOf(g, u),
         NEW t \in Threads, NEW m2, NEW l2, NEW c2, NEW C, NEW p2, NEW w2, NEW f2,
         Alone(t, m, g, l, c, B, p, w, f, m2, l2, c2, C, p2, w2, f2),
         c2[t] = "sweep" => Spot(m2, g[t], l2[t], C, p2[t], w2[t], f2[t])
  PROVE  Spots(m2, g, l2, c2, C, p2, w2, f2)
<1>1. ASSUME NEW u \in Threads \ {t}, c[u] = "sweep"
      PROVE  Spot(m2, g[u], l[u], C, p[u], w[u], f[u])
  <2>1. Spot(m, g[u], l[u], B, p[u], w[u], f[u])
    BY <1>1 DEF Spots
  <2>2. w[u] \in HeapOf(g, u)
    BY <2>1 DEF Spot, At, HeapOf, Inside, Range
  <2>3. HeapOf(g, u) \intersect HeapOf(g, t) = {} /\ HeapOf(g, u) \subseteq Words
    BY HeapsApart
  <2>4. \A a \in Range(l[u]) : m2[a] = m[a]
    BY <2>3 DEF Alone
  <2>5. w[u] \in C
    BY <2>1, <2>2, <2>3 DEF Spot, At, Alone
  <2>. QED
    BY <2>1, <2>4, <2>5 DEF Spot, At
<1>. QED
  BY <1>1 DEF Spots, Alone

-----------------------------------------------------------------------------
(***************************************************************************)
(* Pointers.                                                               *)
(***************************************************************************)
\* What the object a leads to.
Links(m, a) == {m[a]} \union (IF m[a] = D THEN {m[a + 1]} \ {0} ELSE {})

(* The pointer bits of a descriptor.                                       *)
LEMMA PointerBits ==
  ASSUME NEW i \in 0 .. 3
  PROVE  /\ (0 \div Bit[i]) % 2 = 0
         /\ (5 \div Bit[i]) % 2 = 1 <=> i \in {0, 2}
         /\ (3 \div Bit[i]) % 2 = 1 <=> i \in {0, 1}
<1>1. \A k \in 0 .. 3 : k \in 0 .. PoolWords
  BY PoolsApart
<1>2. Bit[0] = 1 /\ Bit[1] = 2 * Bit[0] /\ Bit[2] = 2 * Bit[1] /\ Bit[3] = 2 * Bit[2]
  <2>1. 0 \in 0 .. PoolWords /\ 1 \in 0 .. PoolWords /\ 2 \in 0 .. PoolWords /\ 3 \in 0 .. PoolWords
    BY <1>1
  <2>2. 1 - 1 = 0 /\ 2 - 1 = 1 /\ 3 - 1 = 2
    OBVIOUS
  <2>3. Bit[0] = 1
    BY <2>1, BitFacts
  <2>4. Bit[1] = 2 * Bit[1 - 1]
    BY <2>1, BitFacts
  <2>5. Bit[2] = 2 * Bit[2 - 1]
    BY <2>1, BitFacts
  <2>6. Bit[3] = 2 * Bit[3 - 1]
    BY <2>1, BitFacts
  <2>. QED
    BY <2>2, <2>3, <2>4, <2>5, <2>6
<1>3. Bit[0] = 1 /\ Bit[1] = 2 /\ Bit[2] = 4 /\ Bit[3] = 8
  BY <1>2
<1>4. CASE i = 0
  BY <1>3, <1>4
<1>5. CASE i = 1
  BY <1>3, <1>5
<1>6. CASE i = 2
  BY <1>3, <1>6
<1>7. CASE i = 3
  BY <1>3, <1>7
<1>. QED
  BY <1>4, <1>5, <1>6, <1>7

(* What the pointer bits of an object's descriptor say.                    *)
LEMMA PointerFacts ==
  ASSUME NEW ps, NEW S, NEW B, HeapRight(mem, S, B, ps),
         NEW L, L \subseteq ObjectsIn(mem, S, B), Shut(mem, L), NEW a \in L
  PROVE  /\ Pointers(a) = Links(mem, a)
         /\ HasMember(a) <=> mem[a] = D
         /\ mem[mem[a] + 1] \in Nat
<1>. DEFINE d == mem[a]
            n == mem[d + 1]
<1>1. d \in L /\ mem[d] = DD
  BY DEF Shut
<1>2. n \in Nat /\ n >= 3 /\ IsType(mem, d)
  BY <1>1, SizeFacts
<1>3. /\ DD \in Nat /\ D = DD + 4 /\ DD # D
      /\ a # 0 /\ 0 \in 0 .. 3 /\ 1 \in 0 .. 3 /\ 2 \in 0 .. 3 /\ 3 \in 0 .. 3
  <2>1. a \in B
    BY DEF ObjectsIn
  <2>2. a # 0
    BY <2>1, FirstWords
  <2>. QED
    BY <2>2, PoolsApart
<1>. HIDE DEF d, n
<1>4. \A i : HasPointer(d, i) <=> (mem[d + 3] \div Bit[i]) % 2 = 1
  BY DEF HasPointer
<1>5. Pointers(a) = {d} \union (IF HasPointer(d, 0)
                               THEN {mem[a + w] : w \in {v \in 1 .. n - 1 : HasPointer(d, v)}} \ {0}
                               ELSE {})
  BY DEF Pointers, Referred, d, n
<1>6. HasMember(a) <=> HasPointer(d, 1)
  BY <1>3 DEF HasMember, d
<1>7. CASE d = DD
  <2>1. n = 4 /\ mem[d + 3] = 5
    BY <1>2, <1>7 DEF IsType, DescriptorWords, n
  <2>2. \A i \in 0 .. 3 : HasPointer(d, i) <=> i \in {0, 2}
    BY <1>4, <2>1, PointerBits
  <2>3. mem[a + 2] = 0
    <3>1. IsType(mem, a)
      <4>1. a \in ObjectsIn(mem, S, B) /\ mem[a] = DD
        BY <1>7 DEF d
      <4>. QED
        BY <4>1, SizeFacts
    <3>. QED
      BY <3>1 DEF IsType
  <2>4. {v \in 1 .. n - 1 : HasPointer(d, v)} = {2}
    <3>1. \A v : v \in 1 .. n - 1 <=> v \in {1, 2, 3}
      BY <2>1
    <3>. QED
      BY <1>3, <2>2, <3>1
  <2>5. Pointers(a) = {d}
    BY <1>3, <1>5, <2>2, <2>3, <2>4
  <2>6. ~ HasPointer(d, 1)
    BY <1>3, <2>2
  <2>. QED
    BY <1>2, <1>3, <1>6, <1>7, <2>5, <2>6 DEF Links, d, n
<1>8. CASE d = D
  <2>1. n = 3 /\ mem[d + 3] = 3
    BY <1>2, <1>8 DEF IsType, PlainWords, n
  <2>2. \A i \in 0 .. 3 : HasPointer(d, i) <=> i \in {0, 1}
    BY <1>4, <2>1, PointerBits
  <2>3. {v \in 1 .. n - 1 : HasPointer(d, v)} = {1}
    <3>1. \A v : v \in 1 .. n - 1 <=> v \in {1, 2}
      BY <2>1
    <3>. QED
      BY <1>3, <2>2, <3>1
  <2>4. Pointers(a) = {d} \union ({mem[a + 1]} \ {0})
    BY <1>3, <1>5, <2>2, <2>3
  <2>5. HasPointer(d, 1)
    BY <1>3, <2>2
  <2>. QED
    BY <1>2, <1>6, <1>8, <2>4, <2>5 DEF Links, d, n
<1>9. CASE d \notin {DD, D}
  <2>1. mem[d + 3] = 0
    BY <1>2, <1>9 DEF IsType
  <2>2. \A i \in 0 .. 3 : ~ HasPointer(d, i)
    BY <1>4, <2>1, PointerBits
  <2>3. Pointers(a) = {d}
    BY <1>3, <1>5, <2>2
  <2>. QED
    BY <1>2, <1>3, <1>6, <1>9, <2>2, <2>3 DEF Links, d, n
<1>. QED
  BY <1>7, <1>8, <1>9

-----------------------------------------------------------------------------
\* All of L can be reached from R.
Generated(m, R, L) ==
    \A X \in SUBSET Words : R \subseteq X /\ (\A a \in X \intersect L : Links(m, a) \subseteq X) => L \subseteq X

(* The roots themselves can be reached.                                    *)
LEMMA RootsGenerated ==
  ASSUME NEW m, NEW R
  PROVE  Generated(m, R, R)
BY DEF Generated

(* And what an object leads to that can.                                   *)
LEMMA LinksGenerated ==
  ASSUME NEW m, NEW R, NEW L, Generated(m, R, L), NEW a \in L
  PROVE  Generated(m, R, L \union Links(m, a))
<1>1. ASSUME NEW X \in SUBSET Words, R \subseteq X,
             \A b \in X \intersect (L \union Links(m, a)) : Links(m, b) \subseteq X
      PROVE  L \union Links(m, a) \subseteq X
  <2>1. \A b \in X \intersect L : Links(m, b) \subseteq X
    BY <1>1
  <2>2. L \subseteq X
    BY <1>1, <2>1 DEF Generated
  <2>. QED
    BY <1>1, <2>2
<1>. QED
  BY <1>1 DEF Generated

(* It does not matter what is in other words.                              *)
LEMMA KeepGenerated ==
  ASSUME NEW m, NEW R, NEW L, Generated(m, R, L), NEW m2, Keep(m, m2, L)
  PROVE  Generated(m2, R, L)
<1>1. \A a \in L : Links(m2, a) = Links(m, a)
  BY DEF Keep, Links
<1>. QED
  BY <1>1 DEF Generated

-----------------------------------------------------------------------------
(***************************************************************************)
(* The closures of the model.                                              *)
(***************************************************************************)
(* There are finitely many words.                                          *)
LEMMA FiniteWords == IsFiniteSet(Words)
<1>1. MaxPools * (PoolWords + 1) \in Int /\ 1 \in Int
  BY PoolAssumption
<1>. QED
  BY <1>1, FS_Interval DEF Words

(* What can be reached is the least set that has the roots, and with an    *)
(* object what it leads to.                                                *)
LEMMA ReachableFacts ==
  ASSUME Roots \subseteq Words
  PROVE  /\ Reachable \in SUBSET Words /\ Roots \subseteq Reachable
         /\ \A a \in Reachable : mem[a] # 0 => Words \intersect Pointers(a) \subseteq Reachable
         /\ \A C \in SUBSET Words :
              Roots \subseteq C /\ (\A a \in C : mem[a] # 0 => Words \intersect Pointers(a) \subseteq C)
              => Reachable \subseteq C
<1>. DEFINE more(s) == s \union (Words \intersect UNION {Pointers(a) : a \in {b \in s : mem[b] # 0}})
            g == [s \in SUBSET Words |-> more(s)]
            c == CHOOSE d : d = [s \in SUBSET Words |-> IF more(s) = s THEN s ELSE d[more(s)]]
            R == Reachable
<1>1. R = c[Roots]
  BY SMT DEF Reachable
<1>2. \A s \in SUBSET Words : more(s) \in SUBSET Words /\ s \subseteq more(s) /\ g[s] = more(s)
  OBVIOUS
<1>3. Grows(Words, g)
  <2>. HIDE DEF more
  <2>. QED
    BY <1>2 DEF Grows
<1>4. \A d : [s \in SUBSET Words |-> IF more(s) = s THEN s ELSE d[more(s)]]
               = [s \in SUBSET Words |-> Closing(g, d, s)]
  <2>. HIDE DEF g, more
  <2>. QED
    BY <1>2 DEF Closing
<1>7. \A s : \A a \in s : mem[a] # 0 => Words \intersect Pointers(a) \subseteq more(s)
  OBVIOUS
<1>8. \A C : (\A a \in C : mem[a] # 0 => Words \intersect Pointers(a) \subseteq C)
               => \A s \in SUBSET C : more(s) \subseteq C
  OBVIOUS
<1>. HIDE DEF g, more
<1>9. IsClosing(Words, g, c)
  <2>1. PICK d : IsClosing(Words, g, d)
    BY <1>3, FiniteWords, ClosureExists
  <2>2. \E e : e = [s \in SUBSET Words |-> IF more(s) = s THEN s ELSE e[more(s)]]
    BY <1>4, <2>1 DEF IsClosing
  <2>3. c = [s \in SUBSET Words |-> IF more(s) = s THEN s ELSE c[more(s)]]
    BY <2>2, Zenon
  <2>. HIDE DEF c
  <2>. QED
    BY <1>4, <2>3 DEF IsClosing
<1>. HIDE DEF c
<1>10. /\ c[Roots] \in SUBSET Words /\ Roots \subseteq c[Roots] /\ g[c[Roots]] = c[Roots]
       /\ \A C \in SUBSET Words : Roots \subseteq C /\ (\A t \in SUBSET C : g[t] \subseteq C)
                => c[Roots] \subseteq C
  BY <1>3, <1>9, FiniteWords, ClosureFacts
<1>. HIDE DEF R
<1>11. more(R) = R /\ R \in SUBSET Words /\ Roots \subseteq R
  BY <1>1, <1>2, <1>10
<1>12. \A a \in R : mem[a] # 0 => Words \intersect Pointers(a) \subseteq R
  BY <1>7, <1>11
<1>13. ASSUME NEW C \in SUBSET Words, Roots \subseteq C,
              \A a \in C : mem[a] # 0 => Words \intersect Pointers(a) \subseteq C
       PROVE  R \subseteq C
  <2>2. \A t \in SUBSET C : more(t) \subseteq C
    BY <1>8, <1>13
  <2>3. \A t \in SUBSET C : g[t] \subseteq C
    BY <1>2, <2>2
  <2>. QED
    BY <1>1, <1>10, <1>13, <2>3
<1>. QED
  BY <1>11, <1>12, <1>13 DEF R

(* What the variables lead to is the least set of that kind.               *)
LEMMA LedFacts ==
  ASSUME Range(var) \ {0} \subseteq Words
  PROVE  /\ Led \in SUBSET Words /\ Range(var) \ {0} \subseteq Led
         /\ \A a \in Led : HasMember(a) /\ mem[a + 1] \in Words => mem[a + 1] \in Led
         /\ \A C \in SUBSET Words :
              Range(var) \ {0} \subseteq C /\ (\A a \in C : HasMember(a) /\ mem[a + 1] \in Words => mem[a + 1] \in C)
              => Led \subseteq C
<1>. DEFINE more(s) == s \union (Words \intersect {mem[a + 1] : a \in {b \in s : HasMember(b)}})
            g == [s \in SUBSET Words |-> more(s)]
            c == CHOOSE d : d = [s \in SUBSET Words |-> IF more(s) = s THEN s ELSE d[more(s)]]
            seeds == Range(var) \ {0}
            R == Led
<1>1. R = c[seeds]
  BY SMT DEF Led
<1>2. \A s \in SUBSET Words : more(s) \in SUBSET Words /\ s \subseteq more(s) /\ g[s] = more(s)
  OBVIOUS
<1>3. Grows(Words, g)
  <2>. HIDE DEF more
  <2>. QED
    BY <1>2 DEF Grows
<1>4. \A d : [s \in SUBSET Words |-> IF more(s) = s THEN s ELSE d[more(s)]]
               = [s \in SUBSET Words |-> Closing(g, d, s)]
  <2>. HIDE DEF g, more
  <2>. QED
    BY <1>2 DEF Closing
<1>7. \A s : \A a \in s : HasMember(a) /\ mem[a + 1] \in Words => mem[a + 1] \in more(s)
  OBVIOUS
<1>8. \A C : (\A a \in C : HasMember(a) /\ mem[a + 1] \in Words => mem[a + 1] \in C)
               => \A s \in SUBSET C : s \in SUBSET Words => more(s) \subseteq C
  OBVIOUS
<1>. HIDE DEF g, more, seeds
<1>9. IsClosing(Words, g, c)
  <2>1. PICK d : IsClosing(Words, g, d)
    BY <1>3, FiniteWords, ClosureExists
  <2>2. \E e : e = [s \in SUBSET Words |-> IF more(s) = s THEN s ELSE e[more(s)]]
    BY <1>4, <2>1 DEF IsClosing
  <2>3. c = [s \in SUBSET Words |-> IF more(s) = s THEN s ELSE c[more(s)]]
    BY <2>2, Zenon
  <2>. HIDE DEF c
  <2>. QED
    BY <1>4, <2>3 DEF IsClosing
<1>. HIDE DEF c
<1>5. seeds \in SUBSET Words
  BY DEF seeds
<1>10. /\ c[seeds] \in SUBSET Words /\ seeds \subseteq c[seeds] /\ g[c[seeds]] = c[seeds]
       /\ \A C \in SUBSET Words : seeds \subseteq C /\ (\A t \in SUBSET C : g[t] \subseteq C)
                => c[seeds] \subseteq C
  BY <1>3, <1>5, <1>9, FiniteWords, ClosureFacts
<1>. HIDE DEF R
<1>11. more(R) = R /\ R \in SUBSET Words /\ seeds \subseteq R
  BY <1>1, <1>2, <1>10
<1>12. \A a \in R : HasMember(a) /\ mem[a + 1] \in Words => mem[a + 1] \in R
  BY <1>7, <1>11
<1>13. ASSUME NEW C \in SUBSET Words, seeds \subseteq C,
              \A a \in C : HasMember(a) /\ mem[a + 1] \in Words => mem[a + 1] \in C
       PROVE  R \subseteq C
  <2>2. \A t \in SUBSET C : more(t) \subseteq C
    BY <1>8, <1>13
  <2>3. \A t \in SUBSET C : g[t] \subseteq C
    BY <1>2, <2>2
  <2>. QED
    BY <1>1, <1>10, <1>13, <2>3
<1>. QED
  BY <1>11, <1>12, <1>13 DEF R, seeds

-----------------------------------------------------------------------------
(***************************************************************************)
(* The invariant.  Blocks begin at the words B and hold the objects X, of  *)
(* which L are alive: those that have their mark, or have been swept.      *)
(***************************************************************************)
\* What is still to be swept.
U0 == Unswept(gen0, gc, pool, cur)

LiveOf(X, k, U) == {a \in X : a \in k \/ a \notin U}

Types ==
    /\ pc \in [Threads -> {"run", "full", "retry"}]
    /\ gc \in [Threads -> {"idle", "sweep", "swept", "clear"}]
    /\ phase \in {"run", "mark", "sweep"}
    /\ req \in [Threads -> [d : Nat, s : Nat]]
    /\ toSearch \in Seq(Words)
    /\ pool \in [Threads -> Nat] /\ cur \in [Threads -> Nat]
    /\ lastFree \in [Threads -> Nat] /\ survivors \in [Threads -> Nat]

\* What the program has are live objects.
Prog(L) ==
    /\ var \in [Vars -> (L \ {DD, D}) \union {0}]
    /\ \A t \in Threads : /\ req[t].d # 0 <=> pc[t] \in {"full", "retry"}
                          /\ req[t].d # 0 => IsRequest(mem, L, req[t])

BetweenCollections ==
    marked = {} /\ toSearch = <<>> /\ \A t \in Threads : gc[t] \in {"idle", "clear"}

\* What has been found is the roots and what can be reached, the objects that
\* have their mark have been searched.
Marking(L, K) ==
    /\ \A t \in Threads : gc[t] = "idle"
    /\ Roots \subseteq K /\ K \subseteq L
    /\ \A a \in marked : Links(mem, a) \subseteq K
    /\ Generated(mem, Roots, K)

\* Only what is unswept has marks, and what is alive can be reached.
Sweeping(X, L) ==
    /\ \A t \in Threads : gc[t] \in {"sweep", "swept"}
    /\ toSearch = <<>>
    /\ marked \subseteq X \intersect U0
    /\ Generated(mem, Roots, L)

\* Objects that are alive refer to others, the program has only such, and each
\* phase of a collection has found of them what it has to.
Good(B, X, L) ==
    /\ IsHeap(mem, gen0, freeList, gc, B, U0, X)
    /\ L = LiveOf(X, marked, U0) /\ DD \in L /\ D \in L /\ Shut(mem, L)
    /\ Prog(L)
    /\ phase = "run" => BetweenCollections
    /\ phase = "mark" => Marking(L, marked \union Range(toSearch))
    /\ phase = "sweep" => Sweeping(X, L)
    /\ Spots(mem, gen0, freeList, gc, B, pool, cur, lastFree)

IInv == Types /\ \E B, X, L : Good(B, X, L)

(* If nobody sweeps, nothing is unswept.                                   *)
LEMMA NobodySweeps ==
  ASSUME NEW g, NEW c, NEW p, NEW w, \A t \in Threads : c[t] # "sweep"
  PROVE  Unswept(g, c, p, w) = {}
BY DEF Unswept

(* Between collections all objects are alive.                              *)
LEMMA RunFacts ==
  ASSUME NEW B, NEW X, NEW L, Good(B, X, L), phase \in {"run", "mark"}
  PROVE  /\ IsHeap(mem, gen0, freeList, gc, B, {}, X) /\ Shut(mem, X) /\ DD \in X /\ D \in X /\ Prog(X)
         /\ L = X
         /\ phase = "run" => BetweenCollections
         /\ \A t \in Threads : gc[t] # "sweep"
<1>1. \A t \in Threads : gc[t] # "sweep"
  BY DEF Good, BetweenCollections, Marking
<1>2. U0 = {}
  BY <1>1, NobodySweeps DEF U0
<1>3. L = X
  BY <1>2 DEF Good, LiveOf
<1>. QED
  BY <1>1, <1>2, <1>3 DEF Good

(* And it is enough to know the heap and what the program has.             *)
LEMMA RunGood ==
  ASSUME NEW C, NEW Y, IsHeap(mem', gen0', freeList', gc', C, {}, Y), Shut(mem', Y), DD \in Y, D \in Y,
         Prog(Y)', phase' = "run", BetweenCollections'
  PROVE  Good(C, Y, Y)'
<1>1. \A t \in Threads : gc'[t] # "sweep"
  BY DEF BetweenCollections
<1>2. U0' = {}
  <2>1. Unswept(gen0', gc', pool', cur') = {}
    BY <1>1, NobodySweeps
  <2>. QED
    BY <2>1 DEF U0
<1>3. Y = LiveOf(Y, marked', U0')
  BY <1>2 DEF LiveOf
<1>4. Spots(mem', gen0', freeList', gc', C, pool', cur', lastFree')
  BY <1>1 DEF Spots
<1>. QED
  BY <1>2, <1>3, <1>4 DEF Good

(* What the heap's lemmas need.                                            *)
LEMMA HeapFacts ==
  ASSUME NEW B, NEW X, NEW L, Good(B, X, L)
  PROVE  /\ HeapRight(mem, Nodes(freeList, gc), B, Owned(gen0)) /\ Owners(gen0)
         /\ freeList \in [Threads -> Seq(Words)]
         /\ X = ObjectsIn(mem, Nodes(freeList, gc), B)
         /\ L \subseteq X /\ X \subseteq B /\ B \subseteq Words /\ Words \subseteq Nat \ {0}
         /\ mem \in [Words -> Nat]
<1>1. Heaps(mem, gen0, freeList, gc, B, U0) /\ X = ObjectsIn(mem, Nodes(freeList, gc), B)
      /\ L = LiveOf(X, marked, U0)
  BY DEF Good, IsHeap
<1>2. HeapRight(mem, Nodes(freeList, gc), B, Owned(gen0)) /\ Owners(gen0)
      /\ freeList \in [Threads -> Seq(Words)]
  BY <1>1 DEF Heaps
<1>3. B \subseteq Words /\ Words \subseteq Nat \ {0}
  BY <1>2, BlockWords, PoolsApart
<1>4. mem \in [Words -> Nat]
  BY <1>2 DEF HeapRight
<1>. QED
  BY <1>1, <1>2, <1>3, <1>4 DEF LiveOf, ObjectsIn

-----------------------------------------------------------------------------
(***************************************************************************)
(* The program.                                                            *)
(***************************************************************************)
(* A variable is given a live object, or none.                             *)
LEMMA SetVarStep ==
  ASSUME Types, NEW B, NEW X, NEW L, Good(B, X, L), phase = "run",
         NEW x \in Vars, NEW a \in (X \ {DD, D}) \union {0}, SetVar(x, a)
  PROVE  Types' /\ Good(B, X, X)'
<1>1. /\ var' = [var EXCEPT ![x] = a]
      /\ mem' = mem /\ gen0' = gen0 /\ freeList' = freeList /\ marked' = marked /\ pc' = pc /\ req' = req
      /\ phase' = phase /\ toSearch' = toSearch /\ gc' = gc
      /\ pool' = pool /\ cur' = cur /\ lastFree' = lastFree /\ survivors' = survivors
  BY DEF SetVar, heap, sweeping
<1>2. /\ IsHeap(mem, gen0, freeList, gc, B, {}, X) /\ Shut(mem, X) /\ DD \in X /\ D \in X /\ Prog(X)
      /\ BetweenCollections
  BY RunFacts
<1>3. Types'
  BY <1>1 DEF Types
<1>4. Prog(X)'
  <2>1. var' \in [Vars -> (X \ {DD, D}) \union {0}]
    BY <1>1, <1>2 DEF Prog
  <2>. QED
    BY <1>1, <1>2, <2>1 DEF Prog
<1>5. BetweenCollections'
  BY <1>1, <1>2 DEF BetweenCollections
<1>6. IsHeap(mem', gen0', freeList', gc', B, {}, X) /\ Shut(mem', X)
  BY <1>1, <1>2
<1>7. phase' = "run"
  BY <1>1
<1>. QED
  BY <1>2, <1>3, <1>4, <1>5, <1>6, <1>7, RunGood

(* The variables a thread uses.                                            *)
LEMMA OwnVars ==
  ASSUME NEW t \in Threads
  PROVE  Own(t) \subseteq Vars
BY DEF Own, Vars

(* What a variable refers to.                                              *)
LEMMA VarFacts ==
  ASSUME NEW B, NEW X, NEW L, Good(B, X, L), phase = "run", NEW y \in Vars
  PROVE  /\ var[y] \in (X \ {DD, D}) \union {0}
         /\ HasMember(var[y]) => /\ var[y] \in X /\ mem[var[y]] = D
                                 /\ mem[var[y] + 1] \in (X \ {DD, D}) \union {0}
<1>1. Prog(X) /\ Shut(mem, X) /\ L = X
  BY RunFacts
<1>2. var[y] \in (X \ {DD, D}) \union {0}
  BY <1>1 DEF Prog
<1>3. ASSUME HasMember(var[y])
      PROVE  var[y] \in X /\ mem[var[y]] = D /\ mem[var[y] + 1] \in (X \ {DD, D}) \union {0}
  <2>1. var[y] \in X
    BY <1>2, <1>3 DEF HasMember
  <2>2. HeapRight(mem, Nodes(freeList, gc), B, Owned(gen0)) /\ X \subseteq ObjectsIn(mem, Nodes(freeList, gc), B)
    BY HeapFacts
  <2>3. mem[var[y]] = D
    BY <1>1, <1>3, <2>1, <2>2, PointerFacts
  <2>. QED
    BY <1>1, <2>1, <2>3 DEF Shut
<1>. QED
  BY <1>2, <1>3

(* Steps of the program that use a variable.                               *)
LEMMA ProgramStep ==
  ASSUME Types, NEW B, NEW X, NEW L, Good(B, X, L), NEW t \in Threads, NEW x \in Own(t), NEW y \in Own(t),
         Clear(t, x) \/ Assign(t, x, y) \/ Read(t, x, y)
  PROVE  Types' /\ Good(B, X, X)'
<1>1. x \in Vars /\ y \in Vars
  BY OwnVars
<1>2. CASE Clear(t, x)
  BY <1>1, <1>2, SetVarStep DEF Clear, Running
<1>3. CASE Assign(t, x, y)
  <2>1. phase = "run" /\ SetVar(x, var[y])
    BY <1>3 DEF Assign, Running
  <2>2. var[y] \in (X \ {DD, D}) \union {0}
    BY <1>1, <2>1, VarFacts
  <2>. QED
    BY <1>1, <2>1, <2>2, SetVarStep
<1>4. CASE Read(t, x, y)
  <2>1. phase = "run" /\ HasMember(var[y]) /\ SetVar(x, mem[var[y] + 1])
    BY <1>4 DEF Read, Running
  <2>2. mem[var[y] + 1] \in (X \ {DD, D}) \union {0}
    BY <1>1, <2>1, VarFacts
  <2>. QED
    BY <1>1, <2>1, <2>2, SetVarStep
<1>. QED
  BY <1>2, <1>3, <1>4

(* A pointer is written.                                                   *)
LEMMA WriteGood ==
  ASSUME Types, NEW B, NEW X, NEW L, Good(B, X, L), NEW t \in Threads, NEW x \in Own(t), NEW y \in Own(t),
         Write(t, x, y)
  PROVE  Types' /\ Good(B, X, X)'
<1>1. /\ phase = "run" /\ HasMember(var[x]) /\ x \in Vars /\ y \in Vars
      /\ gen0' = gen0 /\ freeList' = freeList /\ marked' = marked /\ pc' = pc /\ req' = req
      /\ phase' = phase /\ toSearch' = toSearch /\ gc' = gc /\ var' = var
      /\ pool' = pool /\ cur' = cur /\ lastFree' = lastFree /\ survivors' = survivors
  BY OwnVars DEF Write, Running, sweeping
<1>2. mem' = Put(mem, var[x] + 1, var[y])
  BY DEF Write, Put
<1>3. /\ IsHeap(mem, gen0, freeList, gc, B, {}, X) /\ Shut(mem, X) /\ DD \in X /\ D \in X /\ Prog(X)
      /\ BetweenCollections
  BY <1>1, RunFacts
<1>4. var[x] \in X /\ mem[var[x]] = D /\ var[y] \in (X \ {DD, D}) \union {0}
  BY <1>1, VarFacts
<1>5. IsHeap(mem', gen0, freeList, gc, B, {}, X) /\ Shut(mem', X)
  BY <1>2, <1>3, <1>4, WriteStep
<1>6. \A a \in X : mem'[a] = mem[a]
  <2>1. ASSUME NEW a \in X PROVE mem'[a] = mem[a]
    BY <1>2, <1>3, <1>4, WriteStep
  <2>. QED
    BY <2>1
<1>7. Types'
  BY <1>1 DEF Types
<1>8. Prog(X)'
  BY <1>1, <1>3, <1>6 DEF Prog, IsRequest
<1>9. BetweenCollections'
  BY <1>1, <1>3 DEF BetweenCollections
<1>10. IsHeap(mem', gen0', freeList', gc', B, {}, X) /\ phase' = "run"
  BY <1>1, <1>5
<1>. QED
  BY <1>3, <1>5, <1>7, <1>8, <1>9, <1>10, RunGood

-----------------------------------------------------------------------------
(***************************************************************************)
(* Allocation.                                                             *)
(***************************************************************************)
(* From the thread's free list.                                            *)
LEMMA RoomStep ==
  ASSUME NEW B, NEW X, IsHeap(mem, gen0, freeList, gc, B, {}, X), Shut(mem, X),
         NEW t \in Threads, gc[t] = "idle", NEW r, IsRequest(mem, X, r),
         NEW x, Allocate(t, x, r, mem, freeList[t]), gen0' = gen0
  PROVE  \E C, n : Given(mem, gen0', gc, X, r, mem', freeList', n, C) /\ var' = Put(var, x, n)
<1>. DEFINE size == mem[r.d + 1]
            i    == Fit(mem, freeList[t], size)
            n    == freeList[t][i]
            rest == mem[n + 1] - size
<1>1. Gives(t, mem, freeList, r, mem', freeList', n, i, size, rest)
  BY DEF Allocate, Gives, Taken
<1>2. var' = Put(var, x, n)
  BY DEF Allocate, Put
<1>. HIDE DEF n, i, size, rest
<1>3. \E C : Given(mem, gen0, gc, X, r, mem', freeList', n, C)
  BY <1>1, AllocateStep
<1>. QED
  BY <1>2, <1>3

(* From a new pool.                                                        *)
LEMMA PoolStep ==
  ASSUME NEW B, NEW X, IsHeap(mem, gen0, freeList, gc, B, {}, X), Shut(mem, X),
         NEW t \in Threads, gc[t] = "idle", NEW r, IsRequest(mem, X, r),
         NEW x, AllocateInNew(t, x, r)
  PROVE  \E C, n : Given(mem, gen0', gc, X, r, mem', freeList', n, C) /\ var' = Put(var, x, n)
<1>. DEFINE p  == CHOOSE q \in Unused : \A o \in Unused : q <= o
            m  == WithPools(mem, {p})
            l  == <<First(p)>> \o freeList[t]
            ll == Joined(freeList, t, <<First(p)>>)
            size == m[r.d + 1]
            i    == Fit(m, ll[t], size)
            n    == ll[t][i]
            rest == m[n + 1] - size
<1>1. freeList \in [Threads -> Seq(Words)] /\ Owners(gen0) /\ Owned(gen0) \subseteq Pools
  BY HeapsApart DEF IsHeap, Heaps
<1>2. ll[t] = l /\ \A u \in Threads \ {t} : ll[u] = freeList[u]
  BY <1>1 DEF Joined
<1>3. gen0' = Joined(gen0, t, <<p>>)
  <2>1. gen0' = [gen0 EXCEPT ![t] = <<p>> \o gen0[t]]
    BY DEF AllocateInNew
  <2>. QED
    BY <2>1 DEF Joined
<1>4. Allocate(t, x, r, m, l)
  BY DEF AllocateInNew
<1>5. p \in Pools /\ p \notin Owned(gen0)
  <2>1. Unused = Pools \ Owned(gen0)
    BY DEF Unused, Owned
  <2>2. Unused \subseteq Nat
    BY <2>1, PoolsApart
  <2>3. Unused # {}
    BY DEF AllocateInNew
  <2>4. \E q \in Unused : \A o \in Unused : q <= o
    BY <2>2, <2>3, LeastNatural
  <2>5. p \in Unused
    BY <2>4
  <2>. QED
    BY <2>1, <2>5
<1>. HIDE DEF p, m, ll
<1>6. Adds(t, mem, gen0, freeList, {p}, <<p>>, <<First(p)>>, m, gen0', ll)
  <2>1. <<p>> \in Seq(Pools) /\ IsInjective(<<p>>) /\ Range(<<p>>) = {p}
    BY <1>5, OneElement
  <2>2. First(p) \in Words
    BY <1>5, PoolsApart, PoolFacts
  <2>3. <<First(p)>> \in Seq(Words) /\ IsInjective(<<First(p)>>) /\ Range(<<First(p)>>) = {First(p)}
    BY <2>2, OneElement
  <2>4. Firsts({p}) = {First(p)}
    BY DEF Firsts
  <2>5. m = WithPools(mem, {p}) /\ ll = Joined(freeList, t, <<First(p)>>)
    BY DEF m, ll
  <2>6. {p} \subseteq Pools \ Owned(gen0)
    BY <1>5
  <2>. QED
    BY <1>3, <2>1, <2>3, <2>4, <2>5, <2>6 DEF Adds
<1>7. \E C : IsHeap(m, gen0', ll, gc, C, {}, X) /\ Carries(mem, m, X)
  BY <1>6, AddStep
<1>8. PICK A : IsHeap(m, gen0', ll, gc, A, {}, X) /\ Carries(mem, m, X)
  BY <1>7
<1>9. IsRequest(m, X, r)
  BY <1>8 DEF IsRequest, Carries, Keep
<1>10. Gives(t, m, ll, r, mem', freeList', n, i, size, rest)
  <2>1. freeList' = [freeList EXCEPT ![t] = IF rest > 0 THEN [l EXCEPT ![i] = n + size] ELSE RemoveAt(l, i)]
    BY <1>2, <1>4 DEF Allocate
  <2>2. freeList' = [ll EXCEPT ![t] = IF rest > 0 THEN [l EXCEPT ![i] = n + size] ELSE RemoveAt(l, i)]
    BY <2>1 DEF ll, Joined
  <2>3. i # 0 /\ mem' = Taken(m, n, r, size, rest)
    BY <1>2, <1>4 DEF Allocate, Taken
  <2>. QED
    BY <1>2, <2>2, <2>3 DEF Gives
<1>11. var' = Put(var, x, n)
  BY <1>2, <1>4 DEF Allocate, Put
<1>. HIDE DEF n, i, size, rest
<1>12. Shut(m, X)
  BY <1>8 DEF Carries
<1>13. \E C : Given(m, gen0', gc, X, r, mem', freeList', n, C)
  BY <1>8, <1>9, <1>10, <1>12, AllocateStep
<1>14. PICK C : Given(m, gen0', gc, X, r, mem', freeList', n, C)
  BY <1>13
<1>15. Given(mem, gen0', gc, X, r, mem', freeList', n, C)
  BY <1>8, <1>14 DEF Given, Carries, Keep
<1>. QED
  BY <1>11, <1>15

(* What has been made is one more object.                                  *)
LEMMA AfterAllocate ==
  ASSUME Types, NEW B, NEW X, NEW L, Good(B, X, L), phase = "run",
         NEW t \in Threads, NEW x \in Vars, NEW r, r.d \in X, NEW C, NEW n,
         Given(mem, gen0', gc, X, r, mem', freeList', n, C), var' = Put(var, x, n),
         pc' \in [Threads -> {"run", "full", "retry"}], req' \in [Threads -> [d : Nat, s : Nat]],
         \A u \in Threads : \/ pc'[u] = pc[u] /\ req'[u] = req[u]
                            \/ pc'[u] = "run" /\ req'[u].d = 0,
         UNCHANGED <<marked, phase, toSearch, gc, sweeping>>
  PROVE  Types' /\ \E Y : Good(C, Y, Y)'
<1>. DEFINE Y == X \union {n}
<1>1. /\ marked' = marked /\ phase' = phase /\ toSearch' = toSearch /\ gc' = gc
      /\ pool' = pool /\ cur' = cur /\ lastFree' = lastFree /\ survivors' = survivors
  BY DEF sweeping
<1>2. /\ IsHeap(mem, gen0, freeList, gc, B, {}, X) /\ Shut(mem, X) /\ DD \in X /\ D \in X /\ Prog(X)
      /\ BetweenCollections
  BY RunFacts
<1>3. /\ IsHeap(mem', gen0', freeList', gc, C, {}, Y) /\ Shut(mem', Y) /\ Keep(mem, mem', X) /\ n \notin X
  BY DEF Given
<1>4. Types'
  BY <1>1 DEF Types
<1>5. BetweenCollections'
  BY <1>1, <1>2 DEF BetweenCollections
<1>6. Prog(Y)'
  <2>1. var' \in [Vars -> (Y \ {DD, D}) \union {0}]
    BY <1>2, <1>3 DEF Prog, Put
  <2>2. ASSUME NEW u \in Threads, req'[u].d # 0 PROVE IsRequest(mem', Y, req'[u])
    <3>1. pc'[u] = pc[u] /\ req'[u] = req[u]
      BY <2>2
    <3>2. IsRequest(mem, X, req[u])
      BY <1>2, <2>2, <3>1 DEF Prog
    <3>. QED
      BY <1>3, <3>1, <3>2 DEF IsRequest, Keep
  <2>3. ASSUME NEW u \in Threads PROVE req'[u].d # 0 <=> pc'[u] \in {"full", "retry"}
    BY <1>2, <2>3 DEF Prog
  <2>. QED
    BY <2>1, <2>2, <2>3 DEF Prog
<1>. HIDE DEF Y
<1>7. IsHeap(mem', gen0', freeList', gc', C, {}, Y) /\ phase' = "run"
  BY <1>1, <1>3
<1>8. DD \in Y /\ D \in Y
  BY <1>2 DEF Y
<1>9. Good(C, Y, Y)'
  BY <1>3, <1>5, <1>6, <1>7, <1>8, RunGood
<1>. QED
  BY <1>4, <1>9

(* The requests of the program.                                            *)
LEMMA RequestFacts ==
  ASSUME NEW B, NEW X, NEW L, Good(B, X, L), phase = "run", NEW t \in Threads, NEW r \in Requests(t)
  PROVE  IsRequest(mem, X, r) /\ r \in [d : Nat, s : Nat] /\ r.d # 0
<1>1. /\ IsHeap(mem, gen0, freeList, gc, B, {}, X) /\ Shut(mem, X) /\ DD \in X /\ D \in X /\ Prog(X)
  BY RunFacts
<1>2. DD \in Nat \ {0} /\ D \in Nat \ {0} /\ DD # D
  BY PoolsApart DEF DescriptorWords
<1>3. mem[DD] = DD /\ mem[D] = DD
  BY <1>1 DEF IsHeap, Heaps, HeapRight, TypesRight
<1>4. X \subseteq Nat \ {0}
  BY HeapFacts
<1>5. Sizes \subseteq Nat
  BY PoolAssumption DEF PlainWords
<1>6. CASE r \in [d : {D} \union {var[y] : y \in {z \in Own(t) : IsDescriptor(var[z])}}, s : {0}]
  <2>1. r.s = 0 /\ r = [d |-> r.d, s |-> r.s] /\ r.d \in {D} \union {var[y] : y \in {z \in Own(t) : IsDescriptor(var[z])}}
    BY <1>6
  <2>2. r.d \in X /\ mem[r.d] = DD /\ r.d # DD
    <3>1. CASE r.d = D
      BY <1>1, <1>2, <1>3, <3>1
    <3>2. CASE \E z \in Own(t) : IsDescriptor(var[z]) /\ r.d = var[z]
      <4>1. PICK z \in Own(t) : IsDescriptor(var[z]) /\ r.d = var[z]
        BY <3>2
      <4>2. var[z] \in (X \ {DD, D}) \union {0}
        BY <1>1, OwnVars DEF Prog
      <4>. QED
        BY <4>1, <4>2 DEF IsDescriptor
    <3>. QED
      BY <2>1, <3>1, <3>2
  <2>3. r.d \in Nat \ {0}
    BY <1>4, <2>2
  <2>. QED
    BY <2>1, <2>2, <2>3 DEF IsRequest
<1>7. CASE r \in [d : {DD}, s : IF MayMakeType THEN Sizes ELSE {}]
  <2>1. r.d = DD /\ r.s \in Sizes /\ r = [d |-> r.d, s |-> r.s]
    BY <1>7
  <2>. QED
    BY <1>1, <1>2, <1>3, <1>5, <2>1 DEF IsRequest
<1>. QED
  BY <1>6, <1>7 DEF Requests

(* What mallocRaw gives, if there is room or no pool yet.                  *)
LEMMA NewGives ==
  ASSUME NEW B, NEW X, NEW L, Good(B, X, L), NEW t \in Threads, NEW r \in Requests(t),
         NEW x \in Own(t), New(t, x, r)
  PROVE  /\ IsRequest(mem, X, r)
         /\ \E C, n : Given(mem, gen0', gc, X, r, mem', freeList', n, C) /\ var' = Put(var, x, n)
<1>1. phase = "run" /\ gc[t] = "idle"
  BY DEF New, Running
<1>2. IsRequest(mem, X, r)
  BY <1>1, RequestFacts
<1>3. IsHeap(mem, gen0, freeList, gc, B, {}, X) /\ Shut(mem, X)
  BY <1>1, RunFacts
<1>4. CASE Allocate(t, x, r, mem, freeList[t]) /\ gen0' = gen0
  BY <1>1, <1>2, <1>3, <1>4, RoomStep
<1>5. CASE AllocateInNew(t, x, r)
  BY <1>1, <1>2, <1>3, <1>5, PoolStep
<1>. QED
  BY <1>2, <1>4, <1>5 DEF New

(* What it gives after a collection.                                       *)
LEMMA RetryGives ==
  ASSUME NEW B, NEW X, NEW L, Good(B, X, L), NEW t \in Threads, NEW x \in Own(t), Retry(t, x)
  PROVE  /\ IsRequest(mem, X, req[t])
         /\ \E C, n : Given(mem, gen0', gc, X, req[t], mem', freeList', n, C) /\ var' = Put(var, x, n)
<1>1. phase = "run" /\ pc[t] = "retry" /\ gc[t] = "idle"
  BY DEF Retry
<1>2. IsHeap(mem, gen0, freeList, gc, B, {}, X) /\ Shut(mem, X) /\ Prog(X)
  BY <1>1, RunFacts
<1>3. IsRequest(mem, X, req[t])
  BY <1>1, <1>2 DEF Prog
<1>4. CASE Allocate(t, x, req[t], mem, freeList[t]) /\ gen0' = gen0
  BY <1>1, <1>2, <1>3, <1>4, RoomStep
<1>5. CASE AllocateInNew(t, x, req[t])
  BY <1>1, <1>2, <1>3, <1>5, PoolStep
<1>. QED
  BY <1>3, <1>4, <1>5 DEF Retry

(* mallocRaw, if there is room or no pool yet.                             *)
LEMMA NewStep ==
  ASSUME Types, NEW B, NEW X, NEW L, Good(B, X, L), NEW t \in Threads, NEW r \in Requests(t),
         NEW x \in Own(t), New(t, x, r)
  PROVE  Types' /\ \E C, Y : Good(C, Y, Y)'
<1>1. phase = "run" /\ gc[t] = "idle" /\ x \in Vars /\ pc' = pc /\ req' = req
      /\ UNCHANGED <<marked, phase, toSearch, gc, sweeping>>
  BY OwnVars DEF New, Running
<1>2. PICK C, n : Given(mem, gen0', gc, X, r, mem', freeList', n, C) /\ var' = Put(var, x, n)
  BY NewGives
<1>3. r.d \in X
  BY NewGives DEF IsRequest
<1>4. pc' \in [Threads -> {"run", "full", "retry"}] /\ req' \in [Threads -> [d : Nat, s : Nat]]
      /\ \A u \in Threads : pc'[u] = pc[u] /\ req'[u] = req[u]
  BY <1>1 DEF Types
<1>. QED
  BY <1>1, <1>2, <1>3, <1>4, AfterAllocate

(* mallocRaw after a collection.                                           *)
LEMMA RetryStep ==
  ASSUME Types, NEW B, NEW X, NEW L, Good(B, X, L), NEW t \in Threads, NEW x \in Own(t), Retry(t, x)
  PROVE  Types' /\ \E C, Y : Good(C, Y, Y)'
<1>1. phase = "run" /\ x \in Vars
      /\ pc' = [pc EXCEPT ![t] = "run"] /\ req' = [req EXCEPT ![t] = NoRequest]
      /\ UNCHANGED <<marked, phase, toSearch, gc, sweeping>>
  BY OwnVars DEF Retry
<1>2. PICK C, n : Given(mem, gen0', gc, X, req[t], mem', freeList', n, C) /\ var' = Put(var, x, n)
  BY RetryGives
<1>3. req[t].d \in X
  BY RetryGives DEF IsRequest
<1>4. pc' \in [Threads -> {"run", "full", "retry"}]
  BY <1>1 DEF Types
<1>5. req' \in [Threads -> [d : Nat, s : Nat]]
  BY <1>1 DEF Types, NoRequest
<1>6. ASSUME NEW u \in Threads
      PROVE  (pc'[u] = pc[u] /\ req'[u] = req[u]) \/ (pc'[u] = "run" /\ req'[u].d = 0)
  BY <1>1 DEF Types, NoRequest
<1>. QED
  BY <1>1, <1>2, <1>3, <1>4, <1>5, <1>6, AfterAllocate

(* mallocRaw, if there is no room.                                         *)
LEMMA NoRoomStep ==
  ASSUME Types, NEW B, NEW X, NEW L, Good(B, X, L), NEW t \in Threads, NEW r \in Requests(t), NoRoom(t, r)
  PROVE  Types' /\ Good(B, X, X)'
<1>1. /\ phase = "run" /\ pc[t] = "run"
      /\ pc' = [pc EXCEPT ![t] = "full"] /\ req' = [req EXCEPT ![t] = r]
      /\ mem' = mem /\ gen0' = gen0 /\ freeList' = freeList /\ marked' = marked /\ var' = var
      /\ phase' = phase /\ toSearch' = toSearch /\ gc' = gc
      /\ pool' = pool /\ cur' = cur /\ lastFree' = lastFree /\ survivors' = survivors
  BY DEF NoRoom, Running, heap, sweeping
<1>2. /\ IsHeap(mem, gen0, freeList, gc, B, {}, X) /\ Shut(mem, X) /\ DD \in X /\ D \in X /\ Prog(X)
      /\ BetweenCollections
  BY <1>1, RunFacts
<1>3. IsRequest(mem, X, r) /\ r \in [d : Nat, s : Nat] /\ r.d # 0
  BY <1>1, RequestFacts
<1>4. Types'
  BY <1>1, <1>3 DEF Types
<1>5. Prog(X)'
  <2>1. var' \in [Vars -> (X \ {DD, D}) \union {0}]
    BY <1>1, <1>2 DEF Prog
  <2>2. ASSUME NEW u \in Threads
        PROVE  (req'[u].d # 0 <=> pc'[u] \in {"full", "retry"})
               /\ (req'[u].d # 0 => IsRequest(mem', X, req'[u]))
    <3>1. CASE u = t
      BY <1>1, <1>3, <3>1 DEF Types
    <3>2. CASE u # t
      BY <1>1, <1>2, <3>2 DEF Types, Prog
    <3>. QED
      BY <3>1, <3>2
  <2>. QED
    BY <2>1, <2>2 DEF Prog
<1>6. BetweenCollections'
  BY <1>1, <1>2 DEF BetweenCollections
<1>7. IsHeap(mem', gen0', freeList', gc', B, {}, X) /\ Shut(mem', X) /\ phase' = "run"
  BY <1>1, <1>2
<1>. QED
  BY <1>2, <1>4, <1>5, <1>6, <1>7, RunGood

-----------------------------------------------------------------------------
(***************************************************************************)
(* Marking.                                                                *)
(***************************************************************************)
(* Roots are live objects.                                                 *)
LEMMA RootsLive ==
  ASSUME NEW L, Prog(L), DD \in L, D \in L
  PROVE  Roots \subseteq L
<1>1. \A x \in Vars : var[x] \in L \union {0}
  BY DEF Prog
<1>2. \A t \in Threads : req[t].d \in L \union {0}
  BY DEF Prog, IsRequest
<1>. QED
  BY <1>1, <1>2 DEF Roots

(* While objects are marked it is enough to know the heap, what the        *)
(* program has, and what has been found.                                   *)
LEMMA MarkGood ==
  ASSUME NEW C, NEW Y, NEW K, IsHeap(mem', gen0', freeList', gc', C, {}, Y), Shut(mem', Y), DD \in Y, D \in Y,
         Prog(Y)', phase' = "mark", Marking(Y, K)', K = marked' \union Range(toSearch')
  PROVE  Good(C, Y, Y)'
<1>1. \A t \in Threads : gc'[t] # "sweep"
  BY DEF Marking
<1>2. U0' = {}
  <2>1. Unswept(gen0', gc', pool', cur') = {}
    BY <1>1, NobodySweeps
  <2>. QED
    BY <2>1 DEF U0
<1>3. Y = LiveOf(Y, marked', U0')
  BY <1>2 DEF LiveOf
<1>4. Spots(mem', gen0', freeList', gc', C, pool', cur', lastFree')
  BY <1>1 DEF Spots
<1>. QED
  BY <1>2, <1>3, <1>4 DEF Good

(* What has been found.                                                    *)
LEMMA MarkFacts ==
  ASSUME Types, NEW B, NEW X, NEW L, Good(B, X, L), phase = "mark"
  PROVE  /\ Marking(X, marked \union Range(toSearch)) /\ X \subseteq Words /\ IsFiniteSet(X)
         /\ marked \subseteq X /\ Range(toSearch) \subseteq X /\ X \subseteq ObjectsIn(mem, Nodes(freeList, gc), B)
<1>1. L = X
  BY RunFacts
<1>2. Marking(X, marked \union Range(toSearch))
  BY <1>1 DEF Good
<1>3. X \subseteq Words /\ X \subseteq ObjectsIn(mem, Nodes(freeList, gc), B)
  BY HeapFacts
<1>4. IsFiniteSet(X)
  BY <1>3, FiniteWords, FS_Subset
<1>. QED
  BY <1>2, <1>3, <1>4 DEF Marking

(* A collection begins.                                                    *)
LEMMA CollectStep ==
  ASSUME Types, NEW B, NEW X, NEW L, Good(B, X, L), NEW t \in Threads, Collect(t, {})
  PROVE  Types' /\ Good(B, X, X)'
<1>1. /\ phase = "run" /\ \A u \in Threads : gc[u] = "idle" /\ pc[u] # "retry"
      /\ gc' = [u \in Threads |-> "idle"] /\ phase' = "mark"
      /\ pc' = [pc EXCEPT ![t] = IF pc[t] = "full" THEN "retry" ELSE pc[t]]
      /\ toSearch' = SetToSeq(Roots)
      /\ mem' = mem /\ gen0' = gen0 /\ freeList' = freeList /\ marked' = marked /\ var' = var /\ req' = req
      /\ pool' = pool /\ cur' = cur /\ lastFree' = lastFree /\ survivors' = survivors
  BY DEF Collect, heap, sweeping
<1>2. /\ IsHeap(mem, gen0, freeList, gc, B, {}, X) /\ Shut(mem, X) /\ DD \in X /\ D \in X /\ Prog(X)
      /\ BetweenCollections
  BY <1>1, RunFacts
<1>3. Roots \subseteq X /\ X \subseteq Words
  BY <1>2, RootsLive, HeapFacts
<1>4. toSearch' \in Seq(Roots) /\ Range(toSearch') = Roots
  <2>1. IsFiniteSet(Roots)
    BY <1>3, FiniteWords, FS_Subset
  <2>. QED
    BY <1>1, <2>1, SetToSeqElements
<1>5. toSearch' \in Seq(Words)
  <2>1. DOMAIN toSearch' = 1 .. Len(toSearch') /\ Len(toSearch') \in Nat
    BY <1>4
  <2>2. \A i \in 1 .. Len(toSearch') : toSearch'[i] \in Words
    BY <1>3, <1>4, ElementAt
  <2>3. toSearch' \in [1 .. Len(toSearch') -> Words]
    BY <1>4, <2>1, <2>2
  <2>. QED
    BY <2>1, <2>3, SequenceIsFunction
<1>6. gc' = gc
  BY <1>1 DEF Types
<1>7. Types'
  BY <1>1, <1>5, <1>6 DEF Types
<1>8. Prog(X)'
  <2>1. var' \in [Vars -> (X \ {DD, D}) \union {0}]
    BY <1>1, <1>2 DEF Prog
  <2>2. ASSUME NEW u \in Threads PROVE pc'[u] \in {"full", "retry"} <=> pc[u] \in {"full", "retry"}
    BY <1>1 DEF Types
  <2>. QED
    BY <1>1, <1>2, <2>1, <2>2 DEF Prog
<1>9. Marking(X, Roots)'
  <2>1. Roots' = Roots
    BY <1>1 DEF Roots
  <2>2. Generated(mem', Roots, Roots)
    BY RootsGenerated
  <2>3. marked' = {}
    BY <1>1, <1>2 DEF BetweenCollections
  <2>. QED
    BY <1>1, <1>3, <2>1, <2>2, <2>3 DEF Marking
<1>10. Roots' = marked' \union Range(toSearch')
  <2>1. Roots' = Roots
    BY <1>1 DEF Roots
  <2>. QED
    BY <1>1, <1>2, <1>4, <2>1 DEF BetweenCollections
<1>11. IsHeap(mem', gen0', freeList', gc', B, {}, X) /\ Shut(mem', X) /\ phase' = "mark"
  BY <1>1, <1>2, <1>6
<1>12. PICK K : K = Roots'
  OBVIOUS
<1>13. Marking(X, K)'
  BY <1>9, <1>12
<1>14. K = marked' \union Range(toSearch')
  BY <1>10, <1>12
<1>. QED
  BY <1>2, <1>7, <1>8, <1>11, <1>13, <1>14, MarkGood

(* What has its mark is passed over.                                       *)
LEMMA MarkAgainStep ==
  ASSUME Types, NEW B, NEW X, NEW L, Good(B, X, L), MarkAgain
  PROVE  Types' /\ Good(B, X, X)'
<1>1. /\ phase = "mark" /\ toSearch # <<>> /\ Last(toSearch) \in marked /\ toSearch' = Front(toSearch)
      /\ mem' = mem /\ gen0' = gen0 /\ freeList' = freeList /\ marked' = marked /\ var' = var /\ req' = req
      /\ pc' = pc /\ phase' = phase /\ gc' = gc
      /\ pool' = pool /\ cur' = cur /\ lastFree' = lastFree /\ survivors' = survivors
  BY DEF MarkAgain, heap, sweeping
<1>2. IsHeap(mem, gen0, freeList, gc, B, {}, X) /\ Shut(mem, X) /\ DD \in X /\ D \in X /\ Prog(X)
  BY <1>1, RunFacts
<1>3. Front(toSearch) \in Seq(Words) /\ Range(toSearch) = Range(Front(toSearch)) \union {Last(toSearch)}
  BY <1>1, LastElement DEF Types
<1>4. Types'
  BY <1>1, <1>3 DEF Types
<1>5. PICK K : K = marked \union Range(toSearch)
  OBVIOUS
<1>6. Marking(X, K)
  BY <1>1, <1>5, MarkFacts
<1>7. Roots' = Roots
  BY <1>1 DEF Roots
<1>8. Marking(X, K)'
  BY <1>1, <1>6, <1>7 DEF Marking
<1>9. K = marked' \union Range(toSearch')
  BY <1>1, <1>3, <1>5
<1>10. Prog(X)'
  BY <1>1, <1>2 DEF Prog
<1>11. IsHeap(mem', gen0', freeList', gc', B, {}, X) /\ Shut(mem', X) /\ phase' = "mark"
  BY <1>1, <1>2
<1>. QED
  BY <1>2, <1>4, <1>8, <1>9, <1>10, <1>11, MarkGood

(* An object is marked, and what it leads to has been found.               *)
LEMMA MarkStep ==
  ASSUME Types, NEW B, NEW X, NEW L, Good(B, X, L), Mark
  PROVE  Types' /\ Good(B, X, X)'
<1>. DEFINE a == Last(toSearch)
<1>1. /\ phase = "mark" /\ toSearch # <<>> /\ marked' = marked \union {a}
      /\ toSearch' = Front(toSearch) \o SetToSeq(Pointers(a))
      /\ mem' = mem /\ gen0' = gen0 /\ freeList' = freeList /\ var' = var /\ req' = req
      /\ pc' = pc /\ phase' = phase /\ gc' = gc
      /\ pool' = pool /\ cur' = cur /\ lastFree' = lastFree /\ survivors' = survivors
  BY DEF Mark, heap, sweeping
<1>2. IsHeap(mem, gen0, freeList, gc, B, {}, X) /\ Shut(mem, X) /\ DD \in X /\ D \in X /\ Prog(X)
  BY <1>1, RunFacts
<1>3. Front(toSearch) \in Seq(Words) /\ Range(toSearch) = Range(Front(toSearch)) \union {a}
  BY <1>1, LastElement DEF Types
<1>4. /\ Marking(X, marked \union Range(toSearch)) /\ X \subseteq Words
      /\ Range(toSearch) \subseteq X /\ X \subseteq ObjectsIn(mem, Nodes(freeList, gc), B)
  BY <1>1, MarkFacts
<1>. HIDE DEF a
<1>5. a \in X
  BY <1>3, <1>4
<1>6. Pointers(a) = Links(mem, a)
  <2>1. HeapRight(mem, Nodes(freeList, gc), B, Owned(gen0))
    BY HeapFacts
  <2>. QED
    BY <1>2, <1>4, <1>5, <2>1, PointerFacts
<1>7. Links(mem, a) \subseteq X
  BY <1>2, <1>5 DEF Links, Shut
<1>8. SetToSeq(Links(mem, a)) \in Seq(Words) /\ Range(SetToSeq(Links(mem, a))) = Links(mem, a)
  <2>. DEFINE s == SetToSeq(Links(mem, a))
  <2>1. IsFiniteSet(Links(mem, a))
    BY <1>4, <1>7, FiniteWords, FS_Subset
  <2>2. s \in Seq(Links(mem, a)) /\ Range(s) = Links(mem, a)
    BY <2>1, SetToSeqElements
  <2>. HIDE DEF s
  <2>3. DOMAIN s = 1 .. Len(s) /\ Len(s) \in Nat
    BY <2>2
  <2>4. \A i \in 1 .. Len(s) : s[i] \in Words
    BY <1>4, <1>7, <2>2, ElementAt
  <2>5. s \in [1 .. Len(s) -> Words]
    BY <2>2, <2>3, <2>4
  <2>6. s \in Seq(Words)
    BY <2>3, <2>5, SequenceIsFunction
  <2>. QED
    BY <2>2, <2>6 DEF s
<1>9. toSearch' \in Seq(Words) /\ Range(toSearch') = Range(Front(toSearch)) \union Links(mem, a)
  <2>. DEFINE h == Front(toSearch)
              s == SetToSeq(Links(mem, a))
  <2>1. toSearch' = h \o s
    BY <1>1, <1>6
  <2>2. h \in Seq(Words) /\ s \in Seq(Words) /\ Range(s) = Links(mem, a)
    BY <1>3, <1>8
  <2>. HIDE DEF h, s
  <2>3. h \o s \in Seq(Words) /\ Range(h \o s) = Range(h) \union Range(s)
    BY <2>2, JoinElements
  <2>. QED
    BY <2>1, <2>2, <2>3 DEF h
<1>10. Types'
  BY <1>1, <1>9 DEF Types
<1>11. PICK K : K = marked \union Range(toSearch)
  OBVIOUS
<1>12. PICK J : J = K \union Links(mem, a)
  OBVIOUS
<1>13. J = marked' \union Range(toSearch')
  BY <1>1, <1>3, <1>9, <1>11, <1>12
<1>14. Marking(X, J)'
  <2>1. Marking(X, K)
    BY <1>4, <1>11
  <2>2. Roots' = Roots
    BY <1>1 DEF Roots
  <2>3. a \in K /\ Generated(mem, Roots, K)
    BY <1>3, <1>11, <2>1 DEF Marking
  <2>4. Generated(mem, Roots, J)
    BY <1>12, <2>3, LinksGenerated
  <2>5. \A b \in marked' : Links(mem, b) \subseteq J
    BY <1>1, <1>12, <2>1 DEF Marking
  <2>6. Roots \subseteq J /\ J \subseteq X
    BY <1>7, <1>12, <2>1 DEF Marking
  <2>7. \A u \in Threads : gc[u] = "idle"
    BY <2>1 DEF Marking
  <2>. QED
    BY <1>1, <2>2, <2>4, <2>5, <2>6, <2>7 DEF Marking
<1>15. Prog(X)'
  BY <1>1, <1>2 DEF Prog
<1>16. IsHeap(mem', gen0', freeList', gc', B, {}, X) /\ Shut(mem', X) /\ phase' = "mark"
  BY <1>1, <1>2
<1>. QED
  BY <1>2, <1>10, <1>13, <1>14, <1>15, <1>16, MarkGood

-----------------------------------------------------------------------------
(***************************************************************************)
(* The sweep.                                                              *)
(***************************************************************************)
(* When marking is over the objects that have their mark are alive.        *)
LEMMA MarkedShut ==
  ASSUME Types, NEW B, NEW X, NEW L, Good(B, X, L), phase = "mark", toSearch = <<>>
  PROVE  /\ marked \subseteq X /\ Roots \subseteq marked /\ Shut(mem, marked) /\ Prog(marked)
         /\ DD \in marked /\ D \in marked /\ Generated(mem, Roots, marked)
<1>1. Shut(mem, X) /\ Prog(X)
  BY RunFacts
<1>2. marked \subseteq X /\ Roots \subseteq marked /\ Generated(mem, Roots, marked)
      /\ \A a \in marked : Links(mem, a) \subseteq marked
  <2>1. Range(toSearch) = {}
    BY DEF Range
  <2>2. marked \union Range(toSearch) = marked
    BY <2>1
  <2>3. Marking(X, marked)
    BY <2>2, MarkFacts
  <2>. QED
    BY <2>3, MarkFacts DEF Marking
<1>3. DD \in marked /\ D \in marked
  <2>1. DD # 0 /\ D # 0
    BY PoolsApart
  <2>. QED
    BY <1>2, <2>1 DEF Roots
<1>4. Shut(mem, marked)
  BY <1>1, <1>2 DEF Shut, Links
<1>5. Prog(marked)
  <2>1. ASSUME NEW x \in Vars PROVE var[x] \in (marked \ {DD, D}) \union {0}
    <3>1. var[x] \in (X \ {DD, D}) \union {0}
      BY <1>1 DEF Prog
    <3>2. var[x] # 0 => var[x] \in Roots
      BY DEF Roots
    <3>. QED
      BY <1>2, <3>1, <3>2
  <2>2. var \in [Vars -> (marked \ {DD, D}) \union {0}]
    BY <1>1, <2>1 DEF Prog
  <2>3. ASSUME NEW t \in Threads, req[t].d # 0 PROVE IsRequest(mem, marked, req[t])
    <3>1. req[t].d \in Roots
      BY <2>3 DEF Roots
    <3>2. IsRequest(mem, X, req[t])
      BY <1>1, <2>3 DEF Prog
    <3>. QED
      BY <1>2, <3>1, <3>2 DEF IsRequest
  <2>. QED
    BY <1>1, <2>2, <2>3 DEF Prog
<1>. QED
  BY <1>2, <1>3, <1>4, <1>5

(* Where the sweep of a thread begins: all of its heap is before it.       *)
LEMMA StartFacts ==
  ASSUME NEW m, NEW g, NEW l, NEW c, NEW B, NEW U, Heaps(m, g, l, c, B, U),
         NEW c2, NEW p2, NEW w2,
         \A t \in Threads : /\ g[t] # <<>> => c2[t] = "sweep" /\ p2[t] = 1 /\ w2[t] = First(g[t][1])
                            /\ g[t] = <<>> => c2[t] = "swept"
  PROVE  /\ B \subseteq Unswept(g, c2, p2, w2)
         /\ \A t \in Threads : c2[t] = "sweep" => At(g[t], B, p2[t], w2[t])
<1>1. Owners(g) /\ Tiles(SizesOf(m, Nodes(l, c), B), B, Owned(g))
  BY DEF Heaps, HeapRight
<1>2. ASSUME NEW t \in Threads, g[t] # <<>>
      PROVE  /\ 1 \in DOMAIN g[t] /\ g[t][1] \in Pools /\ First(g[t][1]) \in B
             /\ First(g[t][1]) \in Area(g[t][1])
  <2>1. g[t] \in Seq(Pools)
    BY <1>1 DEF Owners
  <2>2. 1 \in 1 .. Len(g[t]) /\ DOMAIN g[t] = 1 .. Len(g[t])
    BY <1>2, <2>1
  <2>3. g[t][1] \in Range(g[t]) /\ g[t][1] \in Pools
    BY <2>1, <2>2, ElementAt
  <2>4. g[t][1] \in Owned(g)
    BY <2>3 DEF Owned
  <2>. QED
    BY <1>1, <2>2, <2>3, <2>4, PoolFacts DEF Tiles
<1>3. ASSUME NEW a \in B PROVE a \in Unswept(g, c2, p2, w2)
  <2>1. PICK t \in Threads : a \in HeapOf(g, t)
    BY ThreadBlocks
  <2>2. PICK j \in DOMAIN g[t] : a \in Area(g[t][j])
    BY <2>1 DEF HeapOf, Inside, Range
  <2>3. g[t] \in Seq(Pools) /\ IsInjective(g[t])
    BY <1>1 DEF Owners
  <2>4. g[t] # <<>>
    BY <2>2, <2>3
  <2>5. c2[t] = "sweep" /\ p2[t] = 1 /\ w2[t] = First(g[t][1])
    BY <2>4
  <2>6. j \in Nat /\ j >= 1
    BY <2>2, <2>3
  <2>7. j = 1 => a >= First(g[t][1])
    BY <1>2, <2>2, <2>4, PoolFacts
  <2>8. j > 1 \/ (j = 1 /\ a >= First(g[t][1]))
    BY <2>6, <2>7
  <2>9. a \in Rest(g[t], 1, First(g[t][1]))
    BY <2>2, <2>3, <2>8, RestFacts
  <2>. QED
    BY <1>1, <2>1, <2>5, <2>9, UnsweptFacts
<1>4. ASSUME NEW t \in Threads, c2[t] = "sweep" PROVE At(g[t], B, p2[t], w2[t])
  BY <1>2, <1>4 DEF At
<1>. QED
  BY <1>3, <1>4

(* Everybody begins to sweep.                                              *)
LEMMA StartSweepStep ==
  ASSUME Types, NEW B, NEW X, NEW L, Good(B, X, L), StartSweep
  PROVE  Types' /\ \E J : Good(B, X, J)'
<1>1. /\ phase = "mark" /\ toSearch = <<>> /\ phase' = "sweep"
      /\ pool' = [t \in Threads |-> 1]
      /\ lastFree' = [t \in Threads |-> 0] /\ survivors' = [t \in Threads |-> 0]
      /\ mem' = mem /\ gen0' = gen0 /\ marked' = marked /\ var' = var /\ req' = req
      /\ pc' = pc /\ toSearch' = toSearch
  BY DEF StartSweep, PerThread
<1>2. IsHeap(mem, gen0, freeList, gc, B, {}, X)
  BY <1>1, RunFacts
<1>3. Sweepers = Threads /\ \A t \in Threads : gc[t] = "idle"
  <2>1. Marking(X, marked \union Range(toSearch))
    BY <1>1, MarkFacts
  <2>. QED
    BY <2>1 DEF Marking, Sweepers
<1>4. /\ gc' = [t \in Threads |-> IF gen0[t] = <<>> THEN "swept" ELSE "sweep"]
      /\ freeList' = [t \in Threads |-> <<>>]
      /\ cur' = [t \in Threads |-> IF gen0[t] # <<>> THEN First(gen0[t][1]) ELSE 0]
  BY <1>3 DEF StartSweep
<1>5. Heaps(mem, gen0, freeList, gc, B, {})
  BY <1>2 DEF IsHeap
<1>6. /\ B \subseteq Unswept(gen0, gc', pool', cur')
      /\ \A t \in Threads : gc'[t] = "sweep" => At(gen0[t], B, pool'[t], cur'[t])
  <2>1. \A t \in Threads :
           /\ gen0[t] # <<>> => gc'[t] = "sweep" /\ pool'[t] = 1 /\ cur'[t] = First(gen0[t][1])
           /\ gen0[t] = <<>> => gc'[t] = "swept"
    BY <1>1, <1>4
  <2>. QED
    BY <1>5, <2>1, StartFacts
<1>7. U0' = Unswept(gen0, gc', pool', cur')
  BY <1>1 DEF U0
<1>8. IsHeap(mem', gen0', freeList', gc', B, U0', X)
  <2>1. \A t \in Threads : gc'[t] \in {"sweep", "swept"}
    BY <1>4
  <2>2. IsHeap(mem, gen0, freeList', gc', B, U0', X)
    BY <1>2, <1>3, <1>4, <1>6, <1>7, <2>1, StartStep
  <2>. QED
    BY <1>1, <2>2
<1>9. /\ marked \subseteq X /\ Roots \subseteq marked /\ Shut(mem, marked) /\ Prog(marked)
      /\ DD \in marked /\ D \in marked /\ Generated(mem, Roots, marked) /\ X \subseteq B
  BY <1>1, MarkedShut, HeapFacts
<1>10. PICK J : J = marked
  OBVIOUS
<1>11. J = LiveOf(X, marked', U0')
  BY <1>1, <1>6, <1>7, <1>9, <1>10 DEF LiveOf
<1>12. Prog(J)'
  BY <1>1, <1>9, <1>10 DEF Prog
<1>13. Sweeping(X, J)'
  <2>1. Roots' = Roots
    BY <1>1 DEF Roots
  <2>2. \A t \in Threads : gc'[t] \in {"sweep", "swept"}
    BY <1>4
  <2>3. marked' \subseteq X \intersect U0'
    BY <1>1, <1>6, <1>7, <1>9
  <2>. QED
    BY <1>1, <1>9, <1>10, <2>1, <2>2, <2>3 DEF Sweeping
<1>14. Spots(mem', gen0', freeList', gc', B, pool', cur', lastFree')
  <2>1. \A t \in Threads : Range(freeList'[t]) = {} /\ lastFree'[t] = 0
    BY <1>1, <1>4 DEF Range
  <2>. QED
    BY <1>1, <1>6, <2>1 DEF Spots, Spot
<1>15. Types'
  <2>1. ASSUME NEW t \in Threads, gen0[t] # <<>> PROVE First(gen0[t][1]) \in Nat
    <3>1. gc'[t] = "sweep" /\ cur'[t] = First(gen0[t][1])
      BY <1>4, <2>1
    <3>2. cur'[t] \in B
      BY <1>6, <3>1 DEF At
    <3>. QED
      BY <3>1, <3>2, HeapFacts
  <2>2. cur' \in [Threads -> Nat] /\ pool' \in [Threads -> Nat]
        /\ lastFree' \in [Threads -> Nat] /\ survivors' \in [Threads -> Nat]
    BY <1>1, <1>4, <2>1
  <2>3. gc' \in [Threads -> {"idle", "sweep", "swept", "clear"}]
    BY <1>4
  <2>. QED
    BY <1>1, <2>2, <2>3 DEF Types
<1>16. phase' = "sweep" /\ Shut(mem', J) /\ DD \in J /\ D \in J
  BY <1>1, <1>9, <1>10
<1>17. Good(B, X, J)'
  BY <1>8, <1>11, <1>12, <1>13, <1>14, <1>16 DEF Good
<1>. QED
  BY <1>15, <1>17

(* What holds while heaps are swept.                                       *)
LEMMA SweepFacts ==
  ASSUME NEW B, NEW X, NEW L, Good(B, X, L), phase = "sweep"
  PROVE  /\ IsHeap(mem, gen0, freeList, gc, B, U0, X) /\ Heaps(mem, gen0, freeList, gc, B, U0)
         /\ Sweeping(X, L) /\ Shut(mem, L) /\ Prog(L) /\ DD \in L /\ D \in L
         /\ L = LiveOf(X, marked, U0)
         /\ Spots(mem, gen0, freeList, gc, B, pool, cur, lastFree)
BY DEF Good, IsHeap

(* A thread that sweeps does so in that phase.                             *)
LEMMA SweepPhase ==
  ASSUME Types, NEW B, NEW X, NEW L, Good(B, X, L), NEW t \in Threads
  PROVE  /\ gc[t] = "sweep" => phase = "sweep"
         /\ gc[t] = "clear" => phase = "run"
BY DEF Types, Good, BetweenCollections, Marking, Sweeping

(* What a step of a thread's sweep does to where it is.                    *)
LEMMA GoOnFacts ==
  ASSUME Types, NEW B, NEW X, NEW L, Good(B, X, L), NEW t \in Threads, gc[t] = "sweep",
         NEW d \in Nat, GoOn(t, d)
  PROVE  /\ Moves(gen0[t], pool[t], d, gc'[t], pool'[t], cur'[t])
         /\ \A u \in Threads \ {t} : gc'[u] = gc[u] /\ pool'[u] = pool[u] /\ cur'[u] = cur[u]
         /\ gc' \in [Threads -> {"idle", "sweep", "swept", "clear"}]
         /\ gc'[t] \in {"sweep", "swept"}
         /\ pool' \in [Threads -> Nat] /\ cur' \in [Threads -> Nat]
<1>1. gc \in [Threads -> {"idle", "sweep", "swept", "clear"}] /\ pool \in [Threads -> Nat] /\ cur \in [Threads -> Nat]
  BY DEF Types
<1>2. gen0[t] \in Seq(Pools) /\ pool[t] \in DOMAIN gen0[t]
  <2>1. Owners(gen0)
    BY HeapFacts
  <2>2. At(gen0[t], B, pool[t], cur[t])
    BY SweepPhase, SweepFacts DEF Spots, Spot
  <2>. QED
    BY <2>1, <2>2 DEF Owners, At
<1>3. CASE d < End(gen0[t][pool[t]])
  <2>1. cur' = [cur EXCEPT ![t] = d] /\ pool' = pool /\ gc' = gc
    BY <1>3 DEF GoOn
  <2>2. cur'[t] = d /\ pool'[t] = pool[t] /\ gc'[t] = "sweep"
    BY <1>1, <2>1
  <2>3. Moves(gen0[t], pool[t], d, gc'[t], pool'[t], cur'[t])
    BY <1>3, <2>2 DEF Moves
  <2>. QED
    BY <1>1, <2>1, <2>2, <2>3
<1>4. CASE ~ (d < End(gen0[t][pool[t]])) /\ pool[t] < Len(gen0[t])
  <2>1. cur' = [cur EXCEPT ![t] = First(gen0[t][pool[t] + 1])] /\ pool' = [pool EXCEPT ![t] = pool[t] + 1] /\ gc' = gc
    BY <1>4 DEF GoOn
  <2>2. cur'[t] = First(gen0[t][pool[t] + 1]) /\ pool'[t] = pool[t] + 1 /\ gc'[t] = "sweep"
    BY <1>1, <2>1
  <2>3. gen0[t][pool[t]] \in Pools /\ gen0[t][pool[t] + 1] \in Pools
    BY <1>2, <1>4
  <2>4. d >= End(gen0[t][pool[t]]) /\ First(gen0[t][pool[t] + 1]) \in Nat
    BY <1>4, <2>3, PoolFacts
  <2>5. Moves(gen0[t], pool[t], d, gc'[t], pool'[t], cur'[t])
    BY <1>4, <2>2, <2>4 DEF Moves
  <2>6. cur' \in [Threads -> Nat] /\ pool' \in [Threads -> Nat]
    BY <1>1, <2>1, <2>4
  <2>. QED
    BY <1>1, <2>1, <2>2, <2>5, <2>6
<1>5. CASE ~ (d < End(gen0[t][pool[t]])) /\ ~ (pool[t] < Len(gen0[t]))
  <2>1. cur' = cur /\ pool' = pool /\ gc' = [gc EXCEPT ![t] = "swept"]
    BY <1>5 DEF GoOn
  <2>2. gc'[t] = "swept"
    BY <1>1, <2>1
  <2>3. gen0[t][pool[t]] \in Pools /\ Len(gen0[t]) \in Nat /\ pool[t] \in Nat
    BY <1>2
  <2>4. d >= End(gen0[t][pool[t]]) /\ pool[t] >= Len(gen0[t])
    BY <1>5, <2>3, PoolFacts
  <2>5. Moves(gen0[t], pool[t], d, gc'[t], pool'[t], cur'[t])
    BY <2>2, <2>4 DEF Moves
  <2>. QED
    BY <1>1, <2>1, <2>2, <2>5
<1>. QED
  BY <1>3, <1>4, <1>5

(* Where the sweep of a thread is.                                         *)
LEMMA SweepAt ==
  ASSUME Types, NEW B, NEW X, NEW L, Good(B, X, L), NEW t \in Threads, gc[t] = "sweep"
  PROVE  /\ phase = "sweep" /\ At(gen0[t], B, pool[t], cur[t])
         /\ cur[t] \in B /\ cur[t] \in HeapOf(gen0, t) /\ cur[t] \in U0 /\ cur[t] \notin Nodes(freeList, gc)
         /\ cur[t] \in Nat /\ Size(mem, Nodes(freeList, gc), cur[t]) \in Nat
         /\ FreeSize(cur[t]) = Size(mem, Nodes(freeList, gc), cur[t])
         /\ cur[t] \notin Range(freeList[t])
<1>1. phase = "sweep"
  BY SweepPhase
<1>2. Heaps(mem, gen0, freeList, gc, B, U0) /\ Spots(mem, gen0, freeList, gc, B, pool, cur, lastFree)
  BY <1>1, SweepFacts
<1>3. At(gen0[t], B, pool[t], cur[t])
  BY <1>2 DEF Spots, Spot
<1>4. Owners(gen0) /\ HeapRight(mem, Nodes(freeList, gc), B, Owned(gen0))
  BY <1>2 DEF Heaps
<1>5. gen0[t] \in Seq(Pools) /\ IsInjective(gen0[t]) /\ pool[t] \in DOMAIN gen0[t] /\ cur[t] \in Area(gen0[t][pool[t]])
  BY <1>3, <1>4 DEF At, Owners
<1>6. cur[t] \in B /\ cur[t] \in Nat
  BY <1>3, HeapFacts DEF At
<1>7. cur[t] \in HeapOf(gen0, t)
  BY <1>5 DEF HeapOf, Inside, Range
<1>8. cur[t] \in U0
  <2>1. cur[t] >= cur[t]
    BY <1>6
  <2>2. cur[t] \in Rest(gen0[t], pool[t], cur[t])
    BY <1>5, <2>1, RestFacts
  <2>. QED
    BY <1>4, <1>7, <2>2, UnsweptFacts DEF U0
<1>9. cur[t] \notin Range(freeList[t]) /\ cur[t] \notin Nodes(freeList, gc)
  <2>1. cur[t] \notin Range(freeList[t])
    BY <1>2, <1>8, ThreadBlocks
  <2>. QED
    BY <1>2, <1>7, <2>1, ThreadBlocks
<1>10. Size(mem, Nodes(freeList, gc), cur[t]) \in Nat
  BY <1>4, <1>6, SizeFacts
<1>11. FreeSize(cur[t]) = Size(mem, Nodes(freeList, gc), cur[t])
  BY <1>9 DEF FreeSize, Size
<1>. QED
  BY <1>1, <1>3, <1>6, <1>7, <1>8, <1>9, <1>10, <1>11

\* The end of the block that the sweep of t is at.
SweepEnd(t) == cur[t] + Size(mem, Nodes(freeList, gc), cur[t])

\* The sweep of t passes a block, and is then at another one.
Passed(t, B) ==
    /\ Passes(t, mem, gen0, freeList, gc, B, U0, cur[t], gc', U0')
    /\ Ahead(gen0[t], B, cur[t], SweepEnd(t), gc'[t], pool'[t], cur'[t])
    /\ \A u \in Threads \ {t} : gc'[u] = gc[u] /\ pool'[u] = pool[u] /\ cur'[u] = cur[u]

(* So does every step of the sweep.                                        *)
LEMMA PassedStep ==
  ASSUME Types, NEW B, NEW X, NEW L, Good(B, X, L), NEW t \in Threads, gc[t] = "sweep",
         GoOn(t, SweepEnd(t)), gen0' = gen0
  PROVE  Passed(t, B)
<1>1. At(gen0[t], B, pool[t], cur[t]) /\ SweepEnd(t) \in Nat /\ phase = "sweep"
  BY SweepAt DEF SweepEnd
<1>2. /\ Moves(gen0[t], pool[t], SweepEnd(t), gc'[t], pool'[t], cur'[t])
      /\ \A u \in Threads \ {t} : gc'[u] = gc[u] /\ pool'[u] = pool[u] /\ cur'[u] = cur[u]
  BY <1>1, GoOnFacts
<1>3. Heaps(mem, gen0, freeList, gc, B, Unswept(gen0, gc, pool, cur))
  BY <1>1, SweepFacts DEF U0
<1>4. PICK d : d = SweepEnd(t)
  OBVIOUS
<1>5. d = cur[t] + Size(mem, Nodes(freeList, gc), cur[t])
  BY <1>4 DEF SweepEnd
<1>6. Moves(gen0[t], pool[t], d, gc'[t], pool'[t], cur'[t])
  BY <1>2, <1>4
<1>7. /\ Passes(t, mem, gen0, freeList, gc, B, Unswept(gen0, gc, pool, cur), cur[t], gc', Unswept(gen0, gc', pool', cur'))
      /\ Ahead(gen0[t], B, cur[t], d, gc'[t], pool'[t], cur'[t])
  BY <1>1, <1>2, <1>3, <1>5, <1>6, PassStep
<1>8. U0 = Unswept(gen0, gc, pool, cur) /\ U0' = Unswept(gen0, gc', pool', cur')
  BY DEF U0
<1>. QED
  BY <1>2, <1>4, <1>7, <1>8 DEF Passed

(* No other block ends where the sweep is then.                            *)
LEMMA NoneEnds ==
  ASSUME NEW B, NEW X, NEW L, Good(B, X, L), NEW t \in Threads, Passed(t, B), cur[t] \in B,
         gc'[t] = "sweep", NEW a \in B, a # cur[t]
  PROVE  a + Size(mem, Nodes(freeList, gc), a) # cur'[t]
<1>1. HeapRight(mem, Nodes(freeList, gc), B, Owned(gen0))
  BY HeapFacts
<1>2. cur'[t] = SweepEnd(t) \/ \E q \in Pools : cur'[t] = First(q)
  BY DEF Passed, Ahead
<1>3. a + Size(mem, Nodes(freeList, gc), a) # SweepEnd(t)
  BY <1>1, EndFacts DEF SweepEnd
<1>4. \A q \in Pools : a + Size(mem, Nodes(freeList, gc), a) # First(q)
  BY <1>1, EndFacts
<1>. QED
  BY <1>2, <1>3, <1>4

\* What every step of the sweep leaves alone.
SweepSame ==
    /\ gen0' = gen0 /\ var' = var /\ pc' = pc /\ req' = req /\ phase' = phase /\ toSearch' = toSearch

(* After a step of the sweep it is enough that the heap is right, and that *)
(* live objects stay what they are.                                        *)
LEMMA SweepGood ==
  ASSUME NEW B, NEW X, NEW L, Good(B, X, L), NEW t \in Threads, Passed(t, B), phase = "sweep", SweepSame,
         NEW C, NEW Y, IsHeap(mem', gen0', freeList', gc', C, U0', Y), Carries(mem, mem', L),
         L = LiveOf(Y, marked', U0'), marked' \subseteq Y \intersect U0',
         Spots(mem', gen0', freeList', gc', C, pool', cur', lastFree')
  PROVE  Good(C, Y, L)'
<1>1. Sweeping(X, L) /\ Prog(L) /\ DD \in L /\ D \in L
  BY SweepFacts
<1>2. Shut(mem', L) /\ Keep(mem, mem', L)
  BY DEF Carries
<1>3. Prog(L)'
  <2>1. ASSUME NEW u \in Threads, req[u].d # 0 PROVE IsRequest(mem', L, req[u])
    <3>1. IsRequest(mem, L, req[u])
      BY <1>1, <2>1 DEF Prog
    <3>. QED
      BY <1>2, <3>1 DEF IsRequest, Keep
  <2>. QED
    BY <1>1, <2>1 DEF Prog, SweepSame
<1>4. Sweeping(Y, L)'
  <2>1. Roots' = Roots
    BY DEF Roots, SweepSame
  <2>2. Generated(mem', Roots, L)
    BY <1>1, <1>2, KeepGenerated DEF Sweeping
  <2>3. \A u \in Threads : gc'[u] \in {"sweep", "swept"}
    BY <1>1 DEF Sweeping, Passed, Passes
  <2>. QED
    BY <1>1, <2>1, <2>2, <2>3 DEF Sweeping, SweepSame
<1>5. phase' = "sweep"
  BY DEF SweepSame
<1>. QED
  BY <1>1, <1>2, <1>3, <1>4, <1>5 DEF Good

(* The sweep passes an object that has its mark.                           *)
LEMMA SweepMarkedStep ==
  ASSUME Types, NEW B, NEW X, NEW L, Good(B, X, L), NEW t \in Threads, SweepMarked(t)
  PROVE  Types' /\ Good(B, X, L)'
<1>. DEFINE e == cur[t]
            size == mem[mem[cur[t]] + 1]
<1>1. /\ gc[t] = "sweep" /\ e \in marked /\ marked' = marked \ {e}
      /\ GoOn(t, e + size) /\ survivors' = [survivors EXCEPT ![t] = survivors[t] + size]
      /\ mem' = mem /\ freeList' = freeList /\ lastFree' = lastFree /\ SweepSame
  BY DEF SweepMarked, heap, SweepSame
<1>2. /\ phase = "sweep" /\ e \in B /\ e \in HeapOf(gen0, t) /\ e \in U0 /\ e \notin Nodes(freeList, gc)
      /\ e \in Nat /\ Size(mem, Nodes(freeList, gc), e) \in Nat /\ e \notin Range(freeList[t])
  BY <1>1, SweepAt
<1>3. /\ IsHeap(mem, gen0, freeList, gc, B, U0, X) /\ Heaps(mem, gen0, freeList, gc, B, U0)
      /\ Sweeping(X, L) /\ Shut(mem, L) /\ L = LiveOf(X, marked, U0)
      /\ Spots(mem, gen0, freeList, gc, B, pool, cur, lastFree)
  BY <1>2, SweepFacts
<1>4. X = ObjectsIn(mem, Nodes(freeList, gc), B) /\ X \subseteq B
  BY HeapFacts
<1>5. mem[e] # 0
  BY <1>1, <1>3, <1>4 DEF Sweeping, ObjectsIn
<1>6. size = Size(mem, Nodes(freeList, gc), e)
  BY <1>2, <1>5 DEF Size
<1>7. Passed(t, B)
  <2>1. SweepEnd(t) = e + size
    BY <1>6 DEF SweepEnd
  <2>. QED
    BY <1>1, <2>1, PassedStep DEF SweepSame
<1>8. Types'
  <2>1. size \in Nat /\ e + size \in Nat
    BY <1>2, <1>6
  <2>2. /\ gc' \in [Threads -> {"idle", "sweep", "swept", "clear"}]
        /\ pool' \in [Threads -> Nat] /\ cur' \in [Threads -> Nat]
    BY <1>1, <2>1, GoOnFacts
  <2>. HIDE DEF e, size
  <2>3. survivors' \in [Threads -> Nat] /\ lastFree' \in [Threads -> Nat]
    BY <1>1, <2>1 DEF Types
  <2>. QED
    BY <1>1, <2>2, <2>3 DEF Types, SweepSame
<1>. HIDE DEF e, size
<1>9. IsHeap(mem', gen0', freeList', gc', B, U0', X)
  <2>1. Passes(t, mem, gen0, freeList, gc, B, U0, e, gc', U0')
    BY <1>7 DEF Passed, e
  <2>2. IsHeap(mem, gen0, freeList, gc', B, U0', X)
    BY <1>3, <1>5, <2>1, SkipStep
  <2>. QED
    BY <1>1, <2>2 DEF SweepSame
<1>10. \A a \in B : a \in U0' <=> a \in U0 /\ a # e
  BY <1>7 DEF Passed, Passes, e
<1>11. L = LiveOf(X, marked', U0') /\ marked' \subseteq X \intersect U0'
  BY <1>1, <1>3, <1>4, <1>10 DEF LiveOf, Sweeping
<1>12. Carries(mem, mem', L)
  BY <1>1, <1>3 DEF Carries, Keep
<1>13. Spots(mem', gen0', freeList', gc', B, pool', cur', lastFree')
  <2>1. Owners(gen0) /\ \A u \in Threads : Range(freeList[u]) \subseteq HeapOf(gen0, u)
    <3>1. Heaps(mem, gen0, freeList, gc, B, U0)
      BY <1>3
    <3>. QED
      BY <3>1, ThreadBlocks, HeapFacts
  <2>2. Alone(t, mem, gen0, freeList, gc, B, pool, cur, lastFree, mem, freeList, gc', B, pool', cur', lastFree)
    BY <1>7 DEF Alone, Passed
  <2>3. ASSUME gc'[t] = "sweep"
        PROVE  Spot(mem, gen0[t], freeList[t], B, pool'[t], cur'[t], lastFree[t])
    <3>1. At(gen0[t], B, pool'[t], cur'[t])
      BY <1>7, <2>3 DEF Passed, Ahead
    <3>2. lastFree[t] \in Range(freeList[t]) \union {0}
      BY <1>1, <1>3 DEF Spots, Spot
    <3>3. ASSUME NEW a \in Range(freeList[t]) PROVE a + mem[a] # cur'[t]
      <4>1. a \in B /\ a \in HeapOf(gen0, t) /\ a # e
        BY <1>2, <1>3, <3>3, ThreadBlocks
      <4>2. a \in Nodes(freeList, gc)
        BY <1>1, <3>3 DEF Nodes, Sweepy
      <4>3. Size(mem, Nodes(freeList, gc), a) = mem[a]
        BY <4>2 DEF Size
      <4>4. a + Size(mem, Nodes(freeList, gc), a) # cur'[t]
        BY <1>2, <1>7, <2>3, <4>1, NoneEnds DEF e
      <4>. QED
        BY <4>3, <4>4
    <3>. QED
      BY <3>1, <3>2, <3>3 DEF Spot
  <2>4. Spots(mem, gen0, freeList, gc', B, pool', cur', lastFree)
    BY <1>3, <2>1, <2>2, <2>3, OtherSpots
  <2>. QED
    BY <1>1, <2>4 DEF SweepSame
<1>14. Good(B, X, L)'
  BY <1>1, <1>2, <1>7, <1>9, <1>11, <1>12, <1>13, SweepGood
<1>. QED
  BY <1>8, <1>14

\* What the sweep does to a block that has no mark.
FreesOne(t) ==
    /\ gc[t] = "sweep" /\ cur[t] \notin marked /\ SweepSame
    /\ GoOn(t, SweepEnd(t))
    /\ marked' = marked /\ survivors' = survivors

(* Such a block is not alive.                                              *)
LEMMA FreesFacts ==
  ASSUME Types, NEW B, NEW X, NEW L, Good(B, X, L), NEW t \in Threads, FreesOne(t)
  PROVE  /\ Passed(t, B) /\ Survive(mem, L, X, cur[t]) /\ marked' \subseteq (X \ {cur[t]}) \intersect U0'
         /\ L = LiveOf(X \ {cur[t]}, marked', U0')
<1>1. phase = "sweep" /\ cur[t] \in B /\ cur[t] \in U0
  BY SweepAt DEF FreesOne
<1>2. Sweeping(X, L) /\ Shut(mem, L) /\ DD \in L /\ D \in L /\ L = LiveOf(X, marked, U0)
  BY <1>1, SweepFacts
<1>3. Passed(t, B)
  BY PassedStep DEF FreesOne, SweepSame
<1>4. \A a \in B : a \in U0' <=> a \in U0 /\ a # cur[t]
  BY <1>3 DEF Passed, Passes
<1>5. X \subseteq B
  BY HeapFacts
<1>6. cur[t] \notin L
  BY <1>1, <1>2 DEF LiveOf, FreesOne
<1>7. Survive(mem, L, X, cur[t])
  BY <1>2, <1>6 DEF Survive, LiveOf
<1>8. marked' \subseteq (X \ {cur[t]}) \intersect U0'
  BY <1>2, <1>4, <1>5 DEF Sweeping, FreesOne
<1>9. L = LiveOf(X \ {cur[t]}, marked', U0')
  BY <1>2, <1>4, <1>5, <1>6 DEF LiveOf, FreesOne
<1>. QED
  BY <1>3, <1>7, <1>8, <1>9

(* And it is typed as before.                                              *)
LEMMA FreesTypes ==
  ASSUME Types, NEW B, NEW X, NEW L, Good(B, X, L), NEW t \in Threads, FreesOne(t),
         lastFree' \in [Threads -> Nat]
  PROVE  Types'
<1>1. SweepEnd(t) \in Nat
  BY SweepAt DEF FreesOne, SweepEnd
<1>2. /\ gc' \in [Threads -> {"idle", "sweep", "swept", "clear"}]
      /\ pool' \in [Threads -> Nat] /\ cur' \in [Threads -> Nat]
  BY <1>1, GoOnFacts DEF FreesOne
<1>. QED
  BY <1>2 DEF Types, FreesOne, SweepSame

(* The block becomes a node of its own.                                    *)
LEMMA FreesAlone ==
  ASSUME Types, NEW B, NEW X, NEW L, Good(B, X, L), NEW t \in Threads, FreesOne(t), ~ Coalesces(t),
         mem' = Put(mem, cur[t], Size(mem, Nodes(freeList, gc), cur[t])),
         freeList' = Appended(freeList, t, cur[t]), lastFree' = Put(lastFree, t, cur[t])
  PROVE  Types' /\ \E C, Y : Good(C, Y, L)'
<1>. DEFINE e == cur[t]
            d == Size(mem, Nodes(freeList, gc), cur[t])
<1>1. /\ phase = "sweep" /\ gc[t] = "sweep" /\ e \in B /\ e \in HeapOf(gen0, t) /\ e \in Nat
      /\ e \notin Range(freeList[t])
  BY SweepAt DEF FreesOne
<1>2. /\ IsHeap(mem, gen0, freeList, gc, B, U0, X) /\ Heaps(mem, gen0, freeList, gc, B, U0)
      /\ Spots(mem, gen0, freeList, gc, B, pool, cur, lastFree)
  BY <1>1, SweepFacts
<1>3. /\ Passed(t, B) /\ Survive(mem, L, X, e) /\ marked' \subseteq (X \ {e}) \intersect U0'
      /\ L = LiveOf(X \ {e}, marked', U0')
  BY FreesFacts
<1>4. B \subseteq Words /\ Words \subseteq Nat \ {0} /\ lastFree \in [Threads -> Nat] /\ Owners(gen0)
      /\ mem \in [Words -> Nat]
  BY HeapFacts DEF Types
<1>5. lastFree' \in [Threads -> Nat] /\ lastFree'[t] = e /\ \A u \in Threads \ {t} : lastFree'[u] = lastFree[u]
  BY <1>1, <1>4 DEF Put
<1>6. Types'
  BY <1>5, FreesTypes
<1>7. \A a \in Range(freeList[t]) : a \in B /\ a # e /\ a \in Nodes(freeList, gc)
      /\ Size(mem, Nodes(freeList, gc), a) = mem[a]
  <2>1. Range(freeList[t]) \subseteq B
    BY <1>2, ThreadBlocks
  <2>2. Range(freeList[t]) \subseteq Nodes(freeList, gc)
    BY <1>1 DEF Nodes, Sweepy
  <2>. QED
    BY <1>1, <2>1, <2>2 DEF Size
<1>8. \A a \in Range(freeList[t]) : a + mem[a] # e
  BY <1>1, <1>2, <1>4, <1>7 DEF Spots, Spot, Coalesces
<1>9. Freed(t, mem, gen0, freeList, gc, B, U0, X, L, e, mem', freeList', gc', U0')
  <2>1. Passes(t, mem, gen0, freeList, gc, B, U0, e, gc', U0')
    BY <1>3 DEF Passed
  <2>. HIDE DEF e
  <2>2. mem' = Put(mem, e, Size(mem, Nodes(freeList, gc), e)) /\ freeList' = Appended(freeList, t, e)
    BY DEF e
  <2>. QED
    BY <1>2, <1>3, <1>8, <2>1, <2>2, FreeStep
<1>. HIDE DEF e, d
<1>10. IsHeap(mem', gen0', freeList', gc', B, U0', X \ {e}) /\ Carries(mem, mem', L)
  BY <1>9 DEF Freed, FreesOne, SweepSame
<1>11. Spots(mem', gen0', freeList', gc', B, pool', cur', lastFree')
  <2>1. \A u \in Threads : Range(freeList[u]) \subseteq HeapOf(gen0, u)
    BY <1>2, ThreadBlocks
  <2>2. Alone(t, mem, gen0, freeList, gc, B, pool, cur, lastFree, mem', freeList', gc', B, pool', cur', lastFree')
    <3>1. \A u \in Threads \ {t} : freeList'[u] = freeList[u]
      BY <1>9 DEF Freed
    <3>2. ASSUME NEW a \in Words, a \notin HeapOf(gen0, t) PROVE mem'[a] = mem[a]
      BY <1>1, <1>4, <3>2 DEF Put, e
    <3>. QED
      BY <1>3, <1>5, <3>1, <3>2 DEF Alone, Passed
  <2>3. ASSUME gc'[t] = "sweep"
        PROVE  Spot(mem', gen0[t], freeList'[t], B, pool'[t], cur'[t], lastFree'[t])
    <3>1. At(gen0[t], B, pool'[t], cur'[t])
      BY <1>3, <2>3 DEF Passed, Ahead
    <3>2. Range(freeList'[t]) = Range(freeList[t]) \union {e} /\ \A a \in B \ {e} : mem'[a] = mem[a]
      BY <1>9 DEF Freed
    <3>3. lastFree'[t] \in Range(freeList'[t])
      BY <1>5, <3>2
    <3>4. ASSUME NEW a \in Range(freeList'[t]), a # e PROVE a + mem'[a] # cur'[t]
      <4>1. a \in Range(freeList[t])
        BY <3>2, <3>4
      <4>2. a \in B /\ mem'[a] = mem[a] /\ Size(mem, Nodes(freeList, gc), a) = mem[a]
        BY <1>7, <3>2, <3>4, <4>1
      <4>3. a + Size(mem, Nodes(freeList, gc), a) # cur'[t]
        BY <1>1, <1>3, <2>3, <3>4, <4>2, NoneEnds DEF e
      <4>. QED
        BY <4>2, <4>3
    <3>. QED
      BY <1>5, <3>1, <3>3, <3>4 DEF Spot
  <2>4. Spots(mem', gen0, freeList', gc', B, pool', cur', lastFree')
    BY <1>2, <1>4, <2>1, <2>2, <2>3, OtherSpots
  <2>. QED
    BY <2>4 DEF FreesOne, SweepSame
<1>12. SweepSame
  BY DEF FreesOne
<1>13. PICK Y : Y = X \ {e}
  OBVIOUS
<1>14. IsHeap(mem', gen0', freeList', gc', B, U0', Y) /\ L = LiveOf(Y, marked', U0') /\ marked' \subseteq Y \intersect U0'
  BY <1>3, <1>10, <1>13
<1>15. Good(B, Y, L)'
  BY <1>1, <1>3, <1>10, <1>11, <1>12, <1>14, SweepGood
<1>. QED
  BY <1>6, <1>15

(* The block is added to the one in front of it.                           *)
LEMMA FreesJoined ==
  ASSUME Types, NEW B, NEW X, NEW L, Good(B, X, L), NEW t \in Threads, FreesOne(t), Coalesces(t),
         mem' = Put(mem, lastFree[t], mem[lastFree[t]] + Size(mem, Nodes(freeList, gc), cur[t])),
         freeList' = freeList, lastFree' = lastFree
  PROVE  Types' /\ \E C, Y : Good(C, Y, L)'
<1>. DEFINE e == cur[t]
            n == lastFree[t]
<1>1. /\ phase = "sweep" /\ gc[t] = "sweep" /\ e \in B /\ e \in HeapOf(gen0, t) /\ e \in Nat
      /\ e \notin Range(freeList[t])
  BY SweepAt DEF FreesOne
<1>2. /\ IsHeap(mem, gen0, freeList, gc, B, U0, X) /\ Heaps(mem, gen0, freeList, gc, B, U0)
      /\ Spots(mem, gen0, freeList, gc, B, pool, cur, lastFree)
  BY <1>1, SweepFacts
<1>3. /\ Passed(t, B) /\ Survive(mem, L, X, e) /\ marked' \subseteq (X \ {e}) \intersect U0'
      /\ L = LiveOf(X \ {e}, marked', U0')
  BY FreesFacts
<1>4. B \subseteq Words /\ Words \subseteq Nat \ {0} /\ lastFree \in [Threads -> Nat] /\ Owners(gen0)
      /\ mem \in [Words -> Nat]
  BY HeapFacts DEF Types
<1>5. Types'
  BY <1>4, FreesTypes
<1>6. n \in Range(freeList[t]) /\ e = n + mem[n]
  BY <1>1, <1>2 DEF Coalesces, Spots, Spot
<1>7. \A a \in Range(freeList[t]) : a \in B /\ a # e /\ a \in HeapOf(gen0, t)
      /\ Size(mem, Nodes(freeList, gc), a) = mem[a]
  <2>1. Range(freeList[t]) \subseteq B /\ Range(freeList[t]) \subseteq HeapOf(gen0, t)
    BY <1>2, ThreadBlocks
  <2>2. Range(freeList[t]) \subseteq Nodes(freeList, gc)
    BY <1>1 DEF Nodes, Sweepy
  <2>. QED
    BY <1>1, <2>1, <2>2 DEF Size
<1>8. Merged(t, mem, gen0, freeList, gc, B, U0, X, L, n, e, mem', gc', U0')
  <2>1. Passes(t, mem, gen0, freeList, gc, B, U0, e, gc', U0')
    BY <1>3 DEF Passed
  <2>. HIDE DEF e, n
  <2>2. mem' = Put(mem, n, mem[n] + Size(mem, Nodes(freeList, gc), e))
    BY DEF e, n
  <2>. QED
    BY <1>2, <1>3, <1>6, <2>1, <2>2, MergeStep
<1>. HIDE DEF e, n
<1>9. IsHeap(mem', gen0', freeList', gc', B \ {e}, U0', X \ {e}) /\ Carries(mem, mem', L)
  BY <1>8 DEF Merged, FreesOne, SweepSame
<1>10. Spots(mem', gen0', freeList', gc', B \ {e}, pool', cur', lastFree')
  <2>1. \A u \in Threads : Range(freeList[u]) \subseteq HeapOf(gen0, u)
    BY <1>2, ThreadBlocks
  <2>2. Alone(t, mem, gen0, freeList, gc, B, pool, cur, lastFree,
              mem', freeList, gc', B \ {e}, pool', cur', lastFree)
    <3>1. ASSUME NEW a \in Words, a \notin HeapOf(gen0, t) PROVE mem'[a] = mem[a] /\ a # e
      BY <1>1, <1>4, <1>6, <1>7, <3>1 DEF Put, n
    <3>. QED
      BY <1>3, <3>1 DEF Alone, Passed
  <2>3. ASSUME gc'[t] = "sweep"
        PROVE  Spot(mem', gen0[t], freeList[t], B \ {e}, pool'[t], cur'[t], lastFree[t])
    <3>1. At(gen0[t], B, pool'[t], cur'[t]) /\ cur'[t] # e
      BY <1>3, <2>3 DEF Passed, Ahead, e
    <3>2. At(gen0[t], B \ {e}, pool'[t], cur'[t])
      BY <3>1 DEF At
    <3>3. ASSUME NEW a \in Range(freeList[t]), a # n PROVE a + mem'[a] # cur'[t]
      <4>1. a \in B /\ a # e /\ Size(mem, Nodes(freeList, gc), a) = mem[a]
        BY <1>7
      <4>2. mem'[a] = mem[a]
        BY <1>8, <3>3, <4>1 DEF Merged
      <4>3. a + Size(mem, Nodes(freeList, gc), a) # cur'[t]
        BY <1>1, <1>3, <2>3, <4>1, NoneEnds DEF e
      <4>. QED
        BY <4>1, <4>2, <4>3
    <3>. QED
      BY <1>6, <3>2, <3>3 DEF Spot, n
  <2>4. Spots(mem', gen0, freeList, gc', B \ {e}, pool', cur', lastFree)
    BY <1>2, <1>4, <2>1, <2>2, <2>3, OtherSpots
  <2>. QED
    BY <2>4 DEF FreesOne, SweepSame
<1>11. SweepSame
  BY DEF FreesOne
<1>12. PICK Y : Y = X \ {e}
  OBVIOUS
<1>13. PICK C : C = B \ {e}
  OBVIOUS
<1>14. IsHeap(mem', gen0', freeList', gc', C, U0', Y) /\ L = LiveOf(Y, marked', U0') /\ marked' \subseteq Y \intersect U0'
  BY <1>3, <1>9, <1>12, <1>13
<1>15. Spots(mem', gen0', freeList', gc', C, pool', cur', lastFree')
  BY <1>10, <1>13
<1>16. Good(C, Y, L)'
  BY <1>1, <1>3, <1>9, <1>11, <1>14, <1>15, SweepGood
<1>. QED
  BY <1>5, <1>16

(* The sweep of a block that has no mark.                                  *)
LEMMA SweepFreeStep ==
  ASSUME Types, NEW B, NEW X, NEW L, Good(B, X, L), NEW t \in Threads, SweepFree(t)
  PROVE  Types' /\ \E C, Y : Good(C, Y, L)'
<1>1. gc[t] = "sweep"
  BY DEF SweepFree
<1>2. FreeSize(cur[t]) = Size(mem, Nodes(freeList, gc), cur[t])
  BY <1>1, SweepAt
<1>3. FreesOne(t)
  BY <1>2 DEF SweepFree, FreesOne, SweepSame, SweepEnd
<1>4. CASE Coalesces(t)
  <2>1. /\ mem' = Put(mem, lastFree[t], mem[lastFree[t]] + Size(mem, Nodes(freeList, gc), cur[t]))
        /\ freeList' = freeList /\ lastFree' = lastFree
    BY <1>2, <1>4 DEF SweepFree, Sized, Put
  <2>. QED
    BY <1>3, <1>4, <2>1, FreesJoined
<1>5. CASE ~ Coalesces(t)
  <2>1. /\ mem' = Put(mem, cur[t], Size(mem, Nodes(freeList, gc), cur[t]))
        /\ freeList' = Appended(freeList, t, cur[t]) /\ lastFree' = Put(lastFree, t, cur[t])
    BY <1>2, <1>5 DEF SweepFree, Sized, Put, Appended
  <2>. QED
    BY <1>3, <1>5, <2>1, FreesAlone
<1>. QED
  BY <1>4, <1>5

-----------------------------------------------------------------------------
(***************************************************************************)
(* After the sweep.                                                        *)
(***************************************************************************)
(* Everybody has swept.                                                    *)
LEMMA RestartStep ==
  ASSUME Types, NEW B, NEW X, NEW L, Good(B, X, L), Restart
  PROVE  Types' /\ Good(B, X, X)'
<1>1. /\ phase = "sweep" /\ \A t \in Sweepers : gc[t] = "swept"
      /\ phase' = "run" /\ gc' = [t \in Threads |-> IF t \in Sweepers THEN "clear" ELSE "idle"]
      /\ mem' = mem /\ gen0' = gen0 /\ freeList' = freeList /\ marked' = marked /\ var' = var /\ req' = req
      /\ pc' = pc /\ toSearch' = toSearch
      /\ pool' = pool /\ cur' = cur /\ lastFree' = lastFree /\ survivors' = survivors
  BY DEF Restart, heap, sweeping
<1>2. /\ IsHeap(mem, gen0, freeList, gc, B, U0, X)
      /\ Sweeping(X, L) /\ Shut(mem, L) /\ Prog(L) /\ DD \in L /\ D \in L /\ L = LiveOf(X, marked, U0)
  BY <1>1, SweepFacts
<1>3. Sweepers = Threads
  BY <1>2 DEF Sweepers, Sweeping
<1>4. \A t \in Threads : gc[t] = "swept" /\ gc'[t] = "clear"
  BY <1>1, <1>3
<1>5. U0 = {}
  BY <1>4, NobodySweeps DEF U0
<1>6. L = X /\ marked = {}
  BY <1>2, <1>5 DEF LiveOf, Sweeping
<1>7. IsHeap(mem, gen0, freeList, gc', B, {}, X)
  <2>1. Heaps(mem, gen0, freeList, gc, B, {})
    BY <1>2, <1>5 DEF IsHeap
  <2>2. \A t \in Threads : (gc'[t] \in Sweepy <=> gc[t] \in Sweepy) /\ (gc'[t] = "idle" => gc[t] = "idle")
    BY <1>4 DEF Sweepy
  <2>3. Heaps(mem, gen0, freeList, gc', B, {}) /\ Nodes(freeList, gc') = Nodes(freeList, gc)
    BY <2>1, <2>2, SameHeaps
  <2>. QED
    BY <1>2, <2>3 DEF IsHeap
<1>8. Types'
  <2>1. gc' \in [Threads -> {"idle", "sweep", "swept", "clear"}]
    BY <1>1
  <2>. QED
    BY <1>1, <2>1 DEF Types
<1>9. BetweenCollections'
  BY <1>1, <1>2, <1>4, <1>6 DEF BetweenCollections, Sweeping
<1>10. Prog(X)'
  BY <1>1, <1>2, <1>6 DEF Prog
<1>11. IsHeap(mem', gen0', freeList', gc', B, {}, X) /\ Shut(mem', X) /\ DD \in X /\ D \in X /\ phase' = "run"
  BY <1>1, <1>2, <1>6, <1>7
<1>. QED
  BY <1>8, <1>9, <1>10, <1>11, RunGood

(* A sequence of some elements is one of more.                             *)
LEMMA WiderSequence ==
  ASSUME NEW S, NEW E, S \subseteq E, NEW s, s \in Seq(S)
  PROVE  s \in Seq(E)
<1>1. Len(s) \in Nat /\ DOMAIN s = 1 .. Len(s) /\ \A i \in 1 .. Len(s) : s[i] \in E
  OBVIOUS
<1>2. s \in [1 .. Len(s) -> E]
  BY <1>1
<1>. QED
  BY <1>1, <1>2, SequenceIsFunction

(* New pools, in the order in which they are added.                        *)
LEMMA NewPools ==
  ASSUME NEW qs, qs \subseteq Pools
  PROVE  /\ Newest(qs) \in Seq(Pools) /\ IsInjective(Newest(qs)) /\ Range(Newest(qs)) = qs
         /\ NodesOf(qs) \in Seq(Words) /\ IsInjective(NodesOf(qs)) /\ Range(NodesOf(qs)) = Firsts(qs)
<1>1. IsFiniteSet(Pools) /\ Pools \subseteq Nat
  <2>1. MaxPools \in Nat
    BY PoolAssumption
  <2>. QED
    BY <2>1, FS_Interval DEF Pools
<1>2. IsFiniteSet(qs) /\ qs \subseteq Nat
  BY <1>1, FS_Subset
<1>3. Descending(qs) \in Seq(qs) /\ Range(Descending(qs)) = qs /\ IsInjective(Descending(qs))
  BY <1>2, DescendingElements
<1>4. Firsts(qs) \subseteq Words
  BY PoolsApart, PoolFacts DEF Firsts
<1>5. IsFiniteSet(Firsts(qs)) /\ Firsts(qs) \subseteq Nat
  BY <1>4, FiniteWords, FS_Subset, PoolsApart
<1>. DEFINE fs == Firsts(qs)
<1>. HIDE DEF fs
<1>6. Descending(fs) \in Seq(fs) /\ Range(Descending(fs)) = fs /\ IsInjective(Descending(fs))
  <2>1. IsFiniteSet(fs) /\ fs \subseteq Nat
    BY <1>5 DEF fs
  <2>. QED
    BY <2>1, DescendingElements
<1>7. NodesOf(qs) = Descending(fs) /\ Newest(qs) = Descending(qs)
  BY DEF NodesOf, Newest, fs, Firsts
<1>8. Newest(qs) \in Seq(Pools)
  BY <1>3, <1>7, WiderSequence
<1>9. NodesOf(qs) \in Seq(Words)
  <2>1. fs \subseteq Words
    BY <1>4 DEF fs
  <2>. QED
    BY <1>6, <1>7, <2>1, WiderSequence
<1>10. Range(NodesOf(qs)) = Firsts(qs) /\ IsInjective(NodesOf(qs))
  BY <1>6, <1>7 DEF fs
<1>. QED
  BY <1>3, <1>7, <1>8, <1>9, <1>10

(* clearFreeList: the sizes are put where they belong, and pools are added. *)
LEMMA ClearHeap ==
  ASSUME Types, NEW B, NEW X, NEW L, Good(B, X, L), NEW t \in Threads, NEW granted, ClearFreeList(t, granted)
  PROVE  \E C : IsHeap(mem', gen0', freeList', gc', C, {}, X) /\ Carries(mem, mem', X)
<1>. DEFINE m  == Resized(mem, Range(freeList[t]))
            qs == {p \in Unused : Cardinality({q \in Unused : q <= p}) <= granted}
<1>1. gc[t] = "clear" /\ gc' = [gc EXCEPT ![t] = "idle"]
  BY DEF ClearFreeList
<1>2. mem' = WithPools(m, qs)
  BY DEF ClearFreeList, Resized
<1>3. gen0' = Joined(gen0, t, Newest(qs)) /\ freeList' = Joined(freeList, t, NodesOf(qs))
  BY DEF ClearFreeList, Joined
<1>4. phase = "run"
  BY <1>1, SweepPhase
<1>5. IsHeap(mem, gen0, freeList, gc, B, {}, X) /\ Shut(mem, X)
  BY <1>4, RunFacts
<1>6. qs \subseteq Pools \ Owned(gen0)
  BY DEF Unused, Owned
<1>. HIDE DEF m, qs
<1>7. gc'[t] = "idle" /\ \A u \in Threads \ {t} : gc'[u] = gc[u]
  BY <1>1 DEF Types
<1>8. IsHeap(m, gen0, freeList, gc', B, {}, X) /\ Carries(mem, m, X)
  <2>1. m = Resized(mem, Range(freeList[t]))
    BY DEF m
  <2>2. gc[t] = "clear"
    BY <1>1
  <2>. QED
    BY <1>5, <1>7, <2>1, <2>2, ResizeStep
<1>9. \E C : IsHeap(mem', gen0', freeList', gc', C, {}, X) /\ Carries(m, mem', X)
  <2>1. Adds(t, m, gen0, freeList, qs, Newest(qs), NodesOf(qs), mem', gen0', freeList')
    <3>1. qs \subseteq Pools
      BY <1>6
    <3>2. /\ Newest(qs) \in Seq(Pools) /\ IsInjective(Newest(qs)) /\ Range(Newest(qs)) = qs
          /\ NodesOf(qs) \in Seq(Words) /\ IsInjective(NodesOf(qs)) /\ Range(NodesOf(qs)) = Firsts(qs)
      BY <3>1, NewPools
    <3>. QED
      BY <1>2, <1>3, <1>6, <3>2 DEF Adds
  <2>2. Shut(m, X)
    BY <1>8 DEF Carries
  <2>. QED
    BY <1>7, <1>8, <2>1, <2>2, AddStep
<1>10. PICK C : IsHeap(mem', gen0', freeList', gc', C, {}, X) /\ Carries(m, mem', X)
  BY <1>9
<1>11. Carries(mem, mem', X)
  BY <1>8, <1>10 DEF Carries, Keep
<1>. QED
  BY <1>10, <1>11

(* After it heaps are right.                                               *)
LEMMA ClearStep ==
  ASSUME Types, NEW B, NEW X, NEW L, Good(B, X, L), NEW t \in Threads, NEW granted, ClearFreeList(t, granted)
  PROVE  Types' /\ \E C : Good(C, X, X)'
<1>1. /\ gc[t] = "clear" /\ gc' = [gc EXCEPT ![t] = "idle"]
      /\ pool' = [pool EXCEPT ![t] = 0] /\ cur' = [cur EXCEPT ![t] = 0]
      /\ lastFree' = [lastFree EXCEPT ![t] = 0] /\ survivors' = [survivors EXCEPT ![t] = 0]
      /\ marked' = marked /\ var' = var /\ req' = req /\ pc' = pc /\ phase' = phase /\ toSearch' = toSearch
  BY DEF ClearFreeList
<1>2. phase = "run"
  BY <1>1, SweepPhase
<1>3. DD \in X /\ D \in X /\ Prog(X) /\ BetweenCollections
  BY <1>2, RunFacts
<1>4. PICK C : IsHeap(mem', gen0', freeList', gc', C, {}, X) /\ Carries(mem, mem', X)
  BY ClearHeap
<1>5. Types'
  BY <1>1 DEF Types
<1>6. BetweenCollections'
  <2>1. \A u \in Threads : gc'[u] \in {"idle", "clear"}
    BY <1>1, <1>3 DEF BetweenCollections, Types
  <2>. QED
    BY <1>1, <1>3, <2>1 DEF BetweenCollections
<1>7. Prog(X)'
  <2>1. ASSUME NEW u \in Threads, req[u].d # 0 PROVE IsRequest(mem', X, req[u])
    <3>1. IsRequest(mem, X, req[u])
      BY <1>3, <2>1 DEF Prog
    <3>. QED
      BY <1>4, <3>1 DEF IsRequest, Carries, Keep
  <2>. QED
    BY <1>1, <1>3, <2>1 DEF Prog
<1>8. phase' = "run" /\ Shut(mem', X)
  BY <1>1, <1>2, <1>4 DEF Carries
<1>9. Good(C, X, X)'
  BY <1>3, <1>4, <1>6, <1>7, <1>8, RunGood
<1>. QED
  BY <1>5, <1>9

-----------------------------------------------------------------------------
(***************************************************************************)
(* All steps.                                                              *)
(***************************************************************************)
(* Steps in which nothing changes.                                         *)
LEMMA IdleStep ==
  ASSUME IInv, UNCHANGED vars
  PROVE  IInv'
<1>1. /\ mem' = mem /\ gen0' = gen0 /\ freeList' = freeList /\ marked' = marked /\ var' = var /\ req' = req
      /\ pc' = pc /\ phase' = phase /\ toSearch' = toSearch /\ gc' = gc
      /\ pool' = pool /\ cur' = cur /\ lastFree' = lastFree /\ survivors' = survivors
  BY DEF vars, heap, sweeping
<1>2. PICK B, X, L : Good(B, X, L)
  BY DEF IInv
<1>3. Types'
  BY <1>1 DEF Types, IInv
<1>4. U0' = U0 /\ Roots' = Roots
  BY <1>1 DEF U0, Roots
<1>5. Prog(L)' <=> Prog(L)
  BY <1>1 DEF Prog
<1>6. BetweenCollections' <=> BetweenCollections
  BY <1>1 DEF BetweenCollections
<1>7. Sweeping(X, L)' <=> Sweeping(X, L)
  BY <1>1, <1>4 DEF Sweeping
<1>8. Marking(L, marked \union Range(toSearch))' <=> Marking(L, marked \union Range(toSearch))
  BY <1>1, <1>4 DEF Marking
<1>9. Good(B, X, L)'
  BY <1>1, <1>2, <1>4, <1>5, <1>6, <1>7, <1>8 DEF Good
<1>. QED
  BY <1>3, <1>9 DEF IInv

(* Every step leads to a right heap.                                       *)
LEMMA NextStep ==
  ASSUME ~ MayBlock, IInv, Next
  PROVE  IInv'
<1>1. PICK B, X, L : Good(B, X, L)
  BY DEF IInv
<1>2. Types
  BY DEF IInv
<1>3. ASSUME NEW t \in Threads, Program(t) PROVE IInv'
  <2>1. ASSUME NEW r \in Requests(t), NoRoom(t, r) PROVE IInv'
    BY <1>1, <1>2, <2>1, NoRoomStep DEF IInv
  <2>2. ASSUME NEW r \in Requests(t), NEW x \in Own(t), New(t, x, r) PROVE IInv'
    BY <1>1, <1>2, <2>2, NewStep DEF IInv
  <2>3. ASSUME NEW x \in Own(t), Clear(t, x) PROVE IInv'
    BY <1>1, <1>2, <2>3, ProgramStep DEF IInv
  <2>4. ASSUME NEW x \in Own(t), Retry(t, x) PROVE IInv'
    BY <1>1, <1>2, <2>4, RetryStep DEF IInv
  <2>5. ASSUME NEW x \in Own(t), NEW y \in Own(t), Assign(t, x, y) \/ Read(t, x, y) PROVE IInv'
    BY <1>1, <1>2, <2>5, ProgramStep DEF IInv
  <2>6. ASSUME NEW x \in Own(t), NEW y \in Own(t), Write(t, x, y) PROVE IInv'
    BY <1>1, <1>2, <2>6, WriteGood DEF IInv
  <2>. QED
    BY <1>3, <2>1, <2>2, <2>3, <2>4, <2>5, <2>6 DEF Program
<1>4. ASSUME NEW t \in Threads, Collection(t) PROVE IInv'
  <2>1. CASE Collect(t, {})
    BY <1>1, <1>2, <2>1, CollectStep DEF IInv
  <2>2. CASE SweepMarked(t)
    BY <1>1, <1>2, <2>2, SweepMarkedStep DEF IInv
  <2>3. CASE SweepFree(t)
    BY <1>1, <1>2, <2>3, SweepFreeStep DEF IInv
  <2>4. CASE \E granted \in 0 .. Wanted(t) : ClearFreeList(t, granted)
    BY <1>1, <1>2, <2>4, ClearStep DEF IInv
  <2>. QED
    BY <1>4, <2>1, <2>2, <2>3, <2>4 DEF Collection
<1>5. CASE MarkAgain
  BY <1>1, <1>2, <1>5, MarkAgainStep DEF IInv
<1>6. CASE Mark
  BY <1>1, <1>2, <1>6, MarkStep DEF IInv
<1>7. CASE StartSweep
  BY <1>1, <1>2, <1>7, StartSweepStep DEF IInv
<1>8. CASE Restart
  BY <1>1, <1>2, <1>8, RestartStep DEF IInv
<1>. QED
  BY <1>3, <1>4, <1>5, <1>6, <1>7, <1>8 DEF Next

-----------------------------------------------------------------------------
(***************************************************************************)
(* The beginning.                                                          *)
(***************************************************************************)
(* Where the first descriptors are.                                        *)
LEMMA FirstPool ==
  /\ DD = 2 /\ D = 6 /\ First(1) = 2 /\ End(1) = PoolWords + 2 /\ PoolWords \in Nat /\ PoolWords >= 11
  /\ 1 \in Pools /\ Area(1) = 2 .. PoolWords + 1 /\ Area(1) \subseteq Words
<1>1. PoolWords \in Nat /\ PoolWords >= 11 /\ 1 \in Pools /\ Area(1) \subseteq Words
  BY PoolsApart
<1>2. First(1) = 2
  BY <1>1 DEF First
<1>. QED
  BY <1>1, <1>2 DEF DD, D, DescriptorWords, End, Area

\* The words of the first pool at the beginning.
FirstWordsOf(m) ==
    /\ m \in [Words -> Nat]
    /\ m[2] = 2 /\ m[3] = 4 /\ m[4] = 0 /\ m[5] = 5
    /\ m[6] = 2 /\ m[7] = 3 /\ m[8] = 0 /\ m[9] = 3
    /\ m[10] = 0 /\ m[11] = PoolWords - 8

(* They are two descriptors and a free block.                              *)
LEMMA FirstHeap ==
  ASSUME NEW m, FirstWordsOf(m)
  PROVE  HeapRight(m, {}, {2, 6, 10}, {1}) /\ ObjectsIn(m, {}, {2, 6, 10}) = {2, 6} /\ Shut(m, {2, 6})
<1>. DEFINE B == {2, 6, 10}
            z == SizesOf(m, {}, B)
<1>1. ObjectsIn(m, {}, B) = {2, 6}
  BY DEF ObjectsIn, FirstWordsOf
<1>2. z[2] = 4 /\ z[6] = 4 /\ z[10] = PoolWords - 8
  BY DEF SizesOf, Size, FirstWordsOf
<1>3. Inside({1}) = 2 .. PoolWords + 1
  BY FirstPool DEF Inside
<1>. HIDE DEF z
<1>4. Tiles(z, B, {1})
  <2>1. {1} \subseteq Pools /\ B \subseteq Inside({1}) /\ \A p \in {1} : First(p) \in B
    BY <1>3, FirstPool
  <2>2. \A a \in B : z[a] \in Nat /\ z[a] >= PlainWords
    BY <1>2, FirstPool DEF PlainWords
  <2>3. \A a \in B : a + z[a] <= End(1) /\ (a + z[a] = End(1) \/ a + z[a] \in B)
    BY <1>2, FirstPool
  <2>4. \A a, b \in B : a < b => a + z[a] <= b
    BY <1>2
  <2>. QED
    BY <2>1, <2>2, <2>3, <2>4 DEF Tiles
<1>5. TypesRight(m, {2, 6})
  BY FirstPool DEF TypesRight, IsType, FirstWordsOf, DescriptorWords, PlainWords
<1>6. \A a \in {2, 6} : m[a] \in Words /\ m[a] + 1 \in Words /\ m[a] + 1 \notin B
  <2>1. 2 \in Words /\ 3 \in Words
    BY FirstPool
  <2>. QED
    BY <2>1 DEF FirstWordsOf
<1>7. Shut(m, {2, 6})
  BY FirstPool DEF Shut, FirstWordsOf
<1>. QED
  BY <1>1, <1>4, <1>5, <1>6, <1>7 DEF HeapRight, FirstWordsOf, z

(* In the beginning there are two descriptors.                             *)
LEMMA InitGood ==
  ASSUME Init
  PROVE  IInv
<1>. DEFINE B == {2, 6, 10}
            X == {2, 6}
<1>1. /\ marked = {} /\ var = [x \in Vars |-> 0] /\ phase = "run" /\ toSearch = <<>>
      /\ pc = [t \in Threads |-> "run"] /\ gc = [t \in Threads |-> "idle"]
      /\ req = [t \in Threads |-> NoRequest]
      /\ pool = [t \in Threads |-> 0] /\ cur = [t \in Threads |-> 0]
      /\ lastFree = [t \in Threads |-> 0] /\ survivors = [t \in Threads |-> 0]
      /\ gen0 = [t \in Threads |-> IF t = Main THEN <<1>> ELSE <<>>]
      /\ freeList = [t \in Threads |-> IF t = Main THEN <<10>> ELSE <<>>]
  BY FirstPool DEF Init, PerThread
<1>2. FirstWordsOf(mem)
  <2>1. mem = [w \in Words |->
                CASE w \in {2, 6} -> 2
                  [] w = 3 -> 4
                  [] w = 7 -> 3
                  [] w = 5 -> 5
                  [] w = 9 -> 3
                  [] w = 11 -> PoolWords - 8
                  [] OTHER -> 0]
    BY FirstPool DEF Init, DescriptorWords, PlainWords
  <2>2. {2, 3, 4, 5, 6, 7, 8, 9, 10, 11} \subseteq Words
    BY FirstPool
  <2>3. PoolWords - 8 \in Nat
    BY FirstPool
  <2>. DEFINE f(w) == CASE w \in {2, 6} -> 2
                  [] w = 3 -> 4
                  [] w = 7 -> 3
                  [] w = 5 -> 5
                  [] w = 9 -> 3
                  [] w = 11 -> PoolWords - 8
                  [] OTHER -> 0
  <2>4. \A w : f(w) \in Nat
    BY <2>3
  <2>5. f(2) = 2 /\ f(3) = 4 /\ f(4) = 0 /\ f(5) = 5 /\ f(6) = 2 /\ f(7) = 3 /\ f(8) = 0 /\ f(9) = 3
        /\ f(10) = 0 /\ f(11) = PoolWords - 8
    OBVIOUS
  <2>6. mem = [w \in Words |-> f(w)]
    BY <2>1
  <2>. HIDE DEF f
  <2>7. mem \in [Words -> Nat]
    BY <2>4, <2>6
  <2>. QED
    BY <2>2, <2>5, <2>6, <2>7 DEF FirstWordsOf
<1>3. HeapRight(mem, {}, B, {1}) /\ ObjectsIn(mem, {}, B) = X /\ Shut(mem, X)
  BY <1>2, FirstHeap
<1>4. Main \in Threads
  BY PoolAssumption
<1>5. Nodes(freeList, gc) = {}
  BY <1>1 DEF Nodes, Sweepy
<1>6. <<1>> \in Seq(Pools) /\ Range(<<1>>) = {1} /\ IsInjective(<<1>>)
  BY FirstPool, OneElement
<1>7. <<10>> \in Seq(Words) /\ Range(<<10>>) = {10} /\ IsInjective(<<10>>)
  <2>1. 10 \in Words
    BY FirstPool
  <2>. QED
    BY <2>1, OneElement
<1>8. Range(<<>>) = {} /\ IsInjective(<<>>) /\ <<>> \in Seq(Pools) /\ <<>> \in Seq(Words)
  BY DEF Range, IsInjective
<1>9. Owners(gen0) /\ Owned(gen0) = {1}
  <2>1. \A t \in Threads : Range(gen0[t]) = IF t = Main THEN {1} ELSE {}
    BY <1>1, <1>6, <1>8
  <2>2. gen0 \in [Threads -> Seq(Pools)] /\ \A t \in Threads : IsInjective(gen0[t])
    BY <1>1, <1>6, <1>8
  <2>3. Owned(gen0) = {1}
    BY <1>4, <2>1 DEF Owned
  <2>. QED
    BY <2>1, <2>2, <2>3 DEF Owners
<1>10. Heaps(mem, gen0, freeList, gc, B, {})
  <2>1. freeList \in [Threads -> Seq(Words)]
    BY <1>1, <1>7, <1>8
  <2>2. mem[2] # 0 /\ mem[6] # 0 /\ mem[10] = 0
    BY <1>2 DEF FirstWordsOf
  <2>3. ASSUME NEW t \in Threads
        PROVE  ListRight(mem, {}, (B \intersect HeapOf(gen0, t)) \ {}, freeList[t], gc[t])
    <3>1. CASE t = Main
      <4>1. freeList[t] = <<10>> /\ HeapOf(gen0, t) = 2 .. PoolWords + 1
        BY <1>1, <1>6, <3>1, FirstPool DEF HeapOf, Inside
      <4>2. (B \intersect HeapOf(gen0, t)) \ {} = B
        BY <4>1, FirstPool
      <4>3. Size(mem, {}, 10) = PoolWords - 8 /\ 10 + (PoolWords - 8) # 10
        BY <1>2, FirstPool DEF Size, FirstWordsOf
      <4>. QED
        BY <1>7, <2>2, <4>1, <4>2, <4>3 DEF ListRight
    <3>2. CASE t # Main
      <4>1. freeList[t] = <<>> /\ HeapOf(gen0, t) = {}
        BY <1>1, <1>8, <3>2 DEF HeapOf, Inside
      <4>. QED
        BY <1>8, <4>1 DEF ListRight
    <3>. QED
      BY <3>1, <3>2
  <2>. QED
    BY <1>3, <1>5, <1>9, <2>1, <2>3 DEF Heaps
<1>11. U0 = {}
  BY <1>1, NobodySweeps DEF U0
<1>12. X = LiveOf(X, marked, U0)
  BY <1>11 DEF LiveOf
<1>13. Prog(X)
  BY <1>1 DEF Prog, NoRequest
<1>14. BetweenCollections
  BY <1>1 DEF BetweenCollections
<1>15. Spots(mem, gen0, freeList, gc, B, pool, cur, lastFree)
  BY <1>1 DEF Spots
<1>16. IsHeap(mem, gen0, freeList, gc, B, U0, X) /\ DD \in X /\ D \in X
  BY <1>3, <1>5, <1>10, <1>11, FirstPool DEF IsHeap
<1>. HIDE DEF B, X
<1>17. Good(B, X, X)
  BY <1>1, <1>3, <1>12, <1>13, <1>14, <1>15, <1>16 DEF Good
<1>18. Types
  BY <1>1 DEF Types, NoRequest
<1>. QED
  BY <1>17, <1>18 DEF IInv

(* Heaps are right in every state, if no thread blocks: as IInv says, all  *)
(* steps of portablems.c keep blocks, objects, marks and lists in order.   *)
THEOREM HeapsRight ==
  ASSUME ~ MayBlock
  PROVE  Spec => []IInv
<1>1. Init => IInv
  BY InitGood
<1>2. IInv /\ [Next]_vars => IInv'
  BY NextStep, IdleStep
<1>. QED
  BY <1>1, <1>2, PTL DEF Spec

-----------------------------------------------------------------------------
(***************************************************************************)
(* What Steps finds.                                                       *)
(***************************************************************************)
\* The walk f goes from a word in G to that next to it.
Walk(Dom, G, nx, f) == [a \in Dom |-> IF a \in G THEN {a} \union f[nx[a]] ELSE {a}]

(* There is a walk.                                                        *)
LEMMA WalkExists ==
  ASSUME NEW Dom, NEW G \in SUBSET Dom, NEW nx \in [G -> Dom]
  PROVE  \E f : f = Walk(Dom, G, nx, f)
<1>. DEFINE Stays(C) == \A c \in C \intersect G : nx[c] \in C
            from(a) == {b \in Dom : \A C \in SUBSET Dom : a \in C /\ Stays(C) => b \in C}
            f == [a \in Dom |-> from(a)]
<1>1. ASSUME NEW a \in Dom
      PROVE  /\ from(a) \in SUBSET Dom /\ a \in from(a) /\ Stays(from(a))
             /\ \A C \in SUBSET Dom : a \in C /\ Stays(C) => from(a) \subseteq C
  OBVIOUS
<1>4. \A C : Stays(C) <=> \A c \in C \intersect G : nx[c] \in C
  OBVIOUS
<1>. HIDE DEF from, Stays
<1>2. ASSUME NEW a \in G PROVE from(a) = {a} \union from(nx[a])
  <2>1. a \in Dom /\ nx[a] \in Dom
    OBVIOUS
  <2>2. nx[a] \in from(a)
    BY <1>1, <1>4, <2>1
  <2>3. from(nx[a]) \subseteq from(a)
    BY <1>1, <2>1, <2>2
  <2>4. PICK C : C = {a} \union from(nx[a])
    OBVIOUS
  <2>5. C \in SUBSET Dom /\ a \in C /\ nx[a] \in C
    BY <1>1, <2>1, <2>4
  <2>6. Stays(C)
    BY <1>1, <1>4, <2>1, <2>4, <2>5
  <2>7. from(a) \subseteq C
    BY <1>1, <2>1, <2>5, <2>6
  <2>. QED
    BY <1>1, <2>1, <2>3, <2>4, <2>7
<1>3. ASSUME NEW a \in Dom, a \notin G PROVE from(a) = {a}
  <2>1. PICK C : C = {a}
    OBVIOUS
  <2>2. Stays(C) /\ C \in SUBSET Dom /\ a \in C
    BY <1>3, <1>4, <2>1
  <2>3. from(a) \subseteq C /\ a \in from(a)
    BY <1>1, <2>2
  <2>. QED
    BY <2>1, <2>3
<1>5. \A a \in Dom : f[a] = IF a \in G THEN {a} \union f[nx[a]] ELSE {a}
  BY <1>2, <1>3
<1>6. f = [a \in Dom |-> IF a \in G THEN {a} \union f[nx[a]] ELSE {a}]
  BY <1>5
<1>. HIDE DEF f
<1>. QED
  BY <1>6 DEF Walk

\* Of the words Dom the walk passes those in K, up to the last.
WalksAlong(Dom, G, nx, K, last) ==
    /\ K \subseteq Dom /\ Dom \subseteq Nat
    /\ last \in K /\ last \notin G /\ \A a \in K : a <= last
    /\ \A a \in K \ {last} : /\ a \in G /\ nx[a] \in K /\ a < nx[a]
                             /\ \A b \in K : ~ (a < b /\ b < nx[a])

(* The walk from one of them finds all that come after it.                 *)
LEMMA WalkFacts ==
  ASSUME NEW Dom, NEW G, NEW nx, NEW K, NEW last, WalksAlong(Dom, G, nx, K, last),
         NEW f, f = Walk(Dom, G, nx, f)
  PROVE  \A a \in K : f[a] = {b \in K : b >= a}
<1>. DEFINE Bad == {n \in Nat : \E a \in K : n = last - a /\ f[a] # {b \in K : b >= a}}
<1>1. \A a \in K : a \in Nat /\ last \in Nat /\ a <= last /\ a \in Dom
  BY DEF WalksAlong
<1>2. \A a \in K : f[a] = IF a \in G THEN {a} \union f[nx[a]] ELSE {a}
  BY <1>1 DEF Walk
<1>3. ASSUME Bad # {} PROVE FALSE
  <2>1. PICK n \in Bad : \A k \in Bad : n <= k
    BY <1>3, LeastNatural
  <2>2. PICK a \in K : n = last - a /\ f[a] # {b \in K : b >= a}
    OBVIOUS
  <2>3. a # last
    <3>1. ASSUME a = last PROVE f[a] = {b \in K : b >= a}
      <4>1. f[a] = {a}
        BY <1>2, <3>1 DEF WalksAlong
      <4>2. \A b \in K : b >= a <=> b = a
        BY <1>1, <3>1
      <4>. QED
        BY <4>1, <4>2
    <3>. QED
      BY <2>2, <3>1
  <2>4. a \in G /\ nx[a] \in K /\ a < nx[a] /\ \A b \in K : ~ (a < b /\ b < nx[a])
    BY <2>3 DEF WalksAlong
  <2>5. last - nx[a] \in Nat /\ last - nx[a] < n
    BY <1>1, <2>2, <2>4
  <2>6. last - nx[a] \notin Bad
    BY <1>1, <2>1, <2>5
  <2>7. f[nx[a]] = {b \in K : b >= nx[a]}
    BY <2>4, <2>5, <2>6
  <2>8. f[a] = {a} \union {b \in K : b >= nx[a]}
    BY <1>2, <2>4, <2>7
  <2>9. \A b \in K : b >= a <=> b = a \/ b >= nx[a]
    BY <1>1, <2>4
  <2>. QED
    BY <2>2, <2>8, <2>9
<1>4. ASSUME NEW a \in K PROVE last - a \in Nat
  BY <1>1
<1>. QED
  BY <1>3, <1>4

(* The blocks that Steps finds are those of the pool.                      *)
LEMMA StepsFacts ==
  ASSUME NEW t, NEW p \in Pools, NEW K, K \subseteq First(p) .. End(p), First(p) \in K, End(p) \in K,
         \A a \in K \ {End(p)} : /\ BlockSize(t, a) \in Nat \ {0} /\ a + BlockSize(t, a) \in K
                                 /\ \A b \in K : ~ (a < b /\ b < a + BlockSize(t, a))
  PROVE  Steps(t, p) = K
<1>. DEFINE Dom == First(p) .. End(p)
            z(a) == BlockSize(t, a)
            G == {a \in Dom : a < End(p) /\ a + z(a) \in a + 1 .. End(p)}
            nx == [a \in G |-> a + z(a)]
            c == CHOOSE f : f = [a \in Dom |-> IF a < End(p) /\ a + z(a) \in a + 1 .. End(p)
                                               THEN {a} \union f[a + z(a)] ELSE {a}]
<1>1. Steps(t, p) = c[First(p)]
  BY SMT DEF Steps
<1>2. First(p) \in Nat /\ End(p) \in Nat
  BY PoolFacts
<1>3. Dom \subseteq Nat /\ First(p) \in Dom
  BY <1>2
<1>4. nx \in [G -> Dom]
  <2>. HIDE DEF z
  <2>1. ASSUME NEW a \in G PROVE a + z(a) \in Dom
    BY <1>2
  <2>. QED
    BY <2>1
<1>. HIDE DEF z
<1>5. \A f : [a \in Dom |-> IF a < End(p) /\ a + z(a) \in a + 1 .. End(p)
                              THEN {a} \union f[a + z(a)] ELSE {a}] = Walk(Dom, G, nx, f)
  BY DEF Walk
<1>6. \A a \in K \ {End(p)} : a \in G /\ nx[a] = a + z(a) /\ z(a) \in Nat \ {0} /\ a + z(a) \in K
                              /\ \A b \in K : ~ (a < b /\ b < a + z(a))
  BY <1>2, <1>3 DEF z
<1>7. End(p) \notin G
  BY <1>2
<1>. HIDE DEF Dom, G, nx
<1>8. c = Walk(Dom, G, nx, c)
  <2>1. G \in SUBSET Dom
    BY DEF G
  <2>2. PICK h : h = Walk(Dom, G, nx, h)
    BY <1>4, <2>1, WalkExists
  <2>3. \E f : f = [a \in Dom |-> IF a < End(p) /\ a + z(a) \in a + 1 .. End(p)
                                  THEN {a} \union f[a + z(a)] ELSE {a}]
    BY <1>5, <2>2
  <2>4. c = [a \in Dom |-> IF a < End(p) /\ a + z(a) \in a + 1 .. End(p)
                           THEN {a} \union c[a + z(a)] ELSE {a}]
    BY <2>3, Zenon
  <2>. HIDE DEF c
  <2>. QED
    BY <1>5, <2>4
<1>. HIDE DEF c
<1>9. WalksAlong(Dom, G, nx, K, End(p))
  <2>1. K \subseteq Dom
    BY DEF Dom
  <2>2. \A a \in K : a \in Nat /\ a <= End(p)
    BY <1>2
  <2>3. \A a \in K \ {End(p)} : a < nx[a] /\ nx[a] \in K /\ \A b \in K : ~ (a < b /\ b < nx[a])
    BY <1>6, <2>2
  <2>. QED
    BY <1>3, <1>6, <1>7, <2>1, <2>2, <2>3 DEF WalksAlong
<1>10. c[First(p)] = {b \in K : b >= First(p)}
  BY <1>8, <1>9, WalkFacts
<1>11. \A b \in K : b >= First(p)
  BY <1>2
<1>. QED
  BY <1>1, <1>10, <1>11

(* The sizes of blocks.                                                    *)
LEMMA BlockSizes ==
  ASSUME NEW B, NEW U, Heaps(mem, gen0, freeList, gc, B, U), NEW t \in Threads,
         NEW a \in B, a \in HeapOf(gen0, t)
  PROVE  BlockSize(t, a) = Size(mem, Nodes(freeList, gc), a)
<1>1. a \in Nodes(freeList, gc) <=> gc[t] \in Sweepy /\ a \in Range(freeList[t])
  BY ThreadBlocks
<1>2. CASE a \in Nodes(freeList, gc)
  BY <1>1, <1>2 DEF BlockSize, Size, Sweepy
<1>3. CASE a \notin Nodes(freeList, gc)
  <2>1. mem[a] + 1 \in Words
    <3>1. CASE mem[a] = 0
      <4>1. 1 \in Words
        BY PoolAssumption DEF Words
      <4>. QED
        BY <3>1, <4>1
    <3>2. CASE mem[a] # 0
      <4>1. a \in ObjectsIn(mem, Nodes(freeList, gc), B)
        BY <1>3, <3>2 DEF ObjectsIn
      <4>. QED
        BY <4>1 DEF Heaps, HeapRight
    <3>. QED
      BY <3>1, <3>2
  <2>. QED
    BY <1>1, <1>3, <2>1 DEF BlockSize, FreeSize, Size, Sweepy
<1>. QED
  BY <1>2, <1>3

(* The blocks of a pool.                                                   *)
LEMMA PoolSteps ==
  ASSUME NEW B, NEW U, Heaps(mem, gen0, freeList, gc, B, U), NEW t \in Threads,
         NEW p \in Range(gen0[t])
  PROVE  Steps(t, p) = (B \intersect Area(p)) \union {End(p)} /\ p \in Pools
<1>. DEFINE S == Nodes(freeList, gc)
            K == (B \intersect Area(p)) \union {End(p)}
<1>1. Owners(gen0) /\ HeapRight(mem, S, B, Owned(gen0)) /\ Tiles(SizesOf(mem, S, B), B, Owned(gen0))
  BY DEF Heaps, HeapRight
<1>2. p \in Owned(gen0) /\ p \in Pools
  <2>1. p \in Owned(gen0)
    BY DEF Owned
  <2>. QED
    BY <1>1, <2>1, HeapsApart
<1>3. First(p) \in Nat /\ End(p) \in Nat /\ First(p) \in Area(p) /\ First(p) \in B
      /\ \A w \in Area(p) : w \in Nat /\ First(p) <= w /\ w < End(p)
  BY <1>1, <1>2, PoolFacts DEF Tiles
<1>4. K \subseteq First(p) .. End(p) /\ First(p) \in K /\ End(p) \in K
  BY <1>3
<1>5. ASSUME NEW a \in B, a \in Area(p)
      PROVE  /\ BlockSize(t, a) \in Nat \ {0} /\ a + BlockSize(t, a) \in K
             /\ \A b \in K : ~ (a < b /\ b < a + BlockSize(t, a))
  <2>. DEFINE z == Size(mem, S, a)
  <2>1. a \in HeapOf(gen0, t)
    BY <1>5 DEF HeapOf, Inside
  <2>2. BlockSize(t, a) = z
    BY <2>1, BlockSizes
  <2>3. z \in Nat /\ z >= 3 /\ SizesOf(mem, S, B)[a] = z
    BY <1>1, SizeFacts
  <2>4. a + z <= End(p) /\ (a + z = End(p) \/ a + z \in B) /\ \A b \in B : a < b => a + z <= b
    BY <1>1, <1>2, <1>5, <2>3 DEF Tiles
  <2>5. a \in Nat /\ First(p) <= a
    BY <1>3, <1>5
  <2>. HIDE DEF z
  <2>6. a + z \in K
    <3>1. CASE a + z = End(p)
      BY <3>1
    <3>2. CASE a + z # End(p)
      <4>1. First(p) <= a + z /\ a + z <= End(p) - 1 /\ a + z \in Nat
        BY <1>3, <2>3, <2>4, <2>5, <3>2
      <4>2. a + z \in Area(p)
        BY <1>3, <4>1 DEF Area
      <4>. QED
        BY <2>4, <3>2, <4>2
    <3>. QED
      BY <3>1, <3>2
  <2>7. \A b \in K : ~ (a < b /\ b < a + z)
    BY <1>3, <2>3, <2>4, <2>5
  <2>. QED
    BY <2>2, <2>3, <2>6, <2>7
<1>6. \A a \in K \ {End(p)} : /\ BlockSize(t, a) \in Nat \ {0} /\ a + BlockSize(t, a) \in K
                              /\ \A b \in K : ~ (a < b /\ b < a + BlockSize(t, a))
  <2>1. \A a \in K \ {End(p)} : a \in B /\ a \in Area(p)
    OBVIOUS
  <2>. HIDE DEF K
  <2>. QED
    BY <1>5, <2>1
<1>. HIDE DEF K
<1>7. Steps(t, p) = K
  BY <1>2, <1>4, <1>6, StepsFacts
<1>. QED
  BY <1>2, <1>7 DEF K

(* The blocks of a thread.                                                 *)
LEMMA BlocksFacts ==
  ASSUME NEW B, NEW U, Heaps(mem, gen0, freeList, gc, B, U), NEW t \in Threads
  PROVE  Blocks(t) = B \intersect HeapOf(gen0, t)
<1>1. ASSUME NEW p \in Range(gen0[t]) PROVE Steps(t, p) \ {End(p)} = B \intersect Area(p)
  <2>1. Steps(t, p) = (B \intersect Area(p)) \union {End(p)} /\ p \in Pools
    BY PoolSteps
  <2>2. End(p) \notin Area(p)
    BY <2>1, PoolFacts DEF Area
  <2>. QED
    BY <2>1, <2>2
<1>. QED
  BY <1>1 DEF Blocks, HeapOf, Inside

-----------------------------------------------------------------------------
(***************************************************************************)
(* What the invariant says.                                                *)
(***************************************************************************)
(* What is left to be swept is in heaps whose threads still sweep.         *)
LEMMA NoneLeft ==
  ASSUME NEW t \in Threads, Owners(gen0), gc[t] # "sweep"
  PROVE  U0 \intersect HeapOf(gen0, t) = {}
BY UnsweptFacts DEF U0

(* The types of the variables.                                             *)
LEMMA TypesFollow ==
  ASSUME IInv
  PROVE  TypeOk
<1>1. PICK B, X, L : Good(B, X, L)
  BY DEF IInv
<1>2. Types
  BY DEF IInv
<1>3. /\ Owners(gen0) /\ freeList \in [Threads -> Seq(Words)]
      /\ L \subseteq Words /\ X \subseteq Words /\ mem \in [Words -> Nat]
  BY <1>1, HeapFacts
<1>4. marked \subseteq Words
  <2>1. CASE phase = "run"
    BY <1>1, <2>1 DEF Good, BetweenCollections
  <2>2. CASE phase = "mark"
    BY <1>1, <1>2, <1>3, <2>2, MarkFacts
  <2>3. CASE phase = "sweep"
    BY <1>1, <1>3, <2>3 DEF Good, Sweeping
  <2>. QED
    BY <1>2, <2>1, <2>2, <2>3 DEF Types
<1>5. Prog(L)
  BY <1>1 DEF Good
<1>6. var \in [Vars -> Words \union {0}]
  BY <1>3, <1>5 DEF Prog
<1>7. \A t \in Threads : req[t].d # 0 <=> pc[t] \in {"full", "retry"}
  BY <1>5 DEF Prog
<1>8. ASSUME NEW t \in Threads
      PROVE  /\ gen0[t] \in Seq(Pools) /\ IsInjective(gen0[t])
             /\ freeList[t] \in Seq(Words)
             /\ \A u \in Threads \ {t} : Range(gen0[t]) \intersect Range(gen0[u]) = {}
  BY <1>3 DEF Owners
<1>9. gc \in [Threads -> {"idle", "sweep", "swept", "clear", "away"}]
  BY <1>2 DEF Types
<1>. QED
  BY <1>2, <1>3, <1>4, <1>6, <1>7, <1>8, <1>9 DEF TypeOk, Types

(* Pools are blocks from end to end.                                       *)
LEMMA ParsesFollow ==
  ASSUME IInv
  PROVE  HeapParses
<1>1. PICK B, X, L : Good(B, X, L)
  BY DEF IInv
<1>2. Heaps(mem, gen0, freeList, gc, B, U0)
  BY <1>1 DEF Good, IsHeap
<1>3. ASSUME NEW t \in Threads, NEW p \in Range(gen0[t]) PROVE End(p) \in Steps(t, p)
  <2>1. Steps(t, p) = (B \intersect Area(p)) \union {End(p)}
    BY <1>2, PoolSteps
  <2>. QED
    BY <2>1
<1>. QED
  BY <1>3, TypesFollow DEF HeapParses

(* Free lists are exact.                                                   *)
LEMMA ListsFollow ==
  ASSUME IInv
  PROVE  FreeListExact
<1>1. PICK B, X, L : Good(B, X, L)
  BY DEF IInv
<1>2. Heaps(mem, gen0, freeList, gc, B, U0)
  BY <1>1 DEF Good, IsHeap
<1>. DEFINE S == Nodes(freeList, gc)
<1>3. ASSUME NEW t \in Threads, gc[t] = "idle"
      PROVE  /\ Range(freeList[t]) = Free(t)
             /\ IsInjective(freeList[t])
             /\ \A a \in Free(t) : a + mem[a + 1] \notin Free(t)
  <2>. DEFINE K == B \intersect HeapOf(gen0, t)
  <2>1. U0 \intersect HeapOf(gen0, t) = {}
    BY <1>1, <1>3, NoneLeft, HeapFacts
  <2>2. ListRight(mem, S, K, freeList[t], "idle")
    <3>1. ListRight(mem, S, K \ U0, freeList[t], gc[t])
      BY <1>2 DEF Heaps
    <3>2. K \ U0 = K
      BY <2>1
    <3>. QED
      BY <1>3, <3>1, <3>2
  <2>3. Blocks(t) = K
    BY <1>2, BlocksFacts
  <2>. HIDE DEF S
  <2>4. Free(t) = Range(freeList[t])
    BY <2>2, <2>3 DEF Free, ListRight
  <2>5. ASSUME NEW a \in Range(freeList[t]) PROVE Size(mem, S, a) = mem[a + 1]
    <3>1. mem[a] = 0 /\ a \in HeapOf(gen0, t)
      BY <2>2 DEF ListRight
    <3>2. a \notin S
      BY <1>2, <1>3, <3>1, ThreadBlocks DEF S, Sweepy
    <3>. QED
      BY <3>1, <3>2 DEF Size
  <2>. QED
    BY <2>2, <2>4, <2>5 DEF ListRight
<1>. QED
  BY <1>3 DEF FreeListExact

(* What can be reached are the live objects, if these are what the roots   *)
(* generate.                                                               *)
LEMMA ReachableIs ==
  ASSUME NEW ps, NEW S, NEW B, HeapRight(mem, S, B, ps),
         NEW L, L \subseteq ObjectsIn(mem, S, B), L \subseteq Words, Shut(mem, L),
         Roots \subseteq L, Generated(mem, Roots, L)
  PROVE  Reachable = L
<1>1. \A a \in L : Pointers(a) = Links(mem, a) /\ mem[a] # 0
  BY PointerFacts DEF ObjectsIn
<1>2. \A a \in L : Links(mem, a) \subseteq L
  BY DEF Links, Shut
<1>3. /\ Reachable \in SUBSET Words /\ Roots \subseteq Reachable
      /\ \A a \in Reachable : mem[a] # 0 => Words \intersect Pointers(a) \subseteq Reachable
      /\ \A C \in SUBSET Words :
           Roots \subseteq C /\ (\A a \in C : mem[a] # 0 => Words \intersect Pointers(a) \subseteq C)
           => Reachable \subseteq C
  <2>1. Roots \subseteq Words
    OBVIOUS
  <2>. QED
    BY <2>1, ReachableFacts
<1>4. Reachable \subseteq L
  BY <1>1, <1>2, <1>3
<1>. DEFINE R == Reachable
<1>. HIDE DEF R
<1>5. \A a \in R \intersect L : Links(mem, a) \subseteq R
  BY <1>1, <1>2, <1>3 DEF R
<1>6. R \in SUBSET Words /\ Roots \subseteq R
  BY <1>3 DEF R
<1>7. L \subseteq R
  BY <1>5, <1>6 DEF Generated
<1>. QED
  BY <1>4, <1>7 DEF R

(* What a swept heap holds can be reached.                                 *)
LEMMA LiveFollows ==
  ASSUME IInv
  PROVE  SweptHeapIsLive
<1>1. PICK B, X, L : Good(B, X, L)
  BY DEF IInv
<1>2. SUFFICES ASSUME NEW t \in Threads, phase = "sweep", gc[t] = "swept"
               PROVE  /\ Objects(t) = Reachable \intersect Blocks(t)
                      /\ marked \intersect Objects(t) = {}
  BY DEF SweptHeapIsLive
<1>. DEFINE S == Nodes(freeList, gc)
<1>3. /\ Heaps(mem, gen0, freeList, gc, B, U0) /\ Sweeping(X, L) /\ Shut(mem, L) /\ Prog(L)
      /\ DD \in L /\ D \in L /\ L = LiveOf(X, marked, U0)
  BY <1>1, <1>2, SweepFacts
<1>4. HeapRight(mem, S, B, Owned(gen0)) /\ Owners(gen0) /\ X = ObjectsIn(mem, S, B)
      /\ L \subseteq X /\ X \subseteq B /\ B \subseteq Words
  BY <1>1, HeapFacts
<1>5. Reachable = L
  <2>1. Roots \subseteq L /\ Generated(mem, Roots, L)
    BY <1>3, RootsLive DEF Sweeping
  <2>2. L \subseteq ObjectsIn(mem, S, B) /\ L \subseteq Words /\ Shut(mem, L) /\ HeapRight(mem, S, B, Owned(gen0))
    BY <1>3, <1>4
  <2>. HIDE DEF S
  <2>. QED
    BY <2>1, <2>2, ReachableIs
<1>6. Blocks(t) = B \intersect HeapOf(gen0, t)
  BY <1>3, BlocksFacts
<1>7. U0 \intersect HeapOf(gen0, t) = {}
  BY <1>2, <1>4, NoneLeft
<1>8. \A a \in HeapOf(gen0, t) : a \in S <=> a \in Range(freeList[t])
  BY <1>2, <1>3, ThreadBlocks DEF Sweepy
<1>. HIDE DEF S
<1>9. Objects(t) = X \intersect HeapOf(gen0, t)
  BY <1>4, <1>6, <1>8 DEF Objects, ObjectsIn
<1>10. L \intersect HeapOf(gen0, t) = X \intersect HeapOf(gen0, t)
  BY <1>3, <1>7 DEF LiveOf
<1>11. marked \intersect Objects(t) = {}
  BY <1>3, <1>7, <1>9 DEF Sweeping
<1>12. L \intersect Blocks(t) = X \intersect HeapOf(gen0, t)
  BY <1>4, <1>6, <1>10
<1>. QED
  BY <1>5, <1>9, <1>11, <1>12

(* When marking is over what can be reached has its mark.                  *)
LEMMA MarksFollow ==
  ASSUME IInv
  PROVE  ReachableMarked
<1>1. PICK B, X, L : Good(B, X, L)
  BY DEF IInv
<1>2. SUFFICES ASSUME phase = "mark", toSearch = <<>> PROVE Reachable \subseteq marked
  BY DEF ReachableMarked
<1>. DEFINE S == Nodes(freeList, gc)
<1>3. Types
  BY DEF IInv
<1>4. /\ marked \subseteq X /\ Roots \subseteq marked /\ Shut(mem, marked) /\ Generated(mem, Roots, marked)
  BY <1>1, <1>2, <1>3, MarkedShut
<1>5. HeapRight(mem, S, B, Owned(gen0)) /\ X = ObjectsIn(mem, S, B) /\ X \subseteq Words
  BY <1>1, HeapFacts
<1>. HIDE DEF S
<1>6. Reachable = marked
  BY <1>4, <1>5, ReachableIs
<1>. QED
  BY <1>6

-----------------------------------------------------------------------------
(***************************************************************************)
(* The invariants that hold if no thread blocks.                           *)
(***************************************************************************)
(* Every variable has its type.                                            *)
THEOREM TypeCorrect ==
  ASSUME ~ MayBlock
  PROVE  Spec => []TypeOk
BY HeapsRight, TypesFollow, PTL

(* In every state no pool has two owners, and heaps can be read from block *)
(* to block, as the sweep does (portablems.c:478, 486, 523).               *)
THEOREM HeapsParse ==
  ASSUME ~ MayBlock
  PROVE  Spec => []HeapParses
BY HeapsRight, ParsesFollow, PTL

(* Between collections free lists have every free block once, and none     *)
(* beside another (portablems.c:68-87, 490-505, 522).                      *)
THEOREM FreeListsExact ==
  ASSUME ~ MayBlock
  PROVE  Spec => []FreeListExact
BY HeapsRight, ListsFollow, PTL

(* A sweep frees what cannot be reached, and nothing else, and leaves no   *)
(* mark (portablems.c:376-382, 467-475).                                   *)
THEOREM SweepFreesTheDead ==
  ASSUME ~ MayBlock
  PROVE  Spec => []SweptHeapIsLive
BY HeapsRight, LiveFollows, PTL

(* When marking is over, what can be reached has its mark, as long as no   *)
(* thread blocks: that threads do is the only way to what the run          *)
(* portablems_blocked shows (portablems.c:350).                            *)
THEOREM MarksAreComplete ==
  ASSUME ~ MayBlock
  PROVE  Spec => []ReachableMarked
BY HeapsRight, MarksFollow, PTL

-----------------------------------------------------------------------------
(***************************************************************************)
(* What the program can see of the heap.                                   *)
(***************************************************************************)
\* What the pointer of the object a refers to, if it has one.
Target(m, a) == IF m[a] = D THEN m[a + 1] ELSE 0

\* S is what variables v lead to in the words m.
IsLed(v, m, S) ==
    /\ S \in SUBSET Words
    /\ Range(v) \ {0} \subseteq S
    /\ \A a \in S : Target(m, a) \in S \union {0}
    /\ \A C \in SUBSET S :
          Range(v) \ {0} \subseteq C /\ (\A a \in C : Target(m, a) \in C \union {0}) => S \subseteq C

\* The objects S as an object graph has them.
MembersOf(m, S) == [a \in S |-> [f \in {1} |-> Target(m, a)]]

\* Graph's objects.
GraphMember ==
    LET free == FreeWords
    IN [a \in Led |-> [f \in {1} |-> IF mem[a] = 0 \/ a \in free THEN Lost
                                      ELSE IF HasMember(a) THEN mem[a + f] ELSE 0]]

\* They are the live objects that the variables lead to.
LedRight == IsLed(var, mem, Led) /\ GraphMember = MembersOf(mem, Led)

(* What the variables lead to is alive.                                    *)
LEMMA LedLive ==
  ASSUME NEW B, NEW X, NEW L, Good(B, X, L)
  PROVE  Led \subseteq L \ {DD, D} /\ IsLed(var, mem, Led)
<1>1. /\ HeapRight(mem, Nodes(freeList, gc), B, Owned(gen0)) /\ L \subseteq ObjectsIn(mem, Nodes(freeList, gc), B)
      /\ L \subseteq Words /\ Words \subseteq Nat \ {0}
  BY HeapFacts
<1>2. Shut(mem, L) /\ var \in [Vars -> (L \ {DD, D}) \union {0}]
  BY DEF Good, Prog
<1>3. ASSUME NEW a \in L
      PROVE  /\ HasMember(a) <=> mem[a] = D
             /\ HasMember(a) => mem[a + 1] \in (L \ {DD, D}) \union {0} /\ Target(mem, a) = mem[a + 1]
             /\ ~ HasMember(a) => Target(mem, a) = 0
  <2>1. HasMember(a) <=> mem[a] = D
    BY <1>1, <1>2, <1>3, PointerFacts
  <2>2. mem[a] = D => mem[a + 1] \in (L \ {DD, D}) \union {0}
    BY <1>2, <1>3 DEF Shut
  <2>. QED
    BY <2>1, <2>2 DEF Target
<1>4. Range(var) \ {0} \subseteq L \ {DD, D}
  BY <1>2 DEF Range
<1>5. /\ Led \in SUBSET Words /\ Range(var) \ {0} \subseteq Led
      /\ \A a \in Led : HasMember(a) /\ mem[a + 1] \in Words => mem[a + 1] \in Led
      /\ \A C \in SUBSET Words :
           Range(var) \ {0} \subseteq C /\ (\A a \in C : HasMember(a) /\ mem[a + 1] \in Words => mem[a + 1] \in C)
           => Led \subseteq C
  BY <1>1, <1>4, LedFacts
<1>6. Led \subseteq L \ {DD, D}
  <2>1. \A a \in L \ {DD, D} : HasMember(a) /\ mem[a + 1] \in Words => mem[a + 1] \in L \ {DD, D}
    BY <1>1, <1>3
  <2>. QED
    BY <1>1, <1>4, <1>5, <2>1
<1>7. ASSUME NEW a \in Led PROVE Target(mem, a) \in Led \union {0}
  <2>1. a \in L
    BY <1>6, <1>7
  <2>2. CASE HasMember(a)
    <3>1. Target(mem, a) = mem[a + 1] /\ mem[a + 1] \in L \union {0}
      BY <1>3, <2>1, <2>2
    <3>2. mem[a + 1] # 0 => mem[a + 1] \in Led
      BY <1>1, <1>5, <1>7, <2>2, <3>1
    <3>. QED
      BY <3>1, <3>2
  <2>3. CASE ~ HasMember(a)
    BY <1>3, <2>1, <2>3
  <2>. QED
    BY <2>2, <2>3
<1>8. ASSUME NEW C \in SUBSET Led, Range(var) \ {0} \subseteq C, \A a \in C : Target(mem, a) \in C \union {0}
      PROVE  Led \subseteq C
  <2>1. ASSUME NEW a \in C, HasMember(a), mem[a + 1] \in Words PROVE mem[a + 1] \in C
    <3>1. a \in L /\ Target(mem, a) = mem[a + 1] /\ mem[a + 1] # 0
      BY <1>1, <1>3, <1>6, <2>1
    <3>. QED
      BY <1>8, <3>1
  <2>2. C \in SUBSET Words
    BY <1>5
  <2>. QED
    BY <1>5, <1>8, <2>1, <2>2
<1>. QED
  BY <1>5, <1>6, <1>7, <1>8 DEF IsLed

(* A live object is in no free block.                                      *)
LEMMA LiveNotFree ==
  ASSUME Types, NEW B, NEW X, NEW L, Good(B, X, L), NEW a \in X
  PROVE  mem[a] # 0 /\ a \notin FreeWords
<1>1. /\ HeapRight(mem, Nodes(freeList, gc), B, Owned(gen0)) /\ X = ObjectsIn(mem, Nodes(freeList, gc), B)
      /\ a \in B /\ B \subseteq Words /\ Words \subseteq Nat \ {0}
  BY HeapFacts
<1>2. mem[a] # 0 /\ a \notin Nodes(freeList, gc)
  BY <1>1 DEF ObjectsIn
<1>3. Heaps(mem, gen0, freeList, gc, B, U0)
  BY DEF Good, IsHeap
<1>4. ASSUME NEW t \in Threads, NEW n \in Range(freeList[t])
      PROVE  a \notin n .. n + BlockSize(t, n) - 1
  <2>1. n \in B /\ n \in HeapOf(gen0, t)
    BY <1>3, ThreadBlocks
  <2>2. BlockSize(t, n) = Size(mem, Nodes(freeList, gc), n)
    BY <1>3, <2>1, BlockSizes
  <2>3. n # a
    <3>1. CASE gc[t] = "idle"
      <4>1. mem[n] = 0
        BY <1>3, <3>1 DEF Heaps, ListRight
      <4>. QED
        BY <1>2, <4>1
    <3>2. CASE gc[t] # "idle"
      <4>1. gc[t] \in Sweepy
        BY <3>2 DEF Types, Sweepy
      <4>2. n \in Nodes(freeList, gc)
        BY <4>1 DEF Nodes
      <4>. QED
        BY <1>2, <4>2
    <3>. QED
      BY <3>1, <3>2
  <2>. DEFINE z == Size(mem, Nodes(freeList, gc), n)
              y == Size(mem, Nodes(freeList, gc), a)
  <2>4. n \in Nat /\ a \in Nat /\ z \in Nat /\ y \in Nat /\ y >= 3 /\ (n + z <= a \/ a + y <= n)
    BY <1>1, <2>1, <2>3, FirstWords
  <2>. HIDE DEF z, y
  <2>5. a \notin n .. n + z - 1
    BY <2>4
  <2>. QED
    BY <2>2, <2>5 DEF z
<1>. QED
  BY <1>2, <1>4 DEF FreeWords

(* Graph's objects are right.                                              *)
LEMMA LedIsRight == IInv => LedRight
<1>. SUFFICES ASSUME IInv PROVE LedRight
  OBVIOUS
<1>1. PICK B, X, L : Good(B, X, L)
  BY DEF IInv
<1>2. Led \subseteq L \ {DD, D} /\ IsLed(var, mem, Led)
  BY <1>1, LedLive
<1>3. /\ HeapRight(mem, Nodes(freeList, gc), B, Owned(gen0)) /\ L \subseteq ObjectsIn(mem, Nodes(freeList, gc), B)
      /\ L \subseteq X
  BY <1>1, HeapFacts
<1>4. Shut(mem, L) /\ Types
  BY <1>1 DEF Good, IInv
<1>5. ASSUME NEW a \in Led
      PROVE  /\ ~ (mem[a] = 0 \/ a \in FreeWords)
             /\ Target(mem, a) = IF HasMember(a) THEN mem[a + 1] ELSE 0
  <2>1. a \in L
    BY <1>2, <1>5
  <2>2. a \in X
    BY <1>3, <2>1
  <2>3. mem[a] # 0 /\ a \notin FreeWords
    BY <1>1, <1>4, <2>2, LiveNotFree
  <2>4. HasMember(a) <=> mem[a] = D
    BY <1>3, <1>4, <2>1, PointerFacts
  <2>. QED
    BY <2>3, <2>4 DEF Target
<1>6. GraphMember = MembersOf(mem, Led)
  BY <1>5 DEF GraphMember, MembersOf
<1>. QED
  BY <1>2, <1>6 DEF LedRight

(* It does not matter what is in other words.                              *)
LEMMA SameLed ==
  ASSUME NEW v, NEW m, NEW S, IsLed(v, m, S), NEW m2, NEW T, IsLed(v, m2, T),
         \A a \in S : Target(m2, a) = Target(m, a)
  PROVE  T = S
<1>. DEFINE C == S \intersect T
<1>1. C \in SUBSET S /\ C \in SUBSET T /\ Range(v) \ {0} \subseteq C
  BY DEF IsLed
<1>2. \A a \in C : Target(m, a) \in C \union {0} /\ Target(m2, a) \in C \union {0}
  BY DEF IsLed
<1>. HIDE DEF C
<1>3. S \subseteq C /\ T \subseteq C
  BY <1>1, <1>2 DEF IsLed
<1>. QED
  BY <1>1, <1>3

(* The program goes on with variables v and objects S if what v leads to   *)
(* is in S.                                                                *)
LEMMA BecomeFacts ==
  ASSUME NEW v, NEW m, NEW R, IsLed(v, m, R),
         NEW S \in SUBSET Words, Range(v) \ {0} \subseteq S, \A a \in S : Target(m, a) \in S \union {0},
         NEW M, M = MembersOf(m, S)
  PROVE  MembersOf(m, R) = Graph!Restrict(M, Graph!Reached(v, M))
<1>. DEFINE F == {1}
            Q == ReachedIn(v, M, F, 0)
<1>1. DOMAIN M = S /\ \A a \in S : \A f \in F : M[a][f] = Target(m, a)
  BY DEF MembersOf
<1>2. IsFiniteSet(S)
  BY FiniteWords, FS_Subset
<1>3. Closed(M, S, F, 0)
  BY <1>1 DEF Closed
<1>4. \A x \in DOMAIN v : v[x] \in S \union {0}
  BY DEF Range
<1>. HIDE DEF F
<1>5. /\ Q \in SUBSET S
      /\ \A x \in DOMAIN v : v[x] # 0 => v[x] \in Q
      /\ \A i \in Q, f \in F : M[i][f] # 0 => M[i][f] \in Q
      /\ \A C \in SUBSET S :
           /\ \A x \in DOMAIN v : v[x] # 0 => v[x] \in C
           /\ \A i \in C, f \in F : M[i][f] # 0 => M[i][f] \in C
           => Q \subseteq C
  BY <1>1, <1>2, <1>3, <1>4, ReachedFacts
<1>. HIDE DEF Q
<1>6. 1 \in F
  BY DEF F
<1>7. Range(v) \ {0} \subseteq Q /\ \A a \in Q : Target(m, a) \in Q \union {0}
  <2>1. Range(v) \ {0} \subseteq Q
    BY <1>5 DEF Range
  <2>2. ASSUME NEW a \in Q PROVE Target(m, a) \in Q \union {0}
    BY <1>1, <1>5, <1>6, <2>2
  <2>. QED
    BY <2>1, <2>2
<1>8. R \subseteq Q
  <2>. DEFINE C == R \intersect Q
  <2>1. C \in SUBSET R /\ Range(v) \ {0} \subseteq C /\ \A a \in C : Target(m, a) \in C \union {0}
    BY <1>7 DEF IsLed
  <2>. HIDE DEF C
  <2>2. R \subseteq C
    BY <2>1 DEF IsLed
  <2>. QED
    BY <2>2 DEF C
<1>9. Q \subseteq R
  <2>. DEFINE C == R \intersect S
  <2>1. \A x \in DOMAIN v : v[x] # 0 => v[x] \in C
    BY <1>4 DEF IsLed, Range
  <2>2. ASSUME NEW i \in C, NEW f \in F, M[i][f] # 0 PROVE M[i][f] \in C
    <3>1. M[i][f] = Target(m, i) /\ Target(m, i) \in R \union {0} /\ Target(m, i) \in S \union {0}
      BY <1>1, <2>2 DEF IsLed
    <3>. QED
      BY <2>2, <3>1
  <2>3. C \in SUBSET S
    OBVIOUS
  <2>4. Q \subseteq C
    <3>. HIDE DEF C
    <3>. QED
      BY <1>5, <2>1, <2>2, <2>3
  <2>. QED
    BY <2>4
<1>10. R = Q
  BY <1>8, <1>9
<1>11. Q = Graph!Reached(v, M)
  BY SMT DEF Q, F, ReachedIn, Graph!Reached, Range, Graph!Range
<1>12. MembersOf(m, R) = [a \in R |-> M[a]]
  <2>1. \A a \in R : a \in S
    BY <1>5, <1>10
  <2>2. \A a \in R : M[a] = [f \in {1} |-> Target(m, a)]
    BY <2>1 DEF MembersOf
  <2>. QED
    BY <2>2 DEF MembersOf
<1>. QED
  BY <1>10, <1>11, <1>12 DEF Graph!Restrict

-----------------------------------------------------------------------------
(***************************************************************************)
(* The steps of an object graph.                                           *)
(***************************************************************************)
\* The program goes on with variables v and objects M: Graph's Become.
Becomes(v, M) == var' = v /\ GraphMember' = Graph!Restrict(M, Graph!Reached(v, M))

(* What a step of the program has to do to be one of the graph's.          *)
LEMMA GraphStep ==
  ASSUME LedRight', NEW v, v = var', NEW m, m = mem',
         NEW S \in SUBSET Words, Range(v) \ {0} \subseteq S, \A a \in S : Target(m, a) \in S \union {0},
         NEW M, M = MembersOf(m, S)
  PROVE  Becomes(v, M)
<1>1. IsLed(v, m, Led') /\ GraphMember' = MembersOf(m, Led')
  BY DEF LedRight
<1>2. PICK R : R = Led'
  OBVIOUS
<1>3. IsLed(v, m, R) /\ GraphMember' = MembersOf(m, R)
  BY <1>1, <1>2
<1>4. GraphMember' = Graph!Restrict(M, Graph!Reached(v, M))
  BY <1>3, BecomeFacts
<1>. QED
  BY <1>4 DEF Becomes

(* A step that changes nothing that the program can see is none of the     *)
(* graph's.                                                                *)
LEMMA GraphStays ==
  ASSUME LedRight, LedRight', var' = var, NEW X, Led \subseteq X, Keep(mem, mem', X)
  PROVE  UNCHANGED Graph!vars
<1>1. PICK R, T, m, m2 : R = Led /\ T = Led' /\ m = mem /\ m2 = mem'
  OBVIOUS
<1>2. /\ IsLed(var, m, R) /\ IsLed(var, m2, T)
      /\ GraphMember = MembersOf(m, R) /\ GraphMember' = MembersOf(m2, T)
  BY <1>1 DEF LedRight
<1>3. \A a \in R : Target(m2, a) = Target(m, a)
  BY <1>1 DEF Keep, Target
<1>4. T = R
  BY <1>2, <1>3, SameLed
<1>5. GraphMember' = GraphMember
  BY <1>2, <1>3, <1>4 DEF MembersOf
<1>. QED
  BY <1>5 DEF Graph!vars, GraphMember

(* What the variables and the objects they lead to refer to.               *)
LEMMA LedTargets ==
  ASSUME LedRight
  PROVE  /\ Led \in SUBSET Words /\ 0 \notin Led
         /\ \A x \in DOMAIN var : var[x] \in Led \union {0}
         /\ \A a \in Led : Target(mem, a) \in Led \union {0}
         /\ DOMAIN GraphMember = Led
         /\ \A a \in Led : GraphMember[a] = [f \in {1} |-> Target(mem, a)] /\ GraphMember[a][1] = Target(mem, a)
<1>1. 0 \notin Words
  BY PoolsApart
<1>. QED
  BY <1>1 DEF LedRight, IsLed, MembersOf, Range

(* A variable is set to what the graph has, or to nothing.                 *)
LEMMA SetVarGraph ==
  ASSUME LedRight, LedRight', DOMAIN var = Vars, NEW x \in Vars, NEW l \in Led \union {0}, SetVar(x, l),
         NEW v, v = [var EXCEPT ![x] = l]
  PROVE  Becomes(v, GraphMember)
<1>1. v = var' /\ mem' = mem
  BY DEF SetVar, heap
<1>2. PICK S, m : S = Led /\ m = mem
  OBVIOUS
<1>3. /\ S \in SUBSET Words /\ \A y \in DOMAIN var : var[y] \in S \union {0}
      /\ \A a \in S : Target(m, a) \in S \union {0}
  BY <1>2, LedTargets
<1>4. Range(v) \ {0} \subseteq S
  <2>1. DOMAIN v = Vars /\ \A y \in Vars : v[y] \in S \union {0}
    BY <1>2, <1>3
  <2>. QED
    BY <2>1 DEF Range
<1>5. GraphMember = MembersOf(m, S)
  BY <1>2 DEF LedRight
<1>6. m = mem'
  BY <1>1, <1>2
<1>. QED
  BY <1>1, <1>3, <1>4, <1>5, <1>6, GraphStep

(* Steps of the program that give a variable a value.                      *)
LEMMA AssignGraph ==
  ASSUME LedRight, LedRight', DOMAIN var = Vars, NEW x \in Vars, NEW y \in Vars, SetVar(x, var[y])
  PROVE  Graph!Assign(x, y)
<1>1. var[y] \in Led \union {0}
  BY LedTargets
<1>2. PICK v, M : v = [var EXCEPT ![x] = var[y]] /\ M = GraphMember
  OBVIOUS
<1>3. Becomes(v, M)
  BY <1>1, <1>2, SetVarGraph
<1>. QED
  BY <1>2, <1>3 DEF Becomes, Graph!Assign, Graph!Become, GraphMember

(* A variable is set to NULL.                                              *)
LEMMA ClearGraph ==
  ASSUME LedRight, LedRight', DOMAIN var = Vars, NEW x \in Vars, SetVar(x, 0)
  PROVE  Graph!Clear(x)
<1>1. PICK v, M : v = [var EXCEPT ![x] = 0] /\ M = GraphMember
  OBVIOUS
<1>2. Becomes(v, M)
  BY <1>1, SetVarGraph
<1>. QED
  BY <1>1, <1>2 DEF Becomes, Graph!Clear, Graph!Become, GraphMember

(* A pointer is read.                                                      *)
LEMMA ReadGraph ==
  ASSUME LedRight, LedRight', DOMAIN var = Vars, NEW x \in Vars, NEW y \in Vars,
         var[y] # 0, mem[var[y]] = D, SetVar(x, mem[var[y] + 1])
  PROVE  Graph!Read(x, y, 1)
<1>1. var[y] \in Led
  BY LedTargets
<1>2. GraphMember[var[y]][1] = mem[var[y] + 1] /\ mem[var[y] + 1] \in Led \union {0}
  BY <1>1, LedTargets DEF Target
<1>3. PICK l, v, M : l = mem[var[y] + 1] /\ v = [var EXCEPT ![x] = l] /\ M = GraphMember
  OBVIOUS
<1>4. l \in Led \union {0} /\ SetVar(x, l) /\ M[var[y]][1] = l
  BY <1>2, <1>3
<1>5. Becomes(v, M)
  BY <1>3, <1>4, SetVarGraph
<1>6. var' = [var EXCEPT ![x] = M[var[y]][1]]
  BY <1>3, <1>4, <1>5 DEF Becomes
<1>. QED
  BY <1>3, <1>4, <1>5 DEF Becomes, Graph!Read, Graph!Become, GraphMember

(* A pointer is written.                                                   *)
LEMMA WriteGraph ==
  ASSUME LedRight, LedRight', DOMAIN var = Vars, NEW x \in Vars, NEW y \in Vars,
         var[x] # 0, mem[var[x]] = D, var' = var,
         NEW X, Led \subseteq X, \A a \in X : mem'[a] = mem[a] /\ (a # var[x] => mem'[a + 1] = mem[a + 1]),
         mem'[var[x] + 1] = var[y]
  PROVE  Graph!Write(x, 1, y)
<1>1. PICK S, m, n, w : S = Led /\ m = mem' /\ n = var[x] /\ w = var[y]
  OBVIOUS
<1>2. /\ S \in SUBSET Words /\ n \in S /\ w \in S \union {0}
      /\ DOMAIN GraphMember = S
      /\ \A a \in S : Target(mem, a) \in S \union {0} /\ GraphMember[a] = [f \in {1} |-> Target(mem, a)]
      /\ \A z \in DOMAIN var : var[z] \in S \union {0}
  BY <1>1, LedTargets
<1>3. \A a \in S : Target(m, a) = IF a = n THEN w ELSE Target(mem, a)
  BY <1>1, <1>2 DEF Target
<1>4. PICK M : M = MembersOf(m, S)
  OBVIOUS
<1>5. \A a \in S : Target(m, a) \in S \union {0}
  BY <1>2, <1>3
<1>6. Range(var) \ {0} \subseteq S
  BY <1>2 DEF Range
<1>7. Becomes(var, M)
  BY <1>1, <1>2, <1>4, <1>5, <1>6, GraphStep
<1>8. M = [GraphMember EXCEPT ![n][1] = w]
  <2>1. [GraphMember EXCEPT ![n][1] = w]
          = [a \in S |-> IF a = n THEN [GraphMember[a] EXCEPT ![1] = w] ELSE GraphMember[a]]
    BY <1>2
  <2>2. ASSUME NEW a \in S
        PROVE  [f \in {1} |-> Target(m, a)] = IF a = n THEN [GraphMember[a] EXCEPT ![1] = w] ELSE GraphMember[a]
    <3>1. GraphMember[a] = [f \in {1} |-> Target(mem, a)]
      BY <1>2, <2>2
    <3>2. CASE a = n
      <4>1. Target(m, a) = w
        BY <1>3, <2>2, <3>2
      <4>. QED
        BY <3>1, <3>2, <4>1
    <3>3. CASE a # n
      BY <1>3, <2>2, <3>1, <3>3
    <3>. QED
      BY <3>2, <3>3
  <2>3. M = [a \in S |-> [f \in {1} |-> Target(m, a)]]
    BY <1>4 DEF MembersOf
  <2>. QED
    BY ZenonT(40), <2>1, <2>2, <2>3
<1>9. M = [GraphMember EXCEPT ![var[x]][1] = var[y]]
  BY <1>1, <1>8
<1>. QED
  BY <1>7, <1>9 DEF Becomes, Graph!Write, Graph!Become, GraphMember

(* An object is made.                                                      *)
LEMMA NewGraph ==
  ASSUME LedRight, LedRight', DOMAIN var = Vars, NEW x \in Vars,
         NEW X, Led \subseteq X, NEW n, n \in Words, n \notin X, Keep(mem, mem', X),
         mem'[n] = D => mem'[n + 1] = 0, var' = Put(var, x, n)
  PROVE  Graph!New(x, n)
<1>1. PICK R, S, m, v : R = Led /\ S = R \union {n} /\ m = mem' /\ v = var'
  OBVIOUS
<1>2. /\ R \in SUBSET Words
      /\ DOMAIN GraphMember = R
      /\ \A a \in R : Target(mem, a) \in R \union {0} /\ GraphMember[a] = [f \in {1} |-> Target(mem, a)]
      /\ \A z \in Vars : var[z] \in R \union {0}
  BY <1>1, LedTargets
<1>3. Target(m, n) = 0 /\ \A a \in R : Target(m, a) = Target(mem, a)
  BY <1>1 DEF Target, Keep
<1>4. n \notin R
  BY <1>1
<1>5. PICK M : M = MembersOf(m, S)
  OBVIOUS
<1>6. S \in SUBSET Words /\ \A a \in S : Target(m, a) \in S \union {0}
  BY <1>1, <1>2, <1>3
<1>7. Range(v) \ {0} \subseteq S
  <2>1. v = Put(var, x, n)
    BY <1>1
  <2>2. DOMAIN v = Vars /\ \A z \in Vars : v[z] \in S \union {0}
    BY <1>1, <1>2, <2>1 DEF Put
  <2>. QED
    BY <2>2 DEF Range
<1>8. Becomes(v, M)
  BY <1>1, <1>5, <1>6, <1>7, GraphStep
<1>9. M = [j \in DOMAIN GraphMember \union {n} |-> IF j = n THEN [f \in {1} |-> 0] ELSE GraphMember[j]]
  <2>1. M = [a \in S |-> [f \in {1} |-> Target(m, a)]]
    BY <1>5 DEF MembersOf
  <2>2. DOMAIN GraphMember \union {n} = S
    BY <1>1, <1>2
  <2>3. \A a \in S : [f \in {1} |-> Target(m, a)] = IF a = n THEN [f \in {1} |-> 0] ELSE GraphMember[a]
    BY <1>1, <1>2, <1>3
  <2>. QED
    BY <2>1, <2>2, <2>3
<1>10. v = [var EXCEPT ![x] = n]
  BY <1>1 DEF Put
<1>11. n \notin DOMAIN GraphMember
  BY <1>2, <1>4
<1>. QED
  BY <1>8, <1>9, <1>10, <1>11 DEF Becomes, Graph!New, Graph!Become, GraphMember

(* Every step of the program is one of the graph's, except that mallocRaw  *)
(* may find no room.                                                       *)
LEMMA ProgramGraph ==
  ASSUME IInv, LedRight, LedRight', NEW t \in Threads, Program(t)
  PROVE  [Graph!Program]_Graph!vars
<1>1. PICK B, X, L : Good(B, X, L)
  BY DEF IInv
<1>2. Led \subseteq X /\ L \subseteq X
  BY <1>1, LedLive, HeapFacts
<1>3. DOMAIN var = Vars /\ Own(t) \subseteq Vars /\ Types
  BY <1>1, OwnVars DEF Good, Prog, IInv
<1>4. ASSUME NEW r \in Requests(t), NoRoom(t, r) PROVE UNCHANGED Graph!vars
  <2>1. var' = var /\ mem' = mem
    BY <1>4 DEF NoRoom, heap
  <2>2. Keep(mem, mem', X)
    BY <2>1 DEF Keep
  <2>. QED
    BY <1>2, <2>1, <2>2, GraphStays
<1>5. ASSUME NEW x \in Own(t), NEW r, NEW C, NEW n,
             Given(mem, gen0', gc, X, r, mem', freeList', n, C), var' = Put(var, x, n)
      PROVE  Graph!Program
  <2>1. n \notin X /\ Keep(mem, mem', X) /\ (mem'[n] = D => mem'[n + 1] = 0)
    BY <1>5 DEF Given
  <2>2. n \in Words
    <3>1. n \in ObjectsIn(mem', Nodes(freeList', gc), C) /\ Heaps(mem', gen0', freeList', gc, C, {})
      BY <1>5 DEF Given, IsHeap
    <3>2. C \subseteq Words
      BY <3>1, ThreadBlocks
    <3>. QED
      BY <3>1, <3>2 DEF ObjectsIn
  <2>3. Graph!New(x, n)
    BY <1>2, <1>3, <1>5, <2>1, <2>2, NewGraph
  <2>. QED
    BY <1>3, <1>5, <2>2, <2>3 DEF Graph!Program
<1>6. ASSUME NEW r \in Requests(t), NEW x \in Own(t), New(t, x, r) PROVE Graph!Program
  <2>1. PICK C, n : Given(mem, gen0', gc, X, r, mem', freeList', n, C) /\ var' = Put(var, x, n)
    BY <1>1, <1>6, NewGives
  <2>. QED
    BY <1>5, <2>1
<1>7. ASSUME NEW x \in Own(t), Retry(t, x) PROVE Graph!Program
  <2>1. PICK C, n : Given(mem, gen0', gc, X, req[t], mem', freeList', n, C) /\ var' = Put(var, x, n)
    BY <1>1, <1>3, <1>7, RetryGives
  <2>. QED
    BY <1>5, <2>1
<1>8. ASSUME NEW x \in Own(t), Clear(t, x) PROVE Graph!Program
  <2>1. Graph!Clear(x)
    BY <1>3, <1>8, ClearGraph DEF Clear
  <2>. QED
    BY <1>3, <2>1 DEF Graph!Program
<1>9. ASSUME NEW x \in Own(t), NEW y \in Own(t), Assign(t, x, y) PROVE Graph!Program
  <2>1. Graph!Assign(x, y)
    BY <1>3, <1>9, AssignGraph DEF Assign
  <2>. QED
    BY <1>3, <2>1 DEF Graph!Program
<1>10. ASSUME NEW x \in Own(t), NEW y \in Own(t), Read(t, x, y) PROVE Graph!Program
  <2>1. var[y] # 0 /\ mem[var[y]] = D /\ SetVar(x, mem[var[y] + 1])
    BY <1>1, <1>3, <1>10, VarFacts DEF Read, Running, HasMember
  <2>2. Graph!Read(x, y, 1)
    BY <1>3, <2>1, ReadGraph
  <2>. QED
    BY <1>3, <2>2 DEF Graph!Program
<1>11. ASSUME NEW x \in Own(t), NEW y \in Own(t), Write(t, x, y) PROVE Graph!Program
  <2>1. /\ phase = "run" /\ HasMember(var[x]) /\ var[x] # 0
        /\ var' = var /\ mem' = [mem EXCEPT ![var[x] + 1] = var[y]]
    BY <1>11 DEF Write, Running, HasMember
  <2>2. /\ IsHeap(mem, gen0, freeList, gc, B, {}, X) /\ Shut(mem, X)
        /\ var[x] \in X /\ mem[var[x]] = D /\ var[y] \in (X \ {DD, D}) \union {0}
    BY <1>1, <1>3, <2>1, RunFacts, VarFacts
  <2>3. mem' = Put(mem, var[x] + 1, var[y])
    BY <2>1 DEF Put
  <2>4. /\ \A a \in X : mem'[a] = mem[a] /\ (a # var[x] => mem'[a + 1] = mem[a + 1])
        /\ mem'[var[x] + 1] = var[y]
    <3>. HIDE <2>1
    <3>. QED
      BY <2>2, <2>3, WriteStep
  <2>5. Graph!Write(x, 1, y)
    BY <1>2, <1>3, <2>1, <2>2, <2>4, WriteGraph
  <2>. QED
    BY <1>3, <2>5 DEF Graph!Program
<1>. QED
  BY <1>4, <1>6, <1>7, <1>8, <1>9, <1>10, <1>11 DEF Program

(* Writing where a block begins that is no live object changes none.       *)
LEMMA PutKeeps ==
  ASSUME NEW B, NEW X, NEW L, Good(B, X, L), NEW w \in B, w \notin L, NEW z, mem' = Put(mem, w, z)
  PROVE  Keep(mem, mem', L)
<1>1. /\ HeapRight(mem, Nodes(freeList, gc), B, Owned(gen0)) /\ L \subseteq X /\ X \subseteq B
      /\ mem \in [Words -> Nat]
  BY HeapFacts
<1>2. ASSUME NEW a \in L PROVE a \in Words /\ a + 1 \in Words /\ a # w /\ a + 1 # w
  <2>1. a \in B /\ a # w
    BY <1>1, <1>2
  <2>. QED
    BY <1>1, <2>1, FirstWords
<1>. QED
  BY <1>1, <1>2 DEF Keep, Put

(* The program sees nothing of a collection.                               *)
LEMMA CollectorGraph ==
  ASSUME IInv, LedRight, LedRight', NEW t \in Threads,
         Collection(t) \/ MarkAgain \/ Mark \/ StartSweep \/ Restart
  PROVE  UNCHANGED Graph!vars
<1>1. PICK B, X, L : Good(B, X, L)
  BY DEF IInv
<1>2. Led \subseteq L /\ L \subseteq X /\ Types
  BY <1>1, LedLive, HeapFacts DEF IInv
<1>3. CASE (\E absent \in SUBSET Threads : Collect(t, absent)) \/ SweepMarked(t) \/ MarkAgain \/ Mark \/ StartSweep \/ Restart
  <2>1. var' = var /\ mem' = mem
    BY <1>3 DEF Collect, SweepMarked, MarkAgain, Mark, StartSweep, Restart, heap
  <2>2. Keep(mem, mem', L)
    BY <2>1 DEF Keep
  <2>. QED
    BY <1>2, <2>1, <2>2, GraphStays
<1>4. CASE SweepFree(t)
  <2>1. gc[t] = "sweep" /\ cur[t] \notin marked /\ var' = var
    BY <1>4 DEF SweepFree
  <2>2. phase = "sweep" /\ cur[t] \in B /\ cur[t] \in U0
    BY <1>1, <1>2, <2>1, SweepAt
  <2>3. cur[t] \notin L
    <3>1. L = LiveOf(X, marked, U0)
      BY <1>1 DEF Good
    <3>. QED
      BY <2>1, <2>2, <3>1 DEF LiveOf
  <2>4. CASE Coalesces(t)
    <3>1. mem' = Put(mem, lastFree[t], mem[lastFree[t]] + FreeSize(cur[t]))
      BY <1>4, <2>4 DEF SweepFree, Sized, Put
    <3>2. lastFree[t] \in Range(freeList[t])
      <4>1. Spots(mem, gen0, freeList, gc, B, pool, cur, lastFree)
        BY <1>1 DEF Good
      <4>. QED
        BY <2>1, <2>4, <4>1 DEF Spots, Spot, Coalesces
    <3>3. lastFree[t] \in Nodes(freeList, gc)
      BY <2>1, <3>2 DEF Nodes, Sweepy
    <3>4. lastFree[t] \in B /\ lastFree[t] \notin X
      <4>1. Heaps(mem, gen0, freeList, gc, B, U0)
        BY <1>1 DEF Good, IsHeap
      <4>2. lastFree[t] \in B
        BY <3>2, <4>1, ThreadBlocks
      <4>3. X = ObjectsIn(mem, Nodes(freeList, gc), B)
        BY <1>1, HeapFacts
      <4>. QED
        BY <3>3, <4>2, <4>3 DEF ObjectsIn
    <3>5. Keep(mem, mem', L)
      BY <1>1, <1>2, <3>1, <3>4, PutKeeps
    <3>. QED
      BY <1>2, <2>1, <3>5, GraphStays
  <2>5. CASE ~ Coalesces(t)
    <3>1. mem' = Put(mem, cur[t], FreeSize(cur[t]))
      BY <1>4, <2>5 DEF SweepFree, Sized, Put
    <3>2. Keep(mem, mem', L)
      BY <1>1, <2>2, <2>3, <3>1, PutKeeps
    <3>. QED
      BY <1>2, <2>1, <3>2, GraphStays
  <2>. QED
    BY <2>4, <2>5
<1>5. ASSUME NEW granted, ClearFreeList(t, granted) PROVE UNCHANGED Graph!vars
  <2>1. var' = var
    BY <1>5 DEF ClearFreeList
  <2>2. Carries(mem, mem', X)
    BY <1>1, <1>2, <1>5, ClearHeap
  <2>3. Keep(mem, mem', X) /\ Led \subseteq X
    BY <1>2, <2>2 DEF Carries
  <2>. QED
    BY <2>1, <2>3, GraphStays
<1>. QED
  BY <1>3, <1>4, <1>5 DEF Collection

-----------------------------------------------------------------------------
(***************************************************************************)
(* The refinement.                                                         *)
(***************************************************************************)
(* At first the program has nothing.                                       *)
LEMMA InitGraph == Init => Graph!Init
<1>. SUFFICES ASSUME Init PROVE Graph!Init
  OBVIOUS
<1>1. LedRight
  BY InitGood, LedIsRight
<1>2. var = [x \in Vars |-> 0]
  BY DEF Init
<1>3. Range(var) \ {0} = {}
  BY <1>2 DEF Range
<1>4. Led = {}
  BY <1>1, <1>3 DEF LedRight, IsLed
<1>5. GraphMember = [i \in {} |-> 0]
  BY <1>1, <1>4 DEF LedRight, MembersOf
<1>. QED
  BY <1>2, <1>5 DEF Graph!Init, GraphMember

(* To the program there is no collector, as long as no thread blocks: its  *)
(* steps do to the graph of objects what they say, and steps of a          *)
(* collection do nothing to it (ggggc_mallocRaw, mark, sweep and           *)
(* clearFreeList in portablems.c).                                         *)
THEOREM GraphImplemented ==
  ASSUME ~ MayBlock
  PROVE  Spec => ImplementsObjectGraph
<1>1. IInv /\ IInv' => LedRight /\ LedRight'
  BY LedIsRight, PTL
<1>2. IInv /\ IInv' /\ [Next]_vars => [Graph!Program]_Graph!vars
  <2>. SUFFICES ASSUME IInv, IInv', [Next]_vars PROVE [Graph!Program]_Graph!vars
    OBVIOUS
  <2>1. LedRight /\ LedRight'
    BY <1>1
  <2>2. ASSUME NEW t \in Threads, Program(t) PROVE [Graph!Program]_Graph!vars
    BY <2>1, <2>2, ProgramGraph
  <2>3. ASSUME NEW t \in Threads, Collection(t) \/ MarkAgain \/ Mark \/ StartSweep \/ Restart
        PROVE  UNCHANGED Graph!vars
    BY <2>1, <2>3, CollectorGraph
  <2>4. Main \in Threads
    BY PoolAssumption
  <2>5. CASE UNCHANGED vars
    <3>1. var' = var /\ mem' = mem
      BY <2>5 DEF vars, heap
    <3>2. Keep(mem, mem', Led)
      BY <3>1 DEF Keep
    <3>. QED
      BY <2>1, <3>1, <3>2, GraphStays
  <2>. QED
    BY <2>2, <2>3, <2>4, <2>5 DEF Next
<1>. QED
  BY <1>2, InitGraph, HeapsRight, PTL DEF Spec, ImplementsObjectGraph, Graph!SpecInPlace

=============================================================================
