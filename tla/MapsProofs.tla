------------------------------ MODULE MapsProofs ------------------------------
(***************************************************************************)
(* Proofs about Maps: for any number of maps, keys and values and any      *)
(* hash, tables stay exact however they grow, and the maps are functions.  *)
(***************************************************************************)
EXTENDS Maps, DataLemmas

\* Where entries can be.
Places == Maps \X Keys \X {1, 2}

Entries(table) == UNION {ToSet(table[h]) : h \in DOMAIN table}

\* A table of map m: its entries are m's, of different keys, each in the bucket
\* of its hash, once.
Sorted(table, m) ==
    /\ table \in Seq(Seq(Places))
    /\ \A h \in 1 .. Len(table) :
        /\ IsInjective(table[h])
        /\ \A e \in ToSet(table[h]) : e[1] = m /\ Bucket(e[2], Len(table)) = h
        /\ \A d, e \in ToSet(table[h]) : d[2] = e[2] => d = e

\* The table of map m when it has sz buckets and us entries.
Fits(table, m, sz, us) ==
    /\ Sorted(table, m)
    /\ sz = Len(table)
    /\ sz = 0 \/ sz >= 4
    /\ us = Cardinality(Entries(table))
    /\ us <= sz \div 2 + 1

TableRight(m) == Fits(buckets[m], m, size[m], used[m])

AllEntries == UNION {Entries(buckets[m]) : m \in Maps}

EntriesRight ==
    /\ DOMAIN key = AllEntries
    /\ DOMAIN value = AllEntries
    /\ \A e \in AllEntries : key[e] = e[2] /\ value[e] \in Values

IInv ==
    /\ size \in [Maps -> Nat]
    /\ used \in [Maps -> Nat]
    /\ buckets \in [Maps -> Seq(Seq(Places))]
    /\ \A m \in Maps : TableRight(m)
    /\ EntriesRight

-----------------------------------------------------------------------------
(* The bucket of a key is one of the table's.                              *)
LEMMA BucketInTable ==
  ASSUME NEW k \in Keys, NEW n \in Nat \ {0}
  PROVE  Bucket(k, n) \in 1 .. n
<1>1. Hash[k] \in Nat
  BY MapsAssumption
<1>. QED
  BY <1>1 DEF Bucket

(* Entries are places, with a map, a key and a number.                     *)
LEMMA PlaceFacts ==
  ASSUME NEW e \in Places
  PROVE  /\ e = <<e[1], e[2], e[3]>>
         /\ e[1] \in Maps /\ e[2] \in Keys /\ e[3] \in {1, 2}
BY DEF Places

(* The entry of a map that corresponds to a place.                         *)
LEMMA OfFacts ==
  ASSUME NEW m \in Maps, NEW e \in Places
  PROVE  /\ Of(m, e) \in Places
         /\ Of(m, e)[1] = m /\ Of(m, e)[2] = e[2] /\ Of(m, e)[3] = e[3]
         /\ e[1] = m => Of(m, e) = e
         /\ \A n \in Maps : Of(n, Of(m, e)) = Of(n, e)
BY PlaceFacts DEF Of, Places

(* The chains of a table, and their entries.                               *)
LEMMA ChainFacts ==
  ASSUME NEW m \in Maps, NEW t, Sorted(t, m)
  PROVE  /\ Len(t) \in Nat /\ DOMAIN t = 1 .. Len(t)
         /\ \A h \in 1 .. Len(t) : t[h] \in Seq(Places) /\ ToSet(t[h]) \subseteq Places
         /\ \A h \in 1 .. Len(t) : ToSet(t[h]) \subseteq Entries(t)
         /\ \A e \in Entries(t) :
                /\ e \in Places /\ e[1] = m
                /\ Bucket(e[2], Len(t)) \in 1 .. Len(t)
                /\ e \in ToSet(t[Bucket(e[2], Len(t))])
         /\ \A d, e \in Entries(t) : d[2] = e[2] => d = e
<1>1. Len(t) \in Nat /\ DOMAIN t = 1 .. Len(t) /\ \A h \in 1 .. Len(t) : t[h] \in Seq(Places)
  BY DEF Sorted
<1>2. ASSUME NEW h \in 1 .. Len(t) PROVE ToSet(t[h]) \subseteq Places
  BY <1>1 DEF ToSet
<1>3. ASSUME NEW h \in 1 .. Len(t) PROVE ToSet(t[h]) \subseteq Entries(t)
  BY <1>1 DEF Entries
<1>4. ASSUME NEW e \in Entries(t)
      PROVE  /\ e \in Places /\ e[1] = m
             /\ Bucket(e[2], Len(t)) \in 1 .. Len(t)
             /\ e \in ToSet(t[Bucket(e[2], Len(t))])
  <2>1. PICK h \in 1 .. Len(t) : e \in ToSet(t[h])
    BY <1>1 DEF Entries
  <2>2. e[1] = m /\ Bucket(e[2], Len(t)) = h
    BY <2>1 DEF Sorted
  <2>. QED
    BY <1>2, <2>1, <2>2
<1>5. ASSUME NEW d \in Entries(t), NEW e \in Entries(t), d[2] = e[2] PROVE d = e
  BY <1>4, <1>5 DEF Sorted
<1>. QED
  BY <1>1, <1>2, <1>3, <1>4, <1>5

(* A walk meets every entry of a table once.                               *)
LEMMA WalkFacts ==
  ASSUME NEW m \in Maps, NEW t, Sorted(t, m)
  PROVE  /\ Walk(t) \in Seq(Places)
         /\ ToSet(Walk(t)) = Entries(t)
         /\ IsInjective(Walk(t))
         /\ IsFiniteSet(Entries(t))
         /\ Len(Walk(t)) = Cardinality(Entries(t))
<1>1. t \in Seq(Seq(Places)) /\ DOMAIN t = 1 .. Len(t)
  BY ChainFacts DEF Sorted
<1>2. \A h \in DOMAIN t : IsInjective(t[h])
  BY <1>1 DEF Sorted
<1>3. ASSUME NEW h \in DOMAIN t, NEW i \in DOMAIN t, h # i
      PROVE  ToSet(t[h]) \intersect ToSet(t[i]) = {}
  BY <1>1, <1>3 DEF Sorted
<1>4. /\ FlattenSeq(t) \in Seq(Places)
      /\ ToSet(FlattenSeq(t)) = UNION {ToSet(t[i]) : i \in DOMAIN t}
      /\ IsInjective(FlattenSeq(t))
  <2>. HIDE DEF Places
  <2>. QED
    BY <1>1, <1>2, <1>3, FlattenFacts
<1>5. Walk(t) \in Seq(Places) /\ ToSet(Walk(t)) = Entries(t) /\ IsInjective(Walk(t))
  BY <1>4 DEF Walk, Entries
<1>. QED
  BY <1>5, LenOfInjective

(* What EntriesOf is.                                                      *)
LEMMA EntriesOfTable ==
  ASSUME NEW m \in Maps, TableRight(m)
  PROVE  EntriesOf(m) = Entries(buckets[m])
BY WalkFacts DEF EntriesOf, TableRight, Fits

(* A search of a key's bucket finds the entry of the key.                  *)
LEMMA MatchFacts ==
  ASSUME NEW m \in Maps, NEW t, Sorted(t, m), Len(t) # 0, NEW k \in Keys,
         \A e \in Entries(t) : key[e] = e[2]
  PROVE  LET chain == t[Bucket(k, Len(t))] IN
         /\ Matches(chain, k) = {} => \A e \in Entries(t) : e[2] # k
         /\ Matches(chain, k) # {} => /\ chain[Min(Matches(chain, k))] \in Entries(t)
                                      /\ chain[Min(Matches(chain, k))][2] = k
<1>. DEFINE b == Bucket(k, Len(t))
            chain == t[b]
<1>1. Len(t) \in Nat /\ b \in 1 .. Len(t)
  BY ChainFacts, BucketInTable
<1>2. /\ chain \in Seq(Places) /\ ToSet(chain) \subseteq Entries(t)
      /\ \A e \in Entries(t) : e \in ToSet(t[Bucket(e[2], Len(t))])
  BY <1>1, ChainFacts
<1>3. Len(chain) \in Nat /\ DOMAIN chain = 1 .. Len(chain)
  BY <1>2
<1>4. \A i \in 1 .. Len(chain) : chain[i] \in Entries(t)
  BY <1>2, <1>3 DEF ToSet
<1>5. ASSUME NEW e \in Entries(t), e[2] = k PROVE Matches(chain, k) # {}
  <2>1. e \in ToSet(chain)
    BY <1>2, <1>5
  <2>2. PICK i \in 1 .. Len(chain) : chain[i] = e
    BY <1>3, <2>1 DEF ToSet
  <2>. QED
    BY <1>5, <2>2 DEF Matches
<1>6. ASSUME Matches(chain, k) # {}
      PROVE  /\ chain[Min(Matches(chain, k))] \in Entries(t)
             /\ chain[Min(Matches(chain, k))][2] = k
  <2>1. Matches(chain, k) \subseteq Nat
    BY <1>3 DEF Matches
  <2>2. Min(Matches(chain, k)) \in Matches(chain, k)
    BY <1>6, <2>1, MinOfNaturals
  <2>3. /\ Min(Matches(chain, k)) \in 1 .. Len(chain)
        /\ key[chain[Min(Matches(chain, k))]] = k
    BY <2>2 DEF Matches
  <2>. QED
    BY <1>4, <2>3
<1>. QED
  BY <1>5, <1>6

-----------------------------------------------------------------------------
\* What MapGet finds: the value of the entry of the key.
GetsRight ==
    /\ \A m \in Maps : \A e \in Entries(buckets[m]) : Get(m, e[2]) = value[e]
    /\ \A m \in Maps : \A k \in Keys :
        (\A e \in Entries(buckets[m]) : e[2] # k) => Get(m, k) = Absent

(* The entry of a key is what MapGet finds.                                *)
LEMMA GetIsRight == IInv => GetsRight
<1>. SUFFICES ASSUME IInv PROVE GetsRight
  OBVIOUS
<1>1. ASSUME NEW m \in Maps
      PROVE  /\ \A e \in Entries(buckets[m]) : Get(m, e[2]) = value[e]
             /\ \A k \in Keys : (\A e \in Entries(buckets[m]) : e[2] # k) => Get(m, k) = Absent
  <2>. DEFINE t == buckets[m]
  <2>1. Sorted(t, m) /\ size[m] = Len(t)
    BY DEF IInv, TableRight, Fits
  <2>2. \A e \in Entries(t) : key[e] = e[2]
    BY DEF IInv, EntriesRight, AllEntries
  <2>3. /\ DOMAIN t = 1 .. Len(t) /\ Len(t) \in Nat
        /\ \A e \in Entries(t) : e \in Places /\ Bucket(e[2], Len(t)) \in 1 .. Len(t)
        /\ \A d, e \in Entries(t) : d[2] = e[2] => d = e
    BY <2>1, ChainFacts
  <2>. HIDE DEF t
  <2>4. CASE size[m] = 0
    BY <2>1, <2>3, <2>4 DEF Get, t
  <2>5. CASE size[m] # 0
    <3>. DEFINE chain(k) == t[Bucket(k, Len(t))]
    <3>1. ASSUME NEW k \in Keys
          PROVE  /\ Matches(chain(k), k) = {} => \A e \in Entries(t) : e[2] # k
                 /\ Matches(chain(k), k) # {} => /\ chain(k)[Min(Matches(chain(k), k))] \in Entries(t)
                                                 /\ chain(k)[Min(Matches(chain(k), k))][2] = k
      BY <2>1, <2>2, <2>5, MatchFacts
    <3>2. ASSUME NEW k \in Keys
          PROVE  Get(m, k) = IF Matches(chain(k), k) = {} THEN Absent
                             ELSE value[chain(k)[Min(Matches(chain(k), k))]]
      BY <2>1, <2>5 DEF Get, t
    <3>. HIDE DEF chain
    <3>3. ASSUME NEW e \in Entries(t) PROVE Get(m, e[2]) = value[e]
      <4>1. e[2] \in Keys
        BY <2>3, PlaceFacts
      <4>. QED
        BY <2>3, <3>1, <3>2, <4>1
    <3>4. ASSUME NEW k \in Keys, \A e \in Entries(t) : e[2] # k PROVE Get(m, k) = Absent
      BY <3>1, <3>2, <3>4
    <3>. QED
      BY <3>3, <3>4 DEF t
  <2>. QED
    BY <2>4, <2>5
<1>. QED
  BY <1>1 DEF GetsRight
-----------------------------------------------------------------------------
(* The invariant implies the property.                                     *)
LEMMA InvariantIsExact == IInv => TableExact
<1>. SUFFICES ASSUME IInv PROVE TableExact
  OBVIOUS
<1>1. ASSUME NEW m \in Maps
      PROVE  /\ TableRight(m) /\ EntriesOf(m) = Entries(buckets[m])
             /\ \A e \in Entries(buckets[m]) : key[e] = e[2]
  BY <1>1, EntriesOfTable DEF IInv, EntriesRight, AllEntries
<1>2. ASSUME NEW m \in Maps
      PROVE  /\ size[m] = Len(buckets[m])
             /\ used[m] = Len(Walk(buckets[m]))
             /\ used[m] <= size[m] \div 2 + 1
  BY <1>1, WalkFacts DEF TableRight, Fits
<1>3. ASSUME NEW m \in Maps
      PROVE  Cardinality({key[e] : e \in EntriesOf(m)}) = used[m]
  <2>. DEFINE S == Entries(buckets[m])
              T == {key[e] : e \in S}
              f == [e \in S |-> key[e]]
  <2>1. /\ IsFiniteSet(S) /\ used[m] = Cardinality(S)
        /\ \A d, e \in S : d[2] = e[2] => d = e
    BY <1>1, WalkFacts, ChainFacts DEF TableRight, Fits
  <2>2. f \in Bijection(S, T)
    BY <1>1, <2>1 DEF Bijection, Injection, Surjection, IsInjective
  <2>3. Cardinality(S) = Cardinality(T)
    <3>. HIDE DEF S, T, f
    <3>1. ExistsBijection(S, T)
      BY <2>2 DEF ExistsBijection
    <3>. QED
      BY <2>1, <3>1, FS_Bijection
  <2>. QED
    BY <1>1, <2>1, <2>3
<1>4. ASSUME NEW m \in Maps, NEW h \in 1 .. size[m], NEW i \in 1 .. Len(buckets[m][h])
      PROVE  Bucket(key[buckets[m][h][i]], size[m]) = h
  <2>1. Sorted(buckets[m], m) /\ h \in 1 .. Len(buckets[m]) /\ size[m] = Len(buckets[m])
    BY <1>1 DEF TableRight, Fits
  <2>2. buckets[m][h][i] \in ToSet(buckets[m][h])
    BY <2>1 DEF Sorted, ToSet
  <2>3. buckets[m][h][i] \in Entries(buckets[m])
    BY <2>1, <2>2, ChainFacts
  <2>4. Bucket(buckets[m][h][i][2], size[m]) = h
    BY <2>1, <2>2 DEF Sorted
  <2>. QED
    BY <1>1, <2>3, <2>4
<1>5. ASSUME NEW m \in Maps, NEW n \in Maps, m # n
      PROVE  EntriesOf(m) \cap EntriesOf(n) = {}
  <2>1. /\ \A e \in EntriesOf(m) : e[1] = m
        /\ \A e \in EntriesOf(n) : e[1] = n
    BY <1>1, ChainFacts DEF TableRight, Fits
  <2>. QED
    BY <1>5, <2>1
<1>. QED
  BY <1>2, <1>3, <1>4, <1>5 DEF TableExact

-----------------------------------------------------------------------------
(* The table that a new entry goes into: it has room and the same entries. *)
LEMMA RoomyFacts ==
  ASSUME IInv, NEW m \in Maps
  PROVE  /\ Sorted(Roomy(m), m)
         /\ Len(Roomy(m)) = NewSize(m)
         /\ NewSize(m) \in Nat /\ NewSize(m) >= 4
         /\ used[m] <= NewSize(m) \div 2
         /\ Entries(Roomy(m)) = Entries(buckets[m])
<1>. DEFINE t == buckets[m]
<1>1. /\ Sorted(t, m) /\ size[m] = Len(t) /\ (size[m] = 0 \/ size[m] >= 4)
      /\ used[m] = Cardinality(Entries(t)) /\ used[m] <= size[m] \div 2 + 1
      /\ size[m] \in Nat /\ used[m] \in Nat
      /\ \A e \in Entries(t) : key[e] = e[2]
  BY DEF IInv, TableRight, Fits, EntriesRight, AllEntries
<1>2. DOMAIN t = 1 .. size[m] /\ t \in Seq(Seq(Places))
  BY <1>1, ChainFacts DEF Sorted
<1>. HIDE DEF t
<1>3. CASE size[m] = 0
  <2>1. Entries(t) = {}
    BY <1>2, <1>3 DEF Entries
  <2>2. used[m] = 0
    BY <1>1, <2>1, FS_EmptySet
  <2>3. NewSize(m) = 4
    BY <1>3, <2>2 DEF NewSize, FirstSize
  <2>4. Roomy(m) = Empty(4)
    BY <1>3 DEF Roomy
  <2>5. /\ Len(Empty(4)) = 4 /\ Empty(4) \in Seq(Seq(Places))
        /\ DOMAIN Empty(4) = 1 .. 4 /\ \A h \in 1 .. 4 : Empty(4)[h] = <<>>
    BY DEF Empty
  <2>6. ToSet(<<>>) = {} /\ IsInjective(<<>>)
    BY DEF ToSet, IsInjective
  <2>7. Sorted(Empty(4), m)
    BY <2>5, <2>6 DEF Sorted
  <2>8. Entries(Empty(4)) = {}
    BY <2>5, <2>6 DEF Entries
  <2>9. 4 \in Nat /\ 4 >= 4 /\ 0 <= 4 \div 2
    OBVIOUS
  <2>. QED
    BY <2>1, <2>2, <2>3, <2>4, <2>5, <2>7, <2>8, <2>9 DEF t
<1>4. CASE size[m] # 0 /\ used[m] <= size[m] \div 2
  <2>1. NewSize(m) = size[m]
    BY <1>1, <1>4 DEF NewSize, FirstSize
  <2>2. Roomy(m) = t
    BY <1>1, <1>4, <2>1 DEF Roomy, t
  <2>. QED
    BY <1>1, <1>4, <2>1, <2>2 DEF t
<1>5. CASE size[m] # 0 /\ used[m] > size[m] \div 2
  <2>. DEFINE n == size[m] * 2
              w == Walk(t)
              chosen(h) == {e \in ToSet(w) : Bucket(key[e], n) = h}
              r == [h \in 1 .. n |-> InFront(w, chosen(h))]
  <2>1. NewSize(m) = n
    BY <1>1, <1>5 DEF NewSize, FirstSize
  <2>2. n \in Nat \ {0} /\ n >= 4 /\ n > size[m] /\ used[m] <= n \div 2
    BY <1>1, <1>5
  <2>3. Roomy(m) = r
    BY <1>5, <2>1, <2>2 DEF Roomy, Rehashed, t
  <2>4. w \in Seq(Places) /\ ToSet(w) = Entries(t) /\ IsInjective(w)
    BY <1>1, WalkFacts
  <2>. HIDE DEF w
  <2>5. ASSUME NEW h \in 1 .. n
        PROVE  /\ r[h] \in Seq(Places) /\ IsInjective(r[h])
               /\ ToSet(r[h]) = {e \in Entries(t) : Bucket(e[2], n) = h}
    <3>. DEFINE S == chosen(h)
                l == InFront(w, S)
    <3>1. S = {e \in Entries(t) : Bucket(e[2], n) = h}
      BY <1>1, <2>4
    <3>2. r[h] = l
      OBVIOUS
    <3>. HIDE DEF S, chosen, r, Places
    <3>3. l \in Seq(Places) /\ IsInjective(l) /\ ToSet(l) = ToSet(w) \intersect S
      BY <2>4, InFrontFacts
    <3>. QED
      BY <2>4, <3>1, <3>2, <3>3
  <2>6. DOMAIN r = 1 .. n /\ Len(r) = n /\ r \in Seq(Seq(Places))
    <3>1. n \in Nat /\ r = [h \in 1 .. n |-> r[h]] /\ \A h \in 1 .. n : r[h] \in Seq(Places)
      BY <2>2, <2>5
    <3>. HIDE DEF r, n, Places
    <3>. QED
      BY <3>1
  <2>. HIDE DEF r
  <2>7. \A e \in Entries(t) : e \in Places /\ e[1] = m /\ \A d \in Entries(t) : d[2] = e[2] => d = e
    BY <1>1, ChainFacts
  <2>8. Sorted(r, m)
    BY <2>5, <2>6, <2>7 DEF Sorted
  <2>9. Entries(r) = Entries(t)
    <3>1. \A e \in Entries(t) : Bucket(e[2], n) \in 1 .. n
      BY <2>2, <2>7, PlaceFacts, BucketInTable
    <3>. HIDE DEF n
    <3>2. \A e \in Entries(t) : e \in ToSet(r[Bucket(e[2], n)])
      BY <2>5, <3>1
    <3>3. Entries(t) \subseteq Entries(r)
      BY <2>6, <3>1, <3>2 DEF Entries
    <3>4. \A h \in 1 .. n : ToSet(r[h]) \subseteq Entries(t)
      BY <2>5
    <3>5. Entries(r) \subseteq Entries(t)
      BY <2>6, <3>4 DEF Entries
    <3>. QED
      BY <3>3, <3>5
  <2>. QED
    BY <2>1, <2>2, <2>3, <2>6, <2>8, <2>9 DEF t
<1>. QED
  BY <1>1, <1>3, <1>4, <1>5

-----------------------------------------------------------------------------
(* A new entry is one of its map and key that no map leads to.             *)
LEMMA NewEntryFacts ==
  ASSUME IInv, NEW m \in Maps, NEW k \in Keys, \A e \in Entries(buckets[m]) : e[2] # k
  PROVE  /\ NewEntry(m, k) \in Places
         /\ NewEntry(m, k)[1] = m /\ NewEntry(m, k)[2] = k
         /\ NewEntry(m, k) \notin AllEntries
<1>. DEFINE e == <<m, k, 1>>
            free(d) == d \in {m} \X {k} \X {1, 2} /\ d \notin DOMAIN key
<1>1. e \in {m} \X {k} \X {1, 2} /\ e[1] = m /\ e[2] = k
  OBVIOUS
<1>2. ASSUME e \in AllEntries PROVE FALSE
  <2>1. PICK n \in Maps : e \in Entries(buckets[n])
    BY <1>2 DEF AllEntries
  <2>2. n = m
    BY <1>1, <2>1, ChainFacts DEF IInv, TableRight, Fits
  <2>. QED
    BY <1>1, <2>1, <2>2
<1>3. free(e)
  BY <1>1, <1>2 DEF IInv, EntriesRight
<1>4. NewEntry(m, k) = CHOOSE d : free(d)
  BY DEF NewEntry
<1>5. free(NewEntry(m, k))
  <2>. HIDE DEF free, e
  <2>. QED
    BY <1>3, <1>4
<1>. QED
  BY <1>5 DEF Places, IInv, EntriesRight

(* Everything that the other maps have stays right.                        *)
LEMMA OthersStayRight ==
  ASSUME IInv, NEW m \in Maps,
         NEW sz \in Nat, NEW us \in Nat, NEW table,
         size' = [size EXCEPT ![m] = sz], used' = [used EXCEPT ![m] = us],
         buckets' = [buckets EXCEPT ![m] = table],
         Fits(table, m, sz, us), EntriesRight'
  PROVE  IInv'
<1>1. table \in Seq(Seq(Places))
  BY DEF Fits, Sorted
<1>2. /\ size' \in [Maps -> Nat] /\ used' \in [Maps -> Nat]
      /\ buckets' \in [Maps -> Seq(Seq(Places))]
  <2>. HIDE DEF Places
  <2>. QED
    BY <1>1 DEF IInv
<1>3. /\ size'[m] = sz /\ used'[m] = us /\ buckets'[m] = table
      /\ \A n \in Maps \ {m} :
            size'[n] = size[n] /\ used'[n] = used[n] /\ buckets'[n] = buckets[n]
  BY DEF IInv
<1>4. ASSUME NEW n \in Maps PROVE Fits(buckets'[n], n, size'[n], used'[n])
  <2>1. CASE n = m
    BY <1>3, <2>1
  <2>2. CASE n # m
    BY <1>3, <2>2 DEF IInv, TableRight
  <2>. QED
    BY <2>1, <2>2
<1>5. \A n \in Maps : TableRight(n)'
  BY <1>4 DEF TableRight
<1>. QED
  BY <1>2, <1>5 DEF IInv, Places

-----------------------------------------------------------------------------
\* The entries of all maps but m are as they were.
OthersSame(m) == \A n \in Maps \ {m} : Entries(buckets'[n]) = Entries(buckets[n])

\* Some entry of m has key k, and its value becomes v.
Updated(m, k, v) ==
    \E e \in Entries(buckets[m]) :
        /\ e[2] = k
        /\ Entries(buckets'[m]) = Entries(buckets[m])
        /\ value' = [value EXCEPT ![e] = v]

\* No entry of m has key k, and m gets a new one.
Inserted(m, k, v) ==
    \E e \in Places \ AllEntries :
        /\ e[1] = m /\ e[2] = k
        /\ \A d \in Entries(buckets[m]) : d[2] # k
        /\ Entries(buckets'[m]) = Entries(buckets[m]) \union {e}
        /\ value' = Added(value, e, v)

\* c has a copy of each entry of m instead of its own.
Cloned(m, c) ==
    /\ Entries(buckets'[c]) = {Of(c, e) : e \in Entries(buckets[m])}
    /\ \A n \in Maps \ {c} : \A e \in Entries(buckets[n]) : value'[e] = value[e]
    /\ \A e \in Entries(buckets[m]) : value'[Of(c, e)] = value[e]

(* MapPut of a key that the map has.                                       *)
LEMMA UpdateStep ==
  ASSUME IInv, NEW m \in Maps, NEW k \in Keys, NEW v \in Values,
         size' = [size EXCEPT ![m] = NewSize(m)], Update(m, Roomy(m), k, v)
  PROVE  IInv' /\ OthersSame(m) /\ Updated(m, k, v)
<1>. DEFINE t == Roomy(m)
            chain == t[Bucket(k, Len(t))]
            e == chain[Min(Matches(chain, k))]
<1>1. /\ Sorted(t, m) /\ Len(t) = NewSize(m)
      /\ NewSize(m) \in Nat /\ NewSize(m) >= 4 /\ used[m] <= NewSize(m) \div 2
      /\ Entries(t) = Entries(buckets[m])
  BY RoomyFacts
<1>. HIDE DEF t
<1>2. /\ Matches(chain, k) # {} /\ value' = [value EXCEPT ![e] = v]
      /\ buckets' = [buckets EXCEPT ![m] = t]
      /\ used' = used /\ key' = key
  BY <1>1 DEF Update, t
<1>3. /\ \A d \in AllEntries : key[d] = d[2] /\ value[d] \in Values
      /\ DOMAIN key = AllEntries /\ DOMAIN value = AllEntries
      /\ Entries(t) \subseteq AllEntries
  BY <1>1 DEF IInv, EntriesRight, AllEntries
<1>4. e \in Entries(t) /\ e[2] = k
  <2>1. Len(t) # 0 /\ \A d \in Entries(t) : key[d] = d[2]
    BY <1>1, <1>3
  <2>. QED
    BY <1>1, <1>2, <2>1, MatchFacts
<1>. HIDE DEF e, chain
<1>5. /\ buckets'[m] = t
      /\ \A n \in Maps \ {m} : buckets'[n] = buckets[n]
  BY <1>2 DEF IInv
<1>6. \A n \in Maps : Entries(buckets'[n]) = Entries(buckets[n])
  BY <1>1, <1>5
<1>7. AllEntries' = AllEntries
  <2>1. AllEntries' = UNION {Entries(buckets'[n]) : n \in Maps}
    BY DEF AllEntries, Entries
  <2>. QED
    BY <1>6, <2>1 DEF AllEntries
<1>8. EntriesRight'
  <2>1. DOMAIN value' = AllEntries /\ \A d \in AllEntries : value'[d] \in Values
    BY <1>2, <1>3
  <2>. QED
    BY <1>2, <1>3, <1>7, <2>1 DEF EntriesRight
<1>9. /\ used[m] \in Nat /\ used[m] = Cardinality(Entries(t))
      /\ used' = [used EXCEPT ![m] = used[m]]
  BY <1>1, <1>2 DEF IInv, TableRight, Fits
<1>10. Fits(t, m, NewSize(m), used[m])
  BY <1>1, <1>9 DEF Fits
<1>11. IInv'
  BY <1>1, <1>2, <1>8, <1>9, <1>10, OthersStayRight
<1>12. OthersSame(m)
  BY <1>6 DEF OthersSame
<1>13. Updated(m, k, v)
  BY <1>1, <1>2, <1>4, <1>6 DEF Updated
<1>. QED
  BY <1>11, <1>12, <1>13

(* A function on the first numbers is a sequence.                          *)
LEMMA SequenceOfFunction ==
  ASSUME NEW X, NEW n \in Nat, NEW f \in [1 .. n -> X]
  PROVE  f \in Seq(X) /\ Len(f) = n
OBVIOUS

\* A table with a new entry at the front of a bucket.
WithEntry(t, b, e) == [t EXCEPT ![b] = Cons(e, @)]

(* The table that a new entry has been put into.                           *)
LEMMA TableWithEntry ==
  ASSUME NEW m \in Maps, NEW t, Sorted(t, m), NEW n \in Nat \ {0}, Len(t) = n,
         NEW e \in Places, e[1] = m, \A d \in Entries(t) : d[2] # e[2]
  PROVE  LET u == WithEntry(t, Bucket(e[2], n), e) IN
         Sorted(u, m) /\ Len(u) = n /\ Entries(u) = Entries(t) \union {e}
<1>. DEFINE b == Bucket(e[2], n)
            u == WithEntry(t, b, e)
            c == <<e>> \o t[b]
<1>1. b \in 1 .. n
  BY BucketInTable, PlaceFacts
<1>2. /\ DOMAIN t = 1 .. n /\ t \in Seq(Seq(Places))
      /\ \A h \in 1 .. n : t[h] \in Seq(Places) /\ ToSet(t[h]) \subseteq Entries(t)
  BY ChainFacts DEF Sorted
<1>3. /\ <<e>> \in Seq(Places) /\ ToSet(<<e>>) = {e} /\ IsInjective(<<e>>)
  <2>. DEFINE one == <<e>>
  <2>1. one \in Seq(Places) /\ DOMAIN one = {1} /\ one[1] = e
    OBVIOUS
  <2>. HIDE DEF one
  <2>2. ToSet(one) = {e} /\ IsInjective(one)
    BY <2>1 DEF ToSet, IsInjective
  <2>. QED
    BY <2>1, <2>2 DEF one
<1>4. e \notin Entries(t)
  OBVIOUS
<1>5. c \in Seq(Places) /\ ToSet(c) = ToSet(t[b]) \union {e} /\ IsInjective(c)
  <2>. DEFINE one == <<e>>
              tb == t[b]
  <2>1. /\ one \in Seq(Places) /\ ToSet(one) = {e} /\ IsInjective(one)
        /\ tb \in Seq(Places) /\ IsInjective(tb) /\ e \notin ToSet(tb)
        /\ c = one \o tb
    BY <1>1, <1>2, <1>3, <1>4 DEF Sorted
  <2>. HIDE DEF one, tb, c, Places
  <2>. QED
    BY <2>1, ConcatElements DEF tb
<1>6. u = [t EXCEPT ![b] = c]
  BY DEF Cons, WithEntry
<1>. HIDE DEF c, u
<1>7. /\ DOMAIN u = 1 .. n /\ u[b] = c /\ \A h \in 1 .. n : h # b => u[h] = t[h]
  BY <1>1, <1>2, <1>6
<1>8. u \in Seq(Seq(Places)) /\ Len(u) = n
  <2>1. \A h \in 1 .. n : u[h] \in Seq(Places)
    BY <1>2, <1>5, <1>7
  <2>2. u = [h \in 1 .. n |-> u[h]] /\ n \in Nat
    BY <1>2, <1>6, <1>7
  <2>. DEFINE X == Seq(Places)
  <2>. HIDE DEF X
  <2>3. u \in [1 .. n -> X]
    BY <2>1, <2>2 DEF X
  <2>4. u \in Seq(X) /\ Len(u) = n
    BY <2>2, <2>3, SequenceOfFunction
  <2>. QED
    BY <2>4 DEF X
<1>9. Sorted(u, m)
  <2>1. ASSUME NEW h \in 1 .. n
        PROVE  /\ IsInjective(u[h])
               /\ \A d \in ToSet(u[h]) : d[1] = m /\ Bucket(d[2], n) = h
               /\ \A d, f \in ToSet(u[h]) : d[2] = f[2] => d = f
    <3>1. /\ IsInjective(t[h])
          /\ \A d \in ToSet(t[h]) : d[1] = m /\ Bucket(d[2], n) = h
          /\ \A d, f \in ToSet(t[h]) : d[2] = f[2] => d = f
      BY DEF Sorted
    <3>2. CASE h # b
      BY <1>7, <3>1, <3>2
    <3>3. CASE h = b
      <4>1. \A d \in ToSet(t[h]) : d[2] # e[2]
        BY <1>2
      <4>. QED
        BY <1>5, <1>7, <3>1, <3>3, <4>1
    <3>. QED
      BY <3>2, <3>3
  <2>. QED
    BY <1>8, <2>1 DEF Sorted
<1>10. Entries(u) = Entries(t) \union {e}
  <2>1. \A h \in 1 .. n : ToSet(u[h]) \subseteq Entries(t) \union {e}
    BY <1>2, <1>5, <1>7
  <2>2. \A h \in 1 .. n : ToSet(t[h]) \subseteq ToSet(u[h])
    BY <1>5, <1>7
  <2>3. e \in ToSet(u[b])
    BY <1>5, <1>7
  <2>. HIDE DEF b
  <2>4. Entries(u) \subseteq Entries(t) \union {e}
    BY <1>7, <2>1 DEF Entries
  <2>5. Entries(t) \subseteq Entries(u)
    BY <1>2, <1>7, <2>2 DEF Entries
  <2>6. e \in Entries(u)
    BY <1>1, <1>7, <2>3 DEF Entries
  <2>. QED
    BY <2>4, <2>5, <2>6
<1>. QED
  BY <1>8, <1>9, <1>10 DEF u

(* MapPut of a key that the map lacks.                                     *)
LEMMA InsertStep ==
  ASSUME IInv, NEW m \in Maps, NEW k \in Keys, NEW v \in Values,
         size' = [size EXCEPT ![m] = NewSize(m)], Insert(m, Roomy(m), k, v)
  PROVE  IInv' /\ OthersSame(m) /\ Inserted(m, k, v)
<1>. DEFINE t == Roomy(m)
            n == NewSize(m)
            e == NewEntry(m, k)
            u == WithEntry(t, Bucket(k, n), e)
<1>1. /\ Sorted(t, m) /\ Len(t) = n
      /\ n \in Nat \ {0} /\ n >= 4 /\ used[m] <= n \div 2
      /\ Entries(t) = Entries(buckets[m])
  BY RoomyFacts
<1>2. /\ Matches(t[Bucket(k, n)], k) = {}
      /\ key' = Added(key, e, k) /\ value' = Added(value, e, v)
      /\ buckets' = [buckets EXCEPT ![m] = u]
      /\ used' = [used EXCEPT ![m] = used[m] + 1]
  BY DEF Insert, IInv, WithEntry
<1>3. /\ \A d \in AllEntries : key[d] = d[2] /\ value[d] \in Values
      /\ DOMAIN key = AllEntries /\ DOMAIN value = AllEntries
      /\ Entries(t) \subseteq AllEntries
  BY <1>1 DEF IInv, EntriesRight, AllEntries
<1>. HIDE DEF t, n
<1>4. \A d \in Entries(t) : d[2] # k
  BY <1>1, <1>2, <1>3, MatchFacts
<1>5. e \in Places /\ e[1] = m /\ e[2] = k /\ e \notin AllEntries
  BY <1>1, <1>4, NewEntryFacts
<1>. HIDE DEF e
<1>6. Sorted(u, m) /\ Len(u) = n /\ Entries(u) = Entries(t) \union {e}
  <2>1. u = WithEntry(t, Bucket(e[2], n), e)
    BY <1>5
  <2>2. \A d \in Entries(t) : d[2] # e[2]
    BY <1>4, <1>5
  <2>. HIDE DEF u
  <2>. QED
    BY <1>1, <1>5, <2>1, <2>2, TableWithEntry
<1>. HIDE DEF u
<1>7. /\ buckets'[m] = u
      /\ \A l \in Maps \ {m} : buckets'[l] = buckets[l]
  BY <1>2 DEF IInv
<1>8. AllEntries' = AllEntries \union {e}
  <2>1. AllEntries' = UNION {Entries(buckets'[l]) : l \in Maps}
    BY DEF AllEntries, Entries
  <2>2. \A d : d \in AllEntries' <=> d \in AllEntries \/ d = e
    BY <1>1, <1>6, <1>7, <2>1 DEF AllEntries
  <2>. QED
    BY <2>2
<1>9. EntriesRight'
  BY <1>2, <1>3, <1>5, <1>8 DEF EntriesRight, Added
<1>10. /\ used[m] \in Nat /\ used[m] + 1 = Cardinality(Entries(u))
  <2>1. IsFiniteSet(Entries(t)) /\ used[m] \in Nat /\ used[m] = Cardinality(Entries(t))
    BY <1>1, WalkFacts DEF IInv, TableRight, Fits
  <2>2. e \notin Entries(t)
    BY <1>3, <1>5
  <2>3. Cardinality(Entries(t) \union {e}) = Cardinality(Entries(t)) + 1
    BY <2>1, <2>2, FS_AddElement
  <2>. QED
    BY <1>6, <2>1, <2>3
<1>11. used[m] + 1 \in Nat /\ Fits(u, m, n, used[m] + 1)
  BY <1>1, <1>6, <1>10 DEF Fits
<1>12. IInv'
  BY <1>1, <1>2, <1>6, <1>9, <1>10, <1>11, OthersStayRight DEF n
<1>13. OthersSame(m)
  BY <1>7 DEF OthersSame
<1>14. Inserted(m, k, v)
  BY <1>1, <1>2, <1>4, <1>5, <1>6, <1>7 DEF Inserted
<1>. QED
  BY <1>12, <1>13, <1>14

-----------------------------------------------------------------------------
\* The same table, for map c.
TableFor(c, t) == [h \in 1 .. Len(t) |-> [i \in DOMAIN t[h] |-> Of(c, t[h][i])]]

(* A copied table.                                                         *)
LEMMA CopiedTable ==
  ASSUME NEW m \in Maps, NEW c \in Maps, NEW t, Sorted(t, m)
  PROVE  LET u == TableFor(c, t) IN
         /\ Sorted(u, c) /\ Len(u) = Len(t)
         /\ Entries(u) = {Of(c, e) : e \in Entries(t)}
         /\ Cardinality(Entries(u)) = Cardinality(Entries(t))
<1>. DEFINE n == Len(t)
            u == TableFor(c, t)
<1>1. /\ n \in Nat /\ DOMAIN t = 1 .. n
      /\ \A h \in 1 .. n : t[h] \in Seq(Places) /\ ToSet(t[h]) \subseteq Entries(t)
      /\ \A e \in Entries(t) : e \in Places /\ e[1] = m
      /\ \A d, e \in Entries(t) : d[2] = e[2] => d = e
  BY ChainFacts
<1>2. /\ \A e \in Entries(t) : Of(c, e) \in Places /\ Of(c, e)[1] = c /\ Of(c, e)[2] = e[2]
      /\ \A d, e \in Entries(t) : Of(c, d)[2] = Of(c, e)[2] => d = e
  BY <1>1, OfFacts
<1>3. ASSUME NEW h \in 1 .. n
      PROVE  /\ u[h] \in Seq(Places)
             /\ ToSet(u[h]) = {Of(c, e) : e \in ToSet(t[h])}
             /\ IsInjective(u[h])
  <2>. DEFINE s == t[h]
              r == [i \in DOMAIN s |-> Of(c, s[i])]
              l == Len(s)
  <2>1. u[h] = r
    BY DEF TableFor
  <2>2. l \in Nat /\ DOMAIN s = 1 .. l /\ DOMAIN r = 1 .. l
    BY <1>1
  <2>3. \A i \in 1 .. l : s[i] \in ToSet(s) /\ s[i] \in Entries(t)
    BY <1>1, <2>2 DEF ToSet
  <2>4. \A i \in 1 .. l : r[i] = Of(c, s[i]) /\ r[i] \in Places
    BY <1>2, <2>2, <2>3
  <2>5. IsInjective(s)
    BY DEF Sorted
  <2>6. r = [i \in 1 .. l |-> r[i]]
    BY <2>2
  <2>. HIDE DEF s, r, l, u
  <2>7. r \in Seq(Places)
    <3>1. r \in [1 .. l -> Places]
      BY <2>4, <2>6
    <3>. HIDE DEF Places
    <3>. QED
      BY <2>2, <3>1, SequenceOfFunction
  <2>8. ToSet(r) = {Of(c, e) : e \in ToSet(s)}
    BY <2>2, <2>4 DEF ToSet
  <2>9. IsInjective(r)
    <3>. SUFFICES ASSUME NEW i \in 1 .. l, NEW j \in 1 .. l, r[i] = r[j] PROVE i = j
      BY <2>2 DEF IsInjective
    <3>1. s[i] = s[j]
      BY <1>2, <2>3, <2>4
    <3>. QED
      BY <2>2, <2>5, <3>1 DEF IsInjective
  <2>. QED
    BY <2>1, <2>7, <2>8, <2>9 DEF s
<1>4. DOMAIN u = 1 .. n /\ u = [h \in 1 .. n |-> u[h]]
  BY DEF TableFor
<1>. HIDE DEF u
<1>5. u \in Seq(Seq(Places)) /\ Len(u) = n
  <2>. DEFINE X == Seq(Places)
  <2>. HIDE DEF X, n
  <2>1. u \in [1 .. n -> X]
    BY <1>3, <1>4 DEF X
  <2>2. u \in Seq(X) /\ Len(u) = n
    BY <1>1, <2>1, SequenceOfFunction
  <2>. QED
    BY <2>2 DEF X
<1>6. Sorted(u, c)
  <2>1. ASSUME NEW h \in 1 .. n
        PROVE  /\ \A e \in ToSet(u[h]) : e[1] = c /\ Bucket(e[2], n) = h
               /\ \A d, e \in ToSet(u[h]) : d[2] = e[2] => d = e
    <3>1. \A e \in ToSet(t[h]) : Bucket(e[2], n) = h /\ e \in Entries(t)
      BY <1>1 DEF Sorted
    <3>. HIDE DEF n
    <3>2. \A f \in ToSet(u[h]) : \E e \in ToSet(t[h]) : f = Of(c, e)
      BY <1>3
    <3>. QED
      BY <1>2, <3>1, <3>2
  <2>. QED
    BY <1>3, <1>5, <2>1 DEF Sorted
<1>7. Entries(u) = {Of(c, e) : e \in Entries(t)}
  <2>1. ASSUME NEW f \in Entries(u) PROVE f \in {Of(c, e) : e \in Entries(t)}
    <3>1. PICK h \in 1 .. n : f \in ToSet(u[h])
      BY <1>4 DEF Entries
    <3>2. PICK e \in ToSet(t[h]) : f = Of(c, e)
      BY <1>3, <3>1
    <3>. QED
      BY <1>1, <3>2
  <2>2. ASSUME NEW e \in Entries(t) PROVE Of(c, e) \in Entries(u)
    <3>1. PICK h \in 1 .. n : e \in ToSet(t[h])
      BY <1>1 DEF Entries
    <3>2. Of(c, e) \in ToSet(u[h])
      BY <1>3, <3>1
    <3>. QED
      BY <1>4, <3>2 DEF Entries
  <2>. QED
    BY <2>1, <2>2
<1>8. Cardinality(Entries(u)) = Cardinality(Entries(t))
  <2>. DEFINE S == Entries(t)
              T == Entries(u)
              f == [e \in S |-> Of(c, e)]
  <2>1. f \in Bijection(S, T)
    BY <1>2, <1>7 DEF Bijection, Injection, Surjection, IsInjective
  <2>2. IsFiniteSet(S)
    BY WalkFacts
  <2>. HIDE DEF S, T, f
  <2>3. ExistsBijection(S, T)
    BY <2>1 DEF ExistsBijection
  <2>4. Cardinality(S) = Cardinality(T)
    BY <2>2, <2>3, FS_Bijection
  <2>. QED
    BY <2>4 DEF S, T
<1>. QED
  BY <1>5, <1>6, <1>7, <1>8 DEF u

(* MapClone.                                                               *)
LEMMA CloneStep ==
  ASSUME IInv, NEW m \in Maps, NEW c \in Maps \ {m}, Clone(m, c)
  PROVE  IInv' /\ OthersSame(c) /\ Cloned(m, c)
<1>. DEFINE t == buckets[m]
            u == TableFor(c, t)
            kept == UNION {Entries(buckets[n]) : n \in Maps \ {c}}
            copies == {Of(c, e) : e \in Entries(t)}
            Copied(f) == [e \in kept \union copies |-> IF e \in kept THEN f[e] ELSE f[Of(m, e)]]
<1>1. /\ Fits(t, m, size[m], used[m])
      /\ size[m] \in Nat /\ used[m] \in Nat
      /\ Sorted(t, m) /\ size[m] = Len(t)
  BY DEF IInv, TableRight, Fits
<1>2. /\ \A n \in Maps : EntriesOf(n) = Entries(buckets[n])
      /\ EntriesOf(m) = Entries(t)
  BY EntriesOfTable DEF IInv
<1>3. /\ size' = [size EXCEPT ![c] = size[m]]
      /\ used' = [used EXCEPT ![c] = used[m]]
      /\ buckets' = [buckets EXCEPT ![c] = u]
      /\ key' = Copied(key) /\ value' = Copied(value)
  <2>1. UNION {EntriesOf(n) : n \in Maps \ {c}} = kept
    BY <1>2
  <2>. HIDE DEF kept
  <2>. QED
    BY <1>1, <1>2, <2>1 DEF Clone, TableFor
<1>4. /\ Sorted(u, c) /\ Len(u) = Len(t)
      /\ Entries(u) = copies /\ Cardinality(Entries(u)) = Cardinality(Entries(t))
  BY <1>1, CopiedTable
<1>5. Fits(u, c, size[m], used[m])
  BY <1>1, <1>4 DEF Fits
<1>6. /\ \A d \in AllEntries : key[d] = d[2] /\ value[d] \in Values
      /\ kept \subseteq AllEntries /\ Entries(t) \subseteq AllEntries
      /\ Entries(t) \subseteq kept
  BY <1>1 DEF IInv, EntriesRight, AllEntries
<1>7. \A e \in Entries(t) : e \in Places /\ e[1] = m
  BY <1>1, ChainFacts
<1>8. \A e \in kept : e[1] # c
  <2>. SUFFICES ASSUME NEW n \in Maps \ {c}, NEW e \in Entries(buckets[n]) PROVE e[1] # c
    OBVIOUS
  <2>1. Sorted(buckets[n], n)
    BY DEF IInv, TableRight, Fits
  <2>. QED
    BY <2>1, ChainFacts
<1>9. \A e \in Entries(t) :
        /\ Of(c, e) \in copies /\ Of(c, e) \notin kept
        /\ Of(m, Of(c, e)) = e /\ Of(c, e)[2] = e[2]
  BY <1>7, <1>8, OfFacts
<1>10. /\ \A e \in kept : key'[e] = key[e] /\ value'[e] = value[e]
       /\ \A e \in Entries(t) : key'[Of(c, e)] = key[e] /\ value'[Of(c, e)] = value[e]
       /\ DOMAIN key' = kept \union copies /\ DOMAIN value' = kept \union copies
  <2>. HIDE DEF kept
  <2>. QED
    BY <1>3, <1>9
<1>11. /\ buckets'[c] = u
       /\ \A n \in Maps \ {c} : buckets'[n] = buckets[n]
  BY <1>3 DEF IInv
<1>12. AllEntries' = kept \union copies
  <2>1. AllEntries' = UNION {Entries(buckets'[n]) : n \in Maps}
    BY DEF AllEntries, Entries
  <2>. HIDE DEF copies, u
  <2>2. \A e : e \in AllEntries' <=> e \in kept \/ e \in copies
    BY <1>4, <1>11, <2>1
  <2>. QED
    BY <2>2
<1>. HIDE DEF u, kept
<1>13. EntriesRight'
  <2>1. \A e \in AllEntries' : key'[e] = e[2] /\ value'[e] \in Values
    BY <1>6, <1>9, <1>10, <1>12
  <2>. QED
    BY <1>10, <1>12, <2>1 DEF EntriesRight
<1>14. IInv'
  BY <1>1, <1>3, <1>5, <1>13, OthersStayRight
<1>15. OthersSame(c)
  BY <1>11 DEF OthersSame
<1>16. Cloned(m, c)
  <2>1. \A n \in Maps \ {c} : Entries(buckets[n]) \subseteq kept
    BY DEF kept
  <2>. QED
    BY <1>4, <1>10, <1>11, <2>1 DEF Cloned
<1>. QED
  BY <1>14, <1>15, <1>16

-----------------------------------------------------------------------------
(* The maps start right.                                                   *)
LEMMA InitIsRight == MapInit => IInv
<1>. SUFFICES ASSUME MapInit PROVE IInv
  OBVIOUS
<1>1. Len(<<>>) = 0 /\ <<>> \in Seq(Seq(Places)) /\ DOMAIN <<>> = {}
  OBVIOUS
<1>2. Entries(<<>>) = {}
  BY <1>1 DEF Entries
<1>3. \A m \in Maps : Sorted(<<>>, m)
  BY <1>1 DEF Sorted
<1>4. \A m \in Maps : Fits(<<>>, m, 0, 0)
  BY <1>1, <1>2, <1>3, FS_EmptySet DEF Fits
<1>5. \A m \in Maps : TableRight(m)
  BY <1>4 DEF MapInit, TableRight
<1>6. AllEntries = {}
  BY <1>2 DEF MapInit, AllEntries
<1>7. EntriesRight
  BY <1>1, <1>6 DEF MapInit, EntriesRight
<1>8. /\ size \in [Maps -> Nat] /\ used \in [Maps -> Nat]
      /\ buckets \in [Maps -> Seq(Seq(Places))]
  <2>. HIDE DEF Places
  <2>. QED
    BY <1>1 DEF MapInit
<1>. QED
  BY <1>5, <1>7, <1>8 DEF IInv, Places

(* What a step does to the entries of the maps.                            *)
LEMMA StepFacts ==
  ASSUME IInv, MapNext
  PROVE  /\ IInv'
         /\ \E m \in Maps :
              /\ OthersSame(m)
              /\ \/ \E k \in Keys, v \in Values : Updated(m, k, v) \/ Inserted(m, k, v)
                 \/ \E n \in Maps \ {m} : Cloned(n, m)
<1>1. CASE \E m \in Maps : \E k \in Keys, v \in Values : Put(m, k, v)
  <2>1. PICK m \in Maps, k \in Keys, v \in Values : Put(m, k, v)
    BY <1>1
  <2>2. CASE Update(m, Roomy(m), k, v)
    <3>1. IInv' /\ OthersSame(m) /\ Updated(m, k, v)
      BY <2>1, <2>2, UpdateStep DEF Put
    <3>. QED
      BY <3>1
  <2>3. CASE Insert(m, Roomy(m), k, v)
    <3>1. IInv' /\ OthersSame(m) /\ Inserted(m, k, v)
      BY <2>1, <2>3, InsertStep DEF Put
    <3>. QED
      BY <3>1
  <2>. QED
    BY <2>1, <2>2, <2>3 DEF Put
<1>2. CASE \E m \in Maps : \E c \in Maps \ {m} : Clone(m, c)
  <2>1. PICK m \in Maps : \E c \in Maps \ {m} : Clone(m, c)
    BY <1>2
  <2>2. PICK c \in Maps \ {m} : Clone(m, c)
    BY <2>1
  <2>3. IInv' /\ OthersSame(c) /\ Cloned(m, c)
    BY <2>2, CloneStep
  <2>. QED
    BY <2>3
<1>. QED
  BY <1>1, <1>2 DEF MapNext

(* IInv is inductive.                                                      *)
LEMMA InvariantStays == IInv /\ [MapNext]_mapVars => IInv'
<1>. SUFFICES ASSUME IInv, [MapNext]_mapVars PROVE IInv'
  OBVIOUS
<1>1. CASE MapNext
  BY <1>1, StepFacts
<1>2. CASE UNCHANGED mapVars
  BY <1>2 DEF mapVars, IInv, TableRight, EntriesRight, AllEntries
<1>. QED
  BY <1>1, <1>2

(***************************************************************************)
(* However tables grow and are copied, a map's count is exact, its keys    *)
(* are in the buckets of their hashes, and no two maps share an entry.     *)
(***************************************************************************)
THEOREM TablesStayExact == MapSpec => []TableExact
<1>1. MapInit => IInv
  BY InitIsRight
<1>2. IInv /\ [MapNext]_mapVars => IInv'
  BY InvariantStays
<1>3. IInv => TableExact
  BY InvariantIsExact
<1>. QED
  BY <1>1, <1>2, <1>3, PTL DEF MapSpec

-----------------------------------------------------------------------------
\* The functions that the maps are.
Found == [m \in Maps |-> [k \in Keys |-> Get(m, k)]]

\* MapGet finds x for key k in map m: the value of its entry, or nothing.
Finds(S, val, k, x) ==
    \/ \E e \in S : e[2] = k /\ x = val[e]
    \/ (\A e \in S : e[2] # k) /\ x = Absent

\* found says what MapGet finds.
Tells(found) ==
    \A m \in Maps, k \in Keys : Finds(Entries(buckets[m]), value, k, found[m][k])

(* What MapGet finds.                                                      *)
LEMMA FoundIs == IInv => Tells(Found)
<1>. SUFFICES ASSUME IInv, NEW m \in Maps, NEW k \in Keys
              PROVE  Finds(Entries(buckets[m]), value, k, Found[m][k])
  BY DEF Tells
<1>1. GetsRight
  BY GetIsRight
<1>2. Found[m][k] = Get(m, k)
  BY DEF Found
<1>3. CASE \A e \in Entries(buckets[m]) : e[2] # k
  BY <1>1, <1>2, <1>3 DEF GetsRight, Finds
<1>4. CASE \E e \in Entries(buckets[m]) : e[2] = k
  BY <1>1, <1>2, <1>4 DEF GetsRight, Finds
<1>. QED
  BY <1>3, <1>4

(* It finds one thing only.                                                *)
LEMMA FindsOne ==
  ASSUME NEW S, NEW val, NEW k, NEW x, NEW y, Finds(S, val, k, x), Finds(S, val, k, y),
         \A d, e \in S : d[2] = e[2] => d = e
  PROVE  x = y
BY DEF Finds

(* Entries of different maps are different, and so are a map's entries of  *)
(* different keys.                                                         *)
LEMMA EntriesApart ==
  ASSUME IInv
  PROVE  /\ \A m \in Maps : \A e \in Entries(buckets[m]) : e \in AllEntries /\ e[1] = m
         /\ \A m \in Maps : \A d, e \in Entries(buckets[m]) : d[2] = e[2] => d = e
         /\ DOMAIN value = AllEntries
<1>1. \A m \in Maps : Sorted(buckets[m], m)
  BY DEF IInv, TableRight, Fits
<1>. QED
  BY <1>1, ChainFacts DEF IInv, EntriesRight, AllEntries

(* MapPut of a key that the map has.                                       *)
LEMMA UpdateIsPut ==
  ASSUME IInv, Tells(Found), NEW found, NEW m \in Maps, NEW k \in Keys, NEW v \in Values,
         OthersSame(m), Updated(m, k, v),
         \A n \in Maps, j \in Keys : Finds(Entries(buckets'[n]), value', j, found[n][j]),
         NEW n \in Maps, NEW j \in Keys
  PROVE  found[n][j] = IF n = m /\ j = k THEN v ELSE Found[n][j]
<1>. DEFINE S == Entries(buckets[n])
<1>1. PICK e \in Entries(buckets[m]) :
        /\ e[2] = k
        /\ Entries(buckets'[m]) = Entries(buckets[m])
        /\ value' = [value EXCEPT ![e] = v]
  BY DEF Updated
<1>2. Entries(buckets'[n]) = S
  BY <1>1 DEF OthersSame
<1>3. /\ Finds(S, value', j, found[n][j]) /\ Finds(S, value, j, Found[n][j])
  BY <1>2 DEF Tells
<1>4. /\ \A d, f \in S : d[2] = f[2] => d = f
      /\ \A d \in S : d[1] = n /\ d \in DOMAIN value
      /\ e[1] = m /\ e \in DOMAIN value
  BY EntriesApart
<1>5. CASE n = m /\ j = k
  BY <1>1, <1>3, <1>4, <1>5 DEF Finds
<1>6. CASE n # m \/ j # k
  <2>1. \A d \in S : d[2] = j => d # e /\ value'[d] = value[d]
    BY <1>1, <1>4, <1>6
  <2>2. Finds(S, value, j, found[n][j])
    BY <1>3, <2>1 DEF Finds
  <2>. HIDE DEF S
  <2>3. found[n][j] = Found[n][j]
    BY <1>3, <1>4, <2>2, FindsOne
  <2>. QED
    BY <1>6, <2>3
<1>. QED
  BY <1>5, <1>6

(* MapPut of a key that the map lacks.                                     *)
LEMMA InsertIsPut ==
  ASSUME IInv, Tells(Found), NEW found, NEW m \in Maps, NEW k \in Keys, NEW v \in Values,
         OthersSame(m), Inserted(m, k, v),
         \A n \in Maps, j \in Keys : Finds(Entries(buckets'[n]), value', j, found[n][j]),
         NEW n \in Maps, NEW j \in Keys
  PROVE  found[n][j] = IF n = m /\ j = k THEN v ELSE Found[n][j]
<1>. DEFINE S == Entries(buckets[n])
<1>1. PICK e \in Places \ AllEntries :
        /\ e[1] = m /\ e[2] = k
        /\ \A d \in Entries(buckets[m]) : d[2] # k
        /\ Entries(buckets'[m]) = Entries(buckets[m]) \union {e}
        /\ value' = Added(value, e, v)
  BY DEF Inserted
<1>2. Entries(buckets'[n]) = IF n = m THEN S \union {e} ELSE S
  BY <1>1 DEF OthersSame
<1>3. /\ Finds(Entries(buckets'[n]), value', j, found[n][j])
      /\ Finds(S, value, j, Found[n][j])
  BY DEF Tells
<1>4. /\ \A d, f \in S : d[2] = f[2] => d = f
      /\ \A d \in S : d \in AllEntries
      /\ DOMAIN value = AllEntries
  BY EntriesApart
<1>5. value'[e] = v /\ \A d \in S : d # e /\ value'[d] = value[d]
  BY <1>1, <1>4 DEF Added
<1>. HIDE DEF S
<1>6. CASE n = m /\ j = k
  <2>1. \A d \in S : d[2] # k
    BY <1>1, <1>6 DEF S
  <2>. QED
    BY <1>1, <1>2, <1>3, <1>5, <1>6, <2>1 DEF Finds
<1>7. CASE n # m \/ j # k
  <2>1. \A d : d[2] = j => (d \in Entries(buckets'[n]) <=> d \in S)
    BY <1>1, <1>2, <1>7
  <2>2. Finds(S, value, j, found[n][j])
    BY <1>3, <1>5, <2>1 DEF Finds
  <2>3. found[n][j] = Found[n][j]
    BY <1>3, <1>4, <2>2, FindsOne
  <2>. QED
    BY <1>7, <2>3
<1>. QED
  BY <1>6, <1>7

(* MapClone.                                                               *)
LEMMA CloneIsClone ==
  ASSUME IInv, Tells(Found), NEW found, NEW m \in Maps, NEW c \in Maps \ {m},
         OthersSame(c), Cloned(m, c),
         \A n \in Maps, j \in Keys : Finds(Entries(buckets'[n]), value', j, found[n][j]),
         NEW n \in Maps, NEW j \in Keys
  PROVE  found[n][j] = IF n = c THEN Found[m][j] ELSE Found[n][j]
<1>1. /\ Finds(Entries(buckets'[n]), value', j, found[n][j])
      /\ Finds(Entries(buckets[n]), value, j, Found[n][j])
      /\ Finds(Entries(buckets[m]), value, j, Found[m][j])
  BY DEF Tells
<1>2. /\ \A d, f \in Entries(buckets[n]) : d[2] = f[2] => d = f
      /\ \A d, f \in Entries(buckets[m]) : d[2] = f[2] => d = f
  BY EntriesApart
<1>3. CASE n = c
  <2>1. /\ Entries(buckets'[n]) = {Of(c, e) : e \in Entries(buckets[m])}
        /\ \A e \in Entries(buckets[m]) : value'[Of(c, e)] = value[e] /\ Of(c, e)[2] = e[2]
    BY <1>3 DEF Cloned, Of
  <2>. HIDE DEF Of
  <2>2. Finds(Entries(buckets[m]), value, j, found[n][j])
    BY <1>1, <2>1 DEF Finds
  <2>3. found[n][j] = Found[m][j]
    BY <1>1, <1>2, <2>2, FindsOne
  <2>. QED
    BY <1>3, <2>3
<1>4. CASE n # c
  <2>1. /\ Entries(buckets'[n]) = Entries(buckets[n])
        /\ \A e \in Entries(buckets[n]) : value'[e] = value[e]
    BY <1>4 DEF Cloned, OthersSame
  <2>2. Finds(Entries(buckets[n]), value, j, found[n][j])
    BY <1>1, <2>1 DEF Finds
  <2>3. found[n][j] = Found[n][j]
    BY <1>1, <1>2, <2>2, FindsOne
  <2>. QED
    BY <1>4, <2>3
<1>. QED
  BY <1>3, <1>4

(* A step of the maps is a step of the functions.                          *)
LEMMA StepsAreFunctionSteps ==
  IInv /\ Tells(Found) /\ Tells(Found)' /\ [MapNext]_mapVars => [Function!Next]_Found
<1>. SUFFICES ASSUME IInv, Tells(Found), Tells(Found)', [MapNext]_mapVars
              PROVE  [Function!Next]_Found
  OBVIOUS
<1>1. CASE UNCHANGED mapVars
  <2>1. \A n \in Maps, j \in Keys : Get(n, j)' = Get(n, j)
    BY <1>1 DEF mapVars, Get, Matches
  <2>. QED
    BY <2>1 DEF Found
<1>2. CASE MapNext
  <2>1. PICK m \in Maps :
            /\ OthersSame(m)
            /\ \/ \E k \in Keys, v \in Values : Updated(m, k, v) \/ Inserted(m, k, v)
               \/ \E n \in Maps \ {m} : Cloned(n, m)
    BY <1>2, StepFacts
  <2>2. PICK found : found = Found'
    OBVIOUS
  <2>3. \A n \in Maps, j \in Keys : Finds(Entries(buckets'[n]), value', j, found[n][j])
    BY <2>2 DEF Tells
  <2>4. /\ found = [n \in Maps |-> [j \in Keys |-> found[n][j]]]
        /\ Found = [n \in Maps |-> [j \in Keys |-> Found[n][j]]]
    BY <2>2 DEF Found
  <2>5. ASSUME NEW k \in Keys, NEW v \in Values, Updated(m, k, v) \/ Inserted(m, k, v)
        PROVE  Function!Next
    <3>1. \A n \in Maps, j \in Keys : found[n][j] = IF n = m /\ j = k THEN v ELSE Found[n][j]
      BY <2>1, <2>3, <2>5, UpdateIsPut, InsertIsPut
    <3>2. found = [Found EXCEPT ![m][k] = v]
      <4>. DEFINE g == [Found EXCEPT ![m][k] = v]
      <4>1. ASSUME NEW n \in Maps PROVE found[n] = g[n]
        <5>1. /\ found[n] = [j \in Keys |-> found[n][j]]
              /\ Found[n] = [j \in Keys |-> Found[n][j]]
              /\ g[n] = IF n = m THEN [Found[n] EXCEPT ![k] = v] ELSE Found[n]
          BY <2>4
        <5>2. g[n] = [j \in Keys |-> IF n = m /\ j = k THEN v ELSE Found[n][j]]
          BY <5>1
        <5>. HIDE DEF g
        <5>. QED
          BY <3>1, <5>1, <5>2
      <4>2. found = [n \in Maps |-> found[n]] /\ g = [n \in Maps |-> g[n]]
        BY <2>4
      <4>. HIDE DEF g
      <4>3. found = g
        BY <4>1, <4>2
      <4>. QED
        BY <4>3 DEF g
    <3>3. Function!Put(m, k, v)
      BY <2>2, <3>2 DEF Function!Put, Found
    <3>. QED
      BY <3>3 DEF Function!Next
  <2>6. ASSUME NEW n \in Maps \ {m}, Cloned(n, m) PROVE Function!Next
    <3>1. \A l \in Maps, j \in Keys : found[l][j] = IF l = m THEN Found[n][j] ELSE Found[l][j]
      BY <2>1, <2>3, <2>6, CloneIsClone
    <3>2. found = [Found EXCEPT ![m] = Found[n]]
      BY <2>4, <3>1
    <3>3. Function!Clone(n, m)
      BY <2>2, <3>2 DEF Function!Clone, Found
    <3>. QED
      BY <3>3 DEF Function!Next
  <2>. QED
    BY <2>1, <2>5, <2>6
<1>. QED
  BY <1>1, <1>2

(***************************************************************************)
(* Whatever is put, rehashed and cloned, MapGet finds in every map what    *)
(* was put there last: the maps implement functions.                       *)
(***************************************************************************)
THEOREM MapsAreFunctions == MapSpec => ImplementsFunctions
<1>1. MapInit => Function!Init
  BY DEF MapInit, Function!Init, Get
<1>2. IInv => Tells(Found)
  BY FoundIs
<1>3. IInv /\ Tells(Found) /\ Tells(Found)' /\ [MapNext]_mapVars => [Function!Next]_Found
  BY StepsAreFunctionSteps
<1>4. MapInit => IInv
  BY InitIsRight
<1>5. IInv /\ [MapNext]_mapVars => IInv'
  BY InvariantStays
<1>6. MapSpec => []IInv
  BY <1>4, <1>5, PTL DEF MapSpec
<1>. QED
  BY <1>1, <1>2, <1>3, <1>6, PTL DEF MapSpec, ImplementsFunctions, Function!Spec, Found
=============================================================================
