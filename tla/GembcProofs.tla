---------------------------- MODULE GembcProofs -----------------------------
(***************************************************************************)
(* Proofs about Gembc: for any heap, any number of generations and pools,  *)
(* any program and any choice of pools that cannot be had, the remembered  *)
(* sets are complete, no object points at anything but objects, the scan   *)
(* of remembered cards meets only objects, a copying collection never      *)
(* loses sight of a pointer it must still change, and the whole implements *)
(* ObjectGraph: to the program there is no collector.  What its variables  *)
(* lead to is in every state what an object graph with the same history    *)
(* holds, forwarding being followed.                                       *)
(*                                                                         *)
(* All of it follows from one inductive invariant, IInv, which says of     *)
(* each phase of a collection what is where: which words are pointers,     *)
(* which objects are forwarded and to what, what is still on the stack of  *)
(* the collector, which cards are remembered.                              *)
(*                                                                         *)
(* At the end: the search of break tables finds the right entry.           *)
(***************************************************************************)
EXTENDS Gembc, BreakTable, DataLemmas

-----------------------------------------------------------------------------
(***************************************************************************)
(* The inductive invariant.                                                *)
(***************************************************************************)
Addresses == {VarAt(x) : x \in Vars} \union {MemberAt(l, f) : l \in Locs, f \in Members}

Elements(s) == {s[i] : i \in DOMAIN s}

Seen == Elements(toSearch)

Types ==
    /\ var \in [Vars -> Locs \union {Null}]
    /\ heap \in [Locs -> SlotContents]
    /\ used \in [Pools -> 0 .. PoolSize]
    /\ pools \in [Gens -> 0 .. MaxPools]
    /\ current \in [Gens -> 1 .. MaxPools]
    /\ remember \in SUBSET Cards
    /\ survivors \in [Pools -> Int]
    /\ phase \in {"run", "copy", "mark"}
    /\ gen \in Gens
    /\ toSearch \in Seq(Addresses)
    /\ nextAll \in Gens

\* What is collected, and that nothing is left of a collection that is over.
PhaseInv ==
    /\ phase = "run" => gen = 0 /\ toSearch = <<>>
    /\ phase = "copy" => gen < Generations - 1
    /\ phase = "mark" => gen = Generations - 1

\* A pool that is not in its generation's list is empty.
PoolsInv == \A p \in Pools : p[2] > pools[p[1]] => used[p] = 0

\* Slots below the free pointer hold objects, the others none.
SlotsInv ==
    \A l \in Locs : IF l \in Objects THEN heap[l].word = "object"
                    ELSE heap[l] \in {Cleared, Junk}

\* In the generations that are scanned, the word after the last object is clear.
ClearInv ==
    \A l \in Locs : GenOf(l) > 0 /\ l[3] > 0 /\ l[3] = used[PoolOf(l)] => heap[l] = Cleared

\* Pointers lead to objects, abandoned copies included.
PointersInv ==
    /\ \A x \in Vars : var[x] # Null => var[x] \in Objects
    /\ \A l \in Objects, f \in Members : heap[l].to[f] # Null => heap[l].to[f] \in Objects

\* An object that was moved was moved to an older generation.
ForwardInv ==
    \A l \in Objects : heap[l].at # Null =>
        /\ heap[l].at \in Objects
        /\ GenOf(heap[l].at) > GenOf(l)
        /\ GenOf(l) <= gen
        /\ phase # "run"

\* Addresses on the stack are those of roots and of members of objects.
StackInv ==
    \A l \in Locs, f \in Members : MemberAt(l, f) \in Seen =>
        l \in Objects /\ (phase = "mark" => heap[l].marked)

\* A remembered card has an object on it.
CardsInv == \A c \in remember : GenOf(c) > 0 /\ \E l \in Objects : CardOf(l) = c

\* Pointers to a younger generation from one that is not to be filled.
RememberInv ==
    \A l \in Objects, f \in Members :
        /\ phase # "mark"
        /\ phase = "copy" => GenOf(l) > gen + 1
        /\ heap[l].to[f] # Null
        /\ GenOf(heap[l].to[f]) < GenOf(l)
        => CardOf(l) \in remember

\* While copying, a pointer into the generations collected is on the stack.
CopyInv ==
    phase = "copy" =>
        /\ \A x \in Vars : var[x] # Null /\ GenOf(var[x]) <= gen => VarAt(x) \in Seen
        /\ \A l \in Objects, f \in Members :
             GenOf(l) > gen /\ heap[l].to[f] # Null /\ GenOf(heap[l].to[f]) <= gen
             => MemberAt(l, f) \in Seen

\* While marking, a pointer from a root or a marked object leads to a marked
\* object or is on the stack.
MarkInv ==
    /\ \A l \in Locs : heap[l].marked => phase = "mark" /\ heap[l].at = Null
    /\ phase = "mark" =>
        /\ \A x \in Vars : var[x] # Null => heap[var[x]].marked \/ VarAt(x) \in Seen
        /\ \A l \in Objects, f \in Members :
             heap[l].marked /\ heap[l].to[f] # Null
             => heap[heap[l].to[f]].marked \/ MemberAt(l, f) \in Seen

IInv ==
    /\ Types
    /\ PhaseInv
    /\ PoolsInv
    /\ SlotsInv
    /\ ClearInv
    /\ PointersInv
    /\ ForwardInv
    /\ StackInv
    /\ CardsInv
    /\ RememberInv
    /\ CopyInv
    /\ MarkInv

-----------------------------------------------------------------------------
(***************************************************************************)
(* Locations, cards and addresses.                                         *)
(***************************************************************************)
(* The parts of a location, and that Null is none.                         *)
LEMMA LocFacts ==
  /\ Null \notin Locs
  /\ \A l \in Locs : /\ l = <<l[1], l[2], l[3]>>
                     /\ l[1] \in Gens /\ l[2] \in 1 .. MaxPools /\ l[3] \in Slots
                     /\ PoolOf(l) \in Pools /\ PoolOf(l)[1] = l[1] /\ PoolOf(l)[2] = l[2]
                     /\ GenOf(l) = l[1] /\ l[1] \in Nat /\ l[3] \in Nat
  /\ \A p \in Pools : p = <<p[1], p[2]>> /\ p[1] \in Gens /\ p[2] \in 1 .. MaxPools
  /\ Gens \subseteq Nat /\ Slots \subseteq Nat
<1>1. Locs \subseteq Nat \X Nat \X Nat
  BY SizesAssumption DEF Locs, Gens, Slots
<1>. QED
  BY <1>1, SizesAssumption DEF Locs, Pools, Gens, Slots, PoolOf, GenOf

(* A later slot of a pool is not on an earlier card.                       *)
LEMMA CardFacts ==
  /\ \A l \in Locs : /\ CardOf(l) \in Cards /\ GenOf(CardOf(l)) = GenOf(l)
                     /\ CardOf(l)[1] = l[1] /\ CardOf(l)[2] = l[2]
                     /\ CardOf(l)[3] = l[3] \div CardSize /\ CardOf(l)[3] \in Nat
  /\ \A l, m \in Locs : l[3] <= m[3] => CardOf(l)[3] <= CardOf(m)[3]
<1>1. CardSize \in Nat \ {0} /\ PoolSize - 1 \in Nat
  BY SizesAssumption
<1>2. \A a, b \in Nat : a <= b => a \div CardSize <= b \div CardSize /\ a \div CardSize \in Nat
  BY <1>1, DivisionMonotonic, Quotient
<1>3. \A l \in Locs : l[3] \div CardSize \in 0 .. (PoolSize - 1) \div CardSize
  <2>. TAKE l \in Locs
  <2>1. l[3] \in Nat /\ l[3] <= PoolSize - 1
    BY <1>1, LocFacts DEF Slots
  <2>2. l[3] \div CardSize <= (PoolSize - 1) \div CardSize
    BY <1>1, <1>2, <2>1
  <2>3. l[3] \div CardSize \in Nat /\ (PoolSize - 1) \div CardSize \in Nat
    BY <1>1, <2>1, Quotient
  <2>. QED
    BY <2>2, <2>3
<1>4. \A l, m \in Locs : l[3] <= m[3] => l[3] \div CardSize <= m[3] \div CardSize
  BY <1>2, LocFacts
<1>5. \A l \in Locs : l[3] \div CardSize \in Nat
  BY <1>2, LocFacts
<1>. HIDE DEF Locs
<1>. QED
  BY <1>3, <1>4, <1>5, LocFacts DEF CardOf, Cards, GenOf

(* Addresses tell what they are the address of.                            *)
LEMMA AddressFacts ==
  /\ \A x : VarAt(x)[1] = "var" /\ VarAt(x)[2] = x
  /\ \A l, f : MemberAt(l, f)[1] = "member" /\ MemberAt(l, f)[2] = l /\ MemberAt(l, f)[3] = f
  /\ \A x, l, f : VarAt(x) # MemberAt(l, f)
  /\ \A x, y : VarAt(x) = VarAt(y) => x = y
  /\ \A l, f, m, g : MemberAt(l, f) = MemberAt(m, g) => l = m /\ f = g
BY DEF VarAt, MemberAt

(* What storing at an address changes, pointer by pointer.                 *)
LEMMA StoreFacts ==
  ASSUME NEW a \in Addresses, NEW l \in Locs, NEW h \in [Locs -> SlotContents],
         var \in [Vars -> Locs \union {Null}], Store(a, l, h)
  PROVE  /\ var' \in [Vars -> Locs \union {Null}]
         /\ heap' \in [Locs -> SlotContents]
         /\ \A x \in Vars : var'[x] = IF a = VarAt(x) THEN l ELSE var[x]
         /\ \A m \in Locs : /\ heap'[m].word = h[m].word
                            /\ heap'[m].at = h[m].at
                            /\ heap'[m].marked = h[m].marked
                            /\ (\A f \in Members : a # MemberAt(m, f)) => heap'[m] = h[m]
         /\ \A m \in Locs, f \in Members :
              heap'[m].to[f] = IF a = MemberAt(m, f) THEN l ELSE h[m].to[f]
<1>1. CASE \E x \in Vars : a = VarAt(x)
  <2>1. PICK x \in Vars : a = VarAt(x)
    BY <1>1
  <2>2. var' = [var EXCEPT ![x] = l] /\ heap' = h
    BY <2>1, AddressFacts DEF Store
  <2>3. \A y \in Vars : a = VarAt(y) <=> x = y
    BY <2>1, AddressFacts
  <2>4. \A m, f : a # MemberAt(m, f)
    BY <2>1, AddressFacts
  <2>. QED
    BY <2>2, <2>3, <2>4
<1>2. CASE \E m \in Locs, f \in Members : a = MemberAt(m, f)
  <2>1. PICK m \in Locs, f \in Members : a = MemberAt(m, f)
    BY <1>2
  <2>2. var' = var /\ heap' = [h EXCEPT ![m].to[f] = l]
    BY <2>1, AddressFacts DEF Store
  <2>3. \A n, g : a = MemberAt(n, g) <=> n = m /\ g = f
    BY <2>1, AddressFacts
  <2>4. \A x : a # VarAt(x)
    BY <2>1, AddressFacts
  <2>5. \A n \in Locs : h[n] \in SlotContents
    OBVIOUS
  <2>6. heap' \in [Locs -> SlotContents]
    BY <2>2, <2>5 DEF SlotContents
  <2>7. \A n \in Locs : /\ heap'[n].word = h[n].word
                        /\ heap'[n].at = h[n].at
                        /\ heap'[n].marked = h[n].marked
                        /\ n # m => heap'[n] = h[n]
    BY <2>2, <2>5 DEF SlotContents
  <2>8. \A n \in Locs, g \in Members :
          heap'[n].to[g] = IF n = m /\ g = f THEN l ELSE h[n].to[g]
    BY <2>2, <2>5 DEF SlotContents
  <2>. QED
    BY <2>2, <2>3, <2>4, <2>6, <2>7, <2>8
<1>. QED
  BY <1>1, <1>2 DEF Addresses

-----------------------------------------------------------------------------
(***************************************************************************)
(* The stack of addresses.                                                 *)
(***************************************************************************)
(* Pushing a finite set of addresses adds it to what is on the stack.      *)
LEMMA PushFacts ==
  ASSUME NEW s \in Seq(Addresses), NEW S, IsFiniteSet(S), S \subseteq Addresses
  PROVE  /\ s \o Listed(S) \in Seq(Addresses)
         /\ Elements(s \o Listed(S)) = Elements(s) \union S
         /\ Listed(S) \in Seq(Addresses)
         /\ Elements(Listed(S)) = S
<1>1. Listed(S) = Listing(S)
  BY DEF Listed, Listing
<1>2. Listed(S) \in Seq(S) /\ \A x \in S : \E i \in DOMAIN Listed(S) : Listed(S)[i] = x
  BY <1>1, ListingElements
<1>. DEFINE t == Listed(S)
<1>3. t \in Seq(Addresses) /\ t \in Seq(S)
  BY <1>2
<1>4. Elements(t) = S
  <2>1. \A i \in DOMAIN t : t[i] \in S
    BY <1>3
  <2>. QED
    BY <1>2, <2>1 DEF Elements
<1>. HIDE DEF t
<1>5. s \o t \in Seq(Addresses)
  BY <1>3
<1>6. /\ Len(s) \in Nat /\ Len(t) \in Nat /\ DOMAIN s = 1 .. Len(s) /\ DOMAIN t = 1 .. Len(t)
      /\ DOMAIN (s \o t) = 1 .. Len(s) + Len(t)
      /\ \A i \in DOMAIN (s \o t) :
           (s \o t)[i] = IF i <= Len(s) THEN s[i] ELSE t[i - Len(s)]
  BY <1>3
<1>7. Elements(s \o t) \subseteq Elements(s) \union Elements(t)
  <2>. SUFFICES ASSUME NEW i \in DOMAIN (s \o t)
                PROVE  (s \o t)[i] \in Elements(s) \union Elements(t)
    BY DEF Elements
  <2>1. CASE i <= Len(s)
    BY <1>6, <2>1 DEF Elements
  <2>2. CASE ~(i <= Len(s))
    <3>1. i - Len(s) \in 1 .. Len(t)
      BY <1>6, <2>2
    <3>. QED
      BY <1>6, <2>2, <3>1 DEF Elements
  <2>. QED
    BY <2>1, <2>2
<1>8. Elements(s) \subseteq Elements(s \o t)
  <2>. SUFFICES ASSUME NEW i \in DOMAIN s PROVE s[i] \in Elements(s \o t)
    BY DEF Elements
  <2>1. i \in DOMAIN (s \o t) /\ (s \o t)[i] = s[i]
    BY <1>6
  <2>. QED
    BY <2>1 DEF Elements
<1>9. Elements(t) \subseteq Elements(s \o t)
  <2>. SUFFICES ASSUME NEW i \in DOMAIN t PROVE t[i] \in Elements(s \o t)
    BY DEF Elements
  <2>1. i + Len(s) \in DOMAIN (s \o t) /\ (s \o t)[i + Len(s)] = t[i]
    BY <1>6
  <2>. QED
    BY <2>1 DEF Elements
<1>. QED
  BY <1>3, <1>4, <1>5, <1>7, <1>8, <1>9 DEF t

(* Taking the top off the stack.                                           *)
LEMMA PopFacts ==
  ASSUME toSearch \in Seq(Addresses), toSearch # <<>>
  PROVE  /\ Top \in Addresses /\ Top \in Seen
         /\ Rest \in Seq(Addresses)
         /\ Elements(Rest) \subseteq Seen
         /\ Seen \subseteq Elements(Rest) \union {Top}
<1>1. /\ Len(toSearch) \in Nat \ {0} /\ DOMAIN toSearch = 1 .. Len(toSearch)
      /\ Len(toSearch) - 1 \in Nat
  OBVIOUS
<1>2. /\ Rest \in Seq(Addresses) /\ DOMAIN Rest = 1 .. Len(toSearch) - 1
      /\ \A i \in DOMAIN Rest : Rest[i] = toSearch[i]
  BY <1>1 DEF Rest
<1>3. Top \in Addresses /\ Top \in Seen
  BY <1>1 DEF Top, Seen, Elements
<1>4. Elements(Rest) \subseteq Seen
  BY <1>1, <1>2 DEF Elements, Seen
<1>5. ASSUME NEW i \in DOMAIN toSearch PROVE toSearch[i] \in Elements(Rest) \union {Top}
  <2>1. CASE i = Len(toSearch)
    BY <2>1 DEF Top
  <2>2. CASE i # Len(toSearch)
    BY <1>1, <1>2, <2>2 DEF Elements
  <2>. QED
    BY <2>1, <2>2
<1>. QED
  BY <1>2, <1>3, <1>4, <1>5 DEF Seen, Elements

-----------------------------------------------------------------------------
(***************************************************************************)
(* Objects and forwarding.                                                 *)
(***************************************************************************)
(* Which locations are objects, and that what is none was not moved.       *)
LEMMA ObjectFacts ==
  ASSUME Types, SlotsInv
  PROVE  /\ \A l \in Locs : l \in Objects <=> l[3] < used[PoolOf(l)]
         /\ Objects \subseteq Locs
         /\ \A l \in Objects : heap[l].word = "object"
         /\ \A l \in Locs : l \notin Objects =>
              heap[l] \in {Cleared, Junk} /\ heap[l].at = Null /\ heap[l].marked = FALSE
<1>1. /\ Cleared.at = Null /\ Cleared.marked = FALSE
      /\ Junk.at = Null /\ Junk.marked = FALSE
  BY DEF Cleared, Junk, NewObject
<1>. QED
  BY <1>1 DEF Types, SlotsInv, Objects, IsObject

\* One step of the recursion in Follow.
Forwarded(g, m) == IF heap[m].at = Null THEN m ELSE g[heap[m].at]

From(n) == {l \in Locs : GenOf(l) >= Generations - n}

(* The recursion in Follow ends: every forwarding is to an older           *)
(* generation.                                                             *)
LEMMA FollowDefined ==
  ASSUME Types, SlotsInv, ForwardInv
  PROVE  \A l \in Locs : /\ Follow(l) = IF heap[l].at = Null THEN l ELSE Follow(heap[l].at)
                         /\ heap[l].at # Null => heap[l].at \in Objects /\ l \in Objects
<1>. DEFINE T == {n \in Nat : \E g : g = [m \in From(n) |-> Forwarded(g, m)]}
<1>1. \A l \in Locs : heap[l].at # Null =>
         l \in Objects /\ heap[l].at \in Objects /\ GenOf(heap[l].at) > GenOf(l)
  BY ObjectFacts DEF ForwardInv
<1>2. \A l \in Locs : GenOf(l) \in 0 .. Generations - 1 /\ Generations \in Nat
  BY LocFacts, SizesAssumption DEF Gens
<1>3. 0 \in T
  <2>. DEFINE g == [m \in From(0) |-> m]
  <2>1. From(0) = {}
    BY <1>2 DEF From
  <2>2. g = [m \in From(0) |-> Forwarded(g, m)]
    BY <2>1
  <2>. QED
    BY <2>2
<1>4. ASSUME NEW n \in Nat, n \in T PROVE n + 1 \in T
  <2>1. PICK g : g = [m \in From(n) |-> Forwarded(g, m)]
    BY <1>4
  <2>. DEFINE h == [m \in From(n + 1) |-> Forwarded(g, m)]
  <2>2. \A m \in From(n) : m \in From(n + 1)
    BY <1>2 DEF From
  <2>3. \A m \in From(n) : h[m] = g[m]
    BY <2>1, <2>2
  <2>4. \A m \in From(n + 1) : heap[m].at # Null => heap[m].at \in From(n)
    <3>. SUFFICES ASSUME NEW m \in From(n + 1), heap[m].at # Null
                  PROVE  heap[m].at \in From(n)
      OBVIOUS
    <3>1. m \in Locs /\ GenOf(m) >= Generations - (n + 1)
      BY DEF From
    <3>2. heap[m].at \in Locs /\ GenOf(heap[m].at) > GenOf(m)
      BY <1>1, <3>1, ObjectFacts
    <3>. QED
      BY <1>2, <3>1, <3>2 DEF From
  <2>. HIDE DEF h
  <2>5. \A m \in From(n + 1) : Forwarded(g, m) = Forwarded(h, m)
    BY <2>3, <2>4 DEF Forwarded
  <2>6. h = [m \in From(n + 1) |-> Forwarded(h, m)]
    BY <2>5 DEF h
  <2>7. \E k : k = [m \in From(n + 1) |-> Forwarded(k, m)]
    BY <2>6
  <2>. QED
    BY <2>7
<1>. HIDE DEF T
<1>5. Generations \in T
  BY <1>3, <1>4, NatSetInduction, SizesAssumption
<1>6. From(Generations) = Locs
  BY <1>2 DEF From
<1>. DEFINE last == CHOOSE g : g = [m \in Locs |-> Forwarded(g, m)]
<1>7. last = [m \in Locs |-> Forwarded(last, m)]
  BY <1>5, <1>6 DEF T
<1>8. \A l : Follow(l) = last[l]
  BY Zenon DEF Follow, Forwarded
<1>. HIDE DEF last
<1>. QED
  BY <1>1, <1>7, <1>8, ObjectFacts DEF Forwarded

(* FOLLOW_FORWARDED_OBJECT finds the object, in the same generation only   *)
(* if it is where it was, and otherwise in an older one.                   *)
LEMMA FollowFacts ==
  ASSUME Types, SlotsInv, ForwardInv
  PROVE  \A l \in Objects : /\ Follow(l) \in Objects
                            /\ heap[Follow(l)].at = Null
                            /\ GenOf(Follow(l)) >= GenOf(l)
                            /\ heap[l].at = Null => Follow(l) = l
                            /\ heap[l].at # Null => GenOf(l) <= gen /\ phase # "run"
<1>. DEFINE Right(l) == /\ Follow(l) \in Objects
                        /\ heap[Follow(l)].at = Null
                        /\ GenOf(Follow(l)) >= GenOf(l)
            T == {n \in Nat : \A l \in Objects \intersect From(n) : Right(l)}
<1>1. \A l \in Locs : GenOf(l) \in 0 .. Generations - 1 /\ GenOf(l) \in Nat /\ Generations \in Nat
  BY LocFacts, SizesAssumption DEF Gens
<1>2. 0 \in T
  BY <1>1 DEF From
<1>3. ASSUME NEW n \in Nat, n \in T PROVE n + 1 \in T
  <2>. SUFFICES ASSUME NEW l \in Objects \intersect From(n + 1) PROVE Right(l)
    OBVIOUS
  <2>1. l \in Locs /\ GenOf(l) >= Generations - (n + 1) /\ GenOf(l) \in Nat
    BY <1>1 DEF From
  <2>2. CASE heap[l].at = Null
    BY <2>1, <2>2, FollowDefined
  <2>3. CASE heap[l].at # Null
    <3>1. heap[l].at \in Objects /\ GenOf(heap[l].at) > GenOf(l) /\ heap[l].at \in Locs
      BY <2>3, ObjectFacts DEF ForwardInv
    <3>2. heap[l].at \in From(n)
      BY <1>1, <2>1, <3>1 DEF From
    <3>3. Right(heap[l].at)
      BY <1>3, <3>1, <3>2
    <3>4. Follow(l) = Follow(heap[l].at)
      BY <2>1, <2>3, FollowDefined
    <3>5. GenOf(heap[l].at) \in Nat /\ GenOf(Follow(heap[l].at)) \in Nat
      BY <1>1, <3>1, <3>3, ObjectFacts
    <3>. QED
      BY <2>1, <3>1, <3>3, <3>4, <3>5
  <2>. QED
    BY <2>2, <2>3
<1>. HIDE DEF T
<1>4. Generations \in T
  BY <1>2, <1>3, NatSetInduction, SizesAssumption
<1>5. From(Generations) = Locs
  BY <1>1 DEF From
<1>. HIDE DEF Right
<1>6. \A l \in Objects : Right(l)
  BY <1>4, <1>5, ObjectFacts DEF T
<1>7. \A l \in Objects : heap[l].at = Null => Follow(l) = l
  BY FollowDefined, ObjectFacts
<1>. QED
  BY <1>6, <1>7 DEF Right, ForwardInv

-----------------------------------------------------------------------------
(***************************************************************************)
(* Allocation.                                                             *)
(***************************************************************************)
(* Where there is room, the slot found is one no object has.               *)
LEMMA RoomFacts ==
  ASSUME Types, PoolsInv, NEW g \in Gens, HasRoom(g)
  PROVE  /\ FreePool(g) \in 1 .. MaxPools
         /\ <<g, FreePool(g)>> \in Pools
         /\ used[<<g, FreePool(g)>>] \in 0 .. PoolSize - 1
         /\ FreeLoc(g) \in Locs
         /\ FreeLoc(g)[1] = g
         /\ FreeLoc(g)[3] = used[PoolOf(FreeLoc(g))]
         /\ PoolOf(FreeLoc(g)) = <<g, FreePool(g)>>
         /\ pools[g] = 0 \/ FreePool(g) <= pools[g]
<1>1. /\ pools[g] \in 0 .. MaxPools /\ current[g] \in 1 .. MaxPools /\ MaxPools \in Nat \ {0}
      /\ PoolSize \in Nat \ {0}
  BY SizesAssumption DEF Types
<1>2. FreePool(g) \in 1 .. MaxPools /\ used[<<g, FreePool(g)>>] < PoolSize
      /\ (pools[g] = 0 \/ FreePool(g) <= pools[g])
  <2>1. CASE pools[g] = 0
    <3>1. FreePool(g) = 1
      BY <2>1 DEF FreePool
    <3>2. <<g, 1>> \in Pools
      BY <1>1 DEF Pools
    <3>. QED
      BY <1>1, <2>1, <3>1, <3>2 DEF PoolsInv
  <2>2. CASE pools[g] # 0
    <3>1. RoomIn(g) # {} /\ RoomIn(g) \subseteq Nat
      BY <1>1, <2>2 DEF HasRoom, RoomIn
    <3>2. FreePool(g) \in RoomIn(g)
      BY <2>2, <3>1, MinOfNaturals DEF FreePool
    <3>. QED
      BY <1>1, <3>2 DEF RoomIn
  <2>. QED
    BY <2>1, <2>2
<1>3. <<g, FreePool(g)>> \in Pools
  BY <1>2 DEF Pools
<1>4. used[<<g, FreePool(g)>>] \in 0 .. PoolSize - 1
  BY <1>1, <1>2, <1>3 DEF Types
<1>. HIDE DEF FreePool
<1>5. FreeLoc(g) \in Locs
  BY <1>2, <1>4 DEF FreeLoc, Locs, Slots
<1>. QED
  BY <1>2, <1>3, <1>4, <1>5 DEF FreeLoc, PoolOf

(* Taking it makes one more object, at that slot.                          *)
LEMMA TakeFacts ==
  ASSUME Types, PoolsInv, NEW g \in Gens, HasRoom(g), Take(g)
  PROVE  /\ used' \in [Pools -> 0 .. PoolSize]
         /\ pools' \in [Gens -> 0 .. MaxPools]
         /\ current' \in [Gens -> 1 .. MaxPools]
         /\ PoolsInv'
         /\ \A p \in Pools : used'[p] = IF p = PoolOf(FreeLoc(g)) THEN used[p] + 1 ELSE used[p]
         /\ Objects' = Objects \union {FreeLoc(g)}
         /\ FreeLoc(g) \notin Objects
<1>. DEFINE q == PoolOf(FreeLoc(g))
<1>1. /\ q \in Pools /\ q = <<g, FreePool(g)>> /\ FreePool(g) \in 1 .. MaxPools
      /\ used[q] \in 0 .. PoolSize - 1 /\ q[1] = g /\ q[2] = FreePool(g)
      /\ FreeLoc(g) \in Locs /\ FreeLoc(g)[3] = used[q]
      /\ pools[g] = 0 \/ FreePool(g) <= pools[g]
  <2>1. /\ q \in Pools /\ q = <<g, FreePool(g)>> /\ FreePool(g) \in 1 .. MaxPools
        /\ FreeLoc(g) \in Locs /\ FreeLoc(g)[3] = used[q]
        /\ pools[g] = 0 \/ FreePool(g) <= pools[g]
    BY RoomFacts
  <2>2. used[<<g, FreePool(g)>>] \in 0 .. PoolSize - 1
    BY RoomFacts
  <2>. HIDE DEF q
  <2>3. q[1] = g /\ q[2] = FreePool(g)
    BY <2>1
  <2>4. used[q] \in 0 .. PoolSize - 1
    BY <2>1, <2>2, Zenon
  <2>. QED
    BY <2>1, <2>3, <2>4
<1>2. used' = [used EXCEPT ![q] = used[q] + 1]
  BY <1>1 DEF Take
<1>a. used \in [Pools -> 0 .. PoolSize] /\ PoolSize \in Nat
  BY SizesAssumption DEF Types
<1>b. q \in Pools /\ used[q] \in 0 .. PoolSize - 1
  BY <1>1
<1>3. \A p \in Pools : used'[p] = IF p = q THEN used[p] + 1 ELSE used[p]
  <2>. HIDE DEF q
  <2>. QED
    BY <1>a, <1>b, <1>2
<1>4. used' \in [Pools -> 0 .. PoolSize]
  <2>. HIDE DEF q
  <2>1. used[q] + 1 \in 0 .. PoolSize
    BY <1>a, <1>b
  <2>. QED
    BY <1>a, <1>2, <2>1
<1>5. /\ pools' \in [Gens -> 0 .. MaxPools] /\ current' \in [Gens -> 1 .. MaxPools]
      /\ \A k \in Gens : pools'[k] = IF k = g /\ pools[k] = 0 THEN 1 ELSE pools[k]
  <2>1. /\ pools \in [Gens -> 0 .. MaxPools] /\ current \in [Gens -> 1 .. MaxPools]
        /\ MaxPools \in Nat /\ MaxPools >= 1
    BY SizesAssumption DEF Types
  <2>2. /\ current' = [current EXCEPT ![g] = FreePool(g)]
        /\ pools' = [pools EXCEPT ![g] = IF @ = 0 THEN 1 ELSE @]
    BY DEF Take
  <2>. HIDE DEF q
  <2>. QED
    BY <1>1, <2>1, <2>2
<1>. HIDE DEF q
<1>6. PoolsInv'
  <2>. SUFFICES ASSUME NEW p \in Pools, p[2] > pools'[p[1]] PROVE used'[p] = 0
    BY DEF PoolsInv
  <2>1. p[1] \in Gens /\ p[2] \in 1 .. MaxPools /\ pools[p[1]] \in 0 .. MaxPools
    BY LocFacts DEF Types
  <2>2. p[2] > pools[p[1]]
    BY <1>5, <2>1
  <2>3. used[p] = 0
    BY <2>2 DEF PoolsInv
  <2>4. p # q
    <3>. SUFFICES ASSUME p = q PROVE FALSE
      OBVIOUS
    <3>1. p[1] = g /\ p[2] = FreePool(g)
      BY <1>1
    <3>2. pools[g] = 0
      BY <1>1, <2>1, <2>2, <3>1
    <3>3. pools'[g] = 1
      BY <1>5, <3>2
    <3>4. FreePool(g) = 1
      BY <3>2 DEF FreePool
    <3>. QED
      BY <3>1, <3>3, <3>4
  <2>. QED
    BY <1>3, <2>3, <2>4
<1>7. \A l \in Locs : l \in Objects' <=> l \in Objects \/ l = FreeLoc(g)
  <2>. TAKE l \in Locs
  <2>1. PoolOf(l) \in Pools /\ l[3] \in Nat /\ used[PoolOf(l)] \in Nat
    BY LocFacts, SizesAssumption DEF Types
  <2>2. PoolOf(l) = q /\ l[3] = used[q] <=> l = FreeLoc(g)
    BY <1>1, LocFacts DEF q, PoolOf
  <2>3. l \in Objects' <=> l[3] < used'[PoolOf(l)]
    BY DEF Objects, IsObject, PoolOf
  <2>4. l \in Objects <=> l[3] < used[PoolOf(l)]
    BY DEF Objects, IsObject
  <2>. QED
    BY <1>3, <2>1, <2>2, <2>3, <2>4
<1>8. Objects' \subseteq Locs /\ Objects \subseteq Locs
  BY DEF Objects, Locs
<1>9. FreeLoc(g) \notin Objects
  BY <1>1, SizesAssumption DEF Objects, IsObject, q
<1>. QED
  BY <1>1, <1>3, <1>4, <1>5, <1>6, <1>7, <1>8, <1>9 DEF q

-----------------------------------------------------------------------------
(***************************************************************************)
(* The program's steps.                                                    *)
(***************************************************************************)
(* The records of a slot.                                                  *)
LEMMA SlotFacts ==
  /\ NewObject \in SlotContents /\ Cleared \in SlotContents /\ Junk \in SlotContents
  /\ NewObject.word = "object" /\ NewObject.at = Null /\ NewObject.marked = FALSE
  /\ \A f \in Members : NewObject.to[f] = Null
  /\ Cleared # Junk
  /\ \A s \in SlotContents : s.word = "object" => s # Cleared
BY DEF NewObject, Cleared, Junk, SlotContents

(* The invariant holds of an empty heap.                                   *)
LEMMA InitInvariant == Init => IInv
<1>. SUFFICES ASSUME Init PROVE IInv
  OBVIOUS
<1>1. Objects = {}
  BY LocFacts DEF Init, Objects, IsObject
<1>2. heap \in [Locs -> SlotContents] /\ \A l \in Locs : heap[l] = Junk
  BY SlotFacts DEF Init
<1>3. Types
  BY <1>2, SizesAssumption DEF Types, Init, Gens, Unset
<1>4. \A l \in Locs : heap[l].at = Null /\ heap[l].marked = FALSE
  BY <1>2 DEF Junk, NewObject
<1>5. Seen = {}
  BY DEF Seen, Elements, Init
<1>6. PhaseInv /\ PoolsInv /\ CardsInv
  BY DEF PhaseInv, PoolsInv, CardsInv, Init
<1>7. SlotsInv
  BY <1>1, <1>2 DEF SlotsInv
<1>8. ClearInv
  BY LocFacts DEF ClearInv, Init
<1>9. PointersInv /\ ForwardInv /\ StackInv /\ RememberInv
  BY <1>1, <1>5 DEF PointersInv, ForwardInv, StackInv, RememberInv, Init
<1>10. CopyInv /\ MarkInv
  BY <1>4 DEF CopyInv, MarkInv, Init
<1>. QED
  BY <1>3, <1>6, <1>7, <1>8, <1>9, <1>10 DEF IInv

(* Objects are the same while no free pointer moves.                       *)
LEMMA SameObjects == used' = used => Objects' = Objects
BY DEF Objects, IsObject

(* A new object has no pointers and is in the nursery.                     *)
LEMMA NewStep ==
  ASSUME IInv, NEW x \in Vars, New(x)
  PROVE  IInv'
<1>. DEFINE L == FreeLoc(0)
<1>1. Types /\ PoolsInv /\ SlotsInv /\ 0 \in Gens /\ phase = "run" /\ gen = 0 /\ toSearch = <<>>
  BY SizesAssumption DEF IInv, New, PhaseInv, Gens
<1>2. /\ L \in Locs /\ L[1] = 0 /\ GenOf(L) = 0 /\ L # Null
      /\ used' \in [Pools -> 0 .. PoolSize]
      /\ pools' \in [Gens -> 0 .. MaxPools]
      /\ current' \in [Gens -> 1 .. MaxPools]
      /\ PoolsInv'
      /\ \A p \in Pools : used'[p] = IF p = PoolOf(L) THEN used[p] + 1 ELSE used[p]
      /\ Objects' = Objects \union {L} /\ L \notin Objects
  BY <1>1, RoomFacts, TakeFacts, LocFacts DEF New, GenOf
<1>. HIDE DEF L
<1>3. heap' = [heap EXCEPT ![L] = NewObject] /\ var' = [var EXCEPT ![x] = L]
  BY DEF New, L
<1>4. UNCHANGED <<remember, survivors, phase, gen, toSearch, nextAll>>
  BY DEF New
<1>5. /\ heap' \in [Locs -> SlotContents]
      /\ \A l \in Locs : heap'[l] = IF l = L THEN NewObject ELSE heap[l]
  BY <1>1, <1>2, <1>3, SlotFacts DEF Types
<1>6. Types'
  BY <1>1, <1>2, <1>3, <1>4, <1>5 DEF Types
<1>7. PhaseInv'
  BY <1>4 DEF PhaseInv, IInv
<1>8. SlotsInv'
  BY <1>1, <1>2, <1>5, SlotFacts DEF SlotsInv
<1>9. ClearInv'
  <2>. SUFFICES ASSUME NEW l \in Locs, GenOf(l) > 0, l[3] > 0, l[3] = used'[PoolOf(l)]
                PROVE  heap'[l] = Cleared
    BY DEF ClearInv
  <2>1. PoolOf(l) # PoolOf(L) /\ PoolOf(l) \in Pools /\ l # L
    BY <1>2, LocFacts
  <2>. QED
    BY <1>2, <1>5, <2>1 DEF ClearInv, IInv
<1>10. PointersInv'
  <2>1. \A y \in Vars : var'[y] = IF y = x THEN L ELSE var[y]
    BY <1>1, <1>3 DEF Types
  <2>2. ASSUME NEW y \in Vars, var'[y] # Null PROVE var'[y] \in Objects'
    BY <1>2, <2>1, <2>2 DEF PointersInv, IInv
  <2>3. ASSUME NEW l \in Objects', NEW f \in Members, heap'[l].to[f] # Null
        PROVE  heap'[l].to[f] \in Objects'
    <3>1. l # L /\ l \in Objects /\ l \in Locs
      BY <1>1, <1>2, <1>5, <2>3, SlotFacts, ObjectFacts
    <3>. QED
      BY <1>2, <1>5, <2>3, <3>1 DEF PointersInv, IInv
  <2>. QED
    BY <2>2, <2>3 DEF PointersInv
<1>11. ForwardInv'
  BY <1>1, <1>2, <1>4, <1>5, SlotFacts, ObjectFacts DEF ForwardInv, IInv
<1>12. StackInv' /\ CopyInv'
  BY <1>1, <1>4 DEF StackInv, CopyInv, Seen, Elements
<1>13. CardsInv'
  BY <1>2, <1>4 DEF CardsInv, IInv
<1>14. RememberInv'
  <2>1. RememberInv /\ SlotsInv
    BY DEF IInv
  <2>. QED
    BY <1>1, <1>2, <1>4, <1>5, <2>1, SlotFacts, ObjectFacts DEF RememberInv
<1>15. MarkInv'
  BY <1>1, <1>4, <1>5, SlotFacts DEF MarkInv, IInv
<1>. QED
  BY <1>2, <1>6, <1>7, <1>8, <1>9, <1>10, <1>11, <1>12, <1>13, <1>14, <1>15 DEF IInv

(* A variable is made to point to an object another pointer led to.        *)
LEMMA SetVarStep ==
  ASSUME IInv, NEW x \in Vars, NEW l \in Objects \union {Null}, SetVar(x, l)
  PROVE  IInv'
<1>1. Types /\ SlotsInv /\ phase = "run" /\ gen = 0 /\ toSearch = <<>>
  BY DEF IInv, SetVar, PhaseInv
<1>2. /\ UNCHANGED <<heap, used, pools, current, remember, survivors, phase, gen, toSearch, nextAll>>
      /\ Objects' = Objects
  BY SameObjects DEF SetVar, lists
<1>3. var' = [var EXCEPT ![x] = l] /\ l \in Locs \union {Null}
  BY <1>1, ObjectFacts DEF SetVar
<1>4. Types'
  BY <1>1, <1>2, <1>3 DEF Types
<1>5. PointersInv'
  BY <1>1, <1>2, <1>3 DEF PointersInv, IInv, Types
<1>6. PhaseInv' /\ PoolsInv' /\ SlotsInv' /\ ClearInv' /\ ForwardInv' /\ CardsInv' /\ RememberInv'
  BY <1>2 DEF IInv, PhaseInv, PoolsInv, SlotsInv, ClearInv, ForwardInv, CardsInv, RememberInv
<1>7. StackInv' /\ CopyInv'
  BY <1>1, <1>2 DEF StackInv, CopyInv, Seen, Elements
<1>8. MarkInv'
  BY <1>1, <1>2 DEF MarkInv, IInv
<1>. QED
  BY <1>4, <1>5, <1>6, <1>7, <1>8 DEF IInv

(* The write barrier remembers the card of every old object written to.    *)
LEMMA WriteStep ==
  ASSUME IInv, NEW x \in Vars, NEW f \in Members, NEW y \in Vars, Write(x, f, y)
  PROVE  IInv'
<1>. DEFINE L == var[x]
<1>1. Types /\ SlotsInv /\ phase = "run" /\ gen = 0 /\ toSearch = <<>>
  BY DEF IInv, Write, PhaseInv
<1>2. /\ UNCHANGED <<var, used, pools, current, survivors, phase, gen, toSearch, nextAll>>
      /\ Objects' = Objects
  BY SameObjects DEF Write, lists
<1>3. L \in Objects /\ L \in Locs /\ var[y] \in Objects \union {Null} /\ var[y] \in Locs \union {Null}
  BY <1>1, ObjectFacts DEF Write, IInv, PointersInv
<1>4. heap' = [heap EXCEPT ![L].to[f] = var[y]]
  BY DEF Write
<1>. HIDE DEF L
<1>5. \A l \in Locs : heap[l] \in SlotContents
  BY <1>1 DEF Types
<1>6. /\ heap' \in [Locs -> SlotContents]
      /\ \A l \in Locs : /\ heap'[l].word = heap[l].word
                         /\ heap'[l].at = heap[l].at
                         /\ heap'[l].marked = heap[l].marked
                         /\ l # L => heap'[l] = heap[l]
      /\ \A l \in Locs, g \in Members :
           heap'[l].to[g] = IF l = L /\ g = f THEN var[y] ELSE heap[l].to[g]
  BY <1>1, <1>3, <1>4, <1>5 DEF Types, SlotContents
<1>7. remember' \in SUBSET Cards /\ remember \subseteq remember'
      /\ (GenOf(L) > 0 => CardOf(L) \in remember')
      /\ \A c \in remember' : c \in remember \/ (c = CardOf(L) /\ GenOf(L) > 0)
  <2>1. remember' = IF GenOf(L) > 0 THEN remember \union {CardOf(L)} ELSE remember
    BY DEF Write, L
  <2>2. CardOf(L) \in Cards /\ remember \in SUBSET Cards
    BY <1>1, <1>3, CardFacts DEF Types
  <2>. QED
    BY <2>1, <2>2
<1>8. Types'
  BY <1>1, <1>2, <1>6, <1>7 DEF Types
<1>9. PhaseInv' /\ PoolsInv'
  BY <1>2 DEF IInv, PhaseInv, PoolsInv
<1>10. SlotsInv'
  BY <1>1, <1>2, <1>3, <1>6 DEF SlotsInv
<1>11. ClearInv'
  <2>. SUFFICES ASSUME NEW l \in Locs, GenOf(l) > 0, l[3] > 0, l[3] = used[PoolOf(l)]
                PROVE  heap'[l] = Cleared
    BY <1>2 DEF ClearInv
  <2>1. l # L
    <3>1. used[PoolOf(l)] \in Nat
      BY <1>1, LocFacts, SizesAssumption DEF Types
    <3>. QED
      BY <1>1, <1>3, <3>1, ObjectFacts
  <2>. QED
    BY <1>6, <2>1 DEF ClearInv, IInv
<1>12. PointersInv'
  BY <1>1, <1>2, <1>3, <1>6, ObjectFacts DEF PointersInv, IInv
<1>13. ForwardInv'
  BY <1>1, <1>2, <1>6, ObjectFacts DEF ForwardInv, IInv
<1>14. StackInv' /\ CopyInv'
  BY <1>1, <1>2 DEF StackInv, CopyInv, Seen, Elements
<1>15. CardsInv'
  BY <1>2, <1>3, <1>7, CardFacts DEF CardsInv, IInv
<1>16. RememberInv'
  <2>. SUFFICES ASSUME NEW l \in Objects, NEW g \in Members, heap'[l].to[g] # Null,
                       GenOf(heap'[l].to[g]) < GenOf(l)
                PROVE  CardOf(l) \in remember'
    BY <1>1, <1>2 DEF RememberInv
  <2>1. l \in Locs
    BY <1>1, ObjectFacts
  <2>2. CASE l = L /\ g = f
    <3>1. heap'[l].to[g] = var[y] /\ var[y] \in Locs
      BY <1>3, <1>6, <2>1, <2>2
    <3>2. GenOf(var[y]) \in Nat /\ GenOf(L) \in Nat
      BY <1>3, <3>1, LocFacts
    <3>. QED
      BY <1>7, <2>2, <3>1, <3>2
  <2>3. CASE ~(l = L /\ g = f)
    BY <1>1, <1>6, <1>7, <2>1, <2>3 DEF RememberInv, IInv
  <2>. QED
    BY <2>2, <2>3
<1>17. MarkInv'
  BY <1>1, <1>2, <1>6 DEF MarkInv, IInv
<1>. QED
  BY <1>8, <1>9, <1>10, <1>11, <1>12, <1>13, <1>14, <1>15, <1>16, <1>17 DEF IInv

(* Every step of the program.                                              *)
LEMMA ProgramStep == IInv /\ Program => IInv'
<1>. SUFFICES ASSUME IInv, NEW x \in Vars, NEW y \in Vars, NEW f \in Members,
                     New(x) \/ Clear(x) \/ Assign(x, y) \/ Read(x, y, f) \/ Write(x, f, y)
              PROVE  IInv'
  BY DEF Program
<1>1. var[y] \in Objects \union {Null}
  BY DEF IInv, PointersInv
<1>2. CASE New(x)
  BY <1>2, NewStep
<1>3. CASE Clear(x)
  BY <1>3, SetVarStep DEF Clear
<1>4. CASE Assign(x, y)
  BY <1>1, <1>4, SetVarStep DEF Assign
<1>5. CASE Read(x, y, f)
  <2>1. heap[var[y]].to[f] \in Objects \union {Null}
    BY <1>1, <1>5 DEF Read, IInv, PointersInv
  <2>. QED
    BY <1>5, <2>1, SetVarStep DEF Read
<1>6. CASE Write(x, f, y)
  BY <1>6, WriteStep
<1>. QED
  BY <1>2, <1>3, <1>4, <1>5, <1>6

-----------------------------------------------------------------------------
(***************************************************************************)
(* Starting a collection.                                                  *)
(***************************************************************************)
(* There are finitely many slots, and so finitely many addresses.          *)
LEMMA LocsFinite == IsFiniteSet(Locs)
<1>. DEFINE S == (Gens \X (1 .. MaxPools)) \X Slots
            f == [p \in S |-> <<p[1][1], p[1][2], p[2]>>]
<1>1. IsFiniteSet(Gens) /\ IsFiniteSet(1 .. MaxPools) /\ IsFiniteSet(Slots)
  BY FS_Interval, SizesAssumption DEF Gens, Slots
<1>2. IsFiniteSet(S)
  BY <1>1, FS_Product
<1>3. f \in Surjection(S, Locs)
  <2>1. f \in [S -> Locs]
    BY DEF Locs
  <2>2. ASSUME NEW l \in Locs PROVE \E p \in S : f[p] = l
    <3>1. <<<<l[1], l[2]>>, l[3]>> \in S
      BY LocFacts
    <3>2. f[<<<<l[1], l[2]>>, l[3]>>] = l
      BY <3>1, LocFacts
    <3>. QED
      BY <3>1, <3>2
  <2>. QED
    BY <2>1, <2>2 DEF Surjection
<1>. QED
  BY <1>2, <1>3, FS_Surjection

(* There are only so many places for a pointer.                            *)
LEMMA AddressesFinite == IsFiniteSet(Addresses)
<1>. DEFINE S == Locs \X Members
            V == {VarAt(x) : x \in Vars}
            M == {MemberAt(l, f) : l \in Locs, f \in Members}
            v == [x \in Vars |-> VarAt(x)]
            m == [p \in S |-> MemberAt(p[1], p[2])]
<1>1. IsFiniteSet(S) /\ IsFiniteSet(Vars)
  BY LocsFinite, FS_Product, SizesAssumption
<1>2. v \in Surjection(Vars, V)
  BY DEF Surjection
<1>3. m \in Surjection(S, M)
  <2>1. m \in [S -> M]
    OBVIOUS
  <2>2. ASSUME NEW l \in Locs, NEW f \in Members
        PROVE  <<l, f>> \in S /\ m[<<l, f>>] = MemberAt(l, f)
    OBVIOUS
  <2>3. \A a \in M : \E p \in S : m[p] = a
    <3>. SUFFICES ASSUME NEW l \in Locs, NEW f \in Members
                  PROVE  \E p \in S : m[p] = MemberAt(l, f)
      OBVIOUS
    <3>. QED
      BY <2>2
  <2>. QED
    BY <2>1, <2>3 DEF Surjection
<1>4. Addresses = V \union M
  BY DEF Addresses
<1>. HIDE DEF S, v, m, V, M
<1>5. IsFiniteSet(V)
  BY <1>1, <1>2, FS_Surjection
<1>6. IsFiniteSet(M)
  BY <1>1, <1>3, FS_Surjection
<1>. QED
  BY <1>5, <1>6, <1>4, FS_Union

(* The scan of a remembered card meets objects only, and from the first    *)
(* slot of a card it gets to every object on it.                           *)
LEMMA ScanFacts ==
  ASSUME Types, SlotsInv, ClearInv, CardsInv
  PROVE  /\ \A c \in remember : CardScan(c) \subseteq Objects
         /\ \A l \in Objects : l \in CardScan(CardOf(l))
<1>1. ASSUME NEW c \in remember, NEW l \in CardScan(c), l \notin Objects
      PROVE  FALSE
  <2>1. /\ l \in Locs /\ CardOf(l) = c
        /\ \A k, m \in Locs :
            CardOf(k) = c /\ CardOf(m) = c /\ heap[m] = Cleared /\ k[3] < m[3] => l[3] < m[3]
    BY DEF CardScan
  <2>2. PICK m \in Objects : CardOf(m) = c
    BY DEF CardsInv
  <2>3. m \in Locs /\ GenOf(m) > 0
    BY <2>2, ObjectFacts, CardFacts DEF CardsInv
  <2>. DEFINE u == used[PoolOf(m)]
              n == <<m[1], m[2], u>>
  <2>4. l[1] = m[1] /\ l[2] = m[2] /\ PoolOf(l) = PoolOf(m)
    BY <2>1, <2>2, <2>3, CardFacts DEF PoolOf
  <2>5. u \in Nat /\ m[3] < u /\ u <= l[3] /\ l[3] \in Slots /\ m[3] \in Nat
    <3>1. used[PoolOf(m)] \in 0 .. PoolSize
      BY <2>3, LocFacts DEF Types
    <3>2. m[3] < used[PoolOf(m)] /\ ~(l[3] < used[PoolOf(l)])
      BY <1>1, <2>1, <2>2, <2>3, ObjectFacts
    <3>. QED
      BY <2>1, <2>3, <2>4, <3>1, <3>2, LocFacts, SizesAssumption
  <2>. HIDE DEF u
  <2>6. n \in Locs /\ n[1] = m[1] /\ n[2] = m[2] /\ n[3] = u
    BY <2>3, <2>5, LocFacts, SizesAssumption DEF Locs, Slots
  <2>. HIDE DEF n
  <2>7. PoolOf(n) = PoolOf(m) /\ GenOf(n) = GenOf(m)
    BY <2>3, <2>6, LocFacts DEF PoolOf
  <2>8. CardOf(n)[3] <= CardOf(l)[3] /\ CardOf(m)[3] <= CardOf(n)[3]
    BY <2>1, <2>3, <2>5, <2>6, CardFacts
  <2>9. CardOf(n)[3] = c[3]
    BY <2>1, <2>2, <2>3, <2>6, <2>8, CardFacts
  <2>10. CardOf(n) = c
    BY <2>2, <2>3, <2>6, <2>9, CardFacts DEF CardOf
  <2>11. heap[n] = Cleared
    BY <2>3, <2>5, <2>6, <2>7 DEF ClearInv, u
  <2>12. m[3] < n[3] /\ ~(l[3] < n[3])
    <3>1. l[3] \in Nat
      BY <2>5, LocFacts, SizesAssumption, <2>1
    <3>. QED
      BY <2>5, <2>6, <3>1
  <2>13. l[3] < n[3]
    BY <2>1, <2>2, <2>3, <2>6, <2>10, <2>11, <2>12
  <2>. QED
    BY <2>12, <2>13
<1>2. ASSUME NEW l \in Objects, NEW m \in Locs, CardOf(m) = CardOf(l), m[3] <= l[3]
      PROVE  heap[m] # Cleared
  <2>1. l \in Locs /\ l[3] < used[PoolOf(l)]
    BY ObjectFacts
  <2>2. PoolOf(m) = PoolOf(l)
    BY <1>2, <2>1, CardFacts DEF PoolOf
  <2>3. m[3] < used[PoolOf(m)]
    <3>1. used[PoolOf(l)] \in Nat /\ m[3] \in Nat /\ l[3] \in Nat
      BY <2>1, LocFacts, SizesAssumption DEF Types
    <3>. QED
      BY <1>2, <2>1, <2>2, <3>1
  <2>4. heap[m].word = "object"
    BY <2>3, ObjectFacts
  <2>. QED
    BY <2>4, SlotFacts DEF Types
<1>3. ASSUME NEW l \in Objects
      PROVE  l \in CardScan(CardOf(l))
  <2>1. l \in Locs
    BY ObjectFacts
  <2>2. ASSUME NEW m \in Locs, CardOf(m) = CardOf(l), heap[m] = Cleared
        PROVE  l[3] < m[3]
    <3>1. l[3] \in Nat /\ m[3] \in Nat
      BY <2>1, <2>2, LocFacts, SizesAssumption
    <3>2. ~(m[3] <= l[3])
      BY <1>2, <2>2
    <3>. QED
      BY <3>1, <3>2
  <2>. QED
    BY <2>1, <2>2 DEF CardScan
<1>. QED
  BY <1>1, <1>3

(* What is on the stack when a collection starts.                          *)
LEMMA StartFacts ==
  ASSUME Types, SlotsInv, ClearInv, CardsInv, NEW g \in Gens, Start(g)
  PROVE  /\ gen' = g /\ phase' \in {"copy", "mark"} /\ PhaseInv'
         /\ toSearch' \in Seq(Addresses)
         /\ \A x \in Vars : VarAt(x) \in Seen'
         /\ \A l \in Locs, f \in Members : MemberAt(l, f) \in Seen' =>
              l \in Objects /\ phase' = "copy"
         /\ phase' = "copy" => \A l \in Objects, f \in Members :
              GenOf(l) > g /\ heap[l].to[f] # Null /\ CardOf(l) \in remember
              => MemberAt(l, f) \in Seen'
<1>1. gen' = g /\ phase' \in {"copy", "mark"} /\ (phase' = "mark" <=> g >= Generations - 1)
  BY DEF Start
<1>2. PhaseInv'
  BY <1>1, SizesAssumption DEF PhaseInv, Gens
<1>3. Roots \subseteq Addresses /\ IsFiniteSet(Roots)
  BY AddressesFinite, FS_Subset DEF Roots, Addresses
<1>4. Seen' = Elements(toSearch')
  BY DEF Seen, Elements
<1>5. /\ Listed(Roots) \in Seq(Addresses) /\ Elements(Listed(Roots)) = Roots
  <2>1. <<>> \in Seq(Addresses)
    OBVIOUS
  <2>. QED
    BY <1>3, <2>1, PushFacts
<1>6. \A x \in Vars : VarAt(x) \in Roots
  BY DEF Roots
<1>7. \A l, f : MemberAt(l, f) \notin Roots
  BY AddressFacts DEF Roots
<1>8. CASE phase' = "mark"
  <2>1. toSearch' = Listed(Roots)
    BY <1>1, <1>8 DEF Start
  <2>. QED
    BY <1>1, <1>2, <1>4, <1>5, <1>6, <1>7, <1>8, <2>1
<1>9. CASE phase' = "copy"
  <2>. DEFINE R == RememberedPointers(g)
  <2>1. \A a \in R : \E l \in Objects, f \in Members : a = MemberAt(l, f)
    BY ScanFacts DEF RememberedPointers, PointersOf
  <2>2. \A l \in Objects, f \in Members :
           GenOf(l) > g /\ heap[l].to[f] # Null /\ CardOf(l) \in remember => MemberAt(l, f) \in R
    <3>. SUFFICES ASSUME NEW l \in Objects, NEW f \in Members,
                         GenOf(l) > g, heap[l].to[f] # Null, CardOf(l) \in remember
                  PROVE  MemberAt(l, f) \in R
      OBVIOUS
    <3>1. MemberAt(l, f) \in PointersOf(l, heap[l].to)
      BY DEF PointersOf
    <3>2. CardOf(l) \in {d \in remember : GenOf(d) > g}
      BY ObjectFacts, CardFacts
    <3>3. l \in UNION {CardScan(c) : c \in {d \in remember : GenOf(d) > g}}
      BY <3>2, ScanFacts
    <3>. QED
      BY <3>1, <3>3 DEF RememberedPointers
  <2>3. R \subseteq Addresses /\ IsFiniteSet(R)
    BY <2>1, AddressesFinite, FS_Subset, ObjectFacts DEF Addresses
  <2>4. toSearch' = Listed(Roots) \o Listed(R)
    BY <1>1, <1>9 DEF Start
  <2>. HIDE DEF R
  <2>5. toSearch' \in Seq(Addresses) /\ Elements(toSearch') = Roots \union R
    BY <1>5, <2>3, <2>4, PushFacts
  <2>6. \A l \in Locs, f \in Members : MemberAt(l, f) \in R => l \in Objects
    BY <2>1, AddressFacts
  <2>. QED
    BY <1>1, <1>2, <1>4, <1>6, <1>7, <1>9, <2>2, <2>5, <2>6
<1>. QED
  BY <1>1, <1>8, <1>9

(* A collection started between two steps of the program.                  *)
LEMMA StartStep ==
  ASSUME IInv, phase = "run", NEW g \in Gens, Start(g),
         UNCHANGED <<var, heap, used, pools, remember, survivors>>,
         current' \in [Gens -> 1 .. MaxPools], nextAll' \in Gens
  PROVE  IInv'
<1>1. Types /\ SlotsInv /\ ClearInv /\ CardsInv /\ Objects' = Objects
  BY SameObjects DEF IInv
<1>2. /\ gen' = g /\ phase' \in {"copy", "mark"} /\ PhaseInv'
      /\ toSearch' \in Seq(Addresses)
      /\ \A x \in Vars : VarAt(x) \in Seen'
      /\ \A l \in Locs, f \in Members : MemberAt(l, f) \in Seen' =>
           l \in Objects /\ phase' = "copy"
      /\ phase' = "copy" => \A l \in Objects, f \in Members :
           GenOf(l) > g /\ heap[l].to[f] # Null /\ CardOf(l) \in remember
           => MemberAt(l, f) \in Seen'
  BY <1>1, StartFacts
<1>3. Types'
  BY <1>1, <1>2 DEF Types
<1>4. PoolsInv' /\ SlotsInv' /\ ClearInv' /\ PointersInv' /\ CardsInv'
  BY <1>1 DEF IInv, PoolsInv, SlotsInv, ClearInv, PointersInv, CardsInv
<1>5. \A l \in Locs : heap[l].at = Null /\ ~heap[l].marked
  BY <1>1, ObjectFacts DEF IInv, ForwardInv, MarkInv
<1>6. ForwardInv' /\ MarkInv'
  BY <1>1, <1>2, <1>5, ObjectFacts DEF ForwardInv, MarkInv
<1>7. StackInv'
  BY <1>1, <1>2 DEF StackInv
<1>8. RememberInv'
  BY <1>1, <1>2 DEF RememberInv, IInv
<1>9. CopyInv'
  <2>. SUFFICES ASSUME phase' = "copy" PROVE CopyInv'
    BY DEF CopyInv
  <2>1. ASSUME NEW l \in Objects, NEW f \in Members, GenOf(l) > g, heap[l].to[f] # Null,
               GenOf(heap[l].to[f]) <= g
        PROVE  MemberAt(l, f) \in Seen'
    <3>1. heap[l].to[f] \in Locs /\ l \in Locs
      BY <1>1, <2>1, ObjectFacts DEF IInv, PointersInv
    <3>2. GenOf(heap[l].to[f]) \in Nat /\ GenOf(l) \in Nat /\ g \in Nat
      BY <3>1, LocFacts
    <3>3. GenOf(heap[l].to[f]) < GenOf(l)
      BY <2>1, <3>2
    <3>4. CardOf(l) \in remember
      BY <2>1, <3>3 DEF RememberInv, IInv
    <3>. QED
      BY <1>2, <2>1, <3>4
  <2>. QED
    BY <1>1, <1>2, <2>1 DEF CopyInv
<1>. QED
  BY <1>2, <1>3, <1>4, <1>6, <1>7, <1>8, <1>9 DEF IInv

(* A generation without room has pools.                                    *)
LEMMA ExhaustFacts ==
  ASSUME Types, NEW g \in Gens, ~HasRoom(g), Exhaust(g)
  PROVE  current' \in [Gens -> 1 .. MaxPools] /\ UNCHANGED <<used, pools>>
<1>1. pools[g] \in 1 .. MaxPools
  BY SizesAssumption DEF HasRoom, Types
<1>. QED
  BY <1>1 DEF Exhaust, Types

(* Both ways a collection starts from the program.                         *)
LEMMA CollectStep == IInv /\ (CollectForRoom \/ CollectAll) => IInv'
<1>1. ASSUME IInv, CollectForRoom PROVE IInv'
  <2>1. 0 \in Gens /\ Types
    BY <1>1, SizesAssumption DEF Gens, IInv
  <2>2. current' \in [Gens -> 1 .. MaxPools] /\ UNCHANGED <<used, pools>>
    BY <1>1, <2>1, ExhaustFacts DEF CollectForRoom
  <2>. QED
    BY <1>1, <2>1, <2>2, StartStep DEF CollectForRoom, Types
<1>2. ASSUME IInv, CollectAll PROVE IInv'
  <2>1. nextAll \in Gens /\ current \in [Gens -> 1 .. MaxPools]
    BY <1>2 DEF IInv, Types
  <2>2. nextAll' \in Gens
    BY <1>2, <2>1, SizesAssumption DEF CollectAll, Gens
  <2>. QED
    BY <1>2, <2>1, <2>2, StartStep DEF CollectAll, heapVars, lists
<1>. QED
  BY <1>1, <1>2

-----------------------------------------------------------------------------
(***************************************************************************)
(* The steps of a collection.                                              *)
(***************************************************************************)
(* The address on top of the stack, and the object its pointer leads to.   *)
LEMMA TopFacts ==
  ASSUME IInv, toSearch # <<>>
  PROVE  /\ Top \in Addresses /\ Rest \in Seq(Addresses)
         /\ Elements(Rest) \subseteq Seen /\ Seen \subseteq Elements(Rest) \union {Top}
         /\ \A x \in Vars : Top = VarAt(x) => Value(Top) = var[x]
         /\ \A l \in Locs, f \in Members : Top = MemberAt(l, f) =>
              Value(Top) = heap[l].to[f] /\ l \in Objects /\ (phase = "mark" => heap[l].marked)
         /\ Value(Top) # Null =>
              /\ Target \in Objects /\ Target \in Locs /\ heap[Target].at = Null
              /\ GenOf(Target) \in Nat
              /\ GenOf(Value(Top)) \in Nat /\ GenOf(Value(Top)) <= GenOf(Target)
<1>1. Types /\ SlotsInv /\ ForwardInv /\ PointersInv /\ StackInv
  BY DEF IInv
<1>2. /\ Top \in Addresses /\ Top \in Seen /\ Rest \in Seq(Addresses)
      /\ Elements(Rest) \subseteq Seen /\ Seen \subseteq Elements(Rest) \union {Top}
  BY <1>1, PopFacts DEF Types
<1>3. \A x \in Vars : Top = VarAt(x) => Value(Top) = var[x]
  BY AddressFacts DEF Value
<1>4. \A l \in Locs, f \in Members : Top = MemberAt(l, f) =>
         Value(Top) = heap[l].to[f] /\ l \in Objects /\ (phase = "mark" => heap[l].marked)
  BY <1>1, <1>2, AddressFacts DEF Value, StackInv
<1>5. Value(Top) # Null => Value(Top) \in Objects
  BY <1>1, <1>2, <1>3, <1>4 DEF Addresses, PointersInv
<1>6. ASSUME Value(Top) # Null
      PROVE  /\ Target \in Objects /\ Target \in Locs /\ heap[Target].at = Null
             /\ GenOf(Target) \in Nat
             /\ GenOf(Value(Top)) \in Nat /\ GenOf(Value(Top)) <= GenOf(Target)
  <2>1. Target \in Objects /\ heap[Target].at = Null /\ GenOf(Target) >= GenOf(Value(Top))
    BY <1>1, <1>5, <1>6, FollowFacts DEF Target
  <2>2. Target \in Locs /\ Value(Top) \in Locs
    BY <1>1, <1>5, <1>6, <2>1, ObjectFacts
  <2>. QED
    BY <2>1, <2>2, LocFacts
<1>. QED
  BY <1>2, <1>3, <1>4, <1>6

(* A step that takes no slot and changes no slot without an object.        *)
LEMMA SameSlots ==
  ASSUME Types, SlotsInv, ClearInv, used' = used,
         \A l \in Objects : heap'[l].word = heap[l].word,
         \A l \in Locs : l \notin Objects => heap'[l] = heap[l]
  PROVE  Objects' = Objects /\ SlotsInv' /\ ClearInv'
<1>1. Objects' = Objects
  BY SameObjects
<1>2. SlotsInv'
  BY <1>1, ObjectFacts DEF SlotsInv
<1>3. ASSUME NEW l \in Locs, GenOf(l) > 0, l[3] > 0, l[3] = used[PoolOf(l)]
      PROVE  heap'[l] = Cleared
  <2>1. used[PoolOf(l)] \in Nat
    BY LocFacts, SizesAssumption DEF Types
  <2>2. l \notin Objects
    BY <1>3, <2>1, ObjectFacts
  <2>. QED
    BY <1>3, <2>2 DEF ClearInv
<1>4. ClearInv'
  BY <1>3 DEF ClearInv
<1>. QED
  BY <1>1, <1>2, <1>4

(* A null pointer needs nothing.                                           *)
LEMMA SkipNullStep == IInv /\ SkipNull => IInv'
<1>. SUFFICES ASSUME IInv, SkipNull PROVE IInv'
  OBVIOUS
<1>1. /\ toSearch # <<>> /\ Value(Top) = Null /\ toSearch' = Rest
      /\ UNCHANGED <<var, heap, used, pools, current, remember, survivors, phase, gen, nextAll>>
      /\ Objects' = Objects
  BY SameObjects DEF SkipNull, heapVars, lists
<1>2. /\ Rest \in Seq(Addresses)
      /\ Seen' \subseteq Seen /\ Seen \subseteq Seen' \union {Top}
      /\ \A x \in Vars : Top = VarAt(x) => Value(Top) = var[x]
      /\ \A l \in Locs, f \in Members : Top = MemberAt(l, f) => Value(Top) = heap[l].to[f]
  BY <1>1, TopFacts DEF Seen, Elements
<1>3. Types' /\ Objects \subseteq Locs
  BY <1>1, <1>2, ObjectFacts DEF Types, IInv
<1>4. PhaseInv'
  <2>1. phase # "run"
    BY <1>1 DEF IInv, PhaseInv
  <2>. QED
    BY <1>1, <2>1 DEF IInv, PhaseInv
<1>5. PoolsInv' /\ SlotsInv' /\ ClearInv' /\ PointersInv' /\ ForwardInv' /\ CardsInv' /\ RememberInv'
  BY <1>1 DEF IInv, PoolsInv, SlotsInv, ClearInv, PointersInv, ForwardInv, CardsInv, RememberInv
<1>6. StackInv'
  BY <1>1, <1>2 DEF StackInv, IInv
<1>7. CopyInv'
  BY <1>1, <1>2, <1>3 DEF CopyInv, IInv
<1>8. MarkInv'
  BY <1>1, <1>2, <1>3 DEF MarkInv, IInv
<1>. QED
  BY <1>3, <1>4, <1>5, <1>6, <1>7, <1>8 DEF IInv

(* Storing where the object is now, nothing else having changed.           *)
LEMMA StoreTargetFacts ==
  ASSUME IInv, toSearch # <<>>, Value(Top) # Null, Store(Top, Target, heap), used' = used
  PROVE  /\ var' \in [Vars -> Locs \union {Null}]
         /\ heap' \in [Locs -> SlotContents]
         /\ Objects' = Objects /\ SlotsInv' /\ ClearInv' /\ PointersInv'
         /\ \A l \in Locs : heap'[l].at = heap[l].at /\ heap'[l].marked = heap[l].marked
         /\ \A x \in Vars : var'[x] = IF Top = VarAt(x) THEN Target ELSE var[x]
         /\ \A l \in Locs, f \in Members :
              heap'[l].to[f] = IF Top = MemberAt(l, f) THEN Target ELSE heap[l].to[f]
         /\ \A l \in Objects, f \in Members :
              /\ heap'[l].to[f] # Null <=> heap[l].to[f] # Null
              /\ heap[l].to[f] # Null /\ GenOf(heap'[l].to[f]) < GenOf(l)
                   => GenOf(heap[l].to[f]) < GenOf(l)
<1>1. Types /\ SlotsInv /\ ClearInv /\ PointersInv /\ StackInv
  BY DEF IInv
<1>2. /\ Top \in Addresses
      /\ Target \in Objects /\ Target \in Locs /\ GenOf(Target) \in Nat
      /\ GenOf(Value(Top)) \in Nat /\ GenOf(Value(Top)) <= GenOf(Target)
      /\ \A l \in Locs, f \in Members : Top = MemberAt(l, f) =>
           Value(Top) = heap[l].to[f] /\ l \in Objects
  BY TopFacts
<1>3. Target # Null /\ Objects \subseteq Locs
  BY <1>1, <1>2, LocFacts, ObjectFacts
<1>4. /\ var' \in [Vars -> Locs \union {Null}]
      /\ heap' \in [Locs -> SlotContents]
      /\ \A x \in Vars : var'[x] = IF Top = VarAt(x) THEN Target ELSE var[x]
      /\ \A m \in Locs : /\ heap'[m].word = heap[m].word
                         /\ heap'[m].at = heap[m].at
                         /\ heap'[m].marked = heap[m].marked
                         /\ (\A f \in Members : Top # MemberAt(m, f)) => heap'[m] = heap[m]
      /\ \A m \in Locs, f \in Members :
           heap'[m].to[f] = IF Top = MemberAt(m, f) THEN Target ELSE heap[m].to[f]
  <2>1. heap \in [Locs -> SlotContents] /\ var \in [Vars -> Locs \union {Null}]
    BY <1>1 DEF Types
  <2>. HIDE DEF Target, Top, Store
  <2>. QED
    BY <1>2, <2>1, StoreFacts
<1>5. Objects' = Objects /\ SlotsInv' /\ ClearInv'
  BY <1>1, <1>2, <1>3, <1>4, SameSlots
<1>6. PointersInv'
  BY <1>1, <1>2, <1>3, <1>4, <1>5 DEF PointersInv
<1>7. ASSUME NEW l \in Objects, NEW f \in Members
      PROVE  /\ heap'[l].to[f] # Null <=> heap[l].to[f] # Null
             /\ heap[l].to[f] # Null /\ GenOf(heap'[l].to[f]) < GenOf(l)
                  => GenOf(heap[l].to[f]) < GenOf(l)
  <2>1. CASE Top = MemberAt(l, f)
    <3>1. heap'[l].to[f] = Target /\ heap[l].to[f] = Value(Top) /\ GenOf(l) \in Nat
      BY <1>2, <1>3, <1>4, <2>1, LocFacts
    <3>. QED
      BY <1>2, <1>3, <3>1
  <2>2. CASE Top # MemberAt(l, f)
    BY <1>3, <1>4, <2>2
  <2>. QED
    BY <2>1, <2>2
<1>. QED
  BY <1>4, <1>5, <1>6, <1>7

(* A pointer that leads where nothing is collected needs no more than to   *)
(* be brought up to date.                                                  *)
LEMMA KeepOldStep == IInv /\ KeepOld => IInv'
<1>. SUFFICES ASSUME IInv, KeepOld PROVE IInv'
  OBVIOUS
<1>1. /\ toSearch # <<>> /\ phase = "copy" /\ Value(Top) # Null /\ toSearch' = Rest
      /\ GenOf(Target) > gen /\ Store(Top, Target, heap)
      /\ UNCHANGED <<used, pools, current, remember, survivors, phase, gen, nextAll>>
  BY DEF KeepOld, Searching, lists
<1>2. /\ Rest \in Seq(Addresses) /\ Target \in Objects /\ Target \in Locs
      /\ GenOf(Target) \in Nat
      /\ Seen' \subseteq Seen /\ Seen \subseteq Seen' \union {Top}
  <2>1. Seen' = Elements(Rest)
    BY <1>1 DEF Seen, Elements
  <2>. QED
    BY <1>1, <2>1, TopFacts
<1>3. /\ var' \in [Vars -> Locs \union {Null}]
      /\ heap' \in [Locs -> SlotContents]
      /\ Objects' = Objects /\ SlotsInv' /\ ClearInv' /\ PointersInv'
      /\ \A l \in Locs : heap'[l].at = heap[l].at /\ heap'[l].marked = heap[l].marked
      /\ \A x \in Vars : var'[x] = IF Top = VarAt(x) THEN Target ELSE var[x]
      /\ \A l \in Locs, f \in Members :
           heap'[l].to[f] = IF Top = MemberAt(l, f) THEN Target ELSE heap[l].to[f]
      /\ \A l \in Objects, f \in Members :
           /\ heap'[l].to[f] # Null <=> heap[l].to[f] # Null
           /\ heap[l].to[f] # Null /\ GenOf(heap'[l].to[f]) < GenOf(l)
                => GenOf(heap[l].to[f]) < GenOf(l)
  BY <1>1, StoreTargetFacts
<1>4. Types' /\ Objects \subseteq Locs /\ gen \in Nat
  BY <1>1, <1>2, <1>3, ObjectFacts, LocFacts DEF Types, IInv
<1>5. PhaseInv' /\ PoolsInv'
  BY <1>1 DEF PhaseInv, PoolsInv, IInv
<1>6. ForwardInv'
  BY <1>1, <1>3, <1>4 DEF ForwardInv, IInv
<1>7. StackInv'
  BY <1>1, <1>2, <1>3 DEF StackInv, IInv
<1>8. CardsInv'
  BY <1>1, <1>3 DEF CardsInv, IInv
<1>9. RememberInv'
  BY <1>1, <1>3 DEF RememberInv, IInv
<1>10. CopyInv'
  <2>1. ASSUME NEW x \in Vars, var'[x] # Null, GenOf(var'[x]) <= gen PROVE VarAt(x) \in Seen'
    <3>1. Top # VarAt(x)
      BY <1>1, <1>2, <1>3, <1>4, <2>1
    <3>. QED
      BY <1>1, <1>2, <1>3, <2>1, <3>1 DEF CopyInv, IInv
  <2>2. ASSUME NEW l \in Objects, NEW f \in Members, GenOf(l) > gen, heap'[l].to[f] # Null,
               GenOf(heap'[l].to[f]) <= gen
        PROVE  MemberAt(l, f) \in Seen'
    <3>1. Top # MemberAt(l, f)
      BY <1>1, <1>2, <1>3, <1>4, <2>2
    <3>. QED
      BY <1>1, <1>2, <1>3, <1>4, <2>2, <3>1 DEF CopyInv, IInv
  <2>. QED
    BY <1>1, <1>3, <2>1, <2>2 DEF CopyInv
<1>11. MarkInv'
  BY <1>1, <1>3 DEF MarkInv, IInv
<1>. QED
  BY <1>3, <1>4, <1>5, <1>6, <1>7, <1>8, <1>9, <1>10, <1>11 DEF IInv

(* Counting a survivor counts.                                             *)
LEMMA SurvivedFacts ==
  ASSUME Types, NEW l \in Locs, Survived(l)
  PROVE  survivors' \in [Pools -> Int]
<1>1. PoolOf(l) \in Pools
  BY LocFacts
<1>. QED
  BY <1>1 DEF Survived, Types, Unset

(* Without room for a copy, the collection starts again one generation     *)
(* higher, where what was moved already stays moved.                       *)
LEMMA PromoteFailsStep == IInv /\ PromoteFails => IInv'
<1>. SUFFICES ASSUME IInv, PromoteFails PROVE IInv'
  OBVIOUS
<1>1. /\ toSearch # <<>> /\ phase = "copy" /\ Value(Top) # Null
      /\ ~HasRoom(gen + 1) /\ Exhaust(gen + 1) /\ Survived(Target)
      /\ Store(Top, Target, heap) /\ Start(gen + 1)
      /\ UNCHANGED <<remember, nextAll>>
  BY DEF PromoteFails, Searching
<1>2. /\ Types /\ SlotsInv /\ ClearInv /\ CardsInv
      /\ gen + 1 \in Gens /\ gen \in Nat /\ Objects \subseteq Locs
  <2>1. Types /\ SlotsInv /\ ClearInv /\ CardsInv
    BY DEF IInv
  <2>2. gen + 1 \in Gens /\ gen \in Nat
    BY <1>1, <2>1, SizesAssumption DEF IInv, Types, PhaseInv, Gens
  <2>. QED
    BY <2>1, <2>2, ObjectFacts
<1>3. current' \in [Gens -> 1 .. MaxPools] /\ UNCHANGED <<used, pools>>
  BY <1>1, <1>2, ExhaustFacts
<1>4. Target \in Objects /\ Target \in Locs
  BY <1>1, TopFacts
<1>5. survivors' \in [Pools -> Int]
  BY <1>1, <1>2, <1>4, SurvivedFacts
<1>6. /\ gen' = gen + 1 /\ phase' \in {"copy", "mark"} /\ PhaseInv'
      /\ toSearch' \in Seq(Addresses)
      /\ \A x \in Vars : VarAt(x) \in Seen'
      /\ \A l \in Locs, f \in Members : MemberAt(l, f) \in Seen' =>
           l \in Objects /\ phase' = "copy"
      /\ phase' = "copy" => \A l \in Objects, f \in Members :
           GenOf(l) > gen + 1 /\ heap[l].to[f] # Null /\ CardOf(l) \in remember
           => MemberAt(l, f) \in Seen'
  BY <1>1, <1>2, StartFacts
<1>7. /\ var' \in [Vars -> Locs \union {Null}]
      /\ heap' \in [Locs -> SlotContents]
      /\ Objects' = Objects /\ SlotsInv' /\ ClearInv' /\ PointersInv'
      /\ \A l \in Locs : heap'[l].at = heap[l].at /\ heap'[l].marked = heap[l].marked
      /\ \A l \in Objects, f \in Members :
           /\ heap'[l].to[f] # Null <=> heap[l].to[f] # Null
           /\ heap[l].to[f] # Null /\ GenOf(heap'[l].to[f]) < GenOf(l)
                => GenOf(heap[l].to[f]) < GenOf(l)
  BY <1>1, <1>3, StoreTargetFacts
<1>8. Types'
  BY <1>1, <1>2, <1>3, <1>5, <1>6, <1>7 DEF Types
<1>9. PoolsInv'
  BY <1>3 DEF PoolsInv, IInv
<1>10. \A l \in Locs : GenOf(l) \in Nat
  BY LocFacts
<1>11. ForwardInv'
  BY <1>1, <1>2, <1>6, <1>7, <1>10 DEF ForwardInv, IInv
<1>12. StackInv'
  BY <1>6, <1>7 DEF StackInv
<1>13. CardsInv'
  BY <1>1, <1>2, <1>7 DEF CardsInv
<1>14. ASSUME NEW l \in Objects, NEW f \in Members, GenOf(l) > gen + 1, heap'[l].to[f] # Null,
              GenOf(heap'[l].to[f]) < GenOf(l)
       PROVE  CardOf(l) \in remember
  BY <1>1, <1>7, <1>14 DEF RememberInv, IInv
<1>15. RememberInv'
  BY <1>1, <1>2, <1>6, <1>7, <1>10, <1>14 DEF RememberInv
<1>16. CopyInv'
  <2>. SUFFICES ASSUME phase' = "copy", NEW l \in Objects, NEW f \in Members, GenOf(l) > gen + 1,
                       heap'[l].to[f] # Null, GenOf(heap'[l].to[f]) <= gen + 1
                PROVE  MemberAt(l, f) \in Seen'
    BY <1>6, <1>7 DEF CopyInv
  <2>1. heap'[l].to[f] \in Locs /\ l \in Locs
    BY <1>2, <1>7 DEF PointersInv
  <2>2. GenOf(heap'[l].to[f]) < GenOf(l)
    BY <1>2, <1>10, <2>1
  <2>. QED
    BY <1>6, <1>7, <1>14, <2>2
<1>17. MarkInv'
  BY <1>1, <1>6, <1>7, <1>2 DEF MarkInv, IInv
<1>. QED
  BY <1>6, <1>7, <1>8, <1>9, <1>11, <1>12, <1>13, <1>15, <1>16, <1>17 DEF IInv

(* The pointers pushed for an object are finitely many addresses.          *)
LEMMA PointersOfFacts ==
  ASSUME NEW l \in Locs, NEW to
  PROVE  /\ PointersOf(l, to) \subseteq Addresses /\ IsFiniteSet(PointersOf(l, to))
         /\ \A f \in Members : to[f] # Null => MemberAt(l, f) \in PointersOf(l, to)
         /\ \A m, f : MemberAt(m, f) \in PointersOf(l, to) => m = l
<1>1. PointersOf(l, to) \subseteq Addresses
  BY DEF PointersOf, Addresses
<1>2. IsFiniteSet(PointersOf(l, to))
  BY <1>1, AddressesFinite, FS_Subset
<1>3. \A m, f : MemberAt(m, f) \in PointersOf(l, to) => m = l
  BY AddressFacts DEF PointersOf
<1>. QED
  BY <1>1, <1>2, <1>3 DEF PointersOf

\* The heap with a copy of t at l, t forwarded to it, and the next slot cleared.
Copied(l, t) == [ClearNext(l, heap) EXCEPT ![l] = heap[t], ![t].at = l]

(* What a copy changes, slot by slot.                                      *)
LEMMA CopyFacts ==
  ASSUME heap \in [Locs -> SlotContents], NEW l \in Locs, NEW t \in Locs, l # t,
         PoolOf(t) # PoolOf(l)
  PROVE  /\ Copied(l, t) \in [Locs -> SlotContents]
         /\ Copied(l, t)[l] = heap[t]
         /\ Copied(l, t)[t].at = l /\ Copied(l, t)[t].word = heap[t].word
         /\ Copied(l, t)[t].marked = heap[t].marked /\ Copied(l, t)[t].to = heap[t].to
         /\ \A m \in Locs : m # l /\ m # t =>
              Copied(l, t)[m] = IF PoolOf(m) = PoolOf(l) /\ m[3] = l[3] + 1 THEN Cleared ELSE heap[m]
<1>. DEFINE n == <<l[1], l[2], l[3] + 1>>
            k == ClearNext(l, heap)
<1>1. \A m \in Locs : PoolOf(m) = PoolOf(l) /\ m[3] = l[3] + 1 <=> m = n
  <2>. SUFFICES ASSUME NEW m \in Locs PROVE PoolOf(m) = PoolOf(l) /\ m[3] = l[3] + 1 <=> m = n
    OBVIOUS
  <2>1. m = <<m[1], m[2], m[3]>> /\ PoolOf(m) = <<m[1], m[2]>> /\ PoolOf(l) = <<l[1], l[2]>>
    BY LocFacts DEF PoolOf
  <2>. QED
    BY <2>1
<1>2. l[3] + 1 < PoolSize <=> n \in Locs
  BY LocFacts, SizesAssumption DEF Locs, Slots
<1>3. n # l /\ n # t /\ l[3] \in Nat
  <2>1. n # l
    BY LocFacts
  <2>2. n # t
    BY LocFacts DEF PoolOf
  <2>. QED
    BY <2>1, <2>2, LocFacts
<1>. HIDE DEF n
<1>4. /\ k \in [Locs -> SlotContents]
      /\ \A m \in Locs : k[m] = IF m = n THEN Cleared ELSE heap[m]
  <2>1. k = IF l[3] + 1 < PoolSize THEN [heap EXCEPT ![n] = Cleared] ELSE heap
    BY DEF ClearNext, n
  <2>. HIDE DEF k
  <2>. QED
    BY <1>2, <2>1, SlotFacts
<1>. HIDE DEF k
<1>. DEFINE j == [k EXCEPT ![l] = heap[t]]
<1>5. /\ j \in [Locs -> SlotContents]
      /\ \A m \in Locs : j[m] = IF m = l THEN heap[t] ELSE k[m]
  BY <1>4
<1>. DEFINE h == Copied(l, t)
<1>6. h = [j EXCEPT ![t].at = l]
  BY DEF k, Copied
<1>. HIDE DEF j, h
<1>7. \A m \in Locs : j[m] \in SlotContents
  BY <1>5
<1>8. /\ h \in [Locs -> SlotContents]
      /\ h[t].at = l /\ h[t].word = j[t].word /\ h[t].marked = j[t].marked /\ h[t].to = j[t].to
      /\ \A m \in Locs : m # t => h[m] = j[m]
  BY <1>5, <1>6, <1>7 DEF SlotContents
<1>. QED
  BY <1>1, <1>3, <1>4, <1>5, <1>8 DEF h

(* A promotion makes one more object, the copy, whose pointers have to be  *)
(* looked at, and forwards the original to it.                             *)
LEMMA PromoteStep == IInv /\ Promote => IInv'
<1>. SUFFICES ASSUME IInv, Promote PROVE IInv'
  OBVIOUS
<1>. DEFINE L == FreeLoc(gen + 1)
            T == Target
            h == Copied(L, T)
<1>1. /\ toSearch # <<>> /\ phase = "copy" /\ Value(Top) # Null
      /\ GenOf(T) <= gen /\ HasRoom(gen + 1) /\ Take(gen + 1) /\ Survived(T)
      /\ Store(Top, L, h)
      /\ toSearch' = Rest \o Listed(PointersOf(L, heap[T].to))
      /\ UNCHANGED <<remember, phase, gen, nextAll>>
  BY DEF Promote, Searching, Copied
<1>2. /\ Types /\ PoolsInv /\ SlotsInv /\ ClearInv /\ PointersInv /\ ForwardInv /\ StackInv
      /\ CardsInv /\ RememberInv /\ CopyInv /\ MarkInv
  BY DEF IInv
<1>3. gen + 1 \in Gens /\ gen \in Nat /\ Objects \subseteq Locs
  <2>1. gen + 1 \in Gens /\ gen \in Nat
    BY <1>1, <1>2, SizesAssumption DEF IInv, Types, PhaseInv, Gens
  <2>. QED
    BY <1>2, <2>1, ObjectFacts
<1>4. /\ Top \in Addresses /\ Rest \in Seq(Addresses)
      /\ Elements(Rest) \subseteq Seen /\ Seen \subseteq Elements(Rest) \union {Top}
      /\ \A x \in Vars : Top = VarAt(x) => Value(Top) = var[x]
      /\ \A l \in Locs, f \in Members : Top = MemberAt(l, f) =>
           Value(Top) = heap[l].to[f] /\ l \in Objects
      /\ T \in Objects /\ T \in Locs /\ heap[T].at = Null /\ GenOf(T) \in Nat
      /\ GenOf(Value(Top)) \in Nat /\ GenOf(Value(Top)) <= GenOf(T)
  BY <1>1, TopFacts
<1>5. /\ L \in Locs /\ L[1] = gen + 1 /\ GenOf(L) = gen + 1 /\ L # Null
      /\ L[3] = used[PoolOf(L)]
  BY <1>1, <1>2, <1>3, RoomFacts, LocFacts
<1>6. /\ used' \in [Pools -> 0 .. PoolSize]
      /\ pools' \in [Gens -> 0 .. MaxPools]
      /\ current' \in [Gens -> 1 .. MaxPools]
      /\ PoolsInv'
      /\ \A p \in Pools : used'[p] = IF p = PoolOf(L) THEN used[p] + 1 ELSE used[p]
      /\ Objects' = Objects \union {L}
      /\ L \notin Objects
  BY <1>1, <1>2, <1>3, TakeFacts
<1>7. survivors' \in [Pools -> Int]
  BY <1>1, <1>2, <1>4, SurvivedFacts
<1>8. L # T /\ PoolOf(T) # PoolOf(L)
  BY <1>1, <1>3, <1>4, <1>5, LocFacts
<1>. HIDE DEF L, T
<1>9. /\ h \in [Locs -> SlotContents]
      /\ h[L] = heap[T]
      /\ h[T].at = L /\ h[T].word = heap[T].word
      /\ h[T].marked = heap[T].marked /\ h[T].to = heap[T].to
      /\ \A m \in Locs : m # L /\ m # T =>
           h[m] = IF PoolOf(m) = PoolOf(L) /\ m[3] = L[3] + 1 THEN Cleared ELSE heap[m]
  <2>1. heap \in [Locs -> SlotContents] /\ L \in Locs /\ T \in Locs
    BY <1>2, <1>4, <1>5 DEF Types
  <2>. QED
    BY <1>8, <2>1, CopyFacts
<1>. HIDE DEF h
<1>10. /\ var' \in [Vars -> Locs \union {Null}]
       /\ heap' \in [Locs -> SlotContents]
       /\ \A x \in Vars : var'[x] = IF Top = VarAt(x) THEN L ELSE var[x]
       /\ \A m \in Locs : /\ heap'[m].word = h[m].word
                          /\ heap'[m].at = h[m].at
                          /\ heap'[m].marked = h[m].marked
                          /\ (\A f \in Members : Top # MemberAt(m, f)) => heap'[m] = h[m]
       /\ \A m \in Locs, f \in Members :
            heap'[m].to[f] = IF Top = MemberAt(m, f) THEN L ELSE h[m].to[f]
  <2>1. /\ var \in [Vars -> Locs \union {Null}] /\ Store(Top, L, h)
        /\ Top \in Addresses /\ L \in Locs /\ h \in [Locs -> SlotContents]
    BY <1>1, <1>2, <1>4, <1>5, <1>9 DEF Types
  <2>. QED
    BY <2>1, StoreFacts
<1>11. \A m \in Objects : /\ m \in Locs /\ m # L /\ ~(PoolOf(m) = PoolOf(L) /\ m[3] = L[3] + 1)
                          /\ h[m].word = heap[m].word /\ h[m].marked = heap[m].marked
                          /\ h[m].to = heap[m].to
                          /\ h[m].at = IF m = T THEN L ELSE heap[m].at
  <2>. SUFFICES ASSUME NEW m \in Objects
                PROVE  m \in Locs /\ m # L /\ ~(PoolOf(m) = PoolOf(L) /\ m[3] = L[3] + 1)
    BY <1>9
  <2>1. m \in Locs /\ m[3] < used[PoolOf(m)] /\ m[3] \in Nat /\ L[3] \in Nat
    BY <1>2, <1>5, ObjectFacts, LocFacts
  <2>. QED
    BY <1>5, <1>6, <2>1
<1>12. Seen' = Elements(Rest) \union PointersOf(L, heap[T].to) /\ toSearch' \in Seq(Addresses)
  <2>1. Seen' = Elements(toSearch')
    BY DEF Seen, Elements
  <2>. QED
    BY <1>1, <1>4, <1>5, <2>1, PushFacts, PointersOfFacts
<1>13. /\ \A f \in Members : heap[T].to[f] # Null => MemberAt(L, f) \in Seen'
       /\ \A m, f : MemberAt(m, f) \in Seen' => m = L \/ MemberAt(m, f) \in Seen
       /\ \A a \in Seen : a # Top => a \in Seen'
  BY <1>4, <1>5, <1>12, PointersOfFacts
<1>14. \A f \in Members : Top # MemberAt(L, f)
  BY <1>4, <1>5, <1>6
<1>15. /\ heap'[L] = heap[T]
       /\ \A m \in Objects, f \in Members :
            heap'[m].to[f] = IF Top = MemberAt(m, f) THEN L ELSE heap[m].to[f]
       /\ \A m \in Objects : /\ heap'[m].word = heap[m].word /\ heap'[m].marked = heap[m].marked
                             /\ heap'[m].at = IF m = T THEN L ELSE heap[m].at
  BY <1>3, <1>5, <1>9, <1>10, <1>11, <1>14
<1>16. \A m \in Locs : m \notin Objects /\ m # L =>
          heap'[m] = IF PoolOf(m) = PoolOf(L) /\ m[3] = L[3] + 1 THEN Cleared ELSE heap[m]
  BY <1>4, <1>9, <1>10
<1>17. Types'
  BY <1>1, <1>2, <1>6, <1>7, <1>10, <1>12 DEF Types
<1>18. PhaseInv'
  BY <1>1 DEF PhaseInv, IInv
<1>19. SlotsInv'
  BY <1>2, <1>4, <1>6, <1>15, <1>16 DEF SlotsInv
<1>20. ClearInv'
  <2>. SUFFICES ASSUME NEW l \in Locs, GenOf(l) > 0, l[3] > 0, l[3] = used'[PoolOf(l)]
                PROVE  heap'[l] = Cleared
    BY DEF ClearInv
  <2>1. PoolOf(l) \in Pools /\ l[3] \in Nat /\ L[3] \in Nat /\ used[PoolOf(l)] \in Nat
    <3>1. PoolOf(l) \in Pools /\ l[3] \in Nat /\ L[3] \in Nat
      BY <1>5, LocFacts
    <3>. QED
      BY <1>2, <3>1, SizesAssumption DEF Types
  <2>2. CASE PoolOf(l) = PoolOf(L)
    <3>1. l[3] = L[3] + 1
      BY <1>5, <1>6, <2>1, <2>2
    <3>2. l \notin Objects /\ l # L
      BY <1>11, <2>1, <2>2, <3>1
    <3>. QED
      BY <1>16, <2>2, <3>1, <3>2
  <2>3. CASE PoolOf(l) # PoolOf(L)
    <3>1. l[3] = used[PoolOf(l)]
      BY <1>6, <2>1, <2>3
    <3>2. l \notin Objects /\ l # L
      BY <1>2, <2>1, <2>3, <3>1, ObjectFacts
    <3>. QED
      BY <1>2, <1>16, <2>3, <3>1, <3>2 DEF ClearInv
  <2>. QED
    BY <2>2, <2>3
<1>21. PointersInv'
  <2>1. ASSUME NEW x \in Vars, var'[x] # Null PROVE var'[x] \in Objects'
    BY <1>2, <1>6, <1>10, <2>1 DEF PointersInv
  <2>2. ASSUME NEW l \in Objects', NEW f \in Members, heap'[l].to[f] # Null
        PROVE  heap'[l].to[f] \in Objects'
    <3>1. CASE l = L
      BY <1>2, <1>4, <1>6, <1>15, <2>2, <3>1 DEF PointersInv
    <3>2. CASE l # L
      <4>1. l \in Objects
        BY <1>6, <3>2
      <4>2. CASE Top = MemberAt(l, f)
        BY <1>6, <1>15, <4>1, <4>2
      <4>3. CASE Top # MemberAt(l, f)
        BY <1>2, <1>6, <1>15, <2>2, <4>1, <4>3 DEF PointersInv
      <4>. QED
        BY <4>2, <4>3
    <3>. QED
      BY <3>1, <3>2
  <2>. QED
    BY <2>1, <2>2 DEF PointersInv
<1>22. ForwardInv'
  <2>. SUFFICES ASSUME NEW l \in Objects', heap'[l].at # Null
                PROVE  /\ heap'[l].at \in Objects' /\ GenOf(heap'[l].at) > GenOf(l)
                       /\ GenOf(l) <= gen
    BY <1>1 DEF ForwardInv
  <2>1. l # L /\ l \in Objects
    BY <1>4, <1>6, <1>15
  <2>2. CASE l = T
    BY <1>1, <1>3, <1>4, <1>5, <1>6, <1>15, <2>1, <2>2
  <2>3. CASE l # T
    BY <1>2, <1>6, <1>15, <2>1, <2>3 DEF ForwardInv
  <2>. QED
    BY <2>2, <2>3
<1>23. StackInv'
  BY <1>1, <1>2, <1>6, <1>13 DEF StackInv
<1>24. CardsInv'
  BY <1>1, <1>2, <1>6 DEF CardsInv
<1>25. RememberInv'
  <2>. SUFFICES ASSUME NEW l \in Objects', NEW f \in Members, GenOf(l) > gen + 1,
                       heap'[l].to[f] # Null, GenOf(heap'[l].to[f]) < GenOf(l)
                PROVE  CardOf(l) \in remember
    BY <1>1 DEF RememberInv
  <2>1. l \in Objects /\ l \in Locs /\ GenOf(l) \in Nat
    BY <1>3, <1>5, <1>6, LocFacts
  <2>2. heap[l].to[f] # Null /\ GenOf(heap[l].to[f]) < GenOf(l)
    <3>1. CASE Top = MemberAt(l, f)
      BY <1>1, <1>3, <1>4, <2>1, <3>1
    <3>2. CASE Top # MemberAt(l, f)
      BY <1>15, <2>1, <3>2
    <3>. QED
      BY <3>1, <3>2
  <2>. QED
    BY <1>1, <1>2, <2>1, <2>2 DEF RememberInv
<1>26. CopyInv'
  <2>1. ASSUME NEW x \in Vars, var'[x] # Null, GenOf(var'[x]) <= gen PROVE VarAt(x) \in Seen'
    <3>1. Top # VarAt(x)
      BY <1>3, <1>5, <1>10, <2>1
    <3>. QED
      BY <1>1, <1>2, <1>10, <1>13, <2>1, <3>1 DEF CopyInv
  <2>2. ASSUME NEW l \in Objects', NEW f \in Members, GenOf(l) > gen, heap'[l].to[f] # Null,
               GenOf(heap'[l].to[f]) <= gen
        PROVE  MemberAt(l, f) \in Seen'
    <3>1. CASE l = L
      BY <1>13, <1>15, <2>2, <3>1
    <3>2. CASE l # L
      <4>1. l \in Objects /\ Top # MemberAt(l, f)
        BY <1>3, <1>5, <1>6, <1>15, <2>2, <3>2
      <4>. QED
        BY <1>1, <1>2, <1>13, <1>15, <2>2, <4>1 DEF CopyInv
    <3>. QED
      BY <3>1, <3>2
  <2>. QED
    BY <1>1, <2>1, <2>2 DEF CopyInv
<1>27. MarkInv'
  <2>1. \A m \in Locs : heap[m].marked = FALSE
    BY <1>1, <1>2 DEF MarkInv, Types, SlotContents
  <2>2. Cleared.marked = FALSE
    BY DEF Cleared, NewObject
  <2>3. \A m \in Locs : heap'[m].marked = FALSE
    BY <1>4, <1>15, <1>16, <2>1, <2>2
  <2>. QED
    BY <1>1, <2>3 DEF MarkInv
<1>. QED
  BY <1>6, <1>17, <1>18, <1>19, <1>20, <1>21, <1>22, <1>23, <1>24, <1>25, <1>26, <1>27 DEF IInv

(* Marking leaves no pointer of a marked object behind.                    *)
LEMMA MarkStep == IInv /\ Mark => IInv'
<1>. SUFFICES ASSUME IInv, Mark PROVE IInv'
  OBVIOUS
<1>. DEFINE T == Target
            h == [heap EXCEPT ![T].marked = TRUE]
            new == IF heap[T].marked THEN {} ELSE PointersOf(T, heap[T].to)
<1>1. /\ toSearch # <<>> /\ phase = "mark" /\ Value(Top) # Null
      /\ UNCHANGED <<used, pools, current, remember, phase, gen, nextAll>>
  BY DEF Mark, Searching, lists
<1>2. /\ Types /\ SlotsInv /\ ClearInv /\ PointersInv /\ ForwardInv /\ StackInv /\ MarkInv
      /\ Objects \subseteq Locs
  BY ObjectFacts DEF IInv
<1>3. /\ Top \in Addresses /\ Rest \in Seq(Addresses)
      /\ Elements(Rest) \subseteq Seen /\ Seen \subseteq Elements(Rest) \union {Top}
      /\ \A l \in Locs, f \in Members : Top = MemberAt(l, f) => l \in Objects
      /\ T \in Objects /\ T \in Locs /\ heap[T].at = Null
  BY <1>1, TopFacts
<1>4. /\ h \in [Locs -> SlotContents]
      /\ \A m \in Locs : /\ h[m].word = heap[m].word /\ h[m].at = heap[m].at
                         /\ h[m].to = heap[m].to
                         /\ m = T => h[m].marked
                         /\ m # T => h[m] = heap[m]
  <2>1. \A m \in Locs : heap[m] \in SlotContents
    BY <1>2 DEF Types
  <2>2. heap \in [Locs -> SlotContents]
    BY <1>2 DEF Types
  <2>. HIDE DEF T
  <2>3. h[T] = [heap[T] EXCEPT !.marked = TRUE] /\ \A m \in Locs : m # T => h[m] = heap[m]
    BY <1>3, <2>2
  <2>4. \A s \in SlotContents :
          LET r == [s EXCEPT !.marked = TRUE] IN
          /\ r \in SlotContents /\ r.marked
          /\ r.word = s.word /\ r.at = s.at /\ r.to = s.to
    BY DEF SlotContents
  <2>5. /\ h[T] \in SlotContents /\ h[T].marked
        /\ h[T].word = heap[T].word /\ h[T].at = heap[T].at /\ h[T].to = heap[T].to
    BY <1>3, <2>1, <2>3, <2>4
  <2>6. h \in [Locs -> SlotContents]
    <3>1. h = [m \in Locs |-> h[m]]
      BY <2>2
    <3>. HIDE DEF h, SlotContents
    <3>. QED
      BY <2>1, <2>3, <2>5, <3>1
  <2>. HIDE DEF h, SlotContents
  <2>. QED
    BY <2>3, <2>5, <2>6
<1>5. heap[T].marked => h = heap
  <2>1. heap[T] \in SlotContents /\ heap \in [Locs -> SlotContents]
    BY <1>2, <1>3 DEF Types
  <2>. HIDE DEF T
  <2>2. heap[T].marked => [heap[T] EXCEPT !.marked = TRUE] = heap[T]
    BY <2>1 DEF SlotContents
  <2>. QED
    BY <2>1, <2>2
<1>6. /\ Store(Top, T, h)
      /\ survivors' \in [Pools -> Int]
      /\ toSearch' \in Seq(Addresses)
      /\ Seen' = Elements(Rest) \union new
  <2>1. Seen' = Elements(toSearch')
    BY DEF Seen, Elements
  <2>2. CASE heap[T].marked
    <3>1. Store(Top, T, heap) /\ toSearch' = Rest /\ survivors' = survivors
      BY <2>2 DEF Mark
    <3>. QED
      BY <1>2, <1>3, <1>5, <2>1, <2>2, <3>1 DEF Types
  <2>3. CASE ~heap[T].marked
    <3>1. /\ Store(Top, T, h) /\ toSearch' = Rest \o Listed(PointersOf(T, heap[T].to))
          /\ Survived(T)
      BY <2>3 DEF Mark
    <3>2. survivors' \in [Pools -> Int]
      BY <1>2, <1>3, <3>1, SurvivedFacts
    <3>3. toSearch' \in Seq(Addresses)
          /\ Elements(toSearch') = Elements(Rest) \union PointersOf(T, heap[T].to)
      BY <1>3, <3>1, PushFacts, PointersOfFacts
    <3>. QED
      BY <2>1, <2>3, <3>1, <3>2, <3>3
  <2>. QED
    BY <2>2, <2>3
<1>. HIDE DEF h, T
<1>7. /\ var' \in [Vars -> Locs \union {Null}]
      /\ heap' \in [Locs -> SlotContents]
      /\ \A x \in Vars : var'[x] = IF Top = VarAt(x) THEN T ELSE var[x]
      /\ \A m \in Locs : /\ heap'[m].word = heap[m].word
                         /\ heap'[m].at = heap[m].at
                         /\ m = T => heap'[m].marked
                         /\ m # T => heap'[m].marked = heap[m].marked
                         /\ m \notin Objects => heap'[m] = heap[m]
      /\ \A m \in Locs, f \in Members :
           heap'[m].to[f] = IF Top = MemberAt(m, f) THEN T ELSE heap[m].to[f]
  <2>1. var \in [Vars -> Locs \union {Null}]
    BY <1>2 DEF Types
  <2>2. /\ var' \in [Vars -> Locs \union {Null}]
        /\ heap' \in [Locs -> SlotContents]
        /\ \A x \in Vars : var'[x] = IF Top = VarAt(x) THEN T ELSE var[x]
        /\ \A m \in Locs : /\ heap'[m].word = h[m].word
                           /\ heap'[m].at = h[m].at
                           /\ heap'[m].marked = h[m].marked
                           /\ (\A f \in Members : Top # MemberAt(m, f)) => heap'[m] = h[m]
        /\ \A m \in Locs, f \in Members :
             heap'[m].to[f] = IF Top = MemberAt(m, f) THEN T ELSE h[m].to[f]
    <3>1. /\ Store(Top, T, h) /\ Top \in Addresses /\ T \in Locs
          /\ h \in [Locs -> SlotContents]
      BY <1>3, <1>4, <1>6
    <3>. QED
      BY <2>1, <3>1, StoreFacts
  <2>3. ASSUME NEW m \in Locs, m \notin Objects PROVE heap'[m] = heap[m]
    <3>1. \A f \in Members : Top # MemberAt(m, f)
      BY <1>3, <2>3
    <3>. QED
      BY <1>3, <1>4, <2>2, <2>3, <3>1
  <2>4. \A m \in Locs, f \in Members : h[m].to[f] = heap[m].to[f]
    BY <1>4
  <2>5. \A m \in Locs : heap'[m].word = heap[m].word /\ heap'[m].at = heap[m].at
    BY <1>4, <2>2
  <2>6. \A m \in Locs : /\ m = T => heap'[m].marked
                        /\ m # T => heap'[m].marked = heap[m].marked
    BY <1>4, <2>2
  <2>7. \A m \in Locs, f \in Members :
          heap'[m].to[f] = IF Top = MemberAt(m, f) THEN T ELSE heap[m].to[f]
    BY <2>2, <2>4
  <2>. QED
    BY <2>2, <2>3, <2>5, <2>6, <2>7
<1>8. Objects' = Objects /\ SlotsInv' /\ ClearInv'
  BY <1>1, <1>2, <1>7, SameSlots
<1>9. /\ \A f \in Members : heap[T].to[f] # Null /\ ~heap[T].marked => MemberAt(T, f) \in Seen'
      /\ \A m, f : MemberAt(m, f) \in Seen' => m = T \/ MemberAt(m, f) \in Seen
      /\ \A a \in Seen : a # Top => a \in Seen'
  BY <1>3, <1>6, PointersOfFacts
<1>10. Types'
  BY <1>1, <1>2, <1>6, <1>7 DEF Types
<1>11. PhaseInv' /\ PoolsInv'
  BY <1>1 DEF IInv, PhaseInv, PoolsInv
<1>12. PointersInv'
  BY <1>2, <1>3, <1>7, <1>8 DEF PointersInv
<1>13. ForwardInv'
  BY <1>1, <1>2, <1>7, <1>8 DEF ForwardInv
<1>14. StackInv'
  BY <1>1, <1>2, <1>3, <1>7, <1>8, <1>9 DEF StackInv
<1>15. CardsInv'
  BY <1>1, <1>8 DEF CardsInv, IInv
<1>16. RememberInv' /\ CopyInv'
  BY <1>1 DEF RememberInv, CopyInv
<1>17. MarkInv'
  <2>1. ASSUME NEW l \in Locs, heap'[l].marked PROVE heap'[l].at = Null
    BY <1>2, <1>3, <1>7, <2>1 DEF MarkInv
  <2>2. ASSUME NEW x \in Vars, var'[x] # Null PROVE heap'[var'[x]].marked \/ VarAt(x) \in Seen'
    <3>1. CASE Top = VarAt(x)
      BY <1>3, <1>7, <3>1
    <3>2. CASE Top # VarAt(x)
      <4>1. var'[x] = var[x] /\ var[x] \in Locs
        BY <1>2, <1>7, <2>2, <3>2 DEF PointersInv
      <4>2. heap[var[x]].marked \/ VarAt(x) \in Seen
        BY <1>1, <1>2, <2>2, <4>1 DEF MarkInv
      <4>. QED
        BY <1>7, <1>9, <3>2, <4>1, <4>2
    <3>. QED
      BY <3>1, <3>2
  <2>3. ASSUME NEW l \in Objects, NEW f \in Members, heap'[l].marked, heap'[l].to[f] # Null
        PROVE  heap'[heap'[l].to[f]].marked \/ MemberAt(l, f) \in Seen'
    <3>1. CASE Top = MemberAt(l, f)
      BY <1>2, <1>3, <1>7, <3>1
    <3>2. CASE Top # MemberAt(l, f)
      <4>1. heap'[l].to[f] = heap[l].to[f] /\ heap[l].to[f] \in Locs
        BY <1>2, <1>7, <2>3, <3>2 DEF PointersInv
      <4>2. CASE heap[l].marked
        <5>1. heap[heap[l].to[f]].marked \/ MemberAt(l, f) \in Seen
          BY <1>1, <1>2, <2>3, <4>1, <4>2 DEF MarkInv
        <5>. QED
          BY <1>7, <1>9, <3>2, <4>1, <5>1
      <4>3. CASE ~heap[l].marked
        <5>1. l = T
          BY <1>2, <1>7, <2>3, <4>3
        <5>. QED
          BY <1>9, <2>3, <4>1, <4>3, <5>1
      <4>. QED
        BY <4>2, <4>3
    <3>. QED
      BY <3>1, <3>2
  <2>. QED
    BY <1>1, <1>8, <2>1, <2>2, <2>3 DEF MarkInv
<1>. QED
  BY <1>8, <1>10, <1>11, <1>12, <1>13, <1>14, <1>15, <1>16, <1>17 DEF IInv

-----------------------------------------------------------------------------
(***************************************************************************)
(* The end of a collection.                                                *)
(***************************************************************************)
(* Generations only get more pools.                                        *)
LEMMA ExpandFacts ==
  ASSUME Types, Expand
  PROVE  /\ pools' \in [Gens -> 0 .. MaxPools]
         /\ \A g \in Gens : pools[g] <= pools'[g]
         /\ survivors' \in [Pools -> Int]
<1>1. PICK more \in [Gens -> 0 .. MaxPools] :
        /\ \A g \in Gens : more[g] > 0 => pools[g] + more[g] <= MaxPools
        /\ pools' = [g \in Gens |-> pools[g] + more[g]]
  BY DEF Expand
<1>2. \A g \in Gens : pools[g] \in 0 .. MaxPools /\ more[g] \in 0 .. MaxPools /\ MaxPools \in Nat
  BY <1>1, SizesAssumption DEF Types
<1>3. survivors' \in [Pools -> Int]
  BY DEF Expand, Types
<1>. QED
  BY <1>1, <1>2, <1>3

(* The generations collected by copying are emptied, and nothing that is   *)
(* left points into them.                                                  *)
LEMMA EndCopyStep == IInv /\ EndCopy => IInv'
<1>. SUFFICES ASSUME IInv, EndCopy PROVE IInv'
  OBVIOUS
<1>1. /\ phase = "copy" /\ toSearch = <<>> /\ Expand
      /\ used' = [p \in Pools |-> IF GenOf(p) <= gen THEN 0 ELSE used[p]]
      /\ heap' = [l \in Locs |-> IF GenOf(l) <= gen THEN Junk ELSE heap[l]]
      /\ current' = [g \in Gens |-> IF g <= gen THEN 1 ELSE current[g]]
      /\ remember' = {c \in remember : GenOf(c) > gen + 1}
      /\ phase' = "run" /\ gen' = 0
      /\ UNCHANGED <<var, toSearch, nextAll>>
  BY DEF EndCopy
<1>2. /\ Types /\ PoolsInv /\ SlotsInv /\ ClearInv /\ PointersInv /\ ForwardInv
      /\ CardsInv /\ RememberInv /\ CopyInv /\ MarkInv
      /\ Objects \subseteq Locs
  BY ObjectFacts DEF IInv
<1>3. gen \in Nat /\ gen < Generations - 1 /\ \A l \in Locs : GenOf(l) \in Nat
  BY <1>1, <1>2, LocFacts DEF IInv, PhaseInv, Types
<1>4. Seen = {} /\ Seen' = {}
  BY <1>1 DEF Seen, Elements
<1>5. \A l \in Locs : heap'[l] = IF GenOf(l) <= gen THEN Junk ELSE heap[l]
  BY <1>1
<1>6. \A l \in Locs : used'[PoolOf(l)] = IF GenOf(l) <= gen THEN 0 ELSE used[PoolOf(l)]
  <2>1. \A l \in Locs : PoolOf(l) \in Pools /\ GenOf(PoolOf(l)) = GenOf(l)
    BY LocFacts DEF GenOf
  <2>. QED
    BY <1>1, <2>1
<1>7. \A l \in Locs : l \in Objects' <=> l \in Objects /\ GenOf(l) > gen
  <2>. TAKE l \in Locs
  <2>1. l \in Objects' <=> l[3] < used'[PoolOf(l)]
    BY DEF Objects, IsObject, PoolOf
  <2>2. l[3] \in Nat /\ GenOf(l) \in Nat
    BY LocFacts
  <2>. QED
    BY <1>2, <1>3, <1>6, <2>1, <2>2, ObjectFacts
<1>8. Objects' \subseteq Locs
  BY DEF Objects, Locs
<1>9. Types'
  <2>1. heap' \in [Locs -> SlotContents]
    BY <1>1, <1>2, SlotFacts DEF Types
  <2>2. used' \in [Pools -> 0 .. PoolSize] /\ current' \in [Gens -> 1 .. MaxPools]
    BY <1>1, <1>2, SizesAssumption DEF Types
  <2>3. pools' \in [Gens -> 0 .. MaxPools] /\ survivors' \in [Pools -> Int]
    BY <1>1, <1>2, ExpandFacts
  <2>4. 0 \in Gens
    BY SizesAssumption DEF Gens
  <2>. QED
    BY <1>1, <1>2, <2>1, <2>2, <2>3, <2>4 DEF Types
<1>10. PhaseInv'
  BY <1>1 DEF PhaseInv
<1>11. PoolsInv'
  <2>. SUFFICES ASSUME NEW p \in Pools, p[2] > pools'[p[1]] PROVE used'[p] = 0
    BY DEF PoolsInv
  <2>1. /\ p[1] \in Gens /\ p[2] \in Nat /\ pools[p[1]] \in Nat /\ pools'[p[1]] \in Nat
        /\ pools[p[1]] <= pools'[p[1]]
    <3>1. p[1] \in Gens /\ p[2] \in 1 .. MaxPools
      BY LocFacts
    <3>2. /\ pools \in [Gens -> 0 .. MaxPools] /\ pools' \in [Gens -> 0 .. MaxPools]
          /\ pools[p[1]] <= pools'[p[1]]
      BY <1>1, <1>2, <3>1, ExpandFacts DEF Types
    <3>. QED
      BY <3>1, <3>2, SizesAssumption
  <2>2. used[p] = 0
    BY <1>2, <2>1 DEF PoolsInv
  <2>. QED
    BY <1>1, <2>2
<1>12. SlotsInv'
  BY <1>2, <1>3, <1>5, <1>7 DEF SlotsInv
<1>13. ClearInv'
  <2>. SUFFICES ASSUME NEW l \in Locs, GenOf(l) > 0, l[3] > 0, l[3] = used'[PoolOf(l)]
                PROVE  heap'[l] = Cleared
    BY DEF ClearInv
  <2>1. ~(GenOf(l) <= gen)
    BY <1>6
  <2>. QED
    BY <1>2, <1>5, <1>6, <2>1 DEF ClearInv
<1>14. PointersInv'
  <2>1. ASSUME NEW x \in Vars, var[x] # Null PROVE var[x] \in Objects'
    BY <1>1, <1>2, <1>3, <1>4, <1>7, <2>1 DEF PointersInv, CopyInv
  <2>2. ASSUME NEW l \in Objects', NEW f \in Members, heap'[l].to[f] # Null
        PROVE  heap'[l].to[f] \in Objects'
    <3>1. l \in Objects /\ GenOf(l) > gen /\ heap'[l] = heap[l]
      BY <1>3, <1>5, <1>7, <1>8
    <3>2. heap[l].to[f] \in Objects /\ ~(GenOf(heap[l].to[f]) <= gen)
      BY <1>1, <1>2, <1>4, <2>2, <3>1 DEF PointersInv, CopyInv
    <3>. QED
      BY <1>2, <1>3, <1>7, <3>1, <3>2
  <2>. QED
    BY <1>1, <2>1, <2>2 DEF PointersInv
<1>15. ForwardInv'
  BY <1>2, <1>3, <1>5, <1>7, <1>8 DEF ForwardInv
<1>16. StackInv' /\ CopyInv'
  BY <1>1, <1>4 DEF StackInv, CopyInv
<1>17. CardsInv'
  <2>. SUFFICES ASSUME NEW c \in remember, GenOf(c) > gen + 1
                PROVE  GenOf(c) > 0 /\ \E l \in Objects' : CardOf(l) = c
    BY <1>1 DEF CardsInv
  <2>1. PICK l \in Objects : CardOf(l) = c
    BY <1>2 DEF CardsInv
  <2>2. GenOf(l) = GenOf(c) /\ GenOf(l) \in Nat
    BY <1>2, <1>3, <2>1, CardFacts
  <2>. QED
    BY <1>2, <1>3, <1>7, <2>1, <2>2
<1>18. RememberInv'
  <2>. SUFFICES ASSUME NEW l \in Objects', NEW f \in Members, heap'[l].to[f] # Null,
                       GenOf(heap'[l].to[f]) < GenOf(l)
                PROVE  CardOf(l) \in remember'
    BY DEF RememberInv
  <2>1. l \in Objects /\ l \in Locs /\ GenOf(l) > gen /\ heap'[l] = heap[l]
    BY <1>3, <1>5, <1>7, <1>8
  <2>2. /\ ~(GenOf(heap[l].to[f]) <= gen) /\ GenOf(heap[l].to[f]) \in Nat /\ GenOf(l) \in Nat
    BY <1>1, <1>2, <1>3, <1>4, <2>1 DEF PointersInv, CopyInv
  <2>3. GenOf(l) > gen + 1
    BY <1>3, <2>1, <2>2
  <2>4. CardOf(l) \in remember
    BY <1>1, <1>2, <2>1, <2>3 DEF RememberInv
  <2>. QED
    BY <1>1, <2>1, <2>3, <2>4, CardFacts
<1>19. MarkInv'
  <2>1. Junk.marked = FALSE
    BY DEF Junk, NewObject
  <2>. QED
    BY <1>1, <1>2, <1>5, <2>1 DEF MarkInv
<1>. QED
  BY <1>9, <1>10, <1>11, <1>12, <1>13, <1>14, <1>15, <1>16, <1>17, <1>18, <1>19 DEF IInv

(* Sliding the marked objects of a pool to its start, in order: each gets  *)
(* a slot of its own, and they fill the first slots of the pool.           *)
LEMMA SlideFacts ==
  ASSUME Types, SlotsInv
  PROVE  /\ \A p \in Pools : Cardinality(Marked(p)) \in 0 .. used[p]
         /\ \A l \in Objects : heap[l].marked =>
              /\ NewLoc(l) \in Locs /\ PoolOf(NewLoc(l)) = PoolOf(l) /\ GenOf(NewLoc(l)) = GenOf(l)
              /\ NewLoc(l)[3] < Cardinality(Marked(PoolOf(NewLoc(l))))
         /\ \A l, m \in Objects : heap[l].marked /\ heap[m].marked /\ NewLoc(l) = NewLoc(m) => l = m
         /\ \A n \in Locs : n[3] < Cardinality(Marked(PoolOf(n))) =>
              \E m \in Marked(PoolOf(n)) : NewLoc(m) = n
<1>. DEFINE slot(p) == [m \in Marked(p) |-> m[3]]
            count(p) == Cardinality(Marked(p))
<1>1. ASSUME NEW p \in Pools
      PROVE  /\ IsFiniteSet(Marked(p)) /\ slot(p) \in [Marked(p) -> Nat]
             /\ \A l, m \in Marked(p) : slot(p)[l] = slot(p)[m] => l = m
             /\ \A l \in Marked(p) : l \in Locs /\ l[3] \in 0 .. used[p] - 1 /\ PoolOf(l) = p
             /\ used[p] \in 0 .. PoolSize /\ count(p) \in Nat
  <2>1. \A l \in Marked(p) : l \in Locs /\ l[3] < used[p] /\ PoolOf(l) = p
    BY ObjectFacts DEF Marked
  <2>2. IsFiniteSet(Marked(p))
    BY <2>1, LocsFinite, FS_Subset
  <2>3. used[p] \in 0 .. PoolSize
    BY DEF Types
  <2>4. \A l \in Marked(p) : l[3] \in Nat /\ l[3] \in 0 .. used[p] - 1
    BY <2>1, <2>3, LocFacts, SizesAssumption
  <2>5. \A l, m \in Marked(p) : l[3] = m[3] => l = m
    <3>. SUFFICES ASSUME NEW l \in Marked(p), NEW m \in Marked(p), l[3] = m[3] PROVE l = m
      OBVIOUS
    <3>1. l[1] = m[1] /\ l[2] = m[2]
      BY <2>1, LocFacts
    <3>. QED
      BY <2>1, <3>1, LocFacts
  <2>6. count(p) \in Nat
    BY <2>2, FS_CardinalityType
  <2>. QED
    BY <2>1, <2>2, <2>3, <2>4, <2>5, <2>6
<1>2. ASSUME NEW p \in Pools
      PROVE  /\ \A l \in Marked(p) : Rank(slot(p), Marked(p), l) \in 0 .. count(p) - 1
             /\ \A l, m \in Marked(p) :
                  Rank(slot(p), Marked(p), l) = Rank(slot(p), Marked(p), m) => l = m
             /\ \A k \in 0 .. count(p) - 1 : \E l \in Marked(p) : Rank(slot(p), Marked(p), l) = k
  <2>1. /\ IsFiniteSet(Marked(p)) /\ slot(p) \in [Marked(p) -> Nat]
        /\ \A l, m \in Marked(p) : slot(p)[l] = slot(p)[m] => l = m
    BY <1>1
  <2>. HIDE DEF slot
  <2>. QED
    BY <2>1, RankGrows, RankOnto
<1>3. ASSUME NEW p \in Pools, NEW l \in Marked(p)
      PROVE  NewLoc(l) = <<l[1], l[2], Rank(slot(p), Marked(p), l)>>
  <2>1. l # Null /\ PoolOf(l) = p
    BY <1>1, LocFacts
  <2>2. {m \in Marked(p) : m[3] < l[3]} = {m \in Marked(p) : slot(p)[m] < slot(p)[l]}
    OBVIOUS
  <2>. QED
    BY <2>1, <2>2 DEF NewLoc, Rank
<1>4. ASSUME NEW p \in Pools PROVE count(p) \in 0 .. used[p]
  <2>1. used[p] \in Nat
    BY <1>1, SizesAssumption
  <2>2. IsFiniteSet(0 .. used[p] - 1) /\ Cardinality(0 .. used[p] - 1) = used[p]
    BY <2>1, IntervalSize
  <2>3. slot(p) \in Injection(Marked(p), 0 .. used[p] - 1)
    BY <1>1 DEF Injection, IsInjective
  <2>4. count(p) <= used[p]
    BY <2>2, <2>3, FS_Injection
  <2>. QED
    BY <1>1, <2>1, <2>4
<1>5. ASSUME NEW p \in Pools, NEW l \in Marked(p)
      PROVE  /\ NewLoc(l) \in Locs /\ PoolOf(NewLoc(l)) = p /\ GenOf(NewLoc(l)) = GenOf(l)
             /\ NewLoc(l)[3] < count(p)
  <2>. DEFINE k == Rank(slot(p), Marked(p), l)
  <2>1. k \in 0 .. count(p) - 1
    BY <1>2
  <2>2. NewLoc(l) = <<l[1], l[2], k>>
    BY <1>3
  <2>. HIDE DEF k
  <2>3. l \in Locs /\ PoolOf(l) = p /\ used[p] \in 0 .. PoolSize /\ count(p) \in 0 .. used[p]
    BY <1>1, <1>4
  <2>. HIDE DEF count
  <2>4. k \in Slots /\ k < count(p)
    BY <2>1, <2>3, SizesAssumption DEF Slots
  <2>5. NewLoc(l) \in Locs
    BY <2>2, <2>3, <2>4, LocFacts DEF Locs
  <2>. QED
    BY <2>2, <2>3, <2>4, <2>5, LocFacts DEF PoolOf
<1>6. \A l \in Objects : heap[l].marked => PoolOf(l) \in Pools /\ l \in Marked(PoolOf(l))
  BY ObjectFacts, LocFacts DEF Marked
<1>7. ASSUME NEW l \in Objects, NEW m \in Objects, heap[l].marked, heap[m].marked,
             NewLoc(l) = NewLoc(m)
      PROVE  l = m
  <2>1. PoolOf(l) \in Pools /\ l \in Marked(PoolOf(l)) /\ PoolOf(m) \in Pools /\ m \in Marked(PoolOf(m))
    BY <1>6, <1>7
  <2>2. PoolOf(l) = PoolOf(m)
    BY <1>5, <1>7, <2>1
  <2>. DEFINE p == PoolOf(l)
  <2>3. NewLoc(l)[3] = Rank(slot(p), Marked(p), l) /\ NewLoc(m)[3] = Rank(slot(p), Marked(p), m)
    BY <1>3, <2>1, <2>2
  <2>. QED
    BY <1>2, <1>7, <2>1, <2>2, <2>3
<1>8. ASSUME NEW n \in Locs, n[3] < count(PoolOf(n))
      PROVE  \E m \in Marked(PoolOf(n)) : NewLoc(m) = n
  <2>. DEFINE p == PoolOf(n)
  <2>1. p \in Pools /\ n[3] \in Nat /\ count(p) \in Nat
    BY <1>1, LocFacts
  <2>2. n[3] \in 0 .. count(p) - 1
    BY <1>8, <2>1
  <2>3. PICK m \in Marked(p) : Rank(slot(p), Marked(p), m) = n[3]
    BY <1>2, <2>1, <2>2
  <2>4. m \in Locs /\ PoolOf(m) = p
    BY <1>1, <2>1
  <2>5. NewLoc(m) = <<m[1], m[2], n[3]>>
    BY <1>3, <2>1, <2>3
  <2>6. m[1] = n[1] /\ m[2] = n[2]
    BY <2>4 DEF PoolOf
  <2>. QED
    BY <2>5, <2>6, LocFacts
<1>. QED
  BY <1>4, <1>5, <1>6, <1>7, <1>8

(* After a full collection the pointers lead to where the marked objects   *)
(* were slid, and the remembered cards are those found again.              *)
LEMMA EndMarkStep == IInv /\ EndMark => IInv'
<1>. SUFFICES ASSUME IInv, EndMark PROVE IInv'
  OBVIOUS
<1>. DEFINE Count(l) == Cardinality(Marked(PoolOf(l)))
<1>1. /\ phase = "mark" /\ toSearch = <<>> /\ Expand
      /\ var' = [x \in Vars |-> NewLoc(var[x])]
      /\ heap' = [l \in Locs |-> Compacted(l)]
      /\ used' = [p \in Pools |-> Cardinality(Marked(p))]
      /\ current' = [g \in Gens |-> 1]
      /\ remember' = {CardOf(NewLoc(l)) : l \in
                        {m \in Objects : heap[m].marked /\ Younger(heap[m], GenOf(m))}}
      /\ phase' = "run" /\ gen' = 0
      /\ UNCHANGED <<toSearch, nextAll>>
  BY DEF EndMark
<1>2. /\ Types /\ PoolsInv /\ SlotsInv /\ PointersInv /\ MarkInv
      /\ Objects \subseteq Locs
      /\ \A l \in Objects : heap[l].word = "object"
  BY ObjectFacts DEF IInv
<1>3. Seen = {} /\ Seen' = {}
  BY <1>1 DEF Seen, Elements
<1>4. /\ \A p \in Pools : Cardinality(Marked(p)) \in 0 .. used[p]
      /\ \A l \in Objects : heap[l].marked =>
           /\ NewLoc(l) \in Locs /\ PoolOf(NewLoc(l)) = PoolOf(l) /\ GenOf(NewLoc(l)) = GenOf(l)
           /\ NewLoc(l)[3] < Count(NewLoc(l))
      /\ \A n \in Locs : n[3] < Count(n) => \E m \in Marked(PoolOf(n)) : NewLoc(m) = n
  BY <1>2, SlideFacts
<1>5. \A l \in Locs : PoolOf(l) \in Pools /\ l[3] \in Nat /\ GenOf(l) \in Nat
                      /\ used'[PoolOf(l)] = Count(l)
  BY <1>1, LocFacts
<1>. HIDE DEF Count
<1>6. Objects' \subseteq Locs /\ \A l \in Locs : l \in Objects' <=> l[3] < Count(l)
  <2>1. Objects' \subseteq Locs /\ \A l \in Locs : l \in Objects' <=> l[3] < used'[PoolOf(l)]
    BY DEF Objects, IsObject, PoolOf, Locs
  <2>. QED
    BY <1>5, <2>1
<1>7. ASSUME NEW l \in Objects, heap[l].marked
      PROVE  NewLoc(l) \in Objects' /\ NewLoc(l) # Null
  BY <1>4, <1>6, <1>7, LocFacts
<1>8. NewLoc(Null) = Null
  BY DEF NewLoc
<1>9. ASSUME NEW n \in Objects'
      PROVE  \E m \in Objects : /\ heap[m].marked /\ heap[m].at = Null /\ NewLoc(m) = n
                                /\ GenOf(m) = GenOf(n) /\ heap'[n] = Slid(heap[m])
  <2>. DEFINE m == CHOOSE k \in Marked(PoolOf(n)) : NewLoc(k) = n
  <2>1. n \in Locs /\ n[3] < Count(n)
    BY <1>6
  <2>2. m \in Marked(PoolOf(n)) /\ NewLoc(m) = n
    BY <1>4, <2>1
  <2>3. heap'[n] = Slid(heap[m])
    <3>1. heap'[n] = Compacted(n)
      BY <1>1, <2>1
    <3>. QED
      BY <2>1, <3>1 DEF Compacted, Count
  <2>. HIDE DEF m
  <2>4. m \in Objects /\ heap[m].marked
    BY <2>2 DEF Marked
  <2>5. heap[m].at = Null /\ GenOf(m) = GenOf(n)
    BY <1>2, <1>4, <2>2, <2>4 DEF MarkInv
  <2>. QED
    BY <2>2, <2>3, <2>4, <2>5
<1>10. ASSUME NEW l \in Locs, l \notin Objects'
       PROVE  /\ heap'[l] \in {Cleared, Junk}
              /\ l[3] = Count(l) /\ GenOf(l) > 0 => heap'[l] = Cleared
  <2>1. ~(l[3] < Count(l)) /\ heap'[l] = Compacted(l)
    BY <1>1, <1>6, <1>10
  <2>. QED
    BY <2>1 DEF Compacted, Count
<1>11. ASSUME NEW m \in Objects, heap[m].marked
       PROVE  /\ Slid(heap[m]).word = "object" /\ Slid(heap[m]).at = heap[m].at
              /\ Slid(heap[m]).marked = FALSE
              /\ \A f \in Members : Slid(heap[m]).to[f] = NewLoc(heap[m].to[f])
              /\ \A f \in Members : heap[m].to[f] # Null =>
                   heap[m].to[f] \in Objects /\ heap[heap[m].to[f]].marked
              /\ Slid(heap[m]) \in SlotContents
  <2>1. heap[m] \in SlotContents /\ heap[m].word = "object"
    BY <1>2 DEF Types
  <2>2. \A f \in Members : heap[m].to[f] # Null =>
           heap[m].to[f] \in Objects /\ heap[heap[m].to[f]].marked
    BY <1>1, <1>2, <1>3, <1>11 DEF PointersInv, MarkInv
  <2>3. \A f \in Members : NewLoc(heap[m].to[f]) \in Locs \union {Null}
    BY <1>4, <1>8, <2>2
  <2>. QED
    BY <2>1, <2>2, <2>3 DEF Slid, SlotContents
<1>12. \A x \in Vars : var[x] # Null => var[x] \in Objects /\ heap[var[x]].marked
  BY <1>1, <1>2, <1>3 DEF PointersInv, MarkInv
<1>13. ASSUME NEW n \in Objects'
       PROVE  /\ heap'[n] \in SlotContents /\ heap'[n].word = "object"
              /\ heap'[n].at = Null /\ heap'[n].marked = FALSE
              /\ \A f \in Members : heap'[n].to[f] # Null => heap'[n].to[f] \in Objects'
  <2>1. PICK m \in Objects : heap[m].marked /\ heap[m].at = Null /\ heap'[n] = Slid(heap[m])
    BY <1>9
  <2>2. \A f \in Members : heap'[n].to[f] # Null => heap'[n].to[f] \in Objects'
    <3>. SUFFICES ASSUME NEW f \in Members, heap'[n].to[f] # Null
                  PROVE  heap'[n].to[f] \in Objects'
      OBVIOUS
    <3>1. heap'[n].to[f] = NewLoc(heap[m].to[f])
      BY <1>11, <2>1
    <3>2. heap[m].to[f] # Null
      BY <1>8, <3>1
    <3>3. heap[m].to[f] \in Objects /\ heap[heap[m].to[f]].marked
      BY <1>11, <2>1, <3>2
    <3>. QED
      BY <1>7, <3>1, <3>3
  <2>. QED
    BY <1>11, <2>1, <2>2
<1>14. heap' \in [Locs -> SlotContents]
  <2>1. \A l \in Locs : heap'[l] \in SlotContents
    BY <1>10, <1>13, SlotFacts
  <2>. QED
    BY <1>1, <2>1
<1>15. Types'
  <2>1. var' \in [Vars -> Locs \union {Null}]
    BY <1>1, <1>4, <1>8, <1>12
  <2>2. used' \in [Pools -> 0 .. PoolSize]
    <3>1. \A p \in Pools : used[p] \in 0 .. PoolSize
      BY <1>2 DEF Types
    <3>2. \A p \in Pools : Cardinality(Marked(p)) \in 0 .. PoolSize
      BY <1>4, <3>1, SizesAssumption
    <3>. QED
      BY <1>1, <3>2
  <2>3. current' \in [Gens -> 1 .. MaxPools] /\ 0 \in Gens
    BY <1>1, SizesAssumption DEF Gens
  <2>4. pools' \in [Gens -> 0 .. MaxPools] /\ survivors' \in [Pools -> Int]
    BY <1>1, <1>2, ExpandFacts
  <2>5. remember' \in SUBSET Cards
    BY <1>1, <1>4, CardFacts
  <2>. QED
    BY <1>1, <1>2, <1>14, <2>1, <2>2, <2>3, <2>4, <2>5 DEF Types
<1>16. PhaseInv'
  BY <1>1 DEF PhaseInv
<1>17. PoolsInv'
  <2>. SUFFICES ASSUME NEW p \in Pools, p[2] > pools'[p[1]] PROVE used'[p] = 0
    BY DEF PoolsInv
  <2>1. p[1] \in Gens /\ p[2] \in 1 .. MaxPools
    BY LocFacts
  <2>2. /\ pools \in [Gens -> 0 .. MaxPools] /\ pools' \in [Gens -> 0 .. MaxPools]
        /\ pools[p[1]] <= pools'[p[1]]
    BY <1>1, <1>2, <2>1, ExpandFacts DEF Types
  <2>3. p[2] > pools[p[1]]
    BY <2>1, <2>2, SizesAssumption
  <2>4. used[p] = 0
    BY <1>2, <2>3 DEF PoolsInv
  <2>. QED
    BY <1>1, <1>4, <2>4
<1>18. SlotsInv'
  BY <1>10, <1>13 DEF SlotsInv
<1>19. ClearInv'
  <2>. SUFFICES ASSUME NEW l \in Locs, GenOf(l) > 0, l[3] = used'[PoolOf(l)]
                PROVE  heap'[l] = Cleared
    BY DEF ClearInv
  <2>1. l[3] = Count(l) /\ l \notin Objects'
    BY <1>5, <1>6
  <2>. QED
    BY <1>10, <2>1
<1>20. PointersInv'
  <2>1. ASSUME NEW x \in Vars, var'[x] # Null PROVE var'[x] \in Objects'
    BY <1>1, <1>7, <1>8, <1>12, <2>1
  <2>. QED
    BY <1>13, <2>1 DEF PointersInv
<1>21. ForwardInv'
  BY <1>13 DEF ForwardInv
<1>22. StackInv' /\ CopyInv'
  BY <1>1, <1>3 DEF StackInv, CopyInv
<1>23. CardsInv'
  <2>. SUFFICES ASSUME NEW m \in Objects, heap[m].marked, Younger(heap[m], GenOf(m))
                PROVE  /\ GenOf(CardOf(NewLoc(m))) > 0
                       /\ \E l \in Objects' : CardOf(l) = CardOf(NewLoc(m))
    BY <1>1 DEF CardsInv
  <2>1. PICK f \in Members : heap[m].to[f] # Null /\ GenOf(heap[m].to[f]) < GenOf(m)
    BY DEF Younger
  <2>2. heap[m].to[f] \in Locs /\ m \in Locs
    BY <1>2, <1>11, <2>1
  <2>3. GenOf(m) > 0
    BY <1>5, <2>1, <2>2
  <2>4. GenOf(CardOf(NewLoc(m))) = GenOf(m)
    BY <1>4, CardFacts
  <2>. QED
    BY <1>7, <2>3, <2>4
<1>24. RememberInv'
  <2>. SUFFICES ASSUME NEW n \in Objects', NEW f \in Members, heap'[n].to[f] # Null,
                       GenOf(heap'[n].to[f]) < GenOf(n)
                PROVE  CardOf(n) \in remember'
    BY DEF RememberInv
  <2>1. PICK m \in Objects : /\ heap[m].marked /\ NewLoc(m) = n
                             /\ GenOf(m) = GenOf(n) /\ heap'[n] = Slid(heap[m])
    BY <1>9
  <2>2. heap'[n].to[f] = NewLoc(heap[m].to[f])
    BY <1>11, <2>1
  <2>3. heap[m].to[f] # Null
    BY <1>8, <2>2
  <2>4. GenOf(heap'[n].to[f]) = GenOf(heap[m].to[f])
    BY <1>4, <1>11, <2>1, <2>2, <2>3
  <2>5. Younger(heap[m], GenOf(m))
    BY <2>1, <2>3, <2>4 DEF Younger
  <2>. QED
    BY <1>1, <2>1, <2>5
<1>25. MarkInv'
  <2>1. Junk.marked = FALSE /\ Cleared.marked = FALSE
    BY DEF Junk, Cleared, NewObject
  <2>2. \A l \in Locs : heap'[l].marked = FALSE
    BY <1>10, <1>13, <2>1
  <2>. QED
    BY <1>1, <2>2 DEF MarkInv
<1>. QED
  BY <1>15, <1>16, <1>17, <1>18, <1>19, <1>20, <1>21, <1>22, <1>23, <1>24, <1>25 DEF IInv

-----------------------------------------------------------------------------
(***************************************************************************)
(* The theorems.                                                           *)
(***************************************************************************)
(* Nothing changes when nothing changes.                                   *)
LEMMA StutterStep == IInv /\ UNCHANGED vars => IInv'
<1>. SUFFICES ASSUME IInv, UNCHANGED vars PROVE IInv'
  OBVIOUS
<1>1. /\ UNCHANGED <<var, heap, used, pools, current, remember, survivors, phase, gen, toSearch,
                     nextAll>>
      /\ Objects' = Objects /\ Seen' = Seen
  BY SameObjects DEF vars, heapVars, lists, Seen, Elements
<1>. QED
  BY <1>1 DEF IInv, Types, PhaseInv, PoolsInv, SlotsInv, ClearInv, PointersInv, ForwardInv,
              StackInv, CardsInv, RememberInv, CopyInv, MarkInv

(* The inductive invariant.                                                *)
THEOREM Invariant == Spec => []IInv
<1>1. Init => IInv
  BY InitInvariant
<1>2. IInv /\ [Next]_vars => IInv'
  <2>. SUFFICES ASSUME IInv, [Next]_vars PROVE IInv'
    OBVIOUS
  <2>1. CASE Program
    BY <2>1, ProgramStep
  <2>2. CASE CollectForRoom \/ CollectAll
    BY <2>2, CollectStep
  <2>3. CASE SkipNull
    BY <2>3, SkipNullStep
  <2>4. CASE KeepOld
    BY <2>4, KeepOldStep
  <2>5. CASE Promote
    BY <2>5, PromoteStep
  <2>6. CASE PromoteFails
    BY <2>6, PromoteFailsStep
  <2>7. CASE Mark
    BY <2>7, MarkStep
  <2>8. CASE EndCopy
    BY <2>8, EndCopyStep
  <2>9. CASE EndMark
    BY <2>9, EndMarkStep
  <2>10. CASE UNCHANGED vars
    BY <2>10, StutterStep
  <2>. QED
    BY <2>1, <2>2, <2>3, <2>4, <2>5, <2>6, <2>7, <2>8, <2>9, <2>10 DEF Next, Collector
<1>. QED
  BY <1>1, <1>2, PTL DEF Spec

(* Every variable has its type: no pool holds more than fits in it and     *)
(* ToSearch holds addresses of pointers (collector/gembc.c, allocator.c).  *)
THEOREM TypeCorrect == Spec => []TypeOk
<1>1. IInv => TypeOk
  <2>. SUFFICES ASSUME IInv PROVE TypeOk
    OBVIOUS
  <2>1. Types
    BY DEF IInv
  <2>2. \A i \in DOMAIN toSearch : toSearch[i] \in Addresses
    BY <2>1 DEF Types
  <2>. QED
    BY <2>1, <2>2 DEF TypeOk, Types, Addresses
<1>. QED
  BY <1>1, Invariant, PTL

(* Between collections no object, dead or alive, points at anything but an *)
(* object that is where it says: copying, failed promotions and compaction *)
(* in place leave no old address behind (collector/gembc.c).               *)
THEOREM HeapStaysClosed == Spec => []HeapClosed
<1>1. IInv => HeapClosed
  BY DEF IInv, HeapClosed, ForwardInv, PointersInv, Pointees
<1>. QED
  BY <1>1, Invariant, PTL

(* Between collections the remembered sets have every pointer from an      *)
(* older generation to a younger one, whether a write (gc-gembc.h), a      *)
(* promotion or a compaction (gembc.c) made it one.                        *)
THEOREM RememberedSetsComplete == Spec => []RememberedComplete
<1>1. IInv => RememberedComplete
  BY DEF IInv, RememberedComplete, RememberInv, Pointees
<1>. QED
  BY <1>1, Invariant, PTL

(* The scan of a remembered card, which goes on until it reads a cleared   *)
(* word, meets only objects, dead or alive (gembc.c:144-146, 541-546,      *)
(* 1042).                                                                  *)
THEOREM ScansMeetObjects == Spec => []ScanMeetsObjects
<1>1. IInv => ScanMeetsObjects
  BY ScanFacts DEF IInv, ScanMeetsObjects
<1>. QED
  BY <1>1, Invariant, PTL

(* A copying collection never loses sight of a pointer it has to change:   *)
(* while it runs, one that leads into a generation being collected is on   *)
(* its stack of addresses (ToSearch of gembc.c), unless it is in one.      *)
THEOREM NothingStaysUnseen == Spec => []NothingUnseen
<1>1. IInv => NothingUnseen
  BY DEF IInv, NothingUnseen, CopyInv, Seen, Elements
<1>. QED
  BY <1>1, Invariant, PTL

-----------------------------------------------------------------------------
(***************************************************************************)
(* Gembc implements ObjectGraph.  This is the graph a heap stands for; its *)
(* objects are the least set that has what variables lead to and, with an  *)
(* object, what its members lead to (LedRight).  A step of the program is  *)
(* the graph's step of the same name, and a step of the collector is its   *)
(* Move if every object led to gets a place of its own and every pointer   *)
(* leads to the new place of what it led to (MoveFacts): in a promotion    *)
(* one object moves, in a full collection the marked ones, and otherwise   *)
(* none does.                                                              *)
(***************************************************************************)
\* The variables of the object graph, and one of its pointers.
GraphVar == [x \in Vars |-> AddressOf(var[x])]

To(l, f) == AddressOf(heap[l].to[f])

GraphMember ==
    [i \in {AddressOf(l) : l \in Led} |->
        [f \in Members |-> IF i = Lost THEN Lost ELSE AddressOf(heap[i].to[f])]]

\* Objects that are where they are, not abandoned copies.
Live == {l \in Objects : heap[l].at = Null}

\* Addresses are those of objects, found through forwarding.
AddressesRight ==
    /\ AddressOf(Null) = Null
    /\ \A l \in Objects : AddressOf(l) = Follow(l) /\ AddressOf(l) \in Live /\ AddressOf(l) # Null
    /\ \A l \in Live : AddressOf(l) = l
    /\ Live \in SUBSET Locs /\ Null \notin Live
    /\ \A x \in Vars : GraphVar[x] \in Live \union {Null} /\ GraphVar[x] = AddressOf(var[x])
    /\ \A l \in Objects, f \in Members : To(l, f) \in Live \union {Null}

\* S has what variables lead to, and with an object what its pointers lead to.
Leads(S) ==
    /\ \A x \in Vars : GraphVar[x] # Null => GraphVar[x] \in S
    /\ \A l \in S, f \in Members : To(l, f) # Null => To(l, f) \in S

\* Led is the least such set, and it has live objects only.
LedRight ==
    /\ Led \in SUBSET Live
    /\ Leads(Led)
    /\ \A S \in SUBSET Live : Leads(S) => Led \subseteq S
    /\ GraphMember = [l \in Led |-> [f \in Members |-> To(l, f)]]

(* What a pointer stands for.                                              *)
LEMMA AddressFollows == IInv => AddressesRight
<1>. SUFFICES ASSUME IInv PROVE AddressesRight
  OBVIOUS
<1>1. Types /\ SlotsInv /\ ForwardInv /\ PointersInv /\ Objects \in SUBSET Locs /\ Null \notin Locs
  BY ObjectFacts, LocFacts DEF IInv
<1>2. AddressOf(Null) = Null
  BY DEF AddressOf
<1>3. ASSUME NEW l \in Objects
      PROVE  AddressOf(l) = Follow(l) /\ AddressOf(l) \in Live /\ AddressOf(l) # Null
  <2>1. Follow(l) \in Objects /\ heap[Follow(l)].at = Null /\ l # Null
    BY <1>1, FollowFacts
  <2>2. IsObject(Follow(l))
    BY <2>1 DEF Objects
  <2>. QED
    BY <1>1, <2>1, <2>2 DEF AddressOf, Live
<1>4. \A l \in Live : AddressOf(l) = l
  BY <1>1, <1>3, FollowFacts DEF Live
<1>5. \A x \in Vars : GraphVar[x] \in Live \union {Null} /\ GraphVar[x] = AddressOf(var[x])
  BY <1>1, <1>2, <1>3 DEF PointersInv, GraphVar
<1>6. \A l \in Objects, f \in Members : To(l, f) \in Live \union {Null}
  BY <1>1, <1>2, <1>3 DEF PointersInv, To
<1>. QED
  BY <1>1, <1>2, <1>3, <1>4, <1>5, <1>6 DEF AddressesRight, Live

\* One step of the recursion in Led.
LedBy(S) == S \union {Follow(m) : m \in UNION {Pointees(l) : l \in S}}

(* What the program is led to is a closure.                                *)
LEMMA LedCloses ==
  ASSUME IInv
  PROVE  /\ \A x \in Vars : var[x] # Null => Follow(var[x]) \in Led
         /\ \A l \in Led, f \in Members : heap[l].to[f] # Null => Follow(heap[l].to[f]) \in Led
         /\ \A S \in SUBSET Locs :
              /\ \A x \in Vars : var[x] # Null => Follow(var[x]) \in S
              /\ \A l \in S, f \in Members : heap[l].to[f] # Null => Follow(heap[l].to[f]) \in S
              => Led \subseteq S
<1>. DEFINE g == [S \in SUBSET Locs |-> LedBy(S)]
            c == CHOOSE d : d = [S \in SUBSET Locs |-> IF LedBy(S) = S THEN S ELSE d[LedBy(S)]]
            seeds == {Follow(var[x]) : x \in {y \in Vars : var[y] # Null}}
<1>1. Led = c[seeds]
  BY SMT DEF Led, LedBy
<1>2. Types /\ SlotsInv /\ ForwardInv /\ PointersInv /\ Objects \subseteq Locs
  BY ObjectFacts DEF IInv
<1>3. \A l \in Locs : Follow(l) \in Locs
  BY <1>2, FollowDefined, FollowFacts
<1>4. \A l \in Locs, f \in Members : heap[l].to[f] # Null => heap[l].to[f] \in Locs
  BY <1>2 DEF Types, SlotContents
<1>5. \A S \in SUBSET Locs : LedBy(S) \in SUBSET Locs /\ S \subseteq LedBy(S)
  BY <1>3, <1>4 DEF LedBy, Pointees
<1>6. seeds \in SUBSET Locs
  BY <1>2, <1>3 DEF PointersInv
<1>7. \A S : \A l \in S, f \in Members : heap[l].to[f] # Null => Follow(heap[l].to[f]) \in LedBy(S)
  BY DEF LedBy, Pointees
<1>8. ASSUME NEW S, \A l \in S, f \in Members : heap[l].to[f] # Null => Follow(heap[l].to[f]) \in S,
             NEW t \in SUBSET S
      PROVE  LedBy(t) \subseteq S
  BY <1>8 DEF LedBy, Pointees
<1>9. \A S \in SUBSET Locs : g[S] = LedBy(S)
  OBVIOUS
<1>10. Grows(Locs, g)
  BY <1>5, <1>9 DEF Grows
<1>. HIDE DEF g
<1>11. \A d : [S \in SUBSET Locs |-> IF LedBy(S) = S THEN S ELSE d[LedBy(S)]]
               = [S \in SUBSET Locs |-> Closing(g, d, S)]
  BY <1>9 DEF Closing
<1>12. IsClosing(Locs, g, c)
  <2>1. PICK d : IsClosing(Locs, g, d)
    BY <1>10, LocsFinite, ClosureExists
  <2>2. \E e : e = [S \in SUBSET Locs |-> IF LedBy(S) = S THEN S ELSE e[LedBy(S)]]
    BY <1>11, <2>1 DEF IsClosing
  <2>3. c = [S \in SUBSET Locs |-> IF LedBy(S) = S THEN S ELSE c[LedBy(S)]]
    BY <2>2, Zenon
  <2>. HIDE DEF c
  <2>. QED
    BY <1>11, <2>3 DEF IsClosing
<1>. HIDE DEF c
<1>13. \A x \in Vars : var[x] # Null => Follow(var[x]) \in seeds
  OBVIOUS
<1>14. \A S : (\A x \in Vars : var[x] # Null => Follow(var[x]) \in S) => seeds \subseteq S
  OBVIOUS
<1>. HIDE DEF seeds
<1>15. /\ c[seeds] \in SUBSET Locs /\ seeds \subseteq c[seeds] /\ g[c[seeds]] = c[seeds]
       /\ \A S \in SUBSET Locs : seeds \subseteq S /\ (\A t \in SUBSET S : g[t] \subseteq S)
                => c[seeds] \subseteq S
  BY <1>6, <1>10, <1>12, LocsFinite, ClosureFacts
<1>16. LedBy(Led) = Led
  BY <1>1, <1>9, <1>15
<1>17. ASSUME NEW S \in SUBSET Locs,
              \A x \in Vars : var[x] # Null => Follow(var[x]) \in S,
              \A l \in S, f \in Members : heap[l].to[f] # Null => Follow(heap[l].to[f]) \in S
       PROVE  Led \subseteq S
  <2>1. \A t \in SUBSET S : g[t] \subseteq S
    BY <1>8, <1>9, <1>17
  <2>. QED
    BY <1>1, <1>14, <1>15, <1>17, <2>1
<1>. QED
  BY <1>1, <1>7, <1>13, <1>15, <1>16, <1>17

(* It is what variables and members lead to in the graph.                  *)
LEMMA LedIsRight == IInv => LedRight
<1>. SUFFICES ASSUME IInv PROVE LedRight
  OBVIOUS
<1>1. AddressesRight
  BY AddressFollows
<1>2. PointersInv /\ Objects \in SUBSET Locs /\ Live \subseteq Objects /\ Live \subseteq Locs
  BY ObjectFacts DEF IInv, Live
<1>3. \A x \in Vars : (var[x] # Null <=> GraphVar[x] # Null) /\ (var[x] # Null => GraphVar[x] = Follow(var[x]))
  BY <1>1, <1>2 DEF AddressesRight, PointersInv
<1>4. \A l \in Live, f \in Members :
         /\ heap[l].to[f] # Null <=> To(l, f) # Null
         /\ heap[l].to[f] # Null => To(l, f) = Follow(heap[l].to[f])
  BY <1>1, <1>2 DEF AddressesRight, PointersInv, To
<1>5. \A S \in SUBSET Live : Leads(S) <=>
         /\ \A x \in Vars : var[x] # Null => Follow(var[x]) \in S
         /\ \A l \in S, f \in Members : heap[l].to[f] # Null => Follow(heap[l].to[f]) \in S
  BY <1>3, <1>4 DEF Leads
<1>6. Leads(Live)
  BY <1>1, <1>2, <1>3, <1>4 DEF Leads, AddressesRight
<1>7. Led \in SUBSET Live
  BY <1>2, <1>5, <1>6, LedCloses
<1>8. Leads(Led)
  BY <1>5, <1>7, LedCloses
<1>9. \A S \in SUBSET Live : Leads(S) => Led \subseteq S
  BY <1>2, <1>5, LedCloses
<1>10. {AddressOf(l) : l \in Led} = Led
  BY <1>1, <1>7 DEF AddressesRight
<1>11. \A l \in Led : l # Lost
  <2>1. \A l \in Locs : l # Lost
    BY LocFacts DEF Lost
  <2>. QED
    BY <1>2, <1>7, <2>1
<1>12. GraphMember = [l \in Led |-> [f \in Members |-> To(l, f)]]
  BY <1>10, <1>11 DEF GraphMember, To
<1>. QED
  BY <1>7, <1>8, <1>9, <1>12 DEF LedRight

-----------------------------------------------------------------------------
(***************************************************************************)
(* What a step has to do to be one of the object graph.                    *)
(***************************************************************************)
\* Objects m are those of the heap in D, and these are enough.
Shows(D, m) ==
    /\ D \in SUBSET Live
    /\ DOMAIN m = D
    /\ \A i \in D : m[i] = [f \in Members |-> To(i, f)]
    /\ \A i \in D, f \in Members : To(i, f) \in D \union {Null}
    /\ \A x \in Vars : GraphVar[x] \in D \union {Null}

(* The program goes on with variables v and objects m if these are what    *)
(* the heap says of the objects m has, and m has all that is reached.      *)
LEMMA BecomeFacts ==
  ASSUME IInv', NEW D, NEW m, Shows(D, m)', NEW v, v = GraphVar'
  PROVE  GraphVar' = v /\ GraphMember' = Graph!Restrict(m, Graph!Reached(v, m))
<1>1. /\ D \in SUBSET Live' /\ DOMAIN m = D
      /\ \A i \in D : m[i] = [f \in Members |-> To(i, f)']
      /\ \A i \in D, f \in Members : To(i, f)' \in D \union {Null}
      /\ \A x \in Vars : GraphVar'[x] \in D \union {Null}
  BY DEF Shows
<1>. DEFINE R == ReachedIn(v, m, Members, Null)
<1>2. LedRight' /\ Live' \in SUBSET Locs
  <2>1. LedRight' /\ AddressesRight'
    BY LedIsRight, AddressFollows, PTL
  <2>. QED
    BY <2>1 DEF AddressesRight
<1>3. DOMAIN v = Vars /\ \A x \in Vars : v[x] = GraphVar'[x]
  BY DEF GraphVar
<1>4. \A i \in D, f \in Members : m[i][f] = To(i, f)'
  BY <1>1
<1>5. Closed(m, D, Members, Null) /\ IsFiniteSet(D)
  BY <1>1, <1>2, <1>4, LocsFinite, FS_Subset DEF Closed
<1>6. /\ R \in SUBSET D
      /\ \A x \in Vars : v[x] # Null => v[x] \in R
      /\ \A i \in R, f \in Members : m[i][f] # Null => m[i][f] \in R
      /\ \A C \in SUBSET D :
           /\ \A x \in Vars : v[x] # Null => v[x] \in C
           /\ \A i \in C, f \in Members : m[i][f] # Null => m[i][f] \in C
           => R \subseteq C
  BY <1>1, <1>3, <1>5, ReachedFacts
<1>7. Led' \in SUBSET Live' /\ Leads(Led)' /\ \A S \in SUBSET Live' : Leads(S)' => Led' \subseteq S
  BY <1>2 DEF LedRight
<1>. HIDE DEF R
<1>8. Led' \subseteq R
  <2>1. Leads(R)'
    BY <1>1, <1>3, <1>4, <1>6 DEF Leads
  <2>. QED
    BY <1>1, <1>6, <1>7, <2>1
<1>9. R \subseteq Led'
  <2>1. Led' \in SUBSET D
    BY <1>6, <1>8
  <2>2. \A x \in Vars : v[x] # Null => v[x] \in Led'
    BY <1>3, <1>7 DEF Leads
  <2>3. \A i \in Led', f \in Members : m[i][f] # Null => m[i][f] \in Led'
    BY <1>4, <1>7, <2>1 DEF Leads
  <2>. QED
    BY <1>6, <2>1, <2>2, <2>3
<1>10. GraphMember' = [i \in R |-> m[i]]
  <2>1. R = Led'
    BY <1>8, <1>9
  <2>2. GraphMember' = [l \in R |-> [f \in Members |-> To(l, f)']]
    BY <1>2, <2>1 DEF LedRight
  <2>. QED
    BY <1>1, <1>6, <2>2
<1>11. R = Graph!Reached(v, m)
  BY SMT DEF R, ReachedIn, Graph!Reached, Range, Graph!Range
<1>12. GraphMember' = Graph!Restrict(m, Graph!Reached(v, m))
  BY <1>10, <1>11 DEF Graph!Restrict
<1>. QED
  BY <1>12

(* The graph is one, of the objects led to.                                *)
LEMMA LedIsGraph == IInv => IsGraph(Vars, Members, Null, GraphVar, GraphMember, Led)
<1>. SUFFICES ASSUME IInv PROVE IsGraph(Vars, Members, Null, GraphVar, GraphMember, Led)
  OBVIOUS
<1>1. LedRight /\ Live \in SUBSET Locs /\ Null \notin Live
  BY LedIsRight, AddressFollows DEF AddressesRight
<1>2. IsFiniteSet(Led)
  BY <1>1, LocsFinite, FS_Subset DEF LedRight
<1>3. /\ DOMAIN GraphMember = Led
      /\ \A l \in Led, f \in Members : GraphMember[l][f] = To(l, f)
  BY <1>1 DEF LedRight
<1>4. \A x \in Vars : GraphVar[x] \in Led \union {Null}
  BY <1>1 DEF LedRight, Leads
<1>5. Closed(GraphMember, Led, Members, Null)
  BY <1>1, <1>3 DEF LedRight, Leads, Closed
<1>6. ASSUME NEW S \in SUBSET Led,
             \A x \in Vars : GraphVar[x] # Null => GraphVar[x] \in S,
             \A l \in S, f \in Members : GraphMember[l][f] # Null => GraphMember[l][f] \in S
      PROVE  Led \subseteq S
  <2>1. Leads(S)
    BY <1>3, <1>6 DEF Leads
  <2>. QED
    BY <1>1, <2>1 DEF LedRight
<1>. QED
  BY <1>1, <1>2, <1>3, <1>4, <1>5, <1>6 DEF IsGraph, LedRight

(* Objects move if each has a new place of its own, and every pointer      *)
(* leads to the new place of what it led to.                               *)
LEMMA MoveFacts ==
  ASSUME IInv, IInv', NEW r, \A i \in Led : r[i] # Null, \A i, j \in Led : r[i] = r[j] => i = j,
         \A x \in Vars : GraphVar'[x] = Renamed(r, Null, GraphVar[x]),
         \A i \in Led, f \in Members :
            r[i] \in Led' => To(r[i], f)' = Renamed(r, Null, To(i, f))
  PROVE  Graph!Move
<1>1. /\ IsGraph(Vars, Members, Null, GraphVar, GraphMember, Led)
      /\ IsGraph(Vars, Members, Null, GraphVar', GraphMember', Led')
  <2>1. IsGraph(Vars, Members, Null, GraphVar, GraphMember, Led)'
    BY LedIsGraph, PTL
  <2>. QED
    BY <2>1, LedIsGraph
<1>2. LedRight /\ LedRight' /\ Live' \in SUBSET Locs
  <2>1. LedRight' /\ AddressesRight'
    BY LedIsRight, AddressFollows, PTL
  <2>. QED
    BY <2>1, LedIsRight DEF AddressesRight
<1>3. \A i \in Led, f \in Members :
         r[i] \in Led' => GraphMember'[r[i]][f] = Renamed(r, Null, GraphMember[i][f])
  BY <1>2 DEF LedRight
<1>4. PICK L, v, old, M, w, new :
        /\ L = Led /\ v = GraphVar /\ old = GraphMember
        /\ M = Led' /\ w = GraphVar' /\ new = GraphMember'
  OBVIOUS
<1>5. /\ IsGraph(Vars, Members, Null, v, old, L)
      /\ IsGraph(Vars, Members, Null, w, new, M)
      /\ \A i \in L : r[i] # Null
      /\ \A i, j \in L : r[i] = r[j] => i = j
      /\ \A x \in Vars : w[x] = Renamed(r, Null, v[x])
      /\ \A i \in L, f \in Members : r[i] \in M => new[r[i]][f] = Renamed(r, Null, old[i][f])
  BY <1>1, <1>3, <1>4
<1>. DEFINE P == CounterpartsIn(Vars, Members, Null, v, w, old, new)
<1>6. /\ Cardinality(M) = Cardinality(L)
      /\ \A x \in Vars : v[x] = Null <=> w[x] = Null
      /\ \A p, q \in P : (p[1] = q[1] <=> p[2] = q[2]) /\ (p[1] = Null <=> p[2] = Null)
  BY <1>5, RenamingFacts
<1>7. /\ Cardinality(DOMAIN new) = Cardinality(DOMAIN old)
      /\ DOMAIN new \subseteq Locs
  BY <1>2, <1>4, <1>5, <1>6 DEF IsGraph, LedRight
<1>8. P = Graph!Counterparts
  BY <1>4, SMT DEF CounterpartsIn, Graph!Counterparts, GraphVar, GraphMember
<1>. HIDE DEF P
<1>9. \A S : Graph!Cardinality(S) = Cardinality(S)
  BY SMT DEF Graph!Cardinality, Cardinality
<1>10. /\ \A x \in Vars : GraphVar[x] = Null <=> GraphVar'[x] = Null
       /\ DOMAIN GraphMember' \subseteq Locs
       /\ Graph!Cardinality(DOMAIN GraphMember') = Graph!Cardinality(DOMAIN GraphMember)
       /\ \A p, q \in Graph!Counterparts :
            (p[1] = q[1] <=> p[2] = q[2]) /\ (p[1] = Null <=> p[2] = Null)
  BY <1>4, <1>6, <1>7, <1>8, <1>9
<1>. QED
  BY <1>10 DEF Graph!Move, GraphVar, GraphMember

-----------------------------------------------------------------------------
(***************************************************************************)
(* The program's steps.                                                    *)
(***************************************************************************)
\* While the program runs, nothing is forwarded.
RunRight ==
    phase = "run" =>
        /\ Live = Objects
        /\ \A x \in Vars : GraphVar[x] = var[x]
        /\ \A l \in Objects, f \in Members : To(l, f) = heap[l].to[f]

(* So that the graph has the very pointers of the heap.                    *)
LEMMA RunIsRight == IInv => RunRight
<1>. SUFFICES ASSUME IInv, phase = "run" PROVE RunRight
  BY DEF RunRight
<1>1. AddressesRight /\ PointersInv /\ ForwardInv
  BY AddressFollows DEF IInv
<1>2. Live = Objects
  BY <1>1 DEF ForwardInv, Live
<1>3. \A l \in Objects \union {Null} : AddressOf(l) = l
  BY <1>1, <1>2 DEF AddressesRight
<1>. QED
  BY <1>1, <1>2, <1>3 DEF RunRight, AddressesRight, PointersInv, To

(* Both before and after a step of the program.                            *)
LEMMA RunFacts ==
  ASSUME IInv, IInv', phase = "run", phase' = "run"
  PROVE  /\ Objects \subseteq Locs /\ Null \notin Objects
         /\ Led \subseteq Objects
         /\ DOMAIN GraphMember = Led
         /\ \A l \in Led : GraphMember[l] = [f \in Members |-> heap[l].to[f]]
         /\ \A l \in Led, f \in Members : heap[l].to[f] \in Led \union {Null}
         /\ GraphVar \in [Vars -> Led \union {Null}]
         /\ \A x \in Vars : GraphVar[x] = var[x]
         /\ Live' = Objects'
         /\ GraphVar' = [x \in Vars |-> var'[x]]
         /\ \A l \in Objects', f \in Members : To(l, f)' = heap'[l].to[f]
<1>1. AddressesRight /\ LedRight /\ RunRight
  BY AddressFollows, LedIsRight, RunIsRight
<1>2. RunRight'
  BY RunIsRight, PTL
<1>3. /\ Live = Objects /\ \A x \in Vars : GraphVar[x] = var[x]
      /\ \A l \in Objects, f \in Members : To(l, f) = heap[l].to[f]
      /\ Live' = Objects' /\ \A x \in Vars : GraphVar'[x] = var'[x]
      /\ \A l \in Objects', f \in Members : To(l, f)' = heap'[l].to[f]
  BY <1>1, <1>2 DEF RunRight
<1>4. GraphVar' = [x \in Vars |-> var'[x]]
  BY <1>3 DEF GraphVar
<1>5. Led \subseteq Objects /\ Objects \subseteq Locs /\ Null \notin Objects
  BY <1>1, <1>3 DEF LedRight, AddressesRight
<1>6. GraphMember = [l \in Led |-> [f \in Members |-> heap[l].to[f]]]
  <2>1. GraphMember = [l \in Led |-> [f \in Members |-> To(l, f)]]
    BY <1>1 DEF LedRight
  <2>. QED
    BY <1>3, <1>5, <2>1
<1>7. \A l \in Led, f \in Members : heap[l].to[f] \in Led \union {Null}
  BY <1>1, <1>3, <1>5 DEF LedRight, Leads
<1>8. GraphVar \in [Vars -> Led \union {Null}]
  BY <1>1 DEF LedRight, Leads, GraphVar
<1>. QED
  BY <1>3, <1>4, <1>5, <1>6, <1>7, <1>8

(* A new object is one nothing refers to yet.                              *)
LEMMA NewGraph ==
  ASSUME IInv, IInv', NEW x \in Vars, New(x)
  PROVE  \E i \in Locs : Graph!New(x, i)
<1>. PICK L : L = FreeLoc(0)
  OBVIOUS
<1>1. Types /\ PoolsInv /\ 0 \in Gens /\ phase = "run" /\ phase' = "run"
  BY SizesAssumption DEF IInv, New, Gens
<1>2. L \in Locs /\ L # Null /\ Objects' = Objects \union {L} /\ L \notin Objects
  BY <1>1, RoomFacts, TakeFacts, LocFacts DEF New
<1>3. heap' = [heap EXCEPT ![L] = NewObject] /\ var' = [var EXCEPT ![x] = L]
  BY DEF New
<1>4. \A l \in Locs : heap'[l] = IF l = L THEN NewObject ELSE heap[l]
  BY <1>1, <1>3 DEF Types
<1>5. /\ Objects \subseteq Locs /\ Null \notin Objects
      /\ Led \subseteq Objects
      /\ DOMAIN GraphMember = Led
      /\ \A l \in Led : GraphMember[l] = [f \in Members |-> heap[l].to[f]]
      /\ \A l \in Led, f \in Members : heap[l].to[f] \in Led \union {Null}
      /\ GraphVar \in [Vars -> Led \union {Null}]
      /\ \A y \in Vars : GraphVar[y] = var[y]
      /\ Live' = Objects'
      /\ GraphVar' = [y \in Vars |-> var'[y]]
      /\ \A l \in Objects', f \in Members : To(l, f)' = heap'[l].to[f]
  BY <1>1, RunFacts
<1>6. PICK v : v = [GraphVar EXCEPT ![x] = L]
  OBVIOUS
<1>7. PICK m : m = [j \in DOMAIN GraphMember \union {L} |->
                      IF j = L THEN [f \in Members |-> Null] ELSE GraphMember[j]]
  OBVIOUS
<1>8. v = GraphVar' /\ \A y \in Vars : GraphVar'[y] \in Led \union {L, Null}
  <2>1. \A y \in Vars : var'[y] = IF y = x THEN L ELSE var[y]
    BY <1>1, <1>3 DEF Types
  <2>2. \A y \in Vars : GraphVar'[y] = var'[y] /\ GraphVar[y] = var[y] /\ GraphVar[y] \in Led \union {Null}
    BY <1>5
  <2>3. v = [y \in Vars |-> IF y = x THEN L ELSE GraphVar[y]]
    BY <1>5, <1>6
  <2>4. GraphVar' = [y \in Vars |-> IF y = x THEN L ELSE GraphVar[y]]
    BY <1>5, <2>1, <2>2
  <2>. QED
    BY <2>1, <2>2, <2>3, <2>4
<1>9. ASSUME NEW i \in Led \union {L}
      PROVE  /\ m[i] = [f \in Members |-> To(i, f)']
             /\ \A f \in Members : To(i, f)' \in Led \union {L, Null}
  <2>1. \A f \in Members : To(i, f)' = heap'[i].to[f]
    BY <1>2, <1>5
  <2>2. CASE i = L
    <3>1. \A f \in Members : To(i, f)' = Null
      BY <1>2, <1>4, <2>1, <2>2, SlotFacts
    <3>2. m[i] = [f \in Members |-> Null]
      BY <1>7, <2>2
    <3>. QED
      BY <3>1, <3>2
  <2>3. CASE i # L
    <3>1. i \in Led /\ i \in Locs /\ heap'[i] = heap[i]
      BY <1>4, <1>5, <2>3
    <3>2. m[i] = [f \in Members |-> heap[i].to[f]]
      BY <1>5, <1>7, <2>3, <3>1
    <3>. QED
      BY <1>5, <2>1, <3>1, <3>2
  <2>. QED
    BY <2>2, <2>3
<1>10. GraphVar' = v /\ GraphMember' = Graph!Restrict(m, Graph!Reached(v, m))
  <2>. PICK D : D = Led \union {L}
    OBVIOUS
  <2>1. D \in SUBSET Live' /\ DOMAIN m = D
    BY <1>2, <1>5, <1>7
  <2>2. /\ \A y \in Vars : GraphVar'[y] \in D \union {Null}
        /\ \A i \in D : m[i] = [f \in Members |-> To(i, f)']
        /\ \A i \in D, f \in Members : To(i, f)' \in D \union {Null}
    BY <1>8, <1>9
  <2>3. Shows(D, m)'
    BY <2>1, <2>2 DEF Shows
  <2>. QED
    BY <1>8, <2>3, BecomeFacts
<1>11. L \notin DOMAIN GraphMember
  BY <1>2, <1>5
<1>12. Graph!New(x, L)
  BY <1>6, <1>7, <1>10, <1>11 DEF Graph!New, Graph!Become, GraphVar, GraphMember
<1>. QED
  BY <1>2, <1>12

(* A variable is set to what another pointer that was reached leads to.    *)
LEMMA SetVarGraph ==
  ASSUME IInv, IInv', NEW x \in Vars, NEW l \in Led \union {Null}, SetVar(x, l),
         NEW m, m = GraphMember, NEW v, v = [GraphVar EXCEPT ![x] = l]
  PROVE  GraphVar' = v /\ GraphMember' = Graph!Restrict(m, Graph!Reached(v, m))
<1>1. /\ phase = "run" /\ phase' = "run" /\ heap' = heap /\ Objects' = Objects
      /\ var' = [var EXCEPT ![x] = l] /\ var \in [Vars -> Locs \union {Null}]
  BY SameObjects DEF SetVar, lists, IInv, Types
<1>2. /\ Led \subseteq Objects
      /\ DOMAIN GraphMember = Led
      /\ \A i \in Led : GraphMember[i] = [f \in Members |-> heap[i].to[f]]
      /\ \A i \in Led, f \in Members : heap[i].to[f] \in Led \union {Null}
      /\ GraphVar \in [Vars -> Led \union {Null}]
      /\ \A y \in Vars : GraphVar[y] = var[y]
      /\ Live' = Objects'
      /\ GraphVar' = [y \in Vars |-> var'[y]]
      /\ \A i \in Objects', f \in Members : To(i, f)' = heap'[i].to[f]
  BY <1>1, RunFacts
<1>3. v = GraphVar' /\ \A y \in Vars : GraphVar'[y] \in Led \union {Null}
  <2>1. \A y \in Vars : var'[y] = IF y = x THEN l ELSE var[y]
    BY <1>1
  <2>2. \A y \in Vars : GraphVar'[y] = var'[y] /\ GraphVar[y] = var[y] /\ GraphVar[y] \in Led \union {Null}
    BY <1>2
  <2>3. v = [y \in Vars |-> IF y = x THEN l ELSE GraphVar[y]]
    BY <1>2
  <2>4. GraphVar' = [y \in Vars |-> IF y = x THEN l ELSE GraphVar[y]]
    BY <1>2, <2>1, <2>2
  <2>. QED
    BY <2>1, <2>2, <2>3, <2>4
<1>4. ASSUME NEW i \in Led
      PROVE  /\ m[i] = [f \in Members |-> To(i, f)']
             /\ \A f \in Members : To(i, f)' \in Led \union {Null}
  <2>1. \A f \in Members : To(i, f)' = heap[i].to[f]
    BY <1>1, <1>2
  <2>. QED
    BY <1>2, <2>1
<1>5. PICK D : D = Led
  OBVIOUS
<1>6. D \in SUBSET Live' /\ DOMAIN m = D
  BY <1>1, <1>2, <1>5
<1>7. /\ \A i \in D : m[i] = [f \in Members |-> To(i, f)']
      /\ \A i \in D, f \in Members : To(i, f)' \in D \union {Null}
      /\ \A y \in Vars : GraphVar'[y] \in D \union {Null}
  BY <1>3, <1>4, <1>5
<1>8. Shows(D, m)'
  BY <1>6, <1>7 DEF Shows
<1>. QED
  BY <1>3, <1>8, BecomeFacts

(* What variables lead to in a running program.                            *)
LEMMA AssignGraph ==
  ASSUME IInv, IInv', NEW x \in Vars, NEW y \in Vars, Assign(x, y)
  PROVE  Graph!Assign(x, y)
<1>1. phase = "run" /\ phase' = "run"
  BY DEF Assign, SetVar
<1>2. GraphVar[y] = var[y] /\ var[y] \in Led \union {Null}
  BY <1>1, RunFacts
<1>3. PICK l, m, v : l = var[y] /\ m = GraphMember /\ v = [GraphVar EXCEPT ![x] = l]
  OBVIOUS
<1>4. SetVar(x, l)
  BY <1>3 DEF Assign, SetVar
<1>5. GraphVar' = v /\ GraphMember' = Graph!Restrict(m, Graph!Reached(v, m))
  BY <1>2, <1>3, <1>4, SetVarGraph
<1>6. v = [GraphVar EXCEPT ![x] = GraphVar[y]]
  BY <1>2, <1>3
<1>. QED
  BY <1>3, <1>5, <1>6 DEF Graph!Assign, Graph!Become, GraphVar, GraphMember

(* A pointer is taken off the stack.                                       *)
LEMMA ClearGraph ==
  ASSUME IInv, IInv', NEW x \in Vars, Clear(x)
  PROVE  Graph!Clear(x)
<1>1. PICK m, v : m = GraphMember /\ v = [GraphVar EXCEPT ![x] = Null]
  OBVIOUS
<1>2. SetVar(x, Null)
  BY DEF Clear
<1>3. GraphVar' = v /\ GraphMember' = Graph!Restrict(m, Graph!Reached(v, m))
  BY <1>1, <1>2, SetVarGraph
<1>. QED
  BY <1>1, <1>3 DEF Graph!Clear, Graph!Become, GraphVar, GraphMember

(* A member of an object is read.                                          *)
LEMMA ReadGraph ==
  ASSUME IInv, IInv', NEW x \in Vars, NEW y \in Vars, NEW f \in Members, Read(x, y, f)
  PROVE  Graph!Read(x, y, f)
<1>1. phase = "run" /\ phase' = "run" /\ var[y] # Null
  BY DEF Read, SetVar
<1>2. /\ GraphVar[y] = var[y] /\ var[y] \in Led
      /\ GraphMember[var[y]][f] = heap[var[y]].to[f]
      /\ heap[var[y]].to[f] \in Led \union {Null}
  BY <1>1, RunFacts
<1>3. PICK l, m, v : l = heap[var[y]].to[f] /\ m = GraphMember /\ v = [GraphVar EXCEPT ![x] = l]
  OBVIOUS
<1>4. SetVar(x, l)
  BY <1>3 DEF Read, SetVar
<1>5. GraphVar' = v /\ GraphMember' = Graph!Restrict(m, Graph!Reached(v, m))
  BY <1>2, <1>3, <1>4, SetVarGraph
<1>6. v = [GraphVar EXCEPT ![x] = GraphMember[GraphVar[y]][f]] /\ GraphVar[y] # Null
  BY <1>1, <1>2, <1>3
<1>. QED
  BY <1>3, <1>5, <1>6 DEF Graph!Read, Graph!Become, GraphVar, GraphMember

(* A member of an object is written.                                       *)
LEMMA WriteGraph ==
  ASSUME IInv, IInv', NEW x \in Vars, NEW f \in Members, NEW y \in Vars, Write(x, f, y)
  PROVE  Graph!Write(x, f, y)
<1>1. /\ phase = "run" /\ phase' = "run" /\ var' = var /\ Objects' = Objects
      /\ heap' = [heap EXCEPT ![var[x]].to[f] = var[y]]
      /\ heap \in [Locs -> SlotContents] /\ var[x] # Null
  BY SameObjects DEF Write, lists, IInv, Types
<1>2. /\ Objects \subseteq Locs
      /\ Led \subseteq Objects
      /\ DOMAIN GraphMember = Led
      /\ \A i \in Led : GraphMember[i] = [g \in Members |-> heap[i].to[g]]
      /\ \A i \in Led, g \in Members : heap[i].to[g] \in Led \union {Null}
      /\ GraphVar \in [Vars -> Led \union {Null}]
      /\ \A z \in Vars : GraphVar[z] = var[z]
      /\ Live' = Objects'
      /\ GraphVar' = [z \in Vars |-> var'[z]]
      /\ \A i \in Objects', g \in Members : To(i, g)' = heap'[i].to[g]
  BY <1>1, RunFacts
<1>3. GraphVar' = GraphVar
  BY <1>1, <1>2
<1>4. PICK L, w : L = var[x] /\ w = var[y]
  OBVIOUS
<1>5. L \in Led /\ L \in Locs /\ w \in Led \union {Null} /\ GraphVar[x] = L /\ GraphVar[y] = w
  BY <1>1, <1>2, <1>4
<1>6. \A i \in Locs, g \in Members :
         heap'[i].to[g] = IF i = L /\ g = f THEN w ELSE heap[i].to[g]
  <2>1. heap' = [heap EXCEPT ![L].to[f] = w] /\ \A i \in Locs : heap[i] \in SlotContents
    BY <1>1, <1>4
  <2>. QED
    BY <1>1, <1>5, <2>1 DEF SlotContents
<1>7. PICK m, v, D : m = [GraphMember EXCEPT ![L][f] = w] /\ v = GraphVar /\ D = Led
  OBVIOUS
<1>8. ASSUME NEW i \in D
      PROVE  /\ m[i] = [g \in Members |-> To(i, g)']
             /\ \A g \in Members : To(i, g)' \in D \union {Null}
  <2>1. \A g \in Members : To(i, g)' = IF i = L /\ g = f THEN w ELSE heap[i].to[g]
    BY <1>1, <1>2, <1>6, <1>7
  <2>2. m[i] = [g \in Members |-> IF i = L /\ g = f THEN w ELSE heap[i].to[g]]
    <3>1. GraphMember[i] = [g \in Members |-> heap[i].to[g]] /\ i \in DOMAIN GraphMember
      BY <1>2, <1>7
    <3>2. m[i] = IF i = L THEN [GraphMember[i] EXCEPT ![f] = w] ELSE GraphMember[i]
      BY <1>7, <3>1
    <3>. QED
      BY <3>1, <3>2
  <2>3. m[i] = [g \in Members |-> To(i, g)']
    BY <2>1, <2>2
  <2>. QED
    BY <1>2, <1>5, <1>7, <2>1, <2>3
<1>9. /\ D \in SUBSET Live' /\ DOMAIN m = D /\ v = GraphVar'
      /\ \A z \in Vars : GraphVar'[z] \in D \union {Null}
  BY <1>1, <1>2, <1>3, <1>7
<1>10. GraphVar' = v /\ GraphMember' = Graph!Restrict(m, Graph!Reached(v, m))
  <2>1. Shows(D, m)'
    BY <1>8, <1>9 DEF Shows
  <2>. QED
    BY <1>9, <2>1, BecomeFacts
<1>11. m = [GraphMember EXCEPT ![GraphVar[x]][f] = GraphVar[y]] /\ GraphVar[x] # Null
  BY <1>1, <1>4, <1>5, <1>7
<1>. QED
  BY <1>7, <1>10, <1>11 DEF Graph!Write, Graph!Become, GraphVar, GraphMember

(* Every step of the program is one of the graph's.                        *)
LEMMA ProgramGraph ==
  ASSUME IInv, IInv', Program
  PROVE  Graph!Next
<1>. SUFFICES ASSUME NEW x \in Vars, NEW y \in Vars, NEW f \in Members,
                     New(x) \/ Clear(x) \/ Assign(x, y) \/ Read(x, y, f) \/ Write(x, f, y)
              PROVE  Graph!Program
  BY DEF Program, Graph!Next
<1>. QED
  BY NewGraph, ClearGraph, AssignGraph, ReadGraph, WriteGraph DEF Graph!Program

-----------------------------------------------------------------------------
(***************************************************************************)
(* The steps of a collection.                                              *)
(***************************************************************************)
\* What following one step means, and what pointers stand for.
FollowRight ==
    /\ \A l \in Objects :
        /\ GenOf(l) \in 0 .. Generations - 1 /\ l \in Locs /\ l # Null
        /\ heap[l].at = Null => Follow(l) = l
        /\ \A m : heap[l].at = m /\ m # Null =>
             Follow(l) = Follow(m) /\ m \in Objects /\ GenOf(m) > GenOf(l)
    /\ \A l :
        /\ \A x \in Vars : var[x] = l => GraphVar[x] = AddressOf(l) /\ l \in Objects \union {Null}
        /\ \A m \in Objects, f \in Members :
             heap[m].to[f] = l => To(m, f) = AddressOf(l) /\ l \in Objects \union {Null}

(* Forwarding is followed to an older generation.                          *)
LEMMA FollowIsRight == IInv => FollowRight
<1>. SUFFICES ASSUME IInv PROVE FollowRight
  OBVIOUS
<1>1. Types /\ SlotsInv /\ ForwardInv /\ PointersInv /\ Objects \subseteq Locs
  BY ObjectFacts DEF IInv
<1>2. \A l \in Locs : GenOf(l) \in 0 .. Generations - 1 /\ l # Null
  BY LocFacts DEF Gens
<1>3. ASSUME NEW l \in Objects
      PROVE  /\ heap[l].at = Null => Follow(l) = l
             /\ \A m : heap[l].at = m /\ m # Null =>
                  Follow(l) = Follow(m) /\ m \in Objects /\ GenOf(m) > GenOf(l)
  BY <1>1, FollowDefined DEF ForwardInv
<1>4. ASSUME NEW l
      PROVE  /\ \A x \in Vars : var[x] = l => GraphVar[x] = AddressOf(l) /\ l \in Objects \union {Null}
             /\ \A m \in Objects, f \in Members :
                  heap[m].to[f] = l => To(m, f) = AddressOf(l) /\ l \in Objects \union {Null}
  BY <1>1 DEF PointersInv, GraphVar, To
<1>. QED
  BY <1>1, <1>2, <1>3, <1>4 DEF FollowRight

\* What l is called when t is called n.
Other(t, n, l) == IF l = t THEN n ELSE l

\* A pointer p may have been brought up to date.
Updated(t, n, p, q) == q = p \/ (p \in Objects /\ q \in Live' /\ q = Other(t, n, Follow(p)))

\* t, if it is an object, was moved to n, which has its members; nothing else
\* was, and pointers lead where they led or straight to where that leads.
MovedOnly(t, n) ==
    /\ \A l \in Objects : l \in Objects' /\ (l # t => heap'[l].at = heap[l].at)
    /\ \/ t = Null /\ n = Null
       \/ /\ t \in Objects /\ n \in Objects' \ Objects
          /\ heap[t].at = Null /\ heap'[t].at = n
          /\ heap'[n].at = Null /\ heap'[n].to = heap[t].to
    /\ \A x \in Vars : Updated(t, n, var[x], var'[x])
    /\ \A l \in Objects, f \in Members : Updated(t, n, heap[l].to[f], heap'[l].to[f])

(* What was moved to t was moved to n.                                     *)
LEMMA FollowMoves ==
  ASSUME IInv, IInv', NEW t, NEW n, MovedOnly(t, n)
  PROVE  \A l \in Objects : /\ Follow(l)' = Other(t, n, Follow(l))
                            /\ AddressOf(l)' = Other(t, n, AddressOf(l))
<1>. DEFINE T == {k \in Nat : \A l \in Objects \intersect From(k) :
                                 Follow(l)' = Other(t, n, Follow(l))}
<1>1. FollowRight /\ FollowRight' /\ AddressesRight /\ AddressesRight'
  <2>1. FollowRight' /\ AddressesRight'
    BY FollowIsRight, AddressFollows, PTL
  <2>. QED
    BY <2>1, FollowIsRight, AddressFollows
<1>2. /\ \A l \in Objects : /\ GenOf(l) \in 0 .. Generations - 1 /\ l \in Locs /\ l # Null
                            /\ heap[l].at = Null => Follow(l) = l
                            /\ \A m : heap[l].at = m /\ m # Null =>
                                 Follow(l) = Follow(m) /\ m \in Objects /\ GenOf(m) > GenOf(l)
      /\ \A l \in Objects' : /\ l # Null
                             /\ heap'[l].at = Null => Follow(l)' = l
                             /\ \A m : heap'[l].at = m /\ m # Null => Follow(l)' = Follow(m)'
  BY <1>1 DEF FollowRight
<1>3. /\ \A l \in Objects : l \in Objects' /\ (l # t => heap'[l].at = heap[l].at)
      /\ t \in Objects => /\ n \in Objects' /\ heap[t].at = Null /\ heap'[t].at = n
                          /\ heap'[n].at = Null
  BY <1>2 DEF MovedOnly
<1>4. 0 \in T
  BY <1>2, SizesAssumption DEF From
<1>5. ASSUME NEW k \in Nat, k \in T PROVE k + 1 \in T
  <2>. SUFFICES ASSUME NEW l \in Objects \intersect From(k + 1)
                PROVE  Follow(l)' = Other(t, n, Follow(l))
    OBVIOUS
  <2>1. l \in Objects' /\ GenOf(l) >= Generations - (k + 1)
    BY <1>3 DEF From
  <2>2. CASE l = t
    BY <1>2, <1>3, <2>1, <2>2 DEF Other
  <2>3. CASE l # t /\ heap[l].at = Null
    BY <1>2, <1>3, <2>1, <2>3 DEF Other
  <2>4. CASE l # t /\ heap[l].at # Null
    <3>1. PICK m : m = heap[l].at /\ m = heap'[l].at
      BY <1>3, <2>4
    <3>2. m \in Objects /\ GenOf(m) > GenOf(l) /\ Follow(l) = Follow(m) /\ Follow(l)' = Follow(m)'
      BY <1>2, <2>1, <2>4, <3>1
    <3>3. m \in From(k)
      BY <1>2, <2>1, <3>2, SizesAssumption DEF From
    <3>. QED
      BY <1>5, <3>2, <3>3
  <2>. QED
    BY <2>2, <2>3, <2>4
<1>. HIDE DEF T
<1>6. Generations \in T
  BY <1>4, <1>5, NatSetInduction, SizesAssumption
<1>7. \A l \in Objects : l \in From(Generations)
  BY <1>2, SizesAssumption DEF From
<1>8. \A l \in Objects : Follow(l)' = Other(t, n, Follow(l))
  BY <1>6, <1>7 DEF T
<1>9. \A l \in Objects : AddressOf(l) = Follow(l) /\ AddressOf(l)' = Follow(l)'
  BY <1>1, <1>3 DEF AddressesRight
<1>. QED
  BY <1>8, <1>9

(* So the graph is the same, but for the address of what was moved.        *)
LEMMA MovedGraph ==
  ASSUME IInv, IInv', NEW t, NEW n, MovedOnly(t, n)
  PROVE  Graph!Move
<1>1. FollowRight /\ FollowRight' /\ AddressesRight /\ AddressesRight' /\ LedRight
  <2>1. FollowRight' /\ AddressesRight'
    BY FollowIsRight, AddressFollows, PTL
  <2>. QED
    BY <2>1, FollowIsRight, AddressFollows, LedIsRight
<1>2. /\ \A l \in Objects : l # Null /\ AddressOf(l) = Follow(l)
      /\ \A l \in Live' : AddressOf(l)' = l
      /\ AddressOf(Null) = Null /\ AddressOf(Null)' = Null
      /\ Led \subseteq Objects /\ \A l \in Led : heap[l].at = Null
      /\ Live \subseteq Objects
      /\ \A l \in Objects' : l # Null
  BY <1>1 DEF FollowRight, AddressesRight, LedRight, Live
<1>3. /\ \A l \in Objects : l \in Objects'
      /\ \/ t = Null /\ n = Null
         \/ /\ t \in Objects /\ n \in Objects' /\ n \notin Objects
            /\ heap'[n].to = heap[t].to
  BY DEF MovedOnly
<1>4. \A l \in Objects \union {Null} : AddressOf(l)' = Other(t, n, AddressOf(l))
  <2>1. \A l \in Objects : AddressOf(l)' = Other(t, n, AddressOf(l))
    BY FollowMoves
  <2>2. Null = Other(t, n, Null)
    BY <1>2, <1>3 DEF Other
  <2>. QED
    BY <1>2, <2>1, <2>2
<1>5. ASSUME NEW p \in Objects \union {Null}, NEW q, Updated(t, n, p, q)
      PROVE  AddressOf(q)' = Other(t, n, AddressOf(p))
  <2>1. CASE q = p
    BY <1>4, <2>1
  <2>2. CASE p \in Objects /\ q \in Live' /\ q = Other(t, n, Follow(p))
    BY <1>2, <2>2
  <2>. QED
    BY <1>5, <2>1, <2>2 DEF Updated
<1>6. ASSUME NEW x \in Vars PROVE GraphVar'[x] = Other(t, n, GraphVar[x])
  <2>1. PICK p, q : p = var[x] /\ q = var'[x]
    OBVIOUS
  <2>2. GraphVar[x] = AddressOf(p) /\ p \in Objects \union {Null} /\ GraphVar'[x] = AddressOf(q)'
    BY <1>1, <2>1 DEF FollowRight
  <2>3. Updated(t, n, p, q)
    BY <2>1 DEF MovedOnly, Updated
  <2>. QED
    BY <1>5, <2>2, <2>3
<1>7. ASSUME NEW l \in Objects, NEW f \in Members PROVE To(l, f)' = Other(t, n, To(l, f))
  <2>1. PICK p, q : p = heap[l].to[f] /\ q = heap'[l].to[f]
    OBVIOUS
  <2>2. To(l, f) = AddressOf(p) /\ p \in Objects \union {Null} /\ To(l, f)' = AddressOf(q)'
    BY <1>1, <1>3, <2>1 DEF FollowRight
  <2>3. Updated(t, n, p, q)
    BY <2>1 DEF MovedOnly, Updated
  <2>. QED
    BY <1>5, <2>2, <2>3
<1>8. ASSUME t \in Objects, NEW f \in Members PROVE To(n, f)' = Other(t, n, To(t, f))
  <2>1. PICK p : p = heap[t].to[f] /\ p = heap'[n].to[f]
    BY <1>2, <1>3, <1>8
  <2>2. To(t, f) = AddressOf(p) /\ p \in Objects \union {Null} /\ To(n, f)' = AddressOf(p)'
    BY <1>1, <1>2, <1>3, <1>8, <2>1 DEF FollowRight
  <2>. QED
    BY <1>4, <2>2
<1>9. PICK r : r = [i \in Led |-> Other(t, n, i)]
  OBVIOUS
<1>10. \A i \in Led : r[i] # Null
  BY <1>2, <1>3, <1>9 DEF Other
<1>11. \A i, j \in Led : r[i] = r[j] => i = j
  BY <1>2, <1>3, <1>9 DEF Other
<1>12. \A l \in Led \union {Null} : Renamed(r, Null, l) = Other(t, n, l)
  BY <1>2, <1>3, <1>9 DEF Renamed, Other
<1>13. /\ \A x \in Vars : GraphVar[x] \in Led \union {Null}
       /\ \A l \in Led, f \in Members : To(l, f) \in Led \union {Null}
  BY <1>1 DEF LedRight, Leads
<1>14. \A x \in Vars : GraphVar'[x] = Renamed(r, Null, GraphVar[x])
  BY <1>6, <1>12, <1>13
<1>15. ASSUME NEW i \in Led, NEW f \in Members
       PROVE  To(r[i], f)' = Renamed(r, Null, To(i, f))
  <2>1. Renamed(r, Null, To(i, f)) = Other(t, n, To(i, f))
    BY <1>12, <1>13
  <2>2. PICK k : k = r[i]
    OBVIOUS
  <2>3. To(k, f)' = Other(t, n, To(i, f))
    <3>1. CASE i = t
      <4>1. k = n
        BY <1>9, <2>2, <3>1 DEF Other
      <4>. QED
        BY <1>2, <1>8, <3>1, <4>1
    <3>2. CASE i # t
      <4>1. k = i
        BY <1>9, <2>2, <3>2 DEF Other
      <4>. QED
        BY <1>2, <1>7, <4>1
    <3>. QED
      BY <3>1, <3>2
  <2>. QED
    BY <2>1, <2>2, <2>3
<1>. QED
  BY <1>10, <1>11, <1>14, <1>15, MoveFacts

(* Where a pointer is stored, it is one that leads to what is stored.      *)
LEMMA StoreGraph ==
  ASSUME IInv, IInv', toSearch # <<>>, Value(Top) # Null,
         NEW t, NEW n, NEW w, w = Other(t, n, Target), w \in Live',
         \A l \in Objects : l \in Objects' /\ (l # t => heap'[l].at = heap[l].at),
         \/ t = Null /\ n = Null
         \/ /\ t \in Objects /\ n \in Objects' \ Objects
            /\ heap[t].at = Null /\ heap'[t].at = n
            /\ heap'[n].at = Null /\ heap'[n].to = heap[t].to,
         \A x \in Vars : var'[x] = IF Top = VarAt(x) THEN w ELSE var[x],
         \A l \in Objects, f \in Members :
            heap'[l].to[f] = IF Top = MemberAt(l, f) THEN w ELSE heap[l].to[f]
  PROVE  Graph!Move
<1>1. /\ \A x \in Vars : Top = VarAt(x) => Value(Top) = var[x]
      /\ \A l \in Locs, f \in Members : Top = MemberAt(l, f) => Value(Top) = heap[l].to[f]
  BY TopFacts
<1>2. PointersInv /\ Objects \subseteq Locs
  BY ObjectFacts DEF IInv
<1>3. \A x \in Vars : Updated(t, n, var[x], var'[x])
  BY <1>1, <1>2 DEF Updated, PointersInv, Target
<1>4. \A l \in Objects, f \in Members : Updated(t, n, heap[l].to[f], heap'[l].to[f])
  BY <1>1, <1>2 DEF Updated, PointersInv, Target
<1>5. MovedOnly(t, n)
  BY <1>3, <1>4 DEF MovedOnly
<1>. QED
  BY <1>5, MovedGraph

(* Bringing a pointer up to date moves nothing.                            *)
LEMMA TargetGraph ==
  ASSUME IInv, IInv', toSearch # <<>>, Value(Top) # Null, used' = used,
         NEW h \in [Locs -> SlotContents], Store(Top, Target, h),
         \A l \in Locs : h[l].at = heap[l].at /\ h[l].to = heap[l].to
  PROVE  Graph!Move
<1>1. Top \in Addresses /\ Target \in Objects /\ Target \in Locs /\ heap[Target].at = Null
  BY TopFacts
<1>2. Objects' = Objects /\ Objects \subseteq Locs
  BY SameObjects, ObjectFacts DEF IInv
<1>3. PICK w : w = Target
  OBVIOUS
<1>4. /\ \A x \in Vars : var'[x] = IF Top = VarAt(x) THEN w ELSE var[x]
      /\ \A l \in Locs : heap'[l].at = heap[l].at
      /\ \A l \in Locs, f \in Members :
           heap'[l].to[f] = IF Top = MemberAt(l, f) THEN w ELSE heap[l].to[f]
  <2>1. var \in [Vars -> Locs \union {Null}] /\ Store(Top, w, h)
    BY <1>3 DEF IInv, Types
  <2>. HIDE DEF Target, Top, Store
  <2>2. /\ \A x \in Vars : var'[x] = IF Top = VarAt(x) THEN w ELSE var[x]
        /\ \A l \in Locs : heap'[l].at = h[l].at
        /\ \A l \in Locs, f \in Members :
             heap'[l].to[f] = IF Top = MemberAt(l, f) THEN w ELSE h[l].to[f]
    BY <1>1, <1>3, <2>1, StoreFacts
  <2>. QED
    BY <2>2
<1>5. w \in Live' /\ w = Other(Null, Null, Target)
  BY <1>1, <1>2, <1>3, <1>4, LocFacts DEF Live, Other
<1>. QED
  BY <1>2, <1>4, <1>5, StoreGraph

(* Which is all that is done to old objects, ...                           *)
LEMMA KeepOldGraph == IInv /\ IInv' /\ KeepOld => Graph!Move
<1>. SUFFICES ASSUME IInv, IInv', KeepOld PROVE Graph!Move
  OBVIOUS
<1>1. toSearch # <<>> /\ Value(Top) # Null /\ used' = used /\ Store(Top, Target, heap)
  BY DEF KeepOld, Searching, lists
<1>2. heap \in [Locs -> SlotContents]
  BY DEF IInv, Types
<1>. QED
  BY <1>1, <1>2, TargetGraph

(* ... when there is no room for a copy ...                                *)
LEMMA PromoteFailsGraph == IInv /\ IInv' /\ PromoteFails => Graph!Move
<1>. SUFFICES ASSUME IInv, IInv', PromoteFails PROVE Graph!Move
  OBVIOUS
<1>1. toSearch # <<>> /\ Value(Top) # Null /\ used' = used /\ Store(Top, Target, heap)
  BY DEF PromoteFails, Searching, Exhaust
<1>2. heap \in [Locs -> SlotContents]
  BY DEF IInv, Types
<1>. QED
  BY <1>1, <1>2, TargetGraph

(* ... and, but for the mark, in a full collection.                        *)
LEMMA MarkGraph == IInv /\ IInv' /\ Mark => Graph!Move
<1>. SUFFICES ASSUME IInv, IInv', Mark PROVE Graph!Move
  OBVIOUS
<1>1. toSearch # <<>> /\ Value(Top) # Null /\ used' = used
  BY DEF Mark, Searching, lists
<1>2. heap \in [Locs -> SlotContents] /\ \A l \in Locs : heap[l] \in SlotContents
  BY DEF IInv, Types
<1>3. PICK h : /\ h \in [Locs -> SlotContents] /\ Store(Top, Target, h)
               /\ \A l \in Locs : h[l].at = heap[l].at /\ h[l].to = heap[l].to
  <2>1. CASE heap[Target].marked
    BY <1>2, <2>1 DEF Mark
  <2>2. CASE ~heap[Target].marked
    <3>1. Target \in Locs
      BY <1>1, TopFacts
    <3>2. PICK g : g = [heap EXCEPT ![Target].marked = TRUE]
      OBVIOUS
    <3>3. Store(Top, Target, g)
      BY <2>2, <3>2 DEF Mark
    <3>. HIDE DEF Target
    <3>4. g \in [Locs -> SlotContents] /\ \A l \in Locs : g[l].at = heap[l].at /\ g[l].to = heap[l].to
      BY <1>2, <3>1, <3>2 DEF SlotContents
    <3>. QED
      BY <3>3, <3>4
  <2>. QED
    BY <2>1, <2>2
<1>. QED
  BY <1>1, <1>3, TargetGraph

(* A promotion moves one object.                                           *)
LEMMA PromoteGraph == IInv /\ IInv' /\ Promote => Graph!Move
<1>. SUFFICES ASSUME IInv, IInv', Promote PROVE Graph!Move
  OBVIOUS
<1>1. PICK L, T, h : L = FreeLoc(gen + 1) /\ T = Target /\ h = Copied(L, T)
  OBVIOUS
<1>2. /\ toSearch # <<>> /\ phase = "copy" /\ Value(Top) # Null
      /\ GenOf(T) <= gen /\ HasRoom(gen + 1) /\ Take(gen + 1)
      /\ Store(Top, L, h)
  BY <1>1 DEF Promote, Searching, Copied
<1>3. Types /\ PoolsInv /\ SlotsInv /\ gen + 1 \in Gens /\ gen \in Nat /\ Objects \subseteq Locs
  <2>1. Types /\ PoolsInv /\ SlotsInv /\ PhaseInv
    BY DEF IInv
  <2>2. gen + 1 \in Gens /\ gen \in Nat
    BY <1>2, <2>1, SizesAssumption DEF Types, PhaseInv, Gens
  <2>. QED
    BY <2>1, <2>2, ObjectFacts
<1>4. /\ Top \in Addresses
      /\ \A l \in Locs, f \in Members : Top = MemberAt(l, f) => l \in Objects
      /\ T \in Objects /\ T \in Locs /\ heap[T].at = Null
  BY <1>1, <1>2, TopFacts
<1>5. /\ L \in Locs /\ L[1] = gen + 1 /\ L[3] = used[PoolOf(L)]
      /\ Objects' = Objects \union {L} /\ L \notin Objects
  BY <1>1, <1>2, <1>3, RoomFacts, TakeFacts
<1>6. L # T /\ PoolOf(T) # PoolOf(L)
  BY <1>2, <1>3, <1>4, <1>5, LocFacts
<1>7. /\ h \in [Locs -> SlotContents]
      /\ h[L] = heap[T] /\ h[T].at = L /\ h[T].to = heap[T].to
      /\ \A m \in Locs : m # L /\ m # T =>
           h[m] = IF PoolOf(m) = PoolOf(L) /\ m[3] = L[3] + 1 THEN Cleared ELSE heap[m]
  <2>1. heap \in [Locs -> SlotContents]
    BY <1>3 DEF Types
  <2>. QED
    BY <1>1, <1>4, <1>5, <1>6, <2>1, CopyFacts
<1>8. ASSUME NEW m \in Objects
      PROVE  m # L /\ h[m].to = heap[m].to /\ (m # T => h[m].at = heap[m].at)
  <2>1. m \in Locs /\ m[3] < used[PoolOf(m)] /\ m[3] \in Nat /\ L[3] \in Nat
    BY <1>3, <1>5, ObjectFacts, LocFacts
  <2>2. m # L /\ ~(PoolOf(m) = PoolOf(L) /\ m[3] = L[3] + 1)
    BY <1>5, <2>1
  <2>. QED
    BY <1>7, <2>1, <2>2
<1>9. /\ \A x \in Vars : var'[x] = IF Top = VarAt(x) THEN L ELSE var[x]
      /\ \A m \in Locs : /\ heap'[m].at = h[m].at
                         /\ (\A f \in Members : Top # MemberAt(m, f)) => heap'[m] = h[m]
      /\ \A m \in Locs, f \in Members :
           heap'[m].to[f] = IF Top = MemberAt(m, f) THEN L ELSE h[m].to[f]
  <2>1. var \in [Vars -> Locs \union {Null}]
    BY <1>3 DEF Types
  <2>. QED
    BY <1>2, <1>4, <1>5, <1>7, <2>1, StoreFacts
<1>10. heap'[L] = heap[T]
  BY <1>4, <1>5, <1>7, <1>9
<1>11. L \in Live' /\ L = Other(T, L, Target)
  BY <1>1, <1>4, <1>5, <1>10 DEF Live, Other
<1>12. /\ \A m \in Objects : m \in Objects' /\ (m # T => heap'[m].at = heap[m].at)
       /\ heap'[T].at = L /\ heap'[L].at = Null /\ heap'[L].to = heap[T].to
       /\ \A m \in Objects, f \in Members :
            heap'[m].to[f] = IF Top = MemberAt(m, f) THEN L ELSE heap[m].to[f]
  BY <1>3, <1>4, <1>5, <1>7, <1>8, <1>9, <1>10
<1>. QED
  BY <1>2, <1>4, <1>5, <1>9, <1>11, <1>12, StoreGraph

(* Nothing moves if pointers and objects are as they were.                 *)
LEMMA SameGraph ==
  ASSUME IInv, IInv', UNCHANGED <<var, heap, used>>
  PROVE  Graph!Move
<1>1. Objects' = Objects
  BY SameObjects
<1>2. MovedOnly(Null, Null)
  BY <1>1 DEF MovedOnly, Updated
<1>. QED
  BY <1>2, MovedGraph

(* What has been copied is no longer led to by then.                       *)
LEMMA EndCopyGraph == IInv /\ IInv' /\ EndCopy => Graph!Move
<1>. SUFFICES ASSUME IInv, IInv', EndCopy PROVE Graph!Move
  OBVIOUS
<1>1. /\ phase = "copy" /\ toSearch = <<>>
      /\ used' = [p \in Pools |-> IF GenOf(p) <= gen THEN 0 ELSE used[p]]
      /\ heap' = [l \in Locs |-> IF GenOf(l) <= gen THEN Junk ELSE heap[l]]
      /\ phase' = "run" /\ var' = var
  BY DEF EndCopy
<1>2. /\ Types /\ SlotsInv /\ PointersInv /\ ForwardInv /\ CopyInv
      /\ Objects \subseteq Locs
  BY ObjectFacts DEF IInv
<1>3. AddressesRight /\ LedRight /\ RunRight'
  <2>1. RunRight'
    BY RunIsRight, PTL
  <2>. QED
    BY <2>1, AddressFollows, LedIsRight
<1>4. gen \in Nat /\ (\A l \in Locs : GenOf(l) \in Nat) /\ Seen = {}
  BY <1>1, <1>2, LocFacts DEF Types, Seen, Elements
<1>. DEFINE Old == {l \in Objects : GenOf(l) > gen}
<1>5. \A l \in Old : heap[l].at = Null /\ AddressOf(l) = l /\ l \in Live /\ heap'[l] = heap[l]
  <2>1. \A l \in Old : heap[l].at = Null /\ l \in Live
    BY <1>2, <1>4 DEF ForwardInv, Live
  <2>2. \A l \in Old : heap'[l] = heap[l]
    BY <1>1, <1>2, <1>4
  <2>. HIDE DEF Old
  <2>. QED
    BY <1>3, <2>1, <2>2 DEF AddressesRight
<1>6. \A x \in Vars : var[x] \in Old \union {Null}
  BY <1>1, <1>2, <1>4 DEF CopyInv, PointersInv
<1>7. \A l \in Old, f \in Members : heap[l].to[f] \in Old \union {Null}
  BY <1>1, <1>2, <1>4 DEF CopyInv, PointersInv
<1>8. Old \subseteq Objects'
  <2>1. \A l \in Locs : l \in Objects' <=> l[3] < used'[PoolOf(l)]
    BY DEF Objects, IsObject, PoolOf
  <2>2. \A l \in Old : PoolOf(l) \in Pools /\ GenOf(PoolOf(l)) = GenOf(l)
    BY <1>2, LocFacts DEF GenOf
  <2>3. \A l \in Old : used'[PoolOf(l)] = used[PoolOf(l)]
    BY <1>1, <1>2, <1>4, <2>2
  <2>. QED
    BY <1>2, <2>1, <2>3, ObjectFacts
<1>9. PICK D : D = Old
  OBVIOUS
<1>. HIDE DEF Old
<1>10. /\ \A x \in Vars : GraphVar[x] = var[x] /\ var[x] \in D \union {Null}
       /\ \A l \in D, f \in Members : To(l, f) = heap[l].to[f] /\ To(l, f) \in D \union {Null}
  <2>1. \A x \in Vars : GraphVar[x] = var[x] /\ var[x] \in D \union {Null}
    BY <1>3, <1>5, <1>6, <1>9 DEF AddressesRight
  <2>2. \A l \in D, f \in Members : To(l, f) = heap[l].to[f] /\ To(l, f) \in D \union {Null}
    BY <1>3, <1>5, <1>7, <1>9 DEF AddressesRight, To
  <2>. QED
    BY <2>1, <2>2
<1>11. Led \subseteq D /\ Leads(Led)
  <2>1. D \in SUBSET Live
    BY <1>5, <1>9
  <2>2. Leads(D)
    BY <1>10 DEF Leads
  <2>. QED
    BY <1>3, <2>1, <2>2 DEF LedRight
<1>12. /\ \A x \in Vars : GraphVar'[x] = var[x]
       /\ \A l \in D, f \in Members : To(l, f)' = heap[l].to[f]
  <2>1. \A l \in D, f \in Members : To(l, f)' = heap'[l].to[f]
    BY <1>1, <1>3, <1>8, <1>9 DEF RunRight
  <2>2. \A x \in Vars : GraphVar'[x] = var'[x]
    BY <1>1, <1>3 DEF RunRight
  <2>. QED
    BY <1>1, <1>5, <1>9, <2>1, <2>2
<1>13. PICK r : r = [i \in Led |-> i]
  OBVIOUS
<1>14. \A l \in Led \union {Null} : Renamed(r, Null, l) = l
  BY <1>13 DEF Renamed
<1>15. \A i \in Led : i # Null
  BY <1>3 DEF LedRight, AddressesRight
<1>16. \A x \in Vars : GraphVar'[x] = Renamed(r, Null, GraphVar[x])
  BY <1>10, <1>11, <1>12, <1>14 DEF Leads
<1>17. ASSUME NEW i \in Led, NEW f \in Members
       PROVE  To(r[i], f)' = Renamed(r, Null, To(i, f))
  <2>1. PICK k : k = r[i]
    OBVIOUS
  <2>2. To(k, f)' = Renamed(r, Null, To(i, f))
    BY <1>10, <1>11, <1>12, <1>13, <1>14, <2>1 DEF Leads
  <2>. QED
    BY <2>1, <2>2
<1>. QED
  BY <1>13, <1>15, <1>16, <1>17, MoveFacts

(* The marked objects are moved, and all that is led to is marked.         *)
LEMMA EndMarkGraph == IInv /\ IInv' /\ EndMark => Graph!Move
<1>. SUFFICES ASSUME IInv, IInv', EndMark PROVE Graph!Move
  OBVIOUS
<1>1. /\ phase = "mark" /\ toSearch = <<>>
      /\ var' = [x \in Vars |-> NewLoc(var[x])]
      /\ heap' = [l \in Locs |-> Compacted(l)]
      /\ used' = [p \in Pools |-> Cardinality(Marked(p))]
      /\ phase' = "run"
  BY DEF EndMark
<1>2. /\ Types /\ SlotsInv /\ PointersInv /\ MarkInv
      /\ Objects \subseteq Locs /\ Null \notin Locs
  BY ObjectFacts, LocFacts DEF IInv
<1>3. AddressesRight /\ LedRight /\ RunRight'
  <2>1. RunRight'
    BY RunIsRight, PTL
  <2>. QED
    BY <2>1, AddressFollows, LedIsRight
<1>4. Seen = {} /\ NewLoc(Null) = Null
  BY <1>1 DEF Seen, Elements, NewLoc
<1>5. /\ \A l \in Objects : heap[l].marked =>
           /\ NewLoc(l) \in Locs /\ PoolOf(NewLoc(l)) = PoolOf(l)
           /\ NewLoc(l)[3] < Cardinality(Marked(PoolOf(NewLoc(l))))
      /\ \A l, m \in Objects : heap[l].marked /\ heap[m].marked /\ NewLoc(l) = NewLoc(m) => l = m
      /\ \A n \in Locs : n[3] < Cardinality(Marked(PoolOf(n))) =>
           \E m \in Marked(PoolOf(n)) : NewLoc(m) = n
  BY <1>2, SlideFacts
<1>6. PICK D : D = {l \in Objects : heap[l].marked}
  OBVIOUS
<1>7. \A l \in D : l \in Live /\ AddressOf(l) = l
  BY <1>2, <1>3, <1>6 DEF MarkInv, Live, AddressesRight
<1>8. \A x \in Vars : var[x] \in D \union {Null}
  BY <1>1, <1>2, <1>4, <1>6 DEF MarkInv, PointersInv
<1>9. \A l \in D, f \in Members : heap[l].to[f] \in D \union {Null}
  BY <1>1, <1>2, <1>4, <1>6 DEF MarkInv, PointersInv
<1>10. /\ \A x \in Vars : GraphVar[x] = var[x]
       /\ \A l \in D, f \in Members : To(l, f) = heap[l].to[f]
  BY <1>3, <1>6, <1>7, <1>8, <1>9 DEF AddressesRight, To
<1>11. Led \subseteq D /\ Leads(Led)
  <2>1. Leads(D) /\ D \in SUBSET Live
    BY <1>7, <1>8, <1>9, <1>10 DEF Leads
  <2>. QED
    BY <1>3, <2>1 DEF LedRight
<1>12. PICK r : r = [i \in Led |-> NewLoc(i)]
  OBVIOUS
<1>13. ASSUME NEW l \in D
       PROVE  /\ NewLoc(l) \in Objects'
              /\ \A f \in Members : heap'[NewLoc(l)].to[f] = NewLoc(heap[l].to[f])
  <2>. DEFINE n == NewLoc(l)
              m == CHOOSE k \in Marked(PoolOf(n)) : NewLoc(k) = n
  <2>1. n \in Locs /\ n[3] < Cardinality(Marked(PoolOf(n))) /\ PoolOf(n) \in Pools
    BY <1>5, <1>6, LocFacts
  <2>2. m \in Marked(PoolOf(n)) /\ NewLoc(m) = n
    BY <1>5, <2>1
  <2>3. heap'[n] = Slid(heap[m])
    <3>1. heap'[n] = Compacted(n)
      BY <1>1, <2>1
    <3>. HIDE DEF n
    <3>. QED
      BY <2>1, <3>1 DEF Compacted
  <2>4. m = l
    <3>. HIDE DEF m
    <3>. QED
      BY <1>5, <1>6, <2>2 DEF Marked
  <2>. HIDE DEF m
  <2>5. \A f \in Members : heap'[n].to[f] = NewLoc(heap[l].to[f])
    <3>1. heap[l] \in SlotContents
      BY <1>2, <1>6 DEF Types
    <3>2. heap'[n] = Slid(heap[l])
      BY <2>3, <2>4
    <3>. HIDE DEF n
    <3>. QED
      BY <3>1, <3>2 DEF Slid, SlotContents
  <2>6. n \in Objects'
    <3>1. \A k \in Locs : k \in Objects' <=> k[3] < used'[PoolOf(k)]
      BY DEF Objects, IsObject, PoolOf
    <3>. HIDE DEF n
    <3>. QED
      BY <1>1, <2>1, <3>1
  <2>. QED
    BY <2>5, <2>6
<1>14. \A l \in Led \union {Null} : Renamed(r, Null, l) = NewLoc(l)
  BY <1>4, <1>12 DEF Renamed
<1>15. /\ \A i \in Led : r[i] # Null
       /\ \A i, j \in Led : r[i] = r[j] => i = j
  BY <1>2, <1>5, <1>6, <1>11, <1>12
<1>16. \A x \in Vars : GraphVar'[x] = Renamed(r, Null, GraphVar[x])
  <2>1. \A x \in Vars : GraphVar'[x] = NewLoc(var[x])
    BY <1>1, <1>3 DEF RunRight
  <2>2. \A x \in Vars : GraphVar[x] \in Led \union {Null}
    BY <1>11 DEF Leads
  <2>. QED
    BY <1>10, <1>14, <2>1, <2>2
<1>17. ASSUME NEW i \in Led, NEW f \in Members
       PROVE  To(r[i], f)' = Renamed(r, Null, To(i, f))
  <2>1. PICK k : k = r[i]
    OBVIOUS
  <2>2. k = NewLoc(i) /\ i \in D
    BY <1>11, <1>12, <2>1
  <2>3. k \in Objects' /\ heap'[k].to[f] = NewLoc(heap[i].to[f])
    BY <1>13, <2>2
  <2>4. To(k, f)' = heap'[k].to[f]
    BY <1>1, <1>3, <2>3 DEF RunRight
  <2>5. To(i, f) \in Led \union {Null} /\ To(i, f) = heap[i].to[f]
    BY <1>10, <1>11, <2>2 DEF Leads
  <2>6. To(k, f)' = Renamed(r, Null, To(i, f))
    BY <1>14, <2>3, <2>4, <2>5
  <2>. QED
    BY <2>1, <2>6
<1>. QED
  BY <1>15, <1>16, <1>17, MoveFacts

(* Every step of a collection moves objects at most.                       *)
LEMMA CollectorGraph ==
  ASSUME IInv, IInv', CollectForRoom \/ CollectAll \/ Collector
  PROVE  Graph!Move
<1>1. ASSUME CollectForRoom \/ CollectAll \/ SkipNull PROVE Graph!Move
  <2>1. UNCHANGED <<var, heap, used>>
    BY <1>1 DEF CollectForRoom, CollectAll, SkipNull, Exhaust, heapVars, lists
  <2>. QED
    BY <2>1, SameGraph
<1>. QED
  BY <1>1, KeepOldGraph, PromoteGraph, PromoteFailsGraph, MarkGraph, EndCopyGraph, EndMarkGraph
  DEF Collector

-----------------------------------------------------------------------------
(***************************************************************************)
(* The refinement.                                                         *)
(***************************************************************************)
(* At first the program has nothing.                                       *)
LEMMA InitGraph == Init => Graph!Init
<1>. SUFFICES ASSUME Init PROVE Graph!Init
  OBVIOUS
<1>1. IInv
  BY InitInvariant
<1>2. \A x \in Vars : AddressOf(var[x]) = Null
  BY DEF Init, AddressOf
<1>3. LedRight /\ Leads({})
  BY <1>1, <1>2, LedIsRight DEF Leads, GraphVar
<1>4. Led = {}
  BY <1>3 DEF LedRight
<1>5. GraphVar = [x \in Vars |-> Null] /\ GraphMember = [i \in {} |-> Null]
  BY <1>2, <1>4 DEF GraphVar, GraphMember
<1>. QED
  BY <1>5 DEF Graph!Init, GraphVar, GraphMember

(* To the program, the collected heap is a graph of objects that are never *)
(* lost, overwritten or confused with each other, whatever collections do  *)
(* and wherever they are: a step of the program does to the graph what it  *)
(* says, and a step of a collection moves objects at most.                 *)
THEOREM GraphImplemented == Spec => ImplementsObjectGraph
<1>1. Init => Graph!Init
  BY InitGraph
<1>2. IInv /\ IInv' /\ [Next]_vars => [Graph!Next]_Graph!vars
  <2>. SUFFICES ASSUME IInv, IInv', [Next]_vars PROVE [Graph!Next]_Graph!vars
    OBVIOUS
  <2>1. CASE Program
    BY <2>1, ProgramGraph
  <2>2. CASE CollectForRoom \/ CollectAll \/ Collector
    BY <2>2, CollectorGraph DEF Graph!Next
  <2>3. CASE UNCHANGED vars
    <3>1. UNCHANGED <<var, heap, used>>
      BY <2>3 DEF vars, heapVars, lists
    <3>. QED
      BY <3>1, SameGraph DEF Graph!Next
  <2>. QED
    BY <2>1, <2>2, <2>3 DEF Next
<1>. QED
  BY <1>1, <1>2, Invariant, PTL DEF Spec, ImplementsObjectGraph, Graph!Spec

-----------------------------------------------------------------------------
(***************************************************************************)
(* The search of break tables, which a full collection moves every pointer *)
(* by (module BreakTable).  The function that Search chooses exists as the *)
(* right answer satisfies its equation; that it is this answer follows     *)
(* from the search coming to an end, in two inductions: as long as the     *)
(* step is more than one it gets smaller, then the distance does.          *)
(***************************************************************************)
\* One iteration of the loop of findBreakTableEntry, f being what the next ones return.
Iteration(f, original, n, a, cur, step) ==
    IF original[cur] > a
    THEN IF cur = 0 THEN {} ELSE f[<<Down(cur, step), Half(step)>>]
    ELSE IF cur = n - 1 \/ original[cur + 1] > a THEN {cur}
    ELSE f[<<Up(n, cur, step), Half(step)>>]

\* A sorted break table, of whose entries just the first u are not above a.
SortedAt(original, n, a, u) ==
    /\ n \in Nat \ {0} /\ u \in 0 .. n
    /\ \A i \in 0 .. n - 1 : original[i] > a <=> i >= u

\* The last of them.
Sought(u) == IF u = 0 THEN {} ELSE {u - 1}

(* The loop stays in the table.                                            *)
LEMMA StaysInside ==
  ASSUME NEW n \in Nat \ {0}, NEW cur \in 0 .. n - 1, NEW step \in 1 .. n
  PROVE  /\ Half(step) \in 1 .. n
         /\ step > 1 => Half(step) < step
         /\ step = 1 => Half(step) = 1
         /\ Down(cur, step) \in 0 .. n - 1
         /\ Up(n, cur, step) \in 0 .. n - 1
BY DEF Half, Down, Up

(* There is a function that returns what each iteration does.              *)
LEMMA SearchFacts ==
  ASSUME NEW original, NEW n, NEW a, NEW u, SortedAt(original, n, a, u),
         NEW cur \in 0 .. n - 1, NEW step \in 1 .. n
  PROVE  Search(original, n, a)[<<cur, step>>]
           = Iteration(Search(original, n, a), original, n, a, cur, step)
<1>. DEFINE At == (0 .. n - 1) \X (1 .. n)
            g == [at \in At |-> Sought(u)]
            IsSearch(f) == f = [at \in At |-> Iteration(f, original, n, a, at[1], at[2])]
<1>1. ASSUME NEW at \in At
      PROVE  Sought(u) = Iteration(g, original, n, a, at[1], at[2])
  <2>1. PICK c \in 0 .. n - 1, s \in 1 .. n : at = <<c, s>> /\ at[1] = c /\ at[2] = s
    OBVIOUS
  <2>2. /\ g[<<Down(c, s), Half(s)>>] = Sought(u)
        /\ g[<<Up(n, c, s), Half(s)>>] = Sought(u)
    BY StaysInside DEF SortedAt
  <2>. HIDE DEF g
  <2>3. CASE c >= u
    <3>1. original[c] > a /\ (c = 0 => u = 0)
      BY <2>3 DEF SortedAt
    <3>. QED
      BY <2>1, <2>2, <3>1 DEF Iteration, Sought
  <2>4. CASE c = u - 1
    <3>1. ~ original[c] > a /\ u # 0 /\ (c = n - 1 \/ original[c + 1] > a)
      BY <2>4 DEF SortedAt
    <3>. QED
      BY <2>1, <2>4, <3>1 DEF Iteration, Sought
  <2>5. CASE c < u - 1
    <3>1. ~ original[c] > a /\ c # n - 1 /\ ~ original[c + 1] > a
      BY <2>5 DEF SortedAt
    <3>. QED
      BY <2>1, <2>2, <3>1 DEF Iteration, Sought
  <2>. QED
    BY <2>3, <2>4, <2>5 DEF SortedAt
<1>2. IsSearch(g)
  BY <1>1
<1>3. Search(original, n, a) = CHOOSE f : IsSearch(f)
  BY DEF Search, Iteration
<1>. HIDE DEF g
<1>4. IsSearch(Search(original, n, a))
  BY <1>2, <1>3
<1>. QED
  BY <1>4

(* Once the step is one, every iteration is one entry nearer.              *)
LEMMA SearchByOne ==
  ASSUME NEW original, NEW n, NEW a, NEW u, SortedAt(original, n, a, u),
         NEW cur \in 0 .. n - 1
  PROVE  Search(original, n, a)[<<cur, 1>>] = Sought(u)
<1>. DEFINE f == Search(original, n, a)
            Distance(c) == IF c >= u THEN c - u + 1 ELSE u - 1 - c
            T == {k \in Nat : \A c \in 0 .. n - 1 : Distance(c) < k => f[<<c, 1>>] = Sought(u)}
<1>1. n \in Nat /\ 1 \in 1 .. n /\ u \in 0 .. n /\ Half(1) = 1
  BY DEF SortedAt, Half
<1>2. \A c \in 0 .. n - 1 : Distance(c) \in 0 .. n
  BY <1>1
<1>3. 0 \in T
  BY <1>2
<1>4. ASSUME NEW k \in Nat, k \in T PROVE k + 1 \in T
  <2>1. ASSUME NEW c \in 0 .. n - 1, Distance(c) < k + 1 PROVE f[<<c, 1>>] = Sought(u)
    <3>1. f[<<c, 1>>] = Iteration(f, original, n, a, c, 1)
      BY <1>1, SearchFacts
    <3>. HIDE DEF f
    <3>2. CASE c >= u
      <4>1. original[c] > a /\ (c = 0 => u = 0)
        BY <3>2 DEF SortedAt
      <4>2. CASE c # 0
        <5>1. Down(c, 1) = c - 1 /\ c - 1 \in 0 .. n - 1
          BY <1>1, <4>2 DEF Down
        <5>2. Distance(c - 1) < k
          BY <1>1, <2>1, <3>2, <5>1
        <5>. QED
          BY <1>1, <1>4, <3>1, <4>1, <4>2, <5>1, <5>2 DEF Iteration, Sought
      <4>. QED
        BY <3>1, <4>1, <4>2 DEF Iteration, Sought
    <3>3. CASE c = u - 1
      <4>1. ~ original[c] > a /\ u # 0 /\ (c = n - 1 \/ original[c + 1] > a)
        BY <3>3 DEF SortedAt
      <4>. QED
        BY <3>1, <3>3, <4>1 DEF Iteration, Sought
    <3>4. CASE c < u - 1
      <4>1. ~ original[c] > a /\ c # n - 1 /\ ~ original[c + 1] > a
        BY <3>4 DEF SortedAt
      <4>2. Up(n, c, 1) = c + 1 /\ c + 1 \in 0 .. n - 1 /\ Distance(c + 1) < k
        BY <1>1, <2>1, <3>4 DEF Up
      <4>. QED
        BY <1>1, <1>4, <3>1, <4>1, <4>2 DEF Iteration, Sought
    <3>. QED
      BY <1>1, <3>2, <3>3, <3>4
  <2>. QED
    BY <2>1
<1>. HIDE DEF T
<1>5. n + 1 \in T
  BY <1>1, <1>3, <1>4, NatSetInduction
<1>. QED
  BY <1>1, <1>2, <1>5 DEF T

(* Until then, the step gets smaller.                                      *)
LEMMA SearchFinds ==
  ASSUME NEW original, NEW n, NEW a, NEW u, SortedAt(original, n, a, u),
         NEW cur \in 0 .. n - 1, NEW step \in 1 .. n
  PROVE  Search(original, n, a)[<<cur, step>>] = Sought(u)
<1>. DEFINE f == Search(original, n, a)
            T == {k \in Nat : \A s \in 1 .. n : s <= k => \A c \in 0 .. n - 1 : f[<<c, s>>] = Sought(u)}
<1>1. n \in Nat \ {0} /\ u \in 0 .. n
  BY DEF SortedAt
<1>2. 0 \in T
  OBVIOUS
<1>3. ASSUME NEW k \in Nat, k \in T PROVE k + 1 \in T
  <2>1. ASSUME NEW s \in 1 .. n, s <= k + 1, NEW c \in 0 .. n - 1 PROVE f[<<c, s>>] = Sought(u)
    <3>1. CASE s = 1
      <4>1. f[<<c, 1>>] = Sought(u)
        BY SearchByOne
      <4>. QED
        BY <3>1, <4>1
    <3>2. CASE s > 1
      <4>1. Half(s) \in 1 .. n /\ Half(s) <= k
        <5>1. Half(s) \in 1 .. n /\ Half(s) < s
          BY <1>1, <3>2, StaysInside
        <5>. QED
          BY <1>1, <2>1, <5>1
      <4>2. \A d \in 0 .. n - 1 : f[<<d, Half(s)>>] = Sought(u)
        BY <1>3, <4>1
      <4>3. f[<<c, s>>] = Iteration(f, original, n, a, c, s)
        BY SearchFacts
      <4>4. f[<<Down(c, s), Half(s)>>] = Sought(u) /\ f[<<Up(n, c, s), Half(s)>>] = Sought(u)
        BY <1>1, <4>2, StaysInside
      <4>. HIDE DEF f
      <4>5. CASE c >= u
        <5>1. original[c] > a /\ (c = 0 => u = 0)
          BY <4>5 DEF SortedAt
        <5>. QED
          BY <4>3, <4>4, <5>1 DEF Iteration, Sought
      <4>6. CASE c = u - 1
        <5>1. ~ original[c] > a /\ u # 0 /\ (c = n - 1 \/ original[c + 1] > a)
          BY <4>6 DEF SortedAt
        <5>. QED
          BY <4>3, <4>6, <5>1 DEF Iteration, Sought
      <4>7. CASE c < u - 1
        <5>1. ~ original[c] > a /\ c # n - 1 /\ ~ original[c + 1] > a
          BY <4>7 DEF SortedAt
        <5>. QED
          BY <4>3, <4>4, <5>1 DEF Iteration, Sought
      <4>. QED
        BY <1>1, <4>5, <4>6, <4>7
    <3>. QED
      BY <3>1, <3>2
  <2>. QED
    BY <2>1
<1>. HIDE DEF T
<1>4. step \in T
  BY <1>1, <1>2, <1>3, NatSetInduction
<1>. QED
  BY <1>4 DEF T

(* In a sorted break table of any size, the search ends at the last entry  *)
(* that is not above the place looked for, and at none if there is none:   *)
(* findBreakTableEntry, on whose answer every pointer depends.             *)
THEOREM SearchIsRight ==
  ASSUME NEW n \in Nat, NEW original \in [0 .. n - 1 -> Int], NEW a \in Int,
         \A i, j \in 0 .. n - 1 : i <= j => original[i] <= original[j]
  PROVE  FindEntry(original, n, a) = LastNotAbove(original, n, a)
<1>1. CASE n = 0
  BY <1>1 DEF FindEntry, LastNotAbove
<1>2. CASE n # 0
  <2>. DEFINE U == {i \in Nat : i = n \/ (i < n /\ original[i] > a)}
  <2>1. PICK u \in U : \A i \in U : u <= i
    <3>1. n \in U /\ U \subseteq Nat
      OBVIOUS
    <3>. HIDE DEF U
    <3>. QED
      BY <3>1, LeastNatural
  <2>2. u \in 0 .. n
    BY <2>1
  <2>3. ASSUME NEW i \in 0 .. n - 1 PROVE original[i] > a <=> i >= u
    <3>1. original[i] > a => i >= u
      BY <2>1
    <3>2. ASSUME i >= u PROVE original[i] > a
      <4>1. u \in 0 .. n - 1 /\ original[u] > a
        BY <2>1, <2>2, <3>2
      <4>2. original[u] \in Int /\ original[i] \in Int /\ original[u] <= original[i]
        BY <3>2, <4>1
      <4>. QED
        BY <4>1, <4>2
    <3>. QED
      BY <3>1, <3>2
  <2>4. SortedAt(original, n, a, u)
    BY <1>2, <2>2, <2>3 DEF SortedAt
  <2>5. n \div 2 \in 0 .. n - 1 /\ Half(n \div 2) \in 1 .. n
    BY <1>2 DEF Half
  <2>6. FindEntry(original, n, a) = Sought(u)
    <3>. DEFINE c == n \div 2
                s == Half(n \div 2)
    <3>1. c \in 0 .. n - 1 /\ s \in 1 .. n
      BY <2>5
    <3>2. FindEntry(original, n, a) = Search(original, n, a)[<<c, s>>]
      BY <1>2 DEF FindEntry
    <3>. HIDE DEF c, s, U
    <3>3. Search(original, n, a)[<<c, s>>] = Sought(u)
      BY <2>4, <3>1, SearchFinds
    <3>. QED
      BY <3>2, <3>3
  <2>7. LastNotAbove(original, n, a) = {i \in 0 .. n - 1 : i = u - 1}
    <3>1. ASSUME NEW i \in 0 .. n - 1
          PROVE  original[i] <= a /\ (i = n - 1 \/ original[i + 1] > a) <=> i = u - 1
      <4>1. original[i] <= a <=> i < u
        BY <2>2, <2>3
      <4>2. i # n - 1 => (original[i + 1] > a <=> i + 1 >= u)
        BY <2>3
      <4>. QED
        BY <2>2, <4>1, <4>2
    <3>. QED
      BY <3>1 DEF LastNotAbove
  <2>. QED
    BY <2>2, <2>6, <2>7 DEF Sought
<1>. QED
  BY <1>1, <1>2
=============================================================================
