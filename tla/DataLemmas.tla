----------------------------- MODULE DataLemmas -----------------------------
(***************************************************************************)
(* Facts about data that the proofs about the components share: induction  *)
(* on the natural numbers, division, the rank of an element of a set of    *)
(* numbers (what a sliding compaction computes), the sequence that FoldSet *)
(* makes of a set, the closure of a set (what a program can reach),        *)
(* graphs that are the same but for the names of their objects, and        *)
(* sequences that are put together or taken apart.                         *)
(*                                                                         *)
(* The induction theorems of the library take the induction hypothesis as  *)
(* an operator, which the provers cannot instantiate.  NatSetInduction     *)
(* takes it as a set.                                                      *)
(***************************************************************************)
EXTENDS Integers, FiniteSets, FiniteSetsExt, FrontLists, FiniteSetTheorems, FunctionTheorems,
        SequenceTheorems, WellFoundedInduction, TLAPS

-----------------------------------------------------------------------------
(***************************************************************************)
(* Induction.                                                              *)
(***************************************************************************)
Below == {ss \in Nat \X Nat : ss[1] < ss[2]}

(* No sequence of natural numbers goes down for ever.                      *)
LEMMA BelowIsWellFounded == IsWellFoundedOn(Below, Nat)
BY NatLessThanWellFounded DEF OpToRel, Below

(* A non-empty set of natural numbers has a least element.                 *)
LEMMA LeastNatural ==
  ASSUME NEW T, T \subseteq Nat, T # {}
  PROVE  \E x \in T : \A y \in T : x <= y
<1>1. PICK x \in T : \A y \in T : <<y, x>> \notin Below
  BY BelowIsWellFounded, WFMin
<1>2. \A y \in T : <<y, x>> \in Nat \X Nat
  OBVIOUS
<1>3. \A y \in T : ~ (y < x)
  BY <1>1, <1>2 DEF Below
<1>. QED
  BY <1>1, <1>3

(* Min finds it.                                                           *)
LEMMA MinOfNaturals ==
  ASSUME NEW T, T \subseteq Nat, T # {}
  PROVE  Min(T) \in T /\ \A y \in T : Min(T) <= y
BY LeastNatural DEF Min

(* Induction on the natural numbers, the hypothesis being a set.           *)
LEMMA NatSetInduction ==
  ASSUME NEW T, 0 \in T, \A n \in Nat : n \in T => n + 1 \in T
  PROVE  Nat \subseteq T
<1>. DEFINE U == Nat \ T
<1>1. SUFFICES ASSUME U # {} PROVE FALSE
  OBVIOUS
<1>. HIDE DEF U
<1>2. PICK x \in U : \A y \in U : x <= y
  BY <1>1, LeastNatural DEF U
<1>3. x # 0 /\ x - 1 \in Nat /\ x - 1 \notin U
  BY <1>2 DEF U
<1>. QED
  BY <1>2, <1>3 DEF U

(* There are n numbers before n.                                           *)
LEMMA IntervalSize ==
  ASSUME NEW n \in Nat
  PROVE  IsFiniteSet(0 .. n - 1) /\ Cardinality(0 .. n - 1) = n
<1>1. 0 \in Int /\ n - 1 \in Int
  OBVIOUS
<1>2. IsFiniteSet(0 .. n - 1) /\ Cardinality(0 .. n - 1) = IF 0 > n - 1 THEN 0 ELSE n - 1 - 0 + 1
  BY <1>1, FS_Interval
<1>. QED
  BY <1>2

-----------------------------------------------------------------------------
(***************************************************************************)
(* Division.                                                               *)
(***************************************************************************)
(* What the quotient is.                                                   *)
LEMMA Quotient ==
  ASSUME NEW a \in Nat, NEW d \in Nat \ {0}
  PROVE  a \div d \in Nat /\ d * (a \div d) <= a /\ a < d * (a \div d) + d
OBVIOUS

(* Division by the same number is monotonic.                               *)
LEMMA DivisionMonotonic ==
  ASSUME NEW a \in Nat, NEW b \in Nat, NEW d \in Nat \ {0}, a <= b
  PROVE  a \div d <= b \div d
<1>. DEFINE q == a \div d
            r == b \div d
<1>1. q \in Nat /\ d * q <= a /\ r \in Nat /\ b < d * r + d
  BY Quotient
<1>. HIDE DEF q, r
<1>2. SUFFICES ASSUME r < q PROVE FALSE
  BY <1>1 DEF q, r
<1>3. d * (r + 1) <= d * q
  BY <1>1, <1>2
<1>. QED
  BY <1>1, <1>3

-----------------------------------------------------------------------------
(***************************************************************************)
(* Ranks.                                                                  *)
(***************************************************************************)
Rank(f, S, x) == Cardinality({y \in S : f[y] < f[x]})

(* Ranks grow with the numbers and stay below the size of the set.         *)
LEMMA RankGrows ==
  ASSUME NEW S, IsFiniteSet(S), NEW f \in [S -> Nat]
  PROVE  /\ \A x \in S : Rank(f, S, x) \in 0 .. Cardinality(S) - 1
         /\ \A x, y \in S : f[x] < f[y] => Rank(f, S, x) < Rank(f, S, y)
<1>. DEFINE Lower(x) == {y \in S : f[y] < f[x]}
<1>1. ASSUME NEW x \in S, NEW T, IsFiniteSet(T), Lower(x) \subseteq T \ {x}, x \in T
      PROVE  Rank(f, S, x) \in Nat /\ Cardinality(T) \in Nat /\ Rank(f, S, x) < Cardinality(T)
  <2>1. IsFiniteSet(T \ {x}) /\ Cardinality(T \ {x}) = Cardinality(T) - 1
    BY <1>1, FS_RemoveElement
  <2>2. IsFiniteSet(Lower(x)) /\ Cardinality(Lower(x)) <= Cardinality(T \ {x})
    BY <1>1, <2>1, FS_Subset
  <2>3. Cardinality(Lower(x)) \in Nat /\ Cardinality(T) \in Nat
    BY <1>1, <2>2, FS_CardinalityType
  <2>. QED
    BY <2>1, <2>2, <2>3 DEF Rank
<1>2. ASSUME NEW x \in S PROVE Rank(f, S, x) \in 0 .. Cardinality(S) - 1
  <2>1. Lower(x) \subseteq S \ {x}
    OBVIOUS
  <2>. QED
    BY <1>1, <2>1
<1>3. ASSUME NEW x \in S, NEW y \in S, f[x] < f[y] PROVE Rank(f, S, x) < Rank(f, S, y)
  <2>1. Lower(x) \subseteq Lower(y) \ {x} /\ x \in Lower(y)
    BY <1>3
  <2>2. IsFiniteSet(Lower(y))
    BY FS_Subset
  <2>. QED
    BY <1>1, <2>1, <2>2 DEF Rank
<1>. QED
  BY <1>2, <1>3

(* The ranks of different numbers are the first natural numbers.           *)
LEMMA RankOnto ==
  ASSUME NEW S, IsFiniteSet(S), NEW f \in [S -> Nat],
         \A x, y \in S : f[x] = f[y] => x = y
  PROVE  /\ \A x, y \in S : Rank(f, S, x) = Rank(f, S, y) => x = y
         /\ \A k \in 0 .. Cardinality(S) - 1 : \E x \in S : Rank(f, S, x) = k
<1>. DEFINE n == Cardinality(S)
            r == [x \in S |-> Rank(f, S, x)]
<1>1. n \in Nat
  BY FS_CardinalityType
<1>2. \A x \in S : Rank(f, S, x) \in 0 .. n - 1
  BY RankGrows
<1>3. \A x, y \in S : Rank(f, S, x) = Rank(f, S, y) => x = y
  BY <1>1, <1>2, RankGrows
<1>4. IsFiniteSet(0 .. n - 1) /\ Cardinality(0 .. n - 1) = n
  BY <1>1, IntervalSize
<1>5. r \in Injection(S, 0 .. n - 1)
  BY <1>2, <1>3 DEF Injection, IsInjective
<1>6. r \in Surjection(S, 0 .. n - 1)
  BY <1>4, <1>5, FS_Injection
<1>. QED
  BY <1>3, <1>6 DEF Surjection

-----------------------------------------------------------------------------
(***************************************************************************)
(* The sequence FoldSet makes of a finite set.                             *)
(***************************************************************************)
Listing(S) == FoldSet(LAMBDA a, s : Append(s, a), <<>>, S)

Pick(s) == CHOOSE x \in s : TRUE

\* One step of the recursion in FoldSet.
Folded(g, s) == IF s = {} THEN <<>> ELSE Append(g[s \ {Pick(s)}], Pick(s))

UpTo(S, n) == {s \in SUBSET S : Cardinality(s) <= n}

(* FoldSet is that recursion.                                              *)
LEMMA ListingIsFold ==
  ASSUME NEW S
  PROVE  Listing(S) = (CHOOSE g : g = [s \in SUBSET S |-> Folded(g, s)])[S]
BY Zenon DEF Listing, FoldSet, MapThenFoldSet, Folded, Pick

(* What is left of a set is smaller.                                       *)
LEMMA WithoutPick ==
  ASSUME NEW S, IsFiniteSet(S), NEW n \in Nat, NEW s \in UpTo(S, n + 1), s # {}
  PROVE  s \ {Pick(s)} \in UpTo(S, n) /\ Pick(s) \in s /\ Cardinality(s) # 0
<1>1. Pick(s) \in s
  BY DEF Pick
<1>2. IsFiniteSet(s)
  BY FS_Subset DEF UpTo
<1>. HIDE DEF Pick
<1>3. Cardinality(s) \in Nat /\ Cardinality(s \ {Pick(s)}) = Cardinality(s) - 1
  BY <1>1, <1>2, FS_CardinalityType, FS_RemoveElement
<1>. QED
  BY <1>1, <1>2, <1>3, FS_EmptySet DEF UpTo

(* The recursion defines a function on the subsets of a finite set.        *)
LEMMA FoldExists ==
  ASSUME NEW S, IsFiniteSet(S)
  PROVE  \E g : g = [s \in SUBSET S |-> Folded(g, s)]
<1>. DEFINE T == {n \in Nat : \E g : g = [s \in UpTo(S, n) |-> Folded(g, s)]}
<1>1. 0 \in T
  <2>. DEFINE g == [s \in UpTo(S, 0) |-> <<>>]
  <2>1. \A s \in UpTo(S, 0) : s = {}
    BY FS_EmptySet, FS_Subset, FS_CardinalityType DEF UpTo
  <2>2. g = [s \in UpTo(S, 0) |-> Folded(g, s)]
    BY <2>1 DEF Folded
  <2>. QED
    BY <2>2
<1>2. ASSUME NEW n \in Nat, n \in T PROVE n + 1 \in T
  <2>1. PICK g : g = [s \in UpTo(S, n) |-> Folded(g, s)]
    BY <1>2
  <2>. DEFINE h == [s \in UpTo(S, n + 1) |-> Folded(g, s)]
  <2>2. \A s \in UpTo(S, n) : s \in UpTo(S, n + 1) /\ h[s] = g[s]
    <3>1. \A s \in UpTo(S, n) : s \in UpTo(S, n + 1)
       BY FS_Subset, FS_CardinalityType DEF UpTo
    <3>. QED
      BY <2>1, <3>1
  <2>. HIDE DEF h
  <2>3. \A s \in UpTo(S, n + 1) : Folded(g, s) = Folded(h, s)
    BY <2>2, WithoutPick, Zenon DEF Folded
  <2>4. h = [s \in UpTo(S, n + 1) |-> Folded(h, s)]
    BY <2>3 DEF h
  <2>5. \E k : k = [s \in UpTo(S, n + 1) |-> Folded(k, s)]
    BY <2>4
  <2>. QED
    BY <2>5
<1>. HIDE DEF T
<1>3. Cardinality(S) \in T
  BY <1>1, <1>2, NatSetInduction, FS_CardinalityType
<1>4. UpTo(S, Cardinality(S)) = SUBSET S
  BY FS_Subset DEF UpTo
<1>. QED
  BY <1>3, <1>4 DEF T

(* The sequence has the elements of the set.                               *)
LEMMA ListingElements ==
  ASSUME NEW S, IsFiniteSet(S)
  PROVE  /\ Listing(S) \in Seq(S)
         /\ \A x \in S : \E i \in DOMAIN Listing(S) : Listing(S)[i] = x
<1>. DEFINE g == CHOOSE f : f = [s \in SUBSET S |-> Folded(f, s)]
<1>1. g = [s \in SUBSET S |-> Folded(g, s)]
  BY FoldExists
<1>2. Listing(S) = g[S]
  BY ListingIsFold
<1>. HIDE DEF g
<1>. DEFINE Right(s) == /\ g[s] \in Seq(S)
                        /\ \A i \in DOMAIN g[s] : g[s][i] \in s
                        /\ \A x \in s : \E i \in DOMAIN g[s] : g[s][i] = x
            T == {n \in Nat : \A s \in UpTo(S, n) : Right(s)}
<1>3. Right({})
  <2>1. g[{}] = <<>>
    BY <1>1 DEF Folded
  <2>. QED
    BY <2>1
<1>4. 0 \in T
  <2>1. \A s \in UpTo(S, 0) : s = {}
    BY FS_EmptySet, FS_Subset, FS_CardinalityType DEF UpTo
  <2>. HIDE DEF Right
  <2>. QED
    BY <1>3, <2>1
<1>5. ASSUME NEW n \in Nat, n \in T PROVE n + 1 \in T
  <2>1. ASSUME NEW s \in UpTo(S, n + 1), s # {} PROVE Right(s)
    <3>. DEFINE p == Pick(s)
                r == s \ {p}
    <3>1. r \in UpTo(S, n) /\ p \in s
      BY <2>1, WithoutPick
    <3>2. Right(r)
      BY <1>5, <3>1
    <3>3. s \in SUBSET S
      BY DEF UpTo
    <3>4. g[s] = Append(g[r], p)
      BY <1>1, <2>1, <3>3 DEF Folded
    <3>. HIDE DEF p
    <3>5. p \in S
      BY <3>1, <3>3
    <3>6. g[s] \in Seq(S) /\ DOMAIN g[s] = 1 .. Len(g[r]) + 1
      BY <3>2, <3>4, <3>5
    <3>7. \A i \in DOMAIN g[r] : g[s][i] = g[r][i]
      BY <3>2, <3>4, <3>5
    <3>8. g[s][Len(g[r]) + 1] = p /\ DOMAIN g[r] = 1 .. Len(g[r]) /\ Len(g[r]) \in Nat
      BY <3>2, <3>4, <3>5
    <3>9. ASSUME NEW i \in DOMAIN g[s] PROVE g[s][i] \in s
      <4>1. CASE i \in DOMAIN g[r]
        BY <3>2, <3>7, <4>1
      <4>2. CASE i = Len(g[r]) + 1
        BY <3>1, <3>8, <4>2
      <4>. QED
        BY <3>6, <3>8, <4>1, <4>2
    <3>10. ASSUME NEW x \in s PROVE \E i \in DOMAIN g[s] : g[s][i] = x
      <4>1. CASE x \in r
        <5>1. PICK i \in DOMAIN g[r] : g[r][i] = x
          BY <3>2, <4>1
        <5>2. i \in DOMAIN g[s]
          BY <3>6, <3>8
        <5>3. g[s][i] = x
          BY <3>7, <5>1
        <5>. QED
          BY <5>2, <5>3
      <4>2. CASE x = p
        BY <3>6, <3>8, <4>2
      <4>. QED
        BY <4>1, <4>2
    <3>. QED
      BY <3>6, <3>9, <3>10
  <2>. HIDE DEF Right
  <2>. QED
    BY <1>3, <2>1
<1>. HIDE DEF T, Right
<1>6. Cardinality(S) \in T
  BY <1>4, <1>5, NatSetInduction, FS_CardinalityType
<1>7. S \in UpTo(S, Cardinality(S))
  BY FS_CardinalityType DEF UpTo
<1>8. Right(S)
  BY <1>6, <1>7 DEF T
<1>. QED
  BY <1>2, <1>8 DEF Right

-----------------------------------------------------------------------------
(***************************************************************************)
(* Closing a set.  A recursive function that takes a set to a larger one   *)
(* until it stays the same finds the least set that stays the same.        *)
(***************************************************************************)
\* One step of such a recursion: g makes a set larger.
Closing(g, c, s) == IF g[s] = s THEN s ELSE c[g[s]]

Grows(U, g) == g \in [SUBSET U -> SUBSET U] /\ \A s \in SUBSET U : s \subseteq g[s]

\* The function c is that recursion, with g.
IsClosing(U, g, c) == c = [s \in SUBSET U |-> Closing(g, c, s)]

\* Subsets of U that lack at most n elements.
Lacking(U, n) == {s \in SUBSET U : Cardinality(U \ s) <= n}

(* What is added leaves less to add.                                       *)
LEMMA LacksLess ==
  ASSUME NEW U, IsFiniteSet(U), NEW n \in Nat, NEW s \in Lacking(U, n + 1),
         NEW t \in SUBSET U, s \subseteq t, t # s
  PROVE  t \in Lacking(U, n)
<1>1. U \ t \subseteq U \ s /\ U \ t # U \ s
  BY DEF Lacking
<1>2. IsFiniteSet(U \ s) /\ IsFiniteSet(U \ t)
  BY FS_Subset
<1>3. PICK x \in U \ s : x \notin U \ t
  BY <1>1
<1>4. Cardinality((U \ s) \ {x}) = Cardinality(U \ s) - 1 /\ IsFiniteSet((U \ s) \ {x})
  BY <1>2, <1>3, FS_RemoveElement
<1>5. U \ t \subseteq (U \ s) \ {x}
  BY <1>1, <1>3
<1>6. Cardinality(U \ t) <= Cardinality((U \ s) \ {x})
  BY <1>4, <1>5, FS_Subset
<1>7. Cardinality(U \ s) \in Nat /\ Cardinality(U \ t) \in Nat /\ Cardinality(U \ s) <= n + 1
  BY <1>2, FS_CardinalityType DEF Lacking
<1>. QED
  BY <1>4, <1>6, <1>7 DEF Lacking

(* Subsets that lack nothing are the whole; all lack at most all.          *)
LEMMA LacksAtMost ==
  ASSUME NEW U, IsFiniteSet(U)
  PROVE  Lacking(U, 0) = {U} /\ Lacking(U, Cardinality(U)) = SUBSET U /\ Cardinality(U) \in Nat
<1>1. \A s \in SUBSET U : IsFiniteSet(U \ s) /\ Cardinality(U \ s) \in Nat
                          /\ Cardinality(U \ s) <= Cardinality(U)
  BY FS_Subset, FS_CardinalityType
<1>2. \A s \in SUBSET U : Cardinality(U \ s) <= 0 => s = U
  <2>. SUFFICES ASSUME NEW s \in SUBSET U, Cardinality(U \ s) <= 0 PROVE s = U
    OBVIOUS
  <2>1. Cardinality(U \ s) = 0
    BY <1>1
  <2>2. U \ s = {}
    BY <1>1, <2>1, FS_EmptySet
  <2>. QED
    BY <2>2
<1>3. Cardinality(U \ U) <= 0
  <2>1. U \ U = {}
    OBVIOUS
  <2>. QED
    BY <2>1, FS_EmptySet
<1>4. Lacking(U, 0) = {U}
  <2>1. \A s \in Lacking(U, 0) : s = U
    BY <1>2 DEF Lacking
  <2>2. U \in Lacking(U, 0)
    BY <1>3 DEF Lacking
  <2>. QED
    BY <2>1, <2>2
<1>5. Lacking(U, Cardinality(U)) = SUBSET U
  BY <1>1 DEF Lacking
<1>. QED
  BY <1>4, <1>5, FS_CardinalityType

(* The recursion defines a function on the subsets of a finite set.        *)
LEMMA ClosureExists ==
  ASSUME NEW U, IsFiniteSet(U), NEW g, Grows(U, g)
  PROVE  \E c : IsClosing(U, g, c)
<1>. g \in [SUBSET U -> SUBSET U] /\ \A s \in SUBSET U : s \subseteq g[s]
  BY DEF Grows
<1>. DEFINE T == {n \in Nat : \E c : c = [s \in Lacking(U, n) |-> Closing(g, c, s)]}
<1>1. 0 \in T
  <2>. DEFINE c == [s \in Lacking(U, 0) |-> s]
  <2>1. \A s \in Lacking(U, 0) : g[s] = s
    <3>1. g[U] = U
      OBVIOUS
    <3>. QED
      BY <3>1, LacksAtMost
  <2>2. c = [s \in Lacking(U, 0) |-> Closing(g, c, s)]
    BY <2>1 DEF Closing
  <2>. QED
    BY <2>2
<1>2. ASSUME NEW n \in Nat, n \in T PROVE n + 1 \in T
  <2>1. PICK c : c = [s \in Lacking(U, n) |-> Closing(g, c, s)]
    BY <1>2
  <2>. DEFINE d == [s \in Lacking(U, n + 1) |-> Closing(g, c, s)]
  <2>2. \A s \in Lacking(U, n) : s \in Lacking(U, n + 1)
    BY FS_Subset, FS_CardinalityType DEF Lacking
  <2>3. \A s \in Lacking(U, n) : d[s] = c[s]
    <3>1. \A s \in Lacking(U, n) : c[s] = Closing(g, c, s)
      BY <2>1, Zenon
    <3>. QED
      BY <2>2, <3>1
  <2>4. \A s \in Lacking(U, n + 1) : g[s] # s => g[s] \in Lacking(U, n)
    <3>1. \A s \in Lacking(U, n + 1) : s \in SUBSET U
      BY DEF Lacking
    <3>. QED
      BY <3>1, LacksLess
  <2>. HIDE DEF d
  <2>5. \A s \in Lacking(U, n + 1) : Closing(g, c, s) = Closing(g, d, s)
    BY <2>3, <2>4 DEF Closing
  <2>6. d = [s \in Lacking(U, n + 1) |-> Closing(g, d, s)]
    BY <2>5 DEF d
  <2>7. \E e : e = [s \in Lacking(U, n + 1) |-> Closing(g, e, s)]
    BY <2>6
  <2>. QED
    BY <2>7
<1>. HIDE DEF T
<1>3. Cardinality(U) \in T
  BY <1>1, <1>2, NatSetInduction, LacksAtMost
<1>. QED
  BY <1>3, LacksAtMost DEF T, IsClosing

(* It takes a set to the least one around it that g leaves the same.       *)
LEMMA ClosureFacts ==
  ASSUME NEW U, IsFiniteSet(U), NEW g, Grows(U, g), NEW c, IsClosing(U, g, c)
  PROVE  \A s \in SUBSET U :
           /\ c[s] \in SUBSET U /\ s \subseteq c[s] /\ g[c[s]] = c[s]
           /\ \A C \in SUBSET U : s \subseteq C /\ (\A t \in SUBSET C : g[t] \subseteq C)
                => c[s] \subseteq C
<1>. /\ g \in [SUBSET U -> SUBSET U] /\ \A s \in SUBSET U : s \subseteq g[s]
     /\ c = [s \in SUBSET U |-> Closing(g, c, s)]
  BY DEF Grows, IsClosing
<1>. DEFINE Right(s) ==
              /\ c[s] \in SUBSET U /\ s \subseteq c[s] /\ g[c[s]] = c[s]
              /\ \A C \in SUBSET U : s \subseteq C /\ (\A t \in SUBSET C : g[t] \subseteq C)
                   => c[s] \subseteq C
            T == {n \in Nat : \A s \in Lacking(U, n) : Right(s)}
<1>1. ASSUME NEW s \in SUBSET U, g[s] # s => Right(g[s]) PROVE Right(s)
  <2>1. c[s] = IF g[s] = s THEN s ELSE c[g[s]]
    BY DEF Closing
  <2>2. CASE g[s] = s
    BY <2>1, <2>2
  <2>3. CASE g[s] # s
    <3>1. c[s] = c[g[s]] /\ s \subseteq g[s]
      BY <2>1, <2>3
    <3>. QED
      BY <1>1, <2>3, <3>1
  <2>. QED
    BY <2>2, <2>3
<1>. HIDE DEF Right
<1>2. 0 \in T
  <2>1. g[U] = U
    OBVIOUS
  <2>2. Right(U)
    BY <1>1, <2>1
  <2>. QED
    BY <2>2, LacksAtMost
<1>3. ASSUME NEW n \in Nat, n \in T PROVE n + 1 \in T
  <2>1. \A s \in Lacking(U, n + 1) : s \in SUBSET U /\ (g[s] # s => g[s] \in Lacking(U, n))
    <3>1. \A s \in Lacking(U, n + 1) : s \in SUBSET U
      BY DEF Lacking
    <3>. QED
      BY <3>1, LacksLess
  <2>. QED
    BY <1>1, <1>3, <2>1
<1>. HIDE DEF T
<1>4. Cardinality(U) \in T
  BY <1>2, <1>3, NatSetInduction, LacksAtMost
<1>5. \A s \in SUBSET U : Right(s)
  BY <1>4, LacksAtMost DEF T
<1>. QED
  BY <1>5 DEF Right

-----------------------------------------------------------------------------
(***************************************************************************)
(* The closures of ObjectGraph, of its variables' values.                  *)
(***************************************************************************)
\* Reached(v, m) of an object graph with members F and null pointer N.
ReachedIn(v, m, F, N) ==
    LET closure[S \in SUBSET DOMAIN m] ==
          LET T == S \union ({m[i][f] : i \in S, f \in F} \ {N})
          IN IF T = S THEN S ELSE closure[T]
    IN closure[Range(v) \ {N}]

\* Its Counterparts, when v, old become w, new.
CounterpartsIn(X, F, N, v, w, old, new) ==
    LET closure[S \in SUBSET ((DOMAIN old \union {N}) \X (DOMAIN new \union {N}))] ==
          LET T == S \union {<<old[p[1]][f], new[p[2]][f]>> :
                                p \in S \intersect ((DOMAIN old) \X (DOMAIN new)),
                                f \in F}
          IN IF T = S THEN S ELSE closure[T]
    IN closure[{<<v[x], w[x]>> : x \in X}]

\* Members m of the objects D lead to objects in D or nowhere.
Closed(m, D, F, N) == \A i \in D, f \in F : m[i][f] \in D \union {N}

(* What is reached is the least set that has what the variables refer to,  *)
(* and with an object what it refers to.                                   *)
LEMMA ReachedFacts ==
  ASSUME NEW D, IsFiniteSet(D), NEW m, DOMAIN m = D, NEW F, NEW N, Closed(m, D, F, N),
         NEW v, \A x \in DOMAIN v : v[x] \in D \union {N}
  PROVE  /\ ReachedIn(v, m, F, N) \in SUBSET D
         /\ \A x \in DOMAIN v : v[x] # N => v[x] \in ReachedIn(v, m, F, N)
         /\ \A i \in ReachedIn(v, m, F, N), f \in F :
              m[i][f] # N => m[i][f] \in ReachedIn(v, m, F, N)
         /\ \A C \in SUBSET D :
              /\ \A x \in DOMAIN v : v[x] # N => v[x] \in C
              /\ \A i \in C, f \in F : m[i][f] # N => m[i][f] \in C
              => ReachedIn(v, m, F, N) \subseteq C
<1>. DEFINE more(s) == s \union ({m[i][f] : i \in s, f \in F} \ {N})
            g == [s \in SUBSET D |-> more(s)]
            c == CHOOSE d : d = [s \in SUBSET D |-> IF more(s) = s THEN s ELSE d[more(s)]]
            seeds == Range(v) \ {N}
            R == ReachedIn(v, m, F, N)
<1>1. R = c[seeds]
  BY SMT DEF ReachedIn
<1>2. \A s \in SUBSET D : more(s) \in SUBSET D /\ s \subseteq more(s) /\ g[s] = more(s)
  BY DEF Closed
<1>3. Grows(D, g)
  <2>. HIDE DEF more
  <2>. QED
    BY <1>2 DEF Grows
<1>4. \A d : [s \in SUBSET D |-> IF more(s) = s THEN s ELSE d[more(s)]]
               = [s \in SUBSET D |-> Closing(g, d, s)]
  <2>. HIDE DEF g, more
  <2>. QED
    BY <1>2 DEF Closing
<1>5. seeds \in SUBSET D /\ \A x \in DOMAIN v : v[x] # N => v[x] \in seeds
  BY DEF Range
<1>6. \A C : (\A x \in DOMAIN v : v[x] # N => v[x] \in C) => seeds \subseteq C
  BY DEF Range
<1>7. \A s, f : \A i \in s : f \in F /\ m[i][f] # N => m[i][f] \in more(s)
  OBVIOUS
<1>8. \A C : (\A i \in C, f \in F : m[i][f] # N => m[i][f] \in C)
               => \A s \in SUBSET C : more(s) \subseteq C
  OBVIOUS
<1>. HIDE DEF g, more, seeds
<1>9. IsClosing(D, g, c)
  <2>1. PICK d : IsClosing(D, g, d)
    BY <1>3, ClosureExists
  <2>2. \E e : e = [s \in SUBSET D |-> IF more(s) = s THEN s ELSE e[more(s)]]
    BY <1>4, <2>1 DEF IsClosing
  <2>3. c = [s \in SUBSET D |-> IF more(s) = s THEN s ELSE c[more(s)]]
    BY <2>2, Zenon
  <2>. HIDE DEF c
  <2>. QED
    BY <1>4, <2>3 DEF IsClosing
<1>. HIDE DEF c
<1>10. /\ c[seeds] \in SUBSET D /\ seeds \subseteq c[seeds] /\ g[c[seeds]] = c[seeds]
       /\ \A C \in SUBSET D : seeds \subseteq C /\ (\A t \in SUBSET C : g[t] \subseteq C)
                => c[seeds] \subseteq C
  BY <1>3, <1>5, <1>9, ClosureFacts
<1>. HIDE DEF R
<1>11. more(R) = R /\ R \in SUBSET D /\ seeds \subseteq R
  BY <1>1, <1>2, <1>10
<1>12. \A i \in R, f \in F : m[i][f] # N => m[i][f] \in R
  BY <1>7, <1>11
<1>13. ASSUME NEW C \in SUBSET D, \A x \in DOMAIN v : v[x] # N => v[x] \in C,
              \A i \in C, f \in F : m[i][f] # N => m[i][f] \in C
       PROVE  R \subseteq C
  <2>1. seeds \subseteq C
    BY <1>6, <1>13
  <2>2. \A t \in SUBSET C : more(t) \subseteq C
    BY <1>8, <1>13
  <2>3. \A t \in SUBSET C : g[t] \subseteq C
    BY <1>2, <2>2
  <2>. QED
    BY <1>1, <1>10, <2>1, <2>3
<1>. QED
  BY <1>5, <1>11, <1>12, <1>13 DEF R

(* Counterparts are in every set of pairs that has those of the variables, *)
(* and with a pair of objects those of their members.                      *)
LEMMA CounterpartsFacts ==
  ASSUME NEW D, NEW E, IsFiniteSet(D), IsFiniteSet(E), NEW F, NEW N,
         NEW old, DOMAIN old = D, Closed(old, D, F, N),
         NEW new, DOMAIN new = E, Closed(new, E, F, N),
         NEW X, NEW v, NEW w, \A x \in X : v[x] \in D \union {N} /\ w[x] \in E \union {N},
         NEW C \in SUBSET ((D \union {N}) \X (E \union {N})),
         \A x \in X : <<v[x], w[x]>> \in C,
         \A i \in D, j \in E, f \in F :
            <<i, j>> \in C => <<old[i][f], new[j][f]>> \in C
  PROVE  CounterpartsIn(X, F, N, v, w, old, new) \subseteq C
<1>. DEFINE U == (D \union {N}) \X (E \union {N})
            more(s) == s \union {<<old[p[1]][f], new[p[2]][f]>> : p \in s \intersect (D \X E), f \in F}
            g == [s \in SUBSET U |-> more(s)]
            c == CHOOSE d : d = [s \in SUBSET U |-> IF more(s) = s THEN s ELSE d[more(s)]]
            seeds == {<<v[x], w[x]>> : x \in X}
            R == CounterpartsIn(X, F, N, v, w, old, new)
<1>1. R = c[seeds]
  BY SMT DEF CounterpartsIn
<1>2. \A s \in SUBSET U : more(s) \in SUBSET U /\ s \subseteq more(s)
  BY DEF Closed
<1>3. Grows(U, g) /\ \A s \in SUBSET U : g[s] = more(s)
  <2>. HIDE DEF more, U
  <2>. QED
    BY <1>2 DEF Grows
<1>4. seeds \in SUBSET U /\ seeds \subseteq C
  OBVIOUS
<1>5. \A s \in SUBSET C : more(s) \subseteq C
  <2>. SUFFICES ASSUME NEW s \in SUBSET C, NEW p \in s \intersect (D \X E), NEW f \in F
                PROVE  <<old[p[1]][f], new[p[2]][f]>> \in C
    OBVIOUS
  <2>1. p[1] \in D /\ p[2] \in E /\ <<p[1], p[2]>> \in C
    OBVIOUS
  <2>. QED
    BY <2>1
<1>6. IsFiniteSet(U)
  <2>1. IsFiniteSet(D \union {N}) /\ IsFiniteSet(E \union {N})
    BY FS_AddElement
  <2>. QED
    BY <2>1, FS_Product
<1>. HIDE DEF g, more, seeds, U
<1>7. \A d : [s \in SUBSET U |-> IF more(s) = s THEN s ELSE d[more(s)]]
               = [s \in SUBSET U |-> Closing(g, d, s)]
  BY <1>3 DEF Closing
<1>8. IsClosing(U, g, c)
  <2>1. PICK d : IsClosing(U, g, d)
    BY <1>3, <1>6, ClosureExists
  <2>2. \E e : e = [s \in SUBSET U |-> IF more(s) = s THEN s ELSE e[more(s)]]
    BY <1>7, <2>1 DEF IsClosing
  <2>3. c = [s \in SUBSET U |-> IF more(s) = s THEN s ELSE c[more(s)]]
    BY <2>2, Zenon
  <2>. HIDE DEF c
  <2>. QED
    BY <1>7, <2>3 DEF IsClosing
<1>. HIDE DEF c
<1>9. \A K \in SUBSET U : seeds \subseteq K /\ (\A t \in SUBSET K : g[t] \subseteq K)
               => c[seeds] \subseteq K
  BY <1>3, <1>4, <1>6, <1>8, ClosureFacts
<1>10. C \in SUBSET U
  BY DEF U
<1>11. \A t \in SUBSET C : g[t] \subseteq C
  BY <1>3, <1>5, <1>10
<1>. QED
  BY <1>1, <1>4, <1>9, <1>10, <1>11

\* Variables v (of X) and objects m are a graph: m has what can be reached.
IsGraph(X, F, N, v, m, L) ==
    /\ IsFiniteSet(L)
    /\ DOMAIN m = L
    /\ N \notin L
    /\ \A x \in X : v[x] \in L \union {N}
    /\ Closed(m, L, F, N)
    /\ \A S \in SUBSET L :
         /\ \A x \in X : v[x] # N => v[x] \in S
         /\ \A i \in S, f \in F : m[i][f] # N => m[i][f] \in S
         => L \subseteq S

\* Where references go when the objects go where r says.
Renamed(r, N, l) == IF l = N THEN N ELSE r[l]

(* Graphs that are the same but for the names of their objects have the    *)
(* same size, and their references correspond.                             *)
LEMMA RenamingFacts ==
  ASSUME NEW X, NEW F, NEW N,
         NEW L, NEW v, NEW old, IsGraph(X, F, N, v, old, L),
         NEW M, NEW w, NEW new, IsGraph(X, F, N, w, new, M),
         NEW r, \A i \in L : r[i] # N, \A i, j \in L : r[i] = r[j] => i = j,
         \A x \in X : w[x] = Renamed(r, N, v[x]),
         \A i \in L, f \in F : r[i] \in M => new[r[i]][f] = Renamed(r, N, old[i][f])
  PROVE  /\ Cardinality(M) = Cardinality(L)
         /\ \A x \in X : v[x] = N <=> w[x] = N
         /\ \A p, q \in CounterpartsIn(X, F, N, v, w, old, new) :
              (p[1] = q[1] <=> p[2] = q[2]) /\ (p[1] = N <=> p[2] = N)
<1>1. /\ IsFiniteSet(L) /\ DOMAIN old = L /\ N \notin L /\ Closed(old, L, F, N)
      /\ \A x \in X : v[x] \in L \union {N}
      /\ \A i \in L, f \in F : old[i][f] \in L \union {N}
      /\ IsFiniteSet(M) /\ DOMAIN new = M /\ N \notin M /\ Closed(new, M, F, N)
      /\ \A x \in X : w[x] \in M \union {N}
      /\ \A i \in M, f \in F : new[i][f] \in M \union {N}
  BY DEF IsGraph, Closed
<1>2. /\ \A x \in X : v[x] = N <=> w[x] = N
      /\ \A x \in X : v[x] # N => v[x] \in L /\ r[v[x]] \in M /\ w[x] = r[v[x]]
  BY <1>1 DEF Renamed
<1>3. ASSUME NEW i \in L, r[i] \in M, NEW f \in F
      PROVE  /\ old[i][f] = N <=> new[r[i]][f] = N
             /\ old[i][f] # N => old[i][f] \in L /\ r[old[i][f]] \in M
                                 /\ new[r[i]][f] = r[old[i][f]]
  BY <1>1, <1>3 DEF Renamed
<1>4. \A i \in L : r[i] \in M
  <2>. DEFINE S == {i \in L : r[i] \in M}
  <2>1. \A x \in X : v[x] # N => v[x] \in S
    BY <1>2
  <2>2. \A i \in S, f \in F : old[i][f] # N => old[i][f] \in S
    BY <1>3
  <2>3. L \subseteq S
    <3>1. S \in SUBSET L
      OBVIOUS
    <3>. HIDE DEF S
    <3>. QED
      BY <2>1, <2>2, <3>1 DEF IsGraph
  <2>. QED
    BY <2>3
<1>5. \A j \in M : \E i \in L : r[i] = j
  <2>. DEFINE S == {j \in M : \E i \in L : r[i] = j}
  <2>1. \A x \in X : w[x] # N => w[x] \in S
    BY <1>2
  <2>2. \A j \in S, f \in F : new[j][f] # N => new[j][f] \in S
    BY <1>3
  <2>3. M \subseteq S
    <3>1. S \in SUBSET M
      OBVIOUS
    <3>. HIDE DEF S
    <3>. QED
      BY <2>1, <2>2, <3>1 DEF IsGraph
  <2>. QED
    BY <2>3
<1>6. Cardinality(M) = Cardinality(L)
  <2>. DEFINE b == [i \in L |-> r[i]]
  <2>1. b \in Bijection(L, M)
    BY <1>4, <1>5 DEF Bijection, Injection, IsInjective, Surjection
  <2>. QED
    BY <1>1, <2>1, FS_Bijection DEF ExistsBijection
<1>. DEFINE U == (L \union {N}) \X (M \union {N})
            C == {p \in U : p[2] = Renamed(r, N, p[1])}
            P == CounterpartsIn(X, F, N, v, w, old, new)
<1>7. \A i, j : <<i, j>> \in C <=> i \in L \union {N} /\ j \in M \union {N} /\ j = Renamed(r, N, i)
  OBVIOUS
<1>8. \A p, q \in C : (p[1] = q[1] <=> p[2] = q[2]) /\ (p[1] = N <=> p[2] = N)
  BY <1>1, <1>4 DEF Renamed
<1>9. C \in SUBSET U
  OBVIOUS
<1>10. \A x \in X : <<v[x], w[x]>> \in C
  <2>. HIDE DEF C
  <2>. QED
    BY <1>1, <1>7
<1>11. \A i \in L, j \in M, f \in F : <<i, j>> \in C => <<old[i][f], new[j][f]>> \in C
  <2>. HIDE DEF C
  <2>. SUFFICES ASSUME NEW i \in L, NEW j \in M, NEW f \in F, <<i, j>> \in C
                PROVE  <<old[i][f], new[j][f]>> \in C
    OBVIOUS
  <2>1. j = r[i]
    BY <1>1, <1>7 DEF Renamed
  <2>. QED
    BY <1>1, <1>7, <2>1
<1>. HIDE DEF C
<1>12. P \subseteq C
  BY <1>1, <1>9, <1>10, <1>11, CounterpartsFacts
<1>. QED
  BY <1>2, <1>6, <1>8, <1>12

-----------------------------------------------------------------------------
(***************************************************************************)
(* Sequences.                                                              *)
(***************************************************************************)
\* Steps of a recursion along numbers: f takes a number and what is there before.
Iterates(X, x, f, n, g) ==
    g = [k \in 0 .. n |-> IF k = 0 THEN x ELSE f[k][g[k - 1]]]

(* Recursion along the first n numbers defines a function.                 *)
LEMMA IterationExists ==
  ASSUME NEW n \in Nat, NEW X, NEW x \in X, NEW f \in [1 .. n -> [X -> X]]
  PROVE  \E g \in [0 .. n -> X] : Iterates(X, x, f, n, g)
<1>. DEFINE Step(g, k) == IF k = 0 THEN x ELSE f[k][g[k - 1]]
            T == {m \in Nat : m <= n =>
                    \E g \in [0 .. m -> X] : \A k \in 0 .. m : g[k] = Step(g, k)}
<1>1. 0 \in T
  <2>. DEFINE g == [k \in 0 .. 0 |-> x]
  <2>1. g \in [0 .. 0 -> X] /\ \A k \in 0 .. 0 : g[k] = Step(g, k)
    OBVIOUS
  <2>. QED
    BY <2>1
<1>2. ASSUME NEW m \in Nat, m \in T PROVE m + 1 \in T
  <2>. SUFFICES ASSUME m + 1 <= n
                PROVE  \E h \in [0 .. m + 1 -> X] : \A k \in 0 .. m + 1 : h[k] = Step(h, k)
    OBVIOUS
  <2>1. PICK g \in [0 .. m -> X] : \A k \in 0 .. m : g[k] = Step(g, k)
    BY <1>2
  <2>. DEFINE h == [k \in 0 .. m + 1 |-> IF k = m + 1 THEN f[m + 1][g[m]] ELSE g[k]]
  <2>2. m + 1 \in 1 .. n /\ g[m] \in X
    OBVIOUS
  <2>3. h \in [0 .. m + 1 -> X]
    BY <2>2
  <2>4. ASSUME NEW k \in 0 .. m + 1 PROVE h[k] = Step(h, k)
    <3>1. CASE k = m + 1
      <4>1. k # 0 /\ k - 1 = m /\ h[m] = g[m] /\ h[k] = f[m + 1][g[m]]
        BY <3>1
      <4>. QED
        BY <3>1, <4>1
    <3>2. CASE k # m + 1
      <4>1. k \in 0 .. m /\ h[k] = g[k]
        BY <3>2
      <4>2. CASE k = 0
        BY <2>1, <4>1, <4>2
      <4>3. CASE k # 0
        <5>1. h[k - 1] = g[k - 1]
          BY <4>1, <4>3
        <5>. QED
          BY <2>1, <4>1, <4>3, <5>1
      <4>. QED
        BY <4>2, <4>3
    <3>. QED
      BY <3>1, <3>2
  <2>. QED
    BY <2>3, <2>4
<1>. HIDE DEF T
<1>3. n \in T
  BY <1>1, <1>2, NatSetInduction
<1>4. PICK g \in [0 .. n -> X] : \A k \in 0 .. n : g[k] = Step(g, k)
  BY <1>3 DEF T
<1>5. Iterates(X, x, f, n, g)
  BY <1>4 DEF Iterates
<1>. QED
  BY <1>5

-----------------------------------------------------------------------------
(* A sequence without repetition is as long as the set of its elements.    *)
LEMMA LenOfInjective ==
  ASSUME NEW E, NEW s \in Seq(E), IsInjective(s)
  PROVE  IsFiniteSet(ToSet(s)) /\ Len(s) = Cardinality(ToSet(s))
<1>1. Len(s) \in Nat /\ DOMAIN s = 1 .. Len(s)
  OBVIOUS
<1>2. s \in Bijection(1 .. Len(s), ToSet(s))
  BY <1>1 DEF Bijection, Injection, Surjection, IsInjective, ToSet
<1>3. ExistsBijection(1 .. Len(s), ToSet(s))
  BY <1>2 DEF ExistsBijection
<1>4. IsFiniteSet(ToSet(s))
  BY <1>1, <1>3, FS_NatBijection
<1>. QED
  BY <1>1, <1>3, <1>4, FS_CountingElements

(* What stands where when two sequences are put together.                  *)
LEMMA ConcatAt ==
  ASSUME NEW E, NEW s \in Seq(E), NEW t \in Seq(E)
  PROVE  /\ s \o t \in Seq(E) /\ Len(s \o t) = Len(s) + Len(t)
         /\ \A i \in 1 .. Len(s) : (s \o t)[i] = s[i]
         /\ \A i \in 1 .. Len(t) : (s \o t)[Len(s) + i] = t[i]
OBVIOUS

(* The elements of two sequences, one after the other.                     *)
LEMMA ConcatElements ==
  ASSUME NEW E, NEW s \in Seq(E), NEW t \in Seq(E)
  PROVE  /\ s \o t \in Seq(E)
         /\ ToSet(s \o t) = ToSet(s) \union ToSet(t)
         /\ IsInjective(s) /\ IsInjective(t) /\ ToSet(s) \intersect ToSet(t) = {}
              => IsInjective(s \o t)
<1>. DEFINE m == Len(s)
            n == Len(t)
            u == s \o t
<1>1. /\ m \in Nat /\ n \in Nat /\ DOMAIN s = 1 .. m /\ DOMAIN t = 1 .. n
      /\ u \in Seq(E) /\ DOMAIN u = 1 .. m + n
      /\ \A i \in 1 .. m : u[i] = s[i]
      /\ \A i \in 1 .. n : u[m + i] = t[i]
  OBVIOUS
<1>. HIDE DEF m, n, u
<1>2. \A i \in 1 .. m + n : i \in 1 .. m \/ (i - m \in 1 .. n /\ m + (i - m) = i)
  BY <1>1
<1>3. \A i \in 1 .. m + n : (i \in 1 .. m /\ u[i] = s[i]) \/ (i - m \in 1 .. n /\ u[i] = t[i - m])
  <2>. TAKE i \in 1 .. m + n
  <2>1. CASE i \in 1 .. m
    BY <1>1, <2>1
  <2>2. CASE i - m \in 1 .. n /\ m + (i - m) = i
    BY <1>1, <2>2
  <2>. QED
    BY <1>2, <2>1, <2>2
<1>4. ToSet(u) = ToSet(s) \union ToSet(t)
  <2>1. \A i \in 1 .. m : i \in 1 .. m + n
    BY <1>1
  <2>2. \A i \in 1 .. n : m + i \in 1 .. m + n
    BY <1>1
  <2>3. \A i \in 1 .. m + n : u[i] \in ToSet(u)
    BY <1>1 DEF ToSet
  <2>4. \A i \in 1 .. m : s[i] \in ToSet(u)
    BY <1>1, <2>1, <2>3
  <2>5. \A i \in 1 .. n : t[i] \in ToSet(u)
    BY <1>1, <2>2, <2>3
  <2>6. \A i \in 1 .. m + n : u[i] \in ToSet(s) \/ u[i] \in ToSet(t)
    BY <1>1, <1>3 DEF ToSet
  <2>7. ToSet(s) \subseteq ToSet(u) /\ ToSet(t) \subseteq ToSet(u)
    BY <1>1, <2>4, <2>5 DEF ToSet
  <2>8. ToSet(u) \subseteq ToSet(s) \union ToSet(t)
    BY <1>1, <2>6 DEF ToSet
  <2>. QED
    BY <2>7, <2>8
<1>5. ASSUME IsInjective(s), IsInjective(t), ToSet(s) \intersect ToSet(t) = {}
      PROVE  IsInjective(u)
  <2>. SUFFICES ASSUME NEW i \in 1 .. m + n, NEW j \in 1 .. m + n, u[i] = u[j] PROVE i = j
    BY <1>1 DEF IsInjective
  <2>1. \A a \in 1 .. m, b \in 1 .. n : s[a] # t[b]
    BY <1>1, <1>5 DEF ToSet
  <2>2. CASE i \in 1 .. m /\ u[i] = s[i] /\ j \in 1 .. m /\ u[j] = s[j]
    BY <1>1, <1>5, <2>2 DEF IsInjective
  <2>3. CASE i - m \in 1 .. n /\ u[i] = t[i - m] /\ j - m \in 1 .. n /\ u[j] = t[j - m]
    <3>1. i - m = j - m
      BY <1>1, <1>5, <2>3 DEF IsInjective
    <3>. QED
      BY <1>1, <3>1
  <2>. QED
    BY <1>3, <2>1, <2>2, <2>3
<1>. QED
  BY <1>1, <1>4, <1>5 DEF u

(* What a loop puts in a list: the elements chosen, each as often as met.  *)
LEMMA InFrontFacts ==
  ASSUME NEW E, NEW s \in Seq(E), NEW S
  PROVE  /\ InFront(s, S) \in Seq(E)
         /\ ToSet(InFront(s, S)) = ToSet(s) \intersect S
         /\ IsInjective(s) => IsInjective(InFront(s, S))
<1>. DEFINE n == Len(s)
            Put(k, x) == IF s[k] \in S THEN <<s[k]>> \o x ELSE x
            f == [k \in 1 .. n |-> [x \in Seq(E) |-> Put(k, x)]]
            l == CHOOSE g : g = [k \in 0 .. n |-> IF k = 0 THEN <<>>
                     ELSE IF s[k] \in S THEN <<s[k]>> \o g[k - 1] ELSE g[k - 1]]
<1>1. InFront(s, S) = l[n]
  BY SMT DEF InFront
<1>2. n \in Nat /\ DOMAIN s = 1 .. n /\ \A k \in 1 .. n : s[k] \in E
  OBVIOUS
<1>3. \A k \in 1 .. n, x \in Seq(E) : Put(k, x) \in Seq(E) /\ f[k][x] = Put(k, x)
  BY <1>2
<1>. HIDE DEF n
<1>4. l = [k \in 0 .. n |-> IF k = 0 THEN <<>> ELSE Put(k, l[k - 1])] /\ \A k \in 0 .. n : l[k] \in Seq(E)
  <2>1. f \in [1 .. n -> [Seq(E) -> Seq(E)]]
    BY <1>3
  <2>2. <<>> \in Seq(E)
    OBVIOUS
  <2>. HIDE DEF f, Put
  <2>3. PICK g \in [0 .. n -> Seq(E)] : Iterates(Seq(E), <<>>, f, n, g)
    BY <1>2, <2>1, <2>2, IterationExists
  <2>4. g = [k \in 0 .. n |-> IF k = 0 THEN <<>> ELSE Put(k, g[k - 1])]
    <3>1. g = [k \in 0 .. n |-> IF k = 0 THEN <<>> ELSE f[k][g[k - 1]]]
      BY <2>3 DEF Iterates
    <3>2. \A k \in 0 .. n : k # 0 => k \in 1 .. n /\ k - 1 \in 0 .. n
      BY <1>2
    <3>3. \A k \in 0 .. n : k # 0 => f[k][g[k - 1]] = Put(k, g[k - 1])
      BY <1>3, <3>2
    <3>. QED
      BY <3>1, <3>3
  <2>5. \E h : h = [k \in 0 .. n |-> IF k = 0 THEN <<>> ELSE Put(k, h[k - 1])]
    BY <2>4
  <2>6. l = [k \in 0 .. n |-> IF k = 0 THEN <<>> ELSE Put(k, l[k - 1])]
    BY <2>5 DEF Put
  <2>. DEFINE T == {k \in Nat : k \in 0 .. n => l[k] \in Seq(E)}
  <2>. HIDE DEF l
  <2>7. 0 \in T
    BY <1>2, <2>2, <2>6
  <2>8. ASSUME NEW k \in Nat, k \in T PROVE k + 1 \in T
    <3>. SUFFICES ASSUME k + 1 \in 0 .. n PROVE l[k + 1] \in Seq(E)
      OBVIOUS
    <3>1. k \in 0 .. n /\ k + 1 # 0 /\ (k + 1) - 1 = k /\ k + 1 \in 1 .. n
      BY <1>2
    <3>2. l[k + 1] = Put(k + 1, l[k])
      BY <2>6, <3>1
    <3>. QED
      BY <1>3, <2>8, <3>1, <3>2
  <2>. HIDE DEF T
  <2>9. Nat \subseteq T
    BY <2>7, <2>8, NatSetInduction
  <2>10. \A k \in 0 .. n : k \in T
    BY <1>2, <2>9
  <2>11. \A k \in 0 .. n : l[k] \in Seq(E)
    BY <2>10 DEF T
  <2>. QED
    BY <2>6, <2>11
<1>. HIDE DEF l, f
<1>. DEFINE Upto(k) == {s[i] : i \in 1 .. k}
            Right(k) == /\ ToSet(l[k]) = Upto(k) \intersect S
                        /\ IsInjective(s) => IsInjective(l[k])
            T == {k \in Nat : k <= n => Right(k)}
<1>5. 0 \in T
  <2>1. l[0] = <<>>
    BY <1>2, <1>4
  <2>. QED
    BY <2>1 DEF ToSet, IsInjective
<1>6. ASSUME NEW k \in Nat, k \in T PROVE k + 1 \in T
  <2>. SUFFICES ASSUME k + 1 <= n PROVE Right(k + 1)
    OBVIOUS
  <2>1. k \in 0 .. n /\ k + 1 \in 0 .. n /\ k + 1 # 0 /\ (k + 1) - 1 = k /\ k + 1 \in 1 .. n
    BY <1>2
  <2>2. l[k + 1] = Put(k + 1, l[k]) /\ l[k] \in Seq(E) /\ s[k + 1] \in E
    BY <1>2, <1>4, <2>1
  <2>3. Upto(k + 1) = Upto(k) \union {s[k + 1]}
    OBVIOUS
  <2>4. Right(k)
    BY <1>6, <2>1
  <2>5. CASE s[k + 1] \notin S
    BY <2>2, <2>3, <2>4, <2>5
  <2>6. CASE s[k + 1] \in S
    <3>. DEFINE a == s[k + 1]
                c == l[k]
    <3>1. l[k + 1] = <<a>> \o c
      BY <2>2, <2>6
    <3>2. Upto(k + 1) \intersect S = {a} \union ToSet(c)
      BY <2>3, <2>4, <2>6
    <3>3. IsInjective(s) => a \notin ToSet(c)
      <4>1. \A i \in 1 .. k : i \in DOMAIN s /\ k + 1 \in DOMAIN s /\ i # k + 1
        BY <1>2, <2>1
      <4>2. IsInjective(s) => \A i \in 1 .. k : s[i] # s[k + 1]
        BY <4>1 DEF IsInjective
      <4>. QED
        BY <2>4, <4>2
    <3>4. c \in Seq(E) /\ a \in E
      BY <2>2
    <3>5. IsInjective(s) => IsInjective(c)
      BY <2>4
    <3>. HIDE DEF a, c
    <3>. DEFINE b == <<a>>
    <3>6. b \in Seq(E) /\ ToSet(b) = {a} /\ IsInjective(b)
      BY <3>4 DEF ToSet, IsInjective
    <3>. HIDE DEF b
    <3>7. ToSet(b \o c) = ToSet(b) \union ToSet(c)
      BY <3>4, <3>6, ConcatElements
    <3>8. IsInjective(s) => IsInjective(b \o c)
      BY <3>3, <3>4, <3>5, <3>6, ConcatElements
    <3>9. ToSet(l[k + 1]) = Upto(k + 1) \intersect S
      BY <3>1, <3>2, <3>6, <3>7 DEF b
    <3>10. IsInjective(s) => IsInjective(l[k + 1])
      BY <3>1, <3>8 DEF b
    <3>. QED
      BY <3>9, <3>10
  <2>. QED
    BY <2>5, <2>6
<1>. HIDE DEF T, Right, Put
<1>7. n \in T
  BY <1>2, <1>5, <1>6, NatSetInduction
<1>8. Right(n)
  BY <1>2, <1>7 DEF T
<1>9. Upto(n) = ToSet(s)
  BY <1>2 DEF ToSet
<1>. QED
  BY <1>1, <1>2, <1>4, <1>8, <1>9 DEF Right

(* The elements of several sequences, one after the other.                 *)
LEMMA FlattenFacts ==
  ASSUME NEW E, NEW ss \in Seq(Seq(E))
  PROVE  /\ FlattenSeq(ss) \in Seq(E)
         /\ ToSet(FlattenSeq(ss)) = UNION {ToSet(ss[i]) : i \in DOMAIN ss}
         /\ /\ \A i \in DOMAIN ss : IsInjective(ss[i])
            /\ \A i, j \in DOMAIN ss : i # j => ToSet(ss[i]) \intersect ToSet(ss[j]) = {}
            => IsInjective(FlattenSeq(ss))
<1>. DEFINE n == Len(ss)
            f == [k \in 1 .. n |-> [x \in Seq(E) |-> x \o ss[k]]]
            l == CHOOSE g : g = [k \in 1 .. n |-> IF k = 1 THEN ss[k] ELSE g[k - 1] \o ss[k]]
<1>1. FlattenSeq(ss) = IF n = 0 THEN ss ELSE l[n]
  BY SMT DEF FlattenSeq
<1>2. n \in Nat /\ DOMAIN ss = 1 .. n /\ \A k \in 1 .. n : ss[k] \in Seq(E)
  OBVIOUS
<1>3. CASE n = 0
  <2>1. FlattenSeq(ss) = ss /\ ss = <<>>
    BY <1>1, <1>3
  <2>2. DOMAIN ss = {} /\ ss \in Seq(E)
    BY <2>1
  <2>. QED
    BY <2>1, <2>2 DEF ToSet, IsInjective
<1>4. CASE n # 0
  <2>1. f \in [1 .. n -> [Seq(E) -> Seq(E)]] /\ \A k \in 1 .. n, x \in Seq(E) : f[k][x] = x \o ss[k]
    BY <1>2, ConcatElements
  <2>2. <<>> \in Seq(E)
    OBVIOUS
  <2>. HIDE DEF f, n
  <2>3. PICK g \in [0 .. n -> Seq(E)] : Iterates(Seq(E), <<>>, f, n, g)
    BY <1>2, <2>1, <2>2, IterationExists
  <2>4. g[0] = <<>> /\ \A k \in 1 .. n : k - 1 \in 0 .. n /\ g[k] = g[k - 1] \o ss[k]
    <3>1. g = [k \in 0 .. n |-> IF k = 0 THEN <<>> ELSE f[k][g[k - 1]]]
      BY <2>3 DEF Iterates
    <3>2. \A k \in 1 .. n : k \in 0 .. n /\ k # 0 /\ k - 1 \in 0 .. n
      BY <1>2
    <3>3. \A k \in 1 .. n : g[k] = f[k][g[k - 1]]
      BY <3>1, <3>2
    <3>4. \A k \in 1 .. n : f[k][g[k - 1]] = g[k - 1] \o ss[k]
      BY <2>1, <3>2
    <3>5. g[0] = <<>>
      BY <1>2, <3>1
    <3>. QED
      BY <3>2, <3>3, <3>4, <3>5
  <2>. DEFINE h == [k \in 1 .. n |-> g[k]]
  <2>5. \A k \in 1 .. n : h[k] = IF k = 1 THEN ss[k] ELSE h[k - 1] \o ss[k]
    <3>. TAKE k \in 1 .. n
    <3>1. CASE k = 1
      <4>1. ss[k] \in Seq(E) /\ k - 1 = 0
        BY <1>2, <3>1
      <4>2. g[k] = <<>> \o ss[k]
        BY <2>4, <4>1
      <4>. QED
        BY <3>1, <4>1, <4>2
    <3>2. CASE k # 1
      <4>1. k - 1 \in 1 .. n
        BY <1>2, <3>2
      <4>. QED
        BY <2>4, <3>2, <4>1
    <3>. QED
      BY <3>1, <3>2
  <2>6. h = [k \in 1 .. n |-> IF k = 1 THEN ss[k] ELSE h[k - 1] \o ss[k]]
    BY <2>5
  <2>. HIDE DEF h
  <2>7. l = [k \in 1 .. n |-> IF k = 1 THEN ss[k] ELSE l[k - 1] \o ss[k]]
    <3>1. \E d : d = [k \in 1 .. n |-> IF k = 1 THEN ss[k] ELSE d[k - 1] \o ss[k]]
      BY <2>6
    <3>. QED
      BY <3>1, Zenon
  <2>. HIDE DEF l
  <2>. DEFINE Upto(k) == UNION {ToSet(ss[i]) : i \in 1 .. k}
              Apart == /\ \A i \in 1 .. n : IsInjective(ss[i])
                       /\ \A i, j \in 1 .. n : i # j => ToSet(ss[i]) \intersect ToSet(ss[j]) = {}
              Right(k) == /\ l[k] \in Seq(E) /\ ToSet(l[k]) = Upto(k)
                          /\ Apart => IsInjective(l[k])
              T == {k \in Nat : k \in 1 .. n => Right(k)}
  <2>8. 0 \in T
    OBVIOUS
  <2>9. ASSUME NEW k \in Nat, k \in T PROVE k + 1 \in T
    <3>. HIDE DEF Right
    <3>. SUFFICES ASSUME k + 1 \in 1 .. n PROVE Right(k + 1)
      OBVIOUS
    <3>1. k \in 1 .. n => Right(k)
      BY <2>9
    <3>. USE DEF Right
    <3>. HIDE DEF T, Apart
    <3>2. Upto(k + 1) = Upto(k) \union ToSet(ss[k + 1]) /\ ss[k + 1] \in Seq(E)
      <4>1. 1 .. k + 1 = (1 .. k) \union {k + 1}
        OBVIOUS
      <4>2. ss[k + 1] \in Seq(E)
        BY <1>2
      <4>. QED
        BY <4>1, <4>2
    <3>3. CASE k = 0
      <4>1. k + 1 = 1 /\ Upto(0) = {}
        BY <3>3
      <4>2. l[k + 1] = ss[k + 1]
        BY <2>7, <4>1
      <4>3. Apart => IsInjective(ss[k + 1])
        BY DEF Apart
      <4>4. Upto(k + 1) = ToSet(ss[k + 1])
        BY <3>2, <3>3, <4>1
      <4>. HIDE DEF Upto
      <4>. QED
        BY <3>2, <4>2, <4>3, <4>4
    <3>4. CASE k # 0
      <4>1. k \in 1 .. n /\ k + 1 # 1 /\ (k + 1) - 1 = k
        BY <1>2, <3>4
      <4>2. l[k + 1] = l[k] \o ss[k + 1]
        BY <2>7, <4>1
      <4>3. Right(k)
        BY <3>1, <4>1
      <4>4. Apart => ToSet(l[k]) \intersect ToSet(ss[k + 1]) = {}
        <5>1. Apart => \A i \in 1 .. k : ToSet(ss[i]) \intersect ToSet(ss[k + 1]) = {}
          <6>1. \A i \in 1 .. k : i \in 1 .. n /\ i # k + 1
            BY <1>2
          <6>. QED
            BY <6>1 DEF Apart
        <5>2. ToSet(l[k]) = Upto(k)
          BY <4>3
        <5>3. Apart => \A x \in Upto(k) : x \notin ToSet(ss[k + 1])
          BY <5>1
        <5>. HIDE DEF Upto
        <5>. QED
          BY <5>2, <5>3
      <4>5. /\ l[k + 1] \in Seq(E) /\ ToSet(l[k + 1]) = ToSet(l[k]) \union ToSet(ss[k + 1])
            /\ IsInjective(l[k]) /\ IsInjective(ss[k + 1])
                /\ ToSet(l[k]) \intersect ToSet(ss[k + 1]) = {} => IsInjective(l[k + 1])
        BY <3>2, <4>2, <4>3, ConcatElements
      <4>6. Apart => IsInjective(l[k + 1])
        <5>1. Apart => IsInjective(ss[k + 1])
          BY DEF Apart
        <5>. QED
          BY <4>3, <4>4, <4>5, <5>1
      <4>. HIDE DEF Apart, Upto
      <4>. QED
        BY <3>2, <4>3, <4>5, <4>6
    <3>. QED
      BY <3>3, <3>4
  <2>. HIDE DEF T, Right, Upto, Apart
  <2>10. n \in T
    BY <1>2, <2>8, <2>9, NatSetInduction
  <2>11. Right(n)
    BY <1>2, <1>4, <2>10 DEF T
  <2>12. FlattenSeq(ss) = l[n]
    BY <1>1, <1>4
  <2>. QED
    BY <1>2, <2>11, <2>12 DEF Right, Apart, Upto
<1>. QED
  BY <1>3, <1>4
=============================================================================
