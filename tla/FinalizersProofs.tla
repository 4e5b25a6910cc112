--------------------------- MODULE FinalizersProofs ---------------------------
(***************************************************************************)
(* Proofs about Finalizers under portablems: for any number of threads,    *)
(* objects and entries, and whatever the functions called do, no entry is  *)
(* lost or swept before its function is called, none is called twice, and  *)
(* only entries of dead objects become ready.  gembc does none of this.    *)
(***************************************************************************)
EXTENDS Finalizers, DataLemmas

-----------------------------------------------------------------------------
(***************************************************************************)
(* The inductive invariant.                                                *)
(***************************************************************************)
Things == Objects \union Entries

Calls == [list : Entries, current : Entries \union {Null}]

Types ==
    /\ local \in [Threads -> SUBSET Objects]
    /\ pointer \in [Objects -> Objects \union {Null}]
    /\ obj \in [Entries -> Objects \union {Null}]
    /\ next \in [Entries -> Entries \union {Null}]
    /\ finalizers \in [Threads -> Entries \union {Null}]
    /\ frames \in [Threads -> Seq(Calls)]

Attached == {e \in Entries : obj[e] # Null}

\* The first entry on the list of t's pool, or the next that the i-th call of
\* ggggc_runFinalizers in t is to call.
Start(t, i) == IF i = 0 THEN finalizers[t] ELSE Following(frames[t][i])

\* The entries of s are chained from e on, as nx says.
Strung(nx, e, s) ==
    IF s = <<>> THEN e = Null
    ELSE /\ e = s[1]
         /\ nx[s[Len(s)]] = Null
         /\ \A j \in 1 .. Len(s) - 1 : nx[s[j]] = s[j + 1]

Places == [Threads -> [Nat -> Seq(Entries)]]

\* ch are the entries on the list of each thread's pool (at 0) and those its calls
\* of ggggc_runFinalizers have yet to call: each that waits is on one list.
ListsRight(ch) ==
    /\ \A t \in Threads, i \in Nat :
        /\ i <= Len(frames[t]) => Strung(next, Start(t, i), ch[t][i])
        /\ i > Len(frames[t]) => ch[t][i] = <<>>
        /\ IsInjective(ch[t][i])
    /\ \A t, u \in Threads, i, j \in Nat :
        t # u \/ i # j => ToSet(ch[t][i]) \intersect ToSet(ch[u][j]) = {}
    /\ \A e \in Entries :
        e \in Attached \ called <=> \E t \in Threads, i \in Nat : e \in ToSet(ch[t][i])

\* The entries on pools' lists.
Pooled(ch) == UNION {ToSet(ch[t][0]) : t \in Threads}

\* Nothing that has been called or taken off leads back to a pool's list.
AsideRight(ch) ==
    /\ called \in SUBSET Attached
    /\ \A e \in called : next[e] \in (Attached \ Pooled(ch)) \union {Null}
    /\ \A t \in Threads, i \in Nat : i \in 1 .. Len(frames[t]) =>
        /\ frames[t][i].list \in Attached \ Pooled(ch)
        /\ frames[t][i].current # Null => frames[t][i].current \in called

\* Only the last call in a thread may not have called anything yet, and no two
\* are calling the same entry.
FramesRight ==
    \A t \in Threads, i \in Nat : i \in 1 .. Len(frames[t]) =>
        /\ frames[t][i].current = Null => i = Len(frames[t])
        /\ \A u \in Threads, j \in Nat :
            /\ j \in 1 .. Len(frames[u])
            /\ frames[t][i].current # Null
            /\ frames[t][i].current = frames[u][j].current
            => t = u /\ i = j

\* With a thing, what it leads to.
ClosedIn(nx, S) ==
    /\ \A o \in S \intersect Objects : pointer[o] # Null => pointer[o] \in S
    /\ \A e \in S \intersect Entries :
        /\ obj[e] # Null => obj[e] \in S
        /\ nx[e] # Null => nx[e] \in S

HeapRight ==
    /\ heap \in SUBSET (Objects \union Attached)
    /\ ClosedIn(next, heap)
    /\ Attached \ called \subseteq heap
    /\ \A t \in Threads : local[t] \subseteq heap
    /\ \A t \in Threads, i \in Nat : i \in 1 .. Len(frames[t]) =>
        /\ frames[t][i].list \in heap
        /\ frames[t][i].current # Null => frames[t][i].current \in heap

Right(ch) == ListsRight(ch) /\ AsideRight(ch)

IInv == Types /\ FramesRight /\ HeapRight /\ \E ch \in Places : Right(ch)

-----------------------------------------------------------------------------
(***************************************************************************)
(* What is reached, and chains.                                            *)
(***************************************************************************)
(* What is reached is the least closed set.                                *)
LEMMA ReachedLeast ==
  ASSUME pointer \in [Objects -> Objects \union {Null}],
         obj \in [Entries -> Objects \union {Null}],
         NEW nx \in [Entries -> Entries \union {Null}],
         NEW G \in SUBSET (Things \union {Null})
  PROVE  /\ Reached(nx, G) \in SUBSET Things
         /\ \A x \in G : x # Null => x \in Reached(nx, G)
         /\ ClosedIn(nx, Reached(nx, G))
         /\ \A C \in SUBSET Things :
              (\A x \in G : x # Null => x \in C) /\ ClosedIn(nx, C) => Reached(nx, G) \subseteq C
<1>. DEFINE Pointers(x) == IF x \in Objects THEN {pointer[x]} ELSE {obj[x], nx[x]}
            more(s) == s \union ((UNION {Pointers(x) : x \in s}) \ {Null})
            g == [s \in SUBSET Things |-> more(s)]
            c == CHOOSE d : d = [s \in SUBSET Things |-> IF more(s) = s THEN s ELSE d[more(s)]]
            seeds == G \ {Null}
            R == Reached(nx, G)
<1>1. R = c[seeds]
  BY SMT DEF Reached, Things
<1>2. /\ \A x \in Things : \A y \in Pointers(x) : y = Null \/ y \in Things
      /\ \A x \in Objects : Pointers(x) = {pointer[x]}
      /\ \A x \in Entries : x \notin Objects /\ Pointers(x) = {obj[x], nx[x]}
  BY FinalizersAssumption DEF Things
<1>. HIDE DEF Pointers
<1>3. \A s, y : y \in more(s) <=> y \in s \/ (y # Null /\ \E x \in s : y \in Pointers(x))
  OBVIOUS
<1>4. \A s \in SUBSET Things : more(s) \in SUBSET Things /\ s \subseteq more(s) /\ g[s] = more(s)
  <2>. HIDE DEF more
  <2>1. \A s \in SUBSET Things : more(s) \in SUBSET Things /\ s \subseteq more(s)
    BY <1>3, <1>2
  <2>. QED
    BY <2>1
<1>5. Grows(Things, g)
  <2>. HIDE DEF more
  <2>. QED
    BY <1>4 DEF Grows
<1>6. \A d : [s \in SUBSET Things |-> IF more(s) = s THEN s ELSE d[more(s)]]
               = [s \in SUBSET Things |-> Closing(g, d, s)]
  <2>. HIDE DEF g, more
  <2>. QED
    BY <1>4 DEF Closing
<1>7. seeds \in SUBSET Things
  OBVIOUS
<1>8. \A s : more(s) = s => \A x \in s : \A y \in Pointers(x) : y # Null => y \in s
  <2>. HIDE DEF more
  <2>. QED
    BY <1>3
<1>9. \A C : (\A x \in C : \A y \in Pointers(x) : y # Null => y \in C)
               => \A s \in SUBSET C : more(s) \subseteq C
  <2>. HIDE DEF more
  <2>. QED
    BY <1>3
<1>10. \A C \in SUBSET Things :
         ClosedIn(nx, C) <=> \A x \in C : \A y \in Pointers(x) : y # Null => y \in C
  BY <1>2 DEF ClosedIn, Things
<1>11. IsFiniteSet(Things)
  BY FinalizersAssumption, FS_Union DEF Things
<1>12. \A C : (\A x \in G : x # Null => x \in C) => seeds \subseteq C
  OBVIOUS
<1>13. \A x \in G : x # Null => x \in seeds
  OBVIOUS
<1>. HIDE DEF g, more, Things, seeds
<1>14. IsClosing(Things, g, c)
  <2>1. PICK d : IsClosing(Things, g, d)
    BY <1>5, <1>11, ClosureExists
  <2>2. \E e : e = [s \in SUBSET Things |-> IF more(s) = s THEN s ELSE e[more(s)]]
    BY <1>6, <2>1 DEF IsClosing
  <2>3. c = [s \in SUBSET Things |-> IF more(s) = s THEN s ELSE c[more(s)]]
    BY <2>2, Zenon
  <2>. HIDE DEF c
  <2>. QED
    BY <1>6, <2>3 DEF IsClosing
<1>. HIDE DEF c
<1>15. /\ c[seeds] \in SUBSET Things /\ seeds \subseteq c[seeds] /\ g[c[seeds]] = c[seeds]
       /\ \A C \in SUBSET Things : seeds \subseteq C /\ (\A t \in SUBSET C : g[t] \subseteq C)
                => c[seeds] \subseteq C
  BY <1>5, <1>7, <1>11, <1>14, ClosureFacts
<1>. HIDE DEF R
<1>16. more(R) = R /\ R \in SUBSET Things /\ seeds \subseteq R
  BY <1>1, <1>4, <1>15
<1>17. ClosedIn(nx, R)
  BY <1>8, <1>10, <1>16
<1>18. ASSUME NEW C \in SUBSET Things, \A x \in G : x # Null => x \in C, ClosedIn(nx, C)
       PROVE  R \subseteq C
  <2>1. seeds \subseteq C
    BY <1>12, <1>18
  <2>2. \A t \in SUBSET C : more(t) \subseteq C
    BY <1>9, <1>10, <1>18
  <2>3. \A t \in SUBSET C : g[t] \subseteq C
    BY <1>4, <2>2
  <2>. QED
    BY <1>1, <1>15, <2>1, <2>3
<1>. QED
  BY <1>16, <1>17, <1>13, <1>18 DEF R

(* Entries that are chained are found one by one.                          *)
LEMMA ChainIsStrung ==
  ASSUME NEW nx, NEW e, NEW s \in Seq(Entries), IsInjective(s), Strung(nx, e, s)
  PROVE  Chain(nx, e) = s
<1>. DEFINE n == Cardinality(Entries)
            More(c, k) == IF k = 1 THEN e ELSE IF Len(c) < k - 1 THEN Null ELSE nx[Last(c)]
            Step(g, k) == IF k = 0 THEN <<>>
                          ELSE IF More(g[k - 1], k) = Null THEN g[k - 1]
                          ELSE Append(g[k - 1], More(g[k - 1], k))
            chain == CHOOSE g : g = [k \in 0 .. n |-> Step(g, k)]
            w == [k \in 0 .. n |-> IF k < Len(s) THEN SubSeq(s, 1, k) ELSE s]
<1>1. Chain(nx, e) = chain[n]
  BY Zenon DEF Chain
<1>2. n \in Nat /\ Len(s) \in Nat /\ Len(s) <= n /\ DOMAIN s = 1 .. Len(s)
  <2>1. IsFiniteSet(Entries) /\ n \in Nat
    BY FinalizersAssumption, FS_CardinalityType
  <2>2. Len(s) = Cardinality(ToSet(s))
    BY LenOfInjective
  <2>3. Cardinality(ToSet(s)) <= n
    <3>1. ToSet(s) \in SUBSET Entries
      BY DEF ToSet
    <3>. QED
      BY <2>1, <3>1, FS_Subset
  <2>. QED
    BY <2>1, <2>2, <2>3
<1>3. Null \notin Entries /\ \A i \in 1 .. Len(s) : s[i] \in Entries
  BY FinalizersAssumption
<1>. HIDE DEF n
<1>4. SubSeq(s, 1, Len(s)) = s
  OBVIOUS
<1>5. \A k \in 0 .. n : /\ k <= Len(s) => w[k] = SubSeq(s, 1, k)
                        /\ k >= Len(s) => w[k] = s
  <2>. DEFINE m == Len(s)
              sub(k) == SubSeq(s, 1, k)
  <2>1. m \in Nat /\ sub(m) = s
    BY <1>2, <1>4
  <2>2. \A k \in 0 .. n : w[k] = IF k < m THEN sub(k) ELSE s
    OBVIOUS
  <2>. HIDE DEF m, sub, w
  <2>3. \A k \in 0 .. n : (k <= m => w[k] = sub(k)) /\ (k >= m => w[k] = s)
    <3>. TAKE k \in 0 .. n
    <3>1. CASE k = m
      BY <2>1, <2>2, <3>1
    <3>2. CASE k < m
      BY <1>2, <2>1, <2>2, <3>2
    <3>3. CASE k > m
      BY <1>2, <2>1, <2>2, <3>3
    <3>4. k \in Nat
      BY <1>2
    <3>. QED
      BY <2>1, <3>1, <3>2, <3>3, <3>4
  <2>. QED
    BY <2>3 DEF m, sub
<1>. HIDE DEF w
<1>6. ASSUME NEW k \in 0 .. n, k # 0 PROVE w[k] = Step(w, k)
  <2>1. k - 1 \in 0 .. n /\ k \in Nat
    BY <1>2, <1>6
  <2>2. CASE k > Len(s) + 1
    <3>1. w[k - 1] = s /\ w[k] = s
      BY <1>2, <1>5, <2>1, <2>2
    <3>2. More(s, k) = Null
      BY <1>2, <2>2
    <3>. QED
      BY <1>6, <3>1, <3>2
  <2>3. CASE k = Len(s) + 1
    <3>1. w[k - 1] = s /\ w[k] = s
      BY <1>2, <1>5, <2>1, <2>3
    <3>2. More(s, k) = Null
      <4>1. CASE k = 1
        BY <1>2, <2>3, <4>1 DEF Strung
      <4>2. CASE k # 1
        <5>1. s # <<>> /\ Len(s) = k - 1
          BY <1>2, <2>3, <4>2
        <5>. QED
          BY <1>2, <4>2, <5>1 DEF Strung, Last
      <4>. QED
        BY <4>1, <4>2
    <3>. QED
      BY <1>6, <3>1, <3>2
  <2>4. CASE k <= Len(s)
    <3>. DEFINE c == SubSeq(s, 1, k - 1)
    <3>1. w[k - 1] = c /\ w[k] = SubSeq(s, 1, k)
      BY <1>2, <1>5, <2>1, <2>4
    <3>2. /\ c \in Seq(Entries) /\ Len(c) = k - 1
          /\ \A i \in 1 .. k - 1 : c[i] = s[i]
      BY <1>2, <2>1, <2>4
    <3>3. SubSeq(s, 1, k) = Append(c, s[k])
      BY <1>2, <2>1, <2>4
    <3>. HIDE DEF c
    <3>4. More(c, k) = s[k]
      <4>1. CASE k = 1
        BY <2>4, <4>1 DEF Strung
      <4>2. CASE k # 1
        <5>1. k - 1 \in 1 .. Len(s) - 1 /\ k - 1 + 1 = k /\ k - 1 \in 1 .. k - 1 /\ s # <<>>
          BY <1>2, <2>1, <2>4, <4>2
        <5>2. Last(c) = s[k - 1]
          BY <3>2, <5>1 DEF Last
        <5>3. nx[s[k - 1]] = s[k]
          BY <5>1 DEF Strung
        <5>. QED
          BY <2>1, <3>2, <4>2, <5>2, <5>3
      <4>. QED
        BY <4>1, <4>2
    <3>5. s[k] # Null
      BY <1>2, <1>3, <2>1, <2>4, <1>6
    <3>. HIDE DEF w, More
    <3>. QED
      BY <1>6, <3>1, <3>3, <3>4, <3>5
  <2>. QED
    BY <1>2, <2>1, <2>2, <2>3, <2>4
<1>7. w[0] = <<>>
  <2>1. SubSeq(s, 1, 0) = <<>>
    OBVIOUS
  <2>. QED
    BY <1>2, <1>5, <2>1
<1>8. w = [k \in 0 .. n |-> Step(w, k)]
  <2>1. \A k \in 0 .. n : w[k] = Step(w, k)
    <3>. HIDE DEF More
    <3>. QED
      BY <1>6, <1>7
  <2>. HIDE DEF Step
  <2>2. DOMAIN w = 0 .. n /\ w = [k \in 0 .. n |-> w[k]]
    BY DEF w
  <2>. QED
    BY <2>1, <2>2
<1>9. w[n] = s
  BY <1>2, <1>5
<1>. HIDE DEF w, More
<1>10. chain = [k \in 0 .. n |-> Step(chain, k)]
  <2>1. \E g : g = [k \in 0 .. n |-> Step(g, k)]
    BY <1>8
  <2>. HIDE DEF Step
  <2>. QED
    BY <2>1, Zenon
<1>. HIDE DEF chain
<1>. DEFINE T == {k \in Nat : k \in 0 .. n => chain[k] = w[k]}
<1>11. 0 \in T
  BY <1>2, <1>7, <1>10
<1>12. ASSUME NEW k \in Nat, k \in T PROVE k + 1 \in T
  <2>. SUFFICES ASSUME k + 1 \in 0 .. n PROVE chain[k + 1] = w[k + 1]
    OBVIOUS
  <2>1. k \in 0 .. n /\ k + 1 # 0 /\ (k + 1) - 1 = k
    BY <1>2
  <2>2. chain[k] = w[k]
    BY <1>12, <2>1
  <2>3. chain[k + 1] = Step(chain, k + 1) /\ w[k + 1] = Step(w, k + 1)
    <3>. HIDE DEF Step
    <3>. QED
      BY <1>8, <1>10
  <2>. QED
    BY <2>1, <2>2, <2>3
<1>. HIDE DEF T
<1>13. n \in T
  BY <1>2, <1>11, <1>12, NatSetInduction
<1>. QED
  BY <1>1, <1>2, <1>9, <1>13 DEF T

(* A chain does not depend on how other entries are chained.               *)
LEMMA StrungElsewhere ==
  ASSUME NEW nx, NEW mx, NEW e, NEW s \in Seq(Entries), Strung(nx, e, s),
         \A x \in ToSet(s) : mx[x] = nx[x]
  PROVE  Strung(mx, e, s)
<1>1. \A j \in 1 .. Len(s) : s[j] \in ToSet(s)
  BY DEF ToSet
<1>2. CASE s = <<>>
  BY <1>2 DEF Strung
<1>3. CASE s # <<>>
  <2>1. Len(s) \in 1 .. Len(s) /\ \A j \in 1 .. Len(s) - 1 : j \in 1 .. Len(s)
    BY <1>3
  <2>. QED
    BY <1>1, <1>3, <2>1 DEF Strung
<1>. QED
  BY <1>2, <1>3

(* An entry before a chain makes a longer one.                             *)
LEMMA StrungCons ==
  ASSUME NEW nx, NEW x \in Entries, NEW s \in Seq(Entries), Strung(nx, nx[x], s),
         IsInjective(s), x \notin ToSet(s)
  PROVE  /\ <<x>> \o s \in Seq(Entries)
         /\ ToSet(<<x>> \o s) = ToSet(s) \union {x}
         /\ IsInjective(<<x>> \o s)
         /\ Strung(nx, x, <<x>> \o s)
<1>. DEFINE h == <<x>>
            u == h \o s
            n == Len(s)
<1>1. h \in Seq(Entries) /\ Len(h) = 1 /\ h[1] = x
  OBVIOUS
<1>2. h \in Seq(Entries)
  OBVIOUS
<1>3. ToSet(h) = {x} /\ IsInjective(h)
  BY DEF ToSet, IsInjective
<1>4. n \in Nat /\ (n = 0 <=> s = <<>>) /\ Null \notin Entries /\ \A j \in 1 .. n : s[j] \in Entries
  BY FinalizersAssumption
<1>. HIDE DEF h
<1>5. u \in Seq(Entries) /\ ToSet(u) = ToSet(s) \union {x} /\ IsInjective(u)
  BY <1>1, <1>3, ConcatElements
<1>6. Len(u) = n + 1 /\ u[1] = x /\ \A j \in 2 .. n + 1 : u[j] = s[j - 1]
  <2>1. Len(u) = 1 + n /\ u[1] = h[1] /\ \A i \in 1 .. n : u[1 + i] = s[i]
    <3>1. /\ Len(h \o s) = Len(h) + Len(s)
          /\ \A i \in 1 .. Len(h) : (h \o s)[i] = h[i]
          /\ \A i \in 1 .. Len(s) : (h \o s)[Len(h) + i] = s[i]
      BY <1>2, ConcatAt
    <3>2. 1 \in 1 .. Len(h)
      BY <1>1
    <3>. QED
      BY <1>1, <3>1, <3>2, Zenon DEF n, u
  <2>. HIDE DEF u, n
  <2>2. \A j \in 2 .. n + 1 : j - 1 \in 1 .. n /\ 1 + (j - 1) = j
    BY <1>4
  <2>3. \A j \in 2 .. n + 1 : u[j] = s[j - 1]
    BY <2>1, <2>2
  <2>. QED
    BY <1>1, <1>4, <2>1, <2>3
<1>7. Strung(nx, x, u)
  <2>. HIDE DEF u, n
  <2>1. u # <<>> /\ x = u[1]
    BY <1>4, <1>5, <1>6
  <2>2. CASE s = <<>>
    <3>1. nx[x] = Null /\ n = 0
      BY <1>4, <2>2 DEF Strung
    <3>. QED
      BY <1>6, <2>1, <3>1 DEF Strung
  <2>3. CASE s # <<>>
    <3>1. /\ n \in Nat \ {0} /\ nx[x] = s[1] /\ nx[s[n]] = Null
          /\ \A j \in 1 .. n - 1 : nx[s[j]] = s[j + 1]
      BY <1>4, <2>3 DEF Strung, n
    <3>2. nx[u[n + 1]] = Null
      BY <1>6, <3>1
    <3>3. \A j \in 1 .. n : nx[u[j]] = u[j + 1]
      <4>. TAKE j \in 1 .. n
      <4>1. CASE j = 1
        BY <1>6, <3>1, <4>1
      <4>2. CASE j # 1
        BY <1>6, <3>1, <4>2
      <4>. QED
        BY <4>1, <4>2
    <3>. QED
      BY <1>6, <2>1, <3>1, <3>2, <3>3 DEF Strung
  <2>. QED
    BY <2>2, <2>3
<1>. QED
  BY <1>5, <1>7 DEF h

(* What is after the first of a chain is a chain.                          *)
LEMMA StrungTail ==
  ASSUME NEW nx, NEW e, NEW s \in Seq(Entries), Strung(nx, e, s), IsInjective(s), e # Null
  PROVE  /\ s # <<>> /\ e \in ToSet(s)
         /\ Tail(s) \in Seq(Entries)
         /\ IsInjective(Tail(s))
         /\ ToSet(Tail(s)) = ToSet(s) \ {e}
         /\ Strung(nx, nx[e], Tail(s))
         /\ nx[e] # Null => nx[e] \in ToSet(s)
<1>. DEFINE n == Len(s)
            u == Tail(s)
<1>1. /\ s # <<>> /\ n \in Nat \ {0} /\ e = s[1] /\ nx[s[n]] = Null
      /\ \A j \in 1 .. n - 1 : nx[s[j]] = s[j + 1]
  BY DEF Strung
<1>2. u \in Seq(Entries) /\ Len(u) = n - 1 /\ \A j \in 1 .. n - 1 : u[j] = s[j + 1]
  BY <1>1
<1>3. DOMAIN s = 1 .. n /\ DOMAIN u = 1 .. n - 1
  BY <1>2
<1>4. \A i, j \in 1 .. n : s[i] = s[j] => i = j
  BY <1>3 DEF IsInjective
<1>. HIDE DEF u, n
<1>5. \A x : x \in ToSet(s) <=> \E j \in 1 .. n : x = s[j]
  BY <1>3 DEF ToSet
<1>6. \A x : x \in ToSet(u) <=> \E j \in 1 .. n - 1 : x = s[j + 1]
  BY <1>2, <1>3 DEF ToSet
<1>7. e \in ToSet(s)
  BY <1>1, <1>5
<1>8. ToSet(u) = ToSet(s) \ {e}
  <2>1. ASSUME NEW x \in ToSet(u) PROVE x \in ToSet(s) \ {e}
    <3>1. PICK j \in 1 .. n - 1 : x = s[j + 1]
      BY <1>6
    <3>2. j + 1 \in 1 .. n /\ j + 1 # 1 /\ 1 \in 1 .. n
      BY <1>1
    <3>. QED
      BY <1>1, <1>4, <1>5, <3>1, <3>2
  <2>2. ASSUME NEW x \in ToSet(s) \ {e} PROVE x \in ToSet(u)
    <3>1. PICK j \in 1 .. n : x = s[j]
      BY <1>5
    <3>2. j # 1 /\ j - 1 \in 1 .. n - 1 /\ (j - 1) + 1 = j
      BY <1>1, <3>1
    <3>. QED
      BY <1>6, <3>1, <3>2
  <2>. QED
    BY <2>1, <2>2
<1>9. IsInjective(u)
  <2>. SUFFICES ASSUME NEW i \in 1 .. n - 1, NEW j \in 1 .. n - 1, u[i] = u[j] PROVE i = j
    BY <1>3 DEF IsInjective
  <2>1. i + 1 \in 1 .. n /\ j + 1 \in 1 .. n /\ s[i + 1] = s[j + 1]
    BY <1>1, <1>2
  <2>. QED
    BY <1>4, <2>1
<1>10. Strung(nx, nx[e], u) /\ (nx[e] # Null => nx[e] \in ToSet(s))
  <2>1. CASE n = 1
    <3>1. u = <<>> /\ nx[e] = Null
      BY <1>1, <1>2, <2>1
    <3>. QED
      BY <3>1 DEF Strung
  <2>2. CASE n # 1
    <3>1. /\ u # <<>> /\ n - 1 \in Nat \ {0} /\ 1 \in 1 .. n - 1 /\ n - 1 \in 1 .. n - 1
          /\ 1 + 1 \in 1 .. n /\ (n - 1) + 1 = n
      BY <1>1, <1>2, <2>2
    <3>2. nx[e] = u[1] /\ u[1] = s[1 + 1]
      BY <1>1, <1>2, <3>1
    <3>3. nx[u[n - 1]] = Null
      BY <1>1, <1>2, <3>1
    <3>4. \A j \in 1 .. (n - 1) - 1 : nx[u[j]] = u[j + 1]
      <4>. TAKE j \in 1 .. (n - 1) - 1
      <4>1. j \in 1 .. n - 1 /\ j + 1 \in 1 .. n - 1
        BY <1>1
      <4>. QED
        BY <1>1, <1>2, <4>1
    <3>5. Strung(nx, nx[e], u)
      BY <1>2, <3>1, <3>2, <3>3, <3>4 DEF Strung
    <3>. QED
      BY <1>5, <3>1, <3>2, <3>5
  <2>. QED
    BY <2>1, <2>2
<1>. QED
  BY <1>1, <1>2, <1>7, <1>8, <1>9, <1>10 DEF u

(* A set that has the first of a chain and what is next to each has it all. *)
LEMMA StrungReach ==
  ASSUME NEW nx, NEW e, NEW s \in Seq(Entries), Strung(nx, e, s), NEW S,
         e # Null => e \in S,
         \A x \in S \intersect Entries : nx[x] # Null => nx[x] \in S
  PROVE  ToSet(s) \subseteq S
<1>. DEFINE n == Len(s)
            T == {k \in Nat : k \in 1 .. n => s[k] \in S}
<1>1. n \in Nat /\ DOMAIN s = 1 .. n /\ (\A k \in 1 .. n : s[k] \in Entries)
  OBVIOUS
<1>2. Null \notin Entries
  BY FinalizersAssumption
<1>3. 0 \in T
  OBVIOUS
<1>4. ASSUME NEW k \in Nat, k \in T PROVE k + 1 \in T
  <2>. SUFFICES ASSUME k + 1 \in 1 .. n PROVE s[k + 1] \in S
    OBVIOUS
  <2>1. s # <<>>
    BY <1>1
  <2>2. CASE k = 0
    BY <1>1, <1>2, <2>1, <2>2 DEF Strung
  <2>3. CASE k # 0
    <3>1. k \in 1 .. n /\ k \in 1 .. n - 1
      BY <1>1, <2>3
    <3>2. s[k] \in S /\ nx[s[k]] = s[k + 1]
      BY <1>4, <2>1, <3>1 DEF Strung
    <3>. QED
      BY <1>1, <1>2, <3>1, <3>2
  <2>. QED
    BY <2>2, <2>3
<1>. HIDE DEF T
<1>5. \A k \in Nat : k \in T
  BY <1>3, <1>4, NatSetInduction
<1>6. \A k \in 1 .. n : s[k] \in S
  BY <1>1, <1>5 DEF T
<1>. HIDE DEF n
<1>. QED
  BY <1>1, <1>6 DEF ToSet

(* Lists that share nothing are chained as they stand, and nothing else is  *)
(* chained differently.                                                    *)
LEMMA ChainedFacts ==
  ASSUME next \in [Entries -> Entries \union {Null}],
         NEW L, L \subseteq Seq(Entries),
         \A l \in L : IsInjective(l),
         \A l, m \in L : l # m => ToSet(l) \intersect ToSet(m) = {}
  PROVE  /\ \A l \in L : Strung(Chained(L), FirstOf(l), l)
         /\ \A e \in Entries : (\A l \in L : e \notin ToSet(l)) => Chained(L)[e] = next[e]
         /\ \A l \in L, e \in Entries :
              e \in ToSet(l) => Chained(L)[e] \in ToSet(l) \union {Null}
         /\ Chained(L) \in [Entries -> Entries \union {Null}]
<1>. DEFINE On(e, l) == {i \in DOMAIN l : l[i] = e}
            lst(e) == CHOOSE m \in L : On(e, m) # {}
            at(e, l) == CHOOSE j \in On(e, l) : TRUE
            after(l, i) == IF i = Len(l) THEN Null ELSE l[i + 1]
            to(e) == IF \A l \in L : On(e, l) = {} THEN next[e]
                     ELSE after(lst(e), at(e, lst(e)))
            C == Chained(L)
<1>1. C = [e \in Entries |-> to(e)]
  BY DEF Chained
<1>2. \A e, l : e \in ToSet(l) <=> On(e, l) # {}
  BY DEF ToSet
<1>3. \A l \in L : /\ Len(l) \in Nat /\ DOMAIN l = 1 .. Len(l)
                   /\ \A i \in 1 .. Len(l) : l[i] \in Entries /\ l[i] \in ToSet(l)
  BY DEF ToSet
<1>4. \A l \in L : \A i, j \in 1 .. Len(l) : l[i] = l[j] => i = j
  BY <1>3 DEF IsInjective
<1>5. ASSUME NEW l \in L, NEW i \in 1 .. Len(l) PROVE C[l[i]] = after(l, i)
  <2>. DEFINE e == l[i]
  <2>1. e \in Entries /\ e \in ToSet(l)
    BY <1>3, <1>5
  <2>. HIDE DEF e
  <2>2. lst(e) \in L /\ On(e, lst(e)) # {}
    <3>. HIDE DEF On
    <3>. QED
      BY <1>2, <2>1
  <2>3. lst(e) = l
    <3>. HIDE DEF lst, On
    <3>. QED
      BY <1>2, <2>1, <2>2
  <2>4. On(e, l) = {i}
    <3>1. \A j : j \in On(e, l) <=> j \in 1 .. Len(l) /\ l[j] = l[i]
      BY <1>3 DEF e
    <3>. HIDE DEF On
    <3>2. \A j : j \in On(e, l) <=> j = i
      BY <1>4, <3>1
    <3>. QED
      BY <3>2
  <2>5. at(e, l) = i
    <3>. HIDE DEF On
    <3>. QED
      BY <2>4
  <2>6. to(e) = after(l, i)
    <3>. HIDE DEF On, lst, at, after
    <3>. QED
      BY <1>2, <2>1, <2>3, <2>5
  <2>. HIDE DEF to, after
  <2>. QED
    BY <1>1, <2>1, <2>6 DEF e
<1>6. \A e \in Entries : (\A l \in L : e \notin ToSet(l)) => C[e] = next[e]
  <2>. HIDE DEF On, lst, at, after, C
  <2>. QED
    BY <1>1, <1>2
<1>. HIDE DEF C, to
<1>7. \A l \in L, e \in Entries : e \in ToSet(l) => C[e] \in ToSet(l) \union {Null}
  <2>. SUFFICES ASSUME NEW l \in L, NEW i \in 1 .. Len(l) PROVE C[l[i]] \in ToSet(l) \union {Null}
    BY <1>3 DEF ToSet
  <2>1. i = Len(l) \/ i + 1 \in 1 .. Len(l)
    BY <1>3
  <2>. QED
    BY <1>3, <1>5, <2>1
<1>8. \A l \in L : Strung(C, FirstOf(l), l)
  <2>. TAKE l \in L
  <2>1. CASE l = <<>>
    BY <2>1 DEF Strung, FirstOf
  <2>2. CASE l # <<>>
    <3>1. Len(l) \in 1 .. Len(l)
      BY <1>3, <2>2
    <3>2. \A j \in 1 .. Len(l) - 1 : j \in 1 .. Len(l) /\ j # Len(l)
      BY <1>3
    <3>3. C[l[Len(l)]] = Null
      BY <1>5, <3>1
    <3>4. \A j \in 1 .. Len(l) - 1 : C[l[j]] = l[j + 1]
      BY <1>5, <3>2
    <3>. QED
      BY <2>2, <3>3, <3>4 DEF Strung, FirstOf
  <2>. QED
    BY <2>1, <2>2
<1>9. C \in [Entries -> Entries \union {Null}]
  <2>1. \A e \in Entries : C[e] \in Entries \union {Null}
    <3>. TAKE e \in Entries
    <3>1. CASE \A l \in L : e \notin ToSet(l)
      BY <1>6, <3>1
    <3>2. CASE \E l \in L : e \in ToSet(l)
      BY <1>3, <1>7, <3>2 DEF ToSet
    <3>. QED
      BY <3>1, <3>2
  <2>. QED
    BY <1>1, <2>1
<1>. QED
  BY <1>6, <1>7, <1>8, <1>9 DEF C

(* The pools stand on the root list one time each.                         *)
LEMMA OrdersFacts ==
  \A s \in Orders : s \in Seq(Threads) /\ IsInjective(s) /\ ToSet(s) = Threads
<1>. TAKE s \in Orders
<1>. DEFINE n == Cardinality(Threads)
<1>1. s \in [1 .. n -> Threads] /\ ToSet(s) = Threads
  BY DEF Orders
<1>2. n \in Nat /\ IsFiniteSet(1 .. n) /\ Cardinality(1 .. n) = n
  BY FinalizersAssumption, FS_CardinalityType, FS_Interval
<1>3. s \in Surjection(1 .. n, Threads)
  BY <1>1 DEF Surjection, ToSet
<1>4. s \in Injection(1 .. n, Threads)
  BY <1>2, <1>3, FS_Surjection
<1>5. IsInjective(s)
  BY <1>1, <1>4 DEF Injection, IsInjective
<1>. QED
  BY <1>1, <1>2, <1>5

(* The lists of pools, taken apart.                                        *)
LEMMA SplitFacts ==
  ASSUME frames \in [Threads -> Seq(Calls)], NEW ch \in Places, ListsRight(ch),
         NEW order \in Seq(Threads), IsInjective(order), NEW S
  PROVE  /\ Split(order, S) \in Seq(Entries)
         /\ IsInjective(Split(order, S))
         /\ ToSet(Split(order, S))
              = (UNION {ToSet(ch[t][0]) : t \in ToSet(order)}) \intersect S
<1>. DEFINE ss == [i \in DOMAIN order |-> Chain(next, finalizers[order[i]])]
            fl == FlattenSeq(ss)
<1>1. \A i \in DOMAIN order : order[i] \in Threads /\ order[i] \in ToSet(order)
  BY DEF ToSet
<1>2. ASSUME NEW t \in Threads
      PROVE  /\ ch[t][0] \in Seq(Entries) /\ IsInjective(ch[t][0])
             /\ Chain(next, finalizers[t]) = ch[t][0]
  <2>1. ch[t][0] \in Seq(Entries)
    BY DEF Places
  <2>2. IsInjective(ch[t][0])
    BY DEF ListsRight
  <2>3. Strung(next, finalizers[t], ch[t][0])
    <3>1. 0 <= Len(frames[t])
      OBVIOUS
    <3>. QED
      BY <3>1 DEF ListsRight, Start
  <2>. QED
    BY <2>1, <2>2, <2>3, ChainIsStrung
<1>3. DOMAIN ss = DOMAIN order /\ \A i \in DOMAIN order : ss[i] = ch[order[i]][0]
  BY <1>1, <1>2
<1>4. ss \in Seq(Seq(Entries))
  <2>1. \A i \in DOMAIN order : ss[i] \in Seq(Entries)
    BY <1>1, <1>2, <1>3
  <2>2. Len(order) \in Nat /\ DOMAIN order = 1 .. Len(order)
    OBVIOUS
  <2>. HIDE DEF ss
  <2>3. ss = [i \in 1 .. Len(order) |-> ss[i]]
    BY <2>2 DEF ss
  <2>. QED
    BY <2>1, <2>2, <2>3
<1>. HIDE DEF ss
<1>5. \A i \in DOMAIN ss : IsInjective(ss[i])
  BY <1>1, <1>2, <1>3
<1>6. \A i, j \in DOMAIN ss : i # j => ToSet(ss[i]) \intersect ToSet(ss[j]) = {}
  <2>. TAKE i, j \in DOMAIN ss
  <2>. HAVE i # j
  <2>1. order[i] # order[j]
    BY <1>3 DEF IsInjective
  <2>2. ToSet(ch[order[i]][0]) \intersect ToSet(ch[order[j]][0]) = {}
    BY <1>1, <1>3, <2>1 DEF ListsRight
  <2>3. ss[i] = ch[order[i]][0] /\ ss[j] = ch[order[j]][0]
    BY <1>3
  <2>. QED
    BY <2>2, <2>3, Zenon
<1>7. fl \in Seq(Entries) /\ IsInjective(fl) /\ ToSet(fl) = UNION {ToSet(ss[i]) : i \in DOMAIN ss}
  BY <1>4, <1>5, <1>6, FlattenFacts
<1>8. UNION {ToSet(ss[i]) : i \in DOMAIN ss} = UNION {ToSet(ch[t][0]) : t \in ToSet(order)}
  <2>1. ToSet(order) = {order[i] : i \in DOMAIN order}
    BY DEF ToSet
  <2>2. {ToSet(ss[i]) : i \in DOMAIN ss} = {ToSet(ch[order[i]][0]) : i \in DOMAIN order}
    BY <1>3
  <2>3. {ToSet(ch[order[i]][0]) : i \in DOMAIN order} = {ToSet(ch[t][0]) : t \in ToSet(order)}
    BY <2>1
  <2>. QED
    BY <2>2, <2>3, Zenon
<1>9. Split(order, S) = InFront(fl, S)
  BY DEF Split, ss
<1>. HIDE DEF fl
<1>10. /\ InFront(fl, S) \in Seq(Entries) /\ IsInjective(InFront(fl, S))
       /\ ToSet(InFront(fl, S)) = ToSet(fl) \intersect S
  BY <1>7, InFrontFacts
<1>. QED
  BY <1>7, <1>8, <1>9, <1>10, Zenon

-----------------------------------------------------------------------------
(***************************************************************************)
(* What the invariant says of the parts of a state.                        *)
(***************************************************************************)
(* The i-th list of t holds entries whose functions have not been called.  *)
LEMMA InPlace ==
  ASSUME Types, NEW ch \in Places, ListsRight(ch)
  PROVE  /\ \A t \in Threads, i \in Nat :
              /\ ch[t][i] \in Seq(Entries) /\ IsInjective(ch[t][i])
              /\ ToSet(ch[t][i]) \subseteq Attached \ called
         /\ Pooled(ch) \subseteq Attached \ called
         /\ \A t \in Threads : ToSet(ch[t][0]) \subseteq Pooled(ch)
         /\ \A t \in Threads, i \in Nat : i # 0 => ToSet(ch[t][i]) \intersect Pooled(ch) = {}
<1>1. \A t \in Threads, i \in Nat : ch[t][i] \in Seq(Entries) /\ IsInjective(ch[t][i])
  BY DEF Places, ListsRight
<1>2. \A t \in Threads, i \in Nat : ToSet(ch[t][i]) \subseteq Entries
  BY <1>1 DEF ToSet
<1>3. \A t \in Threads, i \in Nat : ToSet(ch[t][i]) \subseteq Attached \ called
  <2>. SUFFICES ASSUME NEW t \in Threads, NEW i \in Nat, NEW e \in ToSet(ch[t][i])
                PROVE  e \in Attached \ called
    OBVIOUS
  <2>1. e \in Entries
    BY <1>2
  <2>. QED
    BY <2>1, Zenon DEF ListsRight
<1>4. \A e : e \in Pooled(ch) <=> \E t \in Threads : e \in ToSet(ch[t][0])
  BY DEF Pooled
<1>5. 0 \in Nat
  OBVIOUS
<1>6. Pooled(ch) \subseteq Attached \ called /\ \A t \in Threads : ToSet(ch[t][0]) \subseteq Pooled(ch)
  BY <1>3, <1>4, <1>5
<1>7. \A t \in Threads, i \in Nat : i # 0 => ToSet(ch[t][i]) \intersect Pooled(ch) = {}
  <2>. SUFFICES ASSUME NEW t \in Threads, NEW i \in Nat, i # 0,
                       NEW e, e \in ToSet(ch[t][i]), e \in Pooled(ch)
                PROVE  FALSE
    OBVIOUS
  <2>1. PICK u \in Threads : e \in ToSet(ch[u][0])
    BY <1>4
  <2>2. ToSet(ch[t][i]) \intersect ToSet(ch[u][0]) = {}
    BY <1>5, Zenon DEF ListsRight
  <2>. QED
    BY <2>1, <2>2
<1>. QED
  BY <1>1, <1>3, <1>6, <1>7

(* What a thread can name has not been swept.                              *)
LEMMA KnownFacts ==
  ASSUME Types, HeapRight, NEW ch, AsideRight(ch)
  PROVE  \A t \in Threads : Known(t) \subseteq Objects \intersect heap
<1>. TAKE t \in Threads
<1>1. local[t] \subseteq Objects \intersect heap
  BY DEF Types, HeapRight
<1>2. ASSUME frames[t] # <<>>, Top(t).current # Null
      PROVE  obj[Top(t).current] \in Objects \intersect heap
  <2>. DEFINE n == Len(frames[t])
  <2>1. frames[t] \in Seq(Calls)
    BY DEF Types
  <2>2. n \in Nat /\ n \in 1 .. n
    BY <1>2, <2>1
  <2>3. Top(t) = frames[t][n]
    BY DEF Top, Last
  <2>. HIDE DEF n
  <2>4. frames[t][n].current \in called /\ frames[t][n].current \in heap
    BY <1>2, <2>2, <2>3 DEF AsideRight, HeapRight, n
  <2>5. frames[t][n].current \in Attached
    BY <2>4 DEF AsideRight
  <2>. QED
    BY <2>3, <2>4, <2>5 DEF Attached, HeapRight, ClosedIn, Types
<1>. QED
  BY <1>1, <1>2 DEF Known

(* The lists are as they were after a step that changes neither them nor   *)
(* the calls.                                                              *)
LEMMA RightStays ==
  ASSUME UNCHANGED <<obj, next, finalizers, frames, called>>, NEW ch, Right(ch)
  PROVE  Right(ch)'
<1>1. ListsRight(ch)'
  BY DEF Right, ListsRight, Start, Following, Attached
<1>2. AsideRight(ch)'
  BY DEF Right, AsideRight, Attached
<1>. QED
  BY <1>1, <1>2 DEF Right

-----------------------------------------------------------------------------
(***************************************************************************)
(* The invariant is inductive.                                             *)
(***************************************************************************)
(* At the start there are no entries.                                      *)
LEMMA InvInit == Init => IInv
<1>. SUFFICES ASSUME Init PROVE IInv
  OBVIOUS
<1>. DEFINE ch == [t \in Threads |-> [i \in Nat |-> <<>>]]
<1>1. Types
  BY DEF Init, Types
<1>2. \A t \in Threads : frames[t] = <<>> /\ finalizers[t] = Null
  BY DEF Init
<1>3. Attached = {} /\ called = {}
  BY DEF Init, Attached
<1>4. \A t \in Threads : Len(frames[t]) = 0
  BY <1>2
<1>5. \A t \in Threads, i \in Nat : i \notin 1 .. Len(frames[t])
  BY <1>4
<1>6. FramesRight
  BY <1>5 DEF FramesRight
<1>7. HeapRight
  BY <1>3, <1>5, FinalizersAssumption DEF HeapRight, ClosedIn, Init
<1>8. ch \in Places /\ \A t \in Threads, i \in Nat : ch[t][i] = <<>>
  BY DEF Places
<1>9. IsInjective(<<>>) /\ ToSet(<<>>) = {}
  BY DEF IsInjective, ToSet
<1>. HIDE DEF ch
<1>10. Right(ch)
  <2>1. ListsRight(ch)
    <3>1. \A t \in Threads, i \in Nat : i <= Len(frames[t]) => Strung(next, Start(t, i), ch[t][i])
      BY <1>2, <1>4, <1>8 DEF Strung, Start
    <3>. QED
      BY <1>3, <1>8, <1>9, <3>1 DEF ListsRight
  <2>2. AsideRight(ch)
    BY <1>3, <1>5 DEF AsideRight
  <2>. QED
    BY <2>1, <2>2 DEF Right
<1>. QED
  BY <1>1, <1>6, <1>7, <1>8, <1>10 DEF IInv

(* A thread forgets an object, keeps one, or writes a pointer.             *)
LEMMA InvProgram ==
  ASSUME IInv, NEW t \in Threads, NEW o \in Objects, NEW p \in Objects,
         Drop(t, o) \/ Keep(t, o) \/ Write(t, o, p)
  PROVE  IInv'
<1>. PICK ch \in Places : Right(ch)
  BY DEF IInv
<1>. USE DEF IInv
<1>1. UNCHANGED <<heap, obj, next, finalizers, frames, called>>
  BY DEF Drop, Keep, Write
<1>2. Right(ch)'
  BY <1>1, RightStays
<1>3. Types'
  <2>1. /\ local \in [Threads -> SUBSET Objects]
        /\ pointer \in [Objects -> Objects \union {Null}]
    BY DEF Types
  <2>2. local' \in [Threads -> SUBSET Objects]
    BY <2>1 DEF Drop, Keep, Write
  <2>3. pointer' \in [Objects -> Objects \union {Null}]
    BY <2>1 DEF Drop, Keep, Write
  <2>. QED
    BY <1>1, <2>2, <2>3 DEF Types
<1>4. FramesRight'
  BY <1>1 DEF FramesRight
<1>5. Known(t) \subseteq Objects \intersect heap
  BY KnownFacts DEF Right
<1>6. Attached' = Attached
  BY <1>1 DEF Attached
<1>7. \A u \in Threads : local'[u] \subseteq heap
  <2>1. CASE Drop(t, o)
    BY <2>1 DEF Drop, HeapRight, Types
  <2>2. CASE Keep(t, o)
    <3>1. o \in heap
      BY <1>5, <2>2, FinalizersAssumption DEF Keep, HeapRight, ClosedIn
    <3>. QED
      BY <2>2, <3>1 DEF Keep, HeapRight, Types
  <2>3. CASE Write(t, o, p)
    BY <2>3 DEF Write, HeapRight
  <2>. QED
    BY <2>1, <2>2, <2>3
<1>8. ClosedIn(next, heap)'
  <2>1. CASE Drop(t, o) \/ Keep(t, o)
    BY <1>1, <2>1 DEF Drop, Keep, HeapRight, ClosedIn
  <2>2. CASE Write(t, o, p)
    BY <1>1, <1>5, <2>2 DEF Write, HeapRight, ClosedIn, Types
  <2>. QED
    BY <2>1, <2>2
<1>9. HeapRight'
  BY <1>1, <1>6, <1>7, <1>8 DEF HeapRight
<1>. QED
  BY <1>2, <1>3, <1>4, <1>9

(* A new entry goes to the front of the list of its thread's pool.         *)
LEMMA InvFinalize ==
  ASSUME IInv, NEW t \in Threads, NEW o \in Objects, NEW e \in Entries, Finalize(t, o, e)
  PROVE  IInv'
<1>. PICK ch \in Places : Right(ch)
  BY DEF IInv
<1>. DEFINE s == ch[t][0]
            s2 == <<e>> \o s
            c2 == [u \in Threads |-> [i \in Nat |-> IF u = t /\ i = 0 THEN s2 ELSE ch[u][i]]]
<1>1. /\ Types /\ FramesRight /\ HeapRight /\ ListsRight(ch) /\ AsideRight(ch)
      /\ 0 \in Nat /\ Null \notin Entries \union Objects /\ Objects \intersect Entries = {}
  BY FinalizersAssumption DEF IInv, Right
<1>2. /\ o \in Known(t) /\ obj[e] = Null
      /\ heap' = heap \union {e}
      /\ obj' = [obj EXCEPT ![e] = o]
      /\ next' = [next EXCEPT ![e] = finalizers[t]]
      /\ finalizers' = [finalizers EXCEPT ![t] = e]
      /\ local' = local /\ pointer' = pointer /\ frames' = frames /\ called' = called
  BY DEF Finalize, Unused
<1>3. Types'
  BY <1>1, <1>2 DEF Types
<1>4. /\ next'[e] = finalizers[t] /\ obj'[e] = o
      /\ \A x \in Entries : x # e => next'[x] = next[x] /\ obj'[x] = obj[x]
      /\ finalizers'[t] = e
      /\ \A u \in Threads : u # t => finalizers'[u] = finalizers[u]
  BY <1>1, <1>2 DEF Types
<1>5. Attached' = Attached \union {e} /\ e \notin Attached
  BY <1>1, <1>2, <1>4 DEF Attached
<1>6. \A u \in Threads, i \in Nat :
        /\ ch[u][i] \in Seq(Entries) /\ IsInjective(ch[u][i])
        /\ ToSet(ch[u][i]) \subseteq Attached \ called
  BY <1>1, InPlace
<1>7. called \subseteq Attached /\ e \notin called
  BY <1>1, <1>5 DEF AsideRight
<1>8. \A u \in Threads : Len(frames[u]) \in Nat /\ 0 <= Len(frames[u])
  BY <1>1 DEF Types
<1>9. /\ s2 \in Seq(Entries) /\ ToSet(s2) = ToSet(s) \union {e} /\ IsInjective(s2)
      /\ Strung(next', e, s2)
  <2>1. e \notin ToSet(s) /\ s \in Seq(Entries) /\ IsInjective(s)
    BY <1>1, <1>5, <1>6
  <2>2. Strung(next, finalizers[t], s)
    BY <1>1, <1>8 DEF ListsRight, Start
  <2>3. Strung(next', next'[e], s)
    <3>1. \A x \in ToSet(s) : next'[x] = next[x]
      BY <1>4, <2>1 DEF ToSet
    <3>. HIDE DEF s
    <3>2. Strung(next', finalizers[t], s)
      BY <2>1, <2>2, <3>1, StrungElsewhere
    <3>. QED
      BY <1>4, <3>2
  <2>. HIDE DEF s
  <2>. QED
    BY <2>1, <2>3, StrungCons
<1>. HIDE DEF s2
<1>10. /\ c2 \in Places
       /\ c2[t][0] = s2
       /\ \A u \in Threads, i \in Nat : (u # t \/ i # 0) => c2[u][i] = ch[u][i]
  BY <1>1, <1>6, <1>9 DEF Places
<1>. HIDE DEF c2
<1>11. \A u \in Threads, i \in Nat : ToSet(c2[u][i]) \subseteq ToSet(ch[u][i]) \union {e}
  BY <1>9, <1>10
<1>12. \A u \in Threads, i \in Nat :
         ToSet(ch[u][i]) \subseteq ToSet(c2[u][i]) /\ (e \in ToSet(c2[u][i]) => u = t /\ i = 0)
  BY <1>5, <1>6, <1>9, <1>10
<1>13. ListsRight(c2)'
  <2>1. ASSUME NEW u \in Threads, NEW i \in Nat
        PROVE  /\ i <= Len(frames[u]) => Strung(next', Start(u, i)', c2[u][i])
               /\ i > Len(frames[u]) => c2[u][i] = <<>>
               /\ IsInjective(c2[u][i])
    <3>1. CASE u = t /\ i = 0
      BY <1>4, <1>8, <1>9, <1>10, <3>1 DEF Start
    <3>2. CASE u # t \/ i # 0
      <4>1. Start(u, i)' = Start(u, i) \/ i > Len(frames[u])
        <5>1. CASE i = 0
          BY <1>4, <3>2, <5>1 DEF Start
        <5>2. CASE i \in 1 .. Len(frames[u])
          <6>1. frames[u][i].current # Null => next'[frames[u][i].current] = next[frames[u][i].current]
            BY <1>1, <1>4, <1>7, <5>2 DEF AsideRight, Attached
          <6>. QED
            BY <1>2, <5>2, <6>1 DEF Start, Following
        <5>. QED
          BY <1>8, <5>1, <5>2
      <4>2. \A x \in ToSet(ch[u][i]) : next'[x] = next[x]
        BY <1>4, <1>5, <1>6 DEF Attached
      <4>3. i <= Len(frames[u]) => Strung(next, Start(u, i), ch[u][i])
        BY <1>1 DEF ListsRight
      <4>4. i <= Len(frames[u]) => Strung(next', Start(u, i), ch[u][i])
        BY <1>6, <4>2, <4>3, StrungElsewhere
      <4>5. i > Len(frames[u]) => ch[u][i] = <<>>
        BY <1>1 DEF ListsRight
      <4>. QED
        BY <1>6, <1>8, <1>10, <3>2, <4>1, <4>4, <4>5
    <3>. QED
      BY <3>1, <3>2
  <2>2. \A u, v \in Threads, i, j \in Nat :
          u # v \/ i # j => ToSet(c2[u][i]) \intersect ToSet(c2[v][j]) = {}
    <3>. SUFFICES ASSUME NEW u \in Threads, NEW v \in Threads, NEW i \in Nat, NEW j \in Nat,
                         u # v \/ i # j,
                         NEW x, x \in ToSet(c2[u][i]), x \in ToSet(c2[v][j])
                  PROVE  FALSE
      OBVIOUS
    <3>1. x # e
      BY <1>12
    <3>2. x \in ToSet(ch[u][i]) /\ x \in ToSet(ch[v][j])
      BY <1>11, <3>1
    <3>3. ToSet(ch[u][i]) \intersect ToSet(ch[v][j]) = {}
      BY <1>1, Zenon DEF ListsRight
    <3>. QED
      BY <3>2, <3>3
  <2>3. \A x \in Entries :
          x \in Attached' \ called <=> \E u \in Threads, i \in Nat : x \in ToSet(c2[u][i])
    <3>. TAKE x \in Entries
    <3>1. CASE x = e
      BY <1>1, <1>5, <1>7, <1>9, <1>10, <3>1
    <3>2. CASE x # e
      <4>1. x \in Attached \ called <=> \E u \in Threads, i \in Nat : x \in ToSet(ch[u][i])
        BY <1>1 DEF ListsRight
      <4>2. \A u \in Threads, i \in Nat : x \in ToSet(ch[u][i]) <=> x \in ToSet(c2[u][i])
        BY <1>11, <1>12, <3>2
      <4>. QED
        BY <1>5, <3>2, <4>1, <4>2
    <3>. QED
      BY <3>1, <3>2
  <2>. QED
    BY <1>2, <2>1, <2>2, <2>3 DEF ListsRight
<1>14. Pooled(c2) = Pooled(ch) \union {e}
  <2>1. \A x : x \in Pooled(c2) <=> \E u \in Threads : x \in ToSet(c2[u][0])
    BY DEF Pooled
  <2>2. \A x : x \in Pooled(ch) <=> \E u \in Threads : x \in ToSet(ch[u][0])
    BY DEF Pooled
  <2>. QED
    BY <1>1, <1>9, <1>10, <1>11, <1>12, <2>1, <2>2
<1>15. AsideRight(c2)'
  <2>1. (called \in SUBSET Attached)'
    BY <1>2, <1>5, <1>7
  <2>2. \A x \in called : next'[x] \in (Attached' \ Pooled(c2)) \union {Null}
    BY <1>1, <1>4, <1>5, <1>7, <1>14 DEF AsideRight, Attached
  <2>3. \A u \in Threads, i \in Nat : i \in 1 .. Len(frames[u]) =>
          /\ frames[u][i].list \in Attached' \ Pooled(c2)
          /\ frames[u][i].current # Null => frames[u][i].current \in called
    BY <1>1, <1>5, <1>14 DEF AsideRight
  <2>4. Pooled(c2)' = Pooled(c2)
    BY DEF Pooled
  <2>. QED
    BY <1>2, <2>1, <2>2, <2>3, <2>4 DEF AsideRight
<1>16. FramesRight'
  BY <1>1, <1>2 DEF FramesRight
<1>17. o \in heap
  BY <1>1, <1>2, KnownFacts
<1>18. finalizers[t] # Null => finalizers[t] \in heap
  <2>1. Strung(next, finalizers[t], s)
    BY <1>1, <1>8 DEF ListsRight, Start
  <2>2. finalizers[t] # Null => finalizers[t] \in ToSet(s)
    BY <1>1, <1>6, <2>1, StrungTail
  <2>. QED
    BY <1>1, <1>6, <2>2 DEF HeapRight
<1>19. HeapRight'
  <2>1. heap' \subseteq Objects \union Attached'
    BY <1>1, <1>2, <1>5 DEF HeapRight
  <2>2. ClosedIn(next, heap)'
    <3>1. \A x \in heap' \intersect Objects : pointer[x] # Null => pointer[x] \in heap'
      BY <1>1, <1>2 DEF HeapRight, ClosedIn
    <3>2. \A x \in heap' \intersect Entries :
            /\ obj'[x] # Null => obj'[x] \in heap'
            /\ next'[x] # Null => next'[x] \in heap'
      <4>. TAKE x \in heap' \intersect Entries
      <4>1. CASE x = e
        BY <1>2, <1>4, <1>17, <1>18, <4>1
      <4>2. CASE x # e
        BY <1>1, <1>2, <1>4, <4>2 DEF HeapRight, ClosedIn
      <4>. QED
        BY <4>1, <4>2
    <3>. QED
      BY <1>2, <3>1, <3>2 DEF ClosedIn
  <2>3. Attached' \ called \subseteq heap'
    BY <1>1, <1>2, <1>5 DEF HeapRight
  <2>4. \A u \in Threads : local[u] \subseteq heap'
    BY <1>1, <1>2 DEF HeapRight
  <2>5. \A u \in Threads, i \in Nat : i \in 1 .. Len(frames[u]) =>
          /\ frames[u][i].list \in heap'
          /\ frames[u][i].current # Null => frames[u][i].current \in heap'
    BY <1>1, <1>2 DEF HeapRight
  <2>. QED
    BY <1>2, <2>1, <2>2, <2>3, <2>4, <2>5 DEF HeapRight
<1>20. Right(c2)'
  BY <1>13, <1>15 DEF Right
<1>. QED
  BY <1>3, <1>10, <1>16, <1>19, <1>20 DEF IInv

(* The last call in a thread is over, or calls the next function.          *)
LEMMA InvCallNext ==
  ASSUME IInv, NEW t \in Threads, CallNext(t)
  PROVE  IInv'
<1>. PICK ch \in Places : Right(ch)
  BY DEF IInv
<1>. PICK n, e : n = Len(frames[t]) /\ e = Following(frames[t][n])
  OBVIOUS
<1>1. n = Len(frames[t]) /\ e = Following(frames[t][n])
  OBVIOUS
<1>2. /\ Types /\ FramesRight /\ HeapRight /\ ListsRight(ch) /\ AsideRight(ch)
      /\ Null \notin Entries \union Objects /\ Objects \intersect Entries = {}
  BY FinalizersAssumption DEF IInv, Right
<1>3. /\ frames[t] \in Seq(Calls) /\ n \in Nat \ {0} /\ n \in 1 .. n
  <2>1. frames[t] \in Seq(Calls) /\ frames[t] # <<>>
    BY <1>2 DEF CallNext, Types
  <2>. QED
    BY <1>1, <2>1
<1>4. Top(t) = frames[t][n]
  BY <1>1 DEF Top, Last
<1>5. /\ UNCHANGED <<local, pointer, heap, obj, next, finalizers>>
      /\ e = Null => frames' = [frames EXCEPT ![t] = Front(@)] /\ called' = called
      /\ e # Null => /\ frames' = [frames EXCEPT ![t][n].current = e]
                     /\ called' = called \union {e}
  BY <1>1, <1>4 DEF CallNext
<1>6. \A u \in Threads, i \in Nat :
        /\ ch[u][i] \in Seq(Entries) /\ IsInjective(ch[u][i])
        /\ ToSet(ch[u][i]) \subseteq Attached \ called
  BY <1>2, InPlace
<1>7. Strung(next, e, ch[t][n])
  BY <1>1, <1>2, <1>3 DEF ListsRight, Start
<1>8. called \subseteq Attached /\ Attached \subseteq Entries /\ Attached' = Attached
  BY <1>2, <1>5 DEF AsideRight, Attached
<1>9. CASE e = Null
  <2>. DEFINE f == Front(frames[t])
  <2>1. ch[t][n] = <<>>
    <3>1. ch[t][n] \in Seq(Entries)
      BY <1>3, <1>6
    <3>. QED
      BY <1>2, <1>7, <1>9, <3>1 DEF Strung
  <2>2. f \in Seq(Calls) /\ Len(f) = n - 1 /\ \A i \in 1 .. n - 1 : f[i] = frames[t][i]
    BY <1>1, <1>3 DEF Front
  <2>. HIDE DEF f
  <2>3. /\ called' = called /\ frames' \in [Threads -> Seq(Calls)]
        /\ frames'[t] = f
        /\ \A u \in Threads : u # t => frames'[u] = frames[u]
    <3>1. frames \in [Threads -> Seq(Calls)]
      BY <1>2 DEF Types
    <3>2. frames' = [frames EXCEPT ![t] = f]
      BY <1>5, <1>9 DEF f
    <3>. QED
      BY <1>5, <1>9, <2>2, <3>1, <3>2
  <2>4. \A u \in Threads, i \in Nat :
          i \in 1 .. Len(frames'[u]) => i \in 1 .. Len(frames[u]) /\ frames'[u][i] = frames[u][i]
    BY <1>1, <1>3, <2>2, <2>3
  <2>5. \A u \in Threads, i \in Nat :
          i > Len(frames'[u]) => i > Len(frames[u]) \/ (u = t /\ i = n)
    BY <1>1, <1>3, <2>2, <2>3
  <2>6. \A u \in Threads : Len(frames'[u]) \in Nat /\ Len(frames[u]) \in Nat
    BY <1>2, <2>3 DEF Types
  <2>7. Types'
    BY <1>2, <1>5, <2>3 DEF Types
  <2>8. FramesRight'
    <3>1. \A i \in Nat : i \in 1 .. Len(frames'[t]) => frames'[t][i].current # Null
      BY <1>1, <1>2, <1>3, <2>2, <2>3 DEF FramesRight
    <3>2. \A u \in Threads : u # t => Len(frames'[u]) = Len(frames[u])
      BY <2>3
    <3>3. \A u \in Threads, i \in Nat : i \in 1 .. Len(frames'[u]) =>
            (frames'[u][i].current = Null => i = Len(frames'[u]))
      BY <1>2, <2>4, <3>1, <3>2 DEF FramesRight
    <3>4. \A u, v \in Threads, i, j \in Nat :
            /\ i \in 1 .. Len(frames'[u]) /\ j \in 1 .. Len(frames'[v])
            /\ frames'[u][i].current # Null
            /\ frames'[u][i].current = frames'[v][j].current
            => u = v /\ i = j
      <4>. SUFFICES ASSUME NEW u \in Threads, NEW v \in Threads, NEW i \in Nat, NEW j \in Nat,
                           i \in 1 .. Len(frames'[u]), j \in 1 .. Len(frames'[v]),
                           frames'[u][i].current # Null,
                           frames'[u][i].current = frames'[v][j].current
                    PROVE  u = v /\ i = j
        OBVIOUS
      <4>1. /\ i \in 1 .. Len(frames[u]) /\ frames'[u][i] = frames[u][i]
            /\ j \in 1 .. Len(frames[v]) /\ frames'[v][j] = frames[v][j]
        BY <2>4
      <4>. QED
        BY <1>2, <4>1 DEF FramesRight
    <3>. QED
      BY <3>3, <3>4 DEF FramesRight
  <2>9. ListsRight(ch)'
    <3>1. \A u \in Threads, i \in Nat : i <= Len(frames'[u]) =>
            i <= Len(frames[u]) /\ Start(u, i)' = Start(u, i)
      <4>. SUFFICES ASSUME NEW u \in Threads, NEW i \in Nat, i <= Len(frames'[u])
                    PROVE  i <= Len(frames[u]) /\ Start(u, i)' = Start(u, i)
        OBVIOUS
      <4>1. CASE i = 0
        BY <1>5, <2>6, <4>1 DEF Start
      <4>2. CASE i # 0
        <5>1. i \in 1 .. Len(frames'[u])
          BY <2>6, <4>2
        <5>2. i \in 1 .. Len(frames[u]) /\ frames'[u][i] = frames[u][i]
          BY <2>4, <5>1
        <5>. QED
          BY <1>5, <2>6, <4>2, <5>2 DEF Start, Following
      <4>. QED
        BY <4>1, <4>2
    <3>2. \A u \in Threads, i \in Nat : i > Len(frames'[u]) => ch[u][i] = <<>>
      BY <1>2, <2>1, <2>5 DEF ListsRight
    <3>3. \A u \in Threads, i \in Nat :
            i <= Len(frames'[u]) => Strung(next', Start(u, i)', ch[u][i])
      BY <1>2, <1>5, <3>1 DEF ListsRight
    <3>. QED
      BY <1>2, <1>8, <2>3, <3>2, <3>3 DEF ListsRight
  <2>10. AsideRight(ch)'
    <3>1. Pooled(ch)' = Pooled(ch)
      BY DEF Pooled
    <3>. QED
      BY <1>2, <1>5, <1>8, <2>3, <2>4, <3>1 DEF AsideRight
  <2>11. HeapRight'
    <3>1. ClosedIn(next, heap)'
      BY <1>2, <1>5 DEF HeapRight, ClosedIn
    <3>. QED
      BY <1>2, <1>5, <1>8, <2>3, <2>4, <3>1 DEF HeapRight
  <2>. QED
    BY <2>7, <2>8, <2>9, <2>10, <2>11 DEF IInv, Right
<1>10. CASE e # Null
  <2>. DEFINE s == ch[t][n]
              c2 == [u \in Threads |-> [i \in Nat |-> IF u = t /\ i = n THEN Tail(s) ELSE ch[u][i]]]
  <2>1. /\ e \in ToSet(s) /\ Tail(s) \in Seq(Entries) /\ IsInjective(Tail(s))
        /\ ToSet(Tail(s)) = ToSet(s) \ {e} /\ Strung(next, next[e], Tail(s))
        /\ next[e] # Null => next[e] \in ToSet(s)
    <3>1. s \in Seq(Entries) /\ IsInjective(s) /\ Strung(next, e, s)
      BY <1>3, <1>6, <1>7
    <3>. HIDE DEF s
    <3>. QED
      BY <1>10, <3>1, StrungTail
  <2>2. e \in Attached \ called
    BY <1>3, <1>6, <2>1
  <2>3. /\ frames[t][n] \in Calls
        /\ called' = called \union {e}
        /\ frames' = [frames EXCEPT ![t][n].current = e]
    BY <1>3, <1>5, <1>10
  <2>. HIDE DEF s
  <2>4. /\ frames' \in [Threads -> Seq(Calls)]
        /\ \A u \in Threads : Len(frames'[u]) = Len(frames[u]) /\ Len(frames[u]) \in Nat
        /\ frames'[t][n].list = frames[t][n].list /\ frames'[t][n].current = e
        /\ \A u \in Threads, i \in Nat : i \in 1 .. Len(frames[u]) /\ (u # t \/ i # n) =>
             frames'[u][i] = frames[u][i]
    <3>1. frames \in [Threads -> Seq(Calls)] /\ e \in Entries
      BY <1>2, <1>8, <2>2 DEF Types
    <3>. DEFINE c == [frames[t][n] EXCEPT !.current = e]
                f == [frames[t] EXCEPT ![n] = c]
    <3>2. c \in Calls /\ c.list = frames[t][n].list /\ c.current = e
      BY <2>3, <3>1 DEF Calls
    <3>3. /\ f \in Seq(Calls) /\ Len(f) = n /\ f[n] = c
          /\ \A i \in 1 .. n : i # n => f[i] = frames[t][i]
      <4>. HIDE DEF c
      <4>. QED
        BY <1>1, <1>3, <3>2
    <3>4. frames' = [frames EXCEPT ![t] = f]
      BY <2>3
    <3>. HIDE DEF f, c
    <3>5. frames'[t] = f /\ \A u \in Threads : u # t => frames'[u] = frames[u]
      BY <3>1, <3>4
    <3>. QED
      BY <1>1, <1>3, <3>1, <3>2, <3>3, <3>4, <3>5
  <2>5. Types'
    BY <1>2, <1>5, <2>4 DEF Types
  <2>6. n = Len(frames[t]) /\ n \in Nat /\ n # 0 /\ n \in 1 .. Len(frames[t])
    BY <1>1, <1>3
  <2>7. /\ c2 \in Places
        /\ c2[t][n] = Tail(s)
        /\ \A u \in Threads, i \in Nat : (u # t \/ i # n) => c2[u][i] = ch[u][i]
    BY <1>6, <2>1, <2>6 DEF Places
  <2>. HIDE DEF c2
  <2>8. \A u \in Threads, i \in Nat : ToSet(c2[u][i]) = ToSet(ch[u][i]) \ {e}
    <3>. TAKE u \in Threads, i \in Nat
    <3>1. CASE u = t /\ i = n
      BY <2>1, <2>7, <3>1 DEF s
    <3>2. CASE u # t \/ i # n
      <4>1. ToSet(ch[u][i]) \intersect ToSet(ch[t][n]) = {}
        BY <1>2, <2>6, <3>2, Zenon DEF ListsRight
      <4>. QED
        BY <2>1, <2>7, <3>2, <4>1 DEF s
    <3>. QED
      BY <3>1, <3>2
  <2>9. \A u \in Threads, i \in Nat : \A x :
          x \in ToSet(c2[u][i]) <=> x \in ToSet(ch[u][i]) /\ x # e
    <3>. TAKE u \in Threads, i \in Nat
    <3>1. ToSet(c2[u][i]) = ToSet(ch[u][i]) \ {e}
      BY <2>8
    <3>. QED
      BY <3>1
  <2>10. ListsRight(c2)'
    <3>1. ASSUME NEW u \in Threads, NEW i \in Nat
          PROVE  /\ i <= Len(frames'[u]) => Strung(next', Start(u, i)', c2[u][i])
                 /\ i > Len(frames'[u]) => c2[u][i] = <<>>
                 /\ IsInjective(c2[u][i])
      <4>1. CASE u = t /\ i = n
        <5>1. Start(u, i)' = next[e]
          BY <1>5, <1>10, <2>4, <2>6, <4>1 DEF Start, Following
        <5>2. c2[u][i] = Tail(s) /\ next' = next
          BY <1>5, <2>7, <4>1
        <5>3. ~(i > Len(frames'[u]))
          BY <2>4, <2>6, <4>1
        <5>. QED
          BY <2>1, <5>1, <5>2, <5>3
      <4>2. CASE u # t \/ i # n
        <5>1. i <= Len(frames[u]) => Start(u, i)' = Start(u, i)
          <6>1. CASE i = 0
            BY <1>5, <6>1 DEF Start
          <6>2. CASE i # 0
            <7>. SUFFICES ASSUME i \in 1 .. Len(frames[u]) PROVE Start(u, i)' = Start(u, i)
              BY <2>4, <6>2
            <7>. QED
              BY <1>5, <2>4, <4>2, <6>2 DEF Start, Following
          <6>. QED
            BY <6>1, <6>2
        <5>. QED
          BY <1>2, <1>5, <2>4, <2>7, <4>2, <5>1 DEF ListsRight
      <4>. QED
        BY <4>1, <4>2
    <3>2. \A u, v \in Threads, i, j \in Nat :
            u # v \/ i # j => ToSet(c2[u][i]) \intersect ToSet(c2[v][j]) = {}
      <4>. SUFFICES ASSUME NEW u \in Threads, NEW v \in Threads, NEW i \in Nat, NEW j \in Nat,
                           u # v \/ i # j
                    PROVE  ToSet(c2[u][i]) \intersect ToSet(c2[v][j]) = {}
        OBVIOUS
      <4>1. ToSet(ch[u][i]) \intersect ToSet(ch[v][j]) = {}
        BY <1>2, Zenon DEF ListsRight
      <4>. QED
        BY <2>9, <4>1, Zenon
    <3>3. \A x \in Entries :
            x \in Attached' \ called' <=> \E u \in Threads, i \in Nat : x \in ToSet(c2[u][i])
      <4>. TAKE x \in Entries
      <4>1. x \in Attached \ called <=> \E u \in Threads, i \in Nat : x \in ToSet(ch[u][i])
        BY <1>2 DEF ListsRight
      <4>2. x \in Attached' \ called' <=> x \in Attached \ called /\ x # e
        BY <1>8, <2>3
      <4>. QED
        BY <2>9, <4>1, <4>2, Zenon
    <3>. QED
      BY <3>1, <3>2, <3>3 DEF ListsRight
  <2>11. Pooled(c2) = Pooled(ch)
    <3>1. \A u \in Threads : c2[u][0] = ch[u][0]
      BY <2>6, <2>7
    <3>. QED
      BY <3>1 DEF Pooled
  <2>12. AsideRight(c2)'
    <3>1. next[e] \in (Attached \ Pooled(ch)) \union {Null}
      <4>1. ToSet(s) \intersect Pooled(ch) = {}
        BY <1>2, <2>6, InPlace DEF s
      <4>2. ToSet(s) \subseteq Attached
        BY <1>6, <2>6 DEF s
      <4>. QED
        BY <2>1, <4>1, <4>2
    <3>2. \A x \in called' : next'[x] \in (Attached' \ Pooled(c2)) \union {Null}
      BY <1>2, <1>5, <1>8, <2>3, <2>11, <3>1 DEF AsideRight
    <3>3. called' \in SUBSET Attached'
      BY <1>8, <2>2, <2>3
    <3>4. \A u \in Threads, i \in Nat : i \in 1 .. Len(frames'[u]) =>
            /\ frames'[u][i].list \in Attached' \ Pooled(c2)
            /\ frames'[u][i].current # Null => frames'[u][i].current \in called'
      <4>. SUFFICES ASSUME NEW u \in Threads, NEW i \in Nat, i \in 1 .. Len(frames'[u])
                    PROVE  /\ frames'[u][i].list \in Attached \ Pooled(ch)
                           /\ frames'[u][i].current # Null => frames'[u][i].current \in called'
        BY <1>8, <2>11
      <4>1. CASE u = t /\ i = n
        BY <1>2, <2>3, <2>4, <2>6, <4>1 DEF AsideRight
      <4>2. CASE u # t \/ i # n
        BY <1>2, <2>3, <2>4, <4>2 DEF AsideRight
      <4>. QED
        BY <4>1, <4>2
    <3>5. Pooled(c2)' = Pooled(c2)
      BY DEF Pooled
    <3>. QED
      BY <3>2, <3>3, <3>4, <3>5 DEF AsideRight
  <2>13. FramesRight'
    <3>1. ASSUME NEW u \in Threads, NEW i \in Nat, i \in 1 .. Len(frames'[u])
          PROVE  /\ frames'[u][i].current = Null => i = Len(frames'[u])
                 /\ (u # t \/ i # n) => frames'[u][i] = frames[u][i] /\ frames[u][i].current # e
      <4>1. CASE u = t /\ i = n
        BY <2>4, <2>6, <4>1
      <4>2. CASE u # t \/ i # n
        <5>1. frames'[u][i] = frames[u][i] /\ i \in 1 .. Len(frames[u])
          BY <2>4, <3>1, <4>2
        <5>2. frames[u][i].current # e
          BY <1>2, <1>10, <2>2, <5>1 DEF AsideRight
        <5>. QED
          BY <1>2, <2>4, <5>1, <5>2 DEF FramesRight
      <4>. QED
        BY <4>1, <4>2
    <3>2. \A u, v \in Threads, i, j \in Nat :
            /\ i \in 1 .. Len(frames'[u]) /\ j \in 1 .. Len(frames'[v])
            /\ frames'[u][i].current # Null
            /\ frames'[u][i].current = frames'[v][j].current
            => u = v /\ i = j
      <4>. SUFFICES ASSUME NEW u \in Threads, NEW v \in Threads, NEW i \in Nat, NEW j \in Nat,
                           i \in 1 .. Len(frames'[u]), j \in 1 .. Len(frames'[v]),
                           frames'[u][i].current # Null,
                           frames'[u][i].current = frames'[v][j].current
                    PROVE  u = v /\ i = j
        OBVIOUS
      <4>1. CASE (u = t /\ i = n) \/ (v = t /\ j = n)
        BY <2>4, <3>1, <4>1
      <4>2. CASE ~(u = t /\ i = n) /\ ~(v = t /\ j = n)
        <5>1. frames'[u][i] = frames[u][i] /\ frames'[v][j] = frames[v][j]
          BY <3>1, <4>2
        <5>. QED
          BY <1>2, <2>4, <5>1 DEF FramesRight
      <4>. QED
        BY <4>1, <4>2
    <3>. QED
      BY <3>1, <3>2 DEF FramesRight
  <2>14. HeapRight'
    <3>1. ClosedIn(next, heap)'
      BY <1>2, <1>5 DEF HeapRight, ClosedIn
    <3>2. e \in heap /\ Attached' \ called' \subseteq heap
      BY <1>2, <1>8, <2>2, <2>3 DEF HeapRight
    <3>3. \A u \in Threads, i \in Nat : i \in 1 .. Len(frames'[u]) =>
            /\ frames'[u][i].list \in heap
            /\ frames'[u][i].current # Null => frames'[u][i].current \in heap
      <4>. SUFFICES ASSUME NEW u \in Threads, NEW i \in Nat, i \in 1 .. Len(frames'[u])
                    PROVE  /\ frames'[u][i].list \in heap
                           /\ frames'[u][i].current # Null => frames'[u][i].current \in heap
        OBVIOUS
      <4>1. CASE u = t /\ i = n
        BY <1>2, <2>4, <2>6, <3>2, <4>1 DEF HeapRight
      <4>2. CASE u # t \/ i # n
        BY <1>2, <2>4, <4>2 DEF HeapRight
      <4>. QED
        BY <4>1, <4>2
    <3>. QED
      BY <1>2, <1>5, <1>8, <3>1, <3>2, <3>3 DEF HeapRight
  <2>15. Right(c2)'
    BY <2>10, <2>12 DEF Right
  <2>. QED
    BY <2>5, <2>7, <2>13, <2>14, <2>15 DEF IInv
<1>. QED
  BY <1>9, <1>10

(* What a collection marks: all that threads can name, the calls under way *)
(* and what they are yet to call, and nothing that was swept.              *)
LEMMA MarkedFacts ==
  ASSUME Types, HeapRight, NEW ch \in Places, Right(ch)
  PROVE  /\ Marked \in SUBSET Things /\ Marked \subseteq heap /\ ClosedIn(next, Marked)
         /\ \A t \in Threads : Known(t) \subseteq Marked
         /\ \A t \in Threads, i \in Nat : i \in 1 .. Len(frames[t]) =>
              /\ frames[t][i].list \in Marked
              /\ frames[t][i].current # Null => frames[t][i].current \in Marked
              /\ ToSet(ch[t][i]) \subseteq Marked
<1>. DEFINE K == UNION {Known(t) : t \in Threads}
            F == UNION {{f.list, f.current} : f \in Framed}
            G == K \union F
<1>1. ListsRight(ch) /\ AsideRight(ch) /\ Null \notin Entries \union Objects
  BY FinalizersAssumption DEF Right
<1>2. \A t \in Threads : Known(t) \subseteq Objects \intersect heap
  BY <1>1, KnownFacts
<1>3. \A x : x \in K <=> \E t \in Threads : x \in Known(t)
  OBVIOUS
<1>4. \A t \in Threads : frames[t] \in Seq(Calls) /\ Len(frames[t]) \in Nat
                         /\ DOMAIN frames[t] = 1 .. Len(frames[t])
  BY DEF Types
<1>5. \A f : f \in Framed <=> \E t \in Threads : \E i \in 1 .. Len(frames[t]) : f = frames[t][i]
  <2>1. \A f : f \in Framed <=> \E t \in Threads : f \in ToSet(frames[t])
    BY DEF Framed
  <2>2. \A t \in Threads : \A f : f \in ToSet(frames[t]) <=> \E i \in 1 .. Len(frames[t]) : f = frames[t][i]
    BY <1>4 DEF ToSet
  <2>. TAKE f
  <2>3. ASSUME f \in Framed
        PROVE  \E t \in Threads : \E i \in 1 .. Len(frames[t]) : f = frames[t][i]
    BY <2>1, <2>2, <2>3
  <2>4. ASSUME NEW t \in Threads, NEW i \in 1 .. Len(frames[t]), f = frames[t][i] PROVE f \in Framed
    BY <2>1, <2>2, <2>4
  <2>. QED
    BY <2>3, <2>4
<1>6. \A x : x \in F <=> \E f \in Framed : x = f.list \/ x = f.current
  OBVIOUS
<1>. HIDE DEF K, F
<1>7. \A f \in Framed : f.list \in heap /\ (f.current # Null => f.current \in heap)
  BY <1>4, <1>5 DEF HeapRight
<1>8. heap \subseteq Things /\ \A x \in G : x # Null => x \in heap
  <2>1. heap \subseteq Things
    BY DEF HeapRight, Things, Attached
  <2>. QED
    BY <1>2, <1>3, <1>6, <1>7, <2>1
<1>9. G \in SUBSET (Things \union {Null})
  BY <1>8
<1>10. Marked = Reached(next, G)
  BY DEF Marked, K, F
<1>11. /\ pointer \in [Objects -> Objects \union {Null}]
       /\ obj \in [Entries -> Objects \union {Null}]
       /\ next \in [Entries -> Entries \union {Null}]
  BY DEF Types
<1>. HIDE DEF G
<1>12. /\ Marked \in SUBSET Things
       /\ \A x \in G : x # Null => x \in Marked
       /\ ClosedIn(next, Marked)
       /\ \A C \in SUBSET Things :
            (\A x \in G : x # Null => x \in C) /\ ClosedIn(next, C) => Marked \subseteq C
  BY <1>9, <1>10, <1>11, ReachedLeast
<1>13. Marked \subseteq heap
  BY <1>8, <1>12 DEF HeapRight
<1>14. \A t \in Threads : Known(t) \subseteq Marked
  BY <1>1, <1>2, <1>3, <1>12 DEF G
<1>15. ASSUME NEW t \in Threads, NEW i \in Nat, i \in 1 .. Len(frames[t])
       PROVE  /\ frames[t][i].list \in Marked
              /\ frames[t][i].current # Null => frames[t][i].current \in Marked
              /\ ToSet(ch[t][i]) \subseteq Marked
  <2>1. frames[t][i] \in Framed
    BY <1>5, <1>15
  <2>2. frames[t][i].list \in G /\ frames[t][i].current \in G
    BY <1>6, <2>1 DEF G
  <2>3. frames[t][i].list \in Attached
    BY <1>1, <1>15 DEF AsideRight
  <2>4. /\ frames[t][i].list \in Marked
        /\ frames[t][i].current # Null => frames[t][i].current \in Marked
    BY <1>1, <1>12, <2>2, <2>3 DEF Attached
  <2>5. frames[t][i].current # Null => frames[t][i].current \in Entries
    BY <1>1, <1>15 DEF AsideRight, Attached
  <2>. DEFINE a == Following(frames[t][i])
  <2>6. a # Null => a \in Marked
    BY <1>12, <2>4, <2>5 DEF Following, ClosedIn
  <2>7. ch[t][i] \in Seq(Entries)
    BY <1>1, InPlace
  <2>8. i # 0 /\ i <= Len(frames[t])
    BY <1>4, <1>15
  <2>9. Strung(next, a, ch[t][i])
    BY <1>1, <2>8 DEF ListsRight, Start
  <2>10. \A x \in Marked \intersect Entries : next[x] # Null => next[x] \in Marked
    BY <1>12 DEF ClosedIn
  <2>. HIDE DEF a
  <2>11. ToSet(ch[t][i]) \subseteq Marked
    BY <2>6, <2>7, <2>9, <2>10, StrungReach
  <2>. QED
    BY <2>4, <2>11
<1>. QED
  BY <1>12, <1>13, <1>14, <1>15

(* The lists r and k[u] of all threads u have each entry that is on a       *)
(* pool's list one time, those in S on a k[u].                             *)
ListsMade(ch, r, k, S) ==
    /\ r \in Seq(Entries) /\ IsInjective(r) /\ ToSet(r) = Pooled(ch) \ S
    /\ \A u \in Threads : k[u] \in Seq(Entries) /\ IsInjective(k[u]) /\ ToSet(k[u]) \subseteq S
    /\ \A u, v \in Threads : u # v => ToSet(k[u]) \intersect ToSet(k[v]) = {}
    /\ UNION {ToSet(k[u]) : u \in Threads} = Pooled(ch) \intersect S

(* A collection makes such lists.                                          *)
LEMMA CollectLists ==
  ASSUME Types, NEW ch \in Places, ListsRight(ch), NEW t \in Threads,
         NEW order \in Orders, NEW moved, NEW home \in Homes(t)
  PROVE  ListsMade(ch, Ready(order, moved), Surviving(order, moved, home), Survivors(moved))
<1>. DEFINE S == Survivors(moved)
            k == Surviving(order, moved, home)
            all == UNION {ToSet(ch[u][0]) : u \in ToSet(order)}
<1>1. frames \in [Threads -> Seq(Calls)]
  BY DEF Types
<1>2. order \in Seq(Threads) /\ IsInjective(order) /\ ToSet(order) = Threads
  BY OrdersFacts
<1>3. all = Pooled(ch) /\ Pooled(ch) \subseteq Entries
  <2>1. Pooled(ch) \subseteq Attached
    BY InPlace
  <2>. QED
    BY <1>2, <2>1 DEF Pooled, Attached
<1>. HIDE DEF all
<1>4. \A X : /\ Split(order, X) \in Seq(Entries) /\ IsInjective(Split(order, X))
             /\ ToSet(Split(order, X)) = Pooled(ch) \intersect X
  BY <1>1, <1>2, <1>3, SplitFacts DEF all
<1>5. ASSUME NEW u \in Threads
      PROVE  \A X : /\ Split(<<u>>, X) \in Seq(Entries) /\ IsInjective(Split(<<u>>, X))
                    /\ ToSet(Split(<<u>>, X)) = ToSet(ch[u][0]) \intersect X
  <2>. DEFINE w == <<u>>
              these == UNION {ToSet(ch[v][0]) : v \in ToSet(w)}
  <2>1. w \in Seq(Threads)
    OBVIOUS
  <2>2. IsInjective(w) /\ ToSet(w) = {u}
    BY DEF IsInjective, ToSet
  <2>. HIDE DEF w
  <2>3. these = ToSet(ch[u][0])
    BY <2>2
  <2>. HIDE DEF these
  <2>4. \A X : /\ Split(w, X) \in Seq(Entries) /\ IsInjective(Split(w, X))
               /\ ToSet(Split(w, X)) = ToSet(ch[u][0]) \intersect X
    BY <1>1, <2>1, <2>2, <2>3, SplitFacts DEF these
  <2>. QED
    BY <2>4 DEF w
<1>6. \A u \in Threads :
        k[u] = IF Collector = "gembc" THEN IF u = home THEN Split(order, S) ELSE <<>>
               ELSE Split(<<u>>, S)
  BY DEF Surviving
<1>7. <<>> \in Seq(Entries) /\ IsInjective(<<>>) /\ ToSet(<<>>) = {}
  BY DEF IsInjective, ToSet
<1>8. Ready(order, moved) = Split(order, Entries \ S)
  BY DEF Ready
<1>9. \A x : x \in Pooled(ch) <=> \E u \in Threads : x \in ToSet(ch[u][0])
  BY DEF Pooled
<1>10. \A x : x \in UNION {ToSet(k[u]) : u \in Threads} <=> \E u \in Threads : x \in ToSet(k[u])
  OBVIOUS
<1>11. \A u, v \in Threads : u # v => ToSet(ch[u][0]) \intersect ToSet(ch[v][0]) = {}
  <2>1. 0 \in Nat
    OBVIOUS
  <2>. QED
    BY <2>1, Zenon DEF ListsRight
<1>. HIDE DEF S, k
<1>12. /\ Ready(order, moved) \in Seq(Entries) /\ IsInjective(Ready(order, moved))
       /\ ToSet(Ready(order, moved)) = Pooled(ch) \ S
  <2>1. Pooled(ch) \intersect (Entries \ S) = Pooled(ch) \ S
    BY <1>3
  <2>. QED
    BY <1>4, <1>8, <2>1
<1>13. CASE Collector = "gembc"
  <2>1. /\ home \in Threads
        /\ k[home] = Split(order, S)
        /\ \A u \in Threads : u # home => k[u] = <<>>
    BY <1>6, <1>13 DEF Homes
  <2>2. ToSet(k[home]) = Pooled(ch) \intersect S /\ \A u \in Threads : u # home => ToSet(k[u]) = {}
    BY <1>4, <1>7, <2>1
  <2>3. \A u \in Threads : k[u] \in Seq(Entries) /\ IsInjective(k[u]) /\ ToSet(k[u]) \subseteq S
    <3>. TAKE u \in Threads
    <3>1. CASE u = home
      BY <1>4, <2>1, <2>2, <3>1
    <3>2. CASE u # home
      BY <1>7, <2>1, <3>2
    <3>. QED
      BY <3>1, <3>2
  <2>4. \A u, v \in Threads : u # v => ToSet(k[u]) \intersect ToSet(k[v]) = {}
    BY <2>2
  <2>5. UNION {ToSet(k[u]) : u \in Threads} = Pooled(ch) \intersect S
    BY <1>10, <2>1, <2>2
  <2>. QED
    BY <1>12, <2>3, <2>4, <2>5 DEF k, S, ListsMade
<1>14. CASE Collector # "gembc"
  <2>1. \A u \in Threads : /\ k[u] \in Seq(Entries) /\ IsInjective(k[u])
                           /\ ToSet(k[u]) = ToSet(ch[u][0]) \intersect S
    BY <1>5, <1>6, <1>14
  <2>2. \A u, v \in Threads : u # v => ToSet(k[u]) \intersect ToSet(k[v]) = {}
    BY <1>11, <2>1
  <2>3. UNION {ToSet(k[u]) : u \in Threads} = Pooled(ch) \intersect S
    BY <1>9, <1>10, <2>1
  <2>. QED
    BY <1>12, <2>1, <2>2, <2>3 DEF k, S, ListsMade
<1>. QED
  BY <1>13, <1>14

(* The lists are chained, and only what is on them is chained differently. *)
ChainsMade(ch, r, k, nx) ==
    /\ nx \in [Entries -> Entries \union {Null}]
    /\ Strung(nx, FirstOf(r), r)
    /\ \A u \in Threads : Strung(nx, FirstOf(k[u]), k[u])
    /\ \A e \in Entries \ Pooled(ch) : nx[e] = next[e]
    /\ \A e \in Pooled(ch) : nx[e] \in Pooled(ch) \union {Null}
    /\ \A e : e \in Pooled(ch) <=> e \in ToSet(r) \/ \E u \in Threads : e \in ToSet(k[u])
    /\ \A u \in Threads : ToSet(r) \intersect ToSet(k[u]) = {}

(* What a collection makes of next chains its lists.                       *)
LEMMA CollectChains ==
  ASSUME Types, NEW ch \in Places, ListsRight(ch), NEW r, NEW k, NEW S, ListsMade(ch, r, k, S)
  PROVE  ChainsMade(ch, r, k, Chained({r} \union {k[u] : u \in Threads}))
<1>. DEFINE L == {r} \union {k[u] : u \in Threads}
            mx == Chained(L)
<1>1. /\ r \in Seq(Entries) /\ IsInjective(r) /\ ToSet(r) = Pooled(ch) \ S
      /\ \A u \in Threads : k[u] \in Seq(Entries) /\ IsInjective(k[u]) /\ ToSet(k[u]) \subseteq S
      /\ \A u, v \in Threads : u # v => ToSet(k[u]) \intersect ToSet(k[v]) = {}
      /\ UNION {ToSet(k[u]) : u \in Threads} = Pooled(ch) \intersect S
  BY DEF ListsMade
<1>2. \A e : e \in Pooled(ch) /\ e \in S <=> \E u \in Threads : e \in ToSet(k[u])
  <2>. TAKE e
  <2>1. e \in UNION {ToSet(k[u]) : u \in Threads} <=> \E u \in Threads : e \in ToSet(k[u])
    OBVIOUS
  <2>. QED
    BY <1>1, <2>1
<1>3. \A e : e \in Pooled(ch) <=> e \in ToSet(r) \/ \E u \in Threads : e \in ToSet(k[u])
  BY <1>1, <1>2
<1>4. \A u \in Threads : ToSet(r) \intersect ToSet(k[u]) = {}
  BY <1>1
<1>5. \A l \in L : l \in Seq(Entries) /\ IsInjective(l) /\ ToSet(l) \subseteq Pooled(ch)
  BY <1>1, <1>3
<1>6. \A l, m \in L : l # m => ToSet(l) \intersect ToSet(m) = {}
  <2>. TAKE l, m \in L
  <2>. HAVE l # m
  <2>1. CASE l = r \/ m = r
    BY <1>4, <2>1
  <2>2. CASE l # r /\ m # r
    <3>1. PICK u \in Threads, v \in Threads : l = k[u] /\ m = k[v]
      BY <2>2
    <3>. QED
      BY <1>1, <3>1
  <2>. QED
    BY <2>1, <2>2
<1>7. r \in L /\ \A u \in Threads : k[u] \in L
  OBVIOUS
<1>8. next \in [Entries -> Entries \union {Null}]
  BY DEF Types
<1>9. \A e : e \in Pooled(ch) <=> \E l \in L : e \in ToSet(l)
  BY <1>3
<1>10. Pooled(ch) \subseteq Entries
  BY InPlace DEF Attached
<1>. HIDE DEF L
<1>11. L \subseteq Seq(Entries) /\ \A l \in L : IsInjective(l)
  BY <1>5
<1>12. /\ \A l \in L : Strung(mx, FirstOf(l), l)
       /\ \A e \in Entries : (\A l \in L : e \notin ToSet(l)) => mx[e] = next[e]
       /\ \A l \in L, e \in Entries : e \in ToSet(l) => mx[e] \in ToSet(l) \union {Null}
       /\ mx \in [Entries -> Entries \union {Null}]
  BY <1>6, <1>8, <1>11, ChainedFacts
<1>. HIDE DEF mx
<1>13. \A e \in Entries \ Pooled(ch) : mx[e] = next[e]
  BY <1>9, <1>12
<1>14. \A e \in Pooled(ch) : mx[e] \in Pooled(ch) \union {Null}
  BY <1>5, <1>9, <1>12, <1>10
<1>. QED
  BY <1>3, <1>4, <1>7, <1>12, <1>13, <1>14 DEF ChainsMade, mx, L

(* A full collection that looks at the lists.                              *)
LEMMA InvCollect ==
  ASSUME IInv, NEW t \in Threads, NEW order \in Orders, NEW moved, NEW home \in Homes(t),
         Collect(t, order, moved, home, TRUE)
  PROVE  IInv'
<1>. PICK ch \in Places : Right(ch)
  BY DEF IInv
<1>. PICK r, k, n, S : /\ r = Ready(order, moved) /\ k = Surviving(order, moved, home)
                       /\ n = Len(frames[t]) /\ S = Survivors(moved)
  OBVIOUS
<1>1. /\ r = Ready(order, moved) /\ k = Surviving(order, moved, home)
      /\ n = Len(frames[t]) /\ S = Survivors(moved)
  OBVIOUS
<1>2. /\ Types /\ FramesRight /\ HeapRight /\ ListsRight(ch) /\ AsideRight(ch)
      /\ Null \notin Entries \union Objects /\ Objects \intersect Entries = {}
  BY FinalizersAssumption DEF IInv, Right
<1>3. ListsMade(ch, r, k, S)
  BY <1>1, <1>2, CollectLists, Zenon
<1>4. /\ r \in Seq(Entries) /\ IsInjective(r)
      /\ \A u \in Threads : k[u] \in Seq(Entries) /\ IsInjective(k[u])
      /\ \A u, v \in Threads : u # v => ToSet(k[u]) \intersect ToSet(k[v]) = {}
  BY <1>3 DEF ListsMade
<1>5. /\ RunsCode(t)
      /\ finalizers' = [u \in Threads |-> FirstOf(k[u])]
      /\ next' = Chained({r} \union {k[u] : u \in Threads})
      /\ heap' = heap \intersect (Marked \union Reached(next',
              {FirstOf(r)} \union {finalizers'[u] : u \in Threads}))
      /\ frames' = IF r = <<>> THEN frames
                   ELSE [frames EXCEPT ![t] = Append(@, Frame(FirstOf(r), Null))]
      /\ local' = local /\ pointer' = pointer /\ obj' = obj /\ called' = called
  BY <1>1 DEF Collect
<1>6. /\ next' \in [Entries -> Entries \union {Null}]
      /\ Strung(next', FirstOf(r), r)
      /\ \A u \in Threads : Strung(next', FirstOf(k[u]), k[u])
      /\ \A e \in Entries \ Pooled(ch) : next'[e] = next[e]
      /\ \A e \in Pooled(ch) : next'[e] \in Pooled(ch) \union {Null}
      /\ \A e : e \in Pooled(ch) <=> e \in ToSet(r) \/ \E u \in Threads : e \in ToSet(k[u])
      /\ \A u \in Threads : ToSet(r) \intersect ToSet(k[u]) = {}
  <2>1. ChainsMade(ch, r, k, next')
    BY <1>2, <1>5, <1>3, CollectChains
  <2>. QED
    BY <2>1 DEF ChainsMade
<1>7. /\ \A u \in Threads, i \in Nat :
           /\ ch[u][i] \in Seq(Entries) /\ IsInjective(ch[u][i])
           /\ ToSet(ch[u][i]) \subseteq Attached \ called
      /\ Pooled(ch) \subseteq Attached \ called
      /\ \A u \in Threads : ToSet(ch[u][0]) \subseteq Pooled(ch)
      /\ \A u \in Threads, i \in Nat : i # 0 => ToSet(ch[u][i]) \intersect Pooled(ch) = {}
  BY <1>2, InPlace
<1>8. /\ Attached' = Attached /\ Attached \subseteq Entries
      /\ called \subseteq Attached
  BY <1>2, <1>5 DEF Attached, AsideRight
<1>9. frames[t] \in Seq(Calls) /\ n \in Nat /\ n = Len(frames[t])
  BY <1>1, <1>2 DEF Types
<1>. DEFINE f == Frame(FirstOf(r), Null)
            q == Append(frames[t], f)
<1>10. r # <<>> => FirstOf(r) \in ToSet(r) /\ FirstOf(r) \in Entries
  BY <1>4 DEF FirstOf, ToSet
<1>11. r # <<>> => /\ f \in Calls /\ f.list = FirstOf(r) /\ f.current = Null
                   /\ Following(f) = FirstOf(r) /\ Following(f)' = FirstOf(r)
  BY <1>10 DEF Frame, Calls, Following
<1>. HIDE DEF f
<1>12. r # <<>> => /\ q \in Seq(Calls) /\ Len(q) = n + 1 /\ q[n + 1] = f
                   /\ \A i \in 1 .. n : q[i] = frames[t][i]
  BY <1>9, <1>11
<1>13. /\ frames' \in [Threads -> Seq(Calls)]
       /\ \A u \in Threads : u # t => frames'[u] = frames[u]
       /\ r = <<>> => frames'[t] = frames[t]
       /\ r # <<>> => frames'[t] = q
  <2>1. frames \in [Threads -> Seq(Calls)]
    BY <1>2 DEF Types
  <2>2. r # <<>> => frames' = [frames EXCEPT ![t] = q]
    BY <1>5 DEF f
  <2>. HIDE DEF q
  <2>. QED
    BY <1>5, <1>12, <2>1, <2>2
<1>. HIDE DEF q
<1>14. \A u \in Threads : Len(frames[u]) \in Nat /\ Len(frames'[u]) \in Nat
                          /\ Len(frames[u]) <= Len(frames'[u])
  <2>1. \A u \in Threads : Len(frames[u]) \in Nat
    BY <1>2 DEF Types
  <2>2. Len(frames[t]) <= Len(frames'[t]) /\ Len(frames'[t]) \in Nat
    BY <1>9, <1>12, <1>13
  <2>. QED
    BY <1>13, <2>1, <2>2
\* A call under way after the step was so before, or is the new one.
<1>15. \A u \in Threads, i \in Nat : i \in 1 .. Len(frames'[u]) =>
         \/ i \in 1 .. Len(frames[u]) /\ frames'[u][i] = frames[u][i] /\ ~(u = t /\ i = n + 1)
         \/ u = t /\ i = n + 1 /\ r # <<>> /\ frames'[u][i] = f
  <2>. SUFFICES ASSUME NEW u \in Threads, NEW i \in Nat, i \in 1 .. Len(frames'[u])
                PROVE  \/ i \in 1 .. Len(frames[u]) /\ frames'[u][i] = frames[u][i]
                            /\ ~(u = t /\ i = n + 1)
                       \/ u = t /\ i = n + 1 /\ r # <<>> /\ frames'[u][i] = f
    OBVIOUS
  <2>1. CASE u # t \/ r = <<>>
    BY <1>9, <1>13, <2>1
  <2>2. CASE u = t /\ r # <<>>
    <3>1. i \in 1 .. n \/ i = n + 1
      BY <1>9, <1>12, <1>13, <2>2
    <3>. QED
      BY <1>9, <1>12, <1>13, <2>2, <3>1
  <2>. QED
    BY <2>1, <2>2
<1>16. /\ Len(frames'[t]) = IF r = <<>> THEN n ELSE n + 1
       /\ \A u \in Threads : u # t => Len(frames'[u]) = Len(frames[u])
  BY <1>9, <1>12, <1>13
\* All calls of t under way are calling a function.
<1>17. \A i \in Nat : i \in 1 .. n => frames[t][i].current # Null
  <2>. SUFFICES ASSUME NEW i \in Nat, i \in 1 .. n, frames[t][i].current = Null PROVE FALSE
    OBVIOUS
  <2>1. i = n /\ frames[t] # <<>>
    BY <1>2, <1>9 DEF FramesRight
  <2>. QED
    BY <1>5, <1>9, <2>1 DEF RunsCode, Top, Last
<1>18. Types'
  <2>1. finalizers' \in [Threads -> Entries \union {Null}]
    <3>1. \A u \in Threads : FirstOf(k[u]) \in Entries \union {Null}
      BY <1>4 DEF FirstOf
    <3>. QED
      BY <1>5, <3>1
  <2>. QED
    BY <1>2, <1>5, <1>6, <1>13, <2>1 DEF Types
<1>19. FramesRight'
  <2>1. \A u \in Threads, i \in Nat : i \in 1 .. Len(frames'[u]) =>
          (frames'[u][i].current = Null => i = Len(frames'[u]))
    <3>. SUFFICES ASSUME NEW u \in Threads, NEW i \in Nat, i \in 1 .. Len(frames'[u]),
                         frames'[u][i].current = Null
                  PROVE  i = Len(frames'[u])
      OBVIOUS
    <3>1. CASE u = t /\ i = n + 1
      BY <1>15, <1>16, <3>1
    <3>2. CASE u = t /\ i # n + 1
      BY <1>9, <1>15, <1>17, <3>2
    <3>3. CASE u # t
      BY <1>2, <1>13, <3>3 DEF FramesRight
    <3>. QED
      BY <3>1, <3>2, <3>3
  <2>2. \A u, v \in Threads, i, j \in Nat :
          /\ i \in 1 .. Len(frames'[u]) /\ j \in 1 .. Len(frames'[v])
          /\ frames'[u][i].current # Null
          /\ frames'[u][i].current = frames'[v][j].current
          => u = v /\ i = j
    <3>. SUFFICES ASSUME NEW u \in Threads, NEW v \in Threads, NEW i \in Nat, NEW j \in Nat,
                         i \in 1 .. Len(frames'[u]), j \in 1 .. Len(frames'[v]),
                         frames'[u][i].current # Null,
                         frames'[u][i].current = frames'[v][j].current
                  PROVE  u = v /\ i = j
      OBVIOUS
    <3>1. /\ i \in 1 .. Len(frames[u]) /\ frames'[u][i] = frames[u][i]
          /\ j \in 1 .. Len(frames[v]) /\ frames'[v][j] = frames[v][j]
      BY <1>11, <1>15
    <3>. QED
      BY <1>2, <3>1 DEF FramesRight
  <2>. QED
    BY <2>1, <2>2 DEF FramesRight
<1>. DEFINE c2 == [u \in Threads |-> [i \in Nat |->
                     IF i = 0 THEN k[u] ELSE IF u = t /\ i = n + 1 THEN r ELSE ch[u][i]]]
<1>20. /\ c2 \in Places
       /\ \A u \in Threads : c2[u][0] = k[u]
       /\ c2[t][n + 1] = r
       /\ \A u \in Threads, i \in Nat : i # 0 /\ (u # t \/ i # n + 1) => c2[u][i] = ch[u][i]
  <2>1. \A u \in Threads, i \in Nat :
          /\ c2[u][i] = IF i = 0 THEN k[u] ELSE IF u = t /\ i = n + 1 THEN r ELSE ch[u][i]
          /\ c2[u][i] \in Seq(Entries)
    BY <1>4, <1>7
  <2>2. c2 \in Places
    BY <1>4, <1>7 DEF Places
  <2>3. n + 1 \in Nat /\ n + 1 # 0 /\ 0 \in Nat
    BY <1>9
  <2>. HIDE DEF c2
  <2>. QED
    BY <2>1, <2>2, <2>3
<1>. HIDE DEF c2
<1>21. ch[t][n + 1] = <<>>
  BY <1>2, <1>9 DEF ListsRight
<1>22. \A u \in Threads, i \in Nat : i # 0 =>
         ToSet(ch[u][i]) \intersect ToSet(r) = {} /\ \A v \in Threads : ToSet(ch[u][i]) \intersect ToSet(k[v]) = {}
  BY <1>6, <1>7
<1>23. ListsRight(c2)'
  <2>1. ASSUME NEW u \in Threads, NEW i \in Nat
        PROVE  /\ i <= Len(frames'[u]) => Strung(next', Start(u, i)', c2[u][i])
               /\ i > Len(frames'[u]) => c2[u][i] = <<>>
               /\ IsInjective(c2[u][i])
    <3>1. CASE i = 0
      <4>1. Start(u, i)' = FirstOf(k[u]) /\ c2[u][i] = k[u] /\ ~(i > Len(frames'[u]))
        BY <1>5, <1>14, <1>20, <3>1 DEF Start
      <4>. QED
        BY <1>4, <1>6, <4>1
    <3>2. CASE u = t /\ i = n + 1
      <4>1. c2[u][i] = r /\ i # 0
        BY <1>9, <1>20, <3>2
      <4>2. CASE r = <<>>
        <5>1. ~(i <= Len(frames'[u]))
          BY <1>9, <1>16, <3>2, <4>2
        <5>. QED
          BY <1>4, <4>1, <4>2, <5>1
      <4>3. CASE r # <<>>
        <5>1. ~(i > Len(frames'[u])) /\ frames'[u][i] = f
          BY <1>9, <1>12, <1>13, <1>16, <3>2, <4>3
        <5>2. Start(u, i)' = FirstOf(r)
          BY <1>11, <4>1, <4>3, <5>1 DEF Start, Following
        <5>. QED
          BY <1>4, <1>6, <4>1, <5>1, <5>2
      <4>. QED
        BY <4>2, <4>3
    <3>3. CASE i # 0 /\ ~(u = t /\ i = n + 1)
      <4>1. c2[u][i] = ch[u][i] /\ IsInjective(ch[u][i])
        BY <1>7, <1>20, <3>3
      <4>2. i > Len(frames'[u]) => ch[u][i] = <<>>
        BY <1>2, <1>14 DEF ListsRight
      <4>3. ASSUME i <= Len(frames'[u]) PROVE Strung(next', Start(u, i)', ch[u][i])
        <5>1. i \in 1 .. Len(frames'[u])
          BY <1>14, <3>3, <4>3
        <5>2. i \in 1 .. Len(frames[u]) /\ frames'[u][i] = frames[u][i]
          BY <1>15, <3>3, <5>1
        <5>3. frames[u][i].current # Null => frames[u][i].current \in Entries \ Pooled(ch)
          BY <1>2, <1>7, <1>8, <5>2 DEF AsideRight
        <5>4. Start(u, i)' = Start(u, i)
          BY <1>6, <3>3, <5>2, <5>3 DEF Start, Following
        <5>5. \A x \in ToSet(ch[u][i]) : next'[x] = next[x]
          BY <1>6, <1>7, <1>8, <3>3
        <5>6. i <= Len(frames[u])
          BY <1>14, <5>2
        <5>7. Strung(next, Start(u, i), ch[u][i])
          BY <1>2, <5>6 DEF ListsRight
        <5>8. Strung(next', Start(u, i), ch[u][i])
          BY <1>7, <5>5, <5>7, StrungElsewhere
        <5>. QED
          BY <5>4, <5>8
      <4>. QED
        BY <4>1, <4>2, <4>3
    <3>. QED
      BY <3>1, <3>2, <3>3
  <2>2. \A u, v \in Threads, i, j \in Nat :
          u # v \/ i # j => ToSet(c2[u][i]) \intersect ToSet(c2[v][j]) = {}
    <3>1. ASSUME NEW u \in Threads, NEW v \in Threads, NEW i \in Nat, NEW j \in Nat,
                 u # v \/ i # j, i # 0, ~(u = t /\ i = n + 1)
          PROVE  ToSet(c2[u][i]) \intersect ToSet(c2[v][j]) = {}
      <4>1. c2[u][i] = ch[u][i]
        BY <1>20, <3>1
      <4>2. CASE j = 0
        <5>1. c2[v][j] = k[v]
          BY <1>20, <4>2
        <5>2. ToSet(ch[u][i]) \intersect ToSet(k[v]) = {}
          BY <1>22, <3>1
        <5>. QED
          BY <4>1, <5>1, <5>2
      <4>3. CASE v = t /\ j = n + 1
        <5>1. c2[v][j] = r
          BY <1>20, <4>3
        <5>2. ToSet(ch[u][i]) \intersect ToSet(r) = {}
          BY <1>22, <3>1
        <5>. QED
          BY <4>1, <5>1, <5>2
      <4>4. CASE j # 0 /\ ~(v = t /\ j = n + 1)
        <5>1. c2[v][j] = ch[v][j]
          BY <1>20, <4>4
        <5>2. ToSet(ch[u][i]) \intersect ToSet(ch[v][j]) = {}
          BY <1>2, <3>1, Zenon DEF ListsRight
        <5>. QED
          BY <4>1, <5>1, <5>2
      <4>. QED
        BY <4>2, <4>3, <4>4
    <3>. SUFFICES ASSUME NEW u \in Threads, NEW v \in Threads, NEW i \in Nat, NEW j \in Nat,
                         u # v \/ i # j
                  PROVE  ToSet(c2[u][i]) \intersect ToSet(c2[v][j]) = {}
      OBVIOUS
    <3>2. CASE i # 0 /\ ~(u = t /\ i = n + 1)
      BY <3>1, <3>2
    <3>3. CASE j # 0 /\ ~(v = t /\ j = n + 1)
      <4>1. ToSet(c2[v][j]) \intersect ToSet(c2[u][i]) = {}
        BY <3>1, <3>3
      <4>. QED
        BY <4>1
    <3>4. CASE i = 0 /\ j = 0
      BY <1>4, <1>20, <3>4
    <3>5. CASE i = 0 /\ v = t /\ j = n + 1
      BY <1>6, <1>20, <3>5
    <3>6. CASE j = 0 /\ u = t /\ i = n + 1
      BY <1>6, <1>20, <3>6
    <3>. QED
      BY <3>2, <3>3, <3>4, <3>5, <3>6
  <2>3. \A x \in Entries :
          x \in Attached \ called <=> \E u \in Threads, i \in Nat : x \in ToSet(c2[u][i])
    <3>. TAKE x \in Entries
    <3>1. 0 \in Nat /\ n + 1 \in Nat
      BY <1>9
    <3>2. x \in Attached \ called <=> \E u \in Threads, i \in Nat : x \in ToSet(ch[u][i])
      BY <1>2 DEF ListsRight
    <3>3. ASSUME NEW u \in Threads, NEW i \in Nat, x \in ToSet(ch[u][i])
          PROVE  \E v \in Threads, j \in Nat : x \in ToSet(c2[v][j])
      <4>1. CASE i = 0
        <5>1. x \in Pooled(ch)
          BY <1>7, <3>3, <4>1
        <5>. QED
          BY <1>6, <1>20, <3>1, <5>1
      <4>2. CASE u = t /\ i = n + 1
        BY <1>21, <3>3, <4>2 DEF ToSet
      <4>3. CASE i # 0 /\ ~(u = t /\ i = n + 1)
        BY <1>20, <3>3, <4>3
      <4>. QED
        BY <4>1, <4>2, <4>3
    <3>4. ASSUME NEW u \in Threads, NEW i \in Nat, x \in ToSet(c2[u][i])
          PROVE  x \in Attached \ called
      <4>1. CASE i = 0
        BY <1>6, <1>7, <1>20, <3>4, <4>1
      <4>2. CASE u = t /\ i = n + 1
        BY <1>6, <1>7, <1>20, <3>4, <4>2
      <4>3. CASE i # 0 /\ ~(u = t /\ i = n + 1)
        BY <1>7, <1>20, <3>4, <4>3
      <4>. QED
        BY <4>1, <4>2, <4>3
    <3>. QED
      BY <3>2, <3>3, <3>4
  <2>. QED
    BY <1>5, <1>8, <2>1, <2>2, <2>3 DEF ListsRight
<1>24. Pooled(c2) \subseteq Pooled(ch) /\ ToSet(r) \intersect Pooled(c2) = {}
       /\ Pooled(c2)' = Pooled(c2)
  <2>1. Pooled(c2)' = Pooled(c2) /\ \A x : x \in Pooled(c2) <=> \E u \in Threads : x \in ToSet(c2[u][0])
    BY DEF Pooled
  <2>. QED
    BY <1>6, <1>20, <2>1
<1>25. AsideRight(c2)'
  <2>1. \A x \in called : next'[x] \in (Attached \ Pooled(c2)) \union {Null}
    <3>. SUFFICES ASSUME NEW x \in called PROVE next'[x] \in (Attached \ Pooled(c2)) \union {Null}
      OBVIOUS
    <3>1. x \in Entries \ Pooled(ch)
      BY <1>7, <1>8
    <3>2. next[x] \in (Attached \ Pooled(ch)) \union {Null}
      BY <1>2 DEF AsideRight
    <3>. QED
      BY <1>6, <1>24, <3>1, <3>2
  <2>2. \A u \in Threads, i \in Nat : i \in 1 .. Len(frames'[u]) =>
          /\ frames'[u][i].list \in Attached \ Pooled(c2)
          /\ frames'[u][i].current # Null => frames'[u][i].current \in called
    <3>. SUFFICES ASSUME NEW u \in Threads, NEW i \in Nat, i \in 1 .. Len(frames'[u])
                  PROVE  /\ frames'[u][i].list \in Attached \ Pooled(c2)
                         /\ frames'[u][i].current # Null => frames'[u][i].current \in called
      OBVIOUS
    <3>1. CASE r # <<>> /\ frames'[u][i] = f
      <4>1. FirstOf(r) \in Attached \ Pooled(c2)
        BY <1>6, <1>7, <1>10, <1>24, <3>1
      <4>. QED
        BY <1>11, <3>1, <4>1
    <3>2. CASE i \in 1 .. Len(frames[u]) /\ frames'[u][i] = frames[u][i]
      BY <1>2, <1>24, <3>2 DEF AsideRight
    <3>. QED
      BY <1>15, <3>1, <3>2
  <2>. QED
    BY <1>5, <1>8, <1>24, <2>1, <2>2 DEF AsideRight
<1>26. HeapRight'
  <2>. PICK M, G, R : /\ M = Marked /\ G = {FirstOf(r)} \union {finalizers'[u] : u \in Threads}
                      /\ R = Reached(next', G)
    OBVIOUS
  <2>1. /\ M \in SUBSET Things /\ M \subseteq heap /\ ClosedIn(next, M)
        /\ \A u \in Threads : Known(u) \subseteq M
        /\ \A u \in Threads, i \in Nat : i \in 1 .. Len(frames[u]) =>
             /\ frames[u][i].list \in M
             /\ frames[u][i].current # Null => frames[u][i].current \in M
             /\ ToSet(ch[u][i]) \subseteq M
    BY <1>2, MarkedFacts DEF Right
  <2>2. heap \in SUBSET Things /\ Pooled(ch) \subseteq heap
    BY <1>2, <1>7 DEF HeapRight, Things, Attached
  <2>3. \A x \in G : x # Null => x \in Pooled(ch)
    <3>1. r # <<>> => FirstOf(r) \in Pooled(ch)
      BY <1>6, <1>10
    <3>2. \A u \in Threads : k[u] # <<>> => FirstOf(k[u]) \in ToSet(k[u])
      BY <1>4 DEF FirstOf, ToSet
    <3>3. \A s : s = <<>> => FirstOf(s) = Null
      BY DEF FirstOf
    <3>. QED
      BY <1>5, <1>6, <3>1, <3>2, <3>3
  <2>4. G \in SUBSET (Things \union {Null})
    BY <2>2, <2>3
  <2>5. ClosedIn(next', heap)
    <3>1. \A x \in heap \intersect Entries : next'[x] # Null => next'[x] \in heap
      <4>. TAKE x \in heap \intersect Entries
      <4>1. CASE x \in Pooled(ch)
        BY <1>6, <2>2, <4>1
      <4>2. CASE x \notin Pooled(ch)
        BY <1>2, <1>6, <4>2 DEF HeapRight, ClosedIn
      <4>. QED
        BY <4>1, <4>2
    <3>. QED
      BY <1>2, <3>1 DEF HeapRight, ClosedIn
  <2>6. /\ R \in SUBSET Things
        /\ \A x \in G : x # Null => x \in R
        /\ ClosedIn(next', R)
        /\ R \subseteq heap
    <3>1. /\ pointer \in [Objects -> Objects \union {Null}]
          /\ obj \in [Entries -> Objects \union {Null}]
      BY <1>2 DEF Types
    <3>2. /\ R \in SUBSET Things
          /\ \A x \in G : x # Null => x \in R
          /\ ClosedIn(next', R)
          /\ \A C \in SUBSET Things :
               (\A x \in G : x # Null => x \in C) /\ ClosedIn(next', C) => R \subseteq C
      BY <1>6, <2>4, <3>1, ReachedLeast
    <3>3. \A x \in G : x # Null => x \in heap
      BY <2>2, <2>3
    <3>. QED
      BY <2>2, <2>5, <3>2, <3>3
  <2>7. heap' = M \union R
    BY <1>5, <2>1, <2>6
  <2>8. Pooled(ch) \subseteq R
    <3>1. \A x \in R \intersect Entries : next'[x] # Null => next'[x] \in R
      BY <2>6 DEF ClosedIn
    <3>2. ToSet(r) \subseteq R
      <4>1. FirstOf(r) # Null => FirstOf(r) \in R
        BY <2>6
      <4>. QED
        BY <1>4, <1>6, <3>1, <4>1, StrungReach
    <3>3. ASSUME NEW u \in Threads PROVE ToSet(k[u]) \subseteq R
      <4>1. FirstOf(k[u]) # Null => FirstOf(k[u]) \in R
        BY <1>5, <2>6
      <4>2. k[u] \in Seq(Entries) /\ Strung(next', FirstOf(k[u]), k[u])
        BY <1>4, <1>6
      <4>. QED
        BY <3>1, <4>1, <4>2, StrungReach
    <3>. QED
      BY <1>6, <3>2, <3>3
  <2>9. ClosedIn(next, heap)'
    <3>1. \A x \in heap' \intersect Entries : next'[x] # Null => next'[x] \in heap'
      <4>. TAKE x \in heap' \intersect Entries
      <4>1. CASE x \in R
        BY <2>6, <2>7, <4>1 DEF ClosedIn
      <4>2. CASE x \notin R
        <5>1. x \in M /\ x \notin Pooled(ch)
          BY <2>7, <2>8, <4>2
        <5>. QED
          BY <1>6, <2>1, <2>7, <5>1 DEF ClosedIn
      <4>. QED
        BY <4>1, <4>2
    <3>2. \A x \in heap' \intersect Objects : pointer[x] # Null => pointer[x] \in heap'
      BY <2>1, <2>6, <2>7 DEF ClosedIn
    <3>3. \A x \in heap' \intersect Entries : obj[x] # Null => obj[x] \in heap'
      BY <2>1, <2>6, <2>7 DEF ClosedIn
    <3>. QED
      BY <1>5, <3>1, <3>2, <3>3 DEF ClosedIn
  <2>10. Attached \ called \subseteq heap'
    <3>. SUFFICES ASSUME NEW x \in Attached \ called PROVE x \in M \union R
      BY <2>7
    <3>1. PICK u \in Threads, i \in Nat : x \in ToSet(ch[u][i])
      BY <1>2, <1>8 DEF ListsRight
    <3>2. CASE i = 0
      BY <1>7, <2>8, <3>1, <3>2
    <3>3. CASE i # 0
      <4>1. i > Len(frames[u]) => ch[u][i] = <<>>
        BY <1>2 DEF ListsRight
      <4>2. ch[u][i] # <<>>
        BY <3>1 DEF ToSet
      <4>3. i \in 1 .. Len(frames[u])
        BY <1>14, <3>3, <4>1, <4>2
      <4>. QED
        BY <2>1, <3>1, <4>3
    <3>. QED
      BY <3>2, <3>3
  <2>11. \A u \in Threads : local[u] \subseteq heap'
    BY <2>1, <2>7 DEF Known
  <2>12. \A u \in Threads, i \in Nat : i \in 1 .. Len(frames'[u]) =>
           /\ frames'[u][i].list \in heap'
           /\ frames'[u][i].current # Null => frames'[u][i].current \in heap'
    <3>. SUFFICES ASSUME NEW u \in Threads, NEW i \in Nat, i \in 1 .. Len(frames'[u])
                  PROVE  /\ frames'[u][i].list \in M \union R
                         /\ frames'[u][i].current # Null => frames'[u][i].current \in M \union R
      BY <2>7
    <3>1. CASE r # <<>> /\ frames'[u][i] = f
      <4>1. FirstOf(r) \in R
        BY <1>6, <1>10, <2>8, <3>1
      <4>. QED
        BY <1>11, <3>1, <4>1
    <3>2. CASE i \in 1 .. Len(frames[u]) /\ frames'[u][i] = frames[u][i]
      BY <2>1, <3>2
    <3>. QED
      BY <1>15, <3>1, <3>2
  <2>13. heap' \subseteq Objects \union Attached
    BY <1>2, <1>5 DEF HeapRight
  <2>. QED
    BY <1>5, <1>8, <2>9, <2>10, <2>11, <2>12, <2>13 DEF HeapRight
<1>27. Right(c2)'
  BY <1>23, <1>25 DEF Right
<1>. QED
  BY <1>18, <1>19, <1>20, <1>26, <1>27 DEF IInv

(* Every step keeps the invariant.                                         *)
LEMMA InvStep ==
  ASSUME Collector = "portablems"
  PROVE  IInv /\ [Next]_vars => IInv'
<1>. SUFFICES ASSUME IInv, [Next]_vars PROVE IInv'
  OBVIOUS
<1>1. CASE UNCHANGED vars
  <2>. PICK ch \in Places : Right(ch)
    BY DEF IInv
  <2>1. UNCHANGED <<local, pointer, heap, obj, next, finalizers, frames, called>>
    BY <1>1 DEF vars
  <2>2. Right(ch)'
    BY <2>1, RightStays
  <2>3. Types'
    BY <2>1 DEF IInv, Types
  <2>4. FramesRight'
    BY <2>1 DEF IInv, FramesRight
  <2>5. HeapRight'
    BY <2>1 DEF IInv, HeapRight, ClosedIn, Attached
  <2>. QED
    BY <2>2, <2>3, <2>4, <2>5 DEF IInv
<1>2. ASSUME NEW t \in Threads, NEW o \in Objects, Drop(t, o) \/ Keep(t, o) PROVE IInv'
  BY <1>2, InvProgram
<1>3. ASSUME NEW t \in Threads, NEW o \in Objects, NEW p \in Objects, Write(t, o, p) PROVE IInv'
  BY <1>3, InvProgram
<1>4. ASSUME NEW t \in Threads, NEW o \in Objects, NEW e \in Entries, Finalize(t, o, e) PROVE IInv'
  BY <1>4, InvFinalize
<1>5. ASSUME NEW t \in Threads, NEW order \in Orders, NEW moved \in MovedSets, NEW home \in Homes(t),
             NEW looks \in Looks(order), Collect(t, order, moved, home, looks)
      PROVE  IInv'
  <2>1. looks = TRUE
    BY DEF Looks
  <2>. QED
    BY <1>5, <2>1, InvCollect
<1>6. ASSUME NEW t \in Threads, CallNext(t) PROVE IInv'
  BY <1>6, InvCallNext
<1>. QED
  BY <1>1, <1>2, <1>3, <1>4, <1>5, <1>6 DEF Next

(* The invariant holds in every state of every behaviour.                  *)
LEMMA InvHolds ==
  ASSUME Collector = "portablems"
  PROVE  Spec => []IInv
<1>. QED
  BY InvInit, InvStep, PTL DEF Spec

-----------------------------------------------------------------------------
(***************************************************************************)
(* What follows from it.                                                   *)
(***************************************************************************)
(* A list is found by following next from its first entry on.              *)
LEMMA FoundChains ==
  ASSUME Types, NEW ch \in Places, ListsRight(ch)
  PROVE  /\ \A t \in Threads : Chain(next, finalizers[t]) = ch[t][0]
         /\ \A t \in Threads, i \in Nat : i \in 1 .. Len(frames[t]) =>
              Chain(next, Following(frames[t][i])) = ch[t][i]
<1>1. \A t \in Threads : Len(frames[t]) \in Nat /\ 0 <= Len(frames[t]) /\ 0 \in Nat
  BY DEF Types
<1>2. \A t \in Threads, i \in Nat : ch[t][i] \in Seq(Entries) /\ IsInjective(ch[t][i])
  BY InPlace
<1>3. \A t \in Threads, i \in Nat : i <= Len(frames[t]) => Strung(next, Start(t, i), ch[t][i])
  BY DEF ListsRight
<1>4. \A t \in Threads, i \in Nat : i <= Len(frames[t]) => Chain(next, Start(t, i)) = ch[t][i]
  BY <1>2, <1>3, ChainIsStrung
<1>5. \A t \in Threads : Chain(next, finalizers[t]) = ch[t][0]
  BY <1>1, <1>4 DEF Start
<1>6. \A t \in Threads, i \in Nat : i \in 1 .. Len(frames[t]) =>
        Chain(next, Following(frames[t][i])) = ch[t][i]
  <2>. SUFFICES ASSUME NEW t \in Threads, NEW i \in Nat, i \in 1 .. Len(frames[t])
                PROVE  Chain(next, Following(frames[t][i])) = ch[t][i]
    OBVIOUS
  <2>1. i <= Len(frames[t]) /\ i # 0
    BY <1>1
  <2>. QED
    BY <1>4, <2>1 DEF Start
<1>. QED
  BY <1>5, <1>6

(* There are no more calls under way in a thread up to one that has an      *)
(* entry yet to call than there are entries.                               *)
LEMMA FewCalls ==
  ASSUME Types, FramesRight, NEW ch \in Places, Right(ch), NEW t \in Threads,
         NEW i \in Nat, i \in 1 .. Len(frames[t]), NEW e \in ToSet(ch[t][i])
  PROVE  i \in 1 .. Cardinality(Entries)
<1>1. ListsRight(ch) /\ AsideRight(ch) /\ IsFiniteSet(Entries) /\ Null \notin Entries
  BY FinalizersAssumption DEF Right
<1>2. e \in Attached \ called
  BY <1>1, InPlace
<1>3. Len(frames[t]) \in Nat
  BY DEF Types
<1>4. \A j \in 1 .. i - 1 : /\ frames[t][j].current \in called
                            /\ \A k \in 1 .. i - 1 :
                                 frames[t][j].current = frames[t][k].current => j = k
  <2>1. \A j \in 1 .. i - 1 : j \in Nat /\ j \in 1 .. Len(frames[t]) /\ j # Len(frames[t])
    BY <1>3
  <2>2. \A j \in 1 .. i - 1 : frames[t][j].current # Null
    BY <2>1 DEF FramesRight
  <2>. QED
    BY <1>1, <2>1, <2>2 DEF FramesRight, AsideRight
<1>5. called \subseteq Entries
  BY <1>1 DEF AsideRight, Attached
<1>. DEFINE at == [j \in 1 .. i |-> IF j = i THEN e ELSE frames[t][j].current]
<1>6. at \in Injection(1 .. i, Entries)
  <2>1. \A j \in 1 .. i : j = i \/ j \in 1 .. i - 1
    OBVIOUS
  <2>2. at \in [1 .. i -> Entries]
    BY <1>2, <1>4, <1>5, <2>1 DEF Attached
  <2>3. \A j, k \in 1 .. i : at[j] = at[k] => j = k
    BY <1>2, <1>4, <2>1
  <2>. QED
    BY <2>2, <2>3 DEF Injection, IsInjective
<1>7. Cardinality(1 .. i) <= Cardinality(Entries)
  BY <1>1, <1>6, FS_Injection
<1>8. Cardinality(1 .. i) = i /\ Cardinality(Entries) \in Nat
  BY <1>1, FS_Interval, FS_CardinalityType
<1>. QED
  BY <1>7, <1>8

(* Under portablems no entry is lost, on two lists or called twice, and     *)
(* none is swept that has yet to be called, nor what it or a thread leads   *)
(* to (doc/FINALIZERS.md; portablems.c 609-674, allocator.c 450-498).       *)
THEOREM NoEntryLost ==
  ASSUME Collector = "portablems"
  PROVE  Spec => []EntriesKept
<1>1. IInv => EntriesKept
  <2>. SUFFICES ASSUME IInv PROVE EntriesKept
    OBVIOUS
  <2>. PICK ch \in Places : Right(ch)
    BY DEF IInv
  <2>1. Types /\ FramesRight /\ HeapRight /\ ListsRight(ch) /\ AsideRight(ch)
    BY DEF IInv, Right
  <2>2. /\ \A t \in Threads : Chain(next, finalizers[t]) = ch[t][0]
        /\ \A t \in Threads, i \in Nat : i \in 1 .. Len(frames[t]) =>
             Chain(next, Following(frames[t][i])) = ch[t][i]
    BY <2>1, FoundChains
  <2>. DEFINE N == 1 .. Cardinality(Entries)
              A(e) == {t \in Threads : e \in ToSet(Chain(next, finalizers[t]))}
              B(e) == {p \in Threads \X N : /\ p[2] \in DOMAIN frames[p[1]]
                                            /\ e \in Pending(frames[p[1]][p[2]])}
  <2>3. \A t \in Threads : DOMAIN frames[t] = 1 .. Len(frames[t]) /\ Len(frames[t]) \in Nat
    BY <2>1 DEF Types
  <2>4. \A e : \A t \in Threads : t \in A(e) <=> e \in ToSet(ch[t][0])
    BY <2>2
  <2>5. \A e : \A t \in Threads, i \in Nat :
          <<t, i>> \in B(e) <=> /\ i \in N /\ i \in 1 .. Len(frames[t])
                                /\ e \in ToSet(ch[t][i])
    BY <2>2, <2>3 DEF Pending
  <2>6. \A e : A(e) \subseteq Threads /\ B(e) \subseteq Threads \X Nat
    <3>1. N \subseteq Nat
      OBVIOUS
    <3>. HIDE DEF N
    <3>. QED
      BY <3>1
  <2>7. ASSUME NEW e \in Attached
        PROVE  Cardinality(A(e)) + Cardinality(B(e)) = IF e \in called THEN 0 ELSE 1
    <3>. HIDE DEF A, B, N
    <3>1. e \in Entries
      BY DEF Attached
    <3>2. CASE e \in called
      <4>1. \A t \in Threads, i \in Nat : e \notin ToSet(ch[t][i])
        BY <2>1, <3>2, InPlace
      <4>2. A(e) = {}
        BY <2>4, <2>6, <4>1
      <4>3. B(e) = {}
        <5>. SUFFICES ASSUME NEW p \in B(e) PROVE FALSE
          OBVIOUS
        <5>1. PICK t \in Threads, i \in Nat : p = <<t, i>>
          BY <2>6
        <5>. QED
          BY <2>5, <4>1, <5>1
      <4>. QED
        BY <3>2, <4>2, <4>3, FS_EmptySet
    <3>3. CASE e \notin called
      <4>1. PICK t \in Threads, i \in Nat : e \in ToSet(ch[t][i])
        BY <2>1, <3>1, <3>3 DEF ListsRight
      <4>2. \A u \in Threads, j \in Nat : e \in ToSet(ch[u][j]) => u = t /\ j = i
        <5>. SUFFICES ASSUME NEW u \in Threads, NEW j \in Nat, e \in ToSet(ch[u][j]), ~(u = t /\ j = i)
                      PROVE  FALSE
          OBVIOUS
        <5>1. ToSet(ch[u][j]) \intersect ToSet(ch[t][i]) = {}
          BY <2>1, Zenon DEF ListsRight
        <5>. QED
          BY <4>1, <5>1
      <4>3. 0 \in Nat
        OBVIOUS
      <4>4. CASE i = 0
        <5>1. A(e) = {t}
          BY <2>4, <2>6, <4>1, <4>2, <4>3, <4>4
        <5>2. B(e) = {}
          <6>. SUFFICES ASSUME NEW p \in B(e) PROVE FALSE
            OBVIOUS
          <6>1. PICK u \in Threads, j \in Nat : p = <<u, j>>
            BY <2>6
          <6>2. j \in 1 .. Len(frames[u]) /\ e \in ToSet(ch[u][j])
            BY <2>5, <6>1
          <6>. QED
            BY <2>3, <4>2, <4>4, <6>2
        <5>3. Cardinality(A(e)) = 1 /\ Cardinality(B(e)) = 0
          BY <5>1, <5>2, FS_EmptySet, FS_Singleton
        <5>. QED
          BY <3>3, <5>3
      <4>5. CASE i # 0
        <5>1. A(e) = {}
          BY <2>4, <2>6, <4>2, <4>3, <4>5
        <5>2. i \in 1 .. Len(frames[t])
          <6>1. ch[t][i] # <<>>
            BY <4>1 DEF ToSet
          <6>2. ~(i > Len(frames[t]))
            BY <2>1, <6>1 DEF ListsRight
          <6>. QED
            BY <2>3, <4>5, <6>2
        <5>3. i \in N
          BY <2>1, <4>1, <5>2, FewCalls DEF N, Right
        <5>4. B(e) = {<<t, i>>}
          <6>1. <<t, i>> \in B(e)
            BY <2>5, <4>1, <5>2, <5>3
          <6>2. ASSUME NEW p \in B(e) PROVE p = <<t, i>>
            <7>1. PICK u \in Threads, j \in Nat : p = <<u, j>>
              BY <2>6
            <7>2. e \in ToSet(ch[u][j])
              BY <2>5, <7>1
            <7>. QED
              BY <4>2, <7>1, <7>2
          <6>. QED
            BY <6>1, <6>2
        <5>5. Cardinality(A(e)) = 0 /\ Cardinality(B(e)) = 1
          BY <5>1, <5>4, FS_EmptySet, FS_Singleton
        <5>. QED
          BY <3>3, <5>5
      <4>. QED
        BY <4>4, <4>5
    <3>. QED
      BY <3>2, <3>3
  <2>8. /\ pointer \in [Objects -> Objects \union {Null}]
        /\ obj \in [Entries -> Objects \union {Null}]
        /\ next \in [Entries -> Entries \union {Null}]
        /\ heap \in SUBSET Things /\ ClosedIn(next, heap)
    BY <2>1 DEF Types, HeapRight, Things, Attached
  <2>9. \A G \in SUBSET heap : Reached(next, G) \subseteq heap
    <3>. TAKE G \in SUBSET heap
    <3>1. G \in SUBSET (Things \union {Null})
      BY <2>8
    <3>. QED
      BY <2>8, <3>1, ReachedLeast
  <2>10. Attached \ called \in SUBSET heap
    BY <2>1 DEF HeapRight
  <2>11. UNION {Known(t) : t \in Threads} \in SUBSET heap
    <3>1. \A t \in Threads : Known(t) \subseteq heap
      BY <2>1, KnownFacts
    <3>. QED
      BY <3>1
  <2>12. Reached(next, Attached \ called) \subseteq heap
    BY <2>9, <2>10
  <2>13. Reached(next, UNION {Known(t) : t \in Threads}) \subseteq heap
    BY <2>9, <2>11
  <2>. QED
    BY <2>7, <2>12, <2>13 DEF EntriesKept, Attached
<1>. QED
  BY <1>1, InvHolds, PTL

(* Under portablems, what a collection makes ready are entries of objects   *)
(* that no thread could get to and no function yet to be called was to      *)
(* have (portablems.c 598-668: an entry is ready when its object has no     *)
(* mark).                                                                   *)
THEOREM OnlyDeadGetReady ==
  ASSUME Collector = "portablems"
  PROVE  Spec => OnlyTheDead
<1>. DEFINE Owed == UNION {Pending(f) : f \in Framed}
            Usable == Reached(next, (UNION {Known(u) : u \in Threads}) \union Owed)
            DeadOnly(t) == \A e \in ToSet(Chain(next', Last(frames'[t]).list)) : obj[e] \notin Usable
<1>1. ASSUME IInv, [Next]_vars, NEW t \in Threads, Len(frames'[t]) > Len(frames[t])
      PROVE  DeadOnly(t)
  <2>. PICK ch \in Places : Right(ch)
    BY <1>1 DEF IInv
  <2>1. Types /\ FramesRight /\ HeapRight /\ ListsRight(ch) /\ AsideRight(ch)
    BY <1>1 DEF IInv, Right
  <2>2. Types' /\ \A u \in Threads : frames[u] \in Seq(Calls) /\ Len(frames[u]) \in Nat
    <3>1. IInv'
      BY <1>1, InvStep
    <3>. QED
      BY <2>1, <3>1 DEF IInv, Types
  <2>3. ~(frames'[t] = frames[t])
    BY <1>1, <2>2
  <2>4. \A u \in Threads : ~CallNext(u)
    <3>. SUFFICES ASSUME NEW u \in Threads, CallNext(u) PROVE Len(frames'[t]) <= Len(frames[t])
      BY <1>1, <2>2 DEF Types
    <3>1. frames \in [Threads -> Seq(Calls)] /\ frames[u] # <<>>
      BY <2>1 DEF CallNext, Types
    <3>2. \/ frames' = [frames EXCEPT ![u] = Front(frames[u])]
          \/ frames' = [frames EXCEPT ![u][Len(frames[u])].current = Following(Top(u))]
      BY DEF CallNext
    <3>3. CASE frames' = [frames EXCEPT ![u] = Front(frames[u])]
      <4>1. Len(Front(frames[u])) <= Len(frames[u])
        BY <2>2, <3>1 DEF Front
      <4>. QED
        BY <2>2, <3>1, <3>3, <4>1
    <3>4. CASE frames' = [frames EXCEPT ![u][Len(frames[u])].current = Following(Top(u))]
      BY <2>2, <3>1, <3>4
    <3>. QED
      BY <3>2, <3>3, <3>4
  <2>5. ~(UNCHANGED frames)
    BY <2>3
  <2>6. PICK u \in Threads : \E order \in Orders, moved \in MovedSets, home \in Homes(u) :
                              \E looks \in Looks(order) : Collect(u, order, moved, home, looks)
    BY <1>1, <2>4, <2>5 DEF Next, Drop, Keep, Write, Finalize, vars
  <2>7. PICK order \in Orders, moved \in MovedSets, home \in Homes(u) :
          Collect(u, order, moved, home, TRUE)
    BY <2>6 DEF Looks
  <2>. PICK r, k, S : /\ r = Ready(order, moved) /\ k = Surviving(order, moved, home)
                      /\ S = Survivors(moved)
    OBVIOUS
  <2>8. /\ next' = Chained({r} \union {k[v] : v \in Threads})
        /\ r = <<>> => frames' = frames
        /\ r # <<>> => frames' = [frames EXCEPT ![u] = Append(@, Frame(FirstOf(r), Null))]
    BY <2>7 DEF Collect
  <2>9. ListsMade(ch, r, k, S)
    BY <2>1, <2>7, CollectLists
  <2>10. r \in Seq(Entries) /\ IsInjective(r) /\ ToSet(r) = Pooled(ch) \ S /\ Strung(next', FirstOf(r), r)
    <3>1. ChainsMade(ch, r, k, next')
      BY <2>1, <2>8, <2>9, CollectChains
    <3>. QED
      BY <2>9, <3>1 DEF ListsMade, ChainsMade
  <2>11. u = t /\ Last(frames'[t]).list = FirstOf(r)
    <3>1. frames \in [Threads -> Seq(Calls)] /\ r # <<>>
      BY <2>1, <2>5, <2>8 DEF Types
    <3>. DEFINE q == Append(frames[u], Frame(FirstOf(r), Null))
    <3>2. frames' = [frames EXCEPT ![u] = q]
      BY <2>8, <3>1
    <3>3. Last(q) = Frame(FirstOf(r), Null)
      BY <2>2 DEF Last
    <3>. HIDE DEF q
    <3>4. u = t /\ frames'[t] = q
      BY <2>3, <3>1, <3>2
    <3>. QED
      BY <3>3, <3>4 DEF Frame
  <2>12. Chain(next', FirstOf(r)) = r
    BY <2>10, ChainIsStrung
  <2>13. /\ Marked \in SUBSET Things /\ ClosedIn(next, Marked)
         /\ \A v \in Threads : Known(v) \subseteq Marked
         /\ \A v \in Threads, i \in Nat : i \in 1 .. Len(frames[v]) => ToSet(ch[v][i]) \subseteq Marked
    BY <2>1, MarkedFacts DEF Right
  <2>14. Usable \subseteq Marked
    <3>1. ASSUME NEW f \in Framed PROVE Pending(f) \subseteq Marked
      <4>1. PICK v \in Threads : f \in ToSet(frames[v])
        BY DEF Framed
      <4>2. PICK i \in 1 .. Len(frames[v]) : f = frames[v][i]
        BY <2>2, <4>1 DEF ToSet
      <4>3. i \in Nat /\ Chain(next, Following(frames[v][i])) = ch[v][i]
        BY <2>1, <2>2, FoundChains
      <4>. QED
        BY <2>13, <4>2, <4>3 DEF Pending
    <3>. DEFINE G == (UNION {Known(v) : v \in Threads}) \union Owed
    <3>2. G \subseteq Marked
      BY <2>13, <3>1
    <3>3. G \in SUBSET (Things \union {Null}) /\ \A x \in G : x # Null => x \in Marked
      BY <2>13, <3>2
    <3>4. /\ pointer \in [Objects -> Objects \union {Null}]
          /\ obj \in [Entries -> Objects \union {Null}]
          /\ next \in [Entries -> Entries \union {Null}]
      BY <2>1 DEF Types
    <3>. HIDE DEF G
    <3>5. Reached(next, G) \subseteq Marked
      BY <2>13, <3>3, <3>4, ReachedLeast
    <3>. QED
      BY <3>5 DEF G
  <2>15. \A e \in ToSet(r) : obj[e] \notin Marked
    <3>1. ToSet(r) \subseteq Entries
      BY <2>10 DEF ToSet
    <3>. QED
      BY <2>10, <3>1 DEF Survivors, Survives
  <2>. HIDE DEF Usable
  <2>. QED
    BY <2>11, <2>12, <2>14, <2>15
<1>2. IInv /\ [Next]_vars =>
        [\A t \in Threads : Len(frames'[t]) > Len(frames[t]) => DeadOnly(t)]_vars
  <2>. HIDE DEF DeadOnly
  <2>. QED
    BY <1>1
<1>. QED
  BY <1>2, InvHolds, PTL DEF Spec, OnlyTheDead
=============================================================================
