----------------------------- MODULE ListsProofs -----------------------------
(***************************************************************************)
(* Proofs about Lists: for any number of lists, nodes and elements, they   *)
(* are sequences until a call leaves a wrong tail, which only an empty     *)
(* list passed to a nonempty one and an insertion after a last node do.    *)
(***************************************************************************)
EXTENDS Lists, DataLemmas

Types ==
    /\ length \in [Lists -> Nat]
    /\ head \in [Lists -> Nodes \union {Null}]
    /\ tail \in [Lists -> Nodes \union {Null}]
    /\ next \in [Nodes -> Nodes \union {Null}]
    /\ el \in [Nodes -> Elements \union {Null}]

\* ch are the nodes that make up the lists: next leads from each to the one after
\* it, and no node is there twice.
Chained(ch) ==
    /\ \A l \in Lists :
        /\ length[l] = Len(ch[l])
        /\ ch[l] = <<>> => head[l] = Null /\ tail[l] = Null
        /\ ch[l] # <<>> => /\ head[l] = ch[l][1]
                           /\ tail[l] = ch[l][Len(ch[l])]
                           /\ next[ch[l][Len(ch[l])]] = Null
        /\ \A j \in 1 .. Len(ch[l]) - 1 : next[ch[l][j]] = ch[l][j + 1]
        /\ \A j \in 1 .. Len(ch[l]) : el[ch[l][j]] \in Elements
    /\ \A l, m \in Lists : \A j \in 1 .. Len(ch[l]), k \in 1 .. Len(ch[m]) :
        ch[l][j] = ch[m][k] => l = m /\ j = k

Chains == [Lists -> Seq(Nodes)]

IInv == Types /\ \E ch \in Chains : Chained(ch)

\* The sequences that the lists are.
Contents == [l \in Lists |-> ListToArray(l)]

-----------------------------------------------------------------------------
(* The length of a chain, and its nodes.                                   *)
LEMMA ChainFacts ==
  ASSUME NEW ch \in Chains, NEW l \in Lists
  PROVE  /\ ch[l] \in Seq(Nodes) /\ Len(ch[l]) \in Nat
         /\ ch[l] = <<>> <=> Len(ch[l]) = 0
         /\ \A j \in 1 .. Len(ch[l]) : ch[l][j] \in Nodes /\ ch[l][j] # Null
<1>1. ch[l] \in Seq(Nodes)
  BY DEF Chains
<1>. QED
  BY <1>1, EmptySeq, LenProperties, ElementOfSeq, ListsAssumption

(* Counting from the head, the i-th node is the i-th of the chain.         *)
LEMMA NthOfChain ==
  ASSUME Types, NEW ch \in Chains, Chained(ch), NEW l \in Lists, NEW i \in Nat \ {0}
  PROVE  Nth(head[l], i) = IF i <= Len(ch[l]) THEN ch[l][i] ELSE Null
<1>. DEFINE c == ch[l]
            Step(g, j) == IF j = 1 THEN head[l]
                          ELSE IF g[j - 1] = Null THEN Null ELSE next[g[j - 1]]
            w == [j \in 1 .. i |-> IF j <= Len(c) THEN c[j] ELSE Null]
            nth == CHOOSE g : g = [j \in 1 .. i |-> Step(g, j)]
            T == {k \in Nat : \A j \in 1 .. i : j <= k => nth[j] = w[j]}
<1>1. Nth(head[l], i) = nth[i]
  BY Zenon DEF Nth
<1>2. /\ c \in Seq(Nodes) /\ Len(c) \in Nat
      /\ \A j \in 1 .. Len(c) : c[j] \in Nodes /\ c[j] # Null
      /\ Len(c) = 0 => head[l] = Null
      /\ Len(c) # 0 => head[l] = c[1] /\ next[c[Len(c)]] = Null
      /\ \A j \in 1 .. Len(c) - 1 : next[c[j]] = c[j + 1]
  BY ChainFacts DEF Chained
<1>. HIDE DEF c
<1>3. ASSUME NEW j \in 1 .. i PROVE w[j] = Step(w, j)
  <2>1. CASE j = 1
    BY <1>2, <2>1
  <2>2. CASE j # 1
    <3>1. j - 1 \in 1 .. i /\ j - 1 \in Nat
      BY <2>2
    <3>2. CASE j <= Len(c)
      <4>1. j - 1 \in 1 .. Len(c) - 1 /\ j - 1 + 1 = j
        BY <1>2, <2>2, <3>2
      <4>2. w[j - 1] = c[j - 1] /\ w[j] = c[j] /\ c[j - 1] # Null /\ next[c[j - 1]] = c[j]
        BY <1>2, <3>1, <3>2, <4>1
      <4>. QED
        BY <2>2, <4>2
    <3>3. CASE j = Len(c) + 1
      <4>1. j - 1 = Len(c) /\ Len(c) # 0 /\ Len(c) \in 1 .. Len(c)
        BY <1>2, <2>2, <3>3
      <4>2. w[j - 1] = c[Len(c)] /\ w[j] = Null /\ c[Len(c)] # Null /\ next[c[Len(c)]] = Null
        BY <1>2, <3>1, <3>3, <4>1
      <4>. QED
        BY <2>2, <4>2
    <3>4. CASE j > Len(c) + 1
      <4>1. w[j - 1] = Null /\ w[j] = Null
        BY <1>2, <3>1, <3>4
      <4>. QED
        BY <2>2, <4>1
    <3>. QED
      BY <1>2, <3>2, <3>3, <3>4
  <2>. QED
    BY <2>1, <2>2
<1>4. w = [j \in 1 .. i |-> Step(w, j)]
  BY <1>3
<1>. HIDE DEF w
<1>5. nth = [j \in 1 .. i |-> Step(nth, j)]
  BY <1>4
<1>. HIDE DEF nth
<1>6. 0 \in T
  OBVIOUS
<1>7. ASSUME NEW k \in Nat, k \in T PROVE k + 1 \in T
  <2>. SUFFICES ASSUME NEW j \in 1 .. i, j <= k + 1 PROVE nth[j] = w[j]
    OBVIOUS
  <2>1. nth[j] = Step(nth, j) /\ w[j] = Step(w, j)
    BY <1>3, <1>5
  <2>2. j # 1 => j - 1 \in 1 .. i /\ j - 1 <= k
    OBVIOUS
  <2>3. j # 1 => nth[j - 1] = w[j - 1]
    BY <1>7, <2>2
  <2>. QED
    BY <2>1, <2>3
<1>. HIDE DEF T
<1>8. i \in T
  BY <1>6, <1>7, NatSetInduction
<1>9. nth[i] = w[i]
  BY <1>8 DEF T
<1>10. w[i] = IF i <= Len(c) THEN c[i] ELSE Null
  BY DEF w
<1>. QED
  BY <1>1, <1>9, <1>10 DEF c

(* From the head one meets the nodes of the chain, and no other.           *)
LEMMA FromHead ==
  ASSUME Types, NEW ch \in Chains, Chained(ch), NEW l \in Lists
  PROVE  /\ From(head[l]) = {ch[l][k] : k \in 1 .. Len(ch[l])}
         /\ IsFiniteSet(1 .. Len(ch[l])) /\ Len(ch[l]) <= Cardinality(Nodes)
         /\ Cardinality(From(head[l])) = Len(ch[l])
<1>. DEFINE c == ch[l]
            n == Len(c)
            nodes == {c[k] : k \in 1 .. n}
<1>1. /\ n \in Nat /\ c \in [1 .. n -> Nodes] /\ \A k \in 1 .. n : c[k] \in Nodes /\ c[k] # Null
      /\ \A j, k \in 1 .. n : c[j] = c[k] => j = k
  BY ChainFacts, LenProperties DEF Chained
<1>2. Cardinality(Nodes) \in Nat /\ IsFiniteSet(Nodes)
  BY ListsAssumption, FS_CardinalityType
<1>3. \A i \in Nat \ {0} : Nth(head[l], i) = IF i <= n THEN c[i] ELSE Null
  BY NthOfChain
<1>. HIDE DEF c
<1>4. IsFiniteSet(1 .. n) /\ Cardinality(1 .. n) = n
  <2>1. 1 \in Int /\ n \in Int
    BY <1>1
  <2>2. IsFiniteSet(1 .. n) /\ Cardinality(1 .. n) = IF 1 > n THEN 0 ELSE n - 1 + 1
    BY <2>1, FS_Interval
  <2>. QED
    BY <1>1, <2>2
<1>. HIDE DEF n
<1>5. c \in Injection(1 .. n, Nodes) /\ c \in Bijection(1 .. n, nodes)
  BY <1>1 DEF Injection, Bijection, Surjection, IsInjective
<1>6. n <= Cardinality(Nodes)
  BY <1>2, <1>4, <1>5, FS_Injection
<1>7. Cardinality(nodes) = n
  BY <1>4, <1>5, FS_Bijection DEF ExistsBijection
<1>8. From(head[l]) = nodes
  <2>1. ASSUME NEW x \in From(head[l]) PROVE x \in nodes
    <3>1. PICK i \in 1 .. Cardinality(Nodes) : x = Nth(head[l], i) /\ x # Null
      BY DEF From
    <3>2. i \in Nat \ {0}
      BY <1>2
    <3>3. i <= n /\ x = c[i]
      BY <1>3, <3>1, <3>2
    <3>. QED
      BY <1>1, <3>2, <3>3
  <2>2. ASSUME NEW k \in 1 .. n PROVE c[k] \in From(head[l])
    <3>1. k \in 1 .. Cardinality(Nodes) /\ k \in Nat \ {0} /\ k <= n
      BY <1>1, <1>2, <1>6
    <3>2. c[k] = Nth(head[l], k) /\ c[k] # Null
      BY <1>1, <1>3, <3>1
    <3>. QED
      BY <3>1, <3>2 DEF From
  <2>. QED
    BY <2>1, <2>2
<1>. QED
  BY <1>4, <1>6, <1>7, <1>8 DEF c, n

(* The contents of a list are the elements at its nodes.                   *)
LEMMA ContentsOfChain ==
  ASSUME Types, NEW ch \in Chains, Chained(ch), NEW l \in Lists
  PROVE  /\ Contents[l] = [j \in 1 .. Len(ch[l]) |-> el[ch[l][j]]]
         /\ Contents[l] \in Seq(Elements) /\ Len(Contents[l]) = Len(ch[l])
<1>1. /\ length[l] = Len(ch[l]) /\ Len(ch[l]) \in Nat
      /\ \A j \in 1 .. Len(ch[l]) : ch[l][j] # Null /\ el[ch[l][j]] \in Elements
  BY ChainFacts DEF Chained
<1>2. \A j \in 1 .. length[l] : NodesOf(l)[j] = ch[l][j]
  <2>. SUFFICES ASSUME NEW j \in 1 .. length[l] PROVE NodesOf(l)[j] = ch[l][j]
    OBVIOUS
  <2>1. j \in Nat \ {0} /\ j <= Len(ch[l])
    BY <1>1
  <2>2. Nth(head[l], j) = ch[l][j]
    BY <2>1, NthOfChain
  <2>. QED
    BY <2>2 DEF NodesOf
<1>3. Contents[l] = ListToArray(l)
  BY DEF Contents
<1>4. ListToArray(l) = [j \in 1 .. Len(ch[l]) |-> el[ch[l][j]]]
  BY <1>1, <1>2 DEF ListToArray
<1>5. [j \in 1 .. Len(ch[l]) |-> el[ch[l][j]]] \in [1 .. Len(ch[l]) -> Elements]
  BY <1>1
<1>. QED
  BY <1>1, <1>3, <1>4, <1>5, SeqDef, LenProperties

\* s with t put in after its first i.
Spliced(s, i, t) == SubSeq(s, 1, i) \o t \o SubSeq(s, i + 1, Len(s))

(* What is where in it.                                                    *)
LEMMA SplicedFacts ==
  ASSUME NEW S, NEW s \in Seq(S), NEW t \in Seq(S), NEW i \in 0 .. Len(s)
  PROVE  /\ Spliced(s, i, t) \in Seq(S)
         /\ Len(Spliced(s, i, t)) = Len(s) + Len(t)
         /\ \A j \in 1 .. i : Spliced(s, i, t)[j] = s[j]
         /\ \A j \in 1 .. Len(t) : Spliced(s, i, t)[i + j] = t[j]
         /\ \A j \in i + 1 .. Len(s) : Spliced(s, i, t)[Len(t) + j] = s[j]
<1>1. /\ Len(s) \in Nat /\ Len(t) \in Nat /\ i \in Nat /\ i <= Len(s)
      /\ \A j \in 1 .. Len(s) : s[j] \in S
  <2>1. Len(s) \in Nat /\ Len(t) \in Nat
    BY LenProperties
  <2>. QED
    BY <2>1, ElementOfSeq
<1>. DEFINE a == SubSeq(s, 1, i)
            b == SubSeq(s, i + 1, Len(s))
<1>2. a \in Seq(S) /\ Len(a) = i /\ \A j \in 1 .. i : a[j] = s[j]
  <2>1. 1 \in Int /\ i \in Int /\ \A j \in 1 .. i : s[j] \in S
    BY <1>1
  <2>2. /\ SubSeq(s, 1, i) \in Seq(S)
        /\ Len(SubSeq(s, 1, i)) = IF 1 <= i THEN i - 1 + 1 ELSE 0
        /\ \A j \in 1 .. i - 1 + 1 : SubSeq(s, 1, i)[j] = s[1 + j - 1]
    BY <2>1, SubSeqProperties
  <2>. QED
    BY <1>1, <2>2
<1>3. b \in Seq(S) /\ Len(b) = Len(s) - i /\ \A j \in 1 .. Len(s) - i : b[j] = s[i + j]
  <2>1. i + 1 \in Int /\ Len(s) \in Int /\ \A j \in i + 1 .. Len(s) : s[j] \in S
    BY <1>1
  <2>2. /\ b \in Seq(S)
        /\ Len(b) = IF i + 1 <= Len(s) THEN Len(s) - (i + 1) + 1 ELSE 0
        /\ \A j \in 1 .. Len(s) - (i + 1) + 1 : b[j] = s[i + 1 + j - 1]
    BY <2>1, SubSeqProperties
  <2>. QED
    BY <1>1, <2>2
<1>. HIDE DEF a, b
<1>4. /\ a \o t \in Seq(S) /\ Len(a \o t) = i + Len(t)
      /\ \A j \in 1 .. i + Len(t) : (a \o t)[j] = IF j <= i THEN a[j] ELSE t[j - i]
  <2>1. /\ a \o t \in Seq(S) /\ Len(a \o t) = Len(a) + Len(t)
        /\ \A j \in 1 .. Len(a) + Len(t) :
             (a \o t)[j] = IF j <= Len(a) THEN a[j] ELSE t[j - Len(a)]
    BY <1>2, ConcatProperties
  <2>. QED
    BY <1>2, <2>1
<1>. DEFINE u == a \o t
<1>. HIDE DEF u
<1>5. /\ u \o b \in Seq(S) /\ Len(u \o b) = Len(s) + Len(t)
      /\ \A j \in 1 .. Len(s) + Len(t) :
           (u \o b)[j] = IF j <= i + Len(t) THEN u[j] ELSE b[j - (i + Len(t))]
  <2>1. u \in Seq(S) /\ Len(u) = i + Len(t)
    BY <1>4 DEF u
  <2>2. /\ u \o b \in Seq(S) /\ Len(u \o b) = Len(u) + Len(b)
        /\ \A j \in 1 .. Len(u) + Len(b) :
             (u \o b)[j] = IF j <= Len(u) THEN u[j] ELSE b[j - Len(u)]
    BY <1>3, <2>1, ConcatProperties
  <2>3. Len(u) + Len(b) = Len(s) + Len(t)
    BY <1>1, <1>3, <2>1
  <2>. QED
    BY <2>1, <2>2, <2>3
<1>6. Spliced(s, i, t) = u \o b
  BY DEF Spliced, a, b, u
<1>7. ASSUME NEW j \in 1 .. i PROVE (u \o b)[j] = s[j]
  <2>1. j \in 1 .. Len(s) + Len(t) /\ j <= i + Len(t) /\ j \in 1 .. i + Len(t) /\ j <= i
    BY <1>1
  <2>2. (u \o b)[j] = u[j] /\ u[j] = a[j]
    BY <1>4, <1>5, <2>1 DEF u
  <2>. QED
    BY <1>2, <2>2
<1>8. ASSUME NEW j \in 1 .. Len(t) PROVE (u \o b)[i + j] = t[j]
  <2>1. /\ i + j \in 1 .. Len(s) + Len(t) /\ i + j <= i + Len(t) /\ i + j \in 1 .. i + Len(t)
        /\ ~(i + j <= i) /\ i + j - i = j
    BY <1>1
  <2>2. (u \o b)[i + j] = u[i + j] /\ u[i + j] = t[i + j - i]
    BY <1>4, <1>5, <2>1 DEF u
  <2>. QED
    BY <2>1, <2>2
<1>9. ASSUME NEW j \in i + 1 .. Len(s) PROVE (u \o b)[Len(t) + j] = s[j]
  <2>1. /\ Len(t) + j \in 1 .. Len(s) + Len(t) /\ ~(Len(t) + j <= i + Len(t))
        /\ Len(t) + j - (i + Len(t)) = j - i /\ j - i \in 1 .. Len(s) - i /\ i + (j - i) = j
    <3>1. /\ j \in Int /\ i + 1 <= j /\ j <= Len(s)
          /\ Len(s) \in Nat /\ Len(t) \in Nat /\ i \in Nat
      BY <1>1
    <3>2. \A x, y, z, k \in Int :
            /\ 0 <= x /\ 0 <= y /\ 0 <= z /\ x + 1 <= k /\ k <= y
            => /\ z + k \in 1 .. y + z /\ ~(z + k <= x + z)
               /\ z + k - (x + z) = k - x /\ k - x \in 1 .. y - x /\ x + (k - x) = k
      OBVIOUS
    <3>. QED
      BY <3>1, <3>2
  <2>2. (u \o b)[Len(t) + j] = b[j - i]
    <3>. DEFINE x == Len(t) + j
    <3>1. x \in 1 .. Len(s) + Len(t) /\ ~(x <= i + Len(t)) /\ x - (i + Len(t)) = j - i
      BY <2>1
    <3>. HIDE DEF x
    <3>2. (u \o b)[x] = b[x - (i + Len(t))]
      BY <1>5, <3>1
    <3>. QED
      BY <3>1, <3>2 DEF x
  <2>3. b[j - i] = s[i + (j - i)]
    BY <1>3, <2>1
  <2>. QED
    BY <2>1, <2>2, <2>3
<1>. QED
  BY <1>5, <1>6, <1>7, <1>8, <1>9

-----------------------------------------------------------------------------
\* The step puts the nodes t into list to after its first i, and empties the
\* lists E.
Insertion(ch, to, i, t, E) ==
    /\ \A m \in Lists \ {to} :
        /\ m \in E => length'[m] = 0 /\ head'[m] = Null /\ tail'[m] = Null
        /\ m \notin E =>
            /\ length'[m] = length[m] /\ head'[m] = head[m] /\ tail'[m] = tail[m]
            /\ \A k \in 1 .. Len(ch[m]) :
                /\ next'[ch[m][k]] = next[ch[m][k]] /\ el'[ch[m][k]] = el[ch[m][k]]
                /\ \A j \in 1 .. Len(t) : t[j] # ch[m][k]
    /\ length'[to] = length[to] + Len(t)
    /\ head'[to] = IF i = 0 THEN t[1] ELSE head[to]
    /\ tail'[to] = IF i = Len(ch[to]) THEN t[Len(t)] ELSE tail[to]
    /\ i > 0 => next'[ch[to][i]] = t[1]
    /\ next'[t[Len(t)]] = IF i = Len(ch[to]) THEN Null ELSE ch[to][i + 1]
    /\ \A k \in 1 .. Len(ch[to]) :
        /\ k # i => next'[ch[to][k]] = next[ch[to][k]]
        /\ el'[ch[to][k]] = el[ch[to][k]]
        /\ \A j \in 1 .. Len(t) : t[j] # ch[to][k]
    /\ \A k \in 1 .. Len(t) - 1 : next'[t[k]] = t[k + 1]
    /\ \A k \in 1 .. Len(t) : el'[t[k]] \in Elements
    /\ \A j, k \in 1 .. Len(t) : t[j] = t[k] => j = k

\* The chains after it.
Inserted(ch, to, i, t, E) ==
    [m \in Lists |-> IF m = to THEN Spliced(ch[to], i, t)
                     ELSE IF m \in E THEN <<>> ELSE ch[m]]

(* The list that gets the nodes is chained again.                          *)
LEMMA InsertedChain ==
  ASSUME NEW ch \in Chains, Chained(ch), NEW to \in Lists, NEW i \in 0 .. Len(ch[to]),
         NEW t \in Seq(Nodes), t # <<>>, NEW E, Insertion(ch, to, i, t, E),
         NEW c, c = Spliced(ch[to], i, t)
  PROVE  /\ c \in Seq(Nodes) /\ Len(c) = Len(ch[to]) + Len(t) /\ Len(c) \in Nat \ {0}
         /\ length'[to] = Len(c) /\ head'[to] = c[1] /\ tail'[to] = c[Len(c)]
         /\ next'[c[Len(c)]] = Null
         /\ \A j \in 1 .. Len(c) - 1 : next'[c[j]] = c[j + 1]
         /\ \A j \in 1 .. Len(c) : el'[c[j]] \in Elements
         /\ \A j, k \in 1 .. Len(c) : c[j] = c[k] => j = k
         /\ \A j \in 1 .. Len(c) : \/ \E k \in 1 .. Len(ch[to]) : c[j] = ch[to][k]
                                   \/ \E k \in 1 .. Len(t) : c[j] = t[k]
<1>. DEFINE s == ch[to]
            n == Len(s)
            q == Len(t)
<1>1. s \in Seq(Nodes) /\ n \in Nat /\ q \in Nat /\ q # 0 /\ i \in Nat /\ i <= n
  BY ChainFacts, EmptySeq
<1>2. /\ c \in Seq(Nodes) /\ Len(c) = n + q
      /\ \A j \in 1 .. i : c[j] = s[j]
      /\ \A j \in 1 .. q : c[i + j] = t[j]
      /\ \A j \in i + 1 .. n : c[q + j] = s[j]
  <2>1. s \in Seq(Nodes) /\ i \in 0 .. Len(s)
    BY <1>1
  <2>2. c = Spliced(s, i, t)
    OBVIOUS
  <2>. HIDE DEF s
  <2>3. /\ Spliced(s, i, t) \in Seq(Nodes)
        /\ Len(Spliced(s, i, t)) = Len(s) + Len(t)
        /\ \A j \in 1 .. i : Spliced(s, i, t)[j] = s[j]
        /\ \A j \in 1 .. Len(t) : Spliced(s, i, t)[i + j] = t[j]
        /\ \A j \in i + 1 .. Len(s) : Spliced(s, i, t)[Len(t) + j] = s[j]
    BY <2>1, SplicedFacts
  <2>. QED
    BY <2>2, <2>3
<1>3. /\ length[to] = n
      /\ n # 0 => head[to] = s[1] /\ tail[to] = s[n] /\ next[s[n]] = Null
      /\ \A j \in 1 .. n - 1 : next[s[j]] = s[j + 1]
      /\ \A j \in 1 .. n : el[s[j]] \in Elements
      /\ \A j, k \in 1 .. n : s[j] = s[k] => j = k
  BY ChainFacts DEF Chained
<1>4. /\ length'[to] = length[to] + q /\ length[to] = n
      /\ head'[to] = IF i = 0 THEN t[1] ELSE head[to]
      /\ tail'[to] = IF i = n THEN t[q] ELSE tail[to]
      /\ i > 0 => next'[s[i]] = t[1]
      /\ next'[t[q]] = IF i = n THEN Null ELSE s[i + 1]
  BY DEF Insertion, Chained
<1>5. /\ \A k \in 1 .. n : /\ k # i => next'[s[k]] = next[s[k]]
                           /\ el'[s[k]] = el[s[k]] /\ \A j \in 1 .. q : t[j] # s[k]
      /\ \A k \in 1 .. q - 1 : next'[t[k]] = t[k + 1]
      /\ \A k \in 1 .. q : el'[t[k]] \in Elements
      /\ \A j, k \in 1 .. q : t[j] = t[k] => j = k
  BY DEF Insertion
<1>. HIDE DEF s, n, q
<1>6. ASSUME NEW j \in 1 .. n + q
      PROVE  j \in 1 .. i \/ (\E k \in 1 .. q : j = i + k) \/ (\E k \in i + 1 .. n : j = q + k)
  <2>1. CASE j > i /\ j <= i + q
    <3>1. j - i \in 1 .. q /\ j = i + (j - i)
      BY <1>1, <2>1
    <3>. QED
      BY <3>1
  <2>2. CASE j > i + q
    <3>1. j - q \in i + 1 .. n /\ j = q + (j - q)
      BY <1>1, <2>2
    <3>. QED
      BY <3>1
  <2>. QED
    BY <1>1, <2>1, <2>2
<1>7. head'[to] = c[1]
  <2>1. CASE i = 0
    <3>1. 1 \in 1 .. q /\ i + 1 = 1
      BY <1>1, <2>1
    <3>. QED
      BY <1>2, <1>4, <2>1, <3>1
  <2>2. CASE i # 0
    <3>1. 1 \in 1 .. i /\ n # 0
      BY <1>1, <2>2
    <3>. QED
      BY <1>2, <1>3, <1>4, <2>2, <3>1
  <2>. QED
    BY <2>1, <2>2
<1>8. tail'[to] = c[n + q] /\ next'[c[n + q]] = Null
  <2>1. CASE i = n
    <3>1. q \in 1 .. q
      BY <1>1
    <3>2. c[i + q] = t[q]
      BY <1>2, <3>1
    <3>. QED
      BY <1>4, <2>1, <3>2
  <2>2. CASE i # n
    <3>1. n \in i + 1 .. n /\ n \in 1 .. n /\ n # 0 /\ q + n = n + q
      BY <1>1, <2>2
    <3>2. c[q + n] = s[n]
      BY <1>2, <3>1
    <3>3. next'[s[n]] = next[s[n]]
      BY <1>5, <2>2, <3>1
    <3>. QED
      BY <1>3, <1>4, <2>2, <3>1, <3>2, <3>3
  <2>. QED
    BY <2>1, <2>2
<1>9. ASSUME NEW j \in 1 .. n + q - 1 PROVE next'[c[j]] = c[j + 1]
  <2>1. j \in 1 .. n + q
    BY <1>1
  <2>2. CASE j \in 1 .. i /\ j # i
    <3>1. j \in 1 .. n - 1 /\ j \in 1 .. n /\ j + 1 \in 1 .. i
      BY <1>1, <2>2
    <3>2. c[j] = s[j] /\ c[j + 1] = s[j + 1]
      BY <1>2, <2>2, <3>1
    <3>3. next'[s[j]] = next[s[j]] /\ next[s[j]] = s[j + 1]
      BY <1>3, <1>5, <2>2, <3>1
    <3>. QED
      BY <3>2, <3>3
  <2>3. CASE j = i
    <3>1. i > 0 /\ j \in 1 .. i /\ 1 \in 1 .. q
      BY <1>1, <2>3
    <3>2. c[j] = s[j] /\ c[i + 1] = t[1]
      BY <1>2, <3>1
    <3>. QED
      BY <1>4, <2>3, <3>1, <3>2
  <2>4. ASSUME NEW k \in 1 .. q, j = i + k PROVE next'[c[j]] = c[j + 1]
    <3>1. c[j] = t[k]
      BY <1>2, <2>4
    <3>2. CASE k # q
      <4>1. k \in 1 .. q - 1 /\ k + 1 \in 1 .. q /\ i + (k + 1) = j + 1
        BY <1>1, <2>4, <3>2
      <4>2. c[i + (k + 1)] = t[k + 1]
        BY <1>2, <4>1
      <4>3. next'[t[k]] = t[k + 1]
        BY <1>5, <4>1
      <4>. QED
        BY <3>1, <4>1, <4>2, <4>3
    <3>3. CASE k = q
      <4>1. i # n /\ i + 1 \in i + 1 .. n /\ q + (i + 1) = j + 1
        BY <1>1, <2>4, <3>3
      <4>2. c[q + (i + 1)] = s[i + 1]
        BY <1>2, <4>1
      <4>3. next'[t[k]] = s[i + 1]
        BY <1>4, <3>3, <4>1
      <4>. QED
        BY <3>1, <4>1, <4>2, <4>3
    <3>. QED
      BY <3>2, <3>3
  <2>5. ASSUME NEW k \in i + 1 .. n, j = q + k PROVE next'[c[j]] = c[j + 1]
    <3>1. /\ k \in 1 .. n - 1 /\ k \in 1 .. n /\ k # i
          /\ k + 1 \in i + 1 .. n /\ q + (k + 1) = j + 1
      BY <1>1, <2>5
    <3>2. c[j] = s[k]
      BY <1>2, <2>5
    <3>3. c[q + (k + 1)] = s[k + 1]
      BY <1>2, <3>1
    <3>4. next'[s[k]] = next[s[k]] /\ next[s[k]] = s[k + 1]
      BY <1>3, <1>5, <3>1
    <3>. QED
      BY <3>1, <3>2, <3>3, <3>4
  <2>. QED
    BY <1>6, <2>1, <2>2, <2>3, <2>4, <2>5
<1>10. ASSUME NEW j \in 1 .. n + q
       PROVE  \/ \E k \in 1 .. n : c[j] = s[k] /\ j = IF k <= i THEN k ELSE q + k
              \/ \E k \in 1 .. q : c[j] = t[k] /\ j = i + k
  <2>1. CASE j \in 1 .. i
    <3>1. j \in 1 .. n /\ j <= i /\ c[j] = s[j]
      BY <1>1, <1>2, <2>1
    <3>. QED
      BY <3>1
  <2>2. ASSUME NEW k \in i + 1 .. n, j = q + k
        PROVE  \E x \in 1 .. n : c[j] = s[x] /\ j = IF x <= i THEN x ELSE q + x
    <3>1. k \in 1 .. n /\ ~(k <= i) /\ c[j] = s[k]
      BY <1>1, <1>2, <2>2
    <3>. QED
      BY <2>2, <3>1
  <2>. QED
    BY <1>2, <1>6, <2>1, <2>2
<1>11. ASSUME NEW j \in 1 .. n + q, NEW k \in 1 .. n + q, c[j] = c[k] PROVE j = k
  <2>1. /\ \A x, y \in 1 .. n : s[x] = s[y] => x = y
        /\ \A x, y \in 1 .. q : t[x] = t[y] => x = y
        /\ \A x \in 1 .. q, y \in 1 .. n : t[x] # s[y]
    BY <1>3, <1>5
  <2>. QED
    BY <1>10, <1>11, <2>1
<1>12. ASSUME NEW j \in 1 .. n + q
       PROVE  /\ el'[c[j]] \in Elements
              /\ (\E k \in 1 .. n : c[j] = s[k]) \/ (\E k \in 1 .. q : c[j] = t[k])
  BY <1>3, <1>5, <1>10
<1>13. n + q \in Nat \ {0} /\ length'[to] = n + q
  BY <1>1, <1>4
<1>14. n + q = Len(c)
  BY <1>2
<1>15. /\ c \in Seq(Nodes) /\ Len(c) = n + q /\ Len(c) \in Nat \ {0}
       /\ length'[to] = Len(c) /\ head'[to] = c[1] /\ tail'[to] = c[Len(c)]
       /\ next'[c[Len(c)]] = Null
  BY <1>2, <1>7, <1>8, <1>13, <1>14
<1>16. /\ \A j \in 1 .. Len(c) - 1 : next'[c[j]] = c[j + 1]
       /\ \A j \in 1 .. Len(c) : el'[c[j]] \in Elements
       /\ \A j, k \in 1 .. Len(c) : c[j] = c[k] => j = k
  <2>1. \A j \in 1 .. Len(c) - 1 : j \in 1 .. n + q - 1
    BY <1>1, <1>14
  <2>2. \A j \in 1 .. Len(c) : j \in 1 .. n + q
    BY <1>14
  <2>. QED
    BY <1>9, <1>11, <1>12, <2>1, <2>2
<1>17. s = ch[to] /\ n = Len(ch[to]) /\ q = Len(t)
  BY DEF s, n, q
<1>18. Len(c) = Len(ch[to]) + Len(t)
  BY <1>15, <1>17
<1>19. \A j \in 1 .. Len(c) : \/ \E k \in 1 .. Len(ch[to]) : c[j] = ch[to][k]
                              \/ \E k \in 1 .. Len(t) : c[j] = t[k]
  <2>. SUFFICES ASSUME NEW j \in 1 .. Len(c)
                PROVE  \/ \E k \in 1 .. Len(ch[to]) : c[j] = ch[to][k]
                       \/ \E k \in 1 .. Len(t) : c[j] = t[k]
    OBVIOUS
  <2>1. (\E k \in 1 .. n : c[j] = s[k]) \/ (\E k \in 1 .. q : c[j] = t[k])
    BY <1>12, <1>14
  <2>. QED
    BY <1>17, <2>1
<1>. QED
  BY <1>15, <1>16, <1>18, <1>19, Zenon

\* A list is the elements at the nodes of its chain.
ContentsChained ==
    \A ch \in Chains, l \in Lists :
        Chained(ch) => /\ Contents[l] = [j \in 1 .. Len(ch[l]) |-> el[ch[l][j]]]
                       /\ Contents[l] \in Seq(Elements) /\ Len(Contents[l]) = Len(ch[l])

(* The lemma about contents, to be used of a later state.                  *)
LEMMA ContentsFollow == Types => ContentsChained
  BY ContentsOfChain DEF ContentsChained

(* An insertion leaves chains, and the contents it should.                 *)
LEMMA InsertionStep ==
  ASSUME Types, Types', NEW ch \in Chains, Chained(ch),
         NEW to \in Lists, NEW i \in 0 .. Len(ch[to]),
         NEW t \in Seq(Nodes), t # <<>>, NEW E, Insertion(ch, to, i, t, E)
  PROVE  /\ IInv'
         /\ Contents' = [m \in Lists |->
                IF m = to THEN Spliced(Contents[to], i, [k \in 1 .. Len(t) |-> el'[t[k]]])
                ELSE IF m \in E THEN <<>> ELSE Contents[m]]
<1>1. PICK nc : nc = Inserted(ch, to, i, t, E)
  OBVIOUS
<1>2. PICK c : c = Spliced(ch[to], i, t)
  OBVIOUS
<1>3. \A m \in Lists : nc[m] = IF m = to THEN c ELSE IF m \in E THEN <<>> ELSE ch[m]
  <2>1. nc = [m \in Lists |-> IF m = to THEN c ELSE IF m \in E THEN <<>> ELSE ch[m]]
    BY <1>1, <1>2, Zenon DEF Inserted
  <2>. QED
    BY <2>1, Zenon
<1>4. /\ c \in Seq(Nodes) /\ Len(c) = Len(ch[to]) + Len(t) /\ Len(c) \in Nat \ {0}
      /\ length'[to] = Len(c) /\ head'[to] = c[1] /\ tail'[to] = c[Len(c)]
      /\ next'[c[Len(c)]] = Null
      /\ \A j \in 1 .. Len(c) - 1 : next'[c[j]] = c[j + 1]
      /\ \A j \in 1 .. Len(c) : el'[c[j]] \in Elements
      /\ \A j, k \in 1 .. Len(c) : c[j] = c[k] => j = k
      /\ \A j \in 1 .. Len(c) : \/ \E k \in 1 .. Len(ch[to]) : c[j] = ch[to][k]
                                \/ \E k \in 1 .. Len(t) : c[j] = t[k]
  <2>. DEFINE P(c_) ==
          /\ c_ \in Seq(Nodes) /\ Len(c_) = Len(ch[to]) + Len(t) /\ Len(c_) \in Nat \ {0}
          /\ length'[to] = Len(c_) /\ head'[to] = c_[1] /\ tail'[to] = c_[Len(c_)]
          /\ next'[c_[Len(c_)]] = Null
          /\ \A j \in 1 .. Len(c_) - 1 : next'[c_[j]] = c_[j + 1]
          /\ \A j \in 1 .. Len(c_) : el'[c_[j]] \in Elements
          /\ \A j, k \in 1 .. Len(c_) : c_[j] = c_[k] => j = k
          /\ \A j \in 1 .. Len(c_) : \/ (\E k \in 1 .. Len(ch[to]) : c_[j] = ch[to][k])
                                     \/ (\E k \in 1 .. Len(t) : c_[j] = t[k])
  <2>1. P(Spliced(ch[to], i, t))
    BY InsertedChain, SMTT(30)
  <2>. QED
    BY <1>2, <2>1
<1>5. nc \in Chains
  <2>1. \A m \in Lists : nc[m] \in Seq(Nodes)
    <3>1. \A m \in Lists : ch[m] \in Seq(Nodes) /\ <<>> \in Seq(Nodes)
      BY ChainFacts, EmptySeq
    <3>. QED
      BY <1>3, <1>4, <3>1, Zenon
  <2>2. nc = [m \in Lists |-> nc[m]]
    BY <1>1 DEF Inserted
  <2>. QED
    BY <2>1, <2>2 DEF Chains
<1>6. ASSUME NEW m \in Lists \ {to}, m \notin E
      PROVE  /\ nc[m] = ch[m]
             /\ length'[m] = length[m] /\ head'[m] = head[m] /\ tail'[m] = tail[m]
             /\ \A k \in 1 .. Len(ch[m]) :
                 /\ next'[ch[m][k]] = next[ch[m][k]] /\ el'[ch[m][k]] = el[ch[m][k]]
                 /\ \A j \in 1 .. Len(t) : t[j] # ch[m][k]
  BY <1>3, <1>6 DEF Insertion
<1>7. ASSUME NEW m \in Lists \ {to}, m \in E
      PROVE  nc[m] = <<>> /\ length'[m] = 0 /\ head'[m] = Null /\ tail'[m] = Null
  BY <1>3, <1>7 DEF Insertion
<1>8. Chained(nc)'
  <2>1. ASSUME NEW m \in Lists
        PROVE  /\ length'[m] = Len(nc[m])
               /\ nc[m] = <<>> => head'[m] = Null /\ tail'[m] = Null
               /\ nc[m] # <<>> => /\ head'[m] = nc[m][1]
                                  /\ tail'[m] = nc[m][Len(nc[m])]
                                  /\ next'[nc[m][Len(nc[m])]] = Null
               /\ \A j \in 1 .. Len(nc[m]) - 1 : next'[nc[m][j]] = nc[m][j + 1]
               /\ \A j \in 1 .. Len(nc[m]) : el'[nc[m][j]] \in Elements
    <3>1. CASE m = to
      <4>1. nc[m] = c /\ c # <<>>
        BY <1>3, <1>4, <3>1, EmptySeq
      <4>. QED
        BY <1>4, <3>1, <4>1
    <3>2. CASE m # to /\ m \notin E
      <4>1. /\ length[m] = Len(ch[m])
            /\ ch[m] = <<>> => head[m] = Null /\ tail[m] = Null
            /\ ch[m] # <<>> => head[m] = ch[m][1] /\ tail[m] = ch[m][Len(ch[m])]
                               /\ next[ch[m][Len(ch[m])]] = Null
            /\ \A j \in 1 .. Len(ch[m]) - 1 : next[ch[m][j]] = ch[m][j + 1]
            /\ \A j \in 1 .. Len(ch[m]) : el[ch[m][j]] \in Elements
        BY DEF Chained
      <4>2. /\ Len(ch[m]) \in Nat
            /\ ch[m] # <<>> => Len(ch[m]) \in 1 .. Len(ch[m])
            /\ \A j \in 1 .. Len(ch[m]) - 1 : j \in 1 .. Len(ch[m])
        BY ChainFacts
      <4>3. /\ nc[m] = ch[m]
            /\ length'[m] = length[m] /\ head'[m] = head[m] /\ tail'[m] = tail[m]
            /\ \A k \in 1 .. Len(ch[m]) :
                 next'[ch[m][k]] = next[ch[m][k]] /\ el'[ch[m][k]] = el[ch[m][k]]
        BY <1>6, <3>2
      <4>4. \A j \in 1 .. Len(ch[m]) - 1 : next'[ch[m][j]] = ch[m][j + 1]
        BY <4>1, <4>2, <4>3
      <4>5. \A j \in 1 .. Len(ch[m]) : el'[ch[m][j]] \in Elements
        BY <4>1, <4>3
      <4>6. ch[m] # <<>> => next'[ch[m][Len(ch[m])]] = Null
        <5>. SUFFICES ASSUME ch[m] # <<>> PROVE next'[ch[m][Len(ch[m])]] = Null
          OBVIOUS
        <5>1. Len(ch[m]) \in 1 .. Len(ch[m]) /\ next[ch[m][Len(ch[m])]] = Null
          BY <4>1, <4>2
        <5>. QED
          BY <4>3, <5>1
      <4>. QED
        BY <4>1, <4>3, <4>4, <4>5, <4>6
    <3>3. CASE m # to /\ m \in E
      BY <1>7, <3>3, EmptySeq
    <3>. QED
      BY <3>1, <3>2, <3>3
  <2>2. ASSUME NEW l \in Lists, NEW m \in Lists,
               NEW j \in 1 .. Len(nc[l]), NEW k \in 1 .. Len(nc[m]), nc[l][j] = nc[m][k]
        PROVE  l = m /\ j = k
    <3>1. ASSUME NEW p \in Lists, p # to, p \in E PROVE Len(nc[p]) = 0
      BY <1>7, <3>1, EmptySeq
    <3>2. ASSUME NEW p \in Lists, p # to, p \notin E, NEW x \in 1 .. Len(nc[p]),
                 NEW y \in 1 .. Len(c)
          PROVE  nc[p][x] # c[y]
      <4>1. nc[p] = ch[p] /\ x \in 1 .. Len(ch[p]) /\ \A z \in 1 .. Len(t) : t[z] # ch[p][x]
        BY <1>6, <3>2
      <4>2. \A z \in 1 .. Len(ch[to]) : ch[to][z] # ch[p][x]
        <5>1. \A a, b \in Lists : \A v \in 1 .. Len(ch[a]), w \in 1 .. Len(ch[b]) :
                ch[a][v] = ch[b][w] => a = b /\ v = w
          BY Zenon DEF Chained
        <5>. QED
          BY <3>2, <4>1, <5>1
      <4>3. \/ \E z \in 1 .. Len(ch[to]) : c[y] = ch[to][z]
            \/ \E z \in 1 .. Len(t) : c[y] = t[z]
        BY <1>4
      <4>. QED
        BY <4>1, <4>2, <4>3
    <3>3. CASE l = to /\ m = to
      BY <1>3, <1>4, <2>2, <3>3
    <3>4. CASE l = to /\ m # to
      <4>1. nc[l] = c /\ m \notin E
        BY <1>3, <3>1, <3>4
      <4>. QED
        BY <2>2, <3>2, <3>4, <4>1
    <3>5. CASE l # to /\ m = to
      <4>1. nc[m] = c /\ l \notin E
        BY <1>3, <3>1, <3>5
      <4>2. k \in 1 .. Len(c) /\ nc[l][j] = c[k]
        BY <2>2, <4>1
      <4>. QED
        BY <3>2, <3>5, <4>1, <4>2
    <3>6. CASE l # to /\ m # to
      <4>1. l \notin E /\ m \notin E
        BY <3>1, <3>6
      <4>2. nc[l] = ch[l] /\ nc[m] = ch[m]
        BY <1>6, <3>6, <4>1
      <4>3. j \in 1 .. Len(ch[l]) /\ k \in 1 .. Len(ch[m]) /\ ch[l][j] = ch[m][k]
        BY <2>2, <4>2
      <4>4. \A a, b \in Lists : \A v \in 1 .. Len(ch[a]), w \in 1 .. Len(ch[b]) :
              ch[a][v] = ch[b][w] => a = b /\ v = w
        BY Zenon DEF Chained
      <4>. QED
        BY <4>3, <4>4
    <3>. QED
      BY <3>3, <3>4, <3>5, <3>6
  <2>. QED
    BY <2>1, <2>2 DEF Chained
<1>9. IInv'
  BY <1>5, <1>8 DEF IInv
<1>10. ASSUME NEW m \in Lists
       PROVE  /\ Contents'[m] = [j \in 1 .. Len(nc[m]) |-> el'[nc[m][j]]]
              /\ Contents'[m] \in Seq(Elements) /\ Len(Contents'[m]) = Len(nc[m])
              /\ Contents[m] = [j \in 1 .. Len(ch[m]) |-> el[ch[m][j]]]
              /\ Contents[m] \in Seq(Elements) /\ Len(Contents[m]) = Len(ch[m])
  <2>1. ContentsChained'
    BY ContentsFollow, PTL
  <2>2. /\ Contents'[m] = [j \in 1 .. Len(nc[m]) |-> el'[nc[m][j]]]
        /\ Contents'[m] \in Seq(Elements) /\ Len(Contents'[m]) = Len(nc[m])
    BY <1>5, <1>8, <2>1 DEF ContentsChained
  <2>3. /\ Contents[m] = [j \in 1 .. Len(ch[m]) |-> el[ch[m][j]]]
        /\ Contents[m] \in Seq(Elements) /\ Len(Contents[m]) = Len(ch[m])
    BY ContentsOfChain
  <2>. QED
    BY <2>2, <2>3
<1>11. ASSUME NEW m \in Lists \ {to}
       PROVE  Contents'[m] = IF m \in E THEN <<>> ELSE Contents[m]
  <2>1. CASE m \in E
    <3>1. Len(Contents'[m]) = 0 /\ Contents'[m] \in Seq(Elements)
      BY <1>7, <1>10, <2>1, EmptySeq
    <3>. QED
      BY <2>1, <3>1, EmptySeq
  <2>2. CASE m \notin E
    <3>1. nc[m] = ch[m] /\ \A k \in 1 .. Len(ch[m]) : el'[ch[m][k]] = el[ch[m][k]]
      BY <1>6, <2>2
    <3>2. Contents'[m] = [j \in 1 .. Len(ch[m]) |-> el'[ch[m][j]]]
      BY <1>10, <3>1
    <3>3. Contents[m] = [j \in 1 .. Len(ch[m]) |-> el[ch[m][j]]]
      BY <1>10
    <3>4. [j \in 1 .. Len(ch[m]) |-> el'[ch[m][j]]] = [j \in 1 .. Len(ch[m]) |-> el[ch[m][j]]]
      BY <3>1
    <3>. QED
      BY <2>2, <3>2, <3>3, <3>4
  <2>. QED
    BY <2>1, <2>2
<1>12. PICK e : e = [k \in 1 .. Len(t) |-> el'[t[k]]]
  OBVIOUS
<1>13. e \in Seq(Elements) /\ Len(e) = Len(t) /\ Len(t) \in Nat
  <2>1. \A k \in 1 .. Len(t) : el'[t[k]] \in Elements
    BY DEF Insertion
  <2>2. e \in [1 .. Len(t) -> Elements] /\ Len(t) \in Nat
    BY <1>12, <2>1, LenProperties
  <2>. QED
    BY <2>2, SeqDef, LenProperties
<1>14. PICK s : s = Spliced(Contents[to], i, e)
  OBVIOUS
<1>15. /\ s \in Seq(Elements) /\ Len(s) = Len(ch[to]) + Len(t)
       /\ \A j \in 1 .. i : s[j] = el[ch[to][j]]
       /\ \A j \in 1 .. Len(t) : s[i + j] = el'[t[j]]
       /\ \A j \in i + 1 .. Len(ch[to]) : s[Len(t) + j] = el[ch[to][j]]
  <2>1. Contents[to] \in Seq(Elements) /\ Len(Contents[to]) = Len(ch[to])
        /\ i \in 0 .. Len(Contents[to])
    BY <1>10
  <2>2. /\ s \in Seq(Elements)
        /\ Len(s) = Len(Contents[to]) + Len(e)
        /\ \A j \in 1 .. i : s[j] = Contents[to][j]
        /\ \A j \in 1 .. Len(e) : s[i + j] = e[j]
        /\ \A j \in i + 1 .. Len(Contents[to]) : s[Len(e) + j] = Contents[to][j]
    <3>. DEFINE P(x) ==
            /\ x \in Seq(Elements)
            /\ Len(x) = Len(Contents[to]) + Len(e)
            /\ \A j \in 1 .. i : x[j] = Contents[to][j]
            /\ \A j \in 1 .. Len(e) : x[i + j] = e[j]
            /\ \A j \in i + 1 .. Len(Contents[to]) : x[Len(e) + j] = Contents[to][j]
    <3>1. P(Spliced(Contents[to], i, e))
      <4>1. PICK a : a = Contents[to]
        OBVIOUS
      <4>2. a \in Seq(Elements) /\ e \in Seq(Elements) /\ i \in 0 .. Len(a)
        BY <1>13, <2>1, <4>1
      <4>3. /\ Spliced(a, i, e) \in Seq(Elements)
            /\ Len(Spliced(a, i, e)) = Len(a) + Len(e)
            /\ \A j \in 1 .. i : Spliced(a, i, e)[j] = a[j]
            /\ \A j \in 1 .. Len(e) : Spliced(a, i, e)[i + j] = e[j]
            /\ \A j \in i + 1 .. Len(a) : Spliced(a, i, e)[Len(e) + j] = a[j]
        BY <4>2, SplicedFacts, ZenonT(30)
      <4>. QED
        BY <4>1, <4>3, Zenon
    <3>. QED
      BY <1>14, <3>1
  <2>3. \A j \in 1 .. Len(ch[to]) : Contents[to][j] = el[ch[to][j]]
    <3>1. Contents[to] = [j \in 1 .. Len(ch[to]) |-> el[ch[to][j]]]
      BY <1>10
    <3>. QED
      BY <3>1
  <2>4. \A j \in 1 .. i : j \in 1 .. Len(ch[to])
    BY ChainFacts
  <2>5. \A j \in i + 1 .. Len(ch[to]) : j \in 1 .. Len(ch[to])
    BY ChainFacts
  <2>6. \A j \in 1 .. Len(t) : e[j] = el'[t[j]]
    BY <1>12
  <2>. QED
    BY <1>13, <2>1, <2>2, <2>3, <2>4, <2>5, <2>6
<1>16. /\ nc[to] = c
       /\ \A j \in 1 .. i : c[j] = ch[to][j]
       /\ \A j \in 1 .. Len(t) : c[i + j] = t[j]
       /\ \A j \in i + 1 .. Len(ch[to]) : c[Len(t) + j] = ch[to][j]
  <2>1. ch[to] \in Seq(Nodes)
    BY ChainFacts
  <2>. DEFINE P(x) ==
          /\ \A j \in 1 .. i : x[j] = ch[to][j]
          /\ \A j \in 1 .. Len(t) : x[i + j] = t[j]
          /\ \A j \in i + 1 .. Len(ch[to]) : x[Len(t) + j] = ch[to][j]
  <2>2. P(Spliced(ch[to], i, t))
    <3>1. PICK a : a = ch[to]
      OBVIOUS
    <3>2. a \in Seq(Nodes) /\ t \in Seq(Nodes) /\ i \in 0 .. Len(a)
      BY <2>1, <3>1
    <3>3. /\ Spliced(a, i, t) \in Seq(Nodes)
          /\ Len(Spliced(a, i, t)) = Len(a) + Len(t)
          /\ \A j \in 1 .. i : Spliced(a, i, t)[j] = a[j]
          /\ \A j \in 1 .. Len(t) : Spliced(a, i, t)[i + j] = t[j]
          /\ \A j \in i + 1 .. Len(a) : Spliced(a, i, t)[Len(t) + j] = a[j]
      BY <3>2, SplicedFacts, ZenonT(30)
    <3>. QED
      BY <3>1, <3>3, Zenon
  <2>3. nc[to] = c
    BY <1>3
  <2>. QED
    BY <1>2, <2>2, <2>3
<1>17. \A k \in 1 .. Len(ch[to]) : el'[ch[to][k]] = el[ch[to][k]]
  BY DEF Insertion
<1>18. ASSUME NEW j \in 1 .. Len(s) PROVE s[j] = el'[c[j]]
  <2>1. Len(ch[to]) \in Nat /\ i \in Nat /\ i <= Len(ch[to]) /\ Len(t) \in Nat
        /\ j \in Nat /\ 1 <= j /\ j <= Len(ch[to]) + Len(t)
    BY <1>13, <1>15, ChainFacts
  <2>2. CASE j <= i
    <3>1. j \in 1 .. i /\ j \in 1 .. Len(ch[to])
      BY <2>1, <2>2
    <3>. QED
      BY <1>15, <1>16, <1>17, <3>1
  <2>3. CASE j > i /\ j <= i + Len(t)
    <3>1. PICK k : k = j - i
      OBVIOUS
    <3>2. k \in 1 .. Len(t) /\ j = i + k
      BY <2>1, <2>3, <3>1
    <3>3. s[i + k] = el'[t[k]] /\ c[i + k] = t[k]
      BY <1>15, <1>16, <3>2
    <3>. QED
      BY <3>2, <3>3
  <2>4. CASE j > i + Len(t)
    <3>1. PICK k : k = j - Len(t)
      OBVIOUS
    <3>2. k \in i + 1 .. Len(ch[to]) /\ k \in 1 .. Len(ch[to]) /\ j = Len(t) + k
      BY <2>1, <2>4, <3>1
    <3>3. s[Len(t) + k] = el[ch[to][k]] /\ c[Len(t) + k] = ch[to][k]
      BY <1>15, <1>16, <3>2
    <3>4. el'[ch[to][k]] = el[ch[to][k]]
      BY <1>17, <3>2
    <3>. QED
      BY <3>2, <3>3, <3>4
  <2>. QED
    BY <2>1, <2>2, <2>3, <2>4
<1>19. Contents'[to] = s
  <2>1. Len(Contents'[to]) = Len(s) /\ Contents'[to] \in Seq(Elements) /\ s \in Seq(Elements)
    BY <1>4, <1>10, <1>15, <1>16
  <2>2. \A j \in 1 .. Len(s) : j \in 1 .. Len(c)
    BY <1>4, <1>15
  <2>3. \A j \in 1 .. Len(s) : Contents'[to][j] = s[j]
    <3>1. Contents'[to] = [j \in 1 .. Len(c) |-> el'[c[j]]]
      BY <1>10, <1>16
    <3>2. \A j \in 1 .. Len(c) : Contents'[to][j] = el'[c[j]]
      BY <3>1
    <3>. QED
      BY <1>18, <2>2, <3>2
  <2>. QED
    BY <2>1, <2>3, SeqEqual
<1>20. Contents' = [m \in Lists |-> IF m = to THEN s
                                    ELSE IF m \in E THEN <<>> ELSE Contents[m]]
  <2>1. Contents' = [m \in Lists |-> Contents'[m]]
    BY DEF Contents
  <2>. QED
    BY <1>11, <1>19, <2>1
<1>. QED
  BY <1>9, <1>12, <1>14, <1>20

-----------------------------------------------------------------------------
(* An empty list has no head and no tail; another has its first node and   *)
(* its last.                                                               *)
LEMMA Ends ==
  ASSUME Types, NEW ch \in Chains, Chained(ch), NEW l \in Lists
  PROVE  /\ Len(ch[l]) \in Nat /\ length[l] = Len(ch[l])
         /\ head[l] = Null <=> Len(ch[l]) = 0
         /\ tail[l] = Null <=> Len(ch[l]) = 0
         /\ Len(ch[l]) # 0 => /\ 1 \in 1 .. Len(ch[l]) /\ Len(ch[l]) \in 1 .. Len(ch[l])
                              /\ head[l] = ch[l][1] /\ tail[l] = ch[l][Len(ch[l])]
                              /\ head[l] \in Nodes /\ tail[l] \in Nodes
                              /\ next[tail[l]] = Null
<1>1. /\ Len(ch[l]) \in Nat
      /\ ch[l] = <<>> <=> Len(ch[l]) = 0
      /\ \A j \in 1 .. Len(ch[l]) : ch[l][j] \in Nodes /\ ch[l][j] # Null
  BY ChainFacts
<1>2. /\ length[l] = Len(ch[l])
      /\ ch[l] = <<>> => head[l] = Null /\ tail[l] = Null
      /\ ch[l] # <<>> => /\ head[l] = ch[l][1] /\ tail[l] = ch[l][Len(ch[l])]
                         /\ next[ch[l][Len(ch[l])]] = Null
  BY DEF Chained
<1>3. CASE Len(ch[l]) = 0
  BY <1>1, <1>2, <1>3
<1>4. CASE Len(ch[l]) # 0
  <2>1. 1 \in 1 .. Len(ch[l]) /\ Len(ch[l]) \in 1 .. Len(ch[l])
    BY <1>1, <1>4
  <2>2. /\ ch[l][1] \in Nodes /\ ch[l][1] # Null
        /\ ch[l][Len(ch[l])] \in Nodes /\ ch[l][Len(ch[l])] # Null
    BY <1>1, <2>1
  <2>. QED
    BY <1>1, <1>2, <1>4, <2>1, <2>2
<1>. QED
  BY <1>3, <1>4

(* A new node is on no chain.                                              *)
LEMMA NewNodeIsFree ==
  ASSUME Types, NEW ch \in Chains, Chained(ch), Free # {}
  PROVE  /\ NewNode \in Nodes /\ NewNode # Null
         /\ \A l \in Lists : \A k \in 1 .. Len(ch[l]) : ch[l][k] # NewNode
<1>1. Free \subseteq Nat
  BY ListsAssumption DEF Free
<1>2. NewNode \in Free
  BY <1>1, MinOfNaturals DEF NewNode
<1>3. NewNode \in Nodes /\ NewNode # Null /\ \A l \in Lists : NewNode \notin From(head[l])
  BY <1>2, ListsAssumption DEF Free
<1>4. ASSUME NEW l \in Lists, NEW k \in 1 .. Len(ch[l]) PROVE ch[l][k] # NewNode
  <2>1. From(head[l]) = {ch[l][j] : j \in 1 .. Len(ch[l])}
    BY FromHead
  <2>. QED
    BY <1>3, <2>1
<1>. QED
  BY <1>3, <1>4

\* The step puts one new node, with e, into list to after its first i.
OneNodeIn(ch, to, i, e) ==
    /\ Free # {}
    /\ el'[NewNode] = e /\ \A x \in Nodes \ {NewNode} : el'[x] = el[x]
    /\ length'[to] = length[to] + 1
    /\ \A m \in Lists \ {to} :
         length'[m] = length[m] /\ head'[m] = head[m] /\ tail'[m] = tail[m]
    /\ head'[to] = IF i = 0 THEN NewNode ELSE head[to]
    /\ tail'[to] = IF i = Len(ch[to]) THEN NewNode ELSE tail[to]
    /\ i > 0 => next'[ch[to][i]] = NewNode
    /\ next'[NewNode] = IF i = Len(ch[to]) THEN Null ELSE ch[to][i + 1]
    /\ \A x \in Nodes : x # NewNode /\ (i > 0 => x # ch[to][i]) => next'[x] = next[x]

(* One new node put in.                                                    *)
LEMMA OneNode ==
  ASSUME Types, Types', NEW ch \in Chains, Chained(ch),
         NEW to \in Lists, NEW i \in 0 .. Len(ch[to]), NEW e \in Elements,
         OneNodeIn(ch, to, i, e)
  PROVE  IInv' /\ Contents' = [Contents EXCEPT ![to] = Spliced(@, i, <<e>>)]
<1>. DEFINE n == NewNode
<1>1. /\ Free # {}
      /\ el'[n] = e /\ \A x \in Nodes \ {n} : el'[x] = el[x]
      /\ length'[to] = length[to] + 1
      /\ \A m \in Lists \ {to} :
           length'[m] = length[m] /\ head'[m] = head[m] /\ tail'[m] = tail[m]
      /\ head'[to] = IF i = 0 THEN n ELSE head[to]
      /\ tail'[to] = IF i = Len(ch[to]) THEN n ELSE tail[to]
      /\ i > 0 => next'[ch[to][i]] = n
      /\ next'[n] = IF i = Len(ch[to]) THEN Null ELSE ch[to][i + 1]
      /\ \A x \in Nodes : x # n /\ (i > 0 => x # ch[to][i]) => next'[x] = next[x]
  BY DEF OneNodeIn
<1>2. /\ n \in Nodes /\ n # Null
      /\ \A l \in Lists : \A k \in 1 .. Len(ch[l]) : ch[l][k] # n
  BY <1>1, NewNodeIsFree
<1>. HIDE DEF n
<1>3. PICK t : t = <<n>>
  OBVIOUS
<1>4. t \in Seq(Nodes) /\ t # <<>> /\ Len(t) = 1 /\ t[1] = n /\ 1 .. Len(t) = {1}
      /\ 1 .. Len(t) - 1 = {}
  BY <1>2, <1>3
<1>5. /\ \A l \in Lists : \A k \in 1 .. Len(ch[l]) : ch[l][k] \in Nodes
      /\ \A l, m \in Lists : \A j \in 1 .. Len(ch[l]), k \in 1 .. Len(ch[m]) :
           ch[l][j] = ch[m][k] => l = m /\ j = k
      /\ Len(ch[to]) \in Nat /\ i \in Nat /\ i <= Len(ch[to])
      /\ i > 0 => i \in 1 .. Len(ch[to])
  BY ChainFacts DEF Chained
<1>6. ASSUME NEW m \in Lists, NEW k \in 1 .. Len(ch[m]), ~(m = to /\ k = i)
      PROVE  next'[ch[m][k]] = next[ch[m][k]]
  <2>1. ch[m][k] \in Nodes /\ ch[m][k] # n
    BY <1>2, <1>5
  <2>2. i > 0 => ch[m][k] # ch[to][i]
    BY <1>5, <1>6
  <2>. QED
    BY <1>1, <2>1, <2>2
<1>7. ASSUME NEW m \in Lists, NEW k \in 1 .. Len(ch[m])
      PROVE  el'[ch[m][k]] = el[ch[m][k]] /\ \A j \in 1 .. Len(t) : t[j] # ch[m][k]
  <2>1. ch[m][k] \in Nodes /\ ch[m][k] # n
    BY <1>2, <1>5
  <2>. QED
    BY <1>1, <1>4, <2>1
<1>8. el'[n] = e /\ length'[to] = length[to] + 1
      /\ \A m \in Lists \ {to} : length'[m] = length[m]
  BY <1>1
<1>9. Insertion(ch, to, i, t, {})
  <2>1. \A m \in Lists \ {to} :
          /\ m \in {} => length'[m] = 0 /\ head'[m] = Null /\ tail'[m] = Null
          /\ m \notin {} =>
              /\ length'[m] = length[m] /\ head'[m] = head[m] /\ tail'[m] = tail[m]
              /\ \A k \in 1 .. Len(ch[m]) :
                  /\ next'[ch[m][k]] = next[ch[m][k]] /\ el'[ch[m][k]] = el[ch[m][k]]
                  /\ \A j \in 1 .. Len(t) : t[j] # ch[m][k]
    BY <1>1, <1>6, <1>7, <1>8
  <2>2. /\ length'[to] = length[to] + Len(t)
        /\ head'[to] = IF i = 0 THEN t[1] ELSE head[to]
        /\ tail'[to] = IF i = Len(ch[to]) THEN t[Len(t)] ELSE tail[to]
        /\ i > 0 => next'[ch[to][i]] = t[1]
        /\ next'[t[Len(t)]] = IF i = Len(ch[to]) THEN Null ELSE ch[to][i + 1]
    BY <1>1, <1>4, <1>8
  <2>3. \A k \in 1 .. Len(ch[to]) :
          /\ k # i => next'[ch[to][k]] = next[ch[to][k]]
          /\ el'[ch[to][k]] = el[ch[to][k]]
          /\ \A j \in 1 .. Len(t) : t[j] # ch[to][k]
    BY <1>6, <1>7
  <2>4. /\ \A k \in 1 .. Len(t) - 1 : next'[t[k]] = t[k + 1]
        /\ \A k \in 1 .. Len(t) : el'[t[k]] \in Elements
        /\ \A j, k \in 1 .. Len(t) : t[j] = t[k] => j = k
    BY <1>4, <1>8
  <2>. QED
    BY <2>1, <2>2, <2>3, <2>4 DEF Insertion
<1>10. PICK u : u = [k \in 1 .. Len(t) |-> el'[t[k]]]
  OBVIOUS
<1>11. u = <<e>>
  <2>1. u = [k \in {1} |-> e]
    BY <1>4, <1>8, <1>10
  <2>2. u \in [1 .. 1 -> Elements] /\ u[1] = e
    BY <2>1
  <2>3. u \in Seq(Elements)
    <3>1. 1 \in Nat /\ Seq(Elements) = UNION {[1 .. k -> Elements] : k \in Nat}
      BY SeqDef
    <3>. QED
      BY <2>2, <3>1
  <2>4. Len(u) = 1
    BY <2>2, LenProperties, <2>3
  <2>5. <<e>> \in Seq(Elements) /\ Len(<<e>>) = 1 /\ <<e>>[1] = e
    OBVIOUS
  <2>6. \A k \in 1 .. Len(u) : u[k] = <<e>>[k]
    BY <2>2, <2>4, <2>5
  <2>. QED
    BY <2>3, <2>4, <2>5, <2>6, SeqEqual
<1>12. /\ IInv'
       /\ Contents' = [m \in Lists |-> IF m = to THEN Spliced(Contents[to], i, u)
                                      ELSE IF m \in {} THEN <<>> ELSE Contents[m]]
  <2>1. /\ IInv'
        /\ Contents' = [m \in Lists |->
               IF m = to THEN Spliced(Contents[to], i, [k \in 1 .. Len(t) |-> el'[t[k]]])
               ELSE IF m \in {} THEN <<>> ELSE Contents[m]]
    BY <1>4, <1>9, InsertionStep
  <2>. QED
    BY <1>10, <2>1
<1>13. [Contents EXCEPT ![to] = Spliced(@, i, <<e>>)]
         = [m \in Lists |-> IF m = to THEN Spliced(Contents[to], i, <<e>>) ELSE Contents[m]]
  BY DEF Contents
<1>. QED
  BY <1>11, <1>12, <1>13

\* The step puts all nodes of the list from into list to after its first i.
AllNodesIn(ch, to, i, from) ==
    /\ el' = el
    /\ length'[to] = length[to] + length[from] /\ length'[from] = 0
    /\ \A m \in Lists \ {to, from} :
         length'[m] = length[m] /\ head'[m] = head[m] /\ tail'[m] = tail[m]
    /\ head'[from] = Null /\ tail'[from] = Null
    /\ head'[to] = IF i = 0 THEN head[from] ELSE head[to]
    /\ tail'[to] = IF i = Len(ch[to]) THEN tail[from] ELSE tail[to]
    /\ i > 0 => next'[ch[to][i]] = head[from]
    /\ next'[tail[from]] = IF i = Len(ch[to]) THEN Null ELSE ch[to][i + 1]
    /\ \A x \in Nodes : x # tail[from] /\ (i > 0 => x # ch[to][i]) => next'[x] = next[x]

(* The nodes of another list put in.                                       *)
LEMMA AllNodes ==
  ASSUME Types, Types', NEW ch \in Chains, Chained(ch),
         NEW to \in Lists, NEW i \in 0 .. Len(ch[to]),
         NEW from \in Lists, to # from, Len(ch[from]) # 0,
         AllNodesIn(ch, to, i, from)
  PROVE  IInv' /\ Contents' = [Contents EXCEPT ![to] = Spliced(@, i, Contents[from]),
                                               ![from] = <<>>]
<1>1. /\ el' = el
      /\ length'[to] = length[to] + length[from] /\ length'[from] = 0
      /\ \A m \in Lists \ {to, from} :
           length'[m] = length[m] /\ head'[m] = head[m] /\ tail'[m] = tail[m]
      /\ head'[from] = Null /\ tail'[from] = Null
      /\ head'[to] = IF i = 0 THEN head[from] ELSE head[to]
      /\ tail'[to] = IF i = Len(ch[to]) THEN tail[from] ELSE tail[to]
      /\ i > 0 => next'[ch[to][i]] = head[from]
      /\ next'[tail[from]] = IF i = Len(ch[to]) THEN Null ELSE ch[to][i + 1]
      /\ \A x \in Nodes : x # tail[from] /\ (i > 0 => x # ch[to][i]) => next'[x] = next[x]
  BY DEF AllNodesIn
<1>2. PICK t : t = ch[from]
  OBVIOUS
<1>3. /\ Len(t) \in Nat /\ Len(t) # 0 /\ Len(t) \in 1 .. Len(t) /\ length[from] = Len(t)
      /\ head[from] = t[1] /\ tail[from] = t[Len(t)] /\ tail[from] \in Nodes
  BY <1>2, Ends
<1>4. t \in Seq(Nodes) /\ t # <<>>
  BY <1>2, <1>3, ChainFacts
<1>5. /\ \A l \in Lists : \A k \in 1 .. Len(ch[l]) : ch[l][k] \in Nodes
      /\ \A l, m \in Lists : \A j \in 1 .. Len(ch[l]), k \in 1 .. Len(ch[m]) :
           ch[l][j] = ch[m][k] => l = m /\ j = k
      /\ Len(ch[to]) \in Nat /\ i \in Nat /\ i <= Len(ch[to])
      /\ i > 0 => i \in 1 .. Len(ch[to])
  BY ChainFacts DEF Chained
<1>6. ASSUME NEW m \in Lists, NEW k \in 1 .. Len(ch[m]), ~(m = to /\ k = i),
             ~(m = from /\ k = Len(t))
      PROVE  next'[ch[m][k]] = next[ch[m][k]]
  <2>1. ch[m][k] \in Nodes
    BY <1>5
  <2>2. i > 0 => ch[m][k] # ch[to][i]
    BY <1>5, <1>6
  <2>3. ch[m][k] # tail[from]
    BY <1>2, <1>3, <1>5, <1>6
  <2>. QED
    BY <1>1, <2>1, <2>2, <2>3
<1>7. ASSUME NEW m \in Lists \ {from}, NEW k \in 1 .. Len(ch[m])
      PROVE  el'[ch[m][k]] = el[ch[m][k]] /\ \A j \in 1 .. Len(t) : t[j] # ch[m][k]
  BY <1>1, <1>2, <1>5
<1>8. /\ length'[to] = length[to] + Len(t) /\ length'[from] = 0
      /\ \A m \in Lists \ {to, from} : length'[m] = length[m]
  BY <1>1, <1>3
<1>9. Insertion(ch, to, i, t, {from})
  <2>1. \A m \in Lists \ {to} :
          /\ m \in {from} => length'[m] = 0 /\ head'[m] = Null /\ tail'[m] = Null
          /\ m \notin {from} =>
              /\ length'[m] = length[m] /\ head'[m] = head[m] /\ tail'[m] = tail[m]
              /\ \A k \in 1 .. Len(ch[m]) :
                  /\ next'[ch[m][k]] = next[ch[m][k]] /\ el'[ch[m][k]] = el[ch[m][k]]
                  /\ \A j \in 1 .. Len(t) : t[j] # ch[m][k]
    <3>1. ASSUME NEW m \in Lists \ {to, from}
          PROVE  /\ length'[m] = length[m] /\ head'[m] = head[m] /\ tail'[m] = tail[m]
                 /\ \A k \in 1 .. Len(ch[m]) :
                     /\ next'[ch[m][k]] = next[ch[m][k]] /\ el'[ch[m][k]] = el[ch[m][k]]
                     /\ \A j \in 1 .. Len(t) : t[j] # ch[m][k]
      <4>1. m \in Lists /\ m \in Lists \ {from} /\ m # to /\ m # from
        BY <3>1
      <4>2. length'[m] = length[m] /\ head'[m] = head[m] /\ tail'[m] = tail[m]
        BY <1>1, <1>8
      <4>3. \A k \in 1 .. Len(ch[m]) : next'[ch[m][k]] = next[ch[m][k]]
        BY <1>6, <4>1
      <4>4. \A k \in 1 .. Len(ch[m]) :
              el'[ch[m][k]] = el[ch[m][k]] /\ \A j \in 1 .. Len(t) : t[j] # ch[m][k]
        BY <1>7, <4>1
      <4>. QED
        BY <4>2, <4>3, <4>4
    <3>2. length'[from] = 0 /\ head'[from] = Null /\ tail'[from] = Null
      BY <1>1, <1>8
    <3>. QED
      BY <3>1, <3>2
  <2>2. /\ length'[to] = length[to] + Len(t)
        /\ head'[to] = IF i = 0 THEN t[1] ELSE head[to]
        /\ tail'[to] = IF i = Len(ch[to]) THEN t[Len(t)] ELSE tail[to]
        /\ i > 0 => next'[ch[to][i]] = t[1]
        /\ next'[t[Len(t)]] = IF i = Len(ch[to]) THEN Null ELSE ch[to][i + 1]
    BY <1>1, <1>3, <1>8
  <2>3. \A k \in 1 .. Len(ch[to]) :
          /\ k # i => next'[ch[to][k]] = next[ch[to][k]]
          /\ el'[ch[to][k]] = el[ch[to][k]]
          /\ \A j \in 1 .. Len(t) : t[j] # ch[to][k]
    BY <1>6, <1>7
  <2>4. \A k \in 1 .. Len(t) - 1 : next'[t[k]] = t[k + 1]
    <3>. SUFFICES ASSUME NEW k \in 1 .. Len(t) - 1 PROVE next'[t[k]] = t[k + 1]
      OBVIOUS
    <3>1. k \in 1 .. Len(ch[from]) /\ k # Len(t)
      BY <1>2, <1>3
    <3>2. next'[t[k]] = next[t[k]]
      BY <1>2, <1>6, <3>1
    <3>3. next[t[k]] = t[k + 1]
      BY <1>2 DEF Chained
    <3>. QED
      BY <3>2, <3>3
  <2>5. /\ \A k \in 1 .. Len(t) : el'[t[k]] \in Elements
        /\ \A j, k \in 1 .. Len(t) : t[j] = t[k] => j = k
    BY <1>1, <1>2, <1>5 DEF Chained
  <2>. QED
    BY <2>1, <2>2, <2>3, <2>4, <2>5 DEF Insertion
<1>10. [k \in 1 .. Len(t) |-> el'[t[k]]] = Contents[from]
  <2>1. Contents[from] = [k \in 1 .. Len(t) |-> el[t[k]]]
    BY <1>2, ContentsOfChain
  <2>. QED
    BY <1>1, <2>1
<1>11. /\ IInv'
       /\ Contents' = [m \in Lists |->
              IF m = to THEN Spliced(Contents[to], i, [k \in 1 .. Len(t) |-> el'[t[k]]])
              ELSE IF m \in {from} THEN <<>> ELSE Contents[m]]
  BY <1>4, <1>9, InsertionStep
<1>12. PICK s : s = Spliced(Contents[to], i, Contents[from])
  OBVIOUS
<1>13. Contents' = [m \in Lists |-> IF m = to THEN s ELSE IF m = from THEN <<>> ELSE Contents[m]]
  <2>1. Contents' = [m \in Lists |-> IF m = to THEN s ELSE IF m \in {from} THEN <<>> ELSE Contents[m]]
    BY <1>10, <1>11, <1>12
  <2>. QED
    BY <2>1
<1>14. [Contents EXCEPT ![to] = s, ![from] = <<>>]
         = [m \in Lists |-> IF m = to THEN s ELSE IF m = from THEN <<>> ELSE Contents[m]]
  BY DEF Contents
<1>15. [Contents EXCEPT ![to] = Spliced(@, i, Contents[from]), ![from] = <<>>]
         = [Contents EXCEPT ![to] = s, ![from] = <<>>]
  BY <1>12
<1>. QED
  BY <1>11, <1>13, <1>14, <1>15

(* The first node taken out.                                               *)
LEMMA ShiftStep ==
  ASSUME Types, Types', NEW ch \in Chains, Chained(ch), NEW l \in Lists, Shift(l)
  PROVE  /\ Contents[l] # <<>>
         /\ IInv' /\ Contents' = [Contents EXCEPT ![l] = Tail(@)]
<1>1. PICK c : c = ch[l]
  OBVIOUS
<1>2. PICK r : r = Tail(c)
  OBVIOUS
<1>3. /\ c \in Seq(Nodes) /\ c # <<>> /\ Len(c) \in Nat \ {0}
      /\ length[l] = Len(c) /\ head[l] = c[1] /\ tail[l] = c[Len(c)] /\ next[c[Len(c)]] = Null
      /\ \A j \in 1 .. Len(c) : c[j] \in Nodes /\ c[j] # Null
  BY <1>1, Ends, ChainFacts DEF Shift
<1>4. /\ r \in Seq(Nodes) /\ Len(r) = Len(c) - 1 /\ Len(r) \in Nat
      /\ \A j \in 1 .. Len(r) : r[j] = c[j + 1]
  BY <1>2, <1>3, HeadTailProperties
<1>5. PICK nc : nc = [ch EXCEPT ![l] = r]
  OBVIOUS
<1>6. nc \in Chains /\ nc[l] = r /\ \A m \in Lists \ {l} : nc[m] = ch[m]
  BY <1>4, <1>5 DEF Chains
<1>7. /\ next' = next /\ el' = el /\ length'[l] = Len(c) - 1
      /\ head'[l] = next[c[1]]
      /\ tail'[l] = IF next[c[1]] = Null THEN Null ELSE tail[l]
      /\ \A m \in Lists \ {l} :
           length'[m] = length[m] /\ head'[m] = head[m] /\ tail'[m] = tail[m]
  <2>1. /\ next' = next /\ el' = el
        /\ head' = [head EXCEPT ![l] = next[head[l]]]
        /\ tail' = IF next[head[l]] = Null THEN [tail EXCEPT ![l] = Null] ELSE tail
        /\ length' = [length EXCEPT ![l] = length[l] - 1]
    BY DEF Shift
  <2>2. length'[l] = length[l] - 1 /\ \A m \in Lists \ {l} : length'[m] = length[m]
    BY <2>1 DEF Types
  <2>3. head'[l] = next[head[l]] /\ \A m \in Lists \ {l} : head'[m] = head[m]
    BY <2>1 DEF Types
  <2>4. /\ tail'[l] = IF next[head[l]] = Null THEN Null ELSE tail[l]
        /\ \A m \in Lists \ {l} : tail'[m] = tail[m]
    <3>1. CASE next[head[l]] = Null
      BY <2>1, <3>1 DEF Types
    <3>2. CASE next[head[l]] # Null
      BY <2>1, <3>2
    <3>. QED
      BY <3>1, <3>2
  <2>5. head[l] = c[1] /\ length[l] = Len(c)
    BY <1>3
  <2>6. next' = next /\ el' = el
    BY <2>1
  <2>. QED
    BY <2>2, <2>3, <2>4, <2>5, <2>6
<1>8. \A j \in 1 .. Len(c) - 1 : next[c[j]] = c[j + 1]
  BY <1>1 DEF Chained
<1>9. ASSUME NEW j \in 1 .. Len(r)
      PROVE  j \in 1 .. Len(c) - 1 /\ j + 1 \in 1 .. Len(c) /\ j \in 1 .. Len(c)
  BY <1>3, <1>4
<1>10. /\ Len(r) = 0 => head'[l] = Null /\ tail'[l] = Null
       /\ Len(r) # 0 => head'[l] = r[1] /\ tail'[l] = r[Len(r)] /\ next'[r[Len(r)]] = Null
  <2>1. CASE Len(r) = 0
    <3>1. Len(c) = 1
      BY <1>3, <1>4, <2>1
    <3>. QED
      BY <1>3, <1>7, <2>1, <3>1
  <2>2. CASE Len(r) # 0
    <3>1. 1 \in 1 .. Len(r) /\ Len(r) \in 1 .. Len(r) /\ Len(r) + 1 = Len(c)
      BY <1>3, <1>4, <2>2
    <3>2. r[1] = c[1 + 1] /\ r[Len(r)] = c[Len(r) + 1] /\ 1 \in 1 .. Len(c) - 1
      BY <1>4, <1>9, <3>1
    <3>3. next[c[1]] = c[1 + 1] /\ c[1 + 1] # Null
      BY <1>3, <1>8, <1>9, <3>1
    <3>4. head'[l] = r[1]
      BY <1>7, <3>2, <3>3
    <3>5. tail'[l] = c[Len(c)]
      <4>1. next[c[1]] # Null
        BY <3>3
      <4>2. tail'[l] = tail[l]
        BY <1>7, <4>1
      <4>. QED
        BY <1>3, <4>2
    <3>6. r[Len(r)] = c[Len(c)]
      BY <3>1, <3>2
    <3>. QED
      BY <1>3, <1>7, <2>2, <3>4, <3>5, <3>6
  <2>. QED
    BY <2>1, <2>2
<1>11. \A j \in 1 .. Len(r) - 1 : next'[r[j]] = r[j + 1]
  <2>. SUFFICES ASSUME NEW j \in 1 .. Len(r) - 1 PROVE next'[r[j]] = r[j + 1]
    OBVIOUS
  <2>1. j \in 1 .. Len(r) /\ j + 1 \in 1 .. Len(r) /\ j + 1 \in 1 .. Len(c) - 1
    BY <1>3, <1>4
  <2>2. r[j] = c[j + 1] /\ r[j + 1] = c[j + 1 + 1]
    BY <1>4, <2>1
  <2>3. next[c[j + 1]] = c[j + 1 + 1]
    BY <1>8, <2>1
  <2>. QED
    BY <1>7, <2>2, <2>3
<1>12. \A j \in 1 .. Len(r) : el'[r[j]] \in Elements
  <2>1. \A j \in 1 .. Len(c) : el[c[j]] \in Elements
    BY <1>1 DEF Chained
  <2>. QED
    BY <1>4, <1>7, <1>9, <2>1
<1>13. r = <<>> <=> Len(r) = 0
  BY <1>4, EmptySeq
<1>14. ASSUME NEW m \in Lists, NEW k \in 1 .. Len(nc[m])
       PROVE  \E x \in 1 .. Len(ch[m]) : nc[m][k] = ch[m][x] /\ x = IF m = l THEN k + 1 ELSE k
  <2>1. CASE m = l
    <3>1. k + 1 \in 1 .. Len(ch[m]) /\ nc[m][k] = ch[m][k + 1]
      BY <1>1, <1>4, <1>6, <1>9, <2>1
    <3>. QED
      BY <2>1, <3>1
  <2>2. CASE m # l
    BY <1>6, <2>2
  <2>. QED
    BY <2>1, <2>2
<1>15. Chained(nc)'
  <2>1. ASSUME NEW m \in Lists
        PROVE  /\ length'[m] = Len(nc[m])
               /\ nc[m] = <<>> => head'[m] = Null /\ tail'[m] = Null
               /\ nc[m] # <<>> => /\ head'[m] = nc[m][1]
                                  /\ tail'[m] = nc[m][Len(nc[m])]
                                  /\ next'[nc[m][Len(nc[m])]] = Null
               /\ \A j \in 1 .. Len(nc[m]) - 1 : next'[nc[m][j]] = nc[m][j + 1]
               /\ \A j \in 1 .. Len(nc[m]) : el'[nc[m][j]] \in Elements
    <3>1. CASE m = l
      <4>1. nc[m] = r /\ length'[m] = Len(r)
        BY <1>4, <1>6, <1>7, <3>1
      <4>2. /\ r = <<>> => head'[m] = Null /\ tail'[m] = Null
            /\ r # <<>> => head'[m] = r[1] /\ tail'[m] = r[Len(r)] /\ next'[r[Len(r)]] = Null
        BY <1>10, <1>13, <3>1
      <4>. DEFINE P(x) ==
              /\ length'[m] = Len(x)
              /\ x = <<>> => head'[m] = Null /\ tail'[m] = Null
              /\ x # <<>> => head'[m] = x[1] /\ tail'[m] = x[Len(x)] /\ next'[x[Len(x)]] = Null
              /\ \A j \in 1 .. Len(x) - 1 : next'[x[j]] = x[j + 1]
              /\ \A j \in 1 .. Len(x) : el'[x[j]] \in Elements
      <4>3. P(r)
        BY <1>11, <1>12, <4>1, <4>2
      <4>. QED
        BY <4>1, <4>3
    <3>2. CASE m # l
      <4>1. nc[m] = ch[m]
        BY <1>6, <3>2
      <4>2. length'[m] = length[m] /\ head'[m] = head[m] /\ tail'[m] = tail[m]
        BY <1>7, <3>2
      <4>. DEFINE P(x) ==
              /\ length[m] = Len(x)
              /\ x = <<>> => head[m] = Null /\ tail[m] = Null
              /\ x # <<>> => head[m] = x[1] /\ tail[m] = x[Len(x)] /\ next[x[Len(x)]] = Null
              /\ \A j \in 1 .. Len(x) - 1 : next[x[j]] = x[j + 1]
              /\ \A j \in 1 .. Len(x) : el[x[j]] \in Elements
      <4>3. P(ch[m])
        BY DEF Chained
      <4>4. P(nc[m])
        BY <4>1, <4>3, Zenon
      <4>5. next' = next /\ el' = el
        BY <1>7
      <4>. QED
        BY <4>2, <4>4, <4>5
    <3>. QED
      BY <3>1, <3>2
  <2>2. ASSUME NEW p \in Lists, NEW m \in Lists,
               NEW j \in 1 .. Len(nc[p]), NEW k \in 1 .. Len(nc[m]), nc[p][j] = nc[m][k]
        PROVE  p = m /\ j = k
    <3>1. PICK x \in 1 .. Len(ch[p]) : nc[p][j] = ch[p][x] /\ x = IF p = l THEN j + 1 ELSE j
      BY <1>14
    <3>2. PICK y \in 1 .. Len(ch[m]) : nc[m][k] = ch[m][y] /\ y = IF m = l THEN k + 1 ELSE k
      BY <1>14
    <3>3. ch[p][x] = ch[m][y]
      BY <2>2, <3>1, <3>2
    <3>4. p = m /\ x = y
      BY <3>3 DEF Chained
    <3>5. j \in Int /\ k \in Int
      <4>1. Len(nc[p]) \in Nat /\ Len(nc[m]) \in Nat
        BY <1>6, ChainFacts
      <4>. QED
        BY <4>1
    <3>. QED
      BY <3>1, <3>2, <3>4, <3>5
  <2>. QED
    BY <2>1, <2>2 DEF Chained
<1>16. IInv'
  BY <1>6, <1>15 DEF IInv
<1>17. ContentsChained /\ ContentsChained'
  BY ContentsFollow, PTL
<1>18. ASSUME NEW m \in Lists \ {l} PROVE Contents'[m] = Contents[m]
  <2>1. Contents'[m] = [j \in 1 .. Len(nc[m]) |-> el'[nc[m][j]]]
    BY <1>6, <1>15, <1>17 DEF ContentsChained
  <2>2. Contents[m] = [j \in 1 .. Len(ch[m]) |-> el[ch[m][j]]]
    BY <1>17 DEF ContentsChained
  <2>. QED
    BY <1>6, <1>7, <2>1, <2>2
<1>19. /\ Contents'[l] \in Seq(Elements) /\ Len(Contents'[l]) = Len(r)
       /\ \A j \in 1 .. Len(r) : Contents'[l][j] = el[r[j]]
  <2>1. /\ Contents'[l] = [j \in 1 .. Len(nc[l]) |-> el'[nc[l][j]]]
        /\ Contents'[l] \in Seq(Elements) /\ Len(Contents'[l]) = Len(nc[l])
    BY <1>6, <1>15, <1>17 DEF ContentsChained
  <2>2. Contents'[l] = [j \in 1 .. Len(r) |-> el[r[j]]]
    BY <1>6, <1>7, <2>1
  <2>. QED
    BY <1>6, <2>1, <2>2
<1>20. /\ Contents[l] \in Seq(Elements) /\ Len(Contents[l]) = Len(c) /\ Contents[l] # <<>>
       /\ \A j \in 1 .. Len(c) : Contents[l][j] = el[c[j]]
  <2>1. /\ Contents[l] = [j \in 1 .. Len(c) |-> el[c[j]]]
        /\ Contents[l] \in Seq(Elements) /\ Len(Contents[l]) = Len(c)
    BY <1>1, <1>17 DEF ContentsChained
  <2>2. Contents[l] # <<>>
    BY <1>3, <2>1, EmptySeq
  <2>. QED
    BY <2>1, <2>2
<1>21. Contents'[l] = Tail(Contents[l])
  <2>1. PICK a : a = Tail(Contents[l])
    OBVIOUS
  <2>2. /\ a \in Seq(Elements) /\ Len(a) = Len(c) - 1
        /\ \A j \in 1 .. Len(a) : a[j] = Contents[l][j + 1]
    BY <1>20, <2>1, HeadTailProperties
  <2>3. \A j \in 1 .. Len(r) : Contents'[l][j] = a[j]
    <3>. SUFFICES ASSUME NEW j \in 1 .. Len(r) PROVE Contents'[l][j] = a[j]
      OBVIOUS
    <3>1. j \in 1 .. Len(a) /\ j + 1 \in 1 .. Len(c)
      BY <1>4, <1>9, <2>2
    <3>2. a[j] = Contents[l][j + 1] /\ Contents[l][j + 1] = el[c[j + 1]]
      BY <1>20, <2>2, <3>1
    <3>3. Contents'[l][j] = el[r[j]] /\ r[j] = c[j + 1]
      BY <1>4, <1>19
    <3>. QED
      BY <3>2, <3>3
  <2>4. PICK b : b = Contents'[l]
    OBVIOUS
  <2>5. b \in Seq(Elements) /\ Len(b) = Len(a) /\ \A j \in 1 .. Len(b) : b[j] = a[j]
    BY <1>4, <1>19, <2>2, <2>3, <2>4
  <2>6. b = a
    BY <2>2, <2>5, SeqEqual
  <2>. QED
    BY <2>1, <2>4, <2>6
<1>22. Contents' = [Contents EXCEPT ![l] = Tail(@)]
  <2>1. Contents' = [m \in Lists |-> Contents'[m]] /\ Contents = [m \in Lists |-> Contents[m]]
    BY DEF Contents
  <2>2. Contents' = [m \in Lists |-> IF m = l THEN Tail(Contents[l]) ELSE Contents[m]]
    BY <1>18, <1>21, <2>1
  <2>. QED
    BY <2>1, <2>2
<1>. QED
  BY <1>16, <1>20, <1>22

-----------------------------------------------------------------------------
(* Putting in at an end.                                                   *)
LEMMA SplicedAtEnds ==
  ASSUME NEW S, NEW s \in Seq(S), NEW e \in S
  PROVE  Spliced(s, Len(s), <<e>>) = Append(s, e) /\ Spliced(s, 0, <<e>>) = <<e>> \o s
<1>1. Len(s) \in Nat /\ <<e>> \in Seq(S) /\ <<>> \in Seq(S)
  BY LenProperties, EmptySeq
<1>2. SubSeq(s, 1, Len(s)) = s
  BY SubSeqFull
<1>3. SubSeq(s, Len(s) + 1, Len(s)) = <<>> /\ SubSeq(s, 1, 0) = <<>>
  <2>1. /\ Len(s) + 1 \in Int /\ Len(s) \in Int /\ 1 \in Int /\ 0 \in Int
        /\ Len(s) + 1 > Len(s) /\ 1 > 0
    BY <1>1
  <2>. QED
    BY <2>1, SubSeqEmpty
<1>4. s \o <<e>> \in Seq(S)
  BY <1>1, ConcatProperties
<1>5. (s \o <<e>>) \o <<>> = s \o <<e>>
  BY <1>4, ConcatEmptySeq
<1>6. s \o <<e>> = Append(s, e)
  BY AppendIsConcat
<1>7. <<>> \o <<e>> = <<e>>
  BY <1>1, ConcatEmptySeq
<1>8. Spliced(s, 0, <<e>>) = <<e>> \o s
  <2>1. 0 + 1 = 1
    OBVIOUS
  <2>. QED
    BY <1>2, <1>3, <1>7, <2>1, Zenon DEF Spliced
<1>9. Spliced(s, Len(s), <<e>>) = Append(s, e)
  BY <1>2, <1>3, <1>5, <1>6, Zenon DEF Spliced
<1>. QED
  BY <1>8, <1>9

(* The nodes to insert something after, the last one excepted.             *)
LEMMA InsertableNodes ==
  ASSUME Types, NEW ch \in Chains, Chained(ch),
         NEW l \in Lists, NEW after \in Insertable(l), next[after] # Null
  PROVE  /\ after \in Nodes /\ Len(ch[l]) \in Nat
         /\ \E i \in 1 .. Len(ch[l]) - 1 : after = ch[l][i] /\ next[after] = ch[l][i + 1]
<1>1. after \in {ch[l][k] : k \in 1 .. Len(ch[l])} /\ next[after] # Null
  BY FromHead DEF Insertable
<1>2. PICK k \in 1 .. Len(ch[l]) : after = ch[l][k]
  BY <1>1
<1>3. /\ Len(ch[l]) \in Nat /\ after \in Nodes
      /\ ch[l] = <<>> <=> Len(ch[l]) = 0
      /\ ch[l] # <<>> => next[ch[l][Len(ch[l])]] = Null
      /\ \A j \in 1 .. Len(ch[l]) - 1 : next[ch[l][j]] = ch[l][j + 1]
  BY <1>2, ChainFacts DEF Chained
<1>4. k # Len(ch[l])
  <2>. SUFFICES ASSUME k = Len(ch[l]) PROVE FALSE
    OBVIOUS
  <2>1. Len(ch[l]) # 0
    BY <1>3
  <2>2. next[ch[l][Len(ch[l])]] = Null
    BY <1>3, <2>1
  <2>. QED
    BY <1>1, <1>2, <2>2
<1>5. k \in 1 .. Len(ch[l]) - 1
  BY <1>3, <1>4
<1>. QED
  BY <1>2, <1>3, <1>5

(* A step leaves the state well typed.                                     *)
LEMMA TypesKept ==
  ASSUME Types, NEW ch \in Chains, Chained(ch), ListNext
  PROVE  Types'
<1>1. Free # {} => NewNode \in Nodes
  BY NewNodeIsFree
<1>2. \A l \in Lists : head[l] # Null => length[l] - 1 \in Nat /\ head[l] \in Nodes
  BY Ends
<1>3. \A l \in Lists : tail[l] # Null => tail[l] \in Nodes
  BY Ends
<1>4. \A l \in Lists : \A after \in Insertable(l) : after \in Nodes
  <2>. SUFFICES ASSUME NEW l \in Lists, NEW after \in Insertable(l) PROVE after \in Nodes
    OBVIOUS
  <2>1. after \in {ch[l][k] : k \in 1 .. Len(ch[l])}
    BY FromHead DEF Insertable
  <2>. QED
    BY <2>1, ChainFacts
<1>5. ASSUME NEW l \in Lists, Shift(l) PROVE Types'
  BY <1>2, <1>5 DEF Types, Shift
<1>6. ASSUME NEW l \in Lists, NEW e \in Elements, Push(l, e) PROVE Types'
  <2>1. /\ el' = [el EXCEPT ![NewNode] = e] /\ NewNode \in Nodes
        /\ tail' = [tail EXCEPT ![l] = NewNode] /\ length' = [length EXCEPT ![l] = @ + 1]
    BY <1>1, <1>6 DEF Push
  <2>2. head' \in [Lists -> Nodes \union {Null}] /\ next' \in [Nodes -> Nodes \union {Null}]
    <3>1. CASE tail[l] = Null
      <4>1. head' = [head EXCEPT ![l] = NewNode] /\ next' = [next EXCEPT ![NewNode] = Null]
        BY <1>6, <3>1 DEF Push
      <4>. QED
        BY <2>1, <4>1 DEF Types
    <3>2. CASE tail[l] # Null
      <4>1. head' = head /\ next' = [next EXCEPT ![NewNode] = Null, ![tail[l]] = NewNode]
        BY <1>6, <3>2 DEF Push
      <4>. QED
        BY <2>1, <4>1 DEF Types
    <3>. QED
      BY <3>1, <3>2
  <2>3. length' \in [Lists -> Nat]
    BY <2>1 DEF Types
  <2>4. el' \in [Nodes -> Elements \union {Null}]
    BY <2>1 DEF Types
  <2>5. tail' \in [Lists -> Nodes \union {Null}]
    BY <2>1 DEF Types
  <2>. QED
    BY <2>2, <2>3, <2>4, <2>5 DEF Types
<1>7. ASSUME NEW l \in Lists, NEW e \in Elements, Unshift(l, e) PROVE Types'
  <2>1. /\ el' = [el EXCEPT ![NewNode] = e] /\ NewNode \in Nodes
        /\ head' = [head EXCEPT ![l] = NewNode] /\ length' = [length EXCEPT ![l] = @ + 1]
        /\ next' = [next EXCEPT ![NewNode] = head[l]]
    BY <1>1, <1>7 DEF Unshift
  <2>2. tail' \in [Lists -> Nodes \union {Null}]
    <3>1. CASE head[l] = Null
      <4>1. tail' = [tail EXCEPT ![l] = NewNode]
        BY <1>7, <3>1 DEF Unshift
      <4>. QED
        BY <2>1, <4>1 DEF Types
    <3>2. CASE head[l] # Null
      <4>1. tail' = tail
        BY <1>7, <3>2 DEF Unshift
      <4>. QED
        BY <4>1 DEF Types
    <3>. QED
      BY <3>1, <3>2
  <2>3. length' \in [Lists -> Nat]
    BY <2>1 DEF Types
  <2>4. el' \in [Nodes -> Elements \union {Null}]
    BY <2>1 DEF Types
  <2>5. head' \in [Lists -> Nodes \union {Null}] /\ next' \in [Nodes -> Nodes \union {Null}]
    BY <2>1 DEF Types
  <2>. QED
    BY <2>2, <2>3, <2>4, <2>5 DEF Types
<1>8. ASSUME NEW l \in Lists, NEW e \in Elements, NEW after \in Insertable(l),
             InsertAfter(l, after, e)
      PROVE  Types'
  BY <1>1, <1>4, <1>8 DEF InsertAfter, Types
<1>9. ASSUME NEW to \in Lists, NEW from \in Lists \ {to}, Graft(to, from) PROVE Types'
  BY <1>9 DEF Graft, Types
<1>10. ASSUME NEW to \in Lists, NEW from \in Lists \ {to},
              PushList(to, from) \/ UnshiftList(to, from)
                \/ \E after \in Insertable(to) : InsertAfterList(to, after, from)
       PROVE  Types'
  <2>1. length' = [length EXCEPT ![to] = @ + length[from], ![from] = 0] /\ el' = el
    BY <1>10 DEF PushList, UnshiftList, InsertAfterList, Drain
  <2>2. head' \in [Lists -> Nodes \union {Null}] /\ tail' \in [Lists -> Nodes \union {Null}]
    <3>1. CASE PushList(to, from)
      BY <3>1 DEF PushList, Types
    <3>2. CASE UnshiftList(to, from)
      BY <3>2 DEF UnshiftList, Types
    <3>3. ASSUME NEW after \in Insertable(to), InsertAfterList(to, after, from)
          PROVE  /\ head' \in [Lists -> Nodes \union {Null}]
                 /\ tail' \in [Lists -> Nodes \union {Null}]
      BY <3>3 DEF InsertAfterList, Types
    <3>. QED
      BY <1>10, <3>1, <3>2, <3>3
  <2>3. next' \in [Nodes -> Nodes \union {Null}]
    <3>1. CASE PushList(to, from)
      <4>1. next' = [next EXCEPT ![tail[to]] = head[from]]
        BY <3>1 DEF PushList
      <4>. QED
        BY <4>1 DEF Types
    <3>2. CASE UnshiftList(to, from)
      <4>1. next' = [next EXCEPT ![tail[from]] = head[to]]
        BY <3>2 DEF UnshiftList
      <4>. QED
        BY <4>1 DEF Types
    <3>3. ASSUME NEW after \in Insertable(to), InsertAfterList(to, after, from)
          PROVE  next' \in [Nodes -> Nodes \union {Null}]
      <4>1. next' = [next EXCEPT ![after] = head[from], ![tail[from]] = next[after]]
            /\ after \in Nodes
        BY <1>4, <3>3 DEF InsertAfterList
      <4>. QED
        BY <4>1 DEF Types
    <3>. QED
      BY <1>10, <3>1, <3>2, <3>3
  <2>4. length' \in [Lists -> Nat]
    BY <2>1 DEF Types
  <2>. QED
    BY <2>1, <2>2, <2>3, <2>4 DEF Types
<1>. QED
  BY <1>5, <1>6, <1>7, <1>8, <1>9, <1>10 DEF ListNext

(* The operations that put in one element.                                 *)
LEMMA PushStep ==
  ASSUME Types, Types', NEW ch \in Chains, Chained(ch),
         NEW l \in Lists, NEW e \in Elements, Push(l, e)
  PROVE  IInv' /\ Contents' = [Contents EXCEPT ![l] = Append(@, e)]
<1>1. PICK i : i = Len(ch[l])
  OBVIOUS
<1>2. PICK n : n = NewNode
  OBVIOUS
<1>3. Free # {} /\ n \in Nodes /\ n # Null /\ \A k \in 1 .. i : ch[l][k] # n
  BY <1>1, <1>2, NewNodeIsFree DEF Push
<1>4. /\ i \in Nat /\ i \in 0 .. Len(ch[l]) /\ length[l] = i
      /\ head[l] = Null <=> i = 0
      /\ tail[l] = Null <=> i = 0
      /\ i > 0 => tail[l] = ch[l][i] /\ tail[l] \in Nodes /\ tail[l] # n
  <2>1. /\ i \in Nat /\ length[l] = i
        /\ head[l] = Null <=> i = 0
        /\ tail[l] = Null <=> i = 0
        /\ i # 0 => i \in 1 .. i /\ tail[l] = ch[l][i] /\ tail[l] \in Nodes
    BY <1>1, Ends
  <2>. QED
    BY <1>1, <1>3, <2>1
<1>5. /\ el' = [el EXCEPT ![n] = e] /\ length' = [length EXCEPT ![l] = @ + 1]
      /\ tail' = [tail EXCEPT ![l] = n]
  BY <1>2 DEF Push
<1>6. /\ head'[l] = IF i = 0 THEN n ELSE head[l]
      /\ \A m \in Lists \ {l} : head'[m] = head[m]
      /\ i > 0 => next'[ch[l][i]] = n
      /\ next'[n] = Null
      /\ \A x \in Nodes : x # n /\ (i > 0 => x # ch[l][i]) => next'[x] = next[x]
  <2>1. CASE i = 0
    <3>1. head' = [head EXCEPT ![l] = n] /\ next' = [next EXCEPT ![n] = Null]
      BY <1>2, <1>4, <2>1 DEF Push
    <3>. QED
      BY <1>3, <2>1, <3>1 DEF Types
  <2>2. CASE i > 0
    <3>1. head' = head /\ next' = [next EXCEPT ![n] = Null, ![tail[l]] = n]
      BY <1>2, <1>4, <2>2 DEF Push
    <3>. QED
      BY <1>3, <1>4, <2>2, <3>1 DEF Types
  <2>. QED
    BY <1>4, <2>1, <2>2
<1>7. /\ el'[n] = e /\ \A x \in Nodes \ {n} : el'[x] = el[x]
      /\ length'[l] = length[l] + 1 /\ tail'[l] = n
      /\ \A m \in Lists \ {l} :
           length'[m] = length[m] /\ head'[m] = head[m] /\ tail'[m] = tail[m]
  BY <1>3, <1>5, <1>6 DEF Types
<1>8. IInv' /\ Contents' = [Contents EXCEPT ![l] = Spliced(@, i, <<e>>)]
  <2>1. /\ tail'[l] = IF i = Len(ch[l]) THEN n ELSE tail[l]
        /\ next'[n] = IF i = Len(ch[l]) THEN Null ELSE ch[l][i + 1]
    BY <1>1, <1>6, <1>7
  <2>2. OneNodeIn(ch, l, i, e)
    BY <1>2, <1>3, <1>6, <1>7, <2>1 DEF OneNodeIn
  <2>. QED
    BY <1>4, <2>2, OneNode
<1>9. Spliced(Contents[l], i, <<e>>) = Append(Contents[l], e)
  <2>1. Contents[l] \in Seq(Elements) /\ Len(Contents[l]) = i
    BY <1>1, ContentsOfChain
  <2>2. Spliced(Contents[l], Len(Contents[l]), <<e>>) = Append(Contents[l], e)
    BY <2>1, SplicedAtEnds
  <2>. QED
    BY <2>1, <2>2
<1>. QED
  BY <1>8, <1>9

(* At the other end.                                                       *)
LEMMA UnshiftStep ==
  ASSUME Types, Types', NEW ch \in Chains, Chained(ch),
         NEW l \in Lists, NEW e \in Elements, Unshift(l, e)
  PROVE  IInv' /\ Contents' = [Contents EXCEPT ![l] = <<e>> \o @]
<1>1. PICK n : n = NewNode
  OBVIOUS
<1>2. Free # {} /\ n \in Nodes
  BY <1>1, NewNodeIsFree DEF Unshift
<1>3. /\ Len(ch[l]) \in Nat /\ 0 \in 0 .. Len(ch[l])
      /\ head[l] = Null <=> Len(ch[l]) = 0
      /\ Len(ch[l]) # 0 => head[l] = ch[l][1]
  BY Ends
<1>4. /\ el' = [el EXCEPT ![n] = e] /\ length' = [length EXCEPT ![l] = @ + 1]
      /\ head' = [head EXCEPT ![l] = n] /\ next' = [next EXCEPT ![n] = head[l]]
  BY <1>1 DEF Unshift
<1>5. /\ tail'[l] = IF 0 = Len(ch[l]) THEN n ELSE tail[l]
      /\ \A m \in Lists \ {l} : tail'[m] = tail[m]
  <2>1. CASE head[l] = Null
    <3>1. tail' = [tail EXCEPT ![l] = n]
      BY <1>1, <2>1 DEF Unshift
    <3>. QED
      BY <1>3, <2>1, <3>1 DEF Types
  <2>2. CASE head[l] # Null
    <3>1. tail' = tail
      BY <2>2 DEF Unshift
    <3>. QED
      BY <1>3, <2>2, <3>1
  <2>. QED
    BY <2>1, <2>2
<1>6. /\ el'[n] = e /\ \A x \in Nodes \ {n} : el'[x] = el[x]
      /\ length'[l] = length[l] + 1 /\ head'[l] = n
      /\ \A m \in Lists \ {l} :
           length'[m] = length[m] /\ head'[m] = head[m] /\ tail'[m] = tail[m]
  BY <1>2, <1>4, <1>5 DEF Types
<1>7. /\ next'[n] = IF 0 = Len(ch[l]) THEN Null ELSE ch[l][0 + 1]
      /\ \A x \in Nodes : x # n => next'[x] = next[x]
  <2>1. next'[n] = head[l]
    BY <1>2, <1>4 DEF Types
  <2>2. \A x \in Nodes : x # n => next'[x] = next[x]
    BY <1>4 DEF Types
  <2>. QED
    BY <1>3, <2>1, <2>2
<1>8. IInv' /\ Contents' = [Contents EXCEPT ![l] = Spliced(@, 0, <<e>>)]
  <2>1. OneNodeIn(ch, l, 0, e)
    BY <1>1, <1>2, <1>5, <1>6, <1>7 DEF OneNodeIn
  <2>. QED
    BY <1>3, <2>1, OneNode
<1>9. Spliced(Contents[l], 0, <<e>>) = <<e>> \o Contents[l]
  <2>1. Contents[l] \in Seq(Elements)
    BY ContentsOfChain
  <2>. QED
    BY <2>1, SplicedAtEnds
<1>. QED
  BY <1>8, <1>9

(* In between.                                                             *)
LEMMA InsertAfterStep ==
  ASSUME Types, Types', NEW ch \in Chains, Chained(ch),
         NEW l \in Lists, NEW e \in Elements, NEW after \in Insertable(l),
         next[after] # Null, InsertAfter(l, after, e)
  PROVE  IInv' /\ \E i \in 1 .. Len(Contents[l]) :
                    Contents' = [Contents EXCEPT ![l] = Spliced(@, i, <<e>>)]
<1>1. PICK n : n = NewNode
  OBVIOUS
<1>2. /\ Free # {} /\ n \in Nodes
      /\ \A m \in Lists : \A k \in 1 .. Len(ch[m]) : ch[m][k] # n
  BY <1>1, NewNodeIsFree DEF InsertAfter
<1>3. /\ after \in Nodes /\ Len(ch[l]) \in Nat
      /\ \E i \in 1 .. Len(ch[l]) - 1 : after = ch[l][i] /\ next[after] = ch[l][i + 1]
  BY InsertableNodes
<1>4. PICK i \in 1 .. Len(ch[l]) - 1 : after = ch[l][i] /\ next[after] = ch[l][i + 1]
  BY <1>3
<1>5. i \in 0 .. Len(ch[l]) /\ i \in 1 .. Len(ch[l]) /\ i > 0 /\ i # Len(ch[l])
  BY <1>3
<1>6. n # after
  BY <1>2, <1>4, <1>5
<1>7. /\ el' = [el EXCEPT ![n] = e] /\ length' = [length EXCEPT ![l] = @ + 1]
      /\ head' = head /\ tail' = tail
      /\ next' = [next EXCEPT ![n] = next[after], ![after] = n]
  BY <1>1 DEF InsertAfter
<1>8. /\ next'[after] = n /\ next'[n] = next[after]
      /\ \A x \in Nodes : x # n /\ x # after => next'[x] = next[x]
  BY <1>2, <1>3, <1>6, <1>7 DEF Types
<1>9. /\ el'[n] = e /\ \A x \in Nodes \ {n} : el'[x] = el[x]
      /\ length'[l] = length[l] + 1
      /\ \A m \in Lists \ {l} :
           length'[m] = length[m] /\ head'[m] = head[m] /\ tail'[m] = tail[m]
  BY <1>2, <1>7 DEF Types
<1>10. /\ head'[l] = IF i = 0 THEN n ELSE head[l]
       /\ tail'[l] = IF i = Len(ch[l]) THEN n ELSE tail[l]
       /\ next'[n] = IF i = Len(ch[l]) THEN Null ELSE ch[l][i + 1]
  BY <1>4, <1>5, <1>7, <1>8
<1>11. IInv' /\ Contents' = [Contents EXCEPT ![l] = Spliced(@, i, <<e>>)]
  <2>1. OneNodeIn(ch, l, i, e)
    BY <1>1, <1>2, <1>4, <1>8, <1>10, <1>9 DEF OneNodeIn
  <2>. QED
    BY <1>5, <2>1, OneNode
<1>12. Len(Contents[l]) = Len(ch[l])
  BY ContentsOfChain
<1>. QED
  BY <1>5, <1>11, <1>12

(* The operations that put in the nodes of another list.                   *)
LEMMA GraftStep ==
  ASSUME Types, Types', NEW ch \in Chains, Chained(ch),
         NEW to \in Lists, NEW from \in Lists \ {to}, Graft(to, from)
  PROVE  IInv' /\ Contents' = [Contents EXCEPT ![to] = Spliced(@, 0, Contents[from]),
                                               ![from] = <<>>]
<1>1. /\ Len(ch[to]) = 0 /\ length[to] = 0 /\ 0 \in 0 .. Len(ch[to])
      /\ Len(ch[from]) # 0 /\ next[tail[from]] = Null /\ length[from] \in Nat
  BY Ends DEF Graft
<1>2. /\ el' = el /\ next' = next
      /\ length' = [length EXCEPT ![to] = length[from], ![from] = 0]
      /\ head' = [head EXCEPT ![to] = head[from], ![from] = Null]
      /\ tail' = [tail EXCEPT ![to] = tail[from], ![from] = Null]
  BY DEF Graft
<1>3. length'[to] = length[to] + length[from] /\ length'[from] = 0
  BY <1>1, <1>2 DEF Types
<1>4. /\ \A m \in Lists \ {to, from} :
           length'[m] = length[m] /\ head'[m] = head[m] /\ tail'[m] = tail[m]
      /\ head'[from] = Null /\ tail'[from] = Null
      /\ head'[to] = head[from] /\ tail'[to] = tail[from]
  BY <1>2 DEF Types
<1>5. to # from /\ from \in Lists
  OBVIOUS
<1>6. el' = el /\ next'[tail[from]] = Null /\ \A x \in Nodes : next'[x] = next[x]
  BY <1>1, <1>2
<1>7. AllNodesIn(ch, to, 0, from)
  <2>1. 0 = Len(ch[to]) /\ ~(0 > 0)
    BY <1>1
  <2>. QED
    BY <1>3, <1>4, <1>6, <2>1 DEF AllNodesIn
<1>8. 0 \in 0 .. Len(ch[to]) /\ Len(ch[from]) # 0
  BY <1>1
<1>. QED
  BY <1>5, <1>7, <1>8, AllNodes

(* At the end of a list that has nodes.                                    *)
LEMMA PushListStep ==
  ASSUME Types, Types', NEW ch \in Chains, Chained(ch),
         NEW to \in Lists, NEW from \in Lists \ {to}, head[from] # Null,
         PushList(to, from)
  PROVE  IInv' /\ Contents' = [Contents EXCEPT ![to] = Spliced(@, Len(@), Contents[from]),
                                               ![from] = <<>>]
<1>1. PICK i : i = Len(ch[to])
  OBVIOUS
<1>2. /\ i \in Nat /\ i > 0 /\ i \in 0 .. Len(ch[to]) /\ i \in 1 .. Len(ch[to])
      /\ tail[to] = ch[to][i] /\ tail[to] \in Nodes
  BY <1>1, Ends DEF PushList
<1>3. /\ Len(ch[from]) # 0 /\ tail[from] \in Nodes /\ next[tail[from]] = Null
      /\ tail[from] = ch[from][Len(ch[from])] /\ Len(ch[from]) \in 1 .. Len(ch[from])
      /\ from \in Lists /\ to # from
  BY Ends DEF PushList
<1>4. tail[from] # tail[to]
  BY <1>2, <1>3 DEF Chained
<1>5. /\ el' = el /\ next' = [next EXCEPT ![tail[to]] = head[from]]
      /\ length' = [length EXCEPT ![to] = @ + length[from], ![from] = 0]
      /\ head' = [head EXCEPT ![from] = Null]
      /\ tail' = [tail EXCEPT ![to] = tail[from], ![from] = Null]
  BY DEF PushList, Drain
<1>6. /\ el' = el
      /\ length'[to] = length[to] + length[from] /\ length'[from] = 0
      /\ \A m \in Lists \ {to, from} :
           length'[m] = length[m] /\ head'[m] = head[m] /\ tail'[m] = tail[m]
      /\ head'[from] = Null /\ tail'[from] = Null
      /\ head'[to] = head[to] /\ tail'[to] = tail[from]
  BY <1>3, <1>5 DEF Types
<1>7. /\ next'[tail[to]] = head[from] /\ next'[tail[from]] = Null
      /\ \A x \in Nodes : x # tail[to] => next'[x] = next[x]
  BY <1>2, <1>3, <1>4, <1>5 DEF Types
<1>8. /\ head'[to] = IF i = 0 THEN head[from] ELSE head[to]
      /\ tail'[to] = IF i = Len(ch[to]) THEN tail[from] ELSE tail[to]
      /\ next'[ch[to][i]] = head[from]
      /\ next'[tail[from]] = IF i = Len(ch[to]) THEN Null ELSE ch[to][i + 1]
      /\ \A x \in Nodes : x # ch[to][i] => next'[x] = next[x]
  BY <1>1, <1>2, <1>6, <1>7
<1>9. IInv' /\ Contents' = [Contents EXCEPT ![to] = Spliced(@, i, Contents[from]),
                                            ![from] = <<>>]
  <2>1. AllNodesIn(ch, to, i, from)
    BY <1>2, <1>6, <1>8 DEF AllNodesIn
  <2>. QED
    BY <1>2, <1>3, <2>1, AllNodes
<1>10. i = Len(Contents[to])
  BY <1>1, ContentsOfChain
<1>. QED
  BY <1>9, <1>10

(* At its beginning.                                                       *)
LEMMA UnshiftListStep ==
  ASSUME Types, Types', NEW ch \in Chains, Chained(ch),
         NEW to \in Lists, NEW from \in Lists \ {to}, UnshiftList(to, from)
  PROVE  IInv' /\ Contents' = [Contents EXCEPT ![to] = Spliced(@, 0, Contents[from]),
                                               ![from] = <<>>]
<1>1. /\ Len(ch[to]) \in Nat /\ Len(ch[to]) # 0 /\ 0 \in 0 .. Len(ch[to])
      /\ head[to] = ch[to][1] /\ from \in Lists /\ to # from
      /\ Len(ch[from]) # 0 /\ tail[from] \in Nodes
  BY Ends DEF UnshiftList
<1>2. /\ el' = el /\ next' = [next EXCEPT ![tail[from]] = head[to]]
      /\ length' = [length EXCEPT ![to] = @ + length[from], ![from] = 0]
      /\ head' = [head EXCEPT ![to] = head[from], ![from] = Null]
      /\ tail' = [tail EXCEPT ![from] = Null]
  BY DEF UnshiftList, Drain
<1>3. /\ el' = el
      /\ length'[to] = length[to] + length[from] /\ length'[from] = 0
      /\ \A m \in Lists \ {to, from} :
           length'[m] = length[m] /\ head'[m] = head[m] /\ tail'[m] = tail[m]
      /\ head'[from] = Null /\ tail'[from] = Null
      /\ head'[to] = head[from] /\ tail'[to] = tail[to]
  BY <1>1, <1>2 DEF Types
<1>4. /\ next'[tail[from]] = head[to]
      /\ \A x \in Nodes : x # tail[from] => next'[x] = next[x]
  BY <1>1, <1>2 DEF Types
<1>5. /\ tail'[to] = IF 0 = Len(ch[to]) THEN tail[from] ELSE tail[to]
      /\ next'[tail[from]] = IF 0 = Len(ch[to]) THEN Null ELSE ch[to][0 + 1]
  BY <1>1, <1>3, <1>4
<1>6. AllNodesIn(ch, to, 0, from)
  BY <1>3, <1>4, <1>5 DEF AllNodesIn
<1>. QED
  BY <1>1, <1>6, AllNodes

(* In between.                                                             *)
LEMMA InsertAfterListStep ==
  ASSUME Types, Types', NEW ch \in Chains, Chained(ch),
         NEW to \in Lists, NEW from \in Lists \ {to}, NEW after \in Insertable(to),
         next[after] # Null, InsertAfterList(to, after, from)
  PROVE  IInv' /\ \E i \in 1 .. Len(Contents[to]) :
                    Contents' = [Contents EXCEPT ![to] = Spliced(@, i, Contents[from]),
                                                 ![from] = <<>>]
<1>1. /\ after \in Nodes /\ Len(ch[to]) \in Nat
      /\ \E i \in 1 .. Len(ch[to]) - 1 : after = ch[to][i] /\ next[after] = ch[to][i + 1]
  BY InsertableNodes
<1>2. PICK i \in 1 .. Len(ch[to]) - 1 : after = ch[to][i] /\ next[after] = ch[to][i + 1]
  BY <1>1
<1>3. i \in 0 .. Len(ch[to]) /\ i \in 1 .. Len(ch[to]) /\ i > 0 /\ i # Len(ch[to]) /\ i # 0
  BY <1>1
<1>4. /\ Len(ch[from]) # 0 /\ tail[from] \in Nodes /\ from \in Lists /\ to # from
      /\ tail[from] = ch[from][Len(ch[from])] /\ Len(ch[from]) \in 1 .. Len(ch[from])
  BY Ends DEF InsertAfterList
<1>5. tail[from] # after
  BY <1>2, <1>3, <1>4 DEF Chained
<1>6. /\ el' = el /\ next' = [next EXCEPT ![after] = head[from], ![tail[from]] = next[after]]
      /\ length' = [length EXCEPT ![to] = @ + length[from], ![from] = 0]
      /\ head' = [head EXCEPT ![from] = Null]
      /\ tail' = [tail EXCEPT ![from] = Null]
  BY DEF InsertAfterList, Drain
<1>7. /\ el' = el
      /\ length'[to] = length[to] + length[from] /\ length'[from] = 0
      /\ \A m \in Lists \ {to, from} :
           length'[m] = length[m] /\ head'[m] = head[m] /\ tail'[m] = tail[m]
      /\ head'[from] = Null /\ tail'[from] = Null
      /\ head'[to] = head[to] /\ tail'[to] = tail[to]
  BY <1>4, <1>6 DEF Types
<1>8. /\ next'[tail[from]] = next[after] /\ next'[after] = head[from]
      /\ \A x \in Nodes : x # tail[from] /\ x # after => next'[x] = next[x]
  BY <1>1, <1>4, <1>5, <1>6 DEF Types
<1>9. /\ head'[to] = IF i = 0 THEN head[from] ELSE head[to]
      /\ tail'[to] = IF i = Len(ch[to]) THEN tail[from] ELSE tail[to]
      /\ next'[tail[from]] = IF i = Len(ch[to]) THEN Null ELSE ch[to][i + 1]
      /\ next'[ch[to][i]] = head[from]
      /\ \A x \in Nodes : x # tail[from] /\ x # ch[to][i] => next'[x] = next[x]
  BY <1>2, <1>3, <1>7, <1>8
<1>10. IInv' /\ Contents' = [Contents EXCEPT ![to] = Spliced(@, i, Contents[from]),
                                             ![from] = <<>>]
  <2>1. AllNodesIn(ch, to, i, from)
    BY <1>3, <1>7, <1>9 DEF AllNodesIn
  <2>. QED
    BY <1>3, <1>4, <2>1, AllNodes
<1>11. Len(Contents[to]) = Len(ch[to])
  BY ContentsOfChain
<1>. QED
  BY <1>3, <1>10, <1>11

-----------------------------------------------------------------------------
(* The invariant holds at the start, with empty chains.                    *)
LEMMA InitChains ==
  ASSUME ListInit
  PROVE  IInv /\ Contents = [l \in Lists |-> <<>>]
<1>1. Types
  BY DEF ListInit, Types
<1>2. PICK ch : ch = [l \in Lists |-> <<>>]
  OBVIOUS
<1>3. ch \in Chains /\ \A l \in Lists : ch[l] = <<>> /\ Len(ch[l]) = 0
  BY <1>2, EmptySeq DEF Chains
<1>4. Chained(ch)
  BY <1>3 DEF Chained, ListInit
<1>5. \A l \in Lists : Contents[l] = <<>>
  <2>1. \A l \in Lists : Contents[l] \in Seq(Elements) /\ Len(Contents[l]) = 0
    BY <1>1, <1>3, <1>4, ContentsOfChain
  <2>. QED
    BY <2>1, EmptySeq
<1>. QED
  BY <1>1, <1>3, <1>4, <1>5 DEF IInv, Contents

(* Every step that leaves no wrong tail keeps the invariant, and is a step *)
(* of the sequences.                                                       *)
LEMMA StepChains ==
  ASSUME IInv, ~spoiled', ListNext
  PROVE  IInv' /\ \E l \in Lists :
           \/ Contents[l] # <<>> /\ Contents' = [Contents EXCEPT ![l] = Tail(@)]
           \/ \E e \in Elements :
               \/ Contents' = [Contents EXCEPT ![l] = Append(@, e)]
               \/ Contents' = [Contents EXCEPT ![l] = <<e>> \o @]
               \/ \E i \in 1 .. Len(Contents[l]) :
                    Contents' = [Contents EXCEPT ![l] = Spliced(@, i, <<e>>)]
           \/ \E from \in Lists \ {l}, i \in 0 .. Len(Contents[l]) :
                Contents' = [Contents EXCEPT ![l] = Spliced(@, i, Contents[from]),
                                             ![from] = <<>>]
<1>. DEFINE One(l, e) == \/ Contents' = [Contents EXCEPT ![l] = Append(@, e)]
                         \/ Contents' = [Contents EXCEPT ![l] = <<e>> \o @]
                         \/ \E i \in 1 .. Len(Contents[l]) :
                              Contents' = [Contents EXCEPT ![l] = Spliced(@, i, <<e>>)]
            All(l, from) == \E i \in 0 .. Len(Contents[l]) :
                Contents' = [Contents EXCEPT ![l] = Spliced(@, i, Contents[from]),
                                             ![from] = <<>>]
<1>1. Types
  BY DEF IInv
<1>2. PICK ch \in Chains : Chained(ch)
  BY DEF IInv
<1>3. Types'
  BY <1>1, <1>2, TypesKept
<1>4. \A l \in Lists : Len(Contents[l]) \in Nat
  BY <1>1, <1>2, ContentsOfChain, ChainFacts
<1>5. ASSUME NEW l \in Lists, Shift(l)
      PROVE  /\ IInv' /\ Contents[l] # <<>>
             /\ Contents' = [Contents EXCEPT ![l] = Tail(@)]
  BY <1>1, <1>2, <1>3, <1>5, ShiftStep
<1>6. ASSUME NEW l \in Lists, NEW e \in Elements,
             \/ Push(l, e) \/ Unshift(l, e)
             \/ \E after \in Insertable(l) : InsertAfter(l, after, e)
      PROVE  IInv' /\ One(l, e)
  <2>1. CASE Push(l, e)
    BY <1>1, <1>2, <1>3, <2>1, PushStep
  <2>2. CASE Unshift(l, e)
    BY <1>1, <1>2, <1>3, <2>2, UnshiftStep
  <2>3. ASSUME NEW after \in Insertable(l), InsertAfter(l, after, e)
        PROVE  IInv' /\ One(l, e)
    <3>1. next[after] # Null
      BY <2>3 DEF InsertAfter
    <3>. QED
      BY <1>1, <1>2, <1>3, <2>3, <3>1, InsertAfterStep
  <2>. QED
    BY <1>6, <2>1, <2>2, <2>3
<1>7. ASSUME NEW l \in Lists, NEW from \in Lists \ {l},
             \/ Graft(l, from) \/ PushList(l, from) \/ UnshiftList(l, from)
             \/ \E after \in Insertable(l) : InsertAfterList(l, after, from)
      PROVE  IInv' /\ All(l, from)
  <2>1. /\ Len(Contents[l]) \in 0 .. Len(Contents[l]) /\ 0 \in 0 .. Len(Contents[l])
        /\ \A i \in 1 .. Len(Contents[l]) : i \in 0 .. Len(Contents[l])
    BY <1>4
  <2>2. CASE Graft(l, from)
    <3>1. IInv' /\ Contents' = [Contents EXCEPT ![l] = Spliced(@, 0, Contents[from]),
                                                ![from] = <<>>]
      BY <1>1, <1>2, <1>3, <2>2, GraftStep
    <3>. QED
      BY <2>1, <3>1, Zenon
  <2>3. CASE PushList(l, from)
    <3>1. IInv' /\ Contents' = [Contents EXCEPT ![l] = Spliced(@, Len(@), Contents[from]),
                                                ![from] = <<>>]
      <4>1. head[from] # Null
        BY <2>3 DEF PushList
      <4>. QED
        BY <1>1, <1>2, <1>3, <2>3, <4>1, PushListStep
    <3>. QED
      BY <2>1, <3>1, Zenon
  <2>4. CASE UnshiftList(l, from)
    <3>1. IInv' /\ Contents' = [Contents EXCEPT ![l] = Spliced(@, 0, Contents[from]),
                                                ![from] = <<>>]
      BY <1>1, <1>2, <1>3, <2>4, UnshiftListStep
    <3>. QED
      BY <2>1, <3>1, Zenon
  <2>5. ASSUME NEW after \in Insertable(l), InsertAfterList(l, after, from)
        PROVE  IInv' /\ All(l, from)
    <3>1. IInv' /\ \E i \in 1 .. Len(Contents[l]) :
                     Contents' = [Contents EXCEPT ![l] = Spliced(@, i, Contents[from]),
                                                  ![from] = <<>>]
      <4>1. next[after] # Null
        BY <2>5 DEF InsertAfterList
      <4>. QED
        BY <1>1, <1>2, <1>3, <2>5, <4>1, InsertAfterListStep
    <3>. QED
      BY <2>1, <3>1, Zenon
  <2>. QED
    BY <1>7, <2>2, <2>3, <2>4, <2>5
<1>. HIDE DEF One, All
<1>8. /\ IInv'
      /\ \/ \E l \in Lists : Contents[l] # <<>> /\ Contents' = [Contents EXCEPT ![l] = Tail(@)]
         \/ \E l \in Lists, e \in Elements : One(l, e)
         \/ \E l \in Lists : \E from \in Lists \ {l} : All(l, from)
  BY <1>5, <1>6, <1>7, Zenon DEF ListNext
<1>. QED
  BY <1>8, Zenon DEF One, All

(* What the invariant says of the lists themselves.                        *)
LEMMA ChainsAreRight ==
  ASSUME IInv
  PROVE  ChainsRight
<1>1. Types
  BY DEF IInv
<1>2. PICK ch \in Chains : Chained(ch)
  BY DEF IInv
<1>3. ASSUME NEW l \in Lists
      PROVE  /\ Cardinality(From(head[l])) = length[l]
             /\ tail[l] = IF length[l] = 0 THEN Null ELSE Nth(head[l], length[l])
             /\ length[l] > 0 => tail[l] # Null /\ next[tail[l]] = Null
  <2>1. /\ Len(ch[l]) \in Nat /\ length[l] = Len(ch[l])
        /\ tail[l] = Null <=> Len(ch[l]) = 0
        /\ Len(ch[l]) # 0 => tail[l] = ch[l][Len(ch[l])] /\ next[tail[l]] = Null
    BY <1>1, <1>2, Ends
  <2>2. Cardinality(From(head[l])) = Len(ch[l])
    BY <1>1, <1>2, FromHead
  <2>3. Len(ch[l]) # 0 => Nth(head[l], Len(ch[l])) = ch[l][Len(ch[l])]
    <3>1. \A i \in Nat \ {0} : Nth(head[l], i) = IF i <= Len(ch[l]) THEN ch[l][i] ELSE Null
      BY <1>1, <1>2, NthOfChain
    <3>. QED
      BY <2>1, <3>1
  <2>. QED
    BY <2>1, <2>2, <2>3
<1>4. ASSUME NEW l \in Lists, NEW m \in Lists, l # m
      PROVE  From(head[l]) \cap From(head[m]) = {}
  <2>1. /\ From(head[l]) = {ch[l][k] : k \in 1 .. Len(ch[l])}
        /\ From(head[m]) = {ch[m][k] : k \in 1 .. Len(ch[m])}
    BY <1>1, <1>2, FromHead
  <2>2. \A j \in 1 .. Len(ch[l]), k \in 1 .. Len(ch[m]) : ch[l][j] # ch[m][k]
    BY <1>2, <1>4 DEF Chained
  <2>. QED
    BY <2>1, <2>2
<1>. QED
  BY <1>3, <1>4 DEF ChainsRight

-----------------------------------------------------------------------------
(* The calls that leave a wrong tail.                                      *)
WrongTail == \E l \in Lists : head[l] # Null /\ (tail[l] = Null \/ next[tail[l]] # Null)

(* That there was one is not forgotten.                                    *)
LEMMA SpoiledStays ==
  ASSUME [ListNext]_listVars
  PROVE  spoiled => spoiled'
BY DEF ListNext, listVars, Shift, Push, Unshift, Graft, PushList, UnshiftList, InsertAfter,
       InsertAfterList

LEMMA SpoiledType ==
  ASSUME spoiled \in BOOLEAN, [ListNext]_listVars
  PROVE  spoiled' \in BOOLEAN
BY DEF ListNext, listVars, Shift, Push, Unshift, Graft, PushList, UnshiftList, InsertAfter,
       InsertAfterList

(* Which calls these are.                                                  *)
LEMMA SpoilingCalls ==
  ASSUME ~spoiled, spoiled', [ListNext]_listVars
  PROVE  \E to \in Lists :
           \/ \E from \in Lists \ {to} : PushList(to, from) /\ head[from] = Null
           \/ \E after \in Insertable(to) :
                /\ next[after] = Null
                /\ \/ \E e \in Elements : InsertAfter(to, after, e)
                   \/ \E from \in Lists \ {to} : InsertAfterList(to, after, from)
BY DEF ListNext, listVars, Shift, Push, Unshift, Graft, PushList, UnshiftList, InsertAfter,
       InsertAfterList

(* A last node is the tail.                                                *)
LEMMA LastIsTail ==
  ASSUME Types, NEW ch \in Chains, Chained(ch),
         NEW l \in Lists, NEW after \in Insertable(l), next[after] = Null
  PROVE  after = tail[l] /\ after \in Nodes /\ Len(ch[l]) # 0
<1>1. PICK k \in 1 .. Len(ch[l]) : after = ch[l][k]
  <2>1. after \in {ch[l][j] : j \in 1 .. Len(ch[l])}
    BY FromHead DEF Insertable
  <2>. QED
    BY <2>1
<1>2. /\ Len(ch[l]) \in Nat /\ Len(ch[l]) # 0 /\ after \in Nodes
      /\ \A j \in 1 .. Len(ch[l]) : ch[l][j] # Null
  BY <1>1, ChainFacts
<1>3. \A j \in 1 .. Len(ch[l]) - 1 : next[ch[l][j]] = ch[l][j + 1]
  BY DEF Chained
<1>4. k = Len(ch[l])
  <2>. SUFFICES ASSUME k # Len(ch[l]) PROVE FALSE
    OBVIOUS
  <2>1. k \in 1 .. Len(ch[l]) - 1 /\ k + 1 \in 1 .. Len(ch[l])
    BY <1>2
  <2>2. next[after] = ch[l][k + 1] /\ ch[l][k + 1] # Null
    BY <1>1, <1>2, <1>3, <2>1
  <2>. QED
    BY <2>2
<1>. QED
  BY <1>1, <1>2, <1>4, Ends

(* Each of them names a list with nodes, and leaves it a wrong tail.       *)
LEMMA SpoilingStep ==
  ASSUME spoiled \/ IInv, [ListNext]_listVars, ~spoiled, spoiled'
  PROVE  WrongTail' /\ \E l \in Lists : Contents[l] # <<>>
<1>. PICK ch \in Chains : Chained(ch)
  BY DEF IInv
<1>1. Types
  BY DEF IInv
<1>2. \A l \in Lists : Len(ch[l]) # 0 => Contents[l] # <<>>
  <2>. SUFFICES ASSUME NEW l \in Lists, Len(ch[l]) # 0 PROVE Contents[l] # <<>>
    OBVIOUS
  <2>1. Contents[l] \in Seq(Elements) /\ Len(Contents[l]) = Len(ch[l])
    BY <1>1, ContentsOfChain
  <2>. QED
    BY <2>1, EmptySeq
<1>3. PICK to \in Lists :
        \/ \E from \in Lists \ {to} : PushList(to, from) /\ head[from] = Null
        \/ \E after \in Insertable(to) :
             /\ next[after] = Null
             /\ \/ \E e \in Elements : InsertAfter(to, after, e)
                \/ \E from \in Lists \ {to} : InsertAfterList(to, after, from)
  BY SpoilingCalls
<1>4. ASSUME NEW from \in Lists \ {to}, PushList(to, from), head[from] = Null
      PROVE  WrongTail' /\ Len(ch[to]) # 0
  <2>1. head[to] # Null /\ Len(ch[to]) # 0 /\ tail[from] = Null
    BY <1>1, <1>4, Ends DEF PushList
  <2>2. head' = [head EXCEPT ![from] = Null]
        /\ tail' = [tail EXCEPT ![to] = tail[from], ![from] = Null]
    BY <1>4 DEF PushList
  <2>3. head'[to] # Null /\ tail'[to] = Null
    BY <1>1, <2>1, <2>2 DEF Types
  <2>. QED
    BY <2>1, <2>3 DEF WrongTail
<1>5. ASSUME NEW after \in Insertable(to), next[after] = Null, NEW e \in Elements,
             InsertAfter(to, after, e)
      PROVE  WrongTail' /\ Len(ch[to]) # 0
  <2>1. after = tail[to] /\ after \in Nodes /\ Len(ch[to]) # 0 /\ head[to] # Null
    BY <1>1, <1>5, LastIsTail, Ends
  <2>2. NewNode # Null
    BY <1>1, <1>5, NewNodeIsFree DEF InsertAfter
  <2>3. head' = head /\ tail' = tail /\ next' = [next EXCEPT ![NewNode] = next[after], ![after] = NewNode]
    BY <1>5 DEF InsertAfter
  <2>4. next'[after] = NewNode
    BY <1>1, <2>1, <2>3 DEF Types
  <2>. QED
    BY <2>1, <2>2, <2>3, <2>4 DEF WrongTail
<1>6. ASSUME NEW after \in Insertable(to), next[after] = Null, NEW from \in Lists \ {to},
             InsertAfterList(to, after, from)
      PROVE  WrongTail' /\ Len(ch[to]) # 0
  <2>1. after = tail[to] /\ after \in Nodes /\ Len(ch[to]) # 0 /\ head[to] # Null
        /\ after = ch[to][Len(ch[to])] /\ Len(ch[to]) \in 1 .. Len(ch[to])
    BY <1>1, <1>6, LastIsTail, Ends
  <2>2. /\ head[from] # Null /\ Len(ch[from]) \in 1 .. Len(ch[from])
        /\ tail[from] = ch[from][Len(ch[from])]
    BY <1>1, <1>6, Ends DEF InsertAfterList
  <2>3. tail[from] # after
    BY <2>1, <2>2 DEF Chained
  <2>4. /\ head' = [head EXCEPT ![from] = Null] /\ tail' = [tail EXCEPT ![from] = Null]
        /\ next' = [next EXCEPT ![after] = head[from], ![tail[from]] = next[after]]
    BY <1>6 DEF InsertAfterList
  <2>5. next'[after] = head[from] /\ head'[to] = head[to] /\ tail'[to] = after
    BY <1>1, <2>1, <2>3, <2>4 DEF Types
  <2>. QED
    BY <2>1, <2>2, <2>5 DEF WrongTail
<1>. QED
  BY <1>2, <1>3, <1>4, <1>5, <1>6

(***************************************************************************)
(* The invariant, until a call leaves a wrong tail.                        *)
(***************************************************************************)
LEMMA ChainsStay == ListSpec => [](spoiled \/ IInv)
<1>1. ListInit => IInv
  BY InitChains
<1>2. (spoiled \/ IInv) /\ [ListNext]_listVars => (spoiled \/ IInv)'
  <2>0. spoiled /\ [ListNext]_listVars => spoiled'
    BY SpoiledStays
  <2>1. IInv /\ ListNext => (spoiled \/ IInv)'
    BY StepChains
  <2>2. IInv /\ UNCHANGED listVars => IInv'
    <3>. SUFFICES ASSUME IInv, UNCHANGED listVars PROVE IInv'
      OBVIOUS
    <3>1. Types /\ Types'
      BY DEF IInv, Types, listVars
    <3>2. PICK ch \in Chains : Chained(ch)
      BY DEF IInv
    <3>3. Chained(ch)'
      BY <3>2 DEF Chained, listVars
    <3>. QED
      BY <3>1, <3>2, <3>3 DEF IInv
  <2>. QED
    BY <2>0, <2>1, <2>2
<1>. QED
  BY <1>1, <1>2, PTL DEF ListSpec

(***************************************************************************)
(* Whatever the operations, in whatever order and on however many lists,   *)
(* until a call leaves a wrong tail the chain from a list's head is as     *)
(* long as its length and ends at its tail, and no node is on two lists    *)
(* (collections/list.c).                                                   *)
(***************************************************************************)
THEOREM ListsStayChains == ListSpec => []ChainsRight
<1>1. spoiled \/ IInv => ChainsRight
  BY ChainsAreRight DEF ChainsRight
<1>. QED
  BY <1>1, ChainsStay, PTL

(***************************************************************************)
(* What excuses the lists is no wider than it has to be: a call that is    *)
(* remembered as having left a wrong tail has left a list that has nodes   *)
(* and no tail (list.c:83-87) or a tail that is not its last node          *)
(* (list.c:206-210, 230-237).                                              *)
(***************************************************************************)
THEOREM OnlyWrongTailsSpoil == ListSpec => [][~spoiled /\ spoiled' => WrongTail']_listVars
<1>1. (spoiled \/ IInv) /\ [ListNext]_listVars => [~spoiled /\ spoiled' => WrongTail']_listVars
  BY SpoilingStep
<1>. QED
  BY <1>1, ChainsStay, PTL DEF ListSpec

(***************************************************************************)
(* Until then ListToArray never tells the lists from sequences of elements *)
(* (collections/list.h).                                                   *)
(***************************************************************************)
THEOREM ListsAreSequences == ListSpec => ImplementsSequences
<1>1. ListInit => Sequence!Init
  BY InitChains DEF Sequence!Init, Contents, ListInit
<1>2. /\ spoiled \/ IInv
      /\ spoiled \in BOOLEAN
      /\ [ListNext]_listVars
      => [Sequence!Next]_<<Contents, spoiled>>
  <2>1. ASSUME IInv, ListNext, ~spoiled, ~spoiled' PROVE Sequence!Operation
    <3>. USE <2>1
    <3>1. PICK l \in Lists :
           \/ Contents[l] # <<>> /\ Contents' = [Contents EXCEPT ![l] = Tail(@)]
           \/ \E e \in Elements :
               \/ Contents' = [Contents EXCEPT ![l] = Append(@, e)]
               \/ Contents' = [Contents EXCEPT ![l] = <<e>> \o @]
               \/ \E i \in 1 .. Len(Contents[l]) :
                    Contents' = [Contents EXCEPT ![l] = Spliced(@, i, <<e>>)]
           \/ \E from \in Lists \ {l}, i \in 0 .. Len(Contents[l]) :
                Contents' = [Contents EXCEPT ![l] = Spliced(@, i, Contents[from]),
                                             ![from] = <<>>]
      BY <2>1, StepChains
    <3>2. CASE Contents[l] # <<>> /\ Contents' = [Contents EXCEPT ![l] = Tail(@)]
      BY <3>2, Zenon DEF Contents, Sequence!Operation, Sequence!Shift
    <3>3. ASSUME NEW e \in Elements, Contents' = [Contents EXCEPT ![l] = Append(@, e)]
          PROVE  Sequence!Operation
      BY <3>3, Zenon DEF Contents, Sequence!Operation, Sequence!Push
    <3>4. ASSUME NEW e \in Elements, Contents' = [Contents EXCEPT ![l] = <<e>> \o @]
          PROVE  Sequence!Operation
      BY <3>4, Zenon DEF Contents, Sequence!Operation, Sequence!Unshift, Sequence!Cons
    <3>5. ASSUME NEW e \in Elements, NEW i \in 1 .. Len(Contents[l]),
                 Contents' = [Contents EXCEPT ![l] = Spliced(@, i, <<e>>)]
          PROVE  Sequence!Operation
      <4>1. (i + 1) - 1 = i
        OBVIOUS
      <4>2. Contents' = [Contents EXCEPT
                ![l] = SubSeq(@, 1, (i + 1) - 1) \o <<e>> \o SubSeq(@, i + 1, Len(@))]
        BY <3>5, <4>1 DEF Spliced
      <4>3. Sequence!InsertAfter(l, i, e)
        BY <4>2, Zenon DEF Contents, Sequence!InsertAfter, Sequence!InsertAt
      <4>. QED
        BY <4>3, Zenon DEF Contents, Sequence!Operation
    <3>6. ASSUME NEW from \in Lists \ {l}, NEW i \in 0 .. Len(Contents[l]),
                 Contents' = [Contents EXCEPT ![l] = Spliced(@, i, Contents[from]),
                                              ![from] = <<>>]
          PROVE  Sequence!Operation
      <4>1. Sequence!Splice(l, i, from)
        BY <3>6, Zenon DEF Contents, Spliced, Sequence!Splice
      <4>. QED
        BY <4>1, Zenon DEF Contents, Sequence!Operation
    <3>. QED
      BY <3>1, <3>2, <3>3, <3>4, <3>5, <3>6
  <2>2. UNCHANGED listVars => UNCHANGED <<Contents, spoiled>>
    BY DEF Contents, ListToArray, NodesOf, Nth, listVars
  <2>. SUFFICES ASSUME spoiled \/ IInv, spoiled \in BOOLEAN, ListNext
                PROVE  Sequence!Next
    BY <2>2
  <2>3. CASE spoiled
    <3>1. spoiled = TRUE /\ spoiled' = TRUE
      BY <2>3, SpoiledStays, SpoiledType
    <3>. QED
      BY <3>1 DEF Sequence!Next
  <2>4. CASE ~spoiled /\ spoiled'
    <3>1. spoiled' = TRUE /\ \E l \in Lists : Contents[l] # <<>>
      BY <2>4, SpoilingStep, SpoiledType
    <3>. QED
      BY <3>1 DEF Sequence!Next, Sequence!Break, Contents
  <2>5. CASE ~spoiled /\ ~spoiled'
    <3>1. Sequence!Operation /\ spoiled = FALSE /\ spoiled' = FALSE
      BY <2>1, <2>5, SpoiledType
    <3>. QED
      BY <3>1 DEF Sequence!Next
  <2>. QED
    BY <2>3, <2>4, <2>5
<1>3. ListSpec => [](spoiled \in BOOLEAN)
  <2>1. ListInit => spoiled \in BOOLEAN
    BY DEF ListInit
  <2>2. spoiled \in BOOLEAN /\ [ListNext]_listVars => (spoiled \in BOOLEAN)'
    BY SpoiledType
  <2>. QED
    BY <2>1, <2>2, PTL DEF ListSpec
<1>. QED
  BY <1>1, <1>2, <1>3, ChainsStay, PTL
     DEF ListSpec, ImplementsSequences, Sequence!Spec, Contents
=============================================================================
