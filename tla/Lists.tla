--------------------------------- MODULE Lists ---------------------------------
(***************************************************************************)
(* The lists of collections/list.c: a length, a head and a tail, and nodes *)
(* linked by next.  The typed lists of GGC_LIST are casts around them.     *)
(*                                                                         *)
(* An operation runs in one thread, which owns its lists, and a collection *)
(* in the middle of it is invisible (module ObjectGraph), so it is one     *)
(* step.  A node is free again when nothing leads to it.                   *)
(*                                                                         *)
(* Two calls that list.h allows leave a list whose tail is not its last    *)
(* node: PushList from an empty list to a nonempty one, and InsertAfter or *)
(* InsertAfterList after a last node.  The history variable spoiled        *)
(* remembers that there was such a call.                                   *)
(***************************************************************************)
EXTENDS Naturals, Sequences, FiniteSets, FiniteSetsExt

CONSTANTS
    Lists,
    Nodes,          \* Bound: the nodes that fit in memory, as numbers.
    Elements,
    Null

ASSUME ListsAssumption ==
    /\ Nodes \subseteq Nat /\ IsFiniteSet(Nodes)
    /\ Null \notin Nodes \cup Elements

VARIABLES
    length, head, tail,     \* Of each list.
    next, el,               \* Of each node.
    spoiled                 \* TRUE once a call has left a wrong tail.

listVars == <<length, head, tail, next, el, spoiled>>

ListInit ==
    /\ length = [l \in Lists |-> 0]
    /\ head = [l \in Lists |-> Null]
    /\ tail = [l \in Lists |-> Null]
    /\ next = [n \in Nodes |-> Null]
    /\ el = [n \in Nodes |-> Null]
    /\ spoiled = FALSE

\* The i-th node from n on, if there is one.
Nth(n, i) ==
    LET nth[j \in 1 .. i] ==
            IF j = 1 THEN n ELSE IF nth[j - 1] = Null THEN Null ELSE next[nth[j - 1]]
    IN nth[i]

From(n) == {Nth(n, i) : i \in 1 .. Cardinality(Nodes)} \ {Null}

Free == Nodes \ UNION {From(head[l]) \cup From(tail[l]) : l \in Lists}

NewNode == Min(Free)

-----------------------------------------------------------------------------
Push(l, e) ==
    /\ Free # {}
    /\ el' = [el EXCEPT ![NewNode] = e]
    /\ IF tail[l] = Null
       THEN /\ head' = [head EXCEPT ![l] = NewNode]
            /\ next' = [next EXCEPT ![NewNode] = Null]
       ELSE /\ next' = [next EXCEPT ![NewNode] = Null, ![tail[l]] = NewNode]
            /\ UNCHANGED head
    /\ tail' = [tail EXCEPT ![l] = NewNode]
    /\ length' = [length EXCEPT ![l] = @ + 1]
    /\ UNCHANGED spoiled

Unshift(l, e) ==
    /\ Free # {}
    /\ next' = [next EXCEPT ![NewNode] = head[l]]
    /\ el' = [el EXCEPT ![NewNode] = e]
    /\ head' = [head EXCEPT ![l] = NewNode]
    /\ tail' = IF head[l] = Null THEN [tail EXCEPT ![l] = NewNode] ELSE tail
    /\ length' = [length EXCEPT ![l] = @ + 1]
    /\ UNCHANGED spoiled

\* Mutant of Shift: the tail is kept.
ShiftHeadOnly(l) ==
    /\ head[l] # Null
    /\ head' = [head EXCEPT ![l] = next[head[l]]]
    /\ length' = [length EXCEPT ![l] = @ - 1]
    /\ UNCHANGED <<tail, next, el, spoiled>>

\* It returns the node it takes out, not its element; the node keeps its next.
Shift(l) ==
    /\ head[l] # Null
    /\ head' = [head EXCEPT ![l] = next[head[l]]]
    /\ tail' = IF next[head[l]] = Null THEN [tail EXCEPT ![l] = Null] ELSE tail
    /\ length' = [length EXCEPT ![l] = @ - 1]
    /\ UNCHANGED <<next, el, spoiled>>

\* Both ways to pass a list to an empty one.
Graft(to, from) ==
    /\ head[to] = Null /\ head[from] # Null
    /\ length' = [length EXCEPT ![to] = length[from], ![from] = 0]
    /\ head' = [head EXCEPT ![to] = head[from], ![from] = Null]
    /\ tail' = [tail EXCEPT ![to] = tail[from], ![from] = Null]
    /\ UNCHANGED <<next, el, spoiled>>

\* Mutant of Drain: the old list is not emptied.
DrainNothing(to, from) == length' = [length EXCEPT ![to] = @ + length[from]]

\* The lengths when all of from goes to to.
Drain(to, from) == length' = [length EXCEPT ![to] = @ + length[from], ![from] = 0]

\* With an empty from, NULL becomes the tail of to.  On a list whose tail is NULL
\* already it writes through that: no step of the program follows.
PushList(to, from) ==
    /\ head[to] # Null /\ tail[to] # Null
    /\ next' = [next EXCEPT ![tail[to]] = head[from]]
    /\ tail' = [tail EXCEPT ![to] = tail[from], ![from] = Null]
    /\ head' = [head EXCEPT ![from] = Null]
    /\ Drain(to, from)
    /\ spoiled' = (spoiled \/ head[from] = Null)
    /\ UNCHANGED el

\* With an empty from, this and InsertAfterList write through its NULL tail.
UnshiftList(to, from) ==
    /\ head[to] # Null /\ tail[from] # Null
    /\ next' = [next EXCEPT ![tail[from]] = head[to]]
    /\ head' = [head EXCEPT ![to] = head[from], ![from] = Null]
    /\ tail' = [tail EXCEPT ![from] = Null]
    /\ Drain(to, from)
    /\ UNCHANGED <<el, spoiled>>

\* The nodes a program may name to insert something after them.
Insertable(l) == From(head[l])

InsertAfter(l, after, e) ==
    /\ Free # {}
    /\ el' = [el EXCEPT ![NewNode] = e]
    /\ next' = [next EXCEPT ![NewNode] = next[after], ![after] = NewNode]
    /\ length' = [length EXCEPT ![l] = @ + 1]
    /\ spoiled' = (spoiled \/ next[after] = Null)
    /\ UNCHANGED <<head, tail>>

InsertAfterList(to, after, from) ==
    /\ tail[from] # Null
    /\ next' = [next EXCEPT ![after] = head[from], ![tail[from]] = next[after]]
    /\ head' = [head EXCEPT ![from] = Null]
    /\ tail' = [tail EXCEPT ![from] = Null]
    /\ Drain(to, from)
    /\ spoiled' = (spoiled \/ next[after] = Null)
    /\ UNCHANGED el

ListNext ==
    \/ \E l \in Lists : Shift(l)
    \/ \E l \in Lists, e \in Elements :
        \/ Push(l, e)
        \/ Unshift(l, e)
        \/ \E after \in Insertable(l) : InsertAfter(l, after, e)
    \/ \E to \in Lists : \E from \in Lists \ {to} :
        \/ Graft(to, from)
        \/ PushList(to, from)
        \/ UnshiftList(to, from)
        \/ \E after \in Insertable(to) : InsertAfterList(to, after, from)

ListSpec == ListInit /\ [][ListNext]_listVars

-----------------------------------------------------------------------------
NodesOf(l) == [i \in 1 .. length[l] |-> Nth(head[l], i)]

ListToArray(l) ==
    [i \in 1 .. length[l] |-> IF NodesOf(l)[i] = Null THEN Null ELSE el[NodesOf(l)[i]]]

(***************************************************************************)
(* As long as no call has left a wrong tail, the chain from the head is as *)
(* long as the length says and ends at the tail, and no node is on two     *)
(* lists (list.c: whichever end an operation works at, it relies on what   *)
(* operations at the other end left).                                      *)
(***************************************************************************)
ChainsRight == ~spoiled =>
    /\ \A l \in Lists :
        /\ Cardinality(From(head[l])) = length[l]
        /\ tail[l] = IF length[l] = 0 THEN Null ELSE Nth(head[l], length[l])
        /\ length[l] > 0 => tail[l] # Null /\ next[tail[l]] = Null
    /\ \A l, m \in Lists : l # m => From(head[l]) \cap From(head[m]) = {}

(***************************************************************************)
(* Until a call leaves a wrong tail, ListToArray gives what it would give  *)
(* if lists were sequences (list.h), of every list: no element is lost,    *)
(* moved to another place or seen in two lists.                            *)
(***************************************************************************)
Sequence == INSTANCE SequenceList WITH
    contents <- [l \in Lists |-> ListToArray(l)], broken <- spoiled

ImplementsSequences == Sequence!Spec

(***************************************************************************)
(* What list.h says of a push, whatever was called before: it puts an      *)
(* element at the end of the list ("push an element to the end of a        *)
(* generic list", list.h:46).  The code breaks it after an empty list was  *)
(* passed, and after something was inserted after the last node.           *)
(***************************************************************************)
PushAppends ==
    [][\A l \in Lists, e \in Elements :
        Push(l, e) => ListToArray(l)' = Append(ListToArray(l), e)]_listVars
=============================================================================
