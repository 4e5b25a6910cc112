----------------------------- MODULE SequenceList ------------------------------
(***************************************************************************)
(* What the lists of ggggc/collections/list.h promise: each is a sequence  *)
(* of elements, and an operation on one changes no other, save that a list *)
(* given to another one is empty afterwards.  list.c keeps this promise    *)
(* until an empty list was given to one with elements, or something was    *)
(* put after a last element.                                               *)
(***************************************************************************)
EXTENDS Naturals, Sequences, SequencesExt

CONSTANTS Lists, Elements

VARIABLES
    contents,       \* The elements of each list, in order.
    broken          \* TRUE once there was a call that list.c does not survive.

Init == contents = [l \in Lists |-> <<>>] /\ broken = FALSE

Push(l, e)    == contents' = [contents EXCEPT ![l] = Append(@, e)]
Unshift(l, e) == contents' = [contents EXCEPT ![l] = Cons(e, @)]

Shift(l) ==
    /\ contents[l] # <<>>
    /\ contents' = [contents EXCEPT ![l] = Tail(@)]

InsertAfter(l, i, e) == contents' = [contents EXCEPT ![l] = InsertAt(@, i + 1, e)]

\* All of from, put between the first i elements of to and the others.
Splice(to, i, from) ==
    contents' = [contents EXCEPT
        ![to] = SubSeq(@, 1, i) \o contents[from] \o SubSeq(@, i + 1, Len(@)),
        ![from] = <<>>]

Operation ==
    \E l \in Lists :
        \/ Shift(l)
        \/ \E e \in Elements :
            \/ Push(l, e) \/ Unshift(l, e)
            \/ \E i \in 1 .. Len(contents[l]) : InsertAfter(l, i, e)
        \/ \E from \in Lists \ {l}, i \in 0 .. Len(contents[l]) : Splice(l, i, from)

\* A call after which anything may happen; it names a list with elements.
Break == (\E l \in Lists : contents[l] # <<>>) /\ broken' = TRUE

Next ==
    \/ ~broken /\ broken' = broken /\ Operation
    \/ Break
    \/ broken /\ broken' = TRUE

Spec == Init /\ [][Next]_<<contents, broken>>
=============================================================================
