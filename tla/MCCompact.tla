------------------------------- MODULE MCCompact -------------------------------
EXTENDS Compact, TLC

\* A descriptor has four words; the objects of the other type have no members.
Sizes == [t \in Types |-> IF t = Root THEN 4 ELSE 1]

\* Every table of up to twelve entries, and every place in it and around it.
ASSUME SearchFindsEntry ==
    \A n \in 0 .. 12 : \A a \in 0 .. 2 * n + 1 :
        LET original == [i \in 0 .. n - 1 |-> 2 * i + 1] IN
        FindEntry(original, n, a) = LastNotAbove(original, n, a)

Alike == Permutations(Plain)
=============================================================================
