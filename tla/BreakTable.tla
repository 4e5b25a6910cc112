------------------------------ MODULE BreakTable ------------------------------
(***************************************************************************)
(* The search of break tables, findBreakTableEntry of collector/gembc.c.   *)
(* The places where objects were, original, are those of the entries       *)
(* 0 .. n - 1, in order.  An entry is given as a set, empty for NULL.      *)
(***************************************************************************)
EXTENDS Integers

Half(step) == IF step \div 2 = 0 THEN 1 ELSE step \div 2

Down(cur, step)  == IF step > cur THEN 0 ELSE cur - step
Up(n, cur, step) == IF cur + step >= n THEN n - 1 ELSE cur + step

\* What the loop returns, once it is at the entry at[1] with the step at[2].
Search(original, n, a) ==
    LET found[at \in (0 .. n - 1) \X (1 .. n)] ==
          IF original[at[1]] > a
          THEN IF at[1] = 0 THEN {} ELSE found[<<Down(at[1], at[2]), Half(at[2])>>]
          ELSE IF at[1] = n - 1 \/ original[at[1] + 1] > a THEN {at[1]}
          ELSE found[<<Up(n, at[1], at[2]), Half(at[2])>>]
    IN found

FindEntry(original, n, a) ==
    IF n = 0 THEN {} ELSE Search(original, n, a)[<<n \div 2, Half(n \div 2)>>]

\* What it is for: the last entry that is not above a, if there is one.
LastNotAbove(original, n, a) ==
    {i \in 0 .. n - 1 : original[i] <= a /\ (i = n - 1 \/ original[i + 1] > a)}
===============================================================================
