--------------------------- MODULE CountedBarrier ---------------------------
(***************************************************************************)
(* What a barrier promises: the last of ct threads to arrive lets all of   *)
(* them go, and each then leaves in its own time.  It promises this to     *)
(* those who make a barrier anew only when nobody is inside, and no longer *)
(* promises anything once somebody was.  This is the barrier World is      *)
(* built on; GenBarrier implements it where the system has none.           *)
(***************************************************************************)
EXTENDS Naturals, FiniteSets

CONSTANTS
    Threads,    \* The threads that use the barrier.
    First       \* How many it is first made for.

VARIABLES
    ct,         \* How many threads it is made for.
    inside,     \* Threads between calling wait and returning from it.
    arrived,    \* Those of them that wait for others.
    broken      \* The barrier was made anew with a thread inside.

vars == <<ct, inside, arrived, broken>>

Init ==
    /\ ct = First
    /\ inside = {}
    /\ arrived = {}
    /\ broken = FALSE

Arrive(t) ==
    /\ t \notin inside
    /\ inside' = inside \union {t}
    /\ arrived' = IF Cardinality(arrived) + 1 = ct THEN {} ELSE arrived \union {t}
    /\ UNCHANGED ct

Leave(t) ==
    /\ t \in inside \ arrived
    /\ inside' = inside \ {t}
    /\ UNCHANGED <<ct, arrived>>

Make(n) ==
    /\ inside = {}
    /\ ct' = n
    /\ UNCHANGED <<inside, arrived>>

\* Made too early, after which anything may happen.
Break == inside # {} /\ broken' = TRUE

Next ==
    \/ /\ ~broken /\ broken' = broken
       /\ \/ \E t \in Threads : Arrive(t) \/ Leave(t)
          \/ \E n \in 1 .. Cardinality(Threads) : Make(n)
    \/ Break
    \/ broken /\ broken' = TRUE

Spec == Init /\ [][Next]_vars
=============================================================================
