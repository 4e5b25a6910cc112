------------------------------ MODULE FunctionMap ------------------------------
(***************************************************************************)
(* What the maps of ggggc/collections/map.h promise: each is a function    *)
(* from keys to values or to Absent, and a clone has a life of its own.    *)
(***************************************************************************)
CONSTANTS Maps, Keys, Values, Absent

VARIABLE value      \* The value of each key in each map.

Init == value = [m \in Maps |-> [k \in Keys |-> Absent]]

Put(m, k, v) == value' = [value EXCEPT ![m][k] = v]
Clone(m, c)  == value' = [value EXCEPT ![c] = value[m]]

Next == \E m \in Maps :
    \/ \E k \in Keys, v \in Values : Put(m, k, v)
    \/ \E c \in Maps : Clone(m, c)

Spec == Init /\ [][Next]_value
=============================================================================
