------------------------------- MODULE FrontLists ------------------------------
(***************************************************************************)
(* Linked lists that a loop builds, as the code does in several places: it *)
(* walks over other lists and puts what it takes at the front of a new     *)
(* one, which so comes to have the last one first.                         *)
(***************************************************************************)
EXTENDS Naturals, SequencesExt

\* What a loop over walk makes of those in chosen.
InFront(walk, chosen) ==
    LET list[n \in 0 .. Len(walk)] ==
            IF n = 0 THEN <<>>
            ELSE IF walk[n] \in chosen THEN <<walk[n]>> \o list[n - 1] ELSE list[n - 1]
    IN list[Len(walk)]
=============================================================================
