------------------------------- MODULE MCParts -------------------------------
(***************************************************************************)
(* Three parts of the program that share nothing, each small: threads at a *)
(* barrier, a program that uses lists, and one that uses maps.  Which of   *)
(* them a behaviour is about is settled at the start.                      *)
(***************************************************************************)
EXTENDS GenBarrier, Lists, Maps

VARIABLE uses

HashIsKey == [k \in Keys |-> k]

PartsInit == uses \in {"barrier", "lists", "maps"} /\ Init /\ ListInit /\ MapInit

\* Of a barrier that was made anew too early and of a list whose tail is wrong
\* nothing is promised: behaviours end there.
PartsNext ==
    /\ UNCHANGED uses
    /\ \/ uses = "barrier" /\ ~early /\ Next /\ UNCHANGED <<listVars, mapVars>>
       \/ uses = "lists" /\ ~spoiled /\ ListNext /\ UNCHANGED <<vars, mapVars>>
       \/ uses = "maps" /\ MapNext /\ UNCHANGED <<vars, listVars>>

\* The fairness of GenBarrier's FairSpec.
PartsSpec ==
    /\ PartsInit /\ [][PartsNext]_<<uses, vars, listVars, mapVars>>
    /\ \A t \in Threads :
        WF_vars(uses = "barrier" /\ Enter(t)) /\ WF_vars(uses = "barrier" /\ Wait(t))
=============================================================================
