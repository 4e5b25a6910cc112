----------------------------- MODULE SafeRegion -----------------------------
(***************************************************************************)
(* What stopping the world promises, with no lock, flag or barrier in it.  *)
(*                                                                         *)
(* Threads that hold references into the collected heap are live; a live   *)
(* thread that may touch objects is active.  A collection runs only while  *)
(* no thread is active, and when it starts it has the roots of exactly the *)
(* live threads.  World implements this specification.                     *)
(***************************************************************************)

CONSTANTS
    Threads,    \* Every thread there may ever be.
    Main,       \* The thread the process starts with.
    NoThread    \* Not a thread.

VARIABLES
    live,       \* Threads whose pointer stacks refer to objects.
    active,     \* Live threads that may read, write and allocate objects.
    collector,  \* The thread that is collecting, or NoThread.
    scanned     \* Threads whose roots the running collection was given.

vars == <<live, active, collector, scanned>>

Init ==
    /\ live = {Main}
    /\ active = {Main}
    /\ collector = NoThread
    /\ scanned = {}

\* An active thread starts another one, which is active at once.
Spawn(parent, t) ==
    /\ parent \in active
    /\ t \notin live
    /\ live' = live \union {t}
    /\ active' = active \union {t}
    /\ UNCHANGED <<collector, scanned>>

\* A thread enters a region in which its references are safely on its stack.
Pause(t) ==
    /\ t \in active
    /\ active' = active \ {t}
    /\ UNCHANGED <<live, collector, scanned>>

Resume(t) ==
    /\ collector = NoThread
    /\ t \in live \ active
    /\ active' = active \union {t}
    /\ UNCHANGED <<live, collector, scanned>>

Retire(t) ==
    /\ collector = NoThread
    /\ t \in live \ active
    /\ live' = live \ {t}
    /\ UNCHANGED <<active, collector, scanned>>

Begin(t) ==
    /\ collector = NoThread
    /\ active = {}
    /\ t \in live
    /\ collector' = t
    /\ scanned' = live
    /\ UNCHANGED <<live, active>>

End ==
    /\ collector # NoThread
    /\ collector' = NoThread
    /\ scanned' = {}
    /\ UNCHANGED <<live, active>>

Next ==
    \/ \E t \in Threads : Pause(t) \/ Resume(t) \/ Retire(t) \/ Begin(t)
    \/ \E parent, t \in Threads : Spawn(parent, t)
    \/ End

Spec == Init /\ [][Next]_vars
=============================================================================
