---------------------------- MODULE MCGenBarrier ----------------------------
(* GenBarrier with model values for threads.                               *)
EXTENDS GenBarrier
=============================================================================
