------------------------------ MODULE MCWorld -------------------------------
(* World on a few threads; MCWorld_*.cfg give the constants their values.  *)
EXTENDS World
=============================================================================
