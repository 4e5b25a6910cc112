------------------------------ MODULE MCGembc -------------------------------
(* Gembc on small heaps; MCGembc_*.cfg give the constants their values.    *)
EXTENDS Gembc
=============================================================================
