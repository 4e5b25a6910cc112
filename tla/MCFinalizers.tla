------------------------------ MODULE MCFinalizers -----------------------------
EXTENDS Finalizers
=============================================================================
