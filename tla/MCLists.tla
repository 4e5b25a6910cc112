-------------------------------- MODULE MCLists --------------------------------
(* Lists with model values for lists and elements.                         *)
EXTENDS Lists
=============================================================================
