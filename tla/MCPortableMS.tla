---------------------------- MODULE MCPortableMS ----------------------------
(* PortableMS on small heaps; MCPortableMS_*.cfg give the constants values. *)
EXTENDS PortableMS
=============================================================================
