---------------------------- MODULE MCFramework ----------------------------
(* The framework, each thread sending once, over up to three connections. *)
EXTENDS Framework
=============================================================================
