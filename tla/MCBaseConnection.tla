-------------------------- MODULE MCBaseConnection --------------------------
(* Two bases, two networks and being offline.                              *)
EXTENDS BaseConnection
=============================================================================
