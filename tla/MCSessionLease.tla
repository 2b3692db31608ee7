--------------------------- MODULE MCSessionLease ---------------------------
(***************************************************************************)
(* Model checking SessionLease.                                            *)
(***************************************************************************)
EXTENDS SessionLease
=============================================================================
