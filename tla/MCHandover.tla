----------------------------- MODULE MCHandover -----------------------------
(***************************************************************************)
(* Handover on small instances.  The processes are the app manager, a      *)
(* service and its replacement; ids, slots and tokens are numbers, handed  *)
(* out in order, so no symmetry is used.                                   *)
(***************************************************************************)
EXTENDS Handover
=============================================================================
