----------------------------- MODULE MCControlLease -----------------------------
(***************************************************************************)
(* Instances of ControlLease for TLC: a lease of one tick, few commands.   *)
(***************************************************************************)
EXTENDS ControlLease
===============================================================================
