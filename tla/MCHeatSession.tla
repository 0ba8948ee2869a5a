----------------------------- MODULE MCHeatSession -----------------------------
(***************************************************************************)
(* TLC instance of HeatSession: one task for each way to reserve           *)
(* maintenance, as model values in the configurations.                     *)
(***************************************************************************)
EXTENDS HeatSession
===============================================================================
