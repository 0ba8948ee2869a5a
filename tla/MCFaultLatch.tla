----------------------------- MODULE MCFaultLatch -----------------------------
(***************************************************************************)
(* TLC instance of FaultLatch: one hazard that a pass without zero crossing *)
(* must not clear and one that any cool pass may clear.                    *)
(***************************************************************************)
EXTENDS FaultLatch

TwoHazards == {"OVERTEMP", "ZERO_CROSS_LOST"}
OneHazard  == {"OVERTEMP"}
===============================================================================
