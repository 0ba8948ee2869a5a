------------------------------ MODULE MCSymbiont ------------------------------
(***************************************************************************)
(* TLC instance of Symbiont: two speeds, two messages under way, and the    *)
(* notification of a write as a third.                                     *)
(***************************************************************************)
EXTENDS Symbiont
===============================================================================
