------------------------------ MODULE MCStorage ------------------------------
(***************************************************************************)
(* TLC instance of Storage: a device that knows one network, in the record *)
(* or in the legacy key.                                                   *)
(***************************************************************************)
EXTENDS Storage

CONSTANT home
MCInit == Init /\ record \in {home, NoNetwork} /\ legacy = home
MCFairSpec == MCInit /\ [][Next]_vars /\ Fairness
===============================================================================
