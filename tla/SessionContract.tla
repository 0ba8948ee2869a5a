---------------------------- MODULE SessionContract ----------------------------
(***************************************************************************)
(* What a heating session promises about power loss: heat only behind a    *)
(* durable mark, a mark removed only when the chamber is no longer hot,    *)
(* and a lock at the next boot for every session that had no such end.     *)
(***************************************************************************)
VARIABLES marked, heating, hot, locked

vars == <<marked, heating, hot, locked>>

Init == marked = FALSE /\ heating = FALSE /\ hot = FALSE /\ locked = FALSE

Mark   == ~heating /\ marked' = TRUE /\ UNCHANGED <<heating, hot, locked>>
Unmark == ~hot /\ marked' = FALSE /\ UNCHANGED <<heating, hot, locked>>

\* The output, and with it the latch, as one control pass leaves them.
Drive ==
  /\ heating' \in BOOLEAN /\ (heating' => marked /\ ~locked')
  /\ hot' \in {heating', hot} /\ (heating' => hot')
  /\ locked' \in {locked, TRUE}
  /\ UNCHANGED marked

Lock   == locked' = TRUE /\ UNCHANGED <<marked, heating, hot>>
Unlock == ~heating /\ locked' = FALSE /\ UNCHANGED <<marked, heating, hot>>

\* A failed write may leave its value behind and locks.
Lost == /\ heating' = FALSE /\ locked' \in BOOLEAN /\ (marked => locked')
        /\ UNCHANGED <<marked, hot>>

Next == Mark \/ Unmark \/ Drive \/ Lock \/ Unlock \/ Lost

Spec == Init /\ [][Next]_vars
===============================================================================
