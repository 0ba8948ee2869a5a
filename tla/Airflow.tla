-------------------------------- MODULE Airflow --------------------------------
(***************************************************************************)
(* The fan of fan_triac.c and what the control pass knows of it: a request *)
(* is applied by the interrupt of the next zero crossing and withdrawn at  *)
(* once; a gap in the crossings is remembered until the next pass; after   *)
(* heat the fan runs on until both sensors are known to be cool, or nearly *)
(* so before a purge has begun.  Thermal composes it with the pass.        *)
(*                                                                         *)
(* Crossings come every 10 ms; the signal is absent when none was accepted *)
(* for 100 ms.  Rejected edges change nothing.                             *)
(***************************************************************************)
VARIABLES
  fan,       \* g_requested_on
  gate,      \* g_applied_on, the level of the pin
  signal,    \* age of the last accepted edge
  gapped,    \* g_zc_signal_gaps # zc_gap_count
  seen,      \* zc_seen_while_armed
  heated,    \* heated_this_session
  purge,     \* thermal_purge
  lost,      \* history: the signal was absent since the last pass, the heater conducting
  residual   \* history: the heater conducted, and no pass since found both nearly cool

airVars == <<fan, gate, signal, gapped, seen, heated, purge, lost, residual>>

Signals == {"never", "present", "absent"}
\* What a pass is told of both temperatures: below the release temperature, below
\* it and three degrees, above, or not to be trusted.
Known        == {"cool", "settling", "hot"}
Temperatures == Known \cup {"unknown"}

AirTypeOK ==
  /\ fan \in BOOLEAN /\ gate \in BOOLEAN /\ signal \in Signals
  /\ gapped \in BOOLEAN /\ seen \in BOOLEAN
  /\ heated \in BOOLEAN /\ purge \in BOOLEAN
  /\ lost \in BOOLEAN /\ residual \in {"no", "boot", "yes"}
  /\ gate => fan /\ signal # "never"
  /\ purge => heated

\* "A reboot may follow heating: require positive evidence of a cold device."
AirInit ==
  /\ fan = FALSE /\ gate = FALSE /\ signal = "never"
  /\ gapped = FALSE /\ seen = FALSE
  /\ heated = TRUE /\ purge = TRUE
  /\ lost = FALSE /\ residual = "boot"

(***************************************************************************)
(* Between two passes                                                      *)
(***************************************************************************)
\* Mutant: the interrupt counts no gaps.
GapCountedNever == gapped' = gapped

\* An edge that comes more than 100 ms after the one before it.
GapCounted == gapped' = (gapped \/ signal = "absent")

\* zero_cross_isr
Edge ==
  /\ signal' = "present" /\ gate' = fan
  /\ GapCounted
  /\ UNCHANGED <<fan, seen, heated, purge, lost, residual>>

SignalLost(conducting) ==
  /\ signal = "present" /\ signal' = "absent"
  /\ lost' = (lost \/ conducting)
  /\ UNCHANGED <<fan, gate, gapped, seen, heated, purge, residual>>

\* shu1_fan_triac_is_running
Running(applied, sig) == applied /\ sig = "present"

(***************************************************************************)
(* In a pass                                                               *)
(*                                                                         *)
(* The pass looks at the signal when heat is demanded, again when it       *)
(* checks the session, and again when the outputs are set; it may come or  *)
(* go in between, the last edge applying nothing that is not still wanted. *)
(***************************************************************************)
Follows(a, b) == a = b \/ (a = "present" /\ b = "absent") \/ (a # "present" /\ b = "present")
Gap(a, b) == a = "absent" /\ b = "present"
Loss(a, b) == a = "present" /\ b = "absent"

\* Its loss, or a gap since the last pass, in a session that has seen the signal.
ZeroCrossLost(session, check) ==
  /\ session /\ seen
  /\ check # "present" \/ gapped \/ Gap(signal, check)

SessionStep(session, check, apply) ==
  /\ gapped' = Gap(check, apply)
  /\ seen' = (session /\ (seen \/ check = "present"))

\* Mutant: a purge that is about to begin takes an unknown temperature for a cool one.
PurgeNeededIfKnown(temperature) ==
  IF purge THEN temperature # "cool" ELSE temperature = "hot"

\* Begun unless both sensors are nearly cool, ended when both are; unknown is hot.
PurgeNeeded(temperature) ==
  IF purge THEN temperature # "cool" ELSE temperature \in {"hot", "unknown"}

\* Heat mode is the active job, not the SSR of the moment.
PurgeStep(heatMode, temperature) ==
  /\ purge' = (~heatMode /\ heated /\ PurgeNeeded(temperature))
  /\ heated' = (heatMode \/ (heated /\ PurgeNeeded(temperature)))

\* shu1_fan_triac_set: ON waits for the next edge, OFF is immediate.
FanStep(on, apply) ==
  /\ fan' = on /\ gate' = (on /\ gate)
  /\ signal' = apply

\* What is lost after the check is left to the next pass.
AirHistory(conducting, check, apply, heatMode, temperature, heats) ==
  /\ lost' = (conducting /\ Loss(check, apply))
  /\ residual' = IF heats THEN "yes"
                 ELSE IF ~heatMode /\ temperature \in {"cool", "settling"} THEN "no"
                 ELSE IF residual = "no" THEN "no" ELSE "yes"
===============================================================================
