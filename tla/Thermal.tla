-------------------------------- MODULE Thermal --------------------------------
(***************************************************************************)
(* The thermal half of a control pass (control_task in safety.c): what the *)
(* sensor watch and the zero crossings make of a job, and what heater and  *)
(* fan are set to in the end.  SensorWatch and Airflow hold the state of   *)
(* the two; the functions of a job are in Workflow, latch and records in   *)
(* FaultLatch, reservation and marker in HeatSession: here they make heat  *)
(* demanded or not.                                                        *)
(*                                                                         *)
(* A pass holds the guard from its snapshot to heater_set, so it is one    *)
(* action; the interrupt of the zero crossing comes between passes and     *)
(* within them.                                                            *)
(***************************************************************************)
EXTENDS SensorWatch, Airflow

VARIABLES
  work, paused,  \* work_on, user_paused
  armed,         \* output_safety_latch_armed: the work of the last pass
  ready,         \* output_safety_latch_ready, of the last pass
  latched,       \* shu1_safety_latch_is_set
  ssr            \* heater_output_on

jobVars == <<work, paused, armed>>
vars == <<watchVars, airVars, jobVars, ready, latched, ssr>>

\* What the functions want of a pass: nothing, the fan alone, and with work also heat
\* that the printer's state, a pause or a set latch forbids, heat at a moment without
\* demand, and heat.
Wants ==
  {"nothing", "air"} \cup (IF work THEN {"barred"} ELSE {})
                     \cup (IF work /\ ~paused /\ ~latched THEN {"hold", "heat"} ELSE {})
Targeted == {"barred", "hold", "heat"}

TypeOK ==
  /\ WatchTypeOK /\ AirTypeOK
  /\ work \in BOOLEAN /\ paused \in BOOLEAN /\ armed \in BOOLEAN
  /\ ready \in BOOLEAN /\ latched \in BOOLEAN /\ ssr \in BOOLEAN
  /\ paused => work
  /\ ssr => fan /\ gate

\* The boot stops the work; a record in flash restores the latch.
Init ==
  /\ WatchInit /\ AirInit
  /\ work = FALSE /\ paused = FALSE /\ armed = FALSE
  /\ ready = FALSE /\ latched \in BOOLEAN /\ ssr = FALSE

(***************************************************************************)
(* Commands                                                                *)
(***************************************************************************)

\* shu1_control_start_allowed
Start ==
  /\ ~work /\ ~latched /\ work' = TRUE
  /\ UNCHANGED <<watchVars, airVars, paused, armed, ready, latched, ssr>>

\* A stop, the end of a function, which leaves the session armed until the pass is
\* over, or an emergency stop.  The outputs are left to the pass.
Stop ==
  /\ work' = FALSE /\ paused' = FALSE
  /\ armed' \in {armed, FALSE} /\ latched' \in {latched, TRUE}
  /\ UNCHANGED <<watchVars, airVars, ready, ssr>>

Pause ==
  /\ work /\ ~latched /\ paused' = ~paused
  /\ UNCHANGED <<watchVars, airVars, work, armed, ready, latched, ssr>>

\* A marker that could not be written, before which nothing heats, or a watchdog that
\* was not fed, which cuts the SSR: the work is left to the next pass.
Inhibit ==
  /\ work /\ latched' = TRUE /\ ssr' = FALSE
  /\ UNCHANGED <<watchVars, airVars, jobVars, ready>>

\* What else a clear requires is in FaultLatch.
Clear ==
  /\ latched /\ ~work /\ latched' = FALSE
  /\ UNCHANGED <<watchVars, airVars, jobVars, ready, ssr>>

(***************************************************************************)
(* The pass                                                                *)
(***************************************************************************)

\* Mutant: the SSR follows the demand, whatever airflow there is.
HeatAllowedUnvented(heatMode, want, apply) == heatMode /\ want = "heat" /\ ready

\* The gates that remain between demand and SSR: airflow when the demand was made
\* and when it is carried out, and the runtime gate of both passes.
HeatAllowed(heatMode, want, apply) ==
  /\ heatMode /\ want = "heat"
  /\ Running(gate, signal) /\ ready
  /\ apply = "present"

\* hazard: a temperature beyond its cutoff, or heat that warms nothing.
Decide(want, healthy, hazard, temperature, check, apply) ==
  LET active     == armed \/ work \/ ssr
      session    == armed \/ (work /\ want \in Targeted)
      failed     == active /\ ~healthy
      controller == /\ work /\ ~paused /\ want \in {"hold", "heat"}
                    /\ healthy /\ ~hazard
      heatMode   == controller /\ ~latched'
      heats      == HeatAllowed(heatMode, want, apply)
  IN /\ latched' \in IF latched \/ hazard \/ failed \/ ZeroCrossLost(session, check)
                     THEN {TRUE} ELSE {FALSE, ~healthy}  \* other modes, without work
     /\ SessionStep(session, check, apply)
     /\ PurgeStep(heatMode, temperature)
     /\ FanStep(controller \/ want = "air" \/ hazard \/ failed \/ latched' \/ purge', apply)
     /\ ssr' = heats
     /\ work' = (work /\ ~latched') /\ paused' = (paused /\ ~latched')
     /\ armed' = (work' /\ ~latched')  \* start_allowed; no reservation beside work
     /\ ready' = (armed' /\ healthy /\ apply = "present")
     /\ AirHistory(ssr, check, apply, heatMode, temperature, heats)

Samples == [Channels -> Readings] \cup {Nothing}

\* A set latch has decided all that a hazard would, and so does an unusable sample.
\* The temperatures are compared with the release only after heat.
ControlPass ==
  \E sample \in Samples, dt \in Intervals, want \in Wants :
    /\ WatchStep(work, sample, dt, work /\ ~paused /\ want \in Targeted, ssr)
    /\ LET healthy == sample # Nothing /\ ~frozen' IN
         \E check \in Signals, apply \in Signals,
            hazard \in IF latched \/ ~healthy THEN {FALSE} ELSE BOOLEAN,
            temperature \in IF healthy /\ heated THEN Known ELSE {"unknown"} :
           /\ Follows(signal, check) /\ Follows(check, apply)
           /\ Decide(want, healthy, hazard, temperature, check, apply)

Isr ==
  /\ Edge \/ SignalLost(ssr)
  /\ UNCHANGED <<watchVars, jobVars, ready, latched, ssr>>

Next == Start \/ Stop \/ Pause \/ Inhibit \/ Clear \/ Isr \/ ControlPass
Spec == Init /\ [][Next]_vars

(***************************************************************************)
(* Properties                                                              *)
(***************************************************************************)

\* "No phone response, receipt, disconnection or pause extends the deadline": heat
\* never outlasts the grace of a suspected channel that has not moved, whatever the
\* other channel does and whatever samples are missing; nor does it come back
\* after OFF, a clear and a new start before the channel has moved.
FreezeStops ==
  ssr => \A ch \in Channels : stuckAt[ch] # NoReading => stuckFor[ch] < Grace

\* A loss of the zero crossings while the heater conducts is never overlooked, also
\* when they are back before the next pass: that pass ends heat and latches, in every
\* session whose passes have seen the signal.
GapStopsHeat == [][lost /\ seen /\ armed /\ ~lost' => latched' /\ ~ssr']_vars

\* After heat the fan stays requested, through stops, faults, clears, new jobs without
\* heat and missing samples, until a pass knows both sensors to be nearly cool.
PurgeHolds == residual = "yes" => fan
===============================================================================
