------------------------------ MODULE JobContract ------------------------------
(***************************************************************************)
(* What the parts of the firmware promise one another about the job, the   *)
(* fault latch and the heater output.  Every module that has a job and a   *)
(* latch of its own implements this contract, so that what one of them     *)
(* leaves to the others as a free input is no less than what they do.      *)
(***************************************************************************)
EXTENDS Naturals

VARIABLES
  job,      \* what is on: "work", "scheduled"
  latched,  \* the fault latch
  heating,  \* the heater output, as the last control pass left it
  boots     \* the number of restarts

vars == <<job, latched, heating, boots>>

Part == {"work", "scheduled"}

Init == job = {} /\ latched \in BOOLEAN /\ heating = FALSE /\ boots = 0

\* A command adds to the job only while the latch is open, and leaves the output.
Request == ~latched /\ job' \subseteq Part /\ UNCHANGED <<latched, heating, boots>>

\* A stop or a failure takes from the job, may latch and may cut the output.
Withdraw ==
  /\ job' \subseteq job /\ latched' \in {latched, TRUE} /\ heating' \in {heating, FALSE}
  /\ UNCHANGED boots

\* Only a control pass turns the output on.  It ends the job under a set latch,
\* opens no latch and makes no schedule.
Pass ==
  /\ latched' \in {latched, TRUE}
  /\ job' \subseteq Part /\ ("scheduled" \in job' => "scheduled" \in job)
  /\ latched' => job' = {}
  /\ heating' \in BOOLEAN /\ (heating' => "work" \in job')
  /\ UNCHANGED boots

\* The latch is opened only on an idle controller with the output off.
Clear == latched /\ job = {} /\ ~heating /\ latched' = FALSE /\ UNCHANGED <<job, heating, boots>>

\* A restart resumes nothing.
Restart == boots' = boots + 1 /\ job' = {} /\ heating' = FALSE /\ latched' \in BOOLEAN

Next == Request \/ Withdraw \/ Pass \/ Clear \/ Restart

Spec == Init /\ [][Next]_vars
===============================================================================
