------------------------------ MODULE FaultLatch ------------------------------
(***************************************************************************)
(* The hazardous-fault latch of the SnapHeater firmware (safety_latch.c):  *)
(* a RAM latch that the control task, the command handlers and the storage *)
(* worker share, and its NVS record.  The policy guard makes each command  *)
(* and each control pass one step; the storage worker takes the guard only *)
(* to validate a clear, and every NVS call of its own is a step during     *)
(* which the others run.  The plant is what the last control pass          *)
(* measured (rt) and the job and SSR it left.                              *)
(*                                                                         *)
(* Not modelled: shu1_safety_latch_trip and _clear, the synchronous        *)
(* variants that only host tests call.                                     *)
(***************************************************************************)
EXTENDS Naturals

CONSTANTS
  Hazards,        \* the persistent hazards a control pass may detect
  MaxGeneration,  \* bound on the g_generation at which the latch may be set again
  MaxBoots        \* bound on the number of restarts

HazardCode == {"NO_RISE", "OVERTEMP", "SENSOR_FAULT", "ZERO_CROSS_LOST"}
Fault == HazardCode \cup {"OK", "PANIC_OFF", "PERSISTED_FAULT", "NVS_UNREADABLE"}

ASSUME HazardsAssumption == Hazards \subseteq HazardCode
ASSUME BoundsAssumption == MaxGeneration \in Nat /\ MaxBoots \in Nat

VARIABLES
  latched, inhibited, clearRequested, persistPending, fault,
  generation, deferredClear, clearGeneration,
  attemptRecent,  \* the last persist attempt is less than 2 s old
  nvs,            \* the durable record: fault_latch and fault_code
  pc, txn,        \* storage worker: where it is, its local variables
  job, ssr, rt,   \* work_on or scheduled; heater output; last measurement
  woken,          \* a command has notified the control task
  boots,
  asked,          \* history: a clear was requested since the latch was last set
  stopped,        \* history: an emergency stop came since the last clear request
  hazardOpen      \* history: a deferred trip has not been cleared yet

latchVars  == <<latched, inhibited, clearRequested, persistPending, fault,
                generation, deferredClear, clearGeneration>>
plantVars  == <<job, ssr, rt, woken>>
workerVars == <<pc, txn, attemptRecent, nvs>>
history    == <<asked, stopped, hazardOpen>>
vars == <<latchVars, plantVars, workerVars, history, boots>>

Generation == 0..(MaxGeneration + 1)
Writing == {"set_code", "set_latch", "commit"}
NoTxn   == [op |-> "none", gen |-> 0, code |-> "OK", ok |-> FALSE]

LatchTypes ==
  /\ latched \in BOOLEAN /\ inhibited \in BOOLEAN /\ clearRequested \in BOOLEAN
  /\ persistPending \in BOOLEAN /\ deferredClear \in BOOLEAN
  /\ fault \in Fault /\ (latched <=> fault # "OK")
  /\ generation \in Generation /\ clearGeneration \in Generation

WorkerTypes ==
  /\ pc \in {"service", "validate", "finish_clear", "retry", "finish_retry"} \cup Writing
  /\ txn \in [op: {"none", "clear", "persist"}, gen: Generation,
              code: Fault, ok: BOOLEAN]
  /\ attemptRecent \in BOOLEAN
  /\ nvs \in [latch: BOOLEAN, code: Fault]

PlantTypes ==
  /\ job \in BOOLEAN /\ ssr \in BOOLEAN /\ woken \in BOOLEAN
  /\ rt \in [sensors: BOOLEAN, over: BOOLEAN, zc: BOOLEAN]

HistoryTypes ==
  /\ asked \in BOOLEAN /\ stopped \in BOOLEAN /\ hazardOpen \in BOOLEAN

\* A latch has a reason, and only a latch has one.
TypeOK == LatchTypes /\ WorkerTypes /\ PlantTypes /\ HistoryTypes /\ boots \in 0..MaxBoots

(***************************************************************************)
(* Boot: shu1_safety_latch_init, then the session marker and the checks of *)
(* app_main, before any task runs.                                         *)
(***************************************************************************)

\* What init makes of the record: unreadable, or a latch with its reason.
Restored(readable) ==
  IF ~readable THEN [set |-> TRUE, reason |-> "NVS_UNREADABLE"]
  ELSE IF ~nvs.latch THEN [set |-> FALSE, reason |-> "OK"]
  ELSE [set |-> TRUE,
        reason |-> IF nvs.code = "OK" THEN "PERSISTED_FAULT" ELSE nvs.code]

\* marker: the session journal found its dirty marker and calls trip_volatile.
\* inhibit: NVS, journal or ADC failed to initialise (app_main).
BootState(readable, marker, inhibit) ==
  LET r == Restored(readable) IN
  /\ latched' = (r.set \/ marker \/ inhibit)
  /\ fault' = IF inhibit \/ (marker /\ ~r.set) THEN "PERSISTED_FAULT" ELSE r.reason
  /\ inhibited' = inhibit
  /\ clearRequested' = FALSE /\ persistPending' = FALSE
  /\ generation' = 0 /\ clearGeneration' = 0 /\ deferredClear' = FALSE
  /\ attemptRecent' = FALSE /\ pc' = "service" /\ txn' = NoTxn
  /\ job' = FALSE /\ ssr' = FALSE /\ woken' = FALSE
  /\ rt' = [sensors |-> FALSE, over |-> FALSE, zc |-> FALSE]
  /\ asked' = FALSE /\ stopped' = FALSE /\ hazardOpen' = (readable /\ nvs.latch)
  /\ UNCHANGED nvs

Init ==
  /\ latched = FALSE /\ fault = "OK" /\ inhibited = FALSE
  /\ clearRequested = FALSE /\ persistPending = FALSE
  /\ generation = 0 /\ clearGeneration = 0 /\ deferredClear = FALSE
  /\ attemptRecent = FALSE /\ pc = "service" /\ txn = NoTxn
  /\ job = FALSE /\ ssr = FALSE /\ woken = FALSE
  /\ rt = [sensors |-> FALSE, over |-> FALSE, zc |-> FALSE]
  /\ nvs = [latch |-> FALSE, code |-> "OK"]
  /\ boots = 0 /\ asked = FALSE /\ stopped = FALSE /\ hazardOpen = FALSE

\* Power loss or reset at any point, the middle of an NVS transaction included.
Reboot ==
  /\ boots < MaxBoots
  /\ boots' = boots + 1
  /\ \E readable, marker, inhibit \in BOOLEAN : BootState(readable, marker, inhibit)

(***************************************************************************)
(* Commands: REST, BLE and panel handlers, each under the policy guard.    *)
(***************************************************************************)

\* shu1_control_start_allowed: no new work while latched or inhibited.
StartJob ==
  /\ ~job /\ ~latched /\ ~inhibited
  /\ job' = TRUE /\ woken' = TRUE
  /\ UNCHANGED <<latchVars, ssr, rt, workerVars, history, boots>>

SafeStop ==
  /\ job
  /\ job' = FALSE /\ woken' = TRUE
  /\ UNCHANGED <<latchVars, ssr, rt, workerVars, history, boots>>

\* trip_volatile(PANIC_OFF) and safe stop; the earlier reason is kept.
EmergencyStop ==
  /\ latched \/ generation < MaxGeneration
  /\ job' = FALSE /\ woken' = TRUE
  /\ latched' = TRUE
  /\ fault' = IF latched THEN fault ELSE "PANIC_OFF"
  /\ clearRequested' = (latched /\ clearRequested)
  /\ asked' = (latched /\ asked)
  /\ stopped' = TRUE
  /\ UNCHANGED <<inhibited, persistPending, generation, deferredClear, clearGeneration,
                 ssr, rt, workerVars, hazardOpen, boots>>

\* clear_heater_fault over REST or BLE, or a Power long press on a latched
\* controller: stop everything and leave one request for the control task.
RequestClear ==
  /\ job' = FALSE /\ woken' = TRUE
  /\ clearRequested' = TRUE
  /\ asked' = TRUE /\ stopped' = FALSE
  /\ UNCHANGED <<latched, inhibited, persistPending, fault, generation, deferredClear,
                 clearGeneration, ssr, rt, workerVars, hazardOpen, boots>>

\* A runtime failure.  The control task (watchdog, epoch mismatch) cuts power
\* with it; a command whose storage mailbox is gone stops the work; the printer
\* setup and the session journal meet theirs before anything may heat.
Inhibit ==
  /\ generation < MaxGeneration
  /\ inhibited' = TRUE /\ latched' = TRUE /\ fault' = "PERSISTED_FAULT"
  /\ clearRequested' = FALSE /\ deferredClear' = FALSE
  /\ generation' = generation + 1
  /\ asked' = FALSE
  /\ \/ ssr' = FALSE /\ UNCHANGED <<job, woken>>
     \/ job' = FALSE /\ woken' = TRUE /\ UNCHANGED ssr
     \/ ~ssr /\ UNCHANGED <<job, ssr, woken>>
  /\ UNCHANGED <<persistPending, clearGeneration, rt, workerVars, stopped, hazardOpen, boots>>

(***************************************************************************)
(* One pass of the control task: measure, detect hazards, trip, take the   *)
(* one-shot clear request, drive the SSR.                                  *)
(***************************************************************************)

\* The hazards a pass can report for a measurement m ("OK": none).
Detected(m, working) ==
  IF m.over THEN {"OVERTEMP"}
  ELSE IF ~m.sensors THEN (IF working \/ ssr THEN {"SENSOR_FAULT"} ELSE {"OK"})
  ELSE {"OK"} \cup (IF working THEN {"NO_RISE", "ZERO_CROSS_LOST"} ELSE {})

DeferTrip(h) ==
  /\ generation < MaxGeneration
  /\ generation' = generation + 1
  /\ latched' = TRUE /\ fault' = h /\ persistPending' = TRUE
  /\ clearRequested' = FALSE /\ deferredClear' = FALSE /\ attemptRecent' = FALSE
  /\ asked' = FALSE /\ hazardOpen' = TRUE
  /\ UNCHANGED clearGeneration

\* An already latched controller does not trip again; a clear request is used
\* up whether or not it can be honoured now.
TakeClearRequest(m, working) ==
  LET honoured == /\ clearRequested /\ latched /\ ~inhibited
                  /\ ~working /\ m.sensors /\ ~m.over
                  /\ fault = "ZERO_CROSS_LOST" => m.zc
  IN
  /\ clearRequested' = FALSE
  /\ deferredClear' = (deferredClear \/ honoured)
  /\ clearGeneration' = IF honoured THEN generation ELSE clearGeneration
  /\ UNCHANGED <<latched, fault, persistPending, generation, attemptRecent,
                 asked, hazardOpen>>

\* Mutant: the pass that trips leaves the SSR to the next one.
HeatNotCut(m, h, heat) == heat /\ job /\ m.sensors /\ ~inhibited

\* The governors of the pass: no heat without a job, with a fault, on a stale
\* sample or while latched or inhibited.
HeatAdmitted(m, h, heat) == heat /\ job' /\ h = "OK" /\ m.sensors /\ ~inhibited

\* working: the job as the workflow updates of this pass leave it (a timer may
\* end it, a dry-out that was left running turns it on again, and a set latch
\* has left none); heat: whether this pass asks for the SSR.
ControlPass(m, working, h, heat) ==
  /\ working => job \/ ~latched
  /\ h \in Detected(m, working) \cap (Hazards \cup {"OK"})
  /\ IF h # "OK" /\ ~latched THEN DeferTrip(h) ELSE TakeClearRequest(m, working)
  /\ job' = (working /\ ~latched')
  /\ ssr' = HeatAdmitted(m, h, heat)
  /\ rt' = m /\ woken' = FALSE
  /\ UNCHANGED <<inhibited, pc, txn, nvs, boots, stopped>>

\* Zero crossing is measured only where its loss is one of the hazards.
Measurement ==
  [sensors: BOOLEAN, over: BOOLEAN,
   zc: IF "ZERO_CROSS_LOST" \in Hazards THEN BOOLEAN ELSE {FALSE}]

ControlTask ==
  \E m \in Measurement,
     working, heat \in BOOLEAN, h \in Fault : ControlPass(m, working, h, heat)

\* The last sample is older than 1500 ms, or the 2 s retry pause has passed.
SampleAges ==
  /\ rt.sensors
  /\ rt' = [rt EXCEPT !.sensors = FALSE]
  /\ UNCHANGED <<latchVars, job, ssr, woken, workerVars, history, boots>>

RetryPauseEnds ==
  /\ attemptRecent
  /\ attemptRecent' = FALSE
  /\ UNCHANGED <<latchVars, plantVars, pc, txn, nvs, history, boots>>

(***************************************************************************)
(* The storage worker: shu1_safety_latch_service, one step per section     *)
(* that the guard or the latch spinlock makes atomic and per NVS call.     *)
(***************************************************************************)

\* shu1_safety_latch_clear_block_reason returns "".
ClearStateSafe ==
  /\ ~inhibited /\ ~job /\ ~ssr
  /\ rt.sensors /\ ~rt.over
  /\ fault = "ZERO_CROSS_LOST" => rt.zc

\* Mutant: the deferred clear is copied but left in its place.
RequestKept == UNCHANGED deferredClear

\* One clear is attempted once.
RequestTaken == deferredClear' = FALSE

ServiceTake ==
  /\ pc = "service"
  /\ RequestTaken
  /\ IF deferredClear /\ ~inhibited
       THEN /\ pc' = "validate"
            /\ txn' = [op |-> "clear", gen |-> clearGeneration, code |-> "OK", ok |-> FALSE]
       ELSE pc' = "retry" /\ txn' = NoTxn
  /\ UNCHANGED <<latched, inhibited, clearRequested, persistPending, fault, generation,
                 clearGeneration, attemptRecent, nvs, plantVars, history, boots>>

\* First validation, under the guard; the NVS write follows without it.
ValidateClear ==
  /\ pc = "validate"
  /\ pc' = IF ClearStateSafe /\ latched /\ txn.gen = generation
             THEN "set_code" ELSE "finish_clear"
  /\ UNCHANGED <<latchVars, attemptRecent, nvs, txn, plantVars, history, boots>>

\* retry_persist: nothing pending or too soon ends the service; otherwise the
\* latch is re-read and, if still set, written.
RetryBegin ==
  /\ pc = "retry"
  /\ IF ~persistPending \/ attemptRecent
       THEN pc' = "service" /\ UNCHANGED <<txn, attemptRecent>>
       ELSE /\ attemptRecent' = TRUE
            /\ txn' = [op |-> "persist", gen |-> generation, code |-> fault, ok |-> ~latched]
            /\ pc' = IF latched THEN "set_code" ELSE "finish_retry"
  /\ UNCHANGED <<latchVars, nvs, plantVars, history, boots>>

\* persist_fault_locked: code, then latch, then commit.  A value that was set
\* may become durable at once or at the commit; any of the calls may fail.
Finish == IF txn.op = "clear" THEN "finish_clear" ELSE "finish_retry"
Target == [latch |-> txn.op = "persist", code |-> txn.code]

NvsCallFails ==
  /\ pc \in Writing
  /\ pc' = Finish
  /\ nvs' \in IF pc = "commit" THEN {nvs, Target} ELSE {nvs}
  /\ UNCHANGED <<latchVars, attemptRecent, txn, plantVars, history, boots>>

NvsSet ==
  /\ \/ pc = "set_code"  /\ pc' = "set_latch" /\ nvs' \in {nvs, [nvs EXCEPT !.code = Target.code]}
     \/ pc = "set_latch" /\ pc' = "commit"    /\ nvs' \in {nvs, [nvs EXCEPT !.latch = Target.latch]}
  /\ UNCHANGED <<latchVars, attemptRecent, txn, plantVars, history, boots>>

NvsCommit ==
  /\ pc = "commit"
  /\ pc' = Finish
  /\ nvs' = Target
  /\ txn' = [txn EXCEPT !.ok = TRUE]
  /\ UNCHANGED <<latchVars, attemptRecent, plantVars, history, boots>>

\* Mutant: the result of the write is ignored.
ClearCommitsUnwritten == ClearStateSafe /\ txn.gen = generation

\* Second validation, under the guard.
ClearCommits == txn.ok /\ ClearStateSafe /\ txn.gen = generation

\* Mutant: a clear does not end the generation it cleared.
CommitClearSameGeneration ==
  /\ generation' = generation
  /\ latched' = FALSE /\ fault' = "OK"
  /\ clearRequested' = FALSE /\ persistPending' = FALSE
  /\ hazardOpen' = FALSE
  /\ pc' = "service"
  /\ UNCHANGED attemptRecent

\* The latch opens; clears deferred before it are of an older generation.
CommitClear ==
  /\ generation' = generation + 1
  /\ latched' = FALSE /\ fault' = "OK"
  /\ clearRequested' = FALSE /\ persistPending' = FALSE
  /\ hazardOpen' = FALSE
  /\ pc' = "service"
  /\ UNCHANGED attemptRecent

\* Mutant: the record that the clear erased is not queued again.
KeepLatchOnly ==
  /\ pc' = "retry"
  /\ UNCHANGED <<persistPending, attemptRecent, generation, latched, fault,
                 clearRequested, hazardOpen>>

\* The latch stays and its record is queued again, without the retry pause.
KeepLatch ==
  /\ persistPending' = (persistPending \/ latched)
  /\ attemptRecent' = (attemptRecent /\ ~latched)
  /\ pc' = "retry"
  /\ UNCHANGED <<generation, latched, fault, clearRequested, hazardOpen>>

FinishClear ==
  /\ pc = "finish_clear"
  /\ IF ClearCommits THEN CommitClear ELSE KeepLatch
  /\ txn' = NoTxn
  /\ UNCHANGED <<inhibited, deferredClear, clearGeneration, nvs, plantVars,
                 asked, stopped, boots>>

\* Mutant: the generations are compared the wrong way round.
RecordedOld == txn.ok /\ txn.gen # generation

\* What was written is still what should be.
Recorded == txn.ok /\ txn.gen = generation

FinishRetry ==
  /\ pc = "finish_retry"
  /\ persistPending' = (persistPending /\ ~Recorded)
  /\ pc' = "service" /\ txn' = NoTxn
  /\ UNCHANGED <<latched, inhibited, clearRequested, fault, generation, deferredClear,
                 clearGeneration, attemptRecent, nvs, plantVars, history, boots>>

\* The worker has the lowest priority of one core: a woken control pass comes
\* before its next step.
StorageWorker ==
  /\ ~woken
  /\ \/ ServiceTake \/ ValidateClear \/ RetryBegin \/ NvsSet \/ NvsCommit
     \/ NvsCallFails \/ FinishClear \/ FinishRetry

Commands == StartJob \/ SafeStop \/ EmergencyStop \/ RequestClear \/ Inhibit

Next == Commands \/ ControlTask \/ SampleAges \/ RetryPauseEnds \/ StorageWorker \/ Reboot

Spec == Init /\ [][Next]_vars

\* The control task and the worker are periodic, and commands are too far apart
\* to keep the worker from running; time passes; no NVS call fails forever.
\* Users, failures and power loss owe nothing.
FairSpec ==
  /\ Spec
  /\ WF_vars(ControlTask) /\ SF_vars(StorageWorker) /\ WF_vars(RetryPauseEnds)
  /\ \A op \in {"clear", "persist"} :
       /\ \A at \in {"set_code", "set_latch"} : SF_vars(~woken /\ txn.op = op /\ pc = at /\ NvsSet)
       /\ SF_vars(~woken /\ txn.op = op /\ NvsCommit)

-------------------------------------------------------------------------------
(***************************************************************************)
(* Properties                                                              *)
(***************************************************************************)

\* A clear transaction owns the record: it has passed the first validation, or
\* has already failed and is about to queue the record again.
Clearing == txn.op = "clear" /\ pc \in Writing \cup {"finish_clear"}

\* A hazard that was tripped and not cleared keeps the controller latched, and
\* its record is durable, queued to be written, or in the hands of one clear
\* that will restore it if it does not commit (safety_latch_service).
HazardIsRecorded ==
  hazardOpen => latched /\ (persistPending \/ nvs.latch \/ Clearing)

\* A controller that may heat has no latched record left in flash that the next
\* boot would bring back: clears are persisted first, and a retry that runs
\* beside them never writes a latch that was cleared (retry_persist).
UnlatchedMeansErased == ~latched => ~nvs.latch

\* The NVS transactions of the latch never run while the SSR conducts: a trip
\* cuts power before its record is queued, and a clear is validated first.
NoWriteWhileHeating == pc \in Writing => ~ssr

\* A runtime inhibit cannot be cleared before a restart, whatever clear was in
\* flight when it came.
InhibitHolds == inhibited => latched

\* The latch opens, other than by a restart.
Cleared == latched /\ ~latched' /\ boots' = boots

\* The latch opens only if someone asked for it since it was last set: a
\* request, a deferred clear or a transaction that is older than the fault does
\* not clear it.
ClearNeedsRequest == [][Cleared => asked]_vars

\* A queued fault record is eventually written, or its fault is cleared.
RecordEventuallyWritten == persistPending ~> ~persistPending

\* No clear is deferred or under way, and the record is what the latch needs: an
\* open latch has none, and after a clear that did not open it the record, which
\* that clear may have erased, is durable.
ClearSettled ==
  /\ ~deferredClear /\ txn.op # "clear" /\ ~persistPending
  /\ ~latched \/ inhibited \/ nvs.latch

\* Every clear that the control task deferred ends: the worker takes it, comes
\* through both validations and the NVS calls between them (safety_latch_service)
\* and leaves the latch open, or closed with a durable record; or the controller
\* is inhibited, or a restart forgets it.  Only a further request by a user,
\* which starts another clear, may put that off.
ClearSettles ==
  \A b \in 0..MaxBoots :
    ((deferredClear \/ txn.op = "clear") /\ boots = b) ~>
      (ClearSettled \/ clearRequested \/ boots # b)

\* The part of the latch in the contract of the whole: nothing starts under it,
\* a pass under it ends job and heat, and it opens only on an idle, cold controller,
\* whatever clear, trip or command overtakes another.
Contract == INSTANCE JobContract WITH
  job <- IF job THEN {"work"} ELSE {}, heating <- ssr
JobImplemented == Contract!Spec

\* Stated by the panel and BLE events of an emergency stop ("latched per-boot
\* panic-off; explicit safe clear required"): a clear that was asked for before
\* the stop does not open the latch after it.
PanicDefeatsOlderClear == [][Cleared => ~stopped]_vars
===============================================================================
