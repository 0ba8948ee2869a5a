------------------------------ MODULE HeatSession ------------------------------
(***************************************************************************)
(* One heating session among its neighbours: the policy guard and the      *)
(* maintenance reservation (app_state.c), the durable session marker       *)
(* (session_journal.c), the storage worker (settings_deferred.c), the      *)
(* other tasks that write flash, and the control pass that drives the SSR  *)
(* (safety.c, heater.c).  Every step holds the policy guard, except the    *)
(* flash writes, which are steps of their own.                             *)
(*                                                                         *)
(* The latch is only set or open here; FaultLatch models how it is cleared.*)
(***************************************************************************)
EXTENDS Naturals

CONSTANTS
  CheckpointTasks,  \* reserve with checkpoint_begin: the recorder
  SetupTasks,       \* with network_setup_begin: Wi-Fi, printer, calibration,
                    \* the REST token that BLE sets
  ColdTasks,        \* with maintenance_begin: OTA, factory reset, the same over REST
  MaxBoots          \* bound on the number of restarts

Tasks == CheckpointTasks \cup SetupTasks \cup ColdTasks

ASSUME TasksAssumption ==
  /\ CheckpointTasks \cap SetupTasks = {}
  /\ (CheckpointTasks \cup SetupTasks) \cap ColdTasks = {}
  /\ "storage" \notin Tasks  \* the storage worker is not one of them
ASSUME BootsAssumption == MaxBoots \in Nat

VARIABLES
  latch, inhibited,
  job,        \* what is on: work (work_on), scheduled (scheduled_preheat_enabled)
  cycle,      \* the flags set beside it: a timed cycle (the *_running flags), keep warm
  ssr, fan,   \* the outputs as the last control pass left them
  temp,       \* the last measurement: cold (< 30), cool (< 45) or else hot
  maint,      \* g_maintenance
  holder,     \* what each task does with the reservation
  prepared, dirty, pc,  \* the session journal and the storage worker
  marker,     \* durable: NVS shu1_session/dirty
  boots,
  warm,        \* history: heated since the outputs were last seen off and cool
  interrupted  \* history: power was lost while warm, and no clear since

policyVars  == <<latch, inhibited, job, cycle>>
outputVars  == <<ssr, fan, temp>>
journalVars == <<prepared, dirty, pc, marker>>
vars == <<policyVars, outputVars, maint, holder, journalVars, boots, warm, interrupted>>

Marking   == {"mark", "marked", "mark_failed"}
Unmarking == {"unmark", "unmarked", "unmark_failed"}

TypeOK ==
  /\ latch \in BOOLEAN /\ inhibited \in BOOLEAN /\ (inhibited => latch)
  /\ job \subseteq {"scheduled", "work"} /\ cycle \subseteq {"timed", "keep_warm"}
  /\ ssr \in BOOLEAN /\ fan \in BOOLEAN /\ temp \in {"cold", "cool", "hot"}
  /\ maint \in BOOLEAN
  /\ holder \in [Tasks -> {"idle", "holds", "kept"}]
  /\ prepared \in BOOLEAN /\ dirty \in BOOLEAN /\ marker \in BOOLEAN
  /\ pc \in {"idle", "flush"} \cup Marking \cup Unmarking
  /\ boots \in 0..MaxBoots
  /\ warm \in BOOLEAN /\ interrupted \in BOOLEAN

(***************************************************************************)
(* Admission (app_state.c)                                                 *)
(***************************************************************************)
\* Mutant: a start does not ask the latch.
StartAllowedLatched == ~maint /\ ~inhibited

StartAllowed == ~maint /\ ~latch /\ ~inhibited

\* Mutant: outputs that a stopped job has not given up yet are ignored.
SetupAllowedEarly == ~maint /\ job = {} /\ cycle = {}

SetupAllowed      == ~maint /\ job = {} /\ cycle = {} /\ ~ssr /\ ~fan
CheckpointAllowed == ~latch /\ ~inhibited /\ temp # "hot" /\ SetupAllowed
ColdAllowed       == ~latch /\ temp = "cold" /\ SetupAllowed

(***************************************************************************)
(* Boot: app_main with the journal's and the latch's init.                 *)
(***************************************************************************)

\* restored: a durable fault record; failed: NVS or the journal is unreadable.
BootLatch(restored, failed) == marker \/ restored \/ failed

\* sanitize clears the job of the loaded settings; the marker stays.
Boot ==
  /\ \E restored, failed \in BOOLEAN :
       /\ latch' = BootLatch(restored, failed)
       /\ inhibited' = failed
       /\ dirty' = (marker /\ ~failed)
  /\ job' = {} /\ cycle' = {}
  /\ ssr' = FALSE /\ fan' = FALSE /\ temp' = "hot"
  /\ maint' = FALSE /\ holder' = [t \in Tasks |-> "idle"]
  /\ prepared' = FALSE /\ pc' = "idle"
  /\ interrupted' = (interrupted \/ warm)
  /\ UNCHANGED <<marker, warm>>

Init ==
  /\ latch = FALSE /\ inhibited = FALSE /\ job = {} /\ cycle = {}
  /\ ssr = FALSE /\ fan = FALSE /\ temp = "hot"
  /\ maint = FALSE /\ holder = [t \in Tasks |-> "idle"]
  /\ prepared = FALSE /\ dirty = FALSE /\ pc = "idle" /\ marker = FALSE
  /\ boots = 0 /\ warm = FALSE /\ interrupted = FALSE

\* Power loss or a reset at any point.
PowerLoss == boots < MaxBoots /\ boots' = boots + 1 /\ Boot

(***************************************************************************)
(* Commands                                                                *)
(***************************************************************************)
StartWork ==
  /\ StartAllowed
  /\ job' \in {{"work"}, job \cup {"work"}} /\ cycle' \in SUBSET (cycle \cup {"timed"})
  /\ UNCHANGED <<latch, inhibited, outputVars, maint, holder, journalVars, boots, warm,
                 interrupted>>

Schedule ==
  /\ StartAllowed
  /\ job' = job \cup {"scheduled"}
  /\ UNCHANGED <<latch, inhibited, cycle, outputVars, maint, holder, journalVars, boots,
                 warm, interrupted>>

\* Safe stop, or (panic) an emergency stop that also latches for this boot.
Stop ==
  /\ job' = {} /\ cycle' = {}
  /\ \E panic \in BOOLEAN : latch' = (latch \/ panic)
  /\ UNCHANGED <<inhibited, outputVars, maint, holder, journalVars, boots, warm, interrupted>>

\* A command that ends one mode (preheat, drying, dry-out, health test, the
\* schedule) and is not a stop; what stays on has to be admissible.
EndMode ==
  /\ ~maint
  /\ \E ended \in {"scheduled", "work"} : job' \in {job, job \ {ended}}
  /\ job' # {} => StartAllowed
  /\ cycle' \in {cycle, cycle \ {"timed"}}
  /\ UNCHANGED <<latch, inhibited, outputVars, maint, holder, journalVars, boots, warm,
                 interrupted>>

\* A runtime failure of a command, the control task or a worker.
Inhibit ==
  /\ latch' = TRUE /\ inhibited' = TRUE
  /\ UNCHANGED <<job, cycle, outputVars, maint, holder, journalVars, boots, warm, interrupted>>

\* The commit of an explicit clear (FaultLatch!CommitClear).
ClearLatch ==
  /\ latch /\ ~inhibited /\ job = {} /\ ~ssr
  /\ latch' = FALSE /\ interrupted' = FALSE
  /\ UNCHANGED <<inhibited, job, cycle, outputVars, maint, holder, journalVars, boots, warm>>

(***************************************************************************)
(* The control pass                                                        *)
(***************************************************************************)

\* What the workflow updates may make of job and cycle.  The session watchdog
\* ends the work and leaves keep warm set; a timed cycle runs out on its own, and
\* a dry-out that has lost its work to another command turns it on again.
Workflow(j, c) ==
  \/ j = job /\ c \in {cycle, cycle \ {"timed"}}
  \/ "work" \in job /\ j = job /\ c = cycle \cup {"keep_warm"}
  \/ "work" \in job /\ j = job \ {"work"} /\ c \in SUBSET cycle
  \/ "scheduled" \in job /\ j = {"work"} /\ c = cycle \cup {"timed"} /\ StartAllowed
  \/ "scheduled" \in job /\ j = {} /\ c = {}
  \/ "timed" \in cycle /\ j = job \cup {"work"} /\ c = cycle

\* The final governors and shu1_heater_set.
HeatAdmitted(demand) ==
  demand /\ "work" \in job' /\ fan' /\ prepared /\ ~maint /\ ~latch' /\ ~inhibited

ControlPass ==
  /\ \E trip, demand \in BOOLEAN, j \in SUBSET {"scheduled", "work"},
        c \in SUBSET {"timed", "keep_warm"} :
       /\ latch' = (latch \/ trip)
       /\ Workflow(j, c)
       /\ IF latch' THEN job' = {} /\ cycle' = {} ELSE job' = j /\ cycle' = c
       /\ fan' \in BOOLEAN
       /\ ssr' = HeatAdmitted(demand)
  /\ temp' \in {"cold", "cool", "hot"}
  /\ warm' = (ssr' \/ (warm /\ (fan' \/ temp' = "hot")))
  /\ UNCHANGED <<inhibited, maint, holder, journalVars, boots, interrupted>>

\* The last sample gets older than 1500 ms.
SampleAges ==
  /\ temp # "hot" /\ temp' = "hot"
  /\ UNCHANGED <<policyVars, ssr, fan, maint, holder, journalVars, boots, warm, interrupted>>

(***************************************************************************)
(* The storage worker: the session journal and the settings flush          *)
(***************************************************************************)

\* Mutant: a marker found at boot is taken for the one of this session.
JournalMarkOnce ==
  /\ pc = "idle" /\ ~latch /\ ~inhibited /\ job # {} /\ ~prepared /\ ~dirty
  /\ pc' = "mark"
  /\ UNCHANGED <<policyVars, outputVars, maint, holder, prepared, dirty, marker, boots, warm,
                 interrupted>>

JournalMark ==
  /\ pc = "idle" /\ ~latch /\ ~inhibited /\ job # {} /\ ~prepared
  /\ pc' = "mark"
  /\ UNCHANGED <<policyVars, outputVars, maint, holder, prepared, dirty, marker, boots, warm,
                 interrupted>>

\* Mutant: the marker is cleared as soon as the job is over.
UnmarkAllowedHot == ~latch /\ ~inhibited /\ ~maint /\ job = {} /\ dirty

UnmarkAllowed == job = {} /\ dirty /\ CheckpointAllowed

JournalUnmark ==
  /\ pc = "idle" /\ UnmarkAllowed
  /\ pc' = "unmark" /\ maint' = TRUE /\ prepared' = FALSE
  /\ UNCHANGED <<policyVars, outputVars, holder, dirty, marker, boots, warm, interrupted>>

\* nvs_set_u8 and nvs_commit; a failure leaves the old value or the new one.
WriteMarker ==
  /\ \/ pc = "mark"   /\ \/ pc' = "marked"   /\ marker' = TRUE
                         \/ pc' = "mark_failed" /\ marker' \in {marker, TRUE}
     \/ pc = "unmark" /\ \/ pc' = "unmarked" /\ marker' = FALSE
                         \/ pc' = "unmark_failed" /\ marker' \in {marker, FALSE}
  /\ UNCHANGED <<policyVars, outputVars, maint, holder, prepared, dirty, boots, warm, interrupted>>

\* Mutant: the reservation of a failed write is not returned.
UnmarkEndsLate == maint' = (pc # "unmarked")

UnmarkEnds == maint' = FALSE

JournalFinish ==
  /\ pc' = "idle"
  /\ \/ /\ pc = "marked"
        /\ dirty' = TRUE /\ prepared' = TRUE
        /\ UNCHANGED <<latch, inhibited, maint>>
     \/ /\ pc = "unmarked"
        /\ dirty' = FALSE /\ UnmarkEnds
        /\ UNCHANGED <<latch, inhibited, prepared>>
     \/ /\ pc \in {"mark_failed", "unmark_failed"}
        /\ latch' = TRUE /\ inhibited' = TRUE
        /\ IF pc = "mark_failed" THEN UNCHANGED maint ELSE UnmarkEnds
        /\ UNCHANGED <<prepared, dirty>>
  /\ UNCHANGED <<job, cycle, outputVars, holder, marker, boots, warm, interrupted>>

FlushBegin ==
  /\ pc = "idle" /\ CheckpointAllowed
  /\ pc' = "flush" /\ maint' = TRUE
  /\ UNCHANGED <<policyVars, outputVars, holder, prepared, dirty, marker, boots, warm, interrupted>>

\* Mutant: the reservation outlives the flush.
FlushEndKept ==
  /\ pc = "flush"
  /\ pc' = "idle"
  /\ UNCHANGED <<policyVars, outputVars, maint, holder, prepared, dirty, marker, boots, warm,
                 interrupted>>

FlushEnd ==
  /\ pc = "flush"
  /\ pc' = "idle" /\ maint' = FALSE
  /\ UNCHANGED <<policyVars, outputVars, holder, prepared, dirty, marker, boots, warm, interrupted>>

StorageWorker == JournalMark \/ JournalUnmark \/ WriteMarker \/ JournalFinish
                 \/ FlushBegin \/ FlushEnd

(***************************************************************************)
(* The other tasks that reserve maintenance                                *)
(***************************************************************************)
Reserve(t) ==
  /\ holder[t] = "idle"
  /\ \/ t \in CheckpointTasks /\ CheckpointAllowed
     \/ t \in SetupTasks /\ SetupAllowed
     \/ t \in ColdTasks /\ ColdAllowed
  /\ maint' = TRUE
  /\ holder' = [holder EXCEPT ![t] = "holds"]
  /\ UNCHANGED <<policyVars, outputVars, journalVars, boots, warm, interrupted>>

\* The task is done, or has failed before anything was switched.
Release(t) ==
  /\ holder[t] = "holds"
  /\ maint' = FALSE
  /\ holder' = [holder EXCEPT ![t] = "idle"]
  /\ UNCHANGED <<policyVars, outputVars, journalVars, boots, warm, interrupted>>

\* A new boot slot was selected or settings were erased: the reservation is
\* kept until the restart, which may never come if its task cannot be created.
Keep(t) ==
  /\ t \in ColdTasks /\ holder[t] = "holds"
  /\ holder' = [holder EXCEPT ![t] = "kept"]
  /\ UNCHANGED <<policyVars, outputVars, maint, journalVars, boots, warm, interrupted>>

Restart(t) == holder[t] = "kept" /\ PowerLoss

Next ==
  \/ PowerLoss
  \/ StartWork \/ Schedule \/ Stop \/ EndMode \/ Inhibit \/ ClearLatch
  \/ ControlPass \/ SampleAges
  \/ StorageWorker
  \/ \E t \in Tasks : Reserve(t) \/ Release(t) \/ Keep(t) \/ Restart(t)

Spec == Init /\ [][Next]_vars

\* The control task and the storage worker are periodic, and a task that holds
\* the reservation ends (its waits have deadlines).  The worker asks for the
\* checkpoint every 100 ms, so it gets it some day if it is free again and again.
FairSpec ==
  /\ Spec
  /\ WF_vars(JournalMark) /\ WF_vars(WriteMarker) /\ WF_vars(JournalFinish)
  /\ WF_vars(FlushEnd) /\ SF_vars(JournalUnmark) /\ WF_vars(ControlPass)
  /\ \A t \in Tasks : WF_vars(Release(t) \/ Keep(t))

-------------------------------------------------------------------------------
(***************************************************************************)
(* Properties                                                              *)
(***************************************************************************)

\* Everyone who believes to own the maintenance reservation.
Owners == {t \in Tasks : holder[t] # "idle"}
          \cup (IF pc \in Unmarking \cup {"flush"} THEN {"storage"} ELSE {})

\* The one flag has one owner exactly while it is set: nobody ends the
\* reservation of another, and none is left behind.
MaintenanceOwned ==
  /\ maint <=> Owners # {}
  /\ \A a, b \in Owners : a = b

\* Nothing writes flash while the SSR conducts: reserved tasks, and the marker,
\* whose first write needs no reservation but keeps the journal not ready.
NoFlashWhileHeating ==
  ssr => ~maint /\ pc \notin Marking

\* From the first heat until the outputs were seen off and cool, the marker is
\* durable, so that no power loss in between goes unnoticed.
HotMeansMarked == warm => marker

\* A readiness the control pass may act on stands for a durable marker, which
\* the worker remembers to clear.
ReadyMeansMarked == prepared => marker /\ dirty

\* A session that power loss interrupted keeps the latch set until an explicit
\* clear.
InterruptedIsLatched == interrupted => latch

Session == INSTANCE SessionContract WITH
  marked <- marker, heating <- ssr, hot <- warm, locked <- latch

\* Heating implements the abstract session: every step of the firmware is a
\* step of the contract or changes nothing the contract sees.
SessionImplemented == Session!Spec

\* The session keeps the contract of job, latch and output.
Contract == INSTANCE JobContract WITH latched <- latch, heating <- ssr
JobImplemented == Contract!Spec

\* Work that was accepted gets its marker and with it heat, unless it ends or
\* the latch is set: no reservation or queued write can hold it back for ever.
WorkIsAdmitted == "work" \in job ~> (prepared \/ "work" \notin job \/ latch)

\* Idle and cool, no timed cycle left to run out, no restart outstanding.
SafeIdle == /\ ~latch /\ job = {} /\ ~ssr /\ ~fan /\ temp # "hot"
            /\ "timed" \notin cycle
            /\ \A t \in Tasks : holder[t] # "kept"

\* A session that ended and cooled down, and left no cycle flag, closes its marker.
MarkerIsClosed == <>[](SafeIdle /\ cycle = {}) => <>[](latch \/ ~marker)
===============================================================================
