# Verification of the SnapHeater U1 firmware

SnapHeater U1 is an ESP32-C3 firmware that heats a printer enclosure through a
solid-state relay (SSR), with phone applications that command it over REST and
BLE. This directory models the parts of it where a wrong order of steps would
burn power, lose a fault, or leave a chamber hot with nobody responsible; the
modules are checked with TLC on small instances and proved with TLAPS for every
value of their constants.

    tlc -workers 2 -config HeatSession.cfg MCHeatSession     # one run
    tlapm HeatSession_proofs.tla                             # one module's proofs

PROJECT.json lists the runs, the mutants each property is tested against, the
source lines of every definition, the hazards, the findings and the theorems.

## 1. Inventory

### Tasks and what they share

| task (priority) | what it does | modelled in |
|---|---|---|
| control task `safety.c` | every `SHU1_CONTROL_PERIOD_MS` or when woken: reads sensors, runs the functions of the job, finds faults, applies latch and limits, drives SSR and fan | FaultLatch, HeatSession, ControlLease, Workflow, Thermal |
| storage worker `settings_deferred.c` (1) | latch service, session marker, settings flush, each with NVS writes | FaultLatch, HeatSession, Storage |
| HTTP handlers `api_server.c` | REST commands, heartbeats, OTA, reset | ControlLease, Workflow, FaultLatch, HeatSession |
| NimBLE host `ble_control.c` | BLE commands | ControlLease, Workflow, FaultLatch |
| panel `physical_controls.c` (4) | four buttons | ControlLease, Workflow, FaultLatch |
| Wi-Fi setup and reconnect workers `wifi_sta.c` (3) | try a network and save it, keep it connected | WifiSetup, HeatSession |
| Moonraker worker `moonraker_client.c` (5) | owns the websocket client, watches the connection, detects the printer, sets up another, ventilates | PrinterLink, Symbiont, ControlLease (end of a setup) |
| websocket task (event handler of `moonraker_client.c`) | assembles messages; answers, notifications, readiness of Klippy | MessageBuffer, PrinterLink, Symbiont |
| Wi-Fi event task, zero-crossing interrupt | driver events; `fan_triac.c` | WifiSetup, Airflow |
| recorder `recorder.c` (1) | reserves maintenance for its checkpoint | HeatSession |

They share: `g_state.settings` (the job), the fault latch, the control lease, one
`g_maintenance` flag and the NVS. Almost everything is done under one recursive
*policy guard* (`shu1_control_guard_begin`). A command handler or a control pass
is therefore one step. What is not: NVS writes (the guard is given up for
seconds), the second reading of the clock inside a control pass, REST heartbeats
(they take only the lease's own spin lock), and everything between two passes.

### Components, their state, and what makes them correct

| component | state | operations | correct when |
|---|---|---|---|
| fault latch `safety_latch.c` | latched, fault, inhibited, clear request, generation, the NVS record | init, inhibit, trip, request and take a clear, service, retry | no hazard is lost in RAM or flash, no clear is older than its fault, no flash write while the SSR conducts |
| session journal `session_journal.c` | prepared, dirty, the NVS marker | mark before heat, unmark at safe idle, boot | heat only behind a durable marker; a session cut short locks the next boot |
| maintenance reservation `app_state.c` | `g_maintenance` | three conditions to reserve, end | one owner at a time, never together with heat |
| control lease `control_lease.c` | owner, lease id, deadline, revision | claim, authorise, heartbeat, release, expire | stale and repeated commands have no effect, a running job has an owner |
| workflow modes `safety.c`, `job_commands.h` | mode, `work_on`, running flags, deadlines, pause, schedule, tempering, keep warm, session clock | starts, legacy edits, pause and resume, stops; nine functions per pass | OFF is final, sessions are bounded, pauses cost no time, an ending ends |
| settings mailbox `settings_deferred.c` | one pending snapshot, revisions, the keys in NVS | defer, flush, factory reset | what is reported as saved is in flash; a reset stays a reset |
| sensor supervision `sensor_watch.h` | still window, frozen flag, warning deadline per channel | one step per sample | a frozen sensor stops heat once and in time |
| fan and zero crossings `fan_triac.c`, `heater.c` | requested, gate, edge age, gap flag, purge | requests, withdrawal, interrupt | no heat without airflow or over a gap, residual heat is blown away |
| printer client `moonraker_client.c` | connection, subscription, printer state, setup | connect, subscribe, autodetect, prove, save, roll back | no old data is taken for fresh, only a proven printer is saved, data returns |
| message buffer `ws_message_buffer.h` | bytes, fill, the frame under way, active | one event per chunk or control frame | a message is handed over whole or not at all, within 16 KiB |
| symbiont ventilation `symbiont_engine.h` | active, pending, phase, demand | query, write, read back, notifications | no write without a valid observation; the fans get the demand |
| Wi-Fi workers `wifi_sta.c` | candidate and saved network, driver, event bits | try, save, restore, reconnect | nothing unproven is saved, the saved network comes back |
| recorder, event log, usage counters, profiles | rings, counters, tables | append, read | statistics and notifications (section 13) |

### Behaviour that is hard to test

PROJECT.json lists each hazard at its line. In groups:

* *Windows of the flash writes*: a fault, a stop, an inhibit or a power loss while
  a clear or a marker is being written and the guard is given up.
* *Reservations*: five tasks, three conditions, one flag without an owner's name.
* *Late commands*: two clients on two channels with status that is already old,
  repeated and reordered; a lease that expires between two readings of the clock.
* *Functions left running*: legacy commands edit single fields, so flags,
  deadlines and phases of an earlier job meet a later one.
* *Old news*: answers, notifications and driver events that belong to an earlier
  connection, candidate, query or setup, and a copy of the printer state that is
  written back after others have written.
* *Gaps between samples*: what happens between two control passes, or between two
  readings within one, and is over when the pass looks.
* *Power loss* between any two of these steps.

## 2. Plan

| # | module | composes | status |
|---|---|---|---|
| 1 | JobContract, FaultLatch | FaultLatch implements JobContract | modelled, checked, proved |
| 2 | SessionContract, HeatSession | HeatSession implements SessionContract and JobContract | modelled, checked, proved |
| 3 | ControlLease | implements JobContract | modelled, checked, proved |
| 4 | Workflow | implements JobContract | modelled, checked, proved |
| 5 | Thermal | SensorWatch and Airflow in one control pass | modelled, checked, proved |
| 6 | PrinterLink | - | modelled, checked, proved |
| 7 | Storage | WifiSetup, settings mailbox and factory reset over one reservation | modelled, checked, proved |
| 8 | Symbiont | - | modelled, checked, proved |
| 9 | MessageBuffer | the messages PrinterLink takes as whole | modelled, checked, proved |
| 10 | button debounce, heater hysteresis, recorder ring and usage counters, OTA's pending marker, the Android stop gate | - | left |

Theorems worth proving next: that the setup of PrinterLink and the setup of
WifiSetup implement one abstract "try, prove, save or go back"; that the mailbox of
Storage implements a register with one pending write. Every safety and action
property of the passing runs is proved.

How the modules divide the control pass. Each looks at the whole pass and keeps
what its own state depends on: FaultLatch the latch's end of it, HeatSession the
admission of heat, ControlLease hand-over and release, Workflow functions and
limits, Thermal sensors, airflow and outputs. What one of them computes is a free
input of the others: "a hazard" for Workflow is what FaultLatch and Thermal decide,
"demand" for Thermal is what Workflow decides. The one relation Thermal keeps of
its inputs is that heat is demanded only while `work_on` is set, which is how
`safety.c` computes the demand.

Four modules have a job and a latch of their own, and what one of them takes for
granted of the others is written down in `JobContract`: a command adds to the job
only while the latch is open (`Request`); a stop or a failure takes away (`Withdraw`);
only a control pass turns the output on, for a job that is on, and it ends the job
under a set latch and makes no schedule (`Pass`); the latch is opened only on an
idle controller with the output off (`Clear`); a restart resumes nothing. FaultLatch,
HeatSession, ControlLease and Workflow are each proved to implement it
(`JobImplemented`; the runs of all but ControlLease check it too), so none of them lets the job, the latch or the output do what
the other three rule out. Writing it down showed that three of them were too narrow:
their passes could not turn work on that a dry-out had left behind
(`dryout_update`, section 12), and now they can. Thermal has its own, coarser stop
and clear and is left out.

## 3. FaultLatch: the fault latch and its record

| model | code |
|---|---|
| `latched`, `fault`, `inhibited`, `clearRequested`, `persistPending`, `generation`, `deferredClear`, `clearGeneration` | the statics of `safety_latch.c:19-29` |
| `pc`, `txn` | where the storage worker is in `shu1_safety_latch_service` and `_retry_persist`, and their locals |
| `nvs` | the two keys, written one after the other and then committed |
| `job`, `ssr`, `rt` | what the latch reads of the job and of the last measurement |
| `woken` | `shu1_safety_wake`: the control task has been notified and runs first |
| `ControlPass` | the end of a pass: hazards, clear requests, the effect of the latch, admission of heat |
| `EmergencyStop`, `RequestClear`, `SafeStop`, `StartJob`, `Inhibit` | the handlers that touch the latch |
| `ServiceTake` ... `FinishRetry` | the worker, one action per section between giving up and taking the guard, one per NVS call, each of which may fail |
| `Reboot` | power loss at any point, with what `nvs` holds by then |

*Scheduling.* The ESP32-C3 has one core. The control task's priority is above the
worker's, so a notified control task runs before the worker goes on: `woken`
blocks the worker's actions. The NimBLE host task has a higher priority still, so
two commands may come without a pass between them; the model allows it.
`inhibited` has three sources (boot, a runtime failure, the commit check), all of
them the one action `Inhibit` or a boot.

*Synchronous trip and clear* (`shu1_safety_latch_trip`, `_clear`) are left out:
only host tests call them.

Runs. `fault_latch_safety`: two hazards (`ZERO_CROSS_LOST` needs a zero crossing to
be cleared, `OVERTEMP` does not), two generations after the first, one restart;
604k states. Two generations are enough for a clear that is one trip old and one
that is two trips old; one restart shows every content of flash to a boot.
`fault_latch_live`: one hazard, one further generation, no restart (a restart
merely forgets obligations). Fairness: the control task is periodic (`WF`); the
worker is periodic but can be held up by `woken` (`SF`); no NVS call fails for ever
(`SF` on its success); time passes. Users, failures and power loss are not fair.

`ClearNeedsRequest` follows a clear through three tasks: the command, the control
pass that passes it on and the worker that carries it out. `JobImplemented` maps the
latch, `job` (work only: the schedule is HeatSession's and ControlLease's) and `ssr`
to the contract.

`ClearSettles` follows a clear to its end: from the moment the control task defers it
until nothing of it is deferred, under way or queued and the latch is open or its
record durable. That a record is durable while the clear still waits does not
count, and a clear that erased the record and then failed has to write it again.
Users are not fair, so a new request may always start the next clear; nothing else
puts the end off.

`fault_latch_panic_lost` is a finding: see section 12.

## 4. HeatSession and SessionContract: the session among its neighbours

`SessionContract` is the promise in four variables: heat only behind a durable
mark, the mark goes only when the chamber is no longer hot, and a marked restart
locks. `HeatSession` is how the code keeps it.

| model | code |
|---|---|
| `maint`, `holder` | `g_maintenance` and who believes to own it |
| `SetupAllowed`, `CheckpointAllowed`, `ColdAllowed` | `network_setup_begin`, `checkpoint_begin`, `maintenance_begin` of `app_state.c` |
| `CheckpointTasks`, `SetupTasks`, `ColdTasks` | recorder; Wi-Fi, printer setup, calibration, the REST token set over BLE (`ble_control.c:574`); OTA, factory reset, the REST token set over REST (`api_server.c:1295`) |
| `prepared`, `dirty`, `pc` | the journal's flags and the worker's position |
| `marker` | `shu1_session/dirty` in NVS; a failing write may leave either value |
| `job`, `cycle` | `work_on` and schedule; the flags of functions, kept separate because they outlive `work_on` |
| `temp` | the last measurement in the three classes that the three conditions tell apart |
| `Reserve`, `Release`, `Keep`, `Restart` | a task's reservation; a factory reset keeps it until the device restarts |
| `PowerLoss` | RAM gone, `marker` kept, and `BootLatch` as `app_main` sets it |

The refinement `SessionImplemented == Session!Spec` maps `marked <- marker`,
`heating <- ssr`, `hot <- warm`, `locked <- latch`. `warm` is a history variable
(heated since the outputs were last seen off and cool): the code has no single
variable for "still hot". `JobImplemented` maps the same latch and output, and the
job with its schedule, to JobContract. A pass may turn work on for a timed function
whose flag was left behind (`Workflow`).

Run `heat_session`: one task of each kind, three starts of the firmware, 9,789
states. Two tasks of one kind behave like two kinds with the same condition, and
the theorem covers every set of tasks. Fairness: worker, control task and the end
of each reservation; the checkpoint of the worker is asked for every 100 ms, so
`JournalUnmark` is strongly fair. Nobody has to issue commands. `MarkerIsClosed` asks
for a session without leftover flags of functions: with one, the device does not
count as idle (section 12, observations).

## 5. ControlLease: who may command

| model | code |
|---|---|
| `ctl` | owner, lease id, age and revision of `control_lease.c:9-13` |
| `issuedTo` | which source each lease id was issued to; ids are numbered by issue, the 128 random bits are not modelled |
| `net` | commands under way: built from a status (`rev`, `lease`, `view`), delivered late, in any order, any number of times |
| `Deliver` | `settings_post_handler` and `handle_control_write`: the validity check, claim or authorise, the change of the job |
| `Stop`, `TurnOff`, `ClearCommand`, `SetupCommand`, `Heartbeat` | the other entries of both channels |
| `Panel` | the press: release first, then start, OFF or acknowledge |
| `ControlBegin`, `ControlEnd` | one control pass in two steps, because it reads the clock for the hand-over (`safety.c:1105`) and again for the schedule (`:543`) |
| `age`, `Tick` | time; a REST heartbeat may come between the halves of a pass |

Left out: calibration and factory reset (they release through the same
operation), the path for a missing settings mailbox, and the wrap of the 32-bit
revision (it skips its reserved value but then counts on to zero; 2^32 accepted
commands within one boot). The claim in the hand-over uses the revision read
under the same guard, so it cannot be stale, and the branch for its failure
(`safety.c:1110-1112`, a stop and an inhibit) is left out: no state would enter it. The revision does not advance when the *job* changes but
the owner does not, and no property says so.

Run `control_lease`: timeout 1, two different commands, one press; 883k states.
Two commands from two clients give every order of "accepted, superseded,
repeated, expired"; one step of the panel, a stop or an OFF is enough to pull
the session from under either. Fairness: the control task only.

## 6. Workflow: what a job does

| model | code |
|---|---|
| `st` | the part of `shu1_settings_t` that decides what runs (`app_state.h:92-179`); `at` holds the deadlines, for the health test its start |
| `auto` | `g_auto_print_context_seen` and whether the last printer state was active |
| `commanded` | the command epoch differs from the one the last pass saw: the context of AUTO is void |
| `Start`, `PanelStart`, `StartTempering` | explicit starts, which stop the old job first |
| `Begin`, `End`, `TurnOn`, `SetMode`, `Schedule`, `CancelTempering` | legacy fields, which edit and leave the rest; `ble` because BLE's preheat ends a drying and REST's does not |
| `Pause`, `Resume` | `job_commands.h`, with its list of clocks |
| `SafeStop`, `PanelStop` | OFF: `apply_safe_stop`, and the panel's shorter list |
| `Functions` | the order `ScheduleStep`, `PauseStep`, `PreheatStep`, `DryOutStep`, `HealthStep`, `AutoStep`, `TemperingStep` of `safety.c:1148-1157`, skipped while paused |
| `Limited` | the else-if chain of `safety.c:1160-1173` with drying timer and `Watchdog` |
| `Apply` | the faults that trip, what the latch does to the job, and the heat that is admitted |
| `Target`, `HeatAllowed` | whose target is used, and whether AUTO may heat |

Abstractions. Temperatures are inputs of a pass: whether the preheat band is
reached, the printer's state and its freshness, whether the pause policy's time is
up, how the user wants a print to end, whether the schedule still has an owner,
and a fault. All durations are one constant. The bed threshold of AUTO counts as
reached while a print runs. A command with several fields is several commands. The
armed output latch of a stopped job trips like any other fault. Acknowledgements,
targets, heat soak, pickup, the lowering of a target during a pause and the
clearing of the drying deadline of a drying that does not run are left out. The
health test is a start and an end. A pass runs at least once per tick of the
clock, because passes are a fraction of a second apart and durations are minutes.
`Inputs` and the guards of `ControlPass` leave out readings that no pass can tell apart
(the printer is read by AUTO only): this shortens the run and hides no behaviour of `st`.

Run `workflow`: duration 1, session limit 2, four points in time, three commands;
380k states. Three commands make start-pause-resume,
start-edit-edit and schedule-start-stop; four points in time let a session reach
its limit after a function has ended and after a pause. The system stops when
bounds are reached only in the sense that passes go on; no deadlock is ignored.

`OffStaysOff` is the property with the most hidden paths: a schedule, a due
preheat, a dry-out that arms itself (`safety.c:571`), the end of a print, a resume
and the clear of a fault must none of them turn `work_on` on again. `SessionIsBounded`
counts from the last start and not from the code's own clock, so that a clock
that is set back would show. `PauseKeepsTime` compares two states and is about every
clock of the list in `job_commands.h:24-29` that the model has. The start of a schedule and the
time the printer was first seen paused are not in that list: a resume does not move them,
and the property does not speak of them.

`workflow_keep_warm_cold` is a finding: see section 12.

## 7. PrinterLink: the connection to the printer

| model | code |
|---|---|
| `conf`, `saved` | `g_devcfg` and its record `mk_config` in flash; a printer stands for host, port and key |
| `client`, `link` | `g_client` and its socket; a `dead` one has lost its peer and nobody has noticed |
| `asked`, `notice` | requests the peer has not answered, an event of Klippy on its way |
| `pending`, `autodetect`, `wsValid` | `g_subscribe_pending`, `g_autodetect_pending`, `g_setup_ws_valid` |
| `pr`, `copy` | the shared printer state and the copy that `autodetect_from_object_array` holds while handlers of the other task go on |
| `OnConnected` ... `OnKlippyDown` | `websocket_event_handler` and `parse_moonraker_message`, one action per kind of message; ids the handler does not look at (2000 and later pings) have no action |
| `CreateClient`, `StartClient`, `WaitForSocket`, `StopSilent`, `Pass`, `Autodetect`, `FetchDone`, `Merge` | a turn of the loop of `moonraker_task` |
| `TakeSetup` ... `Finish` | `apply_setup`: probe, move the connection, prove it, save, or write the old record back, return, inhibit |
| `Connect`, `NetworkChanges`, `PeerForgets`, `KlippyChanges`, `Tick` | the library's reconnecting, the network, Moonraker and Klippy, time |

A status message is complete or partial: that is all `parse_object_update` makes of
it for freshness. Ages are counted in ticks up to the limit where they stop to
matter. The worker runs once in each tick unless a setup keeps it, and a printer
within reach answers within one; a retry time of the autodetection passes without
a clock. Handler and worker share the lock of the state and each handler is one
step; the autodetection, which reads, computes and writes back, is two. The merge
may undo what a handler wrote in between: `FreshIsRecent` says that the copy does
not make data younger than they are.

Run `printer_link`: two printers, both windows one tick, one setup; 838,680
states. Two printers are needed to confuse old and new; with one tick a message is
new, at the limit, or beyond it. Fairness: the tasks, the clock, and a printer that
answers when it is reached; a connection that is made again and again gets through
at last (`SF` on `OnConnected`, because the worker may stop a silent client in
between). Reaching the printer, Klippy and setups are not fair. `MCInit` names the
printer that is configured first; the other is its mirror image.

### MessageBuffer: from events to messages

PrinterLink takes messages as whole. That they are is `ws_message_buffer.h`:

| model | code |
|---|---|
| `rx` | `g_rx`, the buffer with the start of its frame, and what has been received of it |
| `Accumulate`, with `Control`, `Continues`, `Entered`, `Fits`, `Copied`, `Terminated`, `Rejected` | `shu1_ws_accumulate`, its early returns as disjuncts |
| `handed` | what the last event gave to `parse_moonraker_message` |
| `peer`, `StartFrame`, `Receive`, `ReceiveControl` | Moonraker and the websocket library: text and continuation frames, their chunks, control frames in between |
| `LoseConnection`, `OpenConnection` | the other events of `websocket_event_handler`; only a disconnect and a connect clear the buffer, an error does not |

`DeliversExactly` relates what is handed over to what the peer meant: each message
that fits, byte by byte, at its last chunk and only there, whatever lost, oversized
or unfinished message came before it. The environment is the websocket protocol: the
chunks of a frame come in order and complete, the library does not split off empty
chunks, and continuations come only within a message. For events that do not keep
to it a theorem says that the code stays within its buffer (`AnyEventInBounds`).

Run `message_buffer`: a buffer of four bytes, two messages of up to five; 3,397
states. Four bytes hold a message in two frames with two chunks each, five are the
first that are too many, and the second message meets everything the first one
leaves behind.

## 8. Storage and WifiSetup: what else is in flash

`WifiSetup` is the station: driver, event handler, `setup_worker` and
`reconnect_worker`. `Storage` puts it beside the mailbox of settings and the factory
reset, which all take the one maintenance reservation.

| model | code |
|---|---|
| `record`, `legacy`, `settings` | `wifi_config`, the key `ssid` of older firmware, the keys of the settings |
| `cfg`, `sta`, `on`, `late` | the driver: its configuration, what the station does, and an address event that is queued behind the stop |
| `bits`, `testing`, `busy`, `connected`, `retries` | event group and statics of `wifi_sta.c` |
| `pc`, `err`, `request`, `previous` | the locals of `setup_worker`; one action per driver or flash call, each of which may fail |
| `RenewCheck`, `RenewConnect` | `reconnect_worker`, which looks at its conditions and then connects |
| `pending`, `flush` | `revision # saved_revision` of the mailbox, what a flush writes outside the guard |
| `ResetBegin` ... `EraseLegacy` | the factory reset in the order it erases keys |
| `Restart`, `PowerLoss` | 1.2 s after a reset; at any step, between two keys, too |

*Scheduling.* The event task precedes the workers, so an event that is out is
handled before a worker goes on (`At` waits for `late`). Fifteen seconds are no
clock: `Wait` ends by an event or at any time. The sets of settings are told apart
only as the one deferred last, an older one, and some keys of each.

Run `storage` (671k states): networks `home` and `new`, one retry, flash with the record or only
with the legacy key. One retry distinguishes a handler that retries from one that
has given up; a setup may be repeated any number of times. `CHECK_DEADLOCK FALSE`,
because a device that is left alone without a network really has nothing more to
do. Fairness: both workers, and of the networks only that attempts end and that one
among many succeeds. `NetworkReturns` leaves out a station that a failed call of the
driver has left other than the flash says (`flaw`): the code has no answer to that
but the next setup or boot.

## 9. Thermal, SensorWatch and Airflow: what a pass does to the outputs

| model | code |
|---|---|
| `tracking`, `raw`, `still`, `on`, `suspect`, `warned`, `age`, `frozen` | `shu1_sensor_watch_t` |
| `WatchStep` | `shu1_sensor_watch_step`, with the cancellation by OFF in the control task |
| `fan`, `gate`, `signal`, `gapped` | requested and applied state, the last edge, the counter of gaps of `fan_triac.c` |
| `Edge`, `SignalLost` | `zero_cross_isr`; the loss is the age of the last edge, which nobody reports |
| `seen`, `heated`, `purge`, `armed`, `ready` | the locals of `control_task` that live from pass to pass |
| `Decide` | `safety.c` from the faults to `heater_set`, with the signal read three times in one pass |
| `Start`, `Stop`, `Pause`, `Clear` | what commands change of these |
| `Inhibit` | the latch set between two passes by the journal or the control task itself, with the work still on |

`stuckAt`, `stuckFor`, `lost` and `residual` are history: what has really not
moved, been lost or stayed hot, as opposed to what the code remembers of it.

A pass holds the guard and is one action; the interrupt comes between passes, and
within a pass the three readings of the signal may differ as one loss or one
return allows (`Follows`). Intervals between samples are either within or beyond
the greatest age of a sample, temperatures one of four classes, the hysteresis of
the heater any choice of `Wants`. `start_allowed`, which `armed` and `ready` ask
(`safety.c:963`, `:968`), also asks for the reservation; it is left out because work
and reservation exclude each other (HeatSession), so that only the latch remains.

Run `thermal`: two channels with two readings, window and output one interval,
grace two; 31,698 states, with symmetry among channels and among readings (no
liveness is checked). A channel that moves away and back needs two readings, one
suspicion to be answered while another is not needs two channels, and with a grace
of two intervals a warning can be older than a second suspicion.

`GapStopsHeat` speaks of sessions whose passes have seen the signal. That is the code's
own condition (`safety.c:1309`), and it leaves a case open: a signal that happens to be
away at each of these checks but is there at the other readings lets heat start
with `zc_seen_while_armed` still false, and a later gap is then overlooked.

## 10. Symbiont: the fans of the printer

| model | code |
|---|---|
| `s` | `g_symbiont`: active, pending, phase, demand, last fan, top cover required |
| `old`, `waiting` | two seconds have passed since `sent_ms`; `now < due_ms` |
| `Disengage`, `GiveUp`, `Ask` | `shu1_symbiont_next` and the sending by `symbiont_poll` |
| `OnNote`, `OnDone`, `OnFailed`, `OnObserved`, `OnIgnored` | `shu1_symbiont_notify`, `shu1_symbiont_response` |
| `wire`, `reply` | requests and answers under way; `live` when the id is the one waited for |
| `fan`, `cover`, `fit` | the printer: speeds, top cover, ready without alarm |
| `Override`, `ConditionChanges`, `Disconnect`, `JobChanges` | slicer, user and job |

Ids are unique, so an id that is no longer waited for is never waited for again:
the message is marked dead instead of numbered. `valid` and `basis` are history: that
an observation still describes the printer, and which fans a valid one showed to
differ. Speeds stand for ranges wider than the tolerance.

Run `symbiont`: two speeds, two messages under way and the notification of a write;
329,952 states. Two fans that differ at once are what `last` alternates between.
Fairness: the worker, the handlers, the printer and time. `CorrectionConverges` is
about a printer that settles down (`Settle`): a slicer may go on changing one fan,
but only between corrections, because each notification cancels the query under
way, and a storm of them really does starve the engine.

## 11. What is proved

Each `*_proofs` module proves `Spec => []IInv` from `Init => IInv` and one lemma per
action (or per operation that several actions share), and reads the properties
off `IInv`. The constants are free: assumptions are only their types, that the
sets of tasks are disjoint and do not contain the storage worker, that hazards
are hazard codes, that durations, limits and windows are positive, that the stale
window of the socket is no longer than that of the printer data, and that the
names for "no network" and "no reading" are neither.

* **FaultLatch_proofs.** The checked invariants are not inductive: nothing in them
  says what a transaction in flight will do when it comes back. `WorkerOwns` ties
  each position of the worker to one kind of transaction; `WrittenIsDurable` says
  what a finished write left in flash; `GenerationOrder` that nothing in flight is
  newer than the latch; `LatchCutsSoon` that the SSR is on beside a set latch only
  until the woken control task has run. `Requested` (the flag, the deferred clear and
  a clear in flight that is still of this generation all come from a request) is
  proved beside `IInv` and makes `ClearNeedsRequest` a consequence.
* **HeatSession_proofs.** `Journalled` (readiness stands for a marker nobody is
  writing), `Remembered` (what has to stay marked is not being unmarked) and
  `OneOwner` (the reservation, task by task); and the refinement of SessionContract,
  step by step.
* **ControlLease_proofs.** One lemma per operation of `control_lease.c` says that
  it keeps `CtlOK`, that dead leases stay dead, and that it either holds owner and
  revision or moves the revision on (`Moves`); the handlers only combine them.
  `NothingFromTheFuture` closes the induction: no message carries a revision the
  controller has not reached.
* **Workflow_proofs.** `Quiet` (no work, no schedule, no running flag) is what OFF
  leaves; `Keeps` says that a function of the pass keeps a quiet job quiet and the
  session's clock untouched, and is transitive, so the chain of functions needs one
  lemma per function. A function that ends leaves no work behind, except a health
  test ended by a broken sensor, whose fault trips the latch in the same pass: this
  is why the chain in `Limited`, which skips the watchdog when a function has
  ended, cannot lose the session limit. `Timed` relates the history variable to
  the code's clock. For `PauseKeepsTime`: a pass of a paused job leaves its
  clocks and the time of the pause alone (`PausedPass`), and a resume moves every
  armed clock by the length of the pause (`ResumeKeepsTime`).
* **PrinterLink_proofs.** `NeverYounger` extends freshness to the copy that the
  autodetection is about to write back; `Witnesses` says that what the flags claim of
  the candidate was seen on its own connection; `Durable` names, for each step of a
  setup, the configuration that runs and the one in flash. Of MessageBuffer it
  proves `BufferOK`, which any event keeps, and `Collects`: while the
  message still fits, the buffer is active and holds exactly the bytes that have
  arrived of it; from the frame on with which it no longer fits, it is not active.
* **Storage_proofs.** `OneOwner`: Wi-Fi worker, storage worker and reset exclude each
  other; `HasNetwork`: the station never tries the empty name and returns only to a
  configuration that was read; `TrialOK`: a bit that is set during a trial comes from
  the candidate; `FlashOK`: how far a reset has got is what flash lacks, and a flush
  that is not of the latest settings has a revision pending behind it.
* **Thermal_proofs.** `Watched`: what is stuck is suspected for the same reading, and
  the warning is at least as old as the suspicion, or the watch is frozen;
  `GapKnown`: a loss was counted or is still to be seen; `PurgeOwed`: residual heat is
  remembered and ventilated.
* **Symbiont_proofs.** `OneLive`: at most one message is waited for, on one side of
  the printer; `Valid`: what it says is true unless the request is old; `Based`: a
  correction that is due was observed. A write then follows from a due correction.

Four modules are proved to implement JobContract (section 2), each under the
mapping it declares: initial states map to initial states, and every step is one of
the contract's actions or leaves job, latch and output alone. ControlLease has no
output, so its mapping is the coarsest and is proved only. What each step may do to
job and output needs the type invariant and, in FaultLatch and HeatSession, that a
latch opens only where the second validation of a clear has looked.

Only model-checked: everything under fairness (`RecordEventuallyWritten`,
`ClearSettles`, `WorkIsAdmitted`, `MarkerIsClosed`, `IdleIsReleased`, `DataReturns`,
`CorrectionConverges`, `NetworkReturns`), because the prover has no ENABLED. Every
invariant, action property and refinement of the passing runs is proved. Where a type
invariant says no more than types, the proof (`TypeCorrect`) is all there is of it:
the runs spend their properties on what could go wrong.

## 12. Findings

Each has a run of its own whose counterexample is the behaviour.

1. *An emergency stop does not defeat an older clear* (`fault_latch_panic_lost`):
   `shu1_safety_latch_trip_volatile` does nothing on a controller that is already
   latched, so the generation does not move and a clear requested before the stop
   opens the latch after it.
2. *Keep warm never heats* (`workflow_keep_warm_cold`): it follows a print in AUTO,
   the printer is idle by then, and AUTO heats only for a printing or paused one.

Smaller observations without a run.

* *Latch and session.* A hazard found on a latched controller starts no new
  generation (`safety.c:1347`); the retry may persist a volatile `PANIC_OFF`
  (`safety_latch.c:171`); a session that ends by the watchdog leaves
  `keep_warm_active` (`safety.c:443`), the reservation then sees an active device
  (`app_state.c:89`), the marker stays and the next start is latched as if power had
  been lost; dropping only the generation comparison of the second validation of a
  clear changes nothing that can be observed, since the second look at the latch's
  state already rejects what it would reject.
* *Ownership.* A lease that expires between the two readings of the clock in one
  pass (`safety.c:1105`, `:543`) cancels the schedule instead of handing it over;
  every press at the panel releases the session, the acknowledge button included
  (`physical_controls.c:239`); a session that waits for its schedule is taken
  without `takeover` (`api_server.c:1147`); `docs/api.md:421` says output is forced
  off before a takeover, which is a plain claim.
* *Functions.* A tempering or keep warm that is still active decides the target of a
  later preheat (`safety.c:90`); the panel says "heater and fan forced off" where the
  latch turns the fan on (`physical_controls.c:126`, `safety.c:1365`); `docs/api.md`
  says 0 disables the session watchdog, the code reads it as 720 minutes
  (`safety.c:438`); a tempering of zero minutes completes at once and leaves
  `work_on` to the session limit (`safety.c:148`); a keep warm that began before a
  new print ends that print's heating when it runs out; a running flag that a mode
  change left behind makes a later legacy start of that mode a no-op; any command, a
  resume too, voids the context of AUTO (`safety.c:1097`), so that a print that ends
  during a pause is not noticed; a dry-out that has begun has no end until its first
  pass (`safety.c:571`), which sets `work_on` with it, so that a legacy
  `preheat_running:false` in between, which clears only `work_on`, is undone by that
  pass, where `job_commands.h:6-7` says that only an explicit start replaces a job.
* *Printer.* A subscription that Moonraker refuses because Klippy is not ready stays
  pending: no handler looks for the error, and `g_subscribe_pending` keeps
  autodetection and subscription from being tried again on that connection
  (`moonraker_client.c:875`). The polling of the control subset goes on, so AUTO has
  fresh data all the same (`DataReturns`). The autodetection's read-modify-write can
  restore an online state that was cleared meanwhile, until the next message
  (`FreshIsRecent` speaks of the age of the data, not of that flag); answers to pings are not looked at
  although a comment calls them a check that the connection lives.
* *Wi-Fi and settings.* An `esp_wifi_start` that fails on the way back leaves Wi-Fi
  down until the next setup or boot; a save that fails may have changed the record
  while the previous network is restored; a reset that is cut short after the record
  falls back to the legacy key at the next boot; the import of a stock configuration
  reads the namespace it writes, so it never finds one; a failed factory reset keeps
  the reservation until the restart (`settings_store.c:391`); the revision a reset was
  authorised for is not compared again once it has the reservation
  (`api_server.c:707-718`), so a flush or a setup may come in between, and only that
  nothing of it survives is checked.
* *Sensors.* A freeze deadline that passes exactly at a missing sample stops heat by
  the stale fault, so that OFF then cancels the warning; and the case of section 9.

## 13. What is not modelled, and why

* *Floating-point arithmetic over measurements*: ADC conversion, thermal limits,
  energy and stability statistics, the curve of the ventilation demand. TLC has no
  reals, and the classes that control tells apart are inputs of the models.
* *Libraries*: GPIO, triac timing within a half wave, NVS and flash internals, TLS,
  HTTP, websocket and BLE stacks; their failures appear as nondeterministic outcomes.
* *Parsing and validation of single fields* (JSON, BLE frames): data, not control.
* *Material profiles and advisories, event log, usage counters, recorder ring*:
  tables, rings and counters with no effect on heat, a reservation or a record; the
  log drops by design and promises nothing.
* *Debounce and gestures of the buttons, the hysteresis of the heater, OTA's
  pending marker*: in the plan (row 10).
* *The applications*: their commands are the nondeterministic clients of
  ControlLease and Workflow; the Android stop gate is in the plan.
