------------------------------- MODULE Workflow -------------------------------
(***************************************************************************)
(* The heating functions of the SnapHeater firmware: AUTO, manual hold,    *)
(* preheat, drying, dry-out and health test, with pause, tempering, keep   *)
(* warm, the scheduled preheat and the session limit.  Commands edit the   *)
(* settings under the policy guard (api_server.c, ble_control.c,           *)
(* physical_controls.c); the control task applies them in passes that run  *)
(* the functions in a fixed order (safety.c).                              *)
(*                                                                         *)
(* Temperatures are inputs: what a pass learns from sensors and printer.   *)
(* All durations are Duration.  Who may send a command is ControlLease's   *)
(* matter, how a latched fault is cleared FaultLatch's.                    *)
(***************************************************************************)
EXTENDS Naturals

CONSTANTS
  Duration,     \* every hold, drying, ramp, delay
  MaxSession,   \* manual_session_max_min
  MaxTime,      \* bound on the clock
  MaxCommands   \* bound on the number of commands

ASSUME DurationAssumption == Duration \in Nat \ {0} /\ MaxSession \in Nat \ {0}
ASSUME BoundsAssumption == MaxTime \in Nat \ {0} /\ MaxCommands \in Nat

Function == {"preheat", "drying", "dryout", "health"}   \* modes with a running flag
Mode == Function \cup {"auto", "manual"}
Timer == Function \cup {"tempering", "keep_warm"}

VARIABLES
  now, ticked,   \* the clock; it moved since the last control pass
  st,            \* g_state.settings
  auto,          \* AUTO: a print was seen; the printer was at work in the last pass
  commanded,     \* the command epoch moved since the last control pass
  latched,       \* the safety latch
  heat,          \* whose target the last pass heated to, or "none"
  commands,
  off,           \* history: OFF or a fault came, and no start since
  sinceStart     \* history: time since the work was last started or off

vars == <<now, ticked, st, auto, commanded, latched, heat, commands, off, sinceStart>>
history == <<off, sinceStart>>

\* at: the deadlines (of the health test: its start), 0 for none.
Settings == [mode: Mode, work: BOOLEAN, paused: BOOLEAN, pausedAt: Nat,
             running: SUBSET Function, at: [Timer -> Nat],
             phase: {"idle", "heating", "holding", "complete"},
             tempering: {"idle", "active", "complete"}, keepWarm: BOOLEAN,
             scheduled: BOOLEAN, startAt: Nat, session: Nat]

Source == Mode \cup {"tempering", "keep_warm", "none"}

NoContext == [seen |-> FALSE, active |-> FALSE]

\* A job is paused exactly while the time of its pause is known.
TypeOK ==
  /\ now \in 1..MaxTime /\ ticked \in BOOLEAN
  /\ st \in Settings /\ (st.paused <=> st.pausedAt > 0)
  /\ auto \in [seen: BOOLEAN, active: BOOLEAN] /\ commanded \in BOOLEAN
  /\ latched \in BOOLEAN /\ heat \in Source
  /\ commands \in 0..MaxCommands
  /\ off \in BOOLEAN /\ sinceStart \in Nat

Init ==
  /\ now = 1 /\ ticked = FALSE
  /\ st = [mode |-> "auto", work |-> FALSE, paused |-> FALSE, pausedAt |-> 0,
           running |-> {}, at |-> [t \in Timer |-> 0], phase |-> "idle",
           tempering |-> "idle", keepWarm |-> FALSE,
           scheduled |-> FALSE, startAt |-> 0, session |-> 0]
  /\ auto = NoContext /\ commanded = FALSE
  /\ latched = FALSE /\ heat = "none" /\ commands = 0
  /\ off = TRUE /\ sinceStart = 0

(***************************************************************************)
(* Edits of the settings that commands and passes share.                   *)
(***************************************************************************)

\* Mutant: a stop forgets the schedule.
StoppedKeepingSchedule(s) ==
  [s EXCEPT !.work = FALSE, !.paused = FALSE, !.pausedAt = 0, !.running = {},
            !.at = [t \in Timer |-> 0], !.phase = "idle", !.tempering = "idle",
            !.keepWarm = FALSE, !.session = 0]

\* shu1_settings_stop
Stopped(s) ==
  [s EXCEPT !.work = FALSE, !.paused = FALSE, !.pausedAt = 0, !.running = {},
            !.at = [t \in Timer |-> 0], !.phase = "idle", !.tempering = "idle",
            !.keepWarm = FALSE, !.scheduled = FALSE, !.startAt = 0, !.session = 0]

(***************************************************************************)
(* Commands.  An explicit start (work_on with work_mode) replaces the job; *)
(* a legacy command edits the fields it names and leaves the others.       *)
(***************************************************************************)

\* What the field of a function does when it is set ...
Begun(s, f, ble) ==
  LET ended == CASE f = "drying"  -> {"preheat"}
                 [] f = "preheat" -> IF ble THEN {"drying"} ELSE {}
                 [] OTHER         -> Function \ {f}
      begun == [s EXCEPT !.running = (s.running \ ended) \cup {f}, !.work = TRUE, !.mode = f]
  IN
  IF f \in s.running THEN s ELSE
  CASE f = "preheat" -> [begun EXCEPT !.phase = "heating", !.at["preheat"] = 0,
                                      !.at["drying"] = IF ble THEN 0 ELSE @]
    [] f = "drying"  -> [begun EXCEPT !.phase = "idle", !.at["preheat"] = 0,
                                      !.at["drying"] = now + Duration]
    [] OTHER         -> [begun EXCEPT !.at[f] = 0]

\* ... and when it is cleared: drying alone leaves work_on.
Ended(s, f) ==
  LET ended == [s EXCEPT !.running = s.running \ {f}, !.at[f] = 0,
                         !.work = s.work /\ f = "drying"]
  IN IF f # "preheat" THEN ended
     ELSE [ended EXCEPT !.phase = "idle",
                        !.mode = IF s.mode = "preheat" THEN "manual" ELSE s.mode]

\* Mutant: the clock of the tempering ramp is not moved.
ClocksMovedButTempering(s, elapsed) ==
  [t \in Timer |-> IF s.at[t] > 0 /\ t # "tempering" THEN s.at[t] + elapsed ELSE s.at[t]]

ClocksMoved(s, elapsed) ==
  [t \in Timer |-> IF s.at[t] > 0 THEN s.at[t] + elapsed ELSE 0]

Commit(s) ==
  /\ commands < MaxCommands
  /\ s.work \/ s.scheduled => ~latched
  /\ commands' = commands + 1
  /\ st' = s /\ commanded' = TRUE
  /\ UNCHANGED <<now, ticked, auto, latched, heat>>

Edit(s) == Commit(s) /\ off' = off /\ sinceStart' = IF s.work THEN sinceStart ELSE 0

\* An explicit start, with or without the running flag of its mode.
Start(m, flagged) ==
  LET s == [Stopped(st) EXCEPT !.mode = m] IN
  /\ flagged => m \in Function
  /\ Commit(IF flagged THEN Begun(s, m, FALSE) ELSE [s EXCEPT !.work = TRUE])
  /\ off' = FALSE /\ sinceStart' = 0

\* tempering_start_now: the ramp without a print before it.
StartTempering ==
  /\ Commit([Stopped(st) EXCEPT !.work = TRUE, !.mode = "manual", !.tempering = "active",
                                !.at["tempering"] = now + Duration])
  /\ off' = FALSE /\ sinceStart' = 0

\* The buttons of the panel: start_auto_mode, start_dry_mode, start_manual_mode.
PanelStart(m) ==
  /\ m \in {"auto", "drying", "manual"}
  /\ LET s == [Stopped(st) EXCEPT !.mode = m, !.work = TRUE, !.session = now] IN
     Commit(IF m = "drying" THEN Begun(s, m, FALSE) ELSE s)
  /\ off' = FALSE /\ sinceStart' = 0

Begin(f, ble) == Commit(Begun(st, f, ble)) /\ off' = FALSE /\ sinceStart' = sinceStart
TurnOn == Commit([st EXCEPT !.work = TRUE]) /\ off' = FALSE /\ sinceStart' = sinceStart
End(f) == Edit(Ended(st, f))

\* work_mode alone changes the mode under a running job.
SetMode(m) == Edit([st EXCEPT !.mode = m])

Schedule(on) ==
  /\ Commit([st EXCEPT !.scheduled = on, !.startAt = 0])
  /\ off' = (off /\ ~on) /\ sinceStart' = sinceStart

Pause ==
  /\ st.work /\ ~st.paused
  /\ Edit([st EXCEPT !.paused = TRUE, !.pausedAt = now])

Resume ==
  /\ st.work /\ st.paused
  /\ LET elapsed == IF now > st.pausedAt THEN now - st.pausedAt ELSE 0 IN
     Edit([st EXCEPT !.paused = FALSE, !.pausedAt = 0, !.at = ClocksMoved(st, elapsed)])

CancelTempering ==
  /\ st.tempering # "idle"
  /\ Edit([st EXCEPT !.tempering = "idle", !.at["tempering"] = 0])

\* work_on:false, safe_stop: apply_safe_stop.
SafeStop == Commit([Stopped(st) EXCEPT !.mode = "auto"]) /\ off' = TRUE /\ sinceStart' = 0

\* The OFF button clears the flags, but neither the clocks nor the pause.
PanelStop ==
  /\ Commit([st EXCEPT !.work = FALSE, !.running = {}, !.scheduled = FALSE,
                       !.keepWarm = FALSE, !.tempering = "idle", !.phase = "idle",
                       !.session = 0])
  /\ off' = TRUE /\ sinceStart' = 0

Command ==
  \/ \E m \in Mode, flagged \in BOOLEAN : Start(m, flagged)
  \/ \E m \in Mode : PanelStart(m) \/ SetMode(m)
  \/ \E f \in Function, ble \in BOOLEAN : Begin(f, ble)
  \/ \E f \in Function : End(f)
  \/ \E on \in BOOLEAN : Schedule(on)
  \/ StartTempering \/ TurnOn \/ Pause \/ Resume \/ CancelTempering
  \/ SafeStop \/ PanelStop

(***************************************************************************)
(* The control pass.  Its functions take the settings one after another;   *)
(* in names what the pass reads: the printer, whether the chamber has      *)
(* reached the preheat band, whether the pause policy's time is up, how    *)
(* the user wants a print to finish, whether the schedule has an owner,    *)
(* and a fault.                                                            *)
(***************************************************************************)

Printer == [fresh: BOOLEAN, state: {"printing", "paused", "idle"}]
Silent == [fresh |-> FALSE, state |-> "idle"]
Finish == {"tempering", "tempering_zero", "keep_warm", "off"}
Readings == [printer: Printer, reached: BOOLEAN, stop: BOOLEAN, finish: Finish,
             owned: BOOLEAN, fault: {"none", "sensor", "other"}]

\* One of the readings that a pass cannot tell apart: the pause policy asks a
\* paused printer only, a stale printer is just active or idle, the end of a print
\* is fresh and idle, and a fault stops what the rest of the pass has done.
Inputs == {in \in Readings :
  /\ in.stop => in.printer.state = "paused"
  /\ in.printer.state = "paused" => in.printer.fresh \/ in.stop
  /\ in.finish # "off" => in.printer = [fresh |-> TRUE, state |-> "idle"]
  /\ in.fault # "none" => ~in.reached /\ ~in.printer.fresh /\ ~in.stop}

\* update_scheduled_preheat
ScheduleStep(s, in) ==
  CASE ~s.scheduled -> s
    [] s.scheduled /\ (latched \/ ~in.owned) -> Stopped(s)
    [] s.scheduled /\ ~latched /\ in.owned /\ s.startAt = 0 -> [s EXCEPT !.startAt = now + Duration]
    [] s.scheduled /\ ~latched /\ in.owned /\ s.startAt > now -> s
    [] OTHER -> [s EXCEPT !.scheduled = FALSE, !.running = s.running \cup {"preheat"},
                          !.phase = "heating", !.work = TRUE, !.mode = "preheat"]

\* update_pause_policy: SHU1_PAUSE_HOLD_STOP_AFTER
PauseStep(s, a, in) ==
  IF s.mode = "auto" /\ a.seen /\ in.printer.state = "paused" /\ in.stop
  THEN [s EXCEPT !.work = FALSE] ELSE s

\* preheat_update
PreheatStep(s, in) ==
  LET entered == IF s.phase \in {"idle", "complete"}
                 THEN [s EXCEPT !.phase = "heating", !.at["preheat"] = 0] ELSE s
  IN
  CASE s.mode # "preheat" ->
         IF s.phase = "complete" THEN s ELSE [s EXCEPT !.phase = "idle", !.at["preheat"] = 0]
    [] s.mode = "preheat" /\ "preheat" \notin s.running -> s
    [] s.mode = "preheat" /\ "preheat" \in s.running /\ entered.phase = "heating" ->
         IF in.reached
         THEN [entered EXCEPT !.phase = "holding", !.at["preheat"] = now + Duration]
         ELSE entered
    [] OTHER ->
         IF s.at["preheat"] > 0 /\ now >= s.at["preheat"]
         THEN [s EXCEPT !.running = s.running \ {"preheat"}, !.work = FALSE, !.phase = "complete"]
         ELSE s

\* dryout_update
DryOutStep(s) ==
  LET armed == IF s.at["dryout"] = 0
               THEN [s EXCEPT !.at["dryout"] = now + Duration, !.work = TRUE] ELSE s
  IN
  CASE s.mode # "dryout" \/ "dryout" \notin s.running -> s
    [] s.mode = "dryout" /\ "dryout" \in s.running /\ now < armed.at["dryout"] -> armed
    [] OTHER -> [armed EXCEPT !.running = s.running \ {"dryout"}, !.at["dryout"] = 0,
                              !.work = FALSE]

\* health_test_update: a broken sensor ends the test and leaves the job to the latch.
HealthStep(s, in) ==
  LET begun == IF s.at["health"] = 0 THEN [s EXCEPT !.at["health"] = now] ELSE s IN
  CASE s.mode # "health" \/ "health" \notin s.running -> s
    [] s.mode = "health" /\ "health" \in s.running /\ in.fault = "sensor" ->
         [begun EXCEPT !.running = s.running \ {"health"}]
    [] s.mode = "health" /\ "health" \in s.running /\ in.fault # "sensor"
       /\ now - begun.at["health"] < Duration -> begun
    [] OTHER -> [begun EXCEPT !.running = s.running \ {"health"}, !.work = FALSE]

\* start_tempering_if_user_enabled: a ramp of zero minutes is complete at once.
TemperingStarted(s, zero) ==
  CASE s.tempering = "active" -> s
    [] s.tempering # "active" /\ zero -> [s EXCEPT !.tempering = "complete", !.at["tempering"] = now]
    [] OTHER -> [s EXCEPT !.tempering = "active", !.at["tempering"] = now + Duration]

\* What the user chose for the end of a print; only "off" ends the work at once.
Finished(s, finish) ==
  CASE finish = "tempering" -> TemperingStarted(s, FALSE)
    [] finish = "tempering_zero" -> TemperingStarted(s, TRUE)
    [] finish = "keep_warm" -> [s EXCEPT !.keepWarm = TRUE, !.at["keep_warm"] = now + Duration]
    [] OTHER -> [s EXCEPT !.work = FALSE]

\* update_auto_context
AutoStep(s, a, in) ==
  LET p    == in.printer
      saw  == a.seen \/ (p.fresh /\ p.state = "printing")
      done == a.active /\ p.fresh /\ p.state = "idle" /\ saw
      s1   == IF done THEN Finished(s, in.finish) ELSE s
      over == s1.keepWarm /\ s1.at["keep_warm"] > 0 /\ now >= s1.at["keep_warm"]
      ends == over \/ (done /\ in.finish = "off")
      now_active == p.state \in {"printing", "paused"}
  IN IF ~s.work \/ s.mode # "auto"
     THEN [s |-> s, auto |-> [seen |-> FALSE, active |-> now_active]]
     ELSE [s |-> IF over THEN [s1 EXCEPT !.keepWarm = FALSE, !.work = FALSE] ELSE s1,
           auto |-> [seen |-> saw /\ ~ends, active |-> now_active]]

\* update_tempering
TemperingStep(r) ==
  IF r.s.tempering = "active" /\ now >= r.s.at["tempering"]
  THEN [s |-> [r.s EXCEPT !.tempering = "complete", !.work = FALSE],
        auto |-> [r.auto EXCEPT !.seen = FALSE]]
  ELSE r

\* drying_timer_expired
DryingExpired(s) ==
  s.mode = "drying" /\ "drying" \in s.running /\ s.at["drying"] > 0 /\ now >= s.at["drying"]

\* Mutant: the session limit waits for the end of a pause.
WatchdogUnlessPaused(s) ==
  CASE s.paused -> s
    [] ~s.paused /\ ~s.work -> [s EXCEPT !.session = 0]
    [] ~s.paused /\ s.work /\ s.session = 0 -> [s EXCEPT !.session = now]
    [] ~s.paused /\ s.work /\ s.session > 0 /\ now - s.session < MaxSession -> s
    [] OTHER -> [s EXCEPT !.work = FALSE]

\* update_session_watchdog: ends the work, but not keep warm, dry-out or health test.
Watchdog(s) ==
  CASE ~s.work -> [s EXCEPT !.session = 0]
    [] s.work /\ s.session = 0 -> [s EXCEPT !.session = now]
    [] s.work /\ s.session > 0 /\ now - s.session < MaxSession -> s
    [] OTHER -> [s EXCEPT !.work = FALSE, !.running = s.running \ {"preheat", "drying"},
                          !.at = [t \in Timer |-> IF t \in {"preheat", "drying", "tempering"}
                                                  THEN 0 ELSE s.at[t]],
                          !.phase = "idle", !.tempering = "idle"]

\* The chain that reports one ending per pass: a later check waits for the next pass.
Limited(s, done) ==
  CASE done \cap {"dryout", "health"} # {} -> s
    [] done \cap {"dryout", "health"} = {} /\ ~s.paused /\ DryingExpired(s) ->
         [s EXCEPT !.running = s.running \ {"drying"}, !.work = FALSE, !.at["drying"] = 0]
    [] done = {"preheat"} /\ (s.paused \/ ~DryingExpired(s)) -> s
    [] OTHER -> Watchdog(s)

\* A pause ends with its job.
Settled(s) == IF s.work THEN s ELSE [s EXCEPT !.paused = FALSE, !.pausedAt = 0]

\* The functions of one pass, in their order; a paused job skips them.
Functions(s, a, in) ==
  LET s1 == PauseStep(ScheduleStep(s, in), a, in)
      s2 == PreheatStep(s1, in)
      s3 == DryOutStep(s2)
      s4 == HealthStep(s3, in)
      r  == TemperingStep(AutoStep(s4, a, in))
      done == {f \in {"preheat"} : f \in s1.running \ s2.running}
              \cup {f \in {"dryout"} : f \in s2.running \ s3.running}
              \cup {f \in {"health"} : f \in s3.running \ s4.running}
  IN [s |-> r.s, auto |-> r.auto, done |-> done]

\* Whose target effective_target_for_settings returns.
Target(s) ==
  CASE s.tempering = "active" -> "tempering"
    [] s.tempering # "active" /\ s.keepWarm -> "keep_warm"
    [] s.tempering # "active" /\ ~s.keepWarm /\ s.mode \in Function \ s.running -> "none"
    [] OTHER -> s.mode

\* auto_mode_heater_allowed; the bed is hot while a print runs.
HeatAllowed(s, a, printer) ==
  \/ s.mode # "auto" \/ s.tempering = "active"
  \/ printer.fresh /\ (printer.state = "printing" \/ (printer.state = "paused" /\ a.seen))

\* What the functions and the limits make of the settings; a command since
\* the last pass has made the context of AUTO void.
Outcome(in) ==
  LET a == IF commanded THEN NoContext ELSE auto IN
  IF st.paused THEN [s |-> st, auto |-> a, done |-> {}] ELSE Functions(st, a, in)

\* The latch that a fault trips, and the heat the pass admits.
Apply(s1, a, in) ==
  LET trips == \/ in.fault = "other"
               \/ in.fault = "sensor" /\ (s1.work \/ s1.running # {} \/ s1.keepWarm \/ heat # "none")
      s2 == IF latched \/ trips THEN Stopped(s1) ELSE s1
  IN /\ st' = s2 /\ auto' = a
     /\ latched' = (latched \/ trips)
     /\ heat' = IF s2.work /\ ~s2.paused /\ in.fault = "none" /\ HeatAllowed(s2, a, in.printer)
                THEN Target(s2) ELSE "none"
     /\ off' = (off \/ latched') /\ sinceStart' = IF s2.work THEN sinceStart ELSE 0

\* One pass: functions, limits, faults, latch and heat, committed as one step.
ControlPass ==
  /\ \E in \in Inputs :
     /\ in.owned \/ st.scheduled   \* told apart by a schedule, a preheat, AUTO only
     /\ in.reached => "preheat" \in st.running \/ st.scheduled
     /\ in.printer # Silent => st.mode = "auto" /\ st.work
     /\ in.stop \/ in.finish # "off" => auto.seen
     /\ \E r \in {Outcome(in)} : \E s \in {Settled(Limited(r.s, r.done))} : Apply(s, r.auto, in)
  /\ ticked' = FALSE /\ commanded' = FALSE
  /\ UNCHANGED <<now, commands>>

\* Passes are frequent: the clock moves at most once between two of them.
Tick ==
  /\ now < MaxTime /\ ~ticked
  /\ now' = now + 1 /\ ticked' = TRUE
  /\ sinceStart' = IF st.work THEN sinceStart + 1 ELSE 0
  /\ UNCHANGED <<st, auto, commanded, latched, heat, commands, off>>

\* FaultLatch: a clear that was asked for opens the latch of a safe controller.
ClearLatch ==
  /\ latched /\ ~st.work
  /\ latched' = FALSE
  /\ UNCHANGED <<now, ticked, st, auto, commanded, heat, commands, history>>

Next == Command \/ ControlPass \/ Tick \/ ClearLatch

Spec == Init /\ [][Next]_vars

(***************************************************************************)
(* Properties.                                                             *)
(***************************************************************************)

\* After an OFF or a fault nothing turns the work on again but a start:
\* no schedule, no function left running, no end of a print, no resume
\* and no clear of the fault (docs/CURRENT_IMPLEMENTATION.md:9, README.md:110).
OffStaysOff == off => ~st.work

\* No work outlives the session limit, by pauses, resumes, schedules or by
\* functions that follow one another; a tick that no pass has seen yet comes
\* on top (docs/LOCAL_HISTORY_PAUSE_UPDATE.md:14).
SessionIsBounded == sinceStart <= MaxSession + (IF ticked THEN 1 ELSE 0)

\* A step of the control task: no command, and the clock stands.
Passed == now' = now /\ commands' = commands

\* A paused job loses none of its time: what every armed clock of the list in
\* job_commands.h (which lacks the schedule's start and the first sight of a paused
\* printer) has left is the same before and after each pass, tick and resume of a
\* paused job.
Left(s, t, time) == IF t = "health" THEN time - s.at[t] ELSE s.at[t] - time
PauseKeepsTime ==
  [][st.paused /\ st'.work /\ (commands' = commands \/ Resume) =>
       \A t \in Timer : st.at[t] > 0 /\ st'.at[t] > 0 =>
         Left(st', t, IF st'.paused THEN st'.pausedAt ELSE now')
           = Left(st, t, st.pausedAt)]_vars

\* The functions keep the contract of job, latch and output.
Contract == INSTANCE JobContract WITH
  job <- (IF st.work THEN {"work"} ELSE {}) \cup (IF st.scheduled THEN {"scheduled"} ELSE {}),
  heating <- heat # "none", boots <- 0
JobImplemented == Contract!Spec

\* Documented (docs/advanced_chamber_features_v1_0.md:136): keep warm warms.
KeepWarmHeats ==
  [][Passed /\ st'.keepWarm /\ st'.work /\ ~st'.paused /\ ~latched'
     /\ st'.tempering # "active" => heat' = "keep_warm"]_vars
=============================================================================
