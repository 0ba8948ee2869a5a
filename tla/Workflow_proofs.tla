--------------------------- MODULE Workflow_proofs ---------------------------
(***************************************************************************)
(* Proofs about Workflow for every duration, session limit and number of   *)
(* commands.  A stopped job is quiet: no work, no schedule and no function *)
(* left running.  Every function of a pass keeps a quiet job quiet and     *)
(* leaves the start of the session alone unless it makes the job quiet.    *)
(***************************************************************************)
EXTENDS Workflow, TLAPS

Quiet(s) == ~s.work /\ ~s.scheduled /\ s.running = {}

\* Settings as they may be at this time.
Fits(s) ==
  /\ s \in Settings /\ (s.paused <=> s.pausedAt > 0)
  /\ s.session <= now /\ s.pausedAt <= now

\* What a function of a pass may do to the settings s.
Keeps(s, t) ==
  /\ Fits(t) /\ (Quiet(s) => Quiet(t)) /\ (t.scheduled => s.scheduled)
  /\ t.session = s.session \/ Quiet(t)
  /\ t.mode = s.mode \/ t.mode = "preheat"

\* How long a session may have gone on: the pass starts its clock, and ends
\* it before it is used up.
Unseen == IF ticked THEN 1 ELSE 0
Timed ==
  /\ ~st.work => sinceStart = 0
  /\ st.work /\ st.session = 0 => sinceStart <= Unseen
  /\ st.work /\ st.session > 0 =>
       sinceStart <= now - st.session + 1 /\ sinceStart <= MaxSession + Unseen

IInv == TypeOK /\ Fits(st) /\ (off => Quiet(st)) /\ Timed

-------------------------------------------------------------------------------
\* shu1_settings_stop leaves a quiet job.
LEMMA StoppedQuiet ==
  ASSUME NEW s, Fits(s), now \in Nat
  PROVE  Fits(Stopped(s)) /\ Quiet(Stopped(s)) /\ Stopped(s).mode = s.mode
         /\ Stopped(s).session = 0 /\ ~Stopped(s).scheduled
<1>1. Stopped(s) \in Settings
  BY DEF Fits, Settings, Stopped, Timer, Function
<1>2. /\ Quiet(Stopped(s)) /\ Stopped(s).mode = s.mode /\ Stopped(s).session = 0
      /\ Stopped(s).paused = FALSE /\ Stopped(s).pausedAt = 0
  BY DEF Fits, Settings, Stopped, Quiet
<1> QED
  BY <1>1, <1>2 DEF Fits, Quiet

LEMMA ScheduleKeeps ==
  ASSUME NEW s, Fits(s), now \in Nat, NEW in \in Inputs
  PROVE  Keeps(s, ScheduleStep(s, in))
<1> DEFINE u == ScheduleStep(s, in)
<1>0. s \in Settings /\ "preheat" \in Mode
  BY DEF Fits, Mode, Function
<1> SUFFICES Keeps(s, u)
  OBVIOUS
<1> HIDE DEF u
<1>1. CASE ~s.scheduled
  BY <1>1 DEF u, ScheduleStep, Keeps, Fits
<1>2. CASE s.scheduled /\ (latched \/ ~in.owned)
  <2>1. u = Stopped(s)
    BY <1>2 DEF u, ScheduleStep
  <2> QED
    BY <2>1, StoppedQuiet DEF Keeps, Quiet
<1>3. CASE s.scheduled /\ ~latched /\ in.owned
  <2>1. ~Quiet(s)
    BY <1>3 DEF Quiet
  <2>2. CASE s.startAt = 0
    <3>1. u = [s EXCEPT !.startAt = now + Duration]
      BY <1>3, <2>2 DEF u, ScheduleStep
    <3> QED
      BY <2>1, <3>1, DurationAssumption DEF Keeps, Fits, Settings
  <2>3. CASE s.startAt # 0 /\ s.startAt > now
    BY <1>3, <2>1, <2>3 DEF u, ScheduleStep, Keeps, Fits
  <2>4. CASE s.startAt # 0 /\ ~(s.startAt > now)
    <3>1. u = [s EXCEPT !.scheduled = FALSE, !.running = s.running \cup {"preheat"},
                        !.phase = "heating", !.work = TRUE, !.mode = "preheat"]
      BY <1>3, <2>4 DEF u, ScheduleStep
    <3>2. u \in Settings
      BY <1>0, <3>1 DEF Settings, Function
    <3>3. u.session = s.session /\ u.paused = s.paused /\ u.pausedAt = s.pausedAt
          /\ u.mode = "preheat" /\ ~u.scheduled
      BY <3>1 DEF Fits, Settings
    <3> QED
      BY <2>1, <3>2, <3>3 DEF Keeps, Fits
  <2> QED
    BY <2>2, <2>3, <2>4
<1> QED
  BY <1>1, <1>2, <1>3

LEMMA PauseKeeps ==
  ASSUME NEW s, Fits(s), NEW a, NEW in \in Inputs
  PROVE  Keeps(s, PauseStep(s, a, in))
BY DEF PauseStep, Keeps, Fits, Settings, Quiet

LEMMA PreheatKeeps ==
  ASSUME NEW s, Fits(s), now \in Nat, NEW in \in Inputs
  PROVE  LET u == PreheatStep(s, in) IN
         /\ Keeps(s, u) /\ u.mode = s.mode
         /\ s.running # u.running => ~u.work /\ u.mode = "preheat"
<1> DEFINE u == PreheatStep(s, in)
           entered == IF s.phase \in {"idle", "complete"}
                      THEN [s EXCEPT !.phase = "heating", !.at["preheat"] = 0] ELSE s
<1>0. s \in Settings
  BY DEF Fits
<1> SUFFICES /\ Keeps(s, u) /\ u.mode = s.mode
             /\ s.running # u.running => ~u.work /\ u.mode = "preheat"
  OBVIOUS
<1> HIDE DEF u
<1>1. CASE s.mode # "preheat"
  <2>1. u = IF s.phase = "complete" THEN s ELSE [s EXCEPT !.phase = "idle", !.at["preheat"] = 0]
    BY <1>1 DEF u, PreheatStep
  <2>2. u \in Settings
    BY <1>0, <2>1 DEF Settings, Timer, Function
  <2>3. /\ u.session = s.session /\ u.paused = s.paused /\ u.pausedAt = s.pausedAt
        /\ u.mode = s.mode /\ u.running = s.running
        /\ u.work = s.work /\ u.scheduled = s.scheduled
    BY <2>1 DEF Fits, Settings
  <2> QED
    BY <2>2, <2>3 DEF Keeps, Fits, Quiet
<1>2. CASE s.mode = "preheat" /\ "preheat" \notin s.running
  BY <1>2 DEF u, PreheatStep, Keeps, Fits
<1>3. CASE s.mode = "preheat" /\ "preheat" \in s.running
  <2>1. ~Quiet(s)
    BY <1>3 DEF Quiet
  <2>2. Fits(entered) /\ entered.mode = s.mode /\ entered.session = s.session
        /\ entered.running = s.running /\ entered.scheduled = s.scheduled
        /\ entered.phase \in {"heating", "holding"}
        /\ (entered.phase = "holding" => entered = s)
    BY DEF Fits, Settings, Timer, Function
  <2>3. CASE entered.phase = "heating"
    <3>1. u = IF in.reached
              THEN [entered EXCEPT !.phase = "holding", !.at["preheat"] = now + Duration]
              ELSE entered
      BY <1>3, <2>3 DEF u, PreheatStep
    <3> HIDE DEF entered
    <3>2. u \in Settings
      <4>1. entered \in Settings /\ now + Duration \in Nat
        BY <2>2, DurationAssumption DEF Fits
      <4>2. [entered EXCEPT !.phase = "holding", !.at["preheat"] = now + Duration] \in Settings
        BY <4>1 DEF Settings, Timer, Function
      <4> QED
        BY <3>1, <4>1, <4>2
    <3>3. /\ u.session = s.session /\ u.paused = entered.paused
          /\ u.pausedAt = entered.pausedAt /\ u.mode = s.mode /\ u.running = s.running
          /\ u.scheduled = s.scheduled
      BY <2>2, <3>1 DEF Fits, Settings
    <3> QED
      BY <2>1, <2>2, <3>2, <3>3 DEF Keeps, Fits
  <2>4. CASE entered.phase = "holding"
    <3>1. u = IF s.at["preheat"] > 0 /\ now >= s.at["preheat"]
              THEN [s EXCEPT !.running = s.running \ {"preheat"}, !.work = FALSE,
                             !.phase = "complete"]
              ELSE s
      BY <1>3, <2>4 DEF u, PreheatStep
    <3>2. u \in Settings
      BY <1>0, <3>1 DEF Settings
    <3>3. /\ u.session = s.session /\ u.paused = s.paused /\ u.pausedAt = s.pausedAt
          /\ u.mode = s.mode /\ u.scheduled = s.scheduled /\ (u.running # s.running => ~u.work)
      BY <3>1 DEF Fits, Settings
    <3> QED
      BY <1>3, <2>1, <3>2, <3>3 DEF Keeps, Fits
  <2> QED
    BY <2>2, <2>3, <2>4
<1> QED
  BY <1>1, <1>2, <1>3

LEMMA DryOutKeeps ==
  ASSUME NEW s, Fits(s), now \in Nat
  PROVE  LET u == DryOutStep(s) IN
         /\ Keeps(s, u) /\ u.mode = s.mode
         /\ s.mode # "dryout" => u = s
         /\ s.running # u.running => ~u.work /\ u.mode = "dryout"
<1> DEFINE u == DryOutStep(s)
           armed == IF s.at["dryout"] = 0
                    THEN [s EXCEPT !.at["dryout"] = now + Duration, !.work = TRUE] ELSE s
<1>0. s \in Settings /\ now + Duration \in Nat
  BY DurationAssumption DEF Fits
<1>1. armed \in Settings
  BY <1>0 DEF Settings, Timer, Function
<1>2. /\ armed.session = s.session /\ armed.paused = s.paused /\ armed.mode = s.mode
      /\ armed.pausedAt = s.pausedAt /\ armed.running = s.running
      /\ armed.scheduled = s.scheduled
  BY <1>0 DEF Settings
<1>3. CASE s.mode # "dryout" \/ "dryout" \notin s.running
  BY <1>3 DEF DryOutStep, Keeps, Fits
<1>4. CASE s.mode = "dryout" /\ "dryout" \in s.running /\ now < armed.at["dryout"]
  <2>1. u = armed
    BY <1>4 DEF DryOutStep
  <2> HIDE DEF armed, u
  <2>2. Keeps(s, u)
    BY <1>1, <1>2, <1>4, <2>1 DEF Keeps, Fits, Quiet
  <2> QED
    BY <1>2, <1>4, <2>1, <2>2 DEF u
<1>5. CASE s.mode = "dryout" /\ "dryout" \in s.running /\ ~(now < armed.at["dryout"])
  <2>1. u = [armed EXCEPT !.running = s.running \ {"dryout"}, !.at["dryout"] = 0, !.work = FALSE]
    BY <1>5 DEF DryOutStep
  <2> HIDE DEF armed, u
  <2>2. u \in Settings
    BY <1>0, <1>1, <2>1 DEF Settings, Timer, Function
  <2>3. /\ u.session = s.session /\ u.paused = s.paused /\ u.pausedAt = s.pausedAt
        /\ u.mode = s.mode /\ u.scheduled = s.scheduled /\ ~u.work
    BY <1>1, <1>2, <2>1 DEF Settings
  <2>4. Keeps(s, u)
    BY <1>5, <2>2, <2>3 DEF Keeps, Fits, Quiet
  <2> QED
    BY <1>5, <2>3, <2>4 DEF u
<1> QED
  BY <1>3, <1>4, <1>5

\* A health test that ends with the work on has met a broken sensor.
LEMMA HealthKeeps ==
  ASSUME NEW s, Fits(s), now \in Nat, NEW in \in Inputs
  PROVE  LET u == HealthStep(s, in) IN
         /\ Keeps(s, u) /\ u.mode = s.mode
         /\ s.mode # "health" => u = s
         /\ s.running # u.running => ~u.work \/ in.fault = "sensor"
<1> DEFINE u == HealthStep(s, in)
           begun == IF s.at["health"] = 0 THEN [s EXCEPT !.at["health"] = now] ELSE s
<1>0. s \in Settings
  BY DEF Fits
<1>1. begun \in Settings
  BY <1>0 DEF Settings, Timer, Function
<1>2. /\ begun.session = s.session /\ begun.paused = s.paused /\ begun.mode = s.mode
      /\ begun.pausedAt = s.pausedAt /\ begun.running = s.running
      /\ begun.scheduled = s.scheduled
  BY <1>0 DEF Settings
<1>3. CASE s.mode # "health" \/ "health" \notin s.running
  BY <1>3 DEF HealthStep, Keeps, Fits
<1>4. CASE s.mode = "health" /\ "health" \in s.running
  <2>1. \/ u = begun
        \/ in.fault = "sensor" /\ u = [begun EXCEPT !.running = s.running \ {"health"}]
        \/ u = [begun EXCEPT !.running = s.running \ {"health"}, !.work = FALSE]
    BY <1>4 DEF HealthStep
  <2> HIDE DEF begun, u
  <2>0. s.running \ {"health"} \in SUBSET Function
    BY <1>0 DEF Settings
  <2>2. u \in Settings
    BY <2>0, <1>1, <2>1 DEF Settings
  <2>3. /\ u.session = s.session /\ u.paused = s.paused /\ u.pausedAt = s.pausedAt
        /\ u.mode = s.mode /\ u.scheduled = s.scheduled
        /\ (u.running # s.running => ~u.work \/ in.fault = "sensor")
    BY <1>1, <1>2, <2>1 DEF Settings
  <2>4. Keeps(s, u)
    BY <1>4, <2>2, <2>3 DEF Keeps, Fits, Quiet
  <2> QED
    BY <1>4, <2>3, <2>4 DEF u
<1> QED
  BY <1>3, <1>4

\* Two settings that differ in what the end of a print may touch.
Alike(s, u) ==
  /\ u \in Settings /\ u.session = s.session /\ u.paused = s.paused
  /\ u.pausedAt = s.pausedAt /\ u.mode = s.mode /\ u.running = s.running
  /\ u.scheduled = s.scheduled /\ (u.work => s.work)

LEMMA AlikeKeeps ==
  ASSUME NEW s, NEW u, Fits(s), Alike(s, u)
  PROVE  Keeps(s, u)
BY DEF Keeps, Fits, Quiet, Alike

LEMMA FinishedAlike ==
  ASSUME NEW s \in Settings, NEW finish, now \in Nat
  PROVE  Alike(s, Finished(s, finish))
<1> DEFINE u == Finished(s, finish)
<1>1. now + Duration \in Nat
  BY DurationAssumption
<1>2. \/ u = s
      \/ u = [s EXCEPT !.tempering = "complete", !.at["tempering"] = now]
      \/ u = [s EXCEPT !.tempering = "active", !.at["tempering"] = now + Duration]
      \/ u = [s EXCEPT !.keepWarm = TRUE, !.at["keep_warm"] = now + Duration]
      \/ u = [s EXCEPT !.work = FALSE]
  BY DEF Finished, TemperingStarted
<1> SUFFICES Alike(s, u)
  OBVIOUS
<1> HIDE DEF u
<1>3. /\ [s EXCEPT !.tempering = "complete", !.at["tempering"] = now] \in Settings
      /\ [s EXCEPT !.tempering = "active", !.at["tempering"] = now + Duration] \in Settings
      /\ [s EXCEPT !.keepWarm = TRUE, !.at["keep_warm"] = now + Duration] \in Settings
      /\ [s EXCEPT !.work = FALSE] \in Settings
  BY <1>1 DEF Settings, Timer, Function
<1>4. u \in Settings
  BY <1>2, <1>3
<1> QED
  BY <1>2, <1>4 DEF Alike, Settings

LEMMA AutoKeeps ==
  ASSUME NEW s, Fits(s), now \in Nat, NEW a \in [seen: BOOLEAN, active: BOOLEAN],
         NEW in \in Inputs
  PROVE  LET r == AutoStep(s, a, in) IN
         Alike(s, r.s) /\ r.auto \in [seen: BOOLEAN, active: BOOLEAN]
<1> DEFINE r == AutoStep(s, a, in)
           p == in.printer
           saw == a.seen \/ (p.fresh /\ p.state = "printing")
           done == a.active /\ p.fresh /\ p.state = "idle" /\ saw
           s1 == IF done THEN Finished(s, in.finish) ELSE s
           over == s1.keepWarm /\ s1.at["keep_warm"] > 0 /\ now >= s1.at["keep_warm"]
           ends == over \/ (done /\ in.finish = "off")
           now_active == p.state \in {"printing", "paused"}
<1>1. s \in Settings
  BY DEF Fits
<1>2. Alike(s, s1)
  <2>1. Alike(s, s)
    BY <1>1 DEF Alike
  <2> QED
    BY <1>1, <2>1, FinishedAlike
<1>3. saw \in BOOLEAN /\ ends \in BOOLEAN /\ now_active \in BOOLEAN
  BY <1>1, <1>2 DEF Inputs, Readings, Printer
<1>4. r = IF ~s.work \/ s.mode # "auto"
          THEN [s |-> s, auto |-> [seen |-> FALSE, active |-> now_active]]
          ELSE [s |-> IF over THEN [s1 EXCEPT !.keepWarm = FALSE, !.work = FALSE] ELSE s1,
                auto |-> [seen |-> saw /\ ~ends, active |-> now_active]]
  BY DEF AutoStep
<1> SUFFICES Alike(s, r.s) /\ r.auto \in [seen: BOOLEAN, active: BOOLEAN]
  OBVIOUS
<1> HIDE DEF r, s1, saw, over, ends, now_active
<1>5. Alike(s, [s1 EXCEPT !.keepWarm = FALSE, !.work = FALSE])
  BY <1>2 DEF Alike, Settings
<1>6. Alike(s, s)
  BY <1>1 DEF Alike
<1> QED
  BY <1>2, <1>3, <1>4, <1>5, <1>6

LEMMA TemperingKeeps ==
  ASSUME NEW r, r.s \in Settings, r.auto \in [seen: BOOLEAN, active: BOOLEAN]
  PROVE  LET q == TemperingStep(r) IN
         Alike(r.s, q.s) /\ q.auto \in [seen: BOOLEAN, active: BOOLEAN]
<1>1. Alike(r.s, r.s)
  BY DEF Alike
<1>2. Alike(r.s, [r.s EXCEPT !.tempering = "complete", !.work = FALSE])
  BY DEF Alike, Settings
<1>3. [r.auto EXCEPT !.seen = FALSE] \in [seen: BOOLEAN, active: BOOLEAN]
  OBVIOUS
<1> QED
  BY <1>1, <1>2, <1>3 DEF TemperingStep

LEMMA KeepsTransitive ==
  ASSUME NEW s, NEW t, NEW u, Keeps(s, t), Keeps(t, u)
  PROVE  Keeps(s, u)
BY DEF Keeps

\* The functions of a pass together: a function that ends leaves no work behind,
\* unless it was ended by a sensor that trips the latch.
LEMMA FunctionsKeep ==
  ASSUME NEW s, Fits(s), now \in Nat, NEW a \in [seen: BOOLEAN, active: BOOLEAN],
         NEW in \in Inputs
  PROVE  LET r == Functions(s, a, in) IN
         /\ Keeps(s, r.s) /\ r.auto \in [seen: BOOLEAN, active: BOOLEAN]
         /\ r.done # {} /\ r.s.work => in.fault = "sensor"
<1> DEFINE s0 == ScheduleStep(s, in)
           s1 == PauseStep(s0, a, in)
           s2 == PreheatStep(s1, in)
           s3 == DryOutStep(s2)
           s4 == HealthStep(s3, in)
           q  == AutoStep(s4, a, in)
           t  == TemperingStep(q)
           done == {f \in {"preheat"} : f \in s1.running \ s2.running}
                   \cup {f \in {"dryout"} : f \in s2.running \ s3.running}
                   \cup {f \in {"health"} : f \in s3.running \ s4.running}
<1>1. Keeps(s, s0) /\ Fits(s0)
  BY ScheduleKeeps DEF Keeps
<1>2. Keeps(s0, s1) /\ Fits(s1)
  BY <1>1, PauseKeeps DEF Keeps
<1>3. /\ Keeps(s1, s2) /\ Fits(s2) /\ s2.mode = s1.mode
      /\ s1.running # s2.running => ~s2.work /\ s2.mode = "preheat"
  BY <1>2, PreheatKeeps DEF Keeps
<1>4. /\ Keeps(s2, s3) /\ Fits(s3) /\ s3.mode = s2.mode
      /\ s2.mode # "dryout" => s3 = s2
      /\ s2.running # s3.running => ~s3.work /\ s3.mode = "dryout"
  BY <1>3, DryOutKeeps DEF Keeps
<1>5. /\ Keeps(s3, s4) /\ Fits(s4) /\ s4.mode = s3.mode
      /\ s3.mode # "health" => s4 = s3
      /\ s3.running # s4.running => ~s4.work \/ in.fault = "sensor"
  BY <1>4, HealthKeeps DEF Keeps
<1>6. Alike(s4, q.s) /\ q.auto \in [seen: BOOLEAN, active: BOOLEAN]
  BY <1>5, AutoKeeps
<1>7. Alike(q.s, t.s) /\ t.auto \in [seen: BOOLEAN, active: BOOLEAN]
  BY <1>6, TemperingKeeps DEF Alike
<1>8. Alike(s4, t.s)
  BY <1>6, <1>7 DEF Alike
<1>9. Functions(s, a, in) = [s |-> t.s, auto |-> t.auto, done |-> done]
  BY DEF Functions
<1> HIDE DEF s0, s1, s2, s3, s4, q, t
<1>10. Keeps(s, t.s)
  BY <1>1, <1>2, <1>3, <1>4, <1>5, <1>8, AlikeKeeps, KeepsTransitive
<1>11. done # {} /\ t.s.work => in.fault = "sensor"
  <2> SUFFICES ASSUME done # {}, t.s.work PROVE in.fault = "sensor"
    OBVIOUS
  <2>1. s4.work
    BY <1>8 DEF Alike
  <2>2. s1.running # s2.running \/ s2.running # s3.running \/ s3.running # s4.running
    OBVIOUS
  <2> QED
    BY <1>3, <1>4, <1>5, <2>1, <2>2
<1> QED
  BY <1>7, <1>9, <1>10, <1>11

\* The watchdog lets work go on only within the session limit.
LEMMA WatchdogKeeps ==
  ASSUME NEW s, Fits(s), now \in Nat \ {0}
  PROVE  LET u == Watchdog(s) IN
         /\ Fits(u) /\ (Quiet(s) => Quiet(u)) /\ (u.scheduled => s.scheduled)
         /\ u.work => /\ s.work /\ now - u.session < MaxSession /\ u.session > 0
                      /\ u.session = IF s.session = 0 THEN now ELSE s.session
<1> DEFINE u == Watchdog(s)
           ended == [s EXCEPT !.work = FALSE, !.running = s.running \ {"preheat", "drying"},
                          !.at = [t \in Timer |-> IF t \in {"preheat", "drying", "tempering"}
                                                  THEN 0 ELSE s.at[t]],
                          !.phase = "idle", !.tempering = "idle"]
<1>1. s \in Settings
  BY DEF Fits
<1>2. CASE ~s.work
  <2>1. u = [s EXCEPT !.session = 0]
    BY <1>2 DEF Watchdog
  <2> QED
    BY <1>1, <1>2, <2>1 DEF Fits, Quiet, Settings
<1>3. CASE s.work /\ s.session = 0
  <2>1. u = [s EXCEPT !.session = now]
    BY <1>3 DEF Watchdog
  <2> QED
    BY <1>1, <1>3, <2>1, DurationAssumption DEF Fits, Quiet, Settings
<1>4. CASE s.work /\ s.session > 0 /\ now - s.session < MaxSession
  BY <1>1, <1>4 DEF Watchdog, Fits, Quiet, Settings
<1>5. CASE s.work /\ s.session # 0 /\ ~(s.session > 0 /\ now - s.session < MaxSession)
  <2>1. u = ended
    BY <1>5 DEF Watchdog
  <2>2. s.at \in [Timer -> Nat] /\ s.running \in SUBSET Function
    BY <1>1 DEF Settings
  <2>3. [t \in Timer |-> IF t \in {"preheat", "drying", "tempering"} THEN 0 ELSE s.at[t]]
          \in [Timer -> Nat]
    BY <2>2
  <2>4. ended \in Settings
    BY <1>1, <2>2, <2>3 DEF Settings
  <2>5. /\ ~ended.work /\ ended.paused = s.paused /\ ended.pausedAt = s.pausedAt
        /\ ended.session = s.session /\ ended.scheduled = s.scheduled
    BY <1>1 DEF Settings
  <2> QED
    BY <1>5, <2>1, <2>4, <2>5 DEF Fits, Quiet
<1> QED
  BY <1>1, <1>2, <1>3, <1>4, <1>5 DEF Settings

\* The chain of limits: work goes on either within the session limit, or
\* because a function has just ended.
LEMMA LimitedKeeps ==
  ASSUME NEW s, Fits(s), now \in Nat \ {0}, NEW done
  PROVE  LET u == Limited(s, done) IN
         /\ Fits(u) /\ (Quiet(s) => Quiet(u)) /\ (u.scheduled => s.scheduled)
         /\ u.work => \/ u = s /\ done # {}
                      \/ /\ s.work /\ now - u.session < MaxSession /\ u.session > 0
                         /\ u.session = IF s.session = 0 THEN now ELSE s.session
<1> DEFINE u == Limited(s, done)
           dried == [s EXCEPT !.running = s.running \ {"drying"}, !.work = FALSE,
                              !.at["drying"] = 0]
<1>1. s \in Settings
  BY DEF Fits
<1>2. /\ Fits(dried) /\ ~dried.work /\ (Quiet(s) => Quiet(dried))
      /\ dried.scheduled = s.scheduled
  <2>1. s.running \ {"drying"} \in SUBSET Function
    BY <1>1 DEF Settings
  <2>2. dried \in Settings
    BY <1>1, <2>1 DEF Settings, Timer, Function
  <2>3. /\ ~dried.work /\ dried.paused = s.paused /\ dried.pausedAt = s.pausedAt
        /\ dried.session = s.session /\ dried.scheduled = s.scheduled
        /\ dried.running = s.running \ {"drying"}
    BY <1>1 DEF Settings
  <2> HIDE DEF dried
  <2> QED
    BY <2>2, <2>3 DEF Fits, Quiet
<1>3. \/ u = s /\ done # {}
      \/ u = dried
      \/ u = Watchdog(s)
  BY DEF Limited
<1> SUFFICES /\ Fits(u) /\ (Quiet(s) => Quiet(u)) /\ (u.scheduled => s.scheduled)
             /\ u.work => \/ u = s /\ done # {}
                          \/ /\ s.work /\ now - u.session < MaxSession /\ u.session > 0
                             /\ u.session = IF s.session = 0 THEN now ELSE s.session
  OBVIOUS
<1> HIDE DEF u, dried
<1> QED
  BY <1>2, <1>3, WatchdogKeeps

LEMMA SettledKeeps ==
  ASSUME NEW s, Fits(s), now \in Nat
  PROVE  /\ Fits(Settled(s)) /\ (Quiet(s) => Quiet(Settled(s)))
         /\ Settled(s).work = s.work /\ Settled(s).session = s.session
         /\ Settled(s).running = s.running /\ Settled(s).scheduled = s.scheduled
<1> DEFINE u == Settled(s)
<1>1. s \in Settings
  BY DEF Fits
<1>2. u = IF s.work THEN s ELSE [s EXCEPT !.paused = FALSE, !.pausedAt = 0]
  BY DEF Settled
<1> HIDE DEF u
<1>3. u \in Settings
  BY <1>1, <1>2 DEF Settings
<1>4. /\ u.session = s.session /\ u.work = s.work /\ u.running = s.running
      /\ u.scheduled = s.scheduled /\ (u.paused <=> u.pausedAt > 0) /\ u.pausedAt <= now
  BY <1>1, <1>2 DEF Settings, Fits
<1> QED
  BY <1>3, <1>4 DEF Fits, Quiet, u

-------------------------------------------------------------------------------
LEMMA InitIInv == Init => IInv
<1> SUFFICES ASSUME Init PROVE IInv
  OBVIOUS
<1>1. now \in 1..MaxTime /\ 1 \in Nat
  BY BoundsAssumption DEF Init
<1>2. st \in Settings
  BY DEF Init, Settings, Mode, Function, Timer
<1>3. Fits(st) /\ Quiet(st)
  BY <1>2 DEF Init, Fits, Quiet
<1>4. TypeOK
  <2>1. auto \in [seen: BOOLEAN, active: BOOLEAN] /\ heat \in Source
    BY DEF Init, NoContext, Source
  <2>2. 0 \in 0..MaxCommands
    BY BoundsAssumption
  <2>3. /\ ticked \in BOOLEAN /\ commanded \in BOOLEAN /\ latched \in BOOLEAN
        /\ off \in BOOLEAN /\ sinceStart \in Nat /\ commands \in 0..MaxCommands
    BY <2>2 DEF Init
  <2> QED
    BY <1>1, <1>3, <2>1, <2>3 DEF TypeOK, Fits
<1>5. Timed
  BY <1>3 DEF Init, Timed, Quiet
<1> QED
  BY <1>3, <1>4, <1>5 DEF IInv

\* A command keeps the invariant when the settings it commits do.
LEMMA CommitKeeps ==
  ASSUME IInv, NEW s, Commit(s), Fits(s), off' \in BOOLEAN, off' => Quiet(s),
         \/ sinceStart' = 0
         \/ sinceStart' = sinceStart /\ s.session = st.session /\ (st.work => s.work)
  PROVE  IInv'
<1>1. st' = s /\ now' = now /\ ticked' = ticked
  BY DEF Commit
<1>2. Fits(st)' /\ (off => Quiet(st))'
  BY <1>1 DEF Fits, Quiet
<1>3. TypeOK'
  BY <1>2, BoundsAssumption DEF IInv, TypeOK, Commit, Fits
<1>4. s.session \in Nat /\ s.session <= now /\ st.session \in Nat /\ st.session <= now
      /\ now \in Nat /\ s.work \in BOOLEAN
  BY DEF IInv, TypeOK, Fits, Settings
<1>5. Timed'
  BY <1>1, <1>4, DurationAssumption DEF IInv, Timed, Unseen, TypeOK
<1> QED
  BY <1>2, <1>3, <1>5 DEF IInv

\* What is left of an edit that begins, ends or moves a function.
LEMMA BegunFits ==
  ASSUME NEW s, Fits(s), now \in Nat, NEW f \in Function, NEW ble \in BOOLEAN
  PROVE  /\ Fits(Begun(s, f, ble)) /\ Begun(s, f, ble).session = s.session
         /\ s.work => Begun(s, f, ble).work
<1> DEFINE ended == CASE f = "drying"  -> {"preheat"}
                      [] f = "preheat" -> IF ble THEN {"drying"} ELSE {}
                      [] OTHER         -> Function \ {f}
           begun == [s EXCEPT !.running = (s.running \ ended) \cup {f}, !.work = TRUE, !.mode = f]
           u == Begun(s, f, ble)
<1>1. s \in Settings /\ now + Duration \in Nat /\ f \in Mode
  BY DurationAssumption DEF Fits, Mode
<1>2. (s.running \ ended) \cup {f} \in SUBSET Function
  BY <1>1 DEF Settings
<1>3. begun \in Settings
  BY <1>1, <1>2 DEF Settings
<1>4. /\ begun.session = s.session /\ begun.paused = s.paused
      /\ begun.pausedAt = s.pausedAt /\ begun.work
  BY <1>1 DEF Settings
<1>5. \/ u = s
      \/ u = [begun EXCEPT !.phase = "heating", !.at["preheat"] = 0,
                           !.at["drying"] = IF ble THEN 0 ELSE @]
      \/ u = [begun EXCEPT !.phase = "idle", !.at["preheat"] = 0,
                           !.at["drying"] = now + Duration]
      \/ u = [begun EXCEPT !.at[f] = 0]
  <2> HIDE DEF begun
  <2>0. u = IF f \in s.running THEN s ELSE
            CASE f = "preheat" -> [begun EXCEPT !.phase = "heating", !.at["preheat"] = 0,
                                                !.at["drying"] = IF ble THEN 0 ELSE @]
              [] f = "drying"  -> [begun EXCEPT !.phase = "idle", !.at["preheat"] = 0,
                                                !.at["drying"] = now + Duration]
              [] OTHER         -> [begun EXCEPT !.at[f] = 0]
    BY DEF Begun, begun
  <2> HIDE DEF u
  <2>1. CASE f \in s.running
    BY <2>0, <2>1
  <2>2. CASE f = "preheat" /\ f \notin s.running
    BY <2>0, <2>2
  <2>3. CASE f = "drying" /\ f \notin s.running
    BY <2>0, <2>3
  <2>4. CASE f \notin s.running /\ f \notin {"preheat", "drying"}
    BY <2>0, <2>4
  <2> QED
    BY <2>0, <2>1, <2>2, <2>3, <2>4
<1> SUFFICES Fits(u) /\ u.session = s.session /\ (s.work => u.work)
  OBVIOUS
<1> HIDE DEF begun, u
<1>6. u \in Settings
  <2>1. [begun EXCEPT !.phase = "heating", !.at["preheat"] = 0,
                      !.at["drying"] = IF ble THEN 0 ELSE @] \in Settings
    BY <1>3 DEF Settings, Timer, Function
  <2>2. [begun EXCEPT !.phase = "idle", !.at["preheat"] = 0,
                      !.at["drying"] = now + Duration] \in Settings
    BY <1>1, <1>3 DEF Settings, Timer, Function
  <2>3. [begun EXCEPT !.at[f] = 0] \in Settings
    BY <1>3 DEF Settings, Timer, Function
  <2> QED
    BY <1>1, <1>5, <2>1, <2>2, <2>3
<1>7. /\ u.session = s.session /\ u.paused = s.paused /\ u.pausedAt = s.pausedAt
      /\ s.work => u.work
  BY <1>3, <1>4, <1>5 DEF Settings
<1> QED
  BY <1>6, <1>7 DEF Fits

LEMMA EndedFits ==
  ASSUME NEW s, Fits(s), now \in Nat, NEW f \in Function
  PROVE  /\ Fits(Ended(s, f)) /\ Ended(s, f).session = s.session
         /\ Ended(s, f).work => s.work
         /\ Quiet(s) => Quiet(Ended(s, f))
<1> DEFINE ended == [s EXCEPT !.running = s.running \ {f}, !.at[f] = 0,
                              !.work = s.work /\ f = "drying"]
           u == Ended(s, f)
<1>1. s \in Settings /\ "manual" \in Mode
  BY DEF Fits, Mode
<1>2. s.running \ {f} \in SUBSET Function /\ (s.work /\ f = "drying") \in BOOLEAN
  BY <1>1 DEF Settings
<1>3. ended \in Settings
  BY <1>1, <1>2 DEF Settings, Timer, Function
<1>4. /\ ended.session = s.session /\ ended.paused = s.paused
      /\ ended.pausedAt = s.pausedAt /\ ended.running = s.running \ {f}
      /\ ended.scheduled = s.scheduled /\ (ended.work => s.work)
  BY <1>1 DEF Settings
<1>5. \/ u = ended
      \/ u = [ended EXCEPT !.phase = "idle",
                           !.mode = IF s.mode = "preheat" THEN "manual" ELSE s.mode]
  BY DEF Ended
<1> SUFFICES Fits(u) /\ u.session = s.session /\ (u.work => s.work) /\ (Quiet(s) => Quiet(u))
  OBVIOUS
<1> HIDE DEF ended, u
<1>6. u \in Settings
  BY <1>1, <1>3, <1>5 DEF Settings
<1>7. /\ u.session = s.session /\ u.paused = s.paused /\ u.pausedAt = s.pausedAt
      /\ u.running = s.running \ {f} /\ u.scheduled = s.scheduled /\ (u.work => s.work)
  BY <1>3, <1>4, <1>5 DEF Settings
<1> QED
  BY <1>6, <1>7 DEF Fits, Quiet

\* A start begins from a stopped job, so that no old session is left in it.
LEMMA StartStep ==
  ASSUME IInv, NEW m \in Mode, NEW flagged \in BOOLEAN, Start(m, flagged)
  PROVE  IInv'
<1> DEFINE s == [Stopped(st) EXCEPT !.mode = m]
           u == IF flagged THEN Begun(s, m, FALSE) ELSE [s EXCEPT !.work = TRUE]
<1>1. Fits(Stopped(st)) /\ Stopped(st) \in Settings /\ now \in Nat
  BY StoppedQuiet DEF IInv, TypeOK, Fits
<1>2. Fits(s)
  BY <1>1 DEF Fits, Settings
<1>3. Fits(u)
  <2>1. CASE flagged
    BY <1>1, <1>2, <2>1, BegunFits DEF Start
  <2>2. CASE ~flagged
    BY <1>2, <2>2 DEF Fits, Settings
  <2> QED
    BY <2>1, <2>2
<1>4. Commit(u) /\ off' = FALSE /\ sinceStart' = 0
  BY DEF Start
<1> QED
  BY <1>3, <1>4, CommitKeeps

LEMMA StartTemperingStep ==
  ASSUME IInv, StartTempering
  PROVE  IInv'
<1> DEFINE u == [Stopped(st) EXCEPT !.work = TRUE, !.mode = "manual", !.tempering = "active",
                                    !.at["tempering"] = now + Duration]
<1>1. Fits(Stopped(st)) /\ Stopped(st) \in Settings /\ now + Duration \in Nat
  BY StoppedQuiet, DurationAssumption DEF IInv, TypeOK, Fits
<1>2. u \in Settings
  BY <1>1 DEF Settings, Timer, Mode
<1>3. Fits(u)
  BY <1>1, <1>2 DEF Fits, Settings
<1>4. Commit(u) /\ off' = FALSE /\ sinceStart' = 0
  BY DEF StartTempering
<1> QED
  BY <1>3, <1>4, CommitKeeps

LEMMA PanelStartStep ==
  ASSUME IInv, NEW m \in Mode, PanelStart(m)
  PROVE  IInv'
<1> DEFINE s == [Stopped(st) EXCEPT !.mode = m, !.work = TRUE, !.session = now]
           u == IF m = "drying" THEN Begun(s, m, FALSE) ELSE s
<1>1. Fits(Stopped(st)) /\ Stopped(st) \in Settings /\ now \in Nat
  BY StoppedQuiet DEF IInv, TypeOK, Fits
<1>2. Fits(s)
  <2>1. s \in Settings
    BY <1>1 DEF Settings
  <2>2. s.session = now /\ s.paused = Stopped(st).paused /\ s.pausedAt = Stopped(st).pausedAt
    BY <1>1 DEF Settings
  <2> HIDE DEF s
  <2> QED
    BY <1>1, <2>1, <2>2 DEF Fits
<1>3. Fits(u)
  <2>1. CASE m = "drying"
    <3>1. m \in Function
      BY <2>1 DEF Function
    <3> HIDE DEF s
    <3> QED
      BY <1>1, <1>2, <2>1, <3>1, BegunFits
  <2>2. CASE m # "drying"
    BY <1>2, <2>2
  <2> QED
    BY <2>1, <2>2
<1>4. Commit(u) /\ off' = FALSE /\ sinceStart' = 0
  BY DEF PanelStart
<1> QED
  BY <1>3, <1>4, CommitKeeps

\* Legacy commands keep the session that is on; work that was off has none.
LEMMA LegacySteps ==
  ASSUME IInv,
         \/ \E f \in Function, ble \in BOOLEAN : Begin(f, ble)
         \/ \E f \in Function : End(f)
         \/ \E on \in BOOLEAN : Schedule(on)
         \/ TurnOn
  PROVE  IInv'
<1>1. Fits(st) /\ st \in Settings /\ now \in Nat /\ off \in BOOLEAN /\ (off => Quiet(st))
      /\ (~st.work => sinceStart = 0)
  BY DEF IInv, TypeOK, Fits, Timed
<1>2. ASSUME NEW f \in Function, NEW ble \in BOOLEAN, Begin(f, ble) PROVE IInv'
  <2>1. Fits(Begun(st, f, ble)) /\ Begun(st, f, ble).session = st.session
        /\ (st.work => Begun(st, f, ble).work)
    BY <1>1, BegunFits
  <2>2. Commit(Begun(st, f, ble)) /\ off' = FALSE /\ sinceStart' = sinceStart
    BY <1>2 DEF Begin
  <2> QED
    BY <2>1, <2>2, CommitKeeps
<1>3. ASSUME NEW f \in Function, End(f) PROVE IInv'
  <2>1. Fits(Ended(st, f)) /\ Ended(st, f).session = st.session
        /\ (Ended(st, f).work => st.work) /\ (Quiet(st) => Quiet(Ended(st, f)))
    BY <1>1, EndedFits
  <2>2. Commit(Ended(st, f)) /\ off' = off
        /\ sinceStart' = IF Ended(st, f).work THEN sinceStart ELSE 0
    BY <1>3 DEF End, Edit
  <2>3. \/ sinceStart' = 0
        \/ sinceStart' = sinceStart /\ (st.work => Ended(st, f).work)
    BY <2>2
  <2> QED
    BY <1>1, <2>1, <2>2, <2>3, CommitKeeps
<1>4. ASSUME NEW on \in BOOLEAN, Schedule(on) PROVE IInv'
  <2> DEFINE u == [st EXCEPT !.scheduled = on, !.startAt = 0]
  <2>1. /\ Fits(u) /\ u.session = st.session /\ u.work = st.work
        /\ u.running = st.running /\ u.scheduled = on
    BY <1>1, <1>4 DEF Fits, Settings
  <2>2. Commit(u) /\ off' = (off /\ ~on) /\ sinceStart' = sinceStart
    BY <1>4 DEF Schedule
  <2> HIDE DEF u
  <2>3. off' => Quiet(u)
    BY <1>1, <2>1, <2>2 DEF Quiet
  <2>4. off' \in BOOLEAN
    BY <1>1, <2>2
  <2> QED
    BY <2>1, <2>2, <2>3, <2>4, CommitKeeps
<1>5. ASSUME TurnOn PROVE IInv'
  <2> DEFINE u == [st EXCEPT !.work = TRUE]
  <2>1. Fits(u) /\ u.session = st.session /\ u.work
    BY <1>1 DEF Fits, Settings
  <2>2. Commit(u) /\ off' = FALSE /\ sinceStart' = sinceStart
    BY <1>5 DEF TurnOn
  <2> HIDE DEF u
  <2> QED
    BY <2>1, <2>2, CommitKeeps
<1> QED
  BY <1>2, <1>3, <1>4, <1>5

\* Pause, resume, the end of a ramp and a change of the mode leave the work
\* and the session alone.
LEMMA JobSteps ==
  ASSUME IInv, Pause \/ Resume \/ CancelTempering \/ (\E m \in Mode : SetMode(m))
  PROVE  IInv'
<1>1. Fits(st) /\ st \in Settings /\ now \in Nat \ {0} /\ off \in BOOLEAN
      /\ (off => Quiet(st)) /\ st.pausedAt \in Nat
  BY BoundsAssumption DEF IInv, TypeOK, Fits, Settings
<1> DEFINE Small(u) == /\ Fits(u) /\ u.session = st.session /\ u.work = st.work
                       /\ u.running = st.running /\ u.scheduled = st.scheduled
<1>2. ASSUME NEW u, Small(u), Edit(u) PROVE IInv'
  <2>1. off' => Quiet(u)
    BY <1>1, <1>2 DEF Quiet, Edit
  <2>2. \/ sinceStart' = 0
        \/ sinceStart' = sinceStart /\ (st.work => u.work)
    BY <1>2 DEF Edit
  <2>3. Commit(u) /\ off' \in BOOLEAN
    BY <1>1, <1>2 DEF Edit
  <2> QED
    BY <1>2, <2>1, <2>2, <2>3, CommitKeeps
<1>3. CASE Pause
  <2> DEFINE u == [st EXCEPT !.paused = TRUE, !.pausedAt = now]
  <2>0. u \in Settings
    BY <1>1 DEF Settings
  <2>1. Small(u)
    <3>1. /\ u.paused /\ u.pausedAt = now /\ u.session = st.session /\ u.work = st.work
          /\ u.running = st.running /\ u.scheduled = st.scheduled
      BY <1>1 DEF Settings
    <3> HIDE DEF u
    <3> QED
      BY <1>1, <2>0, <3>1 DEF Fits
  <2>2. Edit(u)
    BY <1>3 DEF Pause
  <2> HIDE DEF u, Small
  <2> QED
    BY <1>2, <2>1, <2>2
<1>4. CASE Resume
  <2> DEFINE elapsed == IF now > st.pausedAt THEN now - st.pausedAt ELSE 0
             u == [st EXCEPT !.paused = FALSE, !.pausedAt = 0, !.at = ClocksMoved(st, elapsed)]
  <2>1. elapsed \in Nat
    BY <1>1
  <2> HIDE DEF elapsed
  <2>2. ClocksMoved(st, elapsed) \in [Timer -> Nat]
    <3>1. \A t \in Timer : st.at[t] \in Nat
      BY <1>1 DEF Settings
    <3> QED
      BY <2>1, <3>1 DEF ClocksMoved
  <2>3. u \in Settings
    BY <1>1, <2>2 DEF Settings
  <2>4. Small(u)
    BY <1>1, <2>3 DEF Fits, Settings
  <2>5. Edit(u)
    BY <1>4 DEF Resume, elapsed
  <2> HIDE DEF u, Small
  <2> QED
    BY <1>2, <2>4, <2>5
<1>5. CASE CancelTempering
  <2> DEFINE u == [st EXCEPT !.tempering = "idle", !.at["tempering"] = 0]
  <2>1. u \in Settings
    BY <1>1 DEF Settings, Timer
  <2>2. Small(u)
    BY <1>1, <2>1 DEF Fits, Settings
  <2>3. Edit(u)
    BY <1>5 DEF CancelTempering
  <2> HIDE DEF u, Small
  <2> QED
    BY <1>2, <2>2, <2>3
<1>6. ASSUME NEW m \in Mode, SetMode(m) PROVE IInv'
  <2> DEFINE u == [st EXCEPT !.mode = m]
  <2>1. Small(u)
    BY <1>1, <1>6 DEF Fits, Settings
  <2>2. Edit(u)
    BY <1>6 DEF SetMode
  <2> HIDE DEF u, Small
  <2> QED
    BY <1>2, <2>1, <2>2
<1> QED
  BY <1>3, <1>4, <1>5, <1>6

LEMMA StopSteps ==
  ASSUME IInv, SafeStop \/ PanelStop
  PROVE  IInv'
<1>1. Fits(st) /\ st \in Settings /\ now \in Nat /\ "auto" \in Mode
  BY DEF IInv, TypeOK, Fits, Mode
<1>2. CASE SafeStop
  <2> DEFINE u == [Stopped(st) EXCEPT !.mode = "auto"]
  <2>1. Fits(Stopped(st)) /\ Quiet(Stopped(st))
    BY <1>1, StoppedQuiet
  <2>2. Fits(u) /\ Quiet(u)
    BY <1>1, <2>1 DEF Fits, Settings, Quiet
  <2>3. Commit(u) /\ off' = TRUE /\ sinceStart' = 0
    BY <1>2 DEF SafeStop
  <2> HIDE DEF u
  <2> QED
    BY <2>2, <2>3, CommitKeeps
<1>3. CASE PanelStop
  <2> DEFINE u == [st EXCEPT !.work = FALSE, !.running = {}, !.scheduled = FALSE,
                             !.keepWarm = FALSE, !.tempering = "idle", !.phase = "idle",
                             !.session = 0]
  <2>0. u \in Settings
    BY <1>1 DEF Settings
  <2>1. Fits(u) /\ Quiet(u)
    <3>1. /\ u.session = 0 /\ u.paused = st.paused /\ u.pausedAt = st.pausedAt
          /\ ~u.work /\ ~u.scheduled /\ u.running = {}
      BY <1>1 DEF Settings
    <3> HIDE DEF u
    <3> QED
      BY <1>1, <2>0, <3>1 DEF Fits, Quiet
  <2>2. Commit(u) /\ off' = TRUE /\ sinceStart' = 0
    BY <1>3 DEF PanelStop
  <2> HIDE DEF u
  <2> QED
    BY <2>1, <2>2, CommitKeeps
<1> QED
  BY <1>2, <1>3

-------------------------------------------------------------------------------
LEMMA TargetIsSource ==
  ASSUME NEW s \in Settings
  PROVE  Target(s) \in Source
BY DEF Target, Source, Settings

\* The pass.  Functions and limits leave work on only within the session limit,
\* or with a sensor fault that trips the latch; the latch stops everything.
LEMMA PassStep ==
  ASSUME IInv, ControlPass
  PROVE  IInv'
<1>1. PICK in \in Inputs : \E r \in {Outcome(in)} : \E s \in {Settled(Limited(r.s, r.done))} :
        Apply(s, r.auto, in)
  BY DEF ControlPass
<1> DEFINE r == Outcome(in)
           l == Limited(r.s, r.done)
           s == Settled(l)
           trips == \/ in.fault = "other"
                    \/ in.fault = "sensor" /\ (s.work \/ s.running # {} \/ s.keepWarm \/ heat # "none")
           s2 == IF latched \/ trips THEN Stopped(s) ELSE s
<1>2. /\ Fits(st) /\ st \in Settings /\ now \in Nat \ {0} /\ latched \in BOOLEAN
      /\ (off => Quiet(st)) /\ auto \in [seen: BOOLEAN, active: BOOLEAN]
      /\ st.session \in Nat /\ sinceStart \in Nat /\ off \in BOOLEAN
  BY BoundsAssumption DEF IInv, TypeOK, Fits, Settings
<1>3. /\ Keeps(st, r.s) /\ r.auto \in [seen: BOOLEAN, active: BOOLEAN]
      /\ r.done # {} /\ r.s.work => in.fault = "sensor"
  <2> DEFINE a == IF commanded THEN NoContext ELSE auto
  <2>1. a \in [seen: BOOLEAN, active: BOOLEAN]
    BY <1>2 DEF NoContext
  <2>2. r = IF st.paused THEN [s |-> st, auto |-> a, done |-> {}] ELSE Functions(st, a, in)
    BY DEF Outcome
  <2> HIDE DEF a, r
  <2>3. CASE st.paused
    BY <1>2, <2>1, <2>2, <2>3 DEF Keeps
  <2>4. CASE ~st.paused
    BY <1>2, <2>1, <2>2, <2>4, FunctionsKeep
  <2> QED
    BY <2>3, <2>4
<1>4. Apply(s, r.auto, in)
  BY <1>1
<1> HIDE DEF r
<1>5. /\ Fits(l) /\ (Quiet(r.s) => Quiet(l))
      /\ l.work => \/ l = r.s /\ r.done # {}
                   \/ /\ r.s.work /\ now - l.session < MaxSession /\ l.session > 0
                      /\ l.session = IF r.s.session = 0 THEN now ELSE r.s.session
  BY <1>2, <1>3, LimitedKeeps DEF Keeps
<1> HIDE DEF l
<1>6. /\ Fits(s) /\ (Quiet(st) => Quiet(s)) /\ s.work = l.work /\ s.session = l.session
  BY <1>2, <1>3, <1>5, SettledKeeps DEF Keeps
<1> HIDE DEF s
<1>7. Fits(Stopped(s)) /\ Quiet(Stopped(s))
  BY <1>2, <1>6, StoppedQuiet
<1>8. /\ st' = s2 /\ auto' = r.auto /\ latched' = (latched \/ trips)
      /\ heat' = IF s2.work /\ ~s2.paused /\ in.fault = "none" /\ HeatAllowed(s2, r.auto, in.printer)
                 THEN Target(s2) ELSE "none"
      /\ off' = (off \/ latched') /\ sinceStart' = IF s2.work THEN sinceStart ELSE 0
  BY <1>4 DEF Apply
<1>9. /\ now' = now /\ commands' = commands /\ ticked' = FALSE /\ commanded' = FALSE
  BY DEF ControlPass
<1>10. Fits(s2) /\ s2 \in Settings /\ (off' => Quiet(s2))
  <2>1. CASE latched \/ trips
    BY <1>7, <2>1 DEF Fits
  <2>2. CASE ~(latched \/ trips)
    BY <1>2, <1>6, <1>8, <2>2 DEF Fits
  <2> QED
    BY <2>1, <2>2
<1>11. s2.work =>
         /\ s2.session > 0 /\ now - s2.session < MaxSession
         /\ st.session > 0 /\ st.work => s2.session = st.session
         /\ s2.session = st.session \/ s2.session = now
  <2> SUFFICES ASSUME s2.work
               PROVE  /\ s2.session > 0 /\ now - s2.session < MaxSession
                      /\ st.session > 0 /\ st.work => s2.session = st.session
                      /\ s2.session = st.session \/ s2.session = now
    OBVIOUS
  <2>1. ~(latched \/ trips) /\ s2 = s
    BY <1>7 DEF Quiet
  <2>2. l.work /\ s.work
    BY <1>6, <2>1
  <2>3. ~(r.done # {} /\ r.s.work)
    BY <1>3, <2>1, <2>2
  <2>4. /\ r.s.work /\ now - l.session < MaxSession /\ l.session > 0
        /\ l.session = IF r.s.session = 0 THEN now ELSE r.s.session
    BY <1>5, <2>2, <2>3
  <2>5. r.s.session = st.session
    BY <1>3, <2>4 DEF Keeps, Quiet
  <2> QED
    BY <1>2, <1>6, <2>1, <2>4, <2>5
<1>12. (Fits(st) /\ (off => Quiet(st)))'
  BY <1>8, <1>9, <1>10 DEF Fits, Quiet
<1>13. TypeOK'
  <2>1. heat' \in Source
    <3>1. Target(s2) \in Source /\ "none" \in Source
      BY <1>10, TargetIsSource DEF Source
    <3> QED
      BY <1>8, <3>1
  <2>2. latched' \in BOOLEAN /\ off' \in BOOLEAN
    BY <1>2, <1>8
  <2>3. sinceStart' \in Nat
    BY <1>2, <1>8
  <2> QED
    BY <1>3, <1>8, <1>9, <1>12, <2>1, <2>2, <2>3 DEF IInv, TypeOK, Fits
<1>14. Timed'
  <2>1. st'.work = s2.work /\ st'.session = s2.session /\ Unseen' = 0
    BY <1>8, <1>9 DEF Unseen
  <2>2. s2.session \in Nat /\ s2.session <= now /\ st.session <= now
    BY <1>2, <1>10 DEF Fits, Settings
  <2>3. CASE ~s2.work
    BY <1>8, <2>1, <2>3 DEF Timed
  <2>4. CASE s2.work
    <3>1. sinceStart' = sinceStart
      BY <1>8, <2>4
    <3>2. sinceStart <= now - s2.session + 1
      <4>1. CASE ~st.work
        BY <1>2, <2>2, <4>1 DEF IInv, Timed
      <4>2. CASE st.work /\ st.session = 0
        BY <1>2, <2>2, <4>2 DEF IInv, Timed, Unseen
      <4>3. CASE st.work /\ st.session > 0
        BY <1>2, <1>11, <2>2, <2>4, <4>3 DEF IInv, Timed
      <4> QED
        BY <1>2, <4>1, <4>2, <4>3 DEF Settings
    <3>3. sinceStart <= MaxSession
      BY <1>2, <1>11, <2>2, <2>4, <3>2, DurationAssumption
    <3> QED
      BY <1>2, <1>9, <1>11, <2>1, <2>2, <2>4, <3>1, <3>2, <3>3, DurationAssumption DEF Timed
  <2> QED
    BY <1>10, <2>3, <2>4 DEF Settings
<1> QED
  BY <1>12, <1>13, <1>14 DEF IInv

LEMMA TickStep ==
  ASSUME IInv, Tick
  PROVE  IInv'
<1>1. /\ Fits(st) /\ st \in Settings /\ now \in Nat \ {0} /\ sinceStart \in Nat
      /\ st.session \in Nat /\ st.pausedAt \in Nat /\ st.work \in BOOLEAN
  BY BoundsAssumption DEF IInv, TypeOK, Fits, Settings
<1>2. /\ now' = now + 1 /\ ticked' = TRUE /\ ~ticked /\ st' = st /\ now < MaxTime
      /\ sinceStart' = IF st.work THEN sinceStart + 1 ELSE 0
  BY DEF Tick
<1>3. (Fits(st) /\ (off => Quiet(st)))'
  BY <1>1, <1>2 DEF IInv, Fits, Quiet, Tick
<1>4. TypeOK'
  BY <1>1, <1>2, <1>3, BoundsAssumption DEF IInv, TypeOK, Tick, Fits
<1>5. Timed'
  BY <1>1, <1>2, DurationAssumption DEF IInv, Timed, Unseen, Fits
<1> QED
  BY <1>3, <1>4, <1>5 DEF IInv

LEMMA StutterOrClear ==
  ASSUME IInv, ClearLatch \/ UNCHANGED vars
  PROVE  IInv'
<1>1. /\ st' = st /\ now' = now /\ ticked' = ticked /\ auto' = auto
      /\ commanded' = commanded /\ heat' = heat /\ commands' = commands
      /\ off' = off /\ sinceStart' = sinceStart /\ (latched' = FALSE \/ latched' = latched)
  BY DEF ClearLatch, vars, history
<1> QED
  BY <1>1 DEF IInv, TypeOK, Fits, Quiet, Timed, Unseen

LEMMA NextIInv == IInv /\ [Next]_vars => IInv'
<1> SUFFICES ASSUME IInv, [Next]_vars PROVE IInv'
  OBVIOUS
<1>1. CASE Command
  BY <1>1, StartStep, PanelStartStep, LegacySteps, StartTemperingStep, JobSteps, StopSteps
  DEF Command
<1>2. CASE ControlPass
  BY <1>2, PassStep
<1>3. CASE Tick
  BY <1>3, TickStep
<1>4. CASE ClearLatch \/ UNCHANGED vars
  BY <1>4, StutterOrClear
<1> QED
  BY <1>1, <1>2, <1>3, <1>4 DEF Next

-------------------------------------------------------------------------------
\* The inductive invariant of the control task and the commands.
THEOREM Invariance == Spec => []IInv
<1>1. Init => IInv
  BY InitIInv
<1>2. IInv /\ [Next]_vars => IInv'
  BY NextIInv
<1> QED
  BY <1>1, <1>2, PTL DEF Spec

\* Commands and passes keep the settings well typed, and a job paused exactly
\* while the time of its pause is known (safety.c:1179, job_commands.h:18).
THEOREM TypeCorrect == Spec => []TypeOK
<1>1. IInv => TypeOK
  BY DEF IInv
<1> QED
  BY <1>1, Invariance, PTL

\* After OFF or a fault nothing turns the work on but a start, whatever the
\* functions of the passes and the other commands do (safety.c:1089).
THEOREM OffIsFinal == Spec => []OffStaysOff
<1>1. IInv => OffStaysOff
  BY DEF IInv, OffStaysOff, Quiet
<1> QED
  BY <1>1, Invariance, PTL

\* No work outlives the session limit (safety.c:428): the watchdog's clock is
\* started by the first pass that sees the work and nothing sets it back.
THEOREM SessionBounded == Spec => []SessionIsBounded
<1>1. IInv => SessionIsBounded
  <2> SUFFICES ASSUME IInv PROVE SessionIsBounded
    OBVIOUS
  <2>1. st.session \in Nat /\ st.work \in BOOLEAN /\ sinceStart \in Nat
    BY DEF IInv, TypeOK, Settings
  <2> QED
    BY <2>1, DurationAssumption DEF IInv, Timed, Unseen, SessionIsBounded
<1> QED
  BY <1>1, Invariance, PTL

-------------------------------------------------------------------------------
(***************************************************************************)
(* A paused job keeps its time: a pass skips the functions, the watchdog   *)
(* either ends the work or moves no clock, and a resume moves every armed  *)
(* clock by the length of the pause.                                       *)
(***************************************************************************)

\* The time every armed clock has left is the same after the step.
TimeKept ==
  \A t \in Timer : st.at[t] > 0 /\ st'.at[t] > 0 =>
    Left(st', t, IF st'.paused THEN st'.pausedAt ELSE now') = Left(st, t, st.pausedAt)

\* What leaves the clocks and the pause alone leaves the time alone.
LEMMA FrozenKeepsTime ==
  ASSUME st.paused, st'.paused = st.paused, st'.pausedAt = st.pausedAt, st'.at = st.at
  PROVE  TimeKept
BY DEF TimeKept, Left

\* A pass over a paused job that goes on touches neither clocks nor pause.
LEMMA PausedPass ==
  ASSUME IInv, ControlPass, st.paused, st'.work
  PROVE  st'.paused = st.paused /\ st'.pausedAt = st.pausedAt /\ st'.at = st.at
<1>1. PICK in \in Inputs : \E r \in {Outcome(in)} : \E s \in {Settled(Limited(r.s, r.done))} :
        Apply(s, r.auto, in)
  BY DEF ControlPass
<1> DEFINE r == Outcome(in)
           w == Watchdog(st)
           s == Settled(w)
<1>2. r.s = st /\ r.done = {}
  BY DEF Outcome
<1>3. Limited(r.s, r.done) = w
  BY <1>2 DEF Limited
<1>4. Apply(s, r.auto, in)
  BY <1>1, <1>3
<1> HIDE DEF r, w
<1>5. st' = s \/ st' = Stopped(s)
  BY <1>4 DEF Apply
<1>6. w.work => w.at = st.at /\ w.paused = st.paused /\ w.pausedAt = st.pausedAt
  <2>1. st \in Settings
    BY DEF IInv, Fits
  <2>2. CASE ~st.work
    BY <2>1, <2>2 DEF w, Watchdog, Settings
  <2>3. CASE st.work /\ st.session = 0
    BY <2>1, <2>3 DEF w, Watchdog, Settings
  <2>4. CASE st.work /\ st.session > 0 /\ now - st.session < MaxSession
    BY <2>1, <2>4 DEF w, Watchdog, Settings
  <2>5. CASE st.work /\ st.session # 0 /\ ~(st.session > 0 /\ now - st.session < MaxSession)
    BY <2>1, <2>5 DEF w, Watchdog, Settings
  <2> QED
    BY <2>1, <2>2, <2>3, <2>4, <2>5 DEF Settings
<1>7. Fits(st) /\ now \in Nat \ {0}
  BY BoundsAssumption DEF IInv, TypeOK
<1>8. Fits(w)
  BY <1>7, WatchdogKeeps DEF w
<1>9. Fits(s) /\ s.work = w.work
  BY <1>7, <1>8, SettledKeeps
<1>10. ~Stopped(s).work
  BY <1>7, <1>9, StoppedQuiet DEF Quiet
<1>11. w.work => s = w
  BY DEF Settled
<1> QED
  BY <1>5, <1>6, <1>9, <1>10, <1>11

\* A resume moves every armed clock by the length of the pause.
LEMMA ResumeKeepsTime ==
  ASSUME IInv, Resume
  PROVE  TimeKept
<1>1. /\ st \in Settings /\ now \in Nat /\ st.pausedAt \in Nat /\ st.pausedAt <= now
      /\ st.at \in [Timer -> Nat]
  BY DEF IInv, TypeOK, Fits, Settings
<1> DEFINE elapsed == IF now > st.pausedAt THEN now - st.pausedAt ELSE 0
<1>2. elapsed = now - st.pausedAt
  BY <1>1
<1>3. /\ st' = [st EXCEPT !.paused = FALSE, !.pausedAt = 0, !.at = ClocksMoved(st, elapsed)]
      /\ now' = now
  BY DEF Resume, Edit, Commit
<1> HIDE DEF elapsed
<1>4. ~st'.paused /\ st'.at = ClocksMoved(st, elapsed)
  BY <1>1, <1>3 DEF Settings
<1>5. SUFFICES ASSUME NEW t \in Timer, st.at[t] > 0
               PROVE  Left(st', t, now') = Left(st, t, st.pausedAt)
  BY <1>4 DEF TimeKept
<1>6. st'.at[t] = st.at[t] + elapsed /\ st.at[t] \in Nat
  BY <1>1, <1>4, <1>5 DEF ClocksMoved
<1> QED
  BY <1>1, <1>2, <1>3, <1>6 DEF Left

\* No pass, tick, clear or resume takes time from a paused job
\* (job_commands.h:18, safety.c:1179).
THEOREM PausedJobKeepsTime == Spec => PauseKeepsTime
<1>1. ASSUME IInv, [Next]_vars, st.paused, st'.work, commands' = commands \/ Resume
      PROVE  TimeKept
  <2>1. CASE Resume
    BY <1>1, <2>1, ResumeKeepsTime
  <2>2. CASE Command /\ ~Resume
    <3>1. commands \in Nat
      BY <1>1 DEF IInv, TypeOK
    <3>2. commands' = commands + 1
      BY <2>2 DEF Command, Start, PanelStart, SetMode, Begin, End, Schedule, StartTempering,
         TurnOn, Pause, CancelTempering, SafeStop, PanelStop, Edit, Commit
    <3> QED
      BY <1>1, <2>2, <3>1, <3>2
  <2>3. CASE ControlPass
    BY <1>1, <2>3, PausedPass, FrozenKeepsTime
  <2>4. CASE Tick \/ ClearLatch \/ UNCHANGED vars
    BY <1>1, <2>4, FrozenKeepsTime DEF Tick, ClearLatch, vars
  <2> QED
    BY <1>1, <2>1, <2>2, <2>3, <2>4 DEF Next
<1>2. IInv /\ [Next]_vars =>
        [st.paused /\ st'.work /\ (commands' = commands \/ Resume) => TimeKept]_vars
  BY <1>1
<1> QED
  BY <1>2, Invariance, PTL DEF Spec, PauseKeepsTime, TimeKept

-------------------------------------------------------------------------------
(***************************************************************************)
(* Workflow implements JobContract.                                        *)
(***************************************************************************)

\* A latched controller has nothing on and heats nothing.
LatchedIsOff == latched => ~st.work /\ ~st.scheduled /\ heat = "none"

\* What a pass does to the job, the latch and the output.
LEMMA PassedJob ==
  ASSUME IInv, ControlPass
  PROVE  /\ latched' \in BOOLEAN /\ (latched => latched')
         /\ st'.scheduled => st.scheduled
         /\ latched' => ~st'.work /\ ~st'.scheduled
         /\ heat' # "none" => st'.work
<1>1. PICK in \in Inputs : \E r \in {Outcome(in)} : \E s \in {Settled(Limited(r.s, r.done))} :
        Apply(s, r.auto, in)
  BY DEF ControlPass
<1> DEFINE r == Outcome(in)
           l == Limited(r.s, r.done)
           s == Settled(l)
           a == IF commanded THEN NoContext ELSE auto
<1>2. Fits(st) /\ now \in Nat \ {0} /\ latched \in BOOLEAN
      /\ a \in [seen: BOOLEAN, active: BOOLEAN]
  BY BoundsAssumption DEF IInv, TypeOK, NoContext
<1>3. Fits(r.s) /\ (r.s.scheduled => st.scheduled)
  <2>1. r = IF st.paused THEN [s |-> st, auto |-> a, done |-> {}] ELSE Functions(st, a, in)
    BY DEF Outcome
  <2> HIDE DEF a, r
  <2>2. CASE st.paused
    BY <1>2, <2>1, <2>2
  <2>3. CASE ~st.paused
    BY <1>2, <2>1, <2>3, FunctionsKeep DEF Keeps
  <2> QED
    BY <2>2, <2>3
<1>4. Apply(s, r.auto, in)
  BY <1>1
<1> HIDE DEF r
<1>5. Fits(l) /\ (l.scheduled => st.scheduled)
  BY <1>2, <1>3, LimitedKeeps
<1> HIDE DEF l
<1>6. Fits(s) /\ (s.scheduled => st.scheduled)
  BY <1>2, <1>5, SettledKeeps
<1> HIDE DEF s
<1>7. ~Stopped(s).work /\ ~Stopped(s).scheduled
  BY <1>2, <1>6, StoppedQuiet DEF Quiet
<1>8. PICK trips \in BOOLEAN :
        /\ latched' = (latched \/ trips)
        /\ st' = IF latched \/ trips THEN Stopped(s) ELSE s
  BY <1>4 DEF Apply
<1>9. heat' # "none" => st'.work
  BY <1>4 DEF Apply
<1> QED
  BY <1>2, <1>6, <1>7, <1>8, <1>9

\* A command under a set latch leaves nothing on.
LEMMA CommandUnderLatch ==
  ASSUME Command
  PROVE  \E s : Commit(s)
BY DEF Command, Start, PanelStart, SetMode, Begin, End, Schedule, StartTempering,
   TurnOn, Pause, Resume, CancelTempering, SafeStop, PanelStop, Edit

LEMMA StepLatchedIsOff == IInv /\ LatchedIsOff /\ [Next]_vars => LatchedIsOff'
<1> SUFFICES ASSUME IInv, LatchedIsOff, [Next]_vars PROVE LatchedIsOff'
  OBVIOUS
<1>1. CASE Command
  BY <1>1, CommandUnderLatch DEF Commit, LatchedIsOff
<1>2. CASE ControlPass
  BY <1>2, PassedJob DEF LatchedIsOff
<1>3. CASE Tick \/ ClearLatch \/ UNCHANGED vars
  BY <1>3 DEF Tick, ClearLatch, vars, LatchedIsOff
<1> QED
  BY <1>1, <1>2, <1>3 DEF Next

\* One step of the functions is a step of the contract or a stutter.
LEMMA StepKeepsContract == IInv /\ LatchedIsOff /\ [Next]_vars => [Contract!Next]_(Contract!vars)
<1> SUFFICES ASSUME IInv, LatchedIsOff, [Next]_vars PROVE [Contract!Next]_(Contract!vars)
  OBVIOUS
<1> USE DEF Contract!Next, Contract!vars
<1>1. CASE Command
  <2>1. PICK s : Commit(s)
    BY <1>1, CommandUnderLatch
  <2>2. UNCHANGED <<latched, heat>> /\ (st'.work \/ st'.scheduled => ~latched)
    BY <2>1 DEF Commit
  <2>3. CASE latched
    BY <2>2, <2>3 DEF Contract!Withdraw
  <2>4. CASE ~latched
    BY <2>2, <2>4 DEF Contract!Request, Contract!Part
  <2> QED
    BY <2>3, <2>4
<1>2. CASE ControlPass
  <2>1. latched' \in {latched, TRUE}
    BY <1>2, PassedJob DEF IInv, TypeOK
  <2> QED
    BY <1>2, <2>1, PassedJob DEF Contract!Pass, Contract!Part
<1>3. CASE ClearLatch
  BY <1>3 DEF ClearLatch, Contract!Clear, LatchedIsOff
<1>4. CASE Tick \/ UNCHANGED vars
  BY <1>4 DEF Tick, vars
<1> QED
  BY <1>1, <1>2, <1>3, <1>4 DEF Next

\* The functions keep the contract of job, latch and output: no schedule, timer or
\* end of a print starts anything under a latch, and no pass makes a schedule.
THEOREM FunctionsImplementJobContract == Spec => JobImplemented
<1>1. Init => LatchedIsOff /\ Contract!Init
  <2> SUFFICES ASSUME Init PROVE LatchedIsOff /\ Contract!Init
    OBVIOUS
  <2>1. latched = FALSE /\ heat = "none" /\ st.work = FALSE /\ st.scheduled = FALSE
    BY DEF Init
  <2> QED
    BY <2>1 DEF LatchedIsOff, Contract!Init
<1> QED
  BY <1>1, StepLatchedIsOff, StepKeepsContract, Invariance, PTL
  DEF Spec, JobImplemented, Contract!Spec
=============================================================================
