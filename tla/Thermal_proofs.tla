----------------------------- MODULE Thermal_proofs -----------------------------
(***************************************************************************)
(* Proofs about Thermal for every set of channels and readings and every   *)
(* length of window and grace.  A suspicion and the deadline that belongs  *)
(* to it are related by Watched, a gap and what is remembered of it by     *)
(* GapKnown, heat and the purge after it by PurgeOwed.                     *)
(***************************************************************************)
EXTENDS Thermal, TLAPS

\* What is stuck is suspected for the same reading, and the warning that answers
\* for it is at least as old; once confirmed, the watch is frozen.
Watched ==
  /\ \A ch \in Channels : stuckAt[ch] # NoReading =>
       /\ suspect[ch] = stuckAt[ch]
       /\ frozen \/ (warned /\ age >= stuckFor[ch])
  /\ confirmed => frozen

\* A loss while the heater conducted is still there to see, or was counted.
GapKnown == lost => gapped \/ signal = "absent"

\* The purge remembers heat for as long as there may be some left.
PurgeOwed == (residual # "no" => heated) /\ PurgeHolds

IInv == TypeOK /\ Watched /\ GapKnown /\ PurgeOwed /\ FreezeStops

LEMMA InitIInv == Init => IInv
<1> SUFFICES ASSUME Init PROVE IInv
  OBVIOUS
<1> USE WindowAssumption DEF Init, WatchInit, AirInit, Nothing, Never
<1>1. WatchTypeOK
  <2>1. 0 \in 0..StillWindow /\ 0 \in 0..MinOutput /\ 0 \in 0..Grace
    OBVIOUS
  <2> QED
    BY <2>1 DEF WatchTypeOK, Reading
<1>2. TypeOK
  BY <1>1 DEF TypeOK, AirTypeOK, Signals
<1>3. Watched /\ GapKnown /\ PurgeOwed /\ FreezeStops
  BY DEF Watched, GapKnown, PurgeOwed, PurgeHolds, FreezeStops
<1> QED
  BY <1>2, <1>3 DEF IInv

-------------------------------------------------------------------------------
(***************************************************************************)
(* The sensor watch                                                        *)
(***************************************************************************)
LEMMA CappedRange ==
  ASSUME NEW n \in Nat, NEW limit \in Nat
  PROVE  Capped(n, limit) \in 0..limit
BY DEF Capped

\* Every step of the watch keeps its types.
LEMMA WatchTypes ==
  ASSUME WatchTypeOK, NEW w \in BOOLEAN, NEW sample \in Samples, NEW dt \in Intervals,
         NEW job \in BOOLEAN, NEW applied \in BOOLEAN, WatchStep(w, sample, dt, job, applied)
  PROVE  WatchTypeOK'
<1>0. /\ dt \in Nat /\ Grace \in Nat /\ StillWindow \in Nat /\ MinOutput \in Nat
      /\ 0 \in 0..Grace /\ 0 \in 0..StillWindow /\ 0 \in 0..MinOutput
  BY WindowAssumption DEF Intervals
<1>1. /\ \A ch \in Channels : sample[ch] \in Reading
      /\ sample \in [Channels -> Reading]
  BY DEF Samples, Reading, Nothing
<1>2. Older(dt) \in 0..Grace
  <2>1. age + dt \in Nat
    BY <1>0 DEF WatchTypeOK
  <2> QED
    BY <1>0, <2>1, CappedRange DEF Older
<1>3. ASSUME NEW ch \in Channels
      PROVE  StillNow(ch, dt) \in 0..StillWindow /\ OnNow(ch, dt, applied) \in 0..MinOutput
  <2>1. still[ch] + dt \in Nat /\ on[ch] + dt \in Nat /\ on[ch] \in 0..MinOutput
    BY <1>0 DEF WatchTypeOK
  <2> QED
    BY <1>0, <2>1, CappedRange DEF StillNow, OnNow
<1>4. /\ stuckAt' \in [Channels -> Reading] /\ stuckFor' \in [Channels -> 0..Grace]
      /\ confirmed' \in BOOLEAN
  <2>1. ASSUME NEW ch \in Channels PROVE Capped(stuckFor[ch] + dt, Grace) \in 0..Grace
    <3>1. stuckFor[ch] + dt \in Nat
      BY <1>0 DEF WatchTypeOK
    <3> QED
      BY <1>0, <3>1, CappedRange
  <2>2. PICK anew : Stuck(w, sample, dt, anew)
    BY DEF WatchStep
  <2> QED
    BY <1>0, <1>1, <2>1, <2>2 DEF Stuck, Reading, WatchTypeOK
<1>5. ASSUME Untracked
      PROVE  /\ tracking' \in BOOLEAN /\ raw' \in [Channels -> Reading]
             /\ still' \in [Channels -> 0..StillWindow] /\ on' \in [Channels -> 0..MinOutput]
  BY <1>0, <1>5 DEF Untracked, Nothing, Never, Reading
<1>6. CASE Unusable(w, dt)
  <2>1. /\ Untracked
        /\ warned' \in BOOLEAN /\ age' \in 0..Grace /\ UNCHANGED <<suspect, frozen>>
    BY <1>0, <1>2, <1>6 DEF Unusable, WatchTypeOK
  <2> QED
    BY <1>4, <1>5, <2>1 DEF WatchTypeOK
<1>7. \A set : Suspected(set, sample) => suspect' \in [Channels -> Reading]
  BY <1>1 DEF Suspected, Reading
<1>8. CASE Freeze(w, sample, dt)
  BY <1>2, <1>4, <1>7, <1>8 DEF Freeze, WatchTypeOK, evidence
<1>9. CASE Watch(w, sample, dt, job, applied)
  <2>1. /\ frozen' \in BOOLEAN /\ warned' \in BOOLEAN /\ age' \in 0..Grace
        /\ suspect' \in [Channels -> Reading]
    BY <1>0, <1>2, <1>7, <1>9 DEF Watch
  <2>2. CASE job
    <3>1. tracking' = TRUE /\ raw' = sample
      BY <1>9, <2>2 DEF Watch
    <3>2. /\ \E set \in SUBSET Channels :
                still' = [ch \in Channels |-> IF ch \in set THEN StillNow(ch, dt) ELSE 0]
          /\ \E set \in SUBSET Channels :
                on' = [ch \in Channels |-> IF ch \in set THEN OnNow(ch, dt, applied) ELSE 0]
      <4> DEFINE kept == {ch \in Channels : Rests(ch, w, sample, dt, job)}
      <4>1. /\ still' = [ch \in Channels |-> IF ch \in kept THEN StillNow(ch, dt) ELSE 0]
            /\ on' = [ch \in Channels |-> IF ch \in kept THEN OnNow(ch, dt, applied) ELSE 0]
        BY <1>9, <2>2 DEF Watch
      <4> QED
        BY <4>1
    <3>3. still' \in [Channels -> 0..StillWindow] /\ on' \in [Channels -> 0..MinOutput]
      BY <1>0, <1>3, <3>2
    <3> QED
      BY <1>1, <1>4, <2>1, <3>1, <3>3 DEF WatchTypeOK
  <2>3. CASE ~job
    <3>1. Untracked
      BY <1>9, <2>3 DEF Watch
    <3> QED
      BY <1>4, <1>5, <2>1, <3>1 DEF WatchTypeOK
  <2> QED
    BY <2>2, <2>3
<1> QED
  BY <1>6, <1>8, <1>9 DEF WatchStep

\* What stays stuck in a pass with a usable sample remains under suspicion.
LEMMA StuckRemains ==
  ASSUME WatchTypeOK, Watched, NEW w \in BOOLEAN, NEW sample, NEW ch \in Channels,
         stuckAt[ch] # NoReading, w \/ confirmed, sample[ch] = stuckAt[ch]
  PROVE  ch \in Remaining(w, sample)
BY DEF Watched, Remaining, Pending, Unmoved

\* The deadline of a stuck channel is the deadline of its warning.
LEMMA DeadlineCovers ==
  ASSUME WatchTypeOK, NEW ch \in Channels, NEW dt \in Intervals, age >= stuckFor[ch]
  PROVE  Older(dt) >= Capped(stuckFor[ch] + dt, Grace)
BY WindowAssumption DEF Older, Capped, WatchTypeOK, Intervals

LEMMA WatchKeeps ==
  ASSUME WatchTypeOK, Watched, NEW w \in BOOLEAN, NEW sample \in Samples, NEW dt \in Intervals,
         NEW job \in BOOLEAN, NEW applied \in BOOLEAN, WatchStep(w, sample, dt, job, applied)
  PROVE  /\ Watched'
         /\ sample # Nothing /\ ~frozen' => \A ch \in Channels :
              stuckAt'[ch] # NoReading /\ w => stuckFor'[ch] < Grace
<1> USE WindowAssumption
<1> DEFINE
  Stays(ch) == /\ stuckAt[ch] # NoReading /\ (w \/ confirmed)
               /\ sample # Nothing => sample[ch] = stuckAt[ch]
  Age(ch) == Capped(stuckFor[ch] + dt, Grace)
<1>1. CASE sample = Nothing
  <2>1. Unusable(w, dt) /\ Stuck(w, sample, dt, {})
    BY <1>1 DEF WatchStep
  <2>2. /\ \A ch \in Channels : stuckAt'[ch] # NoReading =>
             stuckAt'[ch] = stuckAt[ch] /\ Stays(ch) /\ stuckFor'[ch] = Age(ch)
        /\ confirmed' => confirmed
    BY <1>1, <2>1 DEF Stuck
  <2>3. confirmed' => frozen'
    BY <2>1, <2>2 DEF Unusable, Watched
  <2>4. ASSUME NEW ch \in Channels, stuckAt'[ch] # NoReading
        PROVE  suspect'[ch] = stuckAt'[ch] /\ (frozen' \/ (warned' /\ age' >= stuckFor'[ch]))
    <3>1. Stays(ch) /\ stuckAt'[ch] = stuckAt[ch] /\ stuckFor'[ch] = Age(ch)
      BY <2>2, <2>4
    <3>2. suspect'[ch] = stuckAt'[ch] /\ (frozen \/ (warned /\ age >= stuckFor[ch]))
      BY <2>1, <3>1 DEF Unusable, Watched
    <3>3. CASE frozen
      BY <2>1, <3>2, <3>3 DEF Unusable
    <3>4. CASE ~frozen
      <4>1. w /\ warned /\ age >= stuckFor[ch]
        BY <3>1, <3>2, <3>4 DEF Watched
      <4>2. warned' /\ age' = Older(dt)
        BY <2>1, <4>1 DEF Unusable, WatchTypeOK
      <4> QED
        BY <3>1, <3>2, <4>1, <4>2, DeadlineCovers
    <3> QED
      BY <3>3, <3>4
  <2> QED
    BY <1>1, <2>3, <2>4 DEF Watched
<1>2. CASE sample # Nothing /\ Freeze(w, sample, dt) /\ Stuck(w, sample, dt, {})
  <2>1. \A ch \in Channels : stuckAt'[ch] # NoReading => stuckAt'[ch] = sample[ch] /\ Stays(ch)
    BY <1>2 DEF Stuck
  <2>2. ASSUME NEW ch \in Channels, stuckAt'[ch] # NoReading
        PROVE  suspect'[ch] = stuckAt'[ch]
    <3>1. ch \in Remaining(w, sample)
      BY <1>2, <2>1, <2>2, StuckRemains
    <3> QED
      BY <1>2, <2>1, <2>2, <3>1 DEF Freeze, Suspected
  <2> QED
    BY <1>2, <2>2 DEF Watched, Freeze
<1>3. CASE /\ sample # Nothing /\ Watch(w, sample, dt, job, applied)
           /\ Stuck(w, sample, dt, Evident(w, sample, dt, job, applied))
  <2> DEFINE left == Remaining(w, sample)
             fresh == Evident(w, sample, dt, job, applied)
  <2>1. \A ch \in Channels : stuckAt'[ch] # NoReading =>
          /\ stuckAt'[ch] = sample[ch]
          /\ \/ Stays(ch) /\ stuckFor'[ch] = Age(ch)
             \/ ch \in fresh /\ stuckFor'[ch] = 0
    BY <1>3 DEF Stuck
  <2>2. ASSUME NEW ch \in Channels, Stays(ch)
        PROVE  /\ ch \in left /\ ~frozen /\ warned /\ age >= stuckFor[ch] /\ age + dt < Grace
               /\ age' = Older(dt) /\ ~confirmed
    <3>1. ch \in left
      BY <1>3, <2>2, StuckRemains
    <3>2. ~frozen /\ ~(age + dt >= Grace)
      BY <1>3, <3>1 DEF Watch, Expired
    <3>3. age + dt < Grace
      BY <3>2 DEF WatchTypeOK, Intervals
    <3>4. warned /\ age >= stuckFor[ch] /\ ~confirmed
      BY <2>2, <3>2 DEF Watched
    <3>5. age' = Older(dt)
      BY <1>3, <3>1 DEF Watch
    <3> QED
      BY <3>1, <3>2, <3>3, <3>4, <3>5
  <2>3. ASSUME NEW ch \in Channels, Stays(ch)
        PROVE  Age(ch) < Grace
    BY <2>2, <2>3 DEF Capped, WatchTypeOK, Intervals
  <2>4. ~confirmed'
    <3>1. confirmed' => \E ch \in Channels : Stays(ch) /\ (confirmed \/ Age(ch) = Grace)
      BY <1>3 DEF Stuck
    <3> QED
      BY <2>2, <2>3, <3>1
  <2>5. ASSUME NEW ch \in Channels, stuckAt'[ch] # NoReading
        PROVE  /\ suspect'[ch] = stuckAt'[ch] /\ warned' /\ age' >= stuckFor'[ch]
               /\ stuckFor'[ch] < Grace
    <3>1. stuckAt'[ch] = sample[ch]
      BY <2>1, <2>5
    <3>2. ch \in left \cup fresh
      BY <2>1, <2>2, <2>5
    <3>3. suspect'[ch] = sample[ch] /\ warned'
      BY <1>3, <3>2 DEF Watch, Suspected
    <3>4. CASE Stays(ch) /\ stuckFor'[ch] = Age(ch)
      BY <2>2, <2>3, <3>1, <3>3, <3>4, DeadlineCovers
    <3>5. CASE stuckFor'[ch] = 0
      <4>1. age' >= 0
        BY <1>3 DEF Watch, Older, Capped, WatchTypeOK, Intervals
      <4> QED
        BY <3>1, <3>3, <3>5, <4>1
    <3> QED
      BY <2>1, <2>5, <3>4, <3>5
  <2> QED
    BY <2>4, <2>5 DEF Watched
<1> QED
  BY <1>1, <1>2, <1>3 DEF WatchStep

-------------------------------------------------------------------------------
(***************************************************************************)
(* The pass and what comes between two passes                              *)
(***************************************************************************)
\* A demand is not heat before the latch and the two looks at the airflow.
LEMMA HeatNeeds ==
  ASSUME NEW heatMode, NEW want, NEW apply, HeatAllowed(heatMode, want, apply)
  PROVE  heatMode /\ gate /\ apply = "present"
BY DEF HeatAllowed, Running

\* The fan's and the session's part of a pass.
LEMMA DecideKeeps ==
  ASSUME IInv, NEW want, NEW healthy \in BOOLEAN, NEW hazard \in BOOLEAN,
         NEW temperature \in IF healthy /\ heated THEN Known ELSE {"unknown"},
         NEW check \in Signals, NEW apply \in Signals,
         Follows(signal, check), Follows(check, apply),
         Decide(want, healthy, hazard, temperature, check, apply)
  PROVE  /\ AirTypeOK' /\ GapKnown' /\ PurgeOwed'
         /\ work' \in BOOLEAN /\ paused' \in BOOLEAN /\ armed' \in BOOLEAN
         /\ ready' \in BOOLEAN /\ latched' \in BOOLEAN /\ ssr' \in BOOLEAN
         /\ (paused' => work') /\ (ssr' => fan' /\ gate')
         /\ ssr' => work /\ healthy
         /\ lost /\ seen /\ armed => latched' /\ ~ssr'
<1> DEFINE
  active     == armed \/ work \/ ssr
  session    == armed \/ (work /\ want \in Targeted)
  failed     == active /\ ~healthy
  controller == work /\ ~paused /\ want \in {"hold", "heat"} /\ healthy /\ ~hazard
  heatMode   == controller /\ ~latched'
  vented     == controller \/ want = "air" \/ hazard \/ failed \/ latched' \/ purge'
<1>1. /\ latched' \in IF latched \/ hazard \/ failed \/ ZeroCrossLost(session, check)
                     THEN {TRUE} ELSE {FALSE, ~healthy}
      /\ SessionStep(session, check, apply)
      /\ PurgeStep(heatMode, temperature)
      /\ FanStep(vented, apply)
      /\ ssr' = HeatAllowed(heatMode, want, apply)
      /\ work' = (work /\ ~latched') /\ paused' = (paused /\ ~latched')
      /\ armed' = (work' /\ ~latched')
      /\ ready' = (armed' /\ healthy /\ apply = "present")
      /\ AirHistory(ssr, check, apply, heatMode, temperature, HeatAllowed(heatMode, want, apply))
  BY DEF Decide
<1> HIDE DEF heatMode, vented, session
<1>2. latched' \in BOOLEAN /\ (latched => latched')
  BY <1>1 DEF IInv, TypeOK
<1>3. ssr' => heatMode /\ vented /\ gate /\ apply = "present"
  <2>1. ssr' => heatMode /\ gate /\ apply = "present"
    BY <1>1, HeatNeeds
  <2> QED
    BY <2>1 DEF heatMode, vented
<1>4. AirTypeOK'
  <2>1. fan' \in BOOLEAN /\ gate' \in BOOLEAN /\ (gate' => fan' /\ signal' # "never")
    <3>1. fan' = vented /\ gate' = (vented /\ gate) /\ signal' = apply
      BY <1>1 DEF FanStep
    <3>2. gate => apply # "never"
      BY DEF IInv, TypeOK, AirTypeOK, Follows, Signals
    <3> QED
      BY <3>1, <3>2 DEF vented
  <2>2. /\ signal' \in Signals /\ gapped' \in BOOLEAN /\ seen' \in BOOLEAN
        /\ purge' \in BOOLEAN /\ heated' \in BOOLEAN
    BY <1>1 DEF FanStep, SessionStep, PurgeStep, Gap
  <2>3. purge' => heated'
    BY <1>1 DEF PurgeStep
  <2>4. lost' \in BOOLEAN /\ residual' \in {"no", "boot", "yes"}
    BY <1>1 DEF AirHistory, Loss, IInv, TypeOK, AirTypeOK
  <2> QED
    BY <2>1, <2>2, <2>3, <2>4 DEF AirTypeOK
<1>5. GapKnown'
  BY <1>1 DEF GapKnown, AirHistory, FanStep, Loss
<1>6. PurgeOwed'
  <2>1. CASE ssr'
    <3>1. fan' /\ heated'
      BY <1>1, <1>3, <2>1 DEF FanStep, PurgeStep
    <3> QED
      BY <3>1 DEF PurgeOwed, PurgeHolds
  <2>2. CASE ~ssr'
    <3>1. residual' # "no" => heatMode \/ (heated /\ temperature \notin {"cool", "settling"})
      BY <1>1, <2>2 DEF AirHistory, IInv, PurgeOwed
    <3>2. heatMode => fan' /\ heated'
      BY <1>1 DEF FanStep, PurgeStep, vented, heatMode
    <3>3. ~heatMode /\ heated /\ temperature \notin {"cool", "settling"} =>
            purge' /\ heated'
      BY <1>1 DEF PurgeStep, PurgeNeeded, Known
    <3>4. purge' => fan'
      BY <1>1 DEF FanStep, vented
    <3> QED
      BY <3>1, <3>2, <3>3, <3>4 DEF PurgeOwed, PurgeHolds
  <2> QED
    BY <1>1, <2>1, <2>2
<1>7. /\ work' \in BOOLEAN /\ paused' \in BOOLEAN /\ armed' \in BOOLEAN /\ ready' \in BOOLEAN
      /\ (paused' => work')
  BY <1>1 DEF IInv, TypeOK
<1>8. ssr' \in BOOLEAN
  BY <1>1 DEF HeatAllowed
<1>9. ssr' => fan' /\ gate'
  BY <1>1, <1>3 DEF FanStep
<1>10. ssr' => work /\ healthy /\ ~latched'
  BY <1>3 DEF heatMode
<1>11. lost /\ seen /\ armed => latched'
  <2>1. lost => check # "present" \/ gapped \/ Gap(signal, check)
    BY DEF IInv, GapKnown, Gap
  <2>2. lost /\ seen /\ armed => ZeroCrossLost(session, check)
    BY <2>1 DEF ZeroCrossLost, session
  <2> QED
    BY <1>1, <2>2
<1> QED
  BY <1>2, <1>4, <1>5, <1>6, <1>7, <1>8, <1>9, <1>10, <1>11

LEMMA PassKeeps ==
  ASSUME IInv, ControlPass
  PROVE  IInv' /\ (lost /\ seen /\ armed => latched' /\ ~ssr')
<1>1. PICK sample \in Samples, dt \in Intervals, want \in Wants :
        /\ WatchStep(work, sample, dt, work /\ ~paused /\ want \in Targeted, ssr)
        /\ LET healthy == sample # Nothing /\ ~frozen' IN
             \E check \in Signals, apply \in Signals, hazard \in BOOLEAN,
                temperature \in IF healthy /\ heated THEN Known ELSE {"unknown"} :
               /\ Follows(signal, check) /\ Follows(check, apply)
               /\ Decide(want, healthy, hazard, temperature, check, apply)
  BY DEF ControlPass
<1> DEFINE healthy == sample # Nothing /\ ~frozen'
           job     == work /\ ~paused /\ want \in Targeted
<1>2. work \in BOOLEAN /\ job \in BOOLEAN /\ ssr \in BOOLEAN
  BY DEF IInv, TypeOK
<1>3. WatchStep(work, sample, dt, job, ssr)
  BY <1>1
<1>4. WatchTypeOK'
  BY <1>2, <1>3, WatchTypes DEF IInv, TypeOK
<1>5. /\ Watched'
      /\ healthy => \A ch \in Channels :
           stuckAt'[ch] # NoReading /\ work => stuckFor'[ch] < Grace
  BY <1>2, <1>3, WatchKeeps DEF IInv, TypeOK
<1> HIDE DEF job
<1>6. PICK check \in Signals, apply \in Signals, hazard \in BOOLEAN,
           temperature \in IF healthy /\ heated THEN Known ELSE {"unknown"} :
        /\ Follows(signal, check) /\ Follows(check, apply)
        /\ Decide(want, healthy, hazard, temperature, check, apply)
  BY <1>1
<1>7. healthy \in BOOLEAN
  OBVIOUS
<1> HIDE DEF healthy
<1>8. /\ AirTypeOK' /\ GapKnown' /\ PurgeOwed'
      /\ work' \in BOOLEAN /\ paused' \in BOOLEAN /\ armed' \in BOOLEAN
      /\ ready' \in BOOLEAN /\ latched' \in BOOLEAN /\ ssr' \in BOOLEAN
      /\ (paused' => work') /\ (ssr' => fan' /\ gate')
      /\ ssr' => work /\ healthy
      /\ lost /\ seen /\ armed => latched' /\ ~ssr'
  BY <1>6, <1>7, DecideKeeps
<1>9. TypeOK'
  BY <1>4, <1>8 DEF TypeOK
<1>10. FreezeStops'
  BY <1>5, <1>8 DEF FreezeStops
<1> QED
  BY <1>5, <1>8, <1>9, <1>10 DEF IInv

\* Commands and the interrupt leave the watch alone.
LEMMA BetweenKeeps ==
  ASSUME IInv, Start \/ Stop \/ Pause \/ Inhibit \/ Clear \/ Isr
  PROVE  IInv'
<1>1. UNCHANGED watchVars
  BY DEF Start, Stop, Pause, Inhibit, Clear, Isr
<1>2. WatchTypeOK' /\ Watched'
  BY <1>1 DEF IInv, TypeOK, WatchTypeOK, Watched, watchVars, evidence
<1>3. ssr' = ssr \/ ssr' = FALSE
  BY DEF Start, Stop, Pause, Inhibit, Clear, Isr
<1>4. FreezeStops'
  BY <1>1, <1>3 DEF IInv, FreezeStops, watchVars
<1>5. CASE Isr
  <2>1. AirTypeOK' /\ GapKnown' /\ PurgeOwed' /\ (ssr => fan' /\ gate')
    <3> USE DEF IInv, TypeOK, AirTypeOK, GapKnown, PurgeOwed, PurgeHolds, Signals
    <3>1. CASE Edge
      BY <3>1 DEF Edge, GapCounted
    <3>2. CASE SignalLost(ssr)
      BY <3>2 DEF SignalLost
    <3> QED
      BY <1>5, <3>1, <3>2 DEF Isr
  <2>2. TypeOK'
    BY <1>2, <1>5, <2>1 DEF Isr, jobVars, IInv, TypeOK
  <2> QED
    BY <1>2, <1>4, <2>1, <2>2 DEF IInv
<1>6. CASE Start \/ Stop \/ Pause \/ Inhibit \/ Clear
  <2>1. UNCHANGED airVars
    BY <1>6 DEF Start, Stop, Pause, Inhibit, Clear
  <2>2. AirTypeOK' /\ GapKnown' /\ PurgeOwed'
    BY <2>1 DEF airVars, IInv, TypeOK, AirTypeOK, GapKnown, PurgeOwed, PurgeHolds
  <2>3. /\ work' \in BOOLEAN /\ paused' \in BOOLEAN /\ armed' \in BOOLEAN
        /\ ready' \in BOOLEAN /\ latched' \in BOOLEAN
        /\ (paused' => work')
    <3> USE DEF jobVars, IInv, TypeOK
    <3>1. CASE Start
      BY <3>1 DEF Start
    <3>2. CASE Stop
      BY <3>2 DEF Stop
    <3>3. CASE Pause
      BY <3>3 DEF Pause
    <3>4. CASE Inhibit
      BY <3>4 DEF Inhibit
    <3>5. CASE Clear
      BY <3>5 DEF Clear
    <3> QED
      BY <1>6, <3>1, <3>2, <3>3, <3>4, <3>5
  <2>4. ssr' \in BOOLEAN /\ (ssr' => fan' /\ gate')
    <3>1. ssr' => fan /\ gate
      BY <1>3 DEF IInv, TypeOK
    <3> QED
      BY <1>3, <2>1, <3>1 DEF airVars, IInv, TypeOK
  <2>5. TypeOK'
    BY <1>2, <2>2, <2>3, <2>4 DEF TypeOK
  <2> QED
    BY <1>2, <1>4, <2>2, <2>5 DEF IInv
<1> QED
  BY <1>5, <1>6

LEMMA StepKeeps == IInv /\ [Next]_vars => IInv'
<1> SUFFICES ASSUME IInv, [Next]_vars PROVE IInv'
  OBVIOUS
<1>1. CASE UNCHANGED vars
  BY <1>1 DEF IInv, TypeOK, WatchTypeOK, AirTypeOK, Watched, GapKnown, PurgeOwed, PurgeHolds,
     FreezeStops, vars, watchVars, evidence, airVars, jobVars
<1> QED
  BY <1>1, PassKeeps, BetweenKeeps DEF Next

\* Every reachable state satisfies the strengthened invariant.
THEOREM Invariance == Spec => []IInv
<1> QED
  BY InitIInv, StepKeeps, PTL DEF Spec

\* The watch, the fan and the pass keep their types; the SSR is on only with the
\* fan's gate, and only work can be paused (control_task in safety.c).
THEOREM TypeCorrect == Spec => []TypeOK
<1>1. IInv => TypeOK
  BY DEF IInv
<1> QED
  BY <1>1, Invariance, PTL

\* No channel that has not moved is heated beyond the grace of sensor_watch.h.
THEOREM FrozenSensorStops == Spec => []FreezeStops
<1>1. IInv => FreezeStops
  BY DEF IInv
<1> QED
  BY <1>1, Invariance, PTL

\* The purge that safety.c owes after heat is not forgotten.
THEOREM PurgeIsOwed == Spec => []PurgeHolds
<1>1. IInv => PurgeHolds
  BY DEF IInv, PurgeOwed
<1> QED
  BY <1>1, Invariance, PTL

\* A gap of the zero crossings is seen by the next pass (fan_triac.c, safety.c).
THEOREM GapIsSeen == Spec => GapStopsHeat
<1>1. ASSUME IInv, [Next]_vars, lost, seen, armed, ~lost'
      PROVE  latched' /\ ~ssr'
  <2>1. ControlPass
    BY <1>1 DEF Next, Start, Stop, Pause, Inhibit, Clear, Isr, Edge, SignalLost, vars, airVars
  <2> QED
    BY <1>1, <2>1, PassKeeps
<1>2. IInv /\ [Next]_vars => [lost /\ seen /\ armed /\ ~lost' => latched' /\ ~ssr']_vars
  BY <1>1
<1> QED
  BY <1>2, Invariance, PTL DEF Spec, GapStopsHeat
===============================================================================
