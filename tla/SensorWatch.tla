------------------------------ MODULE SensorWatch ------------------------------
(***************************************************************************)
(* The watch of sensor_watch.h over the raw readings of the two sensors: a *)
(* reading that does not move while the heater has been on long enough is  *)
(* suspected; a suspicion that is not answered by movement of that channel *)
(* within the grace period freezes the watch.  One step per control pass;  *)
(* Thermal composes it with the pass.                                      *)
(*                                                                         *)
(* Time is counted in units of the longest interval between two samples    *)
(* that still counts as watching (1.5 s).  The system clock never steps    *)
(* back.                                                                   *)
(***************************************************************************)
EXTENDS Integers

CONSTANTS
  Channels,     \* chamber and PTC
  Readings,     \* raw codes of a plausible sample
  NoReading,
  StillWindow,  \* 60 s
  MinOutput,    \* 30 s with the heater on
  Grace         \* 300 s

ASSUME ReadingAssumption == NoReading \notin Readings
ASSUME WindowAssumption ==
  /\ StillWindow \in Nat \ {0} /\ MinOutput \in Nat \ {0} /\ Grace \in Nat \ {0}

VARIABLES
  tracking,  \* the sample before this one counts
  raw,       \* of each channel: the reading it rests at
  still, on, \* how long it has rested, and how long of that the heater was on
  suspect,   \* suspect_mask and suspect_raw: the reading a channel is suspected for
  warned,    \* warning_us # 0
  age,       \* now - warning_us
  frozen,
  stuckAt,   \* history: the reading a channel was suspected for and has not left
  stuckFor,  \* history: for how long
  confirmed  \* history: a reading of its own has found one of them beyond the grace

evidence  == <<tracking, raw, still, on>>
watchVars == <<evidence, suspect, warned, age, frozen, stuckAt, stuckFor, confirmed>>

Reading   == Readings \cup {NoReading}
Intervals == {1, 2}   \* within and beyond SHU1_SAMPLE_MAX_AGE_US
Counts(dt) == dt = 1

Capped(n, limit) == IF n < limit THEN n ELSE limit
Nothing == [ch \in Channels |-> NoReading]
Never   == [ch \in Channels |-> 0]

WatchTypeOK ==
  /\ tracking \in BOOLEAN /\ warned \in BOOLEAN /\ frozen \in BOOLEAN
  /\ raw \in [Channels -> Reading]
  /\ still \in [Channels -> 0..StillWindow] /\ on \in [Channels -> 0..MinOutput]
  /\ suspect \in [Channels -> Reading] /\ age \in 0..Grace
  /\ stuckAt \in [Channels -> Reading] /\ stuckFor \in [Channels -> 0..Grace]
  /\ confirmed \in BOOLEAN

WatchInit ==
  /\ tracking = FALSE /\ raw = Nothing /\ still = Never /\ on = Never
  /\ suspect = Nothing /\ warned = FALSE /\ age = 0 /\ frozen = FALSE
  /\ stuckAt = Nothing /\ stuckFor = Never /\ confirmed = FALSE

\* tracking = FALSE: what has been gathered is not read again.
Untracked == tracking' = FALSE /\ raw' = Nothing /\ still' = Never /\ on' = Never

\* control_task: OFF cancels a warning, but not a frozen watch.
Pending(work) == frozen \/ (warned /\ work)

Older(dt) == Capped(age + dt, Grace)

\* A stale or an invalid sample ends the tracking, a warning runs on.
Unusable(work, dt) ==
  /\ Untracked
  /\ warned' = (warned /\ (work \/ frozen))
  /\ age' = IF warned' THEN Older(dt) ELSE 0
  /\ UNCHANGED <<suspect, frozen>>

\* Mutant: any movement answers every suspicion.
UnmovedAtAll(reading) ==
  {ch \in Channels : suspect[ch] # NoReading /\ \A c \in Channels :
                       suspect[c] # NoReading => reading[c] = suspect[c]}

\* Only movement of the suspected channel itself ends its suspicion.
Unmoved(reading) == {ch \in Channels : suspect[ch] # NoReading /\ reading[ch] = suspect[ch]}

Suspected(set, reading) ==
  suspect' = [ch \in Channels |-> IF ch \in set THEN reading[ch] ELSE NoReading]

\* What is still under suspicion when the channels are looked at.
Remaining(work, reading) == IF Pending(work) THEN Unmoved(reading) ELSE {}

Expired(work, reading, dt) ==
  /\ Remaining(work, reading) # {}
  /\ frozen \/ age + dt >= Grace

Freeze(work, reading, dt) ==
  /\ Expired(work, reading, dt)
  /\ frozen' = TRUE /\ Suspected(Remaining(work, reading), reading)
  /\ age' = Older(dt)
  /\ UNCHANGED <<evidence, warned>>

\* The channel rests: watched for a whole interval of heating, reading as before.
\* A warning that was just answered, or cancelled, starts the watch anew.
Rests(ch, work, reading, dt, job) ==
  /\ job /\ Counts(dt) /\ tracking /\ reading[ch] = raw[ch]
  /\ (frozen \/ warned) => Remaining(work, reading) # {}

StillNow(ch, dt) == Capped(still[ch] + dt, StillWindow)
OnNow(ch, dt, applied) == IF applied THEN Capped(on[ch] + dt, MinOutput) ELSE on[ch]

Evident(work, reading, dt, job, applied) ==
  {ch \in Channels \ Remaining(work, reading) :
     /\ Rests(ch, work, reading, dt, job)
     /\ StillNow(ch, dt) >= StillWindow /\ OnNow(ch, dt, applied) >= MinOutput}

\* A further suspicion does not move the deadline of the warning.
Watch(work, reading, dt, job, applied) ==
  LET left  == Remaining(work, reading)
      fresh == Evident(work, reading, dt, job, applied)
      Kept(ch) == Rests(ch, work, reading, dt, job)
  IN /\ ~Expired(work, reading, dt)
     /\ frozen' = FALSE /\ warned' = (left \cup fresh # {})
     /\ age' = IF left # {} THEN Older(dt) ELSE 0
     /\ Suspected(left \cup fresh, reading)
     /\ IF job
        THEN /\ tracking' = TRUE /\ raw' = reading
             /\ still' = [ch \in Channels |-> IF Kept(ch) THEN StillNow(ch, dt) ELSE 0]
             /\ on' = [ch \in Channels |-> IF Kept(ch) THEN OnNow(ch, dt, applied) ELSE 0]
        ELSE Untracked

\* History: a suspicion lasts until its channel moves, or until OFF comes before it
\* is confirmed.  What a pass suspects anew counts from there.
Stuck(work, sample, dt, anew) ==
  LET Stays(ch) == /\ stuckAt[ch] # NoReading /\ (work \/ confirmed)
                   /\ sample # Nothing => sample[ch] = stuckAt[ch]
      Age(ch)   == IF Stays(ch) THEN Capped(stuckFor[ch] + dt, Grace) ELSE 0
      stays     == {ch \in Channels : Stays(ch)}
  IN /\ stuckAt' = [ch \in Channels |-> IF ch \in stays THEN stuckAt[ch]
                      ELSE IF ch \in anew THEN sample[ch] ELSE NoReading]
     /\ stuckFor' = [ch \in Channels |-> Age(ch)]
     /\ confirmed' = /\ stays # {}
                     /\ confirmed \/ (sample # Nothing /\ \E ch \in stays : Age(ch) = Grace)

\* shu1_sensor_watch_step; Nothing stands for a stale or an invalid sample.
WatchStep(work, sample, dt, job, applied) ==
  \/ /\ sample = Nothing
     /\ Unusable(work, dt) /\ Stuck(work, sample, dt, {})
  \/ /\ sample # Nothing
     /\ Freeze(work, sample, dt) /\ Stuck(work, sample, dt, {})
  \/ /\ sample # Nothing
     /\ Watch(work, sample, dt, job, applied)
     /\ Stuck(work, sample, dt, Evident(work, sample, dt, job, applied))
===============================================================================
