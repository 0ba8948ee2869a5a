-------------------------- MODULE HeatSession_proofs --------------------------
(***************************************************************************)
(* Proofs about HeatSession for every set of reserving tasks and every     *)
(* number of boots.  The invariant ties the readiness of the journal to    *)
(* the worker's program counter (Journalled) and the two history flags to  *)
(* the marker (Remembered); with it every step is one of the contract's.   *)
(***************************************************************************)
EXTENDS HeatSession, TLAPS

\* Heat needs readiness, and readiness a marker nobody is writing.
Journalled ==
  /\ ssr => prepared
  /\ prepared => marker /\ dirty /\ pc \notin Marking \cup Unmarking
  /\ pc = "marked" => marker

\* What has to stay marked, and that nobody is clearing its marker.
Remembered ==
  /\ warm => marker /\ pc \notin Unmarking /\ (ssr \/ fan \/ temp = "hot")
  /\ interrupted => latch /\ marker /\ pc \notin Unmarking

\* The worker's steps that run under the reservation.
Storing == pc \in Unmarking \cup {"flush"}

\* MaintenanceOwned, task by task.
OneOwner ==
  /\ Storing => maint
  /\ \A t \in Tasks : holder[t] # "idle" => maint /\ ~Storing
  /\ \A s, t \in Tasks : holder[s] # "idle" /\ holder[t] # "idle" => s = t
  /\ maint => Storing \/ \E t \in Tasks : holder[t] # "idle"

IInv == TypeOK /\ Journalled /\ Remembered /\ NoFlashWhileHeating /\ OneOwner

-------------------------------------------------------------------------------
\* Task by task or as a set, the reservation has one owner.
LEMMA OwnedByOne == OneOwner => MaintenanceOwned
<1> SUFFICES ASSUME OneOwner PROVE MaintenanceOwned
  OBVIOUS
<1>1. Storing => Owners = {"storage"}
  BY DEF OneOwner, Owners, Storing
<1>2. ASSUME ~Storing PROVE Owners = {t \in Tasks : holder[t] # "idle"}
  BY <1>2 DEF Owners, Storing
<1> QED
  BY <1>1, <1>2 DEF OneOwner, MaintenanceOwned

\* The initial state.
LEMMA InitIInv == Init => IInv
<1> SUFFICES ASSUME Init PROVE IInv
  OBVIOUS
<1>1. TypeOK
  <2>1. boots \in 0..MaxBoots
    BY BootsAssumption DEF Init
  <2>2. holder \in [Tasks -> {"idle", "holds", "kept"}]
    BY DEF Init
  <2> QED
    BY <2>1, <2>2 DEF Init, TypeOK
<1>2. Journalled /\ Remembered /\ NoFlashWhileHeating /\ OneOwner
  BY DEF Init, Journalled, Remembered, NoFlashWhileHeating, OneOwner, Storing, Marking, Unmarking
<1> QED
  BY <1>1, <1>2 DEF IInv

\* A start is admitted only without a reservation and touches no output.
LEMMA StartWorkStep == IInv /\ StartWork => IInv'
<1> SUFFICES ASSUME IInv, StartWork PROVE IInv'
  OBVIOUS
<1> USE DEF IInv, StartWork, policyVars, outputVars, journalVars, Marking, Unmarking, StartAllowed
<1>1. TypeOK'
  BY DEF TypeOK
<1>2. Journalled' /\ Remembered'
  BY DEF Journalled, Remembered, TypeOK, NoFlashWhileHeating
<1>3. NoFlashWhileHeating'
  BY DEF Journalled, NoFlashWhileHeating, TypeOK
<1>4. OneOwner'
  BY DEF OneOwner, Storing, TypeOK
<1> QED
  BY <1>1, <1>2, <1>3, <1>4

\* A schedule changes the job only.
LEMMA ScheduleStep == IInv /\ Schedule => IInv'
<1> SUFFICES ASSUME IInv, Schedule PROVE IInv'
  OBVIOUS
<1> USE DEF IInv, Schedule, policyVars, outputVars, journalVars, Marking, Unmarking, StartAllowed
<1>1. TypeOK'
  BY DEF TypeOK
<1>2. Journalled' /\ Remembered'
  BY DEF Journalled, Remembered, TypeOK, NoFlashWhileHeating
<1>3. NoFlashWhileHeating'
  BY DEF Journalled, NoFlashWhileHeating, TypeOK
<1>4. OneOwner'
  BY DEF OneOwner, Storing, TypeOK
<1> QED
  BY <1>1, <1>2, <1>3, <1>4

\* A stop ends the job; the outputs follow with the next control pass.
LEMMA StopStep == IInv /\ Stop => IInv'
<1> SUFFICES ASSUME IInv, Stop PROVE IInv'
  OBVIOUS
<1> USE DEF IInv, Stop, policyVars, outputVars, journalVars, Marking, Unmarking
<1>1. TypeOK'
  BY DEF TypeOK
<1>2. Journalled' /\ Remembered'
  BY DEF Journalled, Remembered, TypeOK, NoFlashWhileHeating
<1>3. NoFlashWhileHeating'
  BY DEF Journalled, NoFlashWhileHeating, TypeOK
<1>4. OneOwner'
  BY DEF OneOwner, Storing, TypeOK
<1> QED
  BY <1>1, <1>2, <1>3, <1>4

\* Ending one mode is a stop that keeps the latch.
LEMMA EndModeStep == IInv /\ EndMode => IInv'
<1> SUFFICES ASSUME IInv, EndMode PROVE IInv'
  OBVIOUS
<1> USE DEF IInv, EndMode, policyVars, outputVars, journalVars, Marking, Unmarking
<1>1. TypeOK'
  BY DEF TypeOK
<1>2. Journalled' /\ Remembered'
  BY DEF Journalled, Remembered, TypeOK, NoFlashWhileHeating
<1>3. NoFlashWhileHeating'
  BY DEF Journalled, NoFlashWhileHeating, TypeOK
<1>4. OneOwner'
  BY DEF OneOwner, Storing, TypeOK
<1> QED
  BY <1>1, <1>2, <1>3, <1>4

\* A runtime failure sets the latch.
LEMMA InhibitStep == IInv /\ Inhibit => IInv'
<1> SUFFICES ASSUME IInv, Inhibit PROVE IInv'
  OBVIOUS
<1> USE DEF IInv, Inhibit, policyVars, outputVars, journalVars, Marking, Unmarking
<1>1. TypeOK'
  BY DEF TypeOK
<1>2. Journalled' /\ Remembered'
  BY DEF Journalled, Remembered, TypeOK, NoFlashWhileHeating
<1>3. NoFlashWhileHeating'
  BY DEF Journalled, NoFlashWhileHeating, TypeOK
<1>4. OneOwner'
  BY DEF OneOwner, Storing, TypeOK
<1> QED
  BY <1>1, <1>2, <1>3, <1>4

\* A clear forgets the interrupted session together with the latch.
LEMMA ClearLatchStep == IInv /\ ClearLatch => IInv'
<1> SUFFICES ASSUME IInv, ClearLatch PROVE IInv'
  OBVIOUS
<1> USE DEF IInv, ClearLatch, policyVars, outputVars, journalVars, Marking, Unmarking
<1>1. TypeOK'
  BY DEF TypeOK
<1>2. Journalled' /\ Remembered'
  BY DEF Journalled, Remembered, TypeOK, NoFlashWhileHeating
<1>3. NoFlashWhileHeating'
  BY DEF Journalled, NoFlashWhileHeating, TypeOK
<1>4. OneOwner'
  BY DEF OneOwner, Storing, TypeOK
<1> QED
  BY <1>1, <1>2, <1>3, <1>4

\* An old sample counts as hot.
LEMMA SampleAgesStep == IInv /\ SampleAges => IInv'
<1> SUFFICES ASSUME IInv, SampleAges PROVE IInv'
  OBVIOUS
<1> USE DEF IInv, SampleAges, policyVars, outputVars, journalVars, Marking, Unmarking
<1>1. TypeOK'
  BY DEF TypeOK
<1>2. Journalled' /\ Remembered'
  BY DEF Journalled, Remembered, TypeOK, NoFlashWhileHeating
<1>3. NoFlashWhileHeating'
  BY DEF Journalled, NoFlashWhileHeating, TypeOK
<1>4. OneOwner'
  BY DEF OneOwner, Storing, TypeOK
<1> QED
  BY <1>1, <1>2, <1>3, <1>4

\* The control pass: the SSR only with a ready journal and without a reservation.
LEMMA ControlPassStep == IInv /\ ControlPass => IInv'
<1> SUFFICES ASSUME IInv, ControlPass PROVE IInv'
  OBVIOUS
<1> USE DEF IInv, policyVars, outputVars, journalVars, Marking, Unmarking
<1>1. UNCHANGED <<inhibited, maint, holder, prepared, dirty, pc, marker, boots, interrupted>>
  BY DEF ControlPass
<1>2. /\ latch' \in BOOLEAN /\ (latch => latch')
      /\ job' \subseteq {"scheduled", "work"} /\ cycle' \subseteq {"timed", "keep_warm"}
  BY DEF ControlPass, TypeOK
<1>3. /\ fan' \in BOOLEAN /\ temp' \in {"cold", "cool", "hot"}
      /\ ssr' \in BOOLEAN /\ (ssr' => prepared /\ ~maint)
  BY DEF ControlPass, HeatAdmitted, TypeOK
<1>4. /\ warm' \in BOOLEAN
      /\ warm' => ssr' \/ (warm /\ (fan' \/ temp' = "hot"))
  BY DEF ControlPass, HeatAdmitted, TypeOK
<1>5. TypeOK'
  BY <1>1, <1>2, <1>3, <1>4 DEF TypeOK
<1>6. Journalled' /\ Remembered' /\ NoFlashWhileHeating'
  BY <1>1, <1>2, <1>3, <1>4 DEF Journalled, Remembered, NoFlashWhileHeating, TypeOK
<1>7. OneOwner'
  BY <1>1 DEF OneOwner, Storing
<1> QED
  BY <1>5, <1>6, <1>7

\* The mark begins only while the journal is not ready, hence cold.
LEMMA JournalMarkStep == IInv /\ JournalMark => IInv'
<1> SUFFICES ASSUME IInv, JournalMark PROVE IInv'
  OBVIOUS
<1> USE DEF IInv, JournalMark, policyVars, outputVars, journalVars, Marking, Unmarking
<1>1. TypeOK'
  BY DEF TypeOK
<1>2. Journalled' /\ Remembered'
  BY DEF Journalled, Remembered, TypeOK, NoFlashWhileHeating
<1>3. NoFlashWhileHeating'
  BY DEF Journalled, NoFlashWhileHeating, TypeOK
<1>4. OneOwner'
  BY DEF OneOwner, Storing, TypeOK
<1> QED
  BY <1>1, <1>2, <1>3, <1>4

\* Unmarking begins off and cool, and withdraws the readiness first.
LEMMA JournalUnmarkStep == IInv /\ JournalUnmark => IInv'
<1> SUFFICES ASSUME IInv, JournalUnmark PROVE IInv'
  OBVIOUS
<1> USE DEF IInv, JournalUnmark, policyVars, outputVars, journalVars, Marking, Unmarking,
           UnmarkAllowed, CheckpointAllowed, SetupAllowed
<1>1. TypeOK'
  BY DEF TypeOK
<1>2. Journalled' /\ Remembered'
  BY DEF Journalled, Remembered, TypeOK, NoFlashWhileHeating
<1>3. NoFlashWhileHeating'
  BY DEF Journalled, NoFlashWhileHeating, TypeOK
<1>4. OneOwner'
  BY DEF OneOwner, Storing, TypeOK
<1> QED
  BY <1>1, <1>2, <1>3, <1>4

\* The marker is written with the readiness withdrawn.
LEMMA WriteMarkerStep == IInv /\ WriteMarker => IInv'
<1> SUFFICES ASSUME IInv, WriteMarker PROVE IInv'
  OBVIOUS
<1> USE DEF IInv, WriteMarker, policyVars, outputVars, journalVars, Marking, Unmarking
<1>1. TypeOK'
  <2>1. UNCHANGED <<policyVars, outputVars, maint, holder, prepared, dirty, boots, warm, interrupted>>
    OBVIOUS
  <2>2. pc' \in {"marked", "mark_failed", "unmarked", "unmark_failed"} /\ marker' \in BOOLEAN
    BY DEF TypeOK
  <2> QED
    BY <2>1, <2>2 DEF TypeOK
<1>2. Journalled' /\ Remembered'
  BY DEF Journalled, Remembered, TypeOK, NoFlashWhileHeating
<1>3. NoFlashWhileHeating'
  BY DEF Journalled, NoFlashWhileHeating, TypeOK
<1>4. OneOwner'
  BY DEF OneOwner, Storing, TypeOK
<1> QED
  BY <1>1, <1>2, <1>3, <1>4

\* The outcome of the write becomes visible with the reservation returned.
LEMMA JournalFinishStep == IInv /\ JournalFinish => IInv'
<1> SUFFICES ASSUME IInv, JournalFinish PROVE IInv'
  OBVIOUS
<1> USE DEF IInv, JournalFinish, policyVars, outputVars, journalVars, Marking, Unmarking,
           UnmarkEnds
<1>1. TypeOK'
  <2>1. UNCHANGED <<job, cycle, outputVars, holder, marker, boots, warm, interrupted>>
    OBVIOUS
  <2>2. /\ pc' = "idle" /\ latch' \in BOOLEAN /\ inhibited' \in BOOLEAN /\ (inhibited' => latch')
        /\ maint' \in BOOLEAN /\ prepared' \in BOOLEAN /\ dirty' \in BOOLEAN
    <3>1. CASE pc = "marked"
      BY <3>1 DEF TypeOK
    <3>2. CASE pc = "unmarked"
      <4>1. /\ pc' = "idle" /\ dirty' = FALSE /\ maint' = FALSE
            /\ UNCHANGED <<latch, inhibited, prepared>>
        BY <3>2
      <4> QED
        BY <4>1 DEF TypeOK
    <3>3. CASE pc \in {"mark_failed", "unmark_failed"}
      BY <3>3 DEF TypeOK
    <3> QED
      BY <3>1, <3>2, <3>3
  <2> QED
    BY <2>1, <2>2 DEF TypeOK
<1>2. Journalled' /\ Remembered'
  BY DEF Journalled, Remembered, TypeOK, NoFlashWhileHeating
<1>3. NoFlashWhileHeating'
  BY DEF Journalled, NoFlashWhileHeating, TypeOK
<1>4. OneOwner'
  BY DEF OneOwner, Storing, TypeOK
<1> QED
  BY <1>1, <1>2, <1>3, <1>4

\* A flush reserves only off and cool.
LEMMA FlushBeginStep == IInv /\ FlushBegin => IInv'
<1> SUFFICES ASSUME IInv, FlushBegin PROVE IInv'
  OBVIOUS
<1> USE DEF IInv, FlushBegin, policyVars, outputVars, journalVars, Marking, Unmarking,
           CheckpointAllowed, SetupAllowed
<1>1. TypeOK'
  BY DEF TypeOK
<1>2. Journalled' /\ Remembered'
  BY DEF Journalled, Remembered, TypeOK, NoFlashWhileHeating
<1>3. NoFlashWhileHeating'
  BY DEF Journalled, NoFlashWhileHeating, TypeOK
<1>4. OneOwner'
  BY DEF OneOwner, Storing, TypeOK
<1> QED
  BY <1>1, <1>2, <1>3, <1>4

\* The flush returns its own reservation.
LEMMA FlushEndStep == IInv /\ FlushEnd => IInv'
<1> SUFFICES ASSUME IInv, FlushEnd PROVE IInv'
  OBVIOUS
<1> USE DEF IInv, FlushEnd, policyVars, outputVars, journalVars, Marking, Unmarking
<1>1. TypeOK'
  BY DEF TypeOK
<1>2. Journalled' /\ Remembered'
  BY DEF Journalled, Remembered, TypeOK, NoFlashWhileHeating
<1>3. NoFlashWhileHeating'
  BY DEF Journalled, NoFlashWhileHeating, TypeOK
<1>4. OneOwner'
  BY DEF OneOwner, Storing, TypeOK
<1> QED
  BY <1>1, <1>2, <1>3, <1>4

\* A task reserves only when nobody does, and with the SSR off.
LEMMA ReserveStep == ASSUME NEW t \in Tasks PROVE IInv /\ Reserve(t) => IInv'
<1> SUFFICES ASSUME IInv, Reserve(t) PROVE IInv'
  OBVIOUS
<1> USE DEF IInv, policyVars, outputVars, journalVars
<1>1. /\ ~maint /\ ~ssr /\ maint' = TRUE /\ holder' = [holder EXCEPT ![t] = "holds"]
      /\ UNCHANGED <<policyVars, outputVars, journalVars, boots, warm, interrupted>>
  BY DEF Reserve, CheckpointAllowed, ColdAllowed, SetupAllowed
<1>2. TypeOK'
  BY <1>1 DEF TypeOK
<1>3. Journalled' /\ Remembered' /\ NoFlashWhileHeating'
  BY <1>1 DEF Journalled, Remembered, NoFlashWhileHeating
<1>4. OneOwner'
  BY <1>1 DEF OneOwner, Storing, TypeOK
<1> QED
  BY <1>2, <1>3, <1>4

\* A task returns its own reservation.
LEMMA ReleaseStep == ASSUME NEW t \in Tasks PROVE IInv /\ Release(t) => IInv'
<1> SUFFICES ASSUME IInv, Release(t) PROVE IInv'
  OBVIOUS
<1> USE DEF IInv, policyVars, outputVars, journalVars
<1>1. /\ holder[t] = "holds" /\ maint' = FALSE /\ holder' = [holder EXCEPT ![t] = "idle"]
      /\ UNCHANGED <<policyVars, outputVars, journalVars, boots, warm, interrupted>>
  BY DEF Release
<1>2. TypeOK'
  <2>1. holder' \in [Tasks -> {"idle", "holds", "kept"}]
    BY <1>1 DEF TypeOK
  <2>2. maint' \in BOOLEAN
    BY <1>1
  <2>3. UNCHANGED <<policyVars, outputVars, journalVars, boots, warm, interrupted>>
    BY <1>1
  <2> QED
    BY <2>1, <2>2, <2>3 DEF TypeOK
<1>3. Journalled' /\ Remembered' /\ NoFlashWhileHeating'
  BY <1>1 DEF Journalled, Remembered, NoFlashWhileHeating
<1>4. OneOwner'
  BY <1>1 DEF OneOwner, Storing, TypeOK
<1> QED
  BY <1>2, <1>3, <1>4

\* A kept reservation is still that task's.
LEMMA KeepStep == ASSUME NEW t \in Tasks PROVE IInv /\ Keep(t) => IInv'
<1> SUFFICES ASSUME IInv, Keep(t) PROVE IInv'
  OBVIOUS
<1> USE DEF IInv, policyVars, outputVars, journalVars
<1>1. /\ holder[t] = "holds" /\ holder' = [holder EXCEPT ![t] = "kept"]
      /\ UNCHANGED <<policyVars, outputVars, maint, journalVars, boots, warm, interrupted>>
  BY DEF Keep
<1>2. TypeOK'
  BY <1>1 DEF TypeOK
<1>3. Journalled' /\ Remembered' /\ NoFlashWhileHeating'
  BY <1>1 DEF Journalled, Remembered, NoFlashWhileHeating
<1>4. OneOwner'
  BY <1>1 DEF OneOwner, Storing, TypeOK
<1> QED
  BY <1>2, <1>3, <1>4

\* Power loss at any point: a warm chamber was marked, so the boot latches.
LEMMA PowerLossStep == IInv /\ PowerLoss => IInv'
<1> SUFFICES ASSUME IInv, PowerLoss PROVE IInv'
  OBVIOUS
<1> USE DEF IInv, Marking, Unmarking
<1>1. /\ job' = {} /\ cycle' = {} /\ ssr' = FALSE /\ fan' = FALSE /\ temp' = "hot"
      /\ maint' = FALSE /\ holder' = [t \in Tasks |-> "idle"]
      /\ prepared' = FALSE /\ pc' = "idle"
      /\ UNCHANGED <<marker, warm>>
  BY DEF PowerLoss, Boot
<1>2. /\ latch' \in BOOLEAN /\ inhibited' \in BOOLEAN /\ (inhibited' => latch')
      /\ dirty' \in BOOLEAN /\ (marker => latch')
  BY DEF PowerLoss, Boot, BootLatch, TypeOK
<1>3. interrupted' \in BOOLEAN /\ (interrupted' => interrupted \/ warm)
  BY DEF PowerLoss, Boot, TypeOK
<1>4. boots' \in 0..MaxBoots
  BY BootsAssumption DEF PowerLoss, TypeOK
<1>5. TypeOK'
  BY <1>1, <1>2, <1>3, <1>4 DEF TypeOK
<1>6. Journalled' /\ Remembered' /\ NoFlashWhileHeating'
  BY <1>1, <1>2, <1>3 DEF Journalled, Remembered, NoFlashWhileHeating
<1>7. OneOwner'
  BY <1>1 DEF OneOwner, Storing
<1> QED
  BY <1>5, <1>6, <1>7

\* Every step of the specification keeps the invariant.
LEMMA StepIInv == IInv /\ [Next]_vars => IInv'
<1> SUFFICES ASSUME IInv, [Next]_vars PROVE IInv'
  OBVIOUS
<1>1. CASE StorageWorker
  BY <1>1, JournalMarkStep, JournalUnmarkStep, WriteMarkerStep, JournalFinishStep,
     FlushBeginStep, FlushEndStep DEF StorageWorker
<1>2. CASE \E t \in Tasks : Reserve(t) \/ Release(t) \/ Keep(t) \/ Restart(t)
  BY <1>2, ReserveStep, ReleaseStep, KeepStep, PowerLossStep DEF Restart
<1>3. CASE UNCHANGED vars
  BY <1>3 DEF vars, policyVars, outputVars, journalVars, IInv, TypeOK, Journalled, Remembered,
     NoFlashWhileHeating, OneOwner, Storing
<1> QED
  BY <1>1, <1>2, <1>3, PowerLossStep, StartWorkStep, ScheduleStep, StopStep, EndModeStep,
     InhibitStep, ClearLatchStep, ControlPassStep, SampleAgesStep DEF Next

-------------------------------------------------------------------------------
\* The inductive invariant holds of every behaviour.
THEOREM Invariance == Spec => []IInv
BY InitIInv, StepIInv, PTL DEF Spec

\* The state has its types, and an inhibited controller is latched.
THEOREM TypeCorrect == Spec => []TypeOK
<1>1. IInv => TypeOK
  BY DEF IInv
<1> QED
  BY <1>1, Invariance, PTL

\* However the tasks interleave, the one maintenance flag has one owner while
\* it is set (shu1_control_maintenance_begin and _end and their callers).
THEOREM ReservationIsOwned == Spec => []MaintenanceOwned
<1>1. IInv => MaintenanceOwned
  BY OwnedByOne DEF IInv
<1> QED
  BY <1>1, Invariance, PTL

\* No flash write of any task runs beside a conducting SSR.
THEOREM FlashIsCold == Spec => []NoFlashWhileHeating
<1>1. IInv => NoFlashWhileHeating
  BY DEF IInv
<1> QED
  BY <1>1, Invariance, PTL

\* The marker is durable from the first heat until the chamber was seen off
\* and cool (session_journal_service against heater_set).
THEOREM HotIsMarked == Spec => []HotMeansMarked
<1>1. IInv => HotMeansMarked
  BY DEF IInv, Remembered, HotMeansMarked
<1> QED
  BY <1>1, Invariance, PTL

\* A ready journal stands for a durable marker.
THEOREM ReadyIsMarked == Spec => []ReadyMeansMarked
<1>1. IInv => ReadyMeansMarked
  BY DEF IInv, Journalled, ReadyMeansMarked
<1> QED
  BY <1>1, Invariance, PTL

\* A session that power loss interrupted is latched until a clear.
THEOREM InterruptionIsLatched == Spec => []InterruptedIsLatched
<1>1. IInv => InterruptedIsLatched
  BY DEF IInv, Remembered, InterruptedIsLatched
<1> QED
  BY <1>1, Invariance, PTL

-------------------------------------------------------------------------------
\* One step of the firmware is a step of the contract or a stutter.
LEMMA StepRefines == IInv /\ [Next]_vars => [Session!Next]_(Session!vars)
<1> SUFFICES ASSUME IInv, [Next]_vars PROVE [Session!Next]_(Session!vars)
  OBVIOUS
<1> USE DEF Session!Next, Session!vars
<1>1. CASE UNCHANGED <<marker, ssr, warm, latch>>
  BY <1>1
<1>2. CASE ControlPass
  <2>1. UNCHANGED marker /\ (ssr' => prepared /\ ~latch') /\ ssr' \in BOOLEAN
    BY <1>2 DEF ControlPass, HeatAdmitted, journalVars, IInv, TypeOK
  <2>2. latch' \in {latch, TRUE}
    BY <1>2 DEF ControlPass, IInv, TypeOK
  <2>3. warm' \in {ssr', warm} /\ (ssr' => warm')
    BY <1>2 DEF ControlPass, HeatAdmitted, IInv, TypeOK
  <2> QED
    BY <2>1, <2>2, <2>3 DEF Session!Drive, IInv, Journalled
<1>3. CASE PowerLoss
  <2>1. ssr' = FALSE /\ UNCHANGED <<marker, warm>> /\ latch' \in BOOLEAN /\ (marker => latch')
    BY <1>3 DEF PowerLoss, Boot, BootLatch, IInv, TypeOK
  <2> QED
    BY <2>1 DEF Session!Lost
<1>4. CASE WriteMarker
  <2>1. /\ UNCHANGED <<ssr, warm, latch>>
        /\ \/ pc = "mark" /\ marker' \in {marker, TRUE}
           \/ pc = "unmark" /\ marker' \in {marker, FALSE}
    BY <1>4 DEF WriteMarker, outputVars, policyVars
  <2>2. (pc = "mark" => ~ssr) /\ (pc = "unmark" => ~warm)
    BY DEF IInv, NoFlashWhileHeating, Remembered, Marking, Unmarking
  <2> QED
    BY <2>1, <2>2 DEF Session!Mark, Session!Unmark
<1>5. CASE Stop \/ Inhibit \/ JournalFinish
  <2>1. UNCHANGED <<marker, ssr, warm>> /\ latch' \in {latch, TRUE}
    BY <1>5 DEF Stop, Inhibit, JournalFinish, outputVars, journalVars, IInv, TypeOK
  <2> QED
    BY <2>1 DEF Session!Lock
<1>6. CASE ClearLatch
  BY <1>6 DEF ClearLatch, Session!Unlock, outputVars, journalVars
<1>7. CASE StartWork \/ Schedule \/ EndMode \/ SampleAges
  BY <1>7, <1>1 DEF StartWork, Schedule, EndMode, SampleAges, outputVars, journalVars, policyVars
<1>8. CASE JournalMark \/ JournalUnmark \/ FlushBegin \/ FlushEnd
  BY <1>8, <1>1 DEF JournalMark, JournalUnmark, FlushBegin, FlushEnd, outputVars, policyVars
<1>9. ASSUME NEW t \in Tasks, Reserve(t) \/ Release(t) \/ Keep(t) \/ Restart(t)
      PROVE  [Session!Next]_(Session!vars)
  BY <1>9, <1>1, <1>3 DEF Reserve, Release, Keep, Restart, outputVars, policyVars, journalVars
<1>10. CASE UNCHANGED vars
  BY <1>10, <1>1 DEF vars, outputVars, policyVars, journalVars
<1> QED
  BY <1>2, <1>3, <1>4, <1>5, <1>6, <1>7, <1>8, <1>9, <1>10 DEF Next, StorageWorker

\* Heating implements the abstract session about power loss.
THEOREM Refinement == Spec => SessionImplemented
<1>1. Init => Session!Init
  BY DEF Init, Session!Init
<1> QED
  BY <1>1, StepRefines, Invariance, PTL DEF Spec, SessionImplemented, Session!Spec

-------------------------------------------------------------------------------
\* What a pass makes of the job: no more than the job and the work, and no
\* schedule that was not there.
LEMMA PassedJob ==
  ASSUME IInv, ControlPass
  PROVE  /\ job' \subseteq {"work", "scheduled"} /\ ("scheduled" \in job' => "scheduled" \in job)
         /\ latch' => job' = {}
<1>1. PICK trip \in BOOLEAN, demand \in BOOLEAN, j \in SUBSET {"scheduled", "work"},
           c \in SUBSET {"timed", "keep_warm"} :
        /\ Workflow(j, c)
        /\ IF latch' THEN job' = {} /\ cycle' = {} ELSE job' = j /\ cycle' = c
  BY DEF ControlPass
<1>2. "scheduled" \in j => "scheduled" \in job
  BY <1>1 DEF Workflow
<1> QED
  BY <1>1, <1>2

\* One step of the session is a step of the job's contract or a stutter.
LEMMA StepKeepsContract == IInv /\ [Next]_vars => [Contract!Next]_(Contract!vars)
<1> SUFFICES ASSUME IInv, [Next]_vars PROVE [Contract!Next]_(Contract!vars)
  OBVIOUS
<1> USE DEF Contract!Next, Contract!vars, policyVars, outputVars, journalVars
<1>1. CASE UNCHANGED <<job, latch, ssr, boots>>
  BY <1>1
<1>2. CASE StartWork \/ Schedule
  <2>1. ~latch /\ job' \subseteq {"work", "scheduled"} /\ UNCHANGED <<latch, ssr, boots>>
    BY <1>2 DEF StartWork, Schedule, StartAllowed, IInv, TypeOK
  <2> QED
    BY <2>1 DEF Contract!Request, Contract!Part
<1>3. CASE Stop \/ EndMode \/ Inhibit \/ JournalFinish
  <2>1. job' \subseteq job /\ UNCHANGED <<ssr, boots>>
    BY <1>3 DEF Stop, EndMode, Inhibit, JournalFinish
  <2>2. latch' \in {latch, TRUE}
    BY <1>3 DEF Stop, EndMode, Inhibit, JournalFinish, IInv, TypeOK
  <2> QED
    BY <2>1, <2>2 DEF Contract!Withdraw
<1>4. CASE ClearLatch
  BY <1>4 DEF ClearLatch, Contract!Clear, IInv, TypeOK
<1>5. CASE ControlPass
  <2>1. latch' \in {latch, TRUE} /\ boots' = boots
    BY <1>5 DEF ControlPass, IInv, TypeOK
  <2>2. ssr' \in BOOLEAN /\ (ssr' => "work" \in job')
    BY <1>5 DEF ControlPass, HeatAdmitted
  <2> QED
    BY <1>5, <2>1, <2>2, PassedJob DEF Contract!Pass, Contract!Part
<1>6. CASE PowerLoss
  BY <1>6 DEF PowerLoss, Boot, BootLatch, Contract!Restart, IInv, TypeOK
<1>7. CASE SampleAges \/ JournalMark \/ JournalUnmark \/ WriteMarker \/ FlushBegin \/ FlushEnd
  BY <1>7, <1>1 DEF SampleAges, JournalMark, JournalUnmark, WriteMarker, FlushBegin, FlushEnd
<1>8. ASSUME NEW t \in Tasks, Reserve(t) \/ Release(t) \/ Keep(t) \/ Restart(t)
      PROVE  [Contract!Next]_(Contract!vars)
  BY <1>8, <1>1, <1>6 DEF Reserve, Release, Keep, Restart
<1>9. CASE UNCHANGED vars
  BY <1>9, <1>1 DEF vars
<1> QED
  BY <1>2, <1>3, <1>4, <1>5, <1>6, <1>7, <1>8, <1>9 DEF Next, StorageWorker

\* The session keeps the contract of job, latch and output (the start checks,
\* the control pass and the clear together).
THEOREM SessionImplementsJobContract == Spec => JobImplemented
<1>1. Init => Contract!Init
  BY DEF Init, Contract!Init
<1> QED
  BY <1>1, StepKeepsContract, Invariance, PTL DEF Spec, JobImplemented, Contract!Spec
===============================================================================
