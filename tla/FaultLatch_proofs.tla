--------------------------- MODULE FaultLatch_proofs ---------------------------
(***************************************************************************)
(* Proofs about FaultLatch for every set of hazards, every number of boots *)
(* and every generation bound.  The safety invariants are not inductive:   *)
(* what makes them so is which transaction each point of the worker        *)
(* carries (WorkerOwns), what a finished transaction has left in flash     *)
(* (WrittenIsDurable) and when the SSR can be on beside the latch          *)
(* (LatchCutsSoon).                                                        *)
(***************************************************************************)
EXTENDS FaultLatch, TLAPS

\* Each point of the worker belongs to one kind of transaction, and only a
\* latched controller is written.
WorkerOwns ==
  /\ pc \in Writing => latched /\ ~txn.ok /\ txn.op \in {"clear", "persist"}
  /\ pc = "validate" => txn.op = "clear" /\ ~txn.ok
  /\ pc = "finish_clear" => txn.op = "clear" /\ (txn.ok => latched)
  /\ pc = "finish_retry" => txn.op = "persist"

\* A transaction that succeeded left its target in flash; for a record, as long
\* as no newer fault has come.
WrittenIsDurable ==
  /\ pc = "finish_clear" /\ txn.ok => ~nvs.latch
  /\ pc = "finish_retry" /\ txn.ok /\ txn.gen = generation /\ hazardOpen => nvs.latch

\* Nothing in flight is of a later generation than the latch.
GenerationOrder ==
  /\ txn.gen <= generation /\ clearGeneration <= generation
  /\ latched => generation <= MaxGeneration

\* The SSR can be on in a latched controller only until the woken control task
\* runs.
LatchCutsSoon == latched /\ ssr => woken

\* What the invariant is for.
Consequences ==
  /\ LatchCutsSoon /\ NoWriteWhileHeating /\ HazardIsRecorded
  /\ UnlatchedMeansErased /\ InhibitHolds

IInv == TypeOK /\ WorkerOwns /\ WrittenIsDurable /\ GenerationOrder /\ Consequences

-------------------------------------------------------------------------------
\* Generation 0 is one of the generations.
LEMMA ZeroGeneration == 0 \in Generation
BY BoundsAssumption DEF Generation

\* The faults the code names, and that OK is no hazard.
LEMMA FaultNames ==
  /\ {"OK", "PANIC_OFF", "PERSISTED_FAULT", "NVS_UNREADABLE", "ZERO_CROSS_LOST"} \subseteq Fault
  /\ HazardCode \subseteq Fault /\ "OK" \notin HazardCode
BY DEF Fault, HazardCode

\* The initial state.
LEMMA InitIInv == Init => IInv
<1> SUFFICES ASSUME Init PROVE IInv
  OBVIOUS
<1>1. LatchTypes
  BY ZeroGeneration, FaultNames DEF Init, LatchTypes
<1>2. WorkerTypes
  BY ZeroGeneration, FaultNames DEF Init, WorkerTypes, NoTxn
<1>3. PlantTypes /\ HistoryTypes /\ boots \in 0..MaxBoots
  <2>1. boots \in 0..MaxBoots
    BY BoundsAssumption DEF Init
  <2> QED
    BY <2>1 DEF Init, PlantTypes, HistoryTypes
<1>4. WorkerOwns /\ WrittenIsDurable /\ GenerationOrder
  BY BoundsAssumption DEF Init, WorkerOwns, WrittenIsDurable, GenerationOrder, Writing, NoTxn
<1>5. Consequences
  BY DEF Init, Consequences, LatchCutsSoon, HazardIsRecorded, UnlatchedMeansErased,
         NoWriteWhileHeating, InhibitHolds, Writing
<1> QED
  BY <1>1, <1>2, <1>3, <1>4, <1>5 DEF IInv, TypeOK

\* What a step may write without the invariant noticing: the request flag, the
\* retry pause, the job, the age of the sample, and a wake.
LEMMA PlantStep ==
  ASSUME IInv, ssr' = ssr, woken => woken',
         clearRequested' \in BOOLEAN, attemptRecent' \in BOOLEAN, PlantTypes', HistoryTypes',
         UNCHANGED <<latched, inhibited, persistPending, fault, generation, deferredClear,
                     clearGeneration, pc, txn, nvs, hazardOpen, boots>>
  PROVE  IInv'
<1> USE DEF IInv, TypeOK
<1>1. LatchTypes' /\ WorkerTypes' /\ boots' \in 0..MaxBoots
  BY DEF LatchTypes, WorkerTypes
<1>2. WorkerOwns' /\ WrittenIsDurable' /\ GenerationOrder'
  BY DEF WorkerOwns, WrittenIsDurable, GenerationOrder
<1>3. Consequences'
  BY DEF Consequences, LatchCutsSoon, HazardIsRecorded, UnlatchedMeansErased,
     NoWriteWhileHeating, InhibitHolds, Clearing
<1> QED
  BY <1>1, <1>2, <1>3

\* A start needs an open latch and writes none.
LEMMA StartJobStep == IInv /\ StartJob => IInv'
BY PlantStep DEF IInv, TypeOK, LatchTypes, WorkerTypes, PlantTypes, HistoryTypes, StartJob,
   latchVars, plantVars, workerVars, history

\* A stop leaves the latch alone.
LEMMA SafeStopStep == IInv /\ SafeStop => IInv'
BY PlantStep DEF IInv, TypeOK, LatchTypes, WorkerTypes, PlantTypes, HistoryTypes, SafeStop,
   latchVars, plantVars, workerVars, history

\* A request only leaves a flag.
LEMMA RequestClearStep == IInv /\ RequestClear => IInv'
BY PlantStep DEF IInv, TypeOK, LatchTypes, WorkerTypes, PlantTypes, HistoryTypes, RequestClear,
   latchVars, plantVars, workerVars, history

\* An old sample changes no part of the latch.
LEMMA SampleAgesStep == IInv /\ SampleAges => IInv'
<1> SUFFICES ASSUME IInv, SampleAges PROVE IInv'
  OBVIOUS
<1> USE DEF SampleAges, latchVars, workerVars, history
<1>1. PlantTypes' /\ HistoryTypes'
  BY DEF IInv, TypeOK, PlantTypes, HistoryTypes
<1>2. clearRequested' \in BOOLEAN /\ attemptRecent' \in BOOLEAN
  BY DEF IInv, TypeOK, LatchTypes, WorkerTypes
<1> QED
  BY <1>1, <1>2, PlantStep

\* The end of the pause only lets the worker retry.
LEMMA RetryPauseEndsStep == IInv /\ RetryPauseEnds => IInv'
<1> SUFFICES ASSUME IInv, RetryPauseEnds PROVE IInv'
  OBVIOUS
<1> USE DEF RetryPauseEnds, latchVars, plantVars, history
<1>1. PlantTypes' /\ HistoryTypes'
  BY DEF IInv, TypeOK, PlantTypes, HistoryTypes
<1>2. clearRequested' \in BOOLEAN /\ attemptRecent' \in BOOLEAN
  BY DEF IInv, TypeOK, LatchTypes, WorkerTypes
<1> QED
  BY <1>1, <1>2, PlantStep

\* A panic latches; the SSR it finds on is covered by the wake.
LEMMA EmergencyStopStep == IInv /\ EmergencyStop => IInv'
<1> SUFFICES ASSUME IInv, EmergencyStop PROVE IInv'
  OBVIOUS
<1> USE DEF IInv, TypeOK, EmergencyStop, latchVars, plantVars, workerVars, history
<1>1. LatchTypes'
  BY BoundsAssumption, FaultNames DEF LatchTypes, Generation
<1>2. WorkerTypes'
  BY ZeroGeneration, FaultNames DEF WorkerTypes, LatchTypes, WorkerOwns, Writing
<1>3. PlantTypes' /\ HistoryTypes' /\ boots' \in 0..MaxBoots
  BY DEF PlantTypes, HistoryTypes
<1>4. WorkerOwns' /\ WrittenIsDurable' /\ GenerationOrder'
  BY BoundsAssumption DEF WorkerOwns, WrittenIsDurable, GenerationOrder, LatchTypes, WorkerTypes,
     HistoryTypes, Generation, Writing, Consequences, HazardIsRecorded, Clearing
<1>5. Consequences'
  BY DEF Consequences, LatchCutsSoon, HazardIsRecorded, UnlatchedMeansErased,
     NoWriteWhileHeating, InhibitHolds, Clearing, WorkerOwns, WrittenIsDurable,
     LatchTypes, WorkerTypes, PlantTypes, HistoryTypes, Writing
<1> QED
  BY <1>1, <1>2, <1>3, <1>4, <1>5

\* An inhibit latches for good and drops what was deferred.
LEMMA InhibitStep == IInv /\ Inhibit => IInv'
<1> SUFFICES ASSUME IInv, Inhibit PROVE IInv'
  OBVIOUS
<1> USE DEF IInv, TypeOK, Inhibit, latchVars, plantVars, workerVars, history
<1>1. LatchTypes'
  <2>1. generation' \in Generation
    BY BoundsAssumption DEF LatchTypes, Generation
  <2> QED
    BY <2>1, FaultNames DEF LatchTypes
<1>2. WorkerTypes'
  BY ZeroGeneration, FaultNames DEF WorkerTypes, LatchTypes, WorkerOwns, Writing
<1>3. PlantTypes' /\ HistoryTypes' /\ boots' \in 0..MaxBoots
  BY DEF PlantTypes, HistoryTypes
<1>4. WorkerOwns' /\ WrittenIsDurable' /\ GenerationOrder'
  BY BoundsAssumption DEF WorkerOwns, WrittenIsDurable, GenerationOrder, LatchTypes, WorkerTypes,
     HistoryTypes, Generation, Writing, Consequences, HazardIsRecorded, Clearing
<1>5. Consequences'
  BY DEF Consequences, LatchCutsSoon, HazardIsRecorded, UnlatchedMeansErased,
     NoWriteWhileHeating, InhibitHolds, Clearing, WorkerOwns, WrittenIsDurable,
     LatchTypes, WorkerTypes, PlantTypes, HistoryTypes, Writing
<1> QED
  BY <1>1, <1>2, <1>3, <1>4, <1>5

\* The worker takes one clear with its generation, or goes on to retry.
LEMMA ServiceTakeStep == IInv /\ ~woken /\ ServiceTake => IInv'
<1> SUFFICES ASSUME IInv, ~woken, ServiceTake PROVE IInv'
  OBVIOUS
<1> USE DEF IInv, TypeOK, ServiceTake, RequestTaken, latchVars, plantVars, workerVars, history
<1>1. LatchTypes'
  BY BoundsAssumption, FaultNames DEF LatchTypes, Generation
<1>2. WorkerTypes'
  <2>1. CASE deferredClear /\ ~inhibited
    <3>1. /\ pc' = "validate" /\ UNCHANGED <<attemptRecent, nvs>>
          /\ txn' = [op |-> "clear", gen |-> clearGeneration, code |-> "OK", ok |-> FALSE]
      BY <2>1
    <3> QED
      BY <3>1, FaultNames DEF WorkerTypes, LatchTypes
  <2>2. CASE ~(deferredClear /\ ~inhibited)
    <3>1. pc' = "retry" /\ txn' = NoTxn /\ UNCHANGED <<attemptRecent, nvs>>
      BY <2>2
    <3> QED
      BY <3>1, ZeroGeneration, FaultNames DEF WorkerTypes, NoTxn
  <2> QED
    BY <2>1, <2>2
<1>3. PlantTypes' /\ HistoryTypes' /\ boots' \in 0..MaxBoots
  BY DEF PlantTypes, HistoryTypes
<1>4. WorkerOwns' /\ WrittenIsDurable' /\ GenerationOrder'
  <2>1. CASE deferredClear /\ ~inhibited
    <3>1. pc' = "validate" /\ txn'.op = "clear" /\ txn'.ok = FALSE /\ txn'.gen = clearGeneration
      BY <2>1
    <3> QED
      BY <3>1 DEF WorkerOwns, WrittenIsDurable, GenerationOrder, Writing
  <2>2. CASE ~(deferredClear /\ ~inhibited)
    <3>1. pc' = "retry" /\ txn'.gen = 0
      BY <2>2 DEF NoTxn
    <3> QED
      BY <3>1 DEF WorkerOwns, WrittenIsDurable, GenerationOrder, LatchTypes, Generation, Writing
  <2> QED
    BY <2>1, <2>2
<1>5. Consequences'
  BY DEF Consequences, LatchCutsSoon, HazardIsRecorded, UnlatchedMeansErased,
     NoWriteWhileHeating, InhibitHolds, Clearing, WorkerOwns, WrittenIsDurable,
     LatchTypes, WorkerTypes, PlantTypes, HistoryTypes, Writing, NoTxn
<1> QED
  BY <1>1, <1>2, <1>3, <1>4, <1>5

\* Only a cold latched controller is written for a clear.
LEMMA ValidateClearStep == IInv /\ ~woken /\ ValidateClear => IInv'
<1> SUFFICES ASSUME IInv, ~woken, ValidateClear PROVE IInv'
  OBVIOUS
<1> USE DEF IInv, TypeOK, ValidateClear, latchVars, plantVars, workerVars, history
<1>1. LatchTypes'
  BY BoundsAssumption, FaultNames DEF LatchTypes, Generation
<1>2. WorkerTypes'
  BY ZeroGeneration, FaultNames DEF WorkerTypes, LatchTypes, WorkerOwns, Writing, ClearStateSafe
<1>3. PlantTypes' /\ HistoryTypes' /\ boots' \in 0..MaxBoots
  BY DEF PlantTypes, HistoryTypes
<1>4. WorkerOwns' /\ WrittenIsDurable' /\ GenerationOrder'
  BY BoundsAssumption DEF WorkerOwns, WrittenIsDurable, GenerationOrder, LatchTypes, WorkerTypes,
     HistoryTypes, Generation, Writing, Consequences, HazardIsRecorded, Clearing, ClearStateSafe
<1>5. Consequences'
  BY DEF Consequences, LatchCutsSoon, HazardIsRecorded, UnlatchedMeansErased,
     NoWriteWhileHeating, InhibitHolds, Clearing, WorkerOwns, WrittenIsDurable,
     LatchTypes, WorkerTypes, PlantTypes, HistoryTypes, Writing, ClearStateSafe
<1> QED
  BY <1>1, <1>2, <1>3, <1>4, <1>5

\* Only a latched controller is written for a record.
LEMMA RetryBeginStep == IInv /\ ~woken /\ RetryBegin => IInv'
<1> SUFFICES ASSUME IInv, ~woken, RetryBegin PROVE IInv'
  OBVIOUS
<1> USE DEF IInv, TypeOK, RetryBegin, latchVars, plantVars, workerVars, history
<1>1. LatchTypes'
  BY BoundsAssumption, FaultNames DEF LatchTypes, Generation
<1>2. WorkerTypes'
  <2>1. CASE ~persistPending \/ attemptRecent
    BY <2>1 DEF WorkerTypes
  <2>2. CASE ~(~persistPending \/ attemptRecent)
    BY <2>2, FaultNames DEF WorkerTypes, LatchTypes, Writing
  <2> QED
    BY <2>1, <2>2
<1>3. PlantTypes' /\ HistoryTypes' /\ boots' \in 0..MaxBoots
  BY DEF PlantTypes, HistoryTypes
<1>4. WorkerOwns' /\ WrittenIsDurable' /\ GenerationOrder'
  BY BoundsAssumption DEF WorkerOwns, WrittenIsDurable, GenerationOrder, LatchTypes, WorkerTypes,
     HistoryTypes, Generation, Writing, Consequences, HazardIsRecorded, Clearing
<1>5. Consequences'
  BY DEF Consequences, LatchCutsSoon, HazardIsRecorded, UnlatchedMeansErased,
     NoWriteWhileHeating, InhibitHolds, Clearing, WorkerOwns, WrittenIsDurable,
     LatchTypes, WorkerTypes, PlantTypes, HistoryTypes, Writing
<1> QED
  BY <1>1, <1>2, <1>3, <1>4, <1>5

\* A value may become durable before the commit.
LEMMA NvsSetStep == IInv /\ ~woken /\ NvsSet => IInv'
<1> SUFFICES ASSUME IInv, ~woken, NvsSet PROVE IInv'
  OBVIOUS
<1> USE DEF IInv, TypeOK, NvsSet, latchVars, plantVars, workerVars, history
<1>1. LatchTypes'
  BY BoundsAssumption, FaultNames DEF LatchTypes, Generation
<1>2. WorkerTypes'
  BY ZeroGeneration, FaultNames DEF WorkerTypes, LatchTypes, WorkerOwns, Writing, Target
<1>3. PlantTypes' /\ HistoryTypes' /\ boots' \in 0..MaxBoots
  BY DEF PlantTypes, HistoryTypes
<1>4. WorkerOwns' /\ WrittenIsDurable' /\ GenerationOrder'
  BY BoundsAssumption DEF WorkerOwns, WrittenIsDurable, GenerationOrder, LatchTypes, WorkerTypes,
     HistoryTypes, Generation, Writing, Consequences, HazardIsRecorded, Clearing, Target
<1>5. Consequences'
  BY DEF Consequences, LatchCutsSoon, HazardIsRecorded, UnlatchedMeansErased,
     NoWriteWhileHeating, InhibitHolds, Clearing, WorkerOwns, WrittenIsDurable,
     LatchTypes, WorkerTypes, PlantTypes, HistoryTypes, Writing, Target
<1> QED
  BY <1>1, <1>2, <1>3, <1>4, <1>5

\* The commit makes the target durable.
LEMMA NvsCommitStep == IInv /\ ~woken /\ NvsCommit => IInv'
<1> SUFFICES ASSUME IInv, ~woken, NvsCommit PROVE IInv'
  OBVIOUS
<1> USE DEF IInv, TypeOK, NvsCommit, latchVars, plantVars, workerVars, history
<1>1. LatchTypes'
  BY BoundsAssumption, FaultNames DEF LatchTypes, Generation
<1>2. WorkerTypes'
  BY ZeroGeneration, FaultNames DEF WorkerTypes, LatchTypes, WorkerOwns, Writing, Finish, Target
<1>3. PlantTypes' /\ HistoryTypes' /\ boots' \in 0..MaxBoots
  BY DEF PlantTypes, HistoryTypes
<1>4. WorkerOwns' /\ WrittenIsDurable' /\ GenerationOrder'
  BY BoundsAssumption DEF WorkerOwns, WrittenIsDurable, GenerationOrder, LatchTypes, WorkerTypes,
     HistoryTypes, Generation, Writing, Consequences, HazardIsRecorded, Clearing, Finish, Target
<1>5. Consequences'
  BY DEF Consequences, LatchCutsSoon, HazardIsRecorded, UnlatchedMeansErased,
     NoWriteWhileHeating, InhibitHolds, Clearing, WorkerOwns, WrittenIsDurable,
     LatchTypes, WorkerTypes, PlantTypes, HistoryTypes, Writing, Finish, Target
<1> QED
  BY <1>1, <1>2, <1>3, <1>4, <1>5

\* A failed call leaves the old value or the new one.
LEMMA NvsCallFailsStep == IInv /\ ~woken /\ NvsCallFails => IInv'
<1> SUFFICES ASSUME IInv, ~woken, NvsCallFails PROVE IInv'
  OBVIOUS
<1> USE DEF IInv, TypeOK, NvsCallFails, latchVars, plantVars, workerVars, history
<1>1. LatchTypes'
  BY BoundsAssumption, FaultNames DEF LatchTypes, Generation
<1>2. WorkerTypes'
  BY ZeroGeneration, FaultNames DEF WorkerTypes, LatchTypes, WorkerOwns, Writing, Finish, Target
<1>3. PlantTypes' /\ HistoryTypes' /\ boots' \in 0..MaxBoots
  BY DEF PlantTypes, HistoryTypes
<1>4. WorkerOwns' /\ WrittenIsDurable' /\ GenerationOrder'
  BY BoundsAssumption DEF WorkerOwns, WrittenIsDurable, GenerationOrder, LatchTypes, WorkerTypes,
     HistoryTypes, Generation, Writing, Consequences, HazardIsRecorded, Clearing, Finish, Target
<1>5. Consequences'
  BY DEF Consequences, LatchCutsSoon, HazardIsRecorded, UnlatchedMeansErased,
     NoWriteWhileHeating, InhibitHolds, Clearing, WorkerOwns, WrittenIsDurable,
     LatchTypes, WorkerTypes, PlantTypes, HistoryTypes, Writing, Finish, Target
<1> QED
  BY <1>1, <1>2, <1>3, <1>4, <1>5

\* A control pass: either it trips, or it leaves the latch as it is.
LEMMA ControlTaskStep == IInv /\ ControlTask => IInv'
<1> SUFFICES ASSUME IInv,
                    NEW m \in Measurement, NEW working \in BOOLEAN, NEW heat \in BOOLEAN,
                    NEW h \in Fault, ControlPass(m, working, h, heat)
             PROVE IInv'
  BY DEF ControlTask
<1> USE DEF IInv, TypeOK
<1>1. /\ pc' = pc /\ txn' = txn /\ nvs' = nvs /\ boots' = boots /\ inhibited' = inhibited
      /\ woken' = FALSE /\ rt' = m
      /\ job' = (working /\ ~latched') /\ ssr' = HeatAdmitted(m, h, heat)
      /\ stopped' = stopped
  BY DEF ControlPass
<1>2. m \in [sensors: BOOLEAN, over: BOOLEAN, zc: BOOLEAN]
  BY DEF Measurement
<1>3. ssr' => ~latched'
  BY <1>1 DEF HeatAdmitted
<1>4. PlantTypes' /\ boots' \in 0..MaxBoots /\ stopped' \in BOOLEAN
  BY <1>1, <1>2 DEF PlantTypes, HistoryTypes, HeatAdmitted
<1>5. CASE ~latched /\ DeferTrip(h) /\ h # "OK" /\ h \in Hazards
  <2>1. generation \in Nat /\ generation < MaxGeneration /\ generation' = generation + 1
    BY <1>5 DEF DeferTrip, LatchTypes, Generation
  <2>2. LatchTypes'
    <3>1. generation' \in Generation
      BY <2>1, BoundsAssumption DEF Generation
    <3> QED
      BY <3>1, <1>1, <1>5, FaultNames DEF DeferTrip, LatchTypes
  <2>3. WorkerTypes'
    BY <1>1, <1>5 DEF DeferTrip, WorkerTypes
  <2>4. HistoryTypes'
    BY <1>4, <1>5 DEF DeferTrip, HistoryTypes
  <2>5. WorkerOwns' /\ WrittenIsDurable' /\ GenerationOrder'
    BY <1>1, <1>5, <2>1, BoundsAssumption
    DEF DeferTrip, WorkerOwns, WrittenIsDurable, GenerationOrder, WorkerTypes, LatchTypes,
        Generation
  <2>6. Consequences'
    BY <1>1, <1>3, <1>5 DEF DeferTrip, Consequences, LatchCutsSoon, NoWriteWhileHeating,
       HazardIsRecorded, UnlatchedMeansErased, InhibitHolds, WorkerOwns
  <2> QED
    BY <1>4, <2>2, <2>3, <2>4, <2>5, <2>6
<1>6. CASE TakeClearRequest(m, working)
  <2>1. LatchTypes' /\ WorkerTypes' /\ HistoryTypes'
    <3>1. deferredClear' \in BOOLEAN
      BY <1>6 DEF TakeClearRequest
    <3>2. clearRequested' \in BOOLEAN /\ clearGeneration' \in Generation
      BY <1>6 DEF TakeClearRequest, LatchTypes
    <3>3. UNCHANGED <<latched, inhibited, fault, persistPending, generation, attemptRecent,
                      asked, hazardOpen, pc, txn, nvs>>
      BY <1>1, <1>6 DEF TakeClearRequest
    <3> QED
      BY <1>4, <3>1, <3>2, <3>3 DEF LatchTypes, WorkerTypes, HistoryTypes
  <2>2. WorkerOwns' /\ WrittenIsDurable'
    BY <1>1, <1>6 DEF TakeClearRequest, WorkerOwns, WrittenIsDurable
  <2>3. GenerationOrder'
    BY <1>1, <1>6 DEF TakeClearRequest, GenerationOrder, LatchTypes, Generation
  <2>4. Consequences'
    BY <1>1, <1>3, <1>6 DEF TakeClearRequest, Consequences, LatchCutsSoon,
       NoWriteWhileHeating, HazardIsRecorded, UnlatchedMeansErased, InhibitHolds, Clearing,
       WorkerOwns
  <2> QED
    BY <1>4, <2>1, <2>2, <2>3, <2>4
<1> QED
  BY <1>5, <1>6 DEF ControlPass

\* The end of a clear: the latch opens, or stays with its record queued.
LEMMA FinishClearStep == IInv /\ ~woken /\ FinishClear => IInv'
<1> SUFFICES ASSUME IInv, ~woken, FinishClear PROVE IInv'
  OBVIOUS
<1> USE DEF IInv, TypeOK, plantVars
<1>1. /\ pc = "finish_clear" /\ txn' = NoTxn
      /\ UNCHANGED <<inhibited, deferredClear, clearGeneration, nvs, plantVars, asked,
                     stopped, boots>>
  BY DEF FinishClear
<1>2. PlantTypes' /\ boots' \in 0..MaxBoots
  BY <1>1 DEF PlantTypes
<1>3. txn' \in [op: {"none", "clear", "persist"}, gen: Generation, code: Fault, ok: BOOLEAN]
  BY <1>1, ZeroGeneration, FaultNames DEF NoTxn
<1>4. CASE ClearCommits /\ CommitClear
  <2>1. latched /\ ~nvs.latch /\ ~inhibited
    BY <1>1, <1>4 DEF ClearCommits, ClearStateSafe, WorkerOwns, WrittenIsDurable
  <2>2. generation \in Nat /\ generation' = generation + 1 /\ generation <= MaxGeneration
    BY <1>4, <2>1 DEF CommitClear, LatchTypes, Generation, GenerationOrder
  <2>3. LatchTypes'
    <3>1. generation' \in Generation
      BY <2>2, BoundsAssumption DEF Generation
    <3> QED
      BY <3>1, <1>1, <1>4, FaultNames DEF CommitClear, LatchTypes
  <2>4. WorkerTypes' /\ HistoryTypes'
    BY <1>1, <1>3, <1>4 DEF CommitClear, WorkerTypes, HistoryTypes
  <2>5. WorkerOwns' /\ WrittenIsDurable'
    BY <1>4 DEF CommitClear, WorkerOwns, WrittenIsDurable, Writing
  <2>6. GenerationOrder'
    BY <1>1, <1>4, <2>2 DEF CommitClear, GenerationOrder, LatchTypes, Generation, NoTxn
  <2>7. Consequences'
    BY <1>1, <1>4, <2>1 DEF CommitClear, Consequences, LatchCutsSoon, NoWriteWhileHeating,
       HazardIsRecorded, UnlatchedMeansErased, InhibitHolds, Writing
  <2> QED
    BY <1>2, <2>3, <2>4, <2>5, <2>6, <2>7
<1>5. CASE KeepLatch
  <2>1. LatchTypes' /\ WorkerTypes' /\ HistoryTypes'
    BY <1>1, <1>3, <1>5 DEF KeepLatch, LatchTypes, WorkerTypes, HistoryTypes
  <2>2. WorkerOwns' /\ WrittenIsDurable'
    BY <1>5 DEF KeepLatch, WorkerOwns, WrittenIsDurable, Writing
  <2>3. GenerationOrder'
    BY <1>1, <1>5 DEF KeepLatch, GenerationOrder, LatchTypes, Generation, NoTxn
  <2>4. Consequences'
    BY <1>1, <1>5 DEF KeepLatch, Consequences, LatchCutsSoon, NoWriteWhileHeating,
       HazardIsRecorded, UnlatchedMeansErased, InhibitHolds, Writing
  <2> QED
    BY <1>2, <2>1, <2>2, <2>3, <2>4
<1> QED
  BY <1>4, <1>5 DEF FinishClear

\* The end of a retry: the record is done if no newer fault has come.
LEMMA FinishRetryStep == IInv /\ ~woken /\ FinishRetry => IInv'
<1> SUFFICES ASSUME IInv, ~woken, FinishRetry PROVE IInv'
  OBVIOUS
<1> USE DEF IInv, TypeOK, plantVars, history
<1>1. /\ pc = "finish_retry" /\ pc' = "service" /\ txn' = NoTxn
      /\ persistPending' = (persistPending /\ ~Recorded)
      /\ UNCHANGED <<latched, inhibited, clearRequested, fault, generation, deferredClear,
                     clearGeneration, attemptRecent, nvs, plantVars, history, boots>>
  BY DEF FinishRetry
<1>2. LatchTypes' /\ PlantTypes' /\ HistoryTypes' /\ boots' \in 0..MaxBoots
  BY <1>1 DEF LatchTypes, PlantTypes, HistoryTypes
<1>3. WorkerTypes'
  <2>1. txn' \in [op: {"none", "clear", "persist"}, gen: Generation, code: Fault, ok: BOOLEAN]
    BY <1>1, ZeroGeneration, FaultNames DEF NoTxn
  <2> QED
    BY <1>1, <2>1 DEF WorkerTypes
<1>4. WorkerOwns' /\ WrittenIsDurable'
  BY <1>1 DEF WorkerOwns, WrittenIsDurable, Writing
<1>5. GenerationOrder'
  BY <1>1 DEF GenerationOrder, LatchTypes, Generation, NoTxn
<1>6. Consequences'
  BY <1>1 DEF Consequences, LatchCutsSoon, NoWriteWhileHeating, HazardIsRecorded,
     UnlatchedMeansErased, InhibitHolds, Recorded, WrittenIsDurable, Clearing, Writing
<1> QED
  BY <1>2, <1>3, <1>4, <1>5, <1>6

\* A restart: the latch is what the record and the boot checks make it.
LEMMA RebootStep == IInv /\ Reboot => IInv'
<1> SUFFICES ASSUME IInv, boots < MaxBoots, boots' = boots + 1,
                    NEW readable \in BOOLEAN, NEW marker \in BOOLEAN, NEW inhibit \in BOOLEAN,
                    BootState(readable, marker, inhibit)
             PROVE IInv'
  BY DEF Reboot
<1> USE DEF IInv, TypeOK
<1> DEFINE r == Restored(readable)
<1>1. r.set \in BOOLEAN /\ r.reason \in Fault /\ (r.set <=> r.reason # "OK")
  BY FaultNames DEF Restored, WorkerTypes
<1>2. (readable /\ nvs.latch => r.set) /\ (~r.set => ~nvs.latch)
  BY DEF Restored, WorkerTypes
<1>3. /\ latched' = (r.set \/ marker \/ inhibit)
      /\ fault' = IF inhibit \/ (marker /\ ~r.set) THEN "PERSISTED_FAULT" ELSE r.reason
  BY DEF BootState
<1> HIDE DEF r
<1>4. /\ inhibited' = inhibit /\ clearRequested' = FALSE /\ persistPending' = FALSE
      /\ generation' = 0 /\ clearGeneration' = 0 /\ deferredClear' = FALSE
      /\ attemptRecent' = FALSE /\ pc' = "service" /\ txn' = NoTxn /\ nvs' = nvs
      /\ job' = FALSE /\ ssr' = FALSE /\ woken' = FALSE
      /\ rt' = [sensors |-> FALSE, over |-> FALSE, zc |-> FALSE]
      /\ asked' = FALSE /\ stopped' = FALSE /\ hazardOpen' = (readable /\ nvs.latch)
  BY DEF BootState
<1>5. LatchTypes'
  BY <1>1, <1>3, <1>4, ZeroGeneration, FaultNames DEF LatchTypes
<1>6. WorkerTypes'
  <2>1. txn' \in [op: {"none", "clear", "persist"}, gen: Generation, code: Fault, ok: BOOLEAN]
    BY <1>4, ZeroGeneration, FaultNames DEF NoTxn
  <2> QED
    BY <1>4, <2>1 DEF WorkerTypes
<1>7. PlantTypes' /\ HistoryTypes'
  BY <1>4 DEF PlantTypes, HistoryTypes, WorkerTypes
<1>8. boots' \in 0..MaxBoots
  BY BoundsAssumption
<1>9. WorkerOwns' /\ WrittenIsDurable' /\ GenerationOrder'
  BY <1>4, BoundsAssumption DEF WorkerOwns, WrittenIsDurable, GenerationOrder, Writing, NoTxn
<1>10. Consequences'
  BY <1>1, <1>2, <1>3, <1>4 DEF Consequences, LatchCutsSoon, NoWriteWhileHeating,
     HazardIsRecorded, UnlatchedMeansErased, InhibitHolds, Writing
<1> QED
  BY <1>5, <1>6, <1>7, <1>8, <1>9, <1>10

\* Every step keeps the invariant.
LEMMA StepIInv == IInv /\ [Next]_vars => IInv'
<1> SUFFICES ASSUME IInv, [Next]_vars PROVE IInv'
  OBVIOUS
<1>1. CASE Commands
  BY <1>1, StartJobStep, SafeStopStep, EmergencyStopStep, RequestClearStep, InhibitStep
  DEF Commands
<1>2. CASE StorageWorker
  BY <1>2, ServiceTakeStep, ValidateClearStep, RetryBeginStep, NvsSetStep, NvsCommitStep,
     NvsCallFailsStep, FinishClearStep, FinishRetryStep DEF StorageWorker
<1>3. CASE UNCHANGED vars
  <2>1. TypeOK'
    BY <1>3 DEF vars, latchVars, plantVars, workerVars, history, IInv, TypeOK, LatchTypes,
       WorkerTypes, PlantTypes, HistoryTypes
  <2>2. WorkerOwns' /\ WrittenIsDurable' /\ GenerationOrder' /\ Consequences'
    BY <1>3 DEF vars, latchVars, plantVars, workerVars, history, IInv, WorkerOwns,
       WrittenIsDurable, GenerationOrder, Consequences, LatchCutsSoon, NoWriteWhileHeating,
       HazardIsRecorded, UnlatchedMeansErased, InhibitHolds, Clearing
  <2> QED
    BY <2>1, <2>2 DEF IInv
<1> QED
  BY <1>1, <1>2, <1>3, ControlTaskStep, SampleAgesStep, RetryPauseEndsStep, RebootStep DEF Next

-------------------------------------------------------------------------------
\* The inductive invariant holds of every behaviour.
THEOREM Invariance == Spec => []IInv
BY InitIInv, StepIInv, PTL DEF Spec

\* The state of the latch module always has its types, and a latch a reason.
THEOREM TypeCorrect == Spec => []TypeOK
<1>1. IInv => TypeOK
  BY DEF IInv
<1> QED
  BY <1>1, Invariance, PTL

\* No tripped hazard is ever without a latch and a record on its way to flash
\* (safety_latch_defer_trip, _service and _retry_persist together).
THEOREM HazardsAreRecorded == Spec => []HazardIsRecorded
<1>1. IInv => HazardIsRecorded
  BY DEF IInv, Consequences
<1> QED
  BY <1>1, Invariance, PTL

\* An open latch has no record left to come back at the next boot.
THEOREM OpenLatchIsErased == Spec => []UnlatchedMeansErased
<1>1. IInv => UnlatchedMeansErased
  BY DEF IInv, Consequences
<1> QED
  BY <1>1, Invariance, PTL

\* No NVS transaction of the latch runs beside a conducting SSR.
THEOREM WritesAreCold == Spec => []NoWriteWhileHeating
<1>1. IInv => NoWriteWhileHeating
  BY DEF IInv, Consequences
<1> QED
  BY <1>1, Invariance, PTL

\* A runtime inhibit keeps the latch closed until a restart.
THEOREM InhibitIsFinal == Spec => []InhibitHolds
<1>1. IInv => InhibitHolds
  BY DEF IInv, Consequences
<1> QED
  BY <1>1, Invariance, PTL

-------------------------------------------------------------------------------
(***************************************************************************)
(* The latch opens only on a request that is younger than its cause.  The  *)
(* generation is what makes this inductive: a request flag, a deferred     *)
(* clear and a clear in the worker's hands are each void once it moves on. *)
(***************************************************************************)

\* Whatever could still open the latch was asked for since it was set.
Requested ==
  /\ clearRequested => asked
  /\ deferredClear /\ clearGeneration = generation => latched /\ asked
  /\ txn.op = "clear" /\ txn.gen = generation => latched /\ asked

\* Commands: a request asks, and what drops the asking drops the flag with it.
LEMMA CommandsKeepRequested == IInv /\ Requested /\ Commands => Requested'
<1> SUFFICES ASSUME IInv, Requested, Commands PROVE Requested'
  OBVIOUS
<1> USE DEF Requested, latchVars, plantVars, workerVars, history
<1>1. CASE StartJob \/ SafeStop
  BY <1>1 DEF StartJob, SafeStop
<1>2. CASE EmergencyStop
  BY <1>2 DEF EmergencyStop, IInv, TypeOK, LatchTypes
<1>3. CASE RequestClear
  BY <1>3 DEF RequestClear
<1>4. CASE Inhibit
  <2>1. txn' = txn /\ txn.gen < generation' /\ generation' \in Nat
    BY <1>4 DEF Inhibit, IInv, TypeOK, LatchTypes, WorkerTypes, Generation, GenerationOrder
  <2>2. ~clearRequested' /\ ~deferredClear' /\ txn'.gen # generation'
    BY <1>4, <2>1 DEF Inhibit, IInv, TypeOK, WorkerTypes, Generation
  <2> QED
    BY <2>2
<1> QED
  BY <1>1, <1>2, <1>3, <1>4 DEF Commands

\* A pass defers a clear of the generation it sees, or ends the generation.
LEMMA ControlTaskKeepsRequested == IInv /\ Requested /\ ControlTask => Requested'
<1> SUFFICES ASSUME IInv, Requested,
                    NEW m \in Measurement, NEW working \in BOOLEAN, NEW heat \in BOOLEAN,
                    NEW h \in Fault, ControlPass(m, working, h, heat)
             PROVE Requested'
  BY DEF ControlTask
<1>1. txn' = txn
  BY DEF ControlPass
<1>2. CASE DeferTrip(h)
  <2>1. txn.gen < generation' /\ generation' \in Nat /\ txn.gen \in Nat
    BY <1>2 DEF DeferTrip, IInv, TypeOK, LatchTypes, WorkerTypes, Generation, GenerationOrder
  <2> QED
    BY <1>1, <1>2, <2>1 DEF DeferTrip, Requested
<1>3. CASE TakeClearRequest(m, working)
  BY <1>1, <1>3 DEF TakeClearRequest, Requested
<1> QED
  BY <1>2, <1>3 DEF ControlPass

\* The worker carries the generation it was given, and opening ends it.
LEMMA WorkerKeepsRequested == IInv /\ Requested /\ StorageWorker => Requested'
<1> SUFFICES ASSUME IInv, Requested, StorageWorker PROVE Requested'
  OBVIOUS
<1> USE DEF Requested, latchVars, plantVars, workerVars, history
<1>1. CASE ServiceTake
  BY <1>1 DEF ServiceTake, RequestTaken, NoTxn
<1>2. CASE ValidateClear \/ NvsSet \/ NvsCallFails
  BY <1>2 DEF ValidateClear, NvsSet, NvsCallFails
<1>3. CASE RetryBegin
  BY <1>3 DEF RetryBegin
<1>4. CASE NvsCommit
  BY <1>4 DEF NvsCommit, IInv, TypeOK, WorkerTypes
<1>5. CASE FinishClear
  <2>1. txn' = NoTxn /\ UNCHANGED <<deferredClear, clearGeneration, asked>>
    BY <1>5 DEF FinishClear
  <2>2. CASE CommitClear
    BY <2>1, <2>2 DEF CommitClear, NoTxn, IInv, TypeOK, LatchTypes, Generation, GenerationOrder
  <2>3. CASE KeepLatch
    BY <2>1, <2>3 DEF KeepLatch, NoTxn
  <2> QED
    BY <1>5, <2>2, <2>3 DEF FinishClear
<1>6. CASE FinishRetry
  BY <1>6 DEF FinishRetry, NoTxn
<1> QED
  BY <1>1, <1>2, <1>3, <1>4, <1>5, <1>6 DEF StorageWorker

\* Every step keeps the requests younger than the latch.
LEMMA StepRequested == IInv /\ Requested /\ [Next]_vars => Requested'
<1> SUFFICES ASSUME IInv, Requested, [Next]_vars PROVE Requested'
  OBVIOUS
<1>1. CASE Reboot
  BY <1>1 DEF Reboot, BootState, Requested, NoTxn
<1>2. CASE SampleAges \/ RetryPauseEnds
  BY <1>2 DEF SampleAges, RetryPauseEnds, Requested, latchVars, workerVars, history
<1>3. CASE UNCHANGED vars
  BY <1>3 DEF vars, Requested, latchVars, workerVars, history
<1> QED
  BY <1>1, <1>2, <1>3, CommandsKeepRequested, ControlTaskKeepsRequested, WorkerKeepsRequested
  DEF Next

\* Only the worker opens the latch, on a transaction of the current generation.
LEMMA OnlyTheWorkerOpens ==
  ASSUME IInv, [Next]_vars, Cleared
  PROVE  FinishClear /\ ClearCommits /\ CommitClear
<1> USE DEF Cleared, latchVars, plantVars, workerVars, history
<1>1. CASE Commands
  BY <1>1 DEF Commands, StartJob, SafeStop, EmergencyStop, RequestClear, Inhibit
<1>2. CASE ControlTask
  BY <1>2 DEF ControlTask, ControlPass, DeferTrip, TakeClearRequest
<1>3. CASE SampleAges \/ RetryPauseEnds \/ UNCHANGED vars
  BY <1>3 DEF SampleAges, RetryPauseEnds, vars
<1>4. CASE StorageWorker
  BY <1>4 DEF StorageWorker, ServiceTake, RequestTaken, ValidateClear, RetryBegin, NvsSet,
     NvsCommit, NvsCallFails, FinishClear, FinishRetry, KeepLatch
<1>5. CASE Reboot
  BY <1>5 DEF Reboot, IInv, TypeOK
<1> QED
  BY <1>1, <1>2, <1>3, <1>4, <1>5 DEF Next

\* No request, deferred clear or transaction older than the fault opens the
\* latch (safety_latch_service and the generation it compares).
THEOREM ClearsAreRequested == Spec => ClearNeedsRequest
<1>1. Init => Requested
  BY DEF Init, Requested, NoTxn
<1>2. IInv /\ Requested /\ [Next]_vars => [Cleared => asked]_vars
  <2> SUFFICES ASSUME IInv, Requested, [Next]_vars, Cleared PROVE asked
    OBVIOUS
  <2>1. pc = "finish_clear" /\ txn.gen = generation
    BY OnlyTheWorkerOpens DEF FinishClear, ClearCommits
  <2> QED
    BY <2>1 DEF IInv, WorkerOwns, Requested
<1> QED
  BY <1>1, <1>2, StepRequested, Invariance, PTL DEF Spec, ClearNeedsRequest

-------------------------------------------------------------------------------
(***************************************************************************)
(* FaultLatch implements JobContract.                                      *)
(***************************************************************************)

\* Commands are requests under an open latch, or withdrawals.
LEMMA CommandRefines == IInv /\ Commands => Contract!Next
<1> SUFFICES ASSUME IInv, Commands PROVE Contract!Next
  OBVIOUS
<1> USE DEF latchVars, plantVars, workerVars, history, IInv, TypeOK, LatchTypes, PlantTypes
<1>1. CASE StartJob
  <2>1. Contract!Request
    BY <1>1 DEF StartJob, Contract!Request, Contract!Part
  <2> QED
    BY <2>1 DEF Contract!Next
<1>2. CASE SafeStop \/ EmergencyStop \/ RequestClear \/ Inhibit
  <2>1. /\ (job' => job) /\ latched' \in {latched, TRUE} /\ ssr' \in {ssr, FALSE}
        /\ boots' = boots
    <3>1. CASE SafeStop \/ EmergencyStop \/ RequestClear
      BY <3>1 DEF SafeStop, EmergencyStop, RequestClear
    <3>2. CASE Inhibit
      <4>1. latched' = TRUE /\ boots' = boots
        BY <3>2 DEF Inhibit
      <4>2. (job' => job) /\ ssr' \in {ssr, FALSE}
        <5>1. CASE ssr' = FALSE /\ UNCHANGED <<job, woken>>
          BY <5>1
        <5>2. CASE job' = FALSE /\ UNCHANGED ssr
          BY <5>2
        <5>3. CASE UNCHANGED <<job, ssr, woken>>
          BY <5>3
        <5> QED
          BY <3>2, <5>1, <5>2, <5>3 DEF Inhibit
      <4> QED
        BY <4>1, <4>2
    <3> QED
      BY <1>2, <3>1, <3>2
  <2>2. Contract!Withdraw
    BY <2>1 DEF Contract!Withdraw
  <2> QED
    BY <2>2 DEF Contract!Next
<1> QED
  BY <1>1, <1>2 DEF Commands

\* A control pass is a pass.
LEMMA ControlTaskRefines == IInv /\ ControlTask => Contract!Next
<1> SUFFICES ASSUME IInv,
                    NEW m \in Measurement, NEW working \in BOOLEAN, NEW heat \in BOOLEAN,
                    NEW h \in Fault, ControlPass(m, working, h, heat)
             PROVE Contract!Next
  BY DEF ControlTask
<1>1. latched' \in {latched, TRUE} /\ boots' = boots
  BY DEF ControlPass, DeferTrip, TakeClearRequest
<1>2. (latched' => ~job') /\ job' \in BOOLEAN /\ ssr' \in BOOLEAN /\ (ssr' => job')
  BY DEF ControlPass, HeatAdmitted
<1>3. Contract!Pass
  BY <1>1, <1>2 DEF Contract!Pass, Contract!Part
<1> QED
  BY <1>3 DEF Contract!Next

\* Every step of the latch is a step of the contract or a stutter.
LEMMA LatchStepRefines == IInv /\ [Next]_vars => [Contract!Next]_Contract!vars
<1> SUFFICES ASSUME IInv, [Next]_vars PROVE [Contract!Next]_Contract!vars
  OBVIOUS
<1> USE DEF Contract!vars, latchVars, plantVars, workerVars, history
<1>1. CASE SampleAges \/ RetryPauseEnds \/ UNCHANGED vars
  BY <1>1 DEF SampleAges, RetryPauseEnds, vars
<1>2. CASE StorageWorker
  <2>1. CASE Cleared
    <3>1. latched /\ ~latched' /\ ~job /\ ~ssr /\ UNCHANGED <<job, ssr, boots>>
      BY <2>1, OnlyTheWorkerOpens
      DEF Cleared, ClearCommits, ClearStateSafe, FinishClear
    <3>2. Contract!Clear
      BY <3>1, <1>2, <2>1, OnlyTheWorkerOpens DEF Contract!Clear, CommitClear
    <3> QED
      BY <3>2 DEF Contract!Next
  <2>2. CASE ~Cleared
    <3>1. UNCHANGED <<job, ssr, boots>>
      BY <1>2 DEF StorageWorker, ServiceTake, RequestTaken, ValidateClear, RetryBegin, NvsSet,
         NvsCommit, NvsCallFails, FinishClear, FinishRetry
    <3>2. latched' = latched \/ (~latched' /\ latched)
      BY <1>2 DEF StorageWorker, ServiceTake, RequestTaken, ValidateClear, RetryBegin, NvsSet,
         NvsCommit, NvsCallFails, FinishClear, FinishRetry, KeepLatch, CommitClear, ClearCommits, IInv,
         TypeOK, WorkerOwns
    <3> QED
      BY <3>1, <3>2, <2>2 DEF Cleared
  <2> QED
    BY <2>1, <2>2
<1>3. CASE Reboot
  <2>1. boots' = boots + 1 /\ ~job' /\ ~ssr' /\ latched' \in BOOLEAN
    BY <1>3 DEF Reboot, BootState, Restored, IInv, TypeOK, WorkerTypes
  <2>2. Contract!Restart
    BY <2>1 DEF Contract!Restart
  <2> QED
    BY <2>2 DEF Contract!Next
<1> QED
  BY <1>1, <1>2, <1>3, CommandRefines, ControlTaskRefines DEF Next

\* The latch keeps its part of the contract: nothing starts under it, a pass
\* under it ends job and heat, and it opens only on an idle, cold controller.
THEOREM LatchImplementsJobContract == Spec => JobImplemented
<1>1. Init => Contract!Init
  BY DEF Init, Contract!Init
<1> QED
  BY <1>1, LatchStepRefines, Invariance, PTL DEF Spec, JobImplemented, Contract!Spec
===============================================================================
