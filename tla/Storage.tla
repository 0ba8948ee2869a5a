-------------------------------- MODULE Storage --------------------------------
(***************************************************************************)
(* What the device keeps in flash besides the records of latch and journal *)
(* (FaultLatch, HeatSession) and of the printer (PrinterLink): the user's  *)
(* settings, written by the storage worker from a mailbox with one slot    *)
(* (settings_deferred.c, settings_store.c), and the Wi-Fi network          *)
(* (WifiSetup).  A factory reset erases them.  The three share the         *)
(* maintenance reservation; power may fail between any two steps.          *)
(***************************************************************************)
EXTENDS WifiSetup

VARIABLES
  settings,  \* flash: the keys of the settings
  pending,   \* revision # saved_revision
  flush,     \* shu1_settings_deferred_flush outside the guard: what it writes
  reset      \* shu1_settings_store_factory_reset: what it erases next

mailVars == <<pending, flush>>
vars == <<wifiVars, maint, steady, settings, mailVars, reset>>

\* A set of settings is known by what the mailbox says of it: the latest is the
\* one deferred last, or loaded by the boot when none has been; of older ones
\* nothing else matters.  Mixed: some keys of one set, some of another.  The guard
\* is held where pending_settings and revision are written and where they are read.
Sets == {"latest", "older"}
Kept == Sets \cup {"mixed", "absent"}

TypeOK ==
  /\ WifiTypeOK
  /\ maint \in BOOLEAN
  /\ settings \in Kept
  /\ pending \in BOOLEAN /\ flush \in Sets \cup {"idle"}
  /\ reset \in {"idle", "record", "settings", "legacy", "failed", "done"}
  /\ maint <=> busy \/ flush # "idle" \/ reset # "idle"

Init ==
  /\ WifiInit
  /\ maint = FALSE /\ steady = FALSE
  /\ settings = "latest" /\ pending = FALSE /\ flush = "idle"
  /\ reset = "idle"

Wifi == WifiNext /\ UNCHANGED <<steady, settings, mailVars, reset>>

(***************************************************************************)
(* The mailbox of settings                                                 *)
(***************************************************************************)

\* shu1_settings_defer: another set is the latest now.
Overtaken(kept) == IF kept = "latest" THEN "older" ELSE kept

Defer ==
  /\ ~steady
  /\ pending' = TRUE
  /\ settings' = Overtaken(settings) /\ flush' = Overtaken(flush)
  /\ UNCHANGED <<wifiVars, maint, steady, reset>>

\* shu1_control_checkpoint_begin
CheckpointAllowed == SetupAllowed

FlushBegin ==
  /\ flush = "idle" /\ pending /\ CheckpointAllowed
  /\ maint' = TRUE /\ flush' = "latest"
  /\ UNCHANGED <<wifiVars, steady, settings, pending, reset>>

\* Mutant: what came during the write counts as written.
AcknowledgedAll == pending' = FALSE

\* What is acknowledged is the revision that was read, not what has come since.
Acknowledged == pending' = (flush # "latest")

\* shu1_settings_store_save_settings writes key by key and commits; a write that
\* fails is tried again with what is the latest then.
FlushEnd ==
  /\ flush # "idle" /\ flush' = "idle" /\ maint' = FALSE
  /\ \/ settings' = flush /\ Acknowledged
     \/ settings' \in {settings, flush, "mixed"} /\ UNCHANGED pending
  /\ UNCHANGED <<wifiVars, steady, reset>>

(***************************************************************************)
(* Factory reset                                                           *)
(***************************************************************************)

\* shu1_control_maintenance_begin: no latch, both sensors below 30 C.
ColdAllowed == SetupAllowed

\* REST and BLE give the guard up between their check of the revision and this;
\* the panel has no such check.
ResetBegin ==
  /\ ~steady /\ ColdAllowed /\ maint' = TRUE /\ reset' = "record"
  /\ UNCHANGED <<wifiVars, steady, settings, mailVars>>

ResetFails == reset' = "failed" /\ UNCHANGED maint

EraseRecord ==
  /\ reset = "record"
  /\ \/ record' = NoNetwork /\ reset' = "settings" /\ UNCHANGED maint
     \/ record' = record /\ ResetFails
  /\ UNCHANGED <<legacy, driver, flags, busy, worker, renewing, got, flaw,
                 steady, settings, mailVars>>

EraseSettings ==
  /\ reset = "settings"
  /\ \/ settings' = "absent" /\ reset' = "legacy" /\ UNCHANGED maint
     \/ settings' \in {settings, "mixed"} /\ ResetFails
  /\ UNCHANGED <<wifiVars, steady, mailVars>>

\* Mutant: the reservation ends with the reset.
ResetDoneReleased == reset' = "done" /\ maint' = FALSE

\* A successful reset remains in maintenance until the restart.
ResetDone == reset' = "done" /\ UNCHANGED maint

\* The last keys and the commit.
EraseLegacy ==
  /\ reset = "legacy"
  /\ \/ legacy' = NoNetwork /\ ResetDone
     \/ legacy' \in {legacy, NoNetwork} /\ ResetFails
  /\ UNCHANGED <<record, driver, flags, busy, worker, renewing, got, flaw,
                 steady, settings, mailVars>>

(***************************************************************************)
(* Restart and loss of power                                               *)
(***************************************************************************)

\* What was not written is gone; what the flash holds is loaded.
Boot ==
  /\ WifiBoot(Stored) /\ maint' = FALSE
  /\ settings' = "latest" /\ pending' = FALSE /\ flush' = "idle"
  /\ reset' = "idle"
  /\ UNCHANGED <<flash, steady>>

\* 1.2 s after a successful reset.
Restart == reset = "done" /\ Boot

\* In the middle of a write, too: the keys are loaded as they are.
PowerLoss == ~steady /\ Boot

\* Nobody asks for anything any more, power and access points stay.
Settle ==
  /\ ~steady /\ steady' = TRUE
  /\ UNCHANGED <<wifiVars, maint, settings, mailVars, reset>>

Reset == ResetBegin \/ EraseRecord \/ EraseSettings \/ EraseLegacy
Next ==
  \/ Wifi \/ Defer \/ FlushBegin \/ FlushEnd \/ Reset \/ Restart \/ PowerLoss \/ Settle
Spec == Init /\ [][Next]_vars

\* The workers run, the driver reports how each attempt ends, and one attempt
\* among many succeeds.
Fairness ==
  /\ WF_vars(SetupWorker /\ Wifi) /\ WF_vars(ReconnectWorker /\ Wifi)
  /\ SF_vars(Join /\ Wifi) /\ SF_vars(GetAddress /\ Wifi)
  /\ WF_vars(LateAddress /\ Wifi)
FairSpec == Spec /\ Fairness

(***************************************************************************)
(* Properties                                                              *)
(***************************************************************************)

\* "Candidate credentials must never reach NVS until DHCP succeeds": the record
\* changes only to a network that gave an address during this setup, or by a
\* reset; events of the network before it do not count.
OnlyProvenIsSaved == [][record' # record => record' \in got \/ reset = "record"]_vars

\* Without a pending revision the flash holds the settings that were deferred
\* last, whatever was deferred while an older snapshot was written and however a
\* write failed: nothing that is reported as saved is lost.
SavedMeansLatest ==
  ~pending /\ reset = "idle" => settings = "latest"

\* After a successful reset nothing of the user is in flash until the restart:
\* neither settings that are still pending nor a setup writes it again.
ResetIsFinal == reset = "done" => Stored = NoNetwork /\ settings = "absent"

\* A device left alone, whose station was not spoilt by a failed driver call,
\* gets back to the network its flash names when networks stay in reach, after any
\* number of failed setups and used up retries.
NetworkReturns ==
  <>[](steady /\ ~flaw /\ reset = "idle" /\ Stored # NoNetwork)
    => <>[](connected /\ sta = "up" /\ on = Stored)
===============================================================================
