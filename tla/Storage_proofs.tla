----------------------------- MODULE Storage_proofs -----------------------------
(***************************************************************************)
(* Proofs about Storage for every set of networks and every number of      *)
(* retries.  Three facts are needed beside the types: the reservation has  *)
(* one owner, a trial only ever believes what its own candidate has        *)
(* reported, and a reset erases in order.                                  *)
(***************************************************************************)
EXTENDS Storage, TLAPS

\* TypeOK in parts.
StationOK ==
  /\ record \in Network /\ legacy \in Network /\ cfg \in Network
  /\ sta \in {"stopped", "idle", "trying", "linked", "up"} /\ on \in Network
  /\ late \in BOOLEAN /\ steady \in BOOLEAN
EventsOK ==
  /\ bits \subseteq {"CONNECTED", "FAILED"} /\ connected \in BOOLEAN
  /\ retries \in 0..MaxRetries /\ got \subseteq Networks
SetupOK ==
  /\ pc \in Steps /\ err \in BOOLEAN /\ request \in Network
  /\ previous \in Network \cup {Unread}
  /\ renewing \in BOOLEAN /\ flaw \in BOOLEAN
TestingOK ==
  /\ testing \in BOOLEAN
  /\ testing => pc \in Steps \ {"loop", "scan", "begin", "restart", "finish"}
ReservedOK ==
  /\ busy = (pc # "loop") /\ maint \in BOOLEAN
  /\ maint <=> busy \/ flush # "idle" \/ reset # "idle"
MailOK ==
  /\ settings \in Kept /\ pending \in BOOLEAN /\ flush \in Sets \cup {"idle"}
  /\ reset \in {"idle", "record", "settings", "legacy", "failed", "done"}

\* Wi-Fi worker, storage worker and reset exclude each other.
OneOwner ==
  /\ busy => flush = "idle" /\ reset = "idle"
  /\ flush # "idle" => reset = "idle"

\* The station only ever tries a network, and goes back only to one that was read.
HasNetwork ==
  /\ sta \in {"trying", "linked", "up"} => on # NoNetwork
  /\ pc = "reconfigure" => previous # Unread
  /\ pc \in {"begin", "stop", "clear", "start", "connect", "wait", "save"} =>
       request \in Networks

\* From the clearing of the bits to the saving: the station is the candidate's alone,
\* and what the bits say was said of it.
TrialOK ==
  /\ pc \in {"stop", "clear", "start", "connect", "wait", "save"} => testing
  /\ pc = "clear" /\ ~err => sta = "stopped"
  /\ pc = "start" => sta = "stopped"
  /\ pc \in {"connect", "wait"} =>
       cfg = request /\ (sta \in {"trying", "linked", "up"} => on = request)
  /\ pc \in {"start", "connect", "wait"} =>
       ~late /\ ("CONNECTED" \in bits => request \in got)
  /\ pc = "save" => request \in got

\* What a reset has passed is gone, and nobody writes it again; a write under way
\* has something to write.
FlashOK ==
  /\ reset \in {"settings", "legacy", "done"} => record = NoNetwork
  /\ reset \in {"legacy", "done"} => settings = "absent"
  /\ reset = "done" => legacy = NoNetwork
  /\ flush # "idle" => pending
  /\ SavedMeansLatest

IInv ==
  /\ StationOK /\ EventsOK /\ SetupOK /\ TestingOK /\ ReservedOK /\ MailOK
  /\ OneOwner /\ HasNetwork /\ TrialOK /\ FlashOK

\* The type invariant of the runs is the first six parts.
LEMMA TypeParts ==
  TypeOK <=> StationOK /\ EventsOK /\ SetupOK /\ TestingOK /\ ReservedOK /\ MailOK
BY DEF TypeOK, WifiTypeOK, StationOK, EventsOK, SetupOK, TestingOK, ReservedOK, MailOK

LEMMA InitIInv == Init => IInv
<1> SUFFICES ASSUME Init PROVE IInv
  OBVIOUS
<1> USE NetworksAssumption, RetriesAssumption DEF Init, WifiInit, Stored, Connecting
<1>1. StationOK /\ HasNetwork
  BY DEF StationOK, HasNetwork, Network
<1>2. EventsOK
  <2>1. 0 \in 0..MaxRetries
    BY RetriesAssumption
  <2> QED
    BY <2>1 DEF EventsOK
<1>3. SetupOK
  BY DEF SetupOK, Network, Steps
<1>4. TestingOK /\ ReservedOK
  BY DEF TestingOK, ReservedOK
<1>5. MailOK /\ OneOwner /\ TrialOK /\ FlashOK
  BY DEF MailOK, OneOwner, TrialOK, FlashOK, SavedMeansLatest, Sets, Kept
<1> QED
  BY <1>1, <1>2, <1>3, <1>4, <1>5 DEF IInv

-------------------------------------------------------------------------------
\* One lemma for each action of WifiSetup, which leaves mailbox and reset alone.
LEMMA JoinKeeps ==
  ASSUME IInv, Join, UNCHANGED <<steady, settings, mailVars, reset>>
  PROVE  IInv'
<1> USE NetworksAssumption DEF IInv, Join, wifiVars, flash, driver, flags,
        worker, mailVars
<1>1. StationOK'
  BY DEF StationOK, SetupOK, HasNetwork, Network
<1>2. EventsOK'
  BY RetriesAssumption DEF EventsOK, StationOK, HasNetwork, Network
<1>3. SetupOK' /\ TestingOK'
  BY DEF SetupOK, TestingOK, StationOK, TrialOK, Steps, Network
<1>4. ReservedOK' /\ OneOwner'
  BY DEF ReservedOK, OneOwner
<1>5. HasNetwork'
  BY DEF HasNetwork, SetupOK, Network
<1>6. TrialOK'
  BY DEF TrialOK, StationOK, TestingOK, HasNetwork
<1>7. MailOK' /\ FlashOK'
  BY DEF MailOK, FlashOK, SavedMeansLatest, OneOwner, ReservedOK
<1> QED
  BY <1>1, <1>2, <1>3, <1>4, <1>5, <1>6, <1>7

LEMMA GetAddressKeeps ==
  ASSUME IInv, GetAddress, UNCHANGED <<steady, settings, mailVars, reset>>
  PROVE  IInv'
<1> USE NetworksAssumption DEF IInv, GetAddress, OnAddress, wifiVars, flash, driver, flags,
        worker, mailVars
<1>1. StationOK'
  BY DEF StationOK, SetupOK, HasNetwork, Network
<1>2. EventsOK'
  BY RetriesAssumption DEF EventsOK, StationOK, HasNetwork, Network
<1>3. SetupOK' /\ TestingOK'
  BY DEF SetupOK, TestingOK, StationOK, TrialOK, Steps, Network
<1>4. ReservedOK' /\ OneOwner'
  BY DEF ReservedOK, OneOwner
<1>5. HasNetwork'
  BY DEF HasNetwork, SetupOK, Network
<1>6. TrialOK'
  BY DEF TrialOK, StationOK, TestingOK, HasNetwork
<1>7. MailOK' /\ FlashOK'
  BY DEF MailOK, FlashOK, SavedMeansLatest, OneOwner, ReservedOK
<1> QED
  BY <1>1, <1>2, <1>3, <1>4, <1>5, <1>6, <1>7

LEMMA LateAddressKeeps ==
  ASSUME IInv, LateAddress, UNCHANGED <<steady, settings, mailVars, reset>>
  PROVE  IInv'
<1> USE NetworksAssumption DEF IInv, LateAddress, OnAddress, wifiVars, flash, driver, flags,
        worker, mailVars
<1>1. StationOK'
  BY DEF StationOK, SetupOK, HasNetwork, Network
<1>2. EventsOK'
  BY RetriesAssumption DEF EventsOK, StationOK, HasNetwork, Network
<1>3. SetupOK' /\ TestingOK'
  BY DEF SetupOK, TestingOK, StationOK, TrialOK, Steps, Network
<1>4. ReservedOK' /\ OneOwner'
  BY DEF ReservedOK, OneOwner
<1>5. HasNetwork'
  BY DEF HasNetwork, SetupOK, Network
<1>6. TrialOK'
  BY DEF TrialOK, StationOK, TestingOK, HasNetwork
<1>7. MailOK' /\ FlashOK'
  BY DEF MailOK, FlashOK, SavedMeansLatest, OneOwner, ReservedOK
<1> QED
  BY <1>1, <1>2, <1>3, <1>4, <1>5, <1>6, <1>7

LEMMA OnDisconnectedKeeps ==
  ASSUME IInv, OnDisconnected, UNCHANGED <<steady, settings, mailVars, reset>>
  PROVE  IInv'
<1> USE NetworksAssumption DEF IInv, OnDisconnected, Connecting, wifiVars, flash, driver, flags,
        worker, mailVars
<1>1. StationOK'
  BY DEF StationOK, SetupOK, HasNetwork, Network
<1>2. EventsOK'
  <2>1. (retries \in 0..MaxRetries)'
    BY RetriesAssumption DEF EventsOK
  <2>2. (bits \subseteq {"CONNECTED", "FAILED"} /\ connected \in BOOLEAN /\ got \subseteq Networks)'
    BY DEF EventsOK
  <2> QED
    BY <2>1, <2>2 DEF EventsOK
<1>3. SetupOK' /\ TestingOK'
  BY DEF SetupOK, TestingOK, StationOK, TrialOK, Steps, Network
<1>4. ReservedOK' /\ OneOwner'
  BY DEF ReservedOK, OneOwner
<1>5. HasNetwork'
  BY DEF HasNetwork, SetupOK, Network
<1>6. TrialOK'
  BY DEF TrialOK, StationOK, TestingOK, HasNetwork
<1>7. MailOK' /\ FlashOK'
  BY DEF MailOK, FlashOK, SavedMeansLatest, OneOwner, ReservedOK
<1> QED
  BY <1>1, <1>2, <1>3, <1>4, <1>5, <1>6, <1>7

LEMMA RenewCheckKeeps ==
  ASSUME IInv, RenewCheck, UNCHANGED <<steady, settings, mailVars, reset>>
  PROVE  IInv'
<1> USE NetworksAssumption DEF IInv, RenewCheck, RenewalDue, wifiVars, flash, driver, flags,
        worker, mailVars
<1>1. StationOK'
  BY DEF StationOK, SetupOK, HasNetwork, Network
<1>2. EventsOK'
  BY RetriesAssumption DEF EventsOK, StationOK, HasNetwork, Network
<1>3. SetupOK' /\ TestingOK'
  BY DEF SetupOK, TestingOK, StationOK, TrialOK, Steps, Network
<1>4. ReservedOK' /\ OneOwner'
  BY DEF ReservedOK, OneOwner
<1>5. HasNetwork'
  BY DEF HasNetwork, SetupOK, Network
<1>6. TrialOK'
  BY DEF TrialOK, StationOK, TestingOK, HasNetwork
<1>7. MailOK' /\ FlashOK'
  BY DEF MailOK, FlashOK, SavedMeansLatest, OneOwner, ReservedOK
<1> QED
  BY <1>1, <1>2, <1>3, <1>4, <1>5, <1>6, <1>7

LEMMA RenewConnectKeeps ==
  ASSUME IInv, RenewConnect, UNCHANGED <<steady, settings, mailVars, reset>>
  PROVE  IInv'
<1> USE NetworksAssumption DEF IInv, RenewConnect, CanConnect, ConnectCall, wifiVars,
        flash, driver, flags, worker, mailVars
<1>1. StationOK'
  BY DEF StationOK, SetupOK, HasNetwork, Network
<1>2. EventsOK'
  BY RetriesAssumption DEF EventsOK, StationOK, HasNetwork, Network
<1>3. SetupOK' /\ TestingOK'
  BY DEF SetupOK, TestingOK, StationOK, TrialOK, Steps, Network
<1>4. ReservedOK' /\ OneOwner'
  BY DEF ReservedOK, OneOwner
<1>5. HasNetwork'
  BY DEF HasNetwork, SetupOK, Network
<1>6. TrialOK'
  BY DEF TrialOK, StationOK, TestingOK, HasNetwork
<1>7. MailOK' /\ FlashOK'
  BY DEF MailOK, FlashOK, SavedMeansLatest, OneOwner, ReservedOK
<1> QED
  BY <1>1, <1>2, <1>3, <1>4, <1>5, <1>6, <1>7

LEMMA RequestSetupKeeps ==
  ASSUME IInv, RequestSetup, UNCHANGED <<steady, settings, mailVars, reset>>
  PROVE  IInv'
<1> USE NetworksAssumption DEF IInv, RequestSetup, SetupAllowed, wifiVars, flash, driver, flags,
        worker, mailVars
<1>1. StationOK'
  BY DEF StationOK, SetupOK, HasNetwork, Network
<1>2. EventsOK'
  BY RetriesAssumption DEF EventsOK, StationOK, HasNetwork, Network
<1>3. SetupOK' /\ TestingOK'
  <2>1. ~testing
    BY DEF TestingOK, ReservedOK
  <2>2. SetupOK'
    BY DEF SetupOK, Steps, Network
  <2>3. TestingOK'
    BY <2>1 DEF TestingOK
  <2> QED
    BY <2>2, <2>3
<1>4. ReservedOK' /\ OneOwner'
  BY DEF ReservedOK, OneOwner
<1>5. HasNetwork'
  BY DEF HasNetwork, SetupOK, Network
<1>6. TrialOK'
  BY DEF TrialOK, StationOK, TestingOK, HasNetwork
<1>7. MailOK' /\ FlashOK'
  BY DEF MailOK, FlashOK, SavedMeansLatest, OneOwner, ReservedOK
<1> QED
  BY <1>1, <1>2, <1>3, <1>4, <1>5, <1>6, <1>7

LEMMA ScanKeeps ==
  ASSUME IInv, Scan, UNCHANGED <<steady, settings, mailVars, reset>>
  PROVE  IInv'
<1> USE NetworksAssumption DEF IInv, Scan, At, GoTo, wifiVars, flash, driver, flags,
        worker, mailVars
<1>1. StationOK'
  BY DEF StationOK, SetupOK, HasNetwork, Network
<1>2. EventsOK'
  BY RetriesAssumption DEF EventsOK, StationOK, HasNetwork, Network
<1>3. SetupOK' /\ TestingOK'
  BY DEF SetupOK, TestingOK, StationOK, TrialOK, Steps, Network
<1>4. ReservedOK' /\ OneOwner'
  BY DEF ReservedOK, OneOwner
<1>5. HasNetwork'
  BY DEF HasNetwork, SetupOK, Network
<1>6. TrialOK'
  BY DEF TrialOK, StationOK, TestingOK, HasNetwork
<1>7. MailOK' /\ FlashOK'
  BY DEF MailOK, FlashOK, SavedMeansLatest, OneOwner, ReservedOK
<1> QED
  BY <1>1, <1>2, <1>3, <1>4, <1>5, <1>6, <1>7

LEMMA BeginKeeps ==
  ASSUME IInv, Begin, UNCHANGED <<steady, settings, mailVars, reset>>
  PROVE  IInv'
<1> USE NetworksAssumption DEF IInv, Begin, At, GoTo, wifiVars, flash, driver, flags,
        worker, mailVars
<1>1. StationOK'
  BY DEF StationOK, SetupOK, HasNetwork, Network
<1>2. EventsOK'
  BY RetriesAssumption DEF EventsOK, StationOK, HasNetwork, Network
<1>3. SetupOK' /\ TestingOK'
  BY DEF SetupOK, TestingOK, StationOK, TrialOK, Steps, Network
<1>4. ReservedOK' /\ OneOwner'
  BY DEF ReservedOK, OneOwner
<1>5. HasNetwork'
  BY DEF HasNetwork, SetupOK, Network
<1>6. TrialOK'
  BY DEF TrialOK, StationOK, TestingOK, HasNetwork
<1>7. MailOK' /\ FlashOK'
  BY DEF MailOK, FlashOK, SavedMeansLatest, OneOwner, ReservedOK
<1> QED
  BY <1>1, <1>2, <1>3, <1>4, <1>5, <1>6, <1>7

LEMMA StopPreviousKeeps ==
  ASSUME IInv, StopPrevious, UNCHANGED <<steady, settings, mailVars, reset>>
  PROVE  IInv'
<1> USE NetworksAssumption DEF IInv, StopPrevious, At, GoTo, Stopping, wifiVars, flash,
        driver, flags, worker, mailVars
<1>1. StationOK'
  BY DEF StationOK, SetupOK, HasNetwork, Network
<1>2. EventsOK'
  BY RetriesAssumption DEF EventsOK, StationOK, HasNetwork, Network
<1>3. SetupOK' /\ TestingOK'
  BY DEF SetupOK, TestingOK, StationOK, TrialOK, Steps, Network
<1>4. ReservedOK' /\ OneOwner'
  BY DEF ReservedOK, OneOwner
<1>5. HasNetwork'
  BY DEF HasNetwork, SetupOK, Network
<1>6. TrialOK'
  BY DEF TrialOK, StationOK, TestingOK, HasNetwork
<1>7. MailOK' /\ FlashOK'
  BY DEF MailOK, FlashOK, SavedMeansLatest, OneOwner, ReservedOK
<1> QED
  BY <1>1, <1>2, <1>3, <1>4, <1>5, <1>6, <1>7

LEMMA ClearKeeps ==
  ASSUME IInv, Clear, UNCHANGED <<steady, settings, mailVars, reset>>
  PROVE  IInv'
<1> USE NetworksAssumption DEF IInv, Clear, At, GoTo, Cleared, wifiVars, flash, driver, flags,
        worker, mailVars
<1>1. StationOK'
  BY DEF StationOK, SetupOK, HasNetwork, Network
<1>2. EventsOK'
  BY RetriesAssumption DEF EventsOK, StationOK, HasNetwork, Network
<1>3. SetupOK' /\ TestingOK'
  BY DEF SetupOK, TestingOK, StationOK, TrialOK, Steps, Network
<1>4. ReservedOK' /\ OneOwner'
  BY DEF ReservedOK, OneOwner
<1>5. HasNetwork'
  BY DEF HasNetwork, SetupOK, Network
<1>6. TrialOK'
  BY DEF TrialOK, StationOK, TestingOK, HasNetwork
<1>7. MailOK' /\ FlashOK'
  BY DEF MailOK, FlashOK, SavedMeansLatest, OneOwner, ReservedOK
<1> QED
  BY <1>1, <1>2, <1>3, <1>4, <1>5, <1>6, <1>7

LEMMA StartCandidateKeeps ==
  ASSUME IInv, StartCandidate, UNCHANGED <<steady, settings, mailVars, reset>>
  PROVE  IInv'
<1> USE NetworksAssumption DEF IInv, StartCandidate, At, GoTo, wifiVars, flash, driver, flags,
        worker, mailVars
<1>1. StationOK'
  BY DEF StationOK, SetupOK, HasNetwork, Network
<1>2. EventsOK'
  BY RetriesAssumption DEF EventsOK, StationOK, HasNetwork, Network
<1>3. SetupOK' /\ TestingOK'
  BY DEF SetupOK, TestingOK, StationOK, TrialOK, Steps, Network
<1>4. ReservedOK' /\ OneOwner'
  BY DEF ReservedOK, OneOwner
<1>5. HasNetwork'
  BY DEF HasNetwork, SetupOK, Network
<1>6. TrialOK'
  BY DEF TrialOK, StationOK, TestingOK, HasNetwork
<1>7. MailOK' /\ FlashOK'
  BY DEF MailOK, FlashOK, SavedMeansLatest, OneOwner, ReservedOK
<1> QED
  BY <1>1, <1>2, <1>3, <1>4, <1>5, <1>6, <1>7

LEMMA ConnectCandidateKeeps ==
  ASSUME IInv, ConnectCandidate, UNCHANGED <<steady, settings, mailVars, reset>>
  PROVE  IInv'
<1> USE NetworksAssumption DEF IInv, ConnectCandidate, At, GoTo, CanConnect, ConnectCall,
        wifiVars, flash, driver, flags, worker, mailVars
<1>1. StationOK'
  BY DEF StationOK, SetupOK, HasNetwork, Network
<1>2. EventsOK'
  BY RetriesAssumption DEF EventsOK, StationOK, HasNetwork, Network
<1>3. SetupOK' /\ TestingOK'
  BY DEF SetupOK, TestingOK, StationOK, TrialOK, Steps, Network
<1>4. ReservedOK' /\ OneOwner'
  BY DEF ReservedOK, OneOwner
<1>5. HasNetwork'
  BY DEF HasNetwork, SetupOK, Network
<1>6. TrialOK'
  BY DEF TrialOK, StationOK, TestingOK, HasNetwork
<1>7. MailOK' /\ FlashOK'
  BY DEF MailOK, FlashOK, SavedMeansLatest, OneOwner, ReservedOK
<1> QED
  BY <1>1, <1>2, <1>3, <1>4, <1>5, <1>6, <1>7

LEMMA WaitKeeps ==
  ASSUME IInv, Wait, UNCHANGED <<steady, settings, mailVars, reset>>
  PROVE  IInv'
<1> USE NetworksAssumption DEF IInv, Wait, At, GoTo, Succeeded, wifiVars, flash, driver, flags,
        worker, mailVars
<1>1. StationOK'
  BY DEF StationOK, SetupOK, HasNetwork, Network
<1>2. EventsOK'
  BY RetriesAssumption DEF EventsOK, StationOK, HasNetwork, Network
<1>3. SetupOK' /\ TestingOK'
  BY DEF SetupOK, TestingOK, StationOK, TrialOK, Steps, Network
<1>4. ReservedOK' /\ OneOwner'
  BY DEF ReservedOK, OneOwner
<1>5. HasNetwork'
  BY DEF HasNetwork, SetupOK, Network
<1>6. TrialOK'
  BY DEF TrialOK, StationOK, TestingOK, HasNetwork
<1>7. MailOK' /\ FlashOK'
  BY DEF MailOK, FlashOK, SavedMeansLatest, OneOwner, ReservedOK
<1> QED
  BY <1>1, <1>2, <1>3, <1>4, <1>5, <1>6, <1>7

LEMMA SaveCandidateKeeps ==
  ASSUME IInv, SaveCandidate, UNCHANGED <<steady, settings, mailVars, reset>>
  PROVE  IInv'
<1> USE NetworksAssumption DEF IInv, SaveCandidate, At, GoTo, wifiVars, flash, driver, flags,
        worker, mailVars
<1>1. StationOK'
  BY DEF StationOK, SetupOK, HasNetwork, Network
<1>2. EventsOK'
  BY RetriesAssumption DEF EventsOK, StationOK, HasNetwork, Network
<1>3. SetupOK' /\ TestingOK'
  BY DEF SetupOK, TestingOK, StationOK, TrialOK, Steps, Network
<1>4. ReservedOK' /\ OneOwner'
  BY DEF ReservedOK, OneOwner
<1>5. HasNetwork'
  BY DEF HasNetwork, SetupOK, Network
<1>6. TrialOK'
  BY DEF TrialOK, StationOK, TestingOK, HasNetwork
<1>7. MailOK' /\ FlashOK'
  BY DEF MailOK, FlashOK, SavedMeansLatest, OneOwner, ReservedOK
<1> QED
  BY <1>1, <1>2, <1>3, <1>4, <1>5, <1>6, <1>7

LEMMA AcceptKeeps ==
  ASSUME IInv, Accept, UNCHANGED <<steady, settings, mailVars, reset>>
  PROVE  IInv'
<1> USE NetworksAssumption DEF IInv, Accept, At, GoTo, wifiVars, flash, driver, flags,
        worker, mailVars
<1>1. StationOK'
  BY DEF StationOK, SetupOK, HasNetwork, Network
<1>2. EventsOK'
  BY RetriesAssumption DEF EventsOK, StationOK, HasNetwork, Network
<1>3. SetupOK' /\ TestingOK'
  BY DEF SetupOK, TestingOK, StationOK, TrialOK, Steps, Network
<1>4. ReservedOK' /\ OneOwner'
  BY DEF ReservedOK, OneOwner
<1>5. HasNetwork'
  BY DEF HasNetwork, SetupOK, Network
<1>6. TrialOK'
  BY DEF TrialOK, StationOK, TestingOK, HasNetwork
<1>7. MailOK' /\ FlashOK'
  BY DEF MailOK, FlashOK, SavedMeansLatest, OneOwner, ReservedOK
<1> QED
  BY <1>1, <1>2, <1>3, <1>4, <1>5, <1>6, <1>7

LEMMA RestoreKeeps ==
  ASSUME IInv, Restore, UNCHANGED <<steady, settings, mailVars, reset>>
  PROVE  IInv'
<1> USE NetworksAssumption DEF IInv, Restore, At, GoTo, Stopping, wifiVars, flash, driver, flags,
        worker, mailVars
<1>1. StationOK'
  BY DEF StationOK, SetupOK, HasNetwork, Network
<1>2. EventsOK'
  BY RetriesAssumption DEF EventsOK, StationOK, HasNetwork, Network
<1>3. SetupOK' /\ TestingOK'
  BY DEF SetupOK, TestingOK, StationOK, TrialOK, Steps, Network
<1>4. ReservedOK' /\ OneOwner'
  <2>1. UNCHANGED <<busy, maint, flush, reset>> /\ pc # "loop" /\ pc' # "loop"
    OBVIOUS
  <2> QED
    BY <2>1 DEF ReservedOK, OneOwner
<1>5. HasNetwork'
  BY DEF HasNetwork, SetupOK, Network
<1>6. TrialOK'
  BY DEF TrialOK, StationOK, TestingOK, HasNetwork
<1>7. MailOK' /\ FlashOK'
  BY DEF MailOK, FlashOK, SavedMeansLatest, OneOwner, ReservedOK
<1> QED
  BY <1>1, <1>2, <1>3, <1>4, <1>5, <1>6, <1>7

LEMMA ReconfigureKeeps ==
  ASSUME IInv, Reconfigure, UNCHANGED <<steady, settings, mailVars, reset>>
  PROVE  IInv'
<1> USE NetworksAssumption DEF IInv, Reconfigure, At, GoTo, RestoredConfig, wifiVars,
        flash, driver, flags, worker, mailVars
<1>1. StationOK'
  BY DEF StationOK, SetupOK, HasNetwork, Network
<1>2. EventsOK'
  BY RetriesAssumption DEF EventsOK, StationOK, HasNetwork, Network
<1>3. SetupOK' /\ TestingOK'
  BY DEF SetupOK, TestingOK, StationOK, TrialOK, Steps, Network
<1>4. ReservedOK' /\ OneOwner'
  BY DEF ReservedOK, OneOwner
<1>5. HasNetwork'
  BY DEF HasNetwork, SetupOK, Network
<1>6. TrialOK'
  BY DEF TrialOK, StationOK, TestingOK, HasNetwork
<1>7. MailOK' /\ FlashOK'
  BY DEF MailOK, FlashOK, SavedMeansLatest, OneOwner, ReservedOK
<1> QED
  BY <1>1, <1>2, <1>3, <1>4, <1>5, <1>6, <1>7

LEMMA RestartStationKeeps ==
  ASSUME IInv, RestartStation, UNCHANGED <<steady, settings, mailVars, reset>>
  PROVE  IInv'
<1> USE NetworksAssumption DEF IInv, RestartStation, At, GoTo, Connecting, wifiVars, flash,
        driver, flags, worker, mailVars
<1>1. StationOK'
  BY DEF StationOK, SetupOK, HasNetwork, Network
<1>2. EventsOK'
  BY RetriesAssumption DEF EventsOK, StationOK, HasNetwork, Network
<1>3. SetupOK' /\ TestingOK'
  BY DEF SetupOK, TestingOK, StationOK, TrialOK, Steps, Network
<1>4. ReservedOK' /\ OneOwner'
  BY DEF ReservedOK, OneOwner
<1>5. HasNetwork'
  BY DEF HasNetwork, SetupOK, Network
<1>6. TrialOK'
  BY DEF TrialOK, StationOK, TestingOK, HasNetwork
<1>7. MailOK' /\ FlashOK'
  BY DEF MailOK, FlashOK, SavedMeansLatest, OneOwner, ReservedOK
<1> QED
  BY <1>1, <1>2, <1>3, <1>4, <1>5, <1>6, <1>7

LEMMA FinishKeeps ==
  ASSUME IInv, Finish, UNCHANGED <<steady, settings, mailVars, reset>>
  PROVE  IInv'
<1> USE NetworksAssumption DEF IInv, Finish, At, GoTo, wifiVars, flash, driver, flags,
        worker, mailVars
<1>1. StationOK'
  BY DEF StationOK, SetupOK, HasNetwork, Network
<1>2. EventsOK'
  BY RetriesAssumption DEF EventsOK, StationOK, HasNetwork, Network
<1>3. SetupOK' /\ TestingOK'
  BY DEF SetupOK, TestingOK, StationOK, TrialOK, Steps, Network
<1>4. ReservedOK' /\ OneOwner'
  BY DEF ReservedOK, OneOwner
<1>5. HasNetwork'
  BY DEF HasNetwork, SetupOK, Network
<1>6. TrialOK'
  BY DEF TrialOK, StationOK, TestingOK, HasNetwork
<1>7. MailOK' /\ FlashOK'
  BY DEF MailOK, FlashOK, SavedMeansLatest, OneOwner, ReservedOK
<1> QED
  BY <1>1, <1>2, <1>3, <1>4, <1>5, <1>6, <1>7

LEMMA WifiKeeps == ASSUME IInv, Wifi PROVE IInv'
<1> USE DEF Wifi
<1>1. CASE WifiDriver
  BY <1>1, JoinKeeps, GetAddressKeeps, LateAddressKeeps, OnDisconnectedKeeps DEF WifiDriver
<1>2. CASE ReconnectWorker
  BY <1>2, RenewCheckKeeps, RenewConnectKeeps DEF ReconnectWorker
<1>3. CASE RequestSetup
  BY <1>3, RequestSetupKeeps
<1>4. CASE SetupWorker
  BY <1>4, ScanKeeps, BeginKeeps, StopPreviousKeeps, ClearKeeps, StartCandidateKeeps,
     ConnectCandidateKeeps, WaitKeeps, SaveCandidateKeeps, AcceptKeeps, RestoreKeeps,
     ReconfigureKeeps, RestartStationKeeps, FinishKeeps DEF SetupWorker
<1> QED
  BY <1>1, <1>2, <1>3, <1>4 DEF WifiNext

-------------------------------------------------------------------------------
\* The mailbox, the reset and the boot leave Wi-Fi alone, or begin it anew.
LEMMA MailKeeps ==
  ASSUME IInv, Defer \/ FlushBegin \/ FlushEnd \/ Settle
  PROVE  IInv'
<1> USE DEF IInv, wifiVars, flash, driver, flags, worker, mailVars
<1>1. UNCHANGED <<wifiVars, reset>> /\ steady' \in BOOLEAN
  BY DEF Defer, FlushBegin, FlushEnd, Settle, StationOK
<1>2. StationOK' /\ EventsOK' /\ SetupOK' /\ TestingOK' /\ HasNetwork' /\ TrialOK'
  BY <1>1 DEF StationOK, EventsOK, SetupOK, TestingOK, HasNetwork, TrialOK
<1>3. CASE Defer
  BY <1>1, <1>2, <1>3 DEF Defer, Overtaken, ReservedOK, MailOK, OneOwner, FlashOK, SavedMeansLatest,
     Sets, Kept
<1>4. CASE FlushBegin
  BY <1>1, <1>2, <1>4 DEF FlushBegin, CheckpointAllowed, SetupAllowed, ReservedOK, MailOK,
     OneOwner, FlashOK, SavedMeansLatest, Sets, Kept
<1>5. CASE FlushEnd
  <2>1. ReservedOK' /\ OneOwner'
    BY <1>1, <1>5 DEF FlushEnd, ReservedOK, OneOwner
  <2>2. MailOK'
    BY <1>1, <1>5 DEF FlushEnd, Acknowledged, MailOK, Sets, Kept
  <2>3. reset = "idle" /\ flush' = "idle" /\ pending
    BY <1>5 DEF FlushEnd, OneOwner, FlashOK
  <2>4. ~pending' => settings' = "latest"
    BY <1>5, <2>3 DEF FlushEnd, Acknowledged
  <2> QED
    BY <1>1, <1>2, <2>1, <2>2, <2>3, <2>4 DEF FlashOK, SavedMeansLatest
<1>6. CASE Settle
  BY <1>1, <1>2, <1>6 DEF Settle, ReservedOK, MailOK, OneOwner, FlashOK, SavedMeansLatest
<1> QED
  BY <1>3, <1>4, <1>5, <1>6

LEMMA ResetKeeps == ASSUME IInv, Reset PROVE IInv'
<1> USE DEF IInv, wifiVars, flash, driver, flags, worker, mailVars
<1>1. /\ UNCHANGED <<driver, flags, busy, worker, renewing, got, flaw, steady, mailVars>>
      /\ record' \in {record, NoNetwork} /\ legacy' \in {legacy, NoNetwork}
      /\ reset' # "idle" /\ maint' /\ (reset # "idle" \/ ~maint)
  BY DEF Reset, ResetBegin, EraseRecord, EraseSettings, EraseLegacy, ResetFails, ResetDone,
     ColdAllowed, SetupAllowed, ReservedOK
<1>2. ~busy /\ flush = "idle"
  BY <1>1 DEF ReservedOK, OneOwner
<1>3. StationOK' /\ EventsOK' /\ SetupOK' /\ TestingOK' /\ HasNetwork' /\ TrialOK'
  BY <1>1 DEF StationOK, EventsOK, SetupOK, TestingOK, HasNetwork, TrialOK, Network
<1>4. ReservedOK' /\ OneOwner'
  BY <1>1, <1>2 DEF ReservedOK, OneOwner
<1>5. MailOK' /\ FlashOK'
  <2> USE <1>1, <1>2 DEF MailOK, FlashOK, SavedMeansLatest, ResetFails, Kept
  <2>1. CASE ResetBegin
    BY <2>1 DEF ResetBegin
  <2>2. CASE EraseRecord
    BY <2>2 DEF EraseRecord
  <2>3. CASE EraseSettings
    BY <2>3 DEF EraseSettings
  <2>4. CASE EraseLegacy
    BY <2>4 DEF EraseLegacy, ResetDone
  <2> QED
    BY <2>1, <2>2, <2>3, <2>4 DEF Reset
<1> QED
  BY <1>3, <1>4, <1>5

LEMMA BootKeeps == ASSUME IInv, Boot PROVE IInv'
<1> USE NetworksAssumption, RetriesAssumption
    DEF IInv, Boot, WifiBoot, Stored, Connecting, flash
<1>1. StationOK' /\ HasNetwork'
  BY DEF StationOK, HasNetwork, Network
<1>2. EventsOK'
  <2>1. 0 \in 0..MaxRetries
    BY RetriesAssumption
  <2> QED
    BY <2>1 DEF EventsOK
<1>3. SetupOK'
  BY DEF SetupOK, Network, Steps
<1>4. TestingOK' /\ ReservedOK'
  BY DEF TestingOK, ReservedOK
<1>5. MailOK' /\ OneOwner' /\ TrialOK' /\ FlashOK'
  BY DEF MailOK, OneOwner, TrialOK, FlashOK, SavedMeansLatest, Sets, Kept
<1> QED
  BY <1>1, <1>2, <1>3, <1>4, <1>5

LEMMA StepKeeps == IInv /\ [Next]_vars => IInv'
<1> SUFFICES ASSUME IInv, [Next]_vars PROVE IInv'
  OBVIOUS
<1>1. CASE UNCHANGED vars
  BY <1>1 DEF IInv, vars, wifiVars, flash, driver, flags, worker, mailVars, StationOK, EventsOK,
     SetupOK, TestingOK, ReservedOK, MailOK, OneOwner, HasNetwork, TrialOK, FlashOK,
     SavedMeansLatest
<1>2. CASE Restart \/ PowerLoss
  BY <1>2, BootKeeps DEF Restart, PowerLoss
<1> QED
  BY <1>1, <1>2, WifiKeeps, MailKeeps, ResetKeeps DEF Next

\* Every reachable state satisfies the strengthened invariant.
THEOREM Invariance == Spec => []IInv
<1>1. Init => IInv
  BY InitIInv
<1>2. IInv /\ [Next]_vars => IInv'
  BY StepKeeps
<1> QED
  BY <1>1, <1>2, PTL DEF Spec

\* The variables of the three users of the flash have their types, and there is a
\* reservation exactly while one of them works (settings_deferred.c, wifi_sta.c,
\* settings_store.c).
THEOREM TypeCorrect == Spec => []TypeOK
<1>1. IInv => TypeOK
  BY TypeParts DEF IInv
<1> QED
  BY <1>1, Invariance, PTL

\* Nothing that the mailbox of settings_deferred.c reports as saved is lost.
THEOREM SavedIsLatest == Spec => []SavedMeansLatest
<1>1. IInv => SavedMeansLatest
  BY DEF IInv, FlashOK
<1> QED
  BY <1>1, Invariance, PTL

\* After a successful shu1_settings_store_factory_reset nothing of the user is in
\* flash until the restart.
THEOREM ResetStaysFinal == Spec => []ResetIsFinal
<1>1. IInv => ResetIsFinal
  BY DEF IInv, FlashOK, ResetIsFinal, Stored
<1> QED
  BY <1>1, Invariance, PTL

\* Outside a reset only the saving of a proven candidate changes the record of the
\* network (setup_worker of wifi_sta.c).
THEOREM OnlyProvenReachesFlash == Spec => OnlyProvenIsSaved
<1>1. ASSUME IInv, [Next]_vars, record' # record
      PROVE  record' \in got \/ reset = "record"
  <2>1. CASE Wifi
    <3>1. SaveCandidate
      BY <1>1, <2>1 DEF Wifi, WifiNext, WifiDriver, ReconnectWorker, SetupWorker, Join, GetAddress,
         LateAddress, OnAddress, OnDisconnected, RenewCheck, RenewConnect, RequestSetup, Scan,
         Begin, StopPrevious, Clear, StartCandidate, ConnectCandidate, Wait, Accept, Restore,
         Reconfigure, RestartStation, Finish, flash
    <3> QED
      BY <1>1, <3>1 DEF SaveCandidate, At, IInv, TrialOK
  <2>2. CASE EraseRecord
    BY <2>2 DEF EraseRecord
  <2>3. ~Wifi => EraseRecord
    BY <1>1 DEF Next, Reset, ResetBegin, EraseSettings, EraseLegacy, Defer, FlushBegin, FlushEnd,
       Restart, PowerLoss, Boot, Settle, vars, wifiVars, flash
  <2> QED
    BY <2>1, <2>2, <2>3
<1>2. IInv /\ [Next]_vars => [record' # record => record' \in got \/ reset = "record"]_vars
  BY <1>1
<1> QED
  BY <1>2, Invariance, PTL DEF Spec, OnlyProvenIsSaved
===============================================================================
