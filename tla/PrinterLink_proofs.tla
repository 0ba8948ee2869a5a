--------------------------- MODULE PrinterLink_proofs ---------------------------
(***************************************************************************)
(* Proofs about PrinterLink for every set of printers, every length of the *)
(* stale windows and every number of setups.  What was heard is never      *)
(* older than a timestamp says, in the state and in the worker's copy of   *)
(* it (NeverYounger); what a new client has shown is recorded by proof     *)
(* (Witnesses); each step of a setup knows which configuration is running  *)
(* and which is in flash (Durable).                                        *)
(***************************************************************************)
EXTENDS PrinterLink, MessageBuffer, TLAPS

NeverYounger == heard <= pr.update /\ (pc = "merge" => heard <= copy.update)

Witnesses ==
  /\ pc \in {"verify", "save"} =>
       /\ pr.subscribed => "subscribed" \in proof
       /\ wsValid => "valid" \in proof
  /\ pc = "save" => proof = {"subscribed", "valid"}

Durable ==
  \/ inhibited
  \/ /\ pc \notin {"verify", "save", "unsave", "rollback"} => conf = saved
     /\ pc \in {"probe", "switch"} => old = conf
     /\ pc \in {"verify", "save"} => conf = candidate
     /\ pc \in {"verify", "save", "rollback"} => saved = old

\* The types in parts, each of which few actions touch.
PrinterOK == pr \in PrinterState /\ copy \in PrinterState /\ heard \in Age
SocketOK ==
  /\ client \in {"none", "idle", "started"} /\ link \in {"down", "opening", "open", "dead"}
  /\ link # "down" => client = "started"
  /\ asked \subseteq {"info", "subscribe", "query"} /\ notice \in {"none", "ready", "down"}
FlagsOK ==
  /\ pending \in BOOLEAN /\ autodetect \in BOOLEAN /\ wsValid \in BOOLEAN
  /\ passed \in BOOLEAN /\ reach \in BOOLEAN /\ klippy \in BOOLEAN
  /\ proof \subseteq {"subscribed", "valid"}
SetupOK ==
  /\ conf \in Printers /\ saved \in Printers /\ candidate \in Printers /\ old \in Printers
  /\ pc \in {"loop", "fetch", "merge"} \cup SetupSteps
  /\ setup \in {"idle", "queued", "running"} /\ (setup = "running" <=> pc \in SetupSteps)
  /\ setups \in 0..MaxSetups /\ inhibited \in BOOLEAN

IInv ==
  /\ PrinterOK /\ SocketOK /\ FlagsOK /\ SetupOK
  /\ NeverYounger /\ Witnesses /\ Durable

LEMMA TypeParts == TypeOK <=> PrinterOK /\ SocketOK /\ FlagsOK /\ SetupOK
BY DEF TypeOK, PrinterOK, SocketOK, FlagsOK, SetupOK

\* What happens to the printer state.
LEMMA StateKeeps ==
  ASSUME NEW p \in PrinterState
  PROVE  /\ Online(p) \in PrinterState /\ Offline(p) \in PrinterState
         /\ Offline(p).update = Never /\ Online(p).update = p.update
         /\ [Offline(p) EXCEPT !.connected = TRUE, !.message = 0] \in PrinterState
         /\ [Offline(p) EXCEPT !.connected = TRUE, !.message = 0].update = Never
         /\ [Online(p) EXCEPT !.message = 0] \in PrinterState
         /\ [Online(p) EXCEPT !.message = 0].update = p.update
         /\ \A b \in BOOLEAN :
              /\ [p EXCEPT !.ready = b, !.message = 0] \in PrinterState
              /\ [p EXCEPT !.ready = b, !.message = 0].update = p.update
              /\ [p EXCEPT !.ready = b, !.subscribed = b] \in PrinterState
              /\ [p EXCEPT !.ready = b, !.subscribed = b].update = p.update
         /\ \A status \in Status :
              /\ Updated(p, status) \in PrinterState
              /\ Updated(p, status).update = IF status = "complete" THEN 0 ELSE p.update
              /\ Updated([p EXCEPT !.subscribed = TRUE], status) \in PrinterState
              /\ Updated([p EXCEPT !.subscribed = TRUE], status).update =
                   IF status = "complete" THEN 0 ELSE p.update
         /\ NoPrinter \in PrinterState /\ NoPrinter.update = Never
         /\ 0 \in Age /\ Never \in Age /\ (\A n \in Age : n <= Never /\ 0 <= n)
         /\ OlderState(p) \in PrinterState /\ OlderState(p).update = Older(p.update)
<1> USE StaleAssumption DEF PrinterState, Age, MessageAge, Never, Unheard
<1>1. /\ 0 \in Age /\ Never \in Age /\ 0 \in MessageAge /\ Unheard \in MessageAge
      /\ \A n \in Age : n <= Never /\ 0 <= n
  OBVIOUS
<1>2. /\ Online(p) \in PrinterState /\ Offline(p) \in PrinterState
      /\ Offline(p).update = Never /\ Online(p).update = p.update
      /\ [Offline(p) EXCEPT !.connected = TRUE, !.message = 0] \in PrinterState
      /\ [Offline(p) EXCEPT !.connected = TRUE, !.message = 0].update = Never
      /\ [Online(p) EXCEPT !.message = 0] \in PrinterState
      /\ [Online(p) EXCEPT !.message = 0].update = p.update
  BY <1>1 DEF Online, Offline
<1>3. ASSUME NEW b \in BOOLEAN
      PROVE  /\ [p EXCEPT !.ready = b, !.message = 0] \in PrinterState
             /\ [p EXCEPT !.ready = b, !.message = 0].update = p.update
             /\ [p EXCEPT !.ready = b, !.subscribed = b] \in PrinterState
             /\ [p EXCEPT !.ready = b, !.subscribed = b].update = p.update
  BY <1>1
<1>4. ASSUME NEW status \in Status
      PROVE  /\ Updated(p, status) \in PrinterState
             /\ Updated(p, status).update = IF status = "complete" THEN 0 ELSE p.update
             /\ Updated([p EXCEPT !.subscribed = TRUE], status) \in PrinterState
             /\ Updated([p EXCEPT !.subscribed = TRUE], status).update =
                  IF status = "complete" THEN 0 ELSE p.update
  BY <1>1 DEF Updated, ProvesFresh, Status
<1>5. NoPrinter \in PrinterState /\ NoPrinter.update = Never
  BY <1>1 DEF NoPrinter
<1>6. OlderState(p) \in PrinterState /\ OlderState(p).update = Older(p.update)
  <2>1. Older(p.update) \in Age
    BY DEF Older
  <2>2. (IF p.message > WsStale THEN p.message ELSE p.message + 1) \in MessageAge
    OBVIOUS
  <2> QED
    BY <2>1, <2>2 DEF OlderState
<1> QED
  BY <1>1, <1>2, <1>3, <1>4, <1>5, <1>6

LEMMA InitIInv == Init => IInv
<1> SUFFICES ASSUME Init PROVE IInv
  OBVIOUS
<1>1. NoPrinter \in PrinterState /\ NoPrinter.update = Never /\ Never \in Nat /\ Never \in Age
  BY StaleAssumption DEF NoPrinter, PrinterState, Age, MessageAge, Never, Unheard
<1>2. PrinterOK /\ SocketOK /\ FlagsOK
  BY <1>1 DEF Init, PrinterOK, SocketOK, FlagsOK
<1>3. SetupOK
  <2>1. 0 \in 0..MaxSetups
    BY SetupsAssumption
  <2> QED
    BY <2>1 DEF Init, SetupOK, SetupSteps
<1>4. NeverYounger /\ Witnesses /\ Durable
  BY <1>1 DEF Init, NeverYounger, Witnesses, Durable
<1> QED
  BY <1>2, <1>3, <1>4 DEF IInv

-------------------------------------------------------------------------------
\* What the websocket task reports of the printer: nothing it has not just heard.
LEMMA Reports ==
  ASSUME PrinterOK, FlagsOK, WebsocketTask
  PROVE  /\ pr' \in PrinterState
         /\ \/ heard' = heard /\ pr'.update \in {pr.update, Never}
            \/ heard' = 0
         /\ pr'.subscribed => pr.subscribed \/ OnSubscribed
<1> USE StateKeeps DEF PrinterOK
<1>1. CASE Connect \/ OnRefused
  BY <1>1 DEF Connect, OnRefused, history
<1>2. CASE OnConnected \/ OnDisconnected \/ OnError
  <2>1. Offline(pr).subscribed = FALSE
        /\ [Offline(pr) EXCEPT !.connected = TRUE, !.message = 0].subscribed = FALSE
    BY DEF Offline, PrinterState
  <2>2. heard' = heard
        /\ pr' \in {Offline(pr), [Offline(pr) EXCEPT !.connected = TRUE, !.message = 0]}
    BY <1>2 DEF OnConnected, OnDisconnected, OnError, history
  <2> QED
    BY <2>1, <2>2
<1>3. CASE OnInfo \/ OnProcStat \/ OnKlippyReady \/ OnKlippyDown
  <2>1. heard' = heard
    BY <1>3 DEF OnInfo, OnProcStat, OnKlippyReady, OnKlippyDown, history
  <2>2. CASE OnInfo \/ OnKlippyReady
    <3>1. PICK b \in BOOLEAN : pr' = [pr EXCEPT !.ready = b, !.message = 0]
      BY <2>2 DEF OnInfo, OnKlippyReady, FlagsOK
    <3>2. [pr EXCEPT !.ready = b, !.message = 0].subscribed = pr.subscribed
      BY DEF PrinterState
    <3> QED
      BY <2>1, <3>1, <3>2
  <2>3. CASE OnProcStat
    <3>1. pr' = [Online(pr) EXCEPT !.message = 0]
      BY <2>3 DEF OnProcStat
    <3>2. [Online(pr) EXCEPT !.message = 0].subscribed = pr.subscribed
      BY DEF Online, PrinterState
    <3> QED
      BY <2>1, <3>1, <3>2
  <2>4. CASE OnKlippyDown
    <3>1. pr' = [pr EXCEPT !.ready = FALSE, !.subscribed = FALSE]
      BY <2>4 DEF OnKlippyDown
    <3>2. [pr EXCEPT !.ready = FALSE, !.subscribed = FALSE].subscribed = FALSE
      BY DEF PrinterState
    <3> QED
      BY <2>1, <3>1, <3>2
  <2> QED
    BY <1>3, <2>2, <2>3, <2>4
<1>4. CASE OnSubscribed
  <2>1. PICK status \in Status : /\ pr' = Updated([pr EXCEPT !.subscribed = TRUE], status)
                                 /\ heard' = IF status = "complete" THEN 0 ELSE heard
    BY <1>4 DEF OnSubscribed
  <2> QED
    BY <1>4, <2>1
<1>5. CASE OnStatus
  <2>1. PICK status \in Status : /\ pr' = Updated(pr, status)
                                 /\ heard' = IF status = "complete" THEN 0 ELSE heard
    BY <1>5 DEF OnStatus
  <2>2. Updated(pr, status).subscribed = pr.subscribed
    BY DEF Updated, PrinterState
  <2> QED
    BY <2>1, <2>2
<1>6. CASE OnQuery
  <2>1. pr' = Updated(pr, "complete") /\ heard' = 0 /\ "complete" \in Status
    BY <1>6 DEF OnQuery, Status
  <2>2. Updated(pr, "complete").subscribed = pr.subscribed
    BY DEF Updated, PrinterState
  <2> QED
    BY <2>1, <2>2
<1> QED
  BY <1>1, <1>2, <1>3, <1>4, <1>5, <1>6 DEF WebsocketTask

\* The websocket task leaves worker and setup alone, and what it reports of a new
\* client it has seen.
LEMMA WebsocketKeeps == ASSUME IInv, WebsocketTask PROVE IInv'
<1>1. UNCHANGED <<pc, copy, passed, setupVars, env>>
  BY DEF WebsocketTask, Connect, OnConnected, OnDisconnected, OnError, OnInfo, OnSubscribed,
     OnQuery, OnRefused, OnStatus, OnProcStat, OnKlippyReady, OnKlippyDown
<1>2. SetupOK' /\ Durable'
  BY <1>1 DEF SetupOK, Durable, setupVars, config, IInv
<1>3. SocketOK'
  BY DEF IInv, SocketOK, socket, CloseSocket, WebsocketTask, Connect, OnConnected,
     OnDisconnected, OnError, OnInfo, OnSubscribed, OnQuery, OnRefused, OnStatus, OnProcStat,
     OnKlippyReady, OnKlippyDown
<1>4. FlagsOK'
  BY <1>1 DEF IInv, FlagsOK, flags, history, env, Witnessed, WebsocketTask, Connect, OnConnected,
     OnDisconnected, OnError, OnInfo, OnSubscribed, OnQuery, OnRefused, OnStatus, OnProcStat,
     OnKlippyReady, OnKlippyDown
<1>5. /\ pr' \in PrinterState
      /\ \/ heard' = heard /\ pr'.update \in {pr.update, Never}
         \/ heard' = 0
      /\ pr'.subscribed => pr.subscribed \/ OnSubscribed
  BY Reports DEF IInv
<1>6. heard' \in Age /\ heard' <= pr'.update /\ heard' <= heard
  BY <1>5, StaleAssumption DEF IInv, PrinterOK, NeverYounger, PrinterState, Age, Never
<1>7. PrinterOK' /\ NeverYounger'
  <2>1. PrinterOK'
    BY <1>1, <1>5, <1>6 DEF IInv, PrinterOK
  <2>2. pc = "merge" => heard' <= copy.update
    BY <1>6, StaleAssumption DEF IInv, PrinterOK, NeverYounger, PrinterState, Age, Never
  <2> QED
    BY <1>1, <1>6, <2>1, <2>2 DEF NeverYounger
<1>8. Witnesses'
  <2>1. /\ proof \subseteq proof'
        /\ pc \in {"verify", "save"} /\ OnSubscribed => "subscribed" \in proof'
        /\ pc \in {"verify", "save"} /\ wsValid' => wsValid \/ "valid" \in proof'
    BY DEF IInv, SetupOK, SetupSteps, FlagsOK, flags, history, Witnessed, WebsocketTask, Connect,
       OnConnected, OnDisconnected, OnError, OnInfo, OnSubscribed, OnQuery, OnRefused, OnStatus,
       OnProcStat, OnKlippyReady, OnKlippyDown
  <2>2. proof' \subseteq {"subscribed", "valid"}
    BY <1>4 DEF FlagsOK
  <2> QED
    BY <1>1, <1>5, <2>1, <2>2 DEF IInv, Witnesses
<1> QED
  BY <1>2, <1>3, <1>4, <1>7, <1>8 DEF IInv

\* The worker outside a setup: it asks, gives up what is silent, and writes its copy
\* back, which is no younger than what has been heard.
LEMMA LoopKeeps ==
  ASSUME IInv, \/ CreateClient \/ StartClient \/ WaitForSocket \/ StopSilent \/ Pass \/ Autodetect
               \/ FetchFails \/ FetchDone \/ Merge
  PROVE  IInv'
<1>1. /\ UNCHANGED <<setupVars, env, history, wsValid>>
      /\ pc \in {"loop", "fetch", "merge"} /\ pc' \in {"loop", "fetch", "merge"}
      /\ passed' \in BOOLEAN /\ pending' \in BOOLEAN /\ autodetect' \in BOOLEAN
      /\ pc' = "merge" => copy' = pr /\ pr' = pr
      /\ \/ UNCHANGED <<pr, copy>>
         \/ pr' = Offline(pr) /\ copy' = copy
         \/ pr' = pr /\ copy' = pr
         \/ pc = "merge" /\ pr' = copy /\ copy' = NoPrinter
  BY DEF IInv, FlagsOK, CreateClient, StartClient, WaitForSocket, StopSilent, Pass, Autodetect,
     FetchFails, FetchDone, Merge, Looping, flags, socket
<1>2. SetupOK' /\ Durable' /\ Witnesses'
  BY <1>1 DEF IInv, SetupOK, SetupSteps, Durable, Witnesses, setupVars, config
<1>3. SocketOK'
  BY DEF IInv, SocketOK, CreateClient, StartClient, WaitForSocket, StopSilent, Pass, Autodetect,
     FetchFails, FetchDone, Merge, Looping, Connected, CloseSocket, Sent, socket
<1>4. FlagsOK'
  BY <1>1 DEF IInv, FlagsOK, env, history
<1>5. PrinterOK' /\ NeverYounger'
  <2>1. pr' \in PrinterState /\ copy' \in PrinterState
    BY <1>1, StateKeeps DEF IInv, PrinterOK
  <2>2. heard' = heard /\ heard \in Age /\ (\A n \in Age : n <= Never)
    BY <1>1, StateKeeps DEF history, IInv, PrinterOK
  <2>3. heard' <= pr'.update
    <3>1. /\ Offline(pr).update = Never /\ heard <= Never /\ heard <= pr.update
          /\ pc = "merge" => heard <= copy.update
      BY <2>2, StateKeeps DEF IInv, PrinterOK, NeverYounger
    <3>2. pr' = pr \/ pr' = Offline(pr) \/ (pc = "merge" /\ pr' = copy)
      BY <1>1
    <3> QED
      BY <2>2, <3>1, <3>2
  <2>4. pc' = "merge" => heard' <= copy'.update
    BY <1>1, <2>2 DEF IInv, NeverYounger
  <2> QED
    BY <2>1, <2>2, <2>3, <2>4 DEF PrinterOK, NeverYounger
<1> QED
  BY <1>2, <1>3, <1>4, <1>5 DEF IInv

-------------------------------------------------------------------------------
\* Moving the connection forgets everything that was known of the printer.
LEMMA MoveForgets ==
  ASSUME IInv, NEW p \in Printers, MoveTo(p), client' \in {"none", "idle", "started"},
         UNCHANGED <<passed, env, copy>>, pc' # "merge"
  PROVE  /\ PrinterOK' /\ SocketOK' /\ FlagsOK' /\ NeverYounger'
         /\ pr'.subscribed = FALSE /\ wsValid' = FALSE
<1>1. NoPrinter \in PrinterState /\ NoPrinter.update = Never /\ Never \in Age /\ Never <= Never
  BY StateKeeps DEF IInv, PrinterOK
<1>2. PrinterOK' /\ NeverYounger'
  BY <1>1 DEF IInv, MoveTo, ClearedState, PrinterOK, NeverYounger
<1>3. SocketOK' /\ FlagsOK'
  BY DEF IInv, MoveTo, CloseSocket, SocketOK, FlagsOK, env
<1> QED
  BY <1>2, <1>3 DEF MoveTo, ClearedState, NoPrinter

\* The steps of a setup.
LEMMA SetupKeeps ==
  ASSUME IInv, \/ TakeSetup \/ Probe \/ Switch \/ VerifyPass \/ VerifyEnds \/ Save \/ Unsave
               \/ Rollback \/ Finish \/ RequestSetup
  PROVE  IInv'
<1>1. SetupOK'
  <2> USE DEF IInv, SetupOK, SetupSteps, setupVars, config
  <2>1. CASE TakeSetup \/ Probe \/ VerifyPass \/ VerifyEnds \/ Finish
    BY <2>1 DEF TakeSetup, Probe, VerifyPass, VerifyEnds, Finish
  <2>2. CASE Switch \/ Rollback
    BY <2>2 DEF Switch, Rollback, MoveTo, StopFails
  <2>3. CASE Save \/ Unsave
    BY <2>3 DEF Save, Unsave, Restored
  <2>4. CASE RequestSetup
    BY <2>4, SetupsAssumption DEF RequestSetup
  <2> QED
    BY <2>1, <2>2, <2>3, <2>4
<1>2. CASE Switch
  <2>1. CASE MoveTo(candidate) /\ UNCHANGED inhibited /\ pc' \in {"verify", "rollback"}
    <3>1. /\ pc = "switch" /\ pc' \in {"verify", "rollback"} /\ conf' = candidate
          /\ UNCHANGED <<saved, candidate, old, inhibited>>
      BY <1>2, <2>1 DEF Switch, MoveTo
    <3>2. /\ PrinterOK' /\ SocketOK' /\ FlagsOK' /\ NeverYounger'
          /\ pr'.subscribed = FALSE /\ wsValid' = FALSE
      BY <1>2, <2>1, <3>1, MoveForgets DEF Switch, IInv, SetupOK
    <3>3. Witnesses' /\ Durable'
      BY <3>1, <3>2 DEF IInv, Witnesses, Durable
    <3> QED
      BY <1>1, <3>2, <3>3 DEF IInv
  <2>2. CASE StopFails
    BY <1>1, <1>2, <2>2 DEF Switch, StopFails, CloseSocket, IInv, PrinterOK, SocketOK, FlagsOK,
       NeverYounger, Witnesses, Durable, flags, history, env
  <2> QED
    BY <1>2, <2>1, <2>2 DEF Switch
<1>3. CASE Rollback
  <2>1. CASE MoveTo(old)
    <3>1. /\ pc = "rollback" /\ pc' = "finish" /\ conf' = old
          /\ UNCHANGED <<saved, candidate, old>> /\ inhibited' \in {inhibited, TRUE}
      BY <1>3, <2>1 DEF Rollback, MoveTo, StopFails
    <3>2. /\ PrinterOK' /\ SocketOK' /\ FlagsOK' /\ NeverYounger'
          /\ pr'.subscribed = FALSE /\ wsValid' = FALSE
      BY <1>3, <2>1, <3>1, MoveForgets DEF Rollback, IInv, SetupOK, StopFails
    <3>3. Witnesses' /\ Durable'
      BY <3>1, <3>2 DEF IInv, Witnesses, Durable
    <3> QED
      BY <1>1, <3>2, <3>3 DEF IInv
  <2>2. CASE StopFails
    BY <1>1, <1>3, <2>2 DEF Rollback, StopFails, CloseSocket, IInv, PrinterOK, SocketOK, FlagsOK,
       NeverYounger, Witnesses, Durable, flags, history, env
  <2> QED
    BY <1>3, <2>1, <2>2 DEF Rollback
<1>4. CASE VerifyPass
  BY <1>1, <1>4 DEF VerifyPass, Sent, IInv, PrinterOK, SocketOK, FlagsOK, NeverYounger, Witnesses,
     Durable, setupVars, config, history, env
<1>5. CASE VerifyEnds
  <2>1. UNCHANGED <<flags, socket, pr, copy, passed, setupVars, env, history>>
    BY <1>5 DEF VerifyEnds
  <2>2. /\ pc = "verify" /\ pc' \in {"save", "rollback"}
        /\ pc' = "save" => pr.subscribed /\ wsValid
    BY <1>5 DEF VerifyEnds, Proven
  <2>3. PrinterOK' /\ SocketOK' /\ FlagsOK' /\ NeverYounger'
    BY <2>1, <2>2 DEF IInv, PrinterOK, SocketOK, FlagsOK, NeverYounger, history, env, flags, socket
  <2>4. Witnesses'
    BY <2>1, <2>2 DEF IInv, Witnesses, FlagsOK, flags, history
  <2>5. Durable'
    BY <2>1, <2>2 DEF IInv, Durable, setupVars, config
  <2> QED
    BY <1>1, <2>3, <2>4, <2>5 DEF IInv
<1>6. CASE TakeSetup \/ Probe \/ Save \/ Unsave \/ Finish \/ RequestSetup
  <2>1. /\ UNCHANGED <<flags, socket, pr, copy, passed, env, heard>> /\ proof' \in {proof, {}}
        /\ pc' \notin {"verify", "save"} /\ (pc' = "merge" => pc = "merge")
    <3> USE DEF history, IInv, SetupOK, SetupSteps
    <3>1. CASE TakeSetup \/ Probe
      BY <3>1 DEF TakeSetup, Probe
    <3>2. CASE Save \/ Unsave
      BY <3>2 DEF Save, Unsave
    <3>3. CASE Finish \/ RequestSetup
      BY <3>3 DEF Finish, RequestSetup
    <3> QED
      BY <1>6, <3>1, <3>2, <3>3
  <2>2. PrinterOK' /\ SocketOK' /\ FlagsOK' /\ NeverYounger' /\ Witnesses'
    BY <2>1 DEF IInv, PrinterOK, SocketOK, FlagsOK, NeverYounger, Witnesses, flags, socket, env
  <2>3. Durable'
    <3> USE DEF IInv, Durable, setupVars, config
    <3>1. CASE TakeSetup \/ Probe
      BY <3>1 DEF TakeSetup, Probe
    <3>2. CASE Save \/ Unsave
      BY <3>2 DEF Save, Unsave, Restored
    <3>3. CASE Finish
      BY <3>3 DEF Finish
    <3>4. CASE RequestSetup
      BY <3>4 DEF RequestSetup, SetupOK, SetupSteps
    <3> QED
      BY <1>6, <3>1, <3>2, <3>3, <3>4
  <2> QED
    BY <1>1, <2>2, <2>3 DEF IInv
<1> QED
  BY <1>2, <1>3, <1>4, <1>5, <1>6

\* The environment and time.
LEMMA EnvironmentKeeps ==
  ASSUME IInv, NetworkChanges \/ PeerForgets \/ KlippyChanges \/ Tick
  PROVE  IInv'
<1>1. UNCHANGED <<pc, copy, setupVars, proof, wsValid>>
  BY DEF NetworkChanges, PeerForgets, KlippyChanges, Tick, flags, history
<1>2. SetupOK' /\ Durable'
  BY <1>1 DEF IInv, SetupOK, Durable, setupVars, config
<1>3. SocketOK'
  BY DEF IInv, SocketOK, NetworkChanges, PeerForgets, KlippyChanges, Tick, socket
<1>4. FlagsOK'
  BY <1>1 DEF IInv, FlagsOK, NetworkChanges, PeerForgets, KlippyChanges, Tick, flags, env
<1>5. CASE UNCHANGED <<pr, heard>>
  BY <1>1, <1>2, <1>3, <1>5, <1>4 DEF IInv, PrinterOK, NeverYounger, Witnesses
<1>6. CASE Tick
  <2>1. pr' = OlderState(pr) /\ heard' = Older(heard) /\ pc # "merge"
    BY <1>6 DEF Tick, IInv, SetupOK, SetupSteps
  <2>2. /\ OlderState(pr) \in PrinterState /\ OlderState(pr).update = Older(pr.update)
        /\ OlderState(pr).subscribed = pr.subscribed
    BY StateKeeps DEF IInv, PrinterOK, PrinterState, OlderState
  <2>3. Older(heard) \in Age /\ Older(heard) <= Older(pr.update)
    BY StaleAssumption DEF IInv, PrinterOK, NeverYounger, PrinterState, Older, Age, Never
  <2> QED
    BY <1>1, <1>2, <1>3, <1>4, <2>1, <2>2, <2>3 DEF IInv, PrinterOK, NeverYounger, Witnesses
<1> QED
  BY <1>5, <1>6 DEF NetworkChanges, PeerForgets, KlippyChanges, history

LEMMA StepKeeps == IInv /\ [Next]_vars => IInv'
<1> SUFFICES ASSUME IInv, [Next]_vars PROVE IInv'
  OBVIOUS
<1>1. CASE UNCHANGED vars
  BY <1>1 DEF IInv, PrinterOK, SocketOK, FlagsOK, SetupOK, NeverYounger, Witnesses, Durable, vars,
     flags, socket, setupVars, config, env, history
<1> QED
  BY <1>1, WebsocketKeeps, LoopKeeps, SetupKeeps, EnvironmentKeeps DEF Next, MoonrakerTask

\* Every reachable state satisfies the strengthened invariant.
THEOREM Invariance == Spec => []IInv
<1> QED
  BY InitIInv, StepKeeps, PTL DEF Spec

\* The variables of moonraker_client.c keep their types.
THEOREM TypeCorrect == Spec => []TypeOK
<1>1. IInv => TypeOK
  BY TypeParts DEF IInv
<1> QED
  BY <1>1, Invariance, PTL

\* printer_data_fresh (safety.c) never calls data fresh that is older than it says.
THEOREM FreshDataIsRecent == Spec => []FreshIsRecent
<1>1. IInv => FreshIsRecent
  BY DEF IInv, NeverYounger, FreshIsRecent
<1> QED
  BY <1>1, Invariance, PTL

\* apply_setup ends with running configuration and flash agreed, or inhibits.
THEOREM ConfigurationIsDurable == Spec => []ConfigIsDurable
<1>1. IInv => ConfigIsDurable
  BY DEF IInv, SetupOK, SetupSteps, Durable, ConfigIsDurable
<1> QED
  BY <1>1, Invariance, PTL

\* Only a printer that has proven itself over its own client is saved (apply_setup).
THEOREM OnlyProvenIsSaved == Spec => SavedIsProven
<1>1. ASSUME IInv, [Next]_vars, saved' # saved
      PROVE  \/ saved' = candidate /\ proof = {"subscribed", "valid"}
             \/ saved' = old /\ pc = "unsave"
  <2>1. Save \/ Unsave
    BY <1>1 DEF Next, WebsocketTask, MoonrakerTask, RequestSetup, NetworkChanges, PeerForgets,
       KlippyChanges, Tick, Connect, OnConnected, OnDisconnected, OnError, OnInfo, OnSubscribed,
       OnQuery, OnRefused, OnStatus, OnProcStat, OnKlippyReady, OnKlippyDown, CreateClient,
       StartClient, WaitForSocket, StopSilent, Pass, Autodetect, FetchFails, FetchDone, Merge,
       TakeSetup, Probe, Switch, VerifyPass, VerifyEnds, Rollback, Finish, vars, setupVars, config
  <2>2. CASE Save
    BY <1>1, <2>2 DEF Save, IInv, Witnesses
  <2>3. CASE Unsave
    BY <1>1, <2>3 DEF Unsave, Restored
  <2> QED
    BY <2>1, <2>2, <2>3
<1>2. IInv /\ [Next]_vars =>
        [saved' # saved => \/ saved' = candidate /\ proof = {"subscribed", "valid"}
                           \/ saved' = old /\ pc = "unsave"]_vars
  BY <1>1
<1> QED
  BY <1>2, Invariance, PTL DEF Spec, SavedIsProven

(***************************************************************************)
(* MessageBuffer, from which the connection gets its messages: for every   *)
(* capacity, any number and length of messages, and every way to cut them  *)
(* into frames and chunks.  BufferOK holds for any events whatsoever; that *)
(* the buffer collects exactly the messages that fit (Collects) takes the  *)
(* order of the protocol.                                                  *)
(***************************************************************************)

Event == [opcode: {"text", "continuation", "control"}, fin: BOOLEAN, length: Nat,
          offset: Nat, count: Nat, data: UNION {[0..(n - 1) -> Byte] : n \in Nat}]

\* What holds of the buffer whatever the events are.
BufferOK(b) ==
  /\ b \in Buffer
  /\ b.active => /\ b.used = b.start + b.received /\ b.received <= b.length
                 /\ b.start + b.length < Capacity

\* How much of the message has arrived, and whether what was sent of it so far fits.
Arrived == peer.sent + (IF peer.at = "frame" THEN peer.got ELSE 0)
Started == peer.at = "open" \/ (peer.at = "frame" /\ (~peer.text \/ peer.got > 0))
Fitting ==
  IF peer.at = "frame" /\ peer.got > 0 THEN Total < Capacity ELSE peer.sent < Capacity

\* The buffer collects exactly the messages that fit so far.
Collects ==
  /\ peer.at # "closed" => (rx.active <=> Started /\ Fitting)
  /\ peer.at # "closed" /\ rx.active =>
       /\ rx.used = Arrived
       /\ \A i \in 0..(Arrived - 1) : rx.bytes[i] = <<peer.msg, i>>
       /\ peer.at = "frame" /\ peer.got > 0 =>
            rx.start = peer.sent /\ rx.received = peer.got /\ rx.length = peer.length
       /\ ~(peer.at = "frame" /\ peer.got > 0) => rx.received = rx.length
PeerOK == peer.at = "frame" => /\ peer.got <= peer.length /\ (peer.text => peer.sent = 0)
                               /\ peer.got = peer.length => peer.got = 0
HandedOK == \A m \in handed : \E n \in Index : m \in [0..(n - 1) -> Byte]
RxIInv == BufferOK(rx) /\ peer \in Peer /\ HandedOK /\ PeerOK /\ Collects

--------------------------------------------------------------------------------

LEMMA IndexOK ==
  0 \in Index /\ Index \subseteq Nat /\ (\A i : i \in Index <=> i \in Nat /\ i < Capacity)
  BY CapacityAssumption DEF Index

LEMMA ClearedOK == BufferOK(Cleared) /\ ~Cleared.active
  BY IndexOK DEF BufferOK, Cleared, Buffer, Byte, NUL

LEMMA RejectedOK ==
  ASSUME NEW b \in Buffer
  PROVE  BufferOK(Rejected(b)) /\ ~Rejected(b).active
  BY IndexOK DEF BufferOK, Rejected, Buffer

LEMMA BufferFields ==
  ASSUME NEW b \in Buffer
  PROVE  /\ b.bytes \in [Index -> Byte] /\ b.used \in Nat /\ b.used < Capacity
         /\ b.start \in Nat /\ b.start < Capacity
         /\ b.received \in Nat /\ b.length \in Nat /\ b.active \in BOOLEAN
  BY CapacityAssumption DEF Buffer, Index

LEMMA EnteredOK ==
  ASSUME BufferOK(rx), NEW e, e.length \in Nat, e.offset \in Nat
  PROVE  /\ Entered(rx, e) \in Buffer
         /\ Entered(rx, e).active =>
              Entered(rx, e).used = Entered(rx, e).start + Entered(rx, e).received
         /\ Entered(rx, e).bytes = rx.bytes
<1>1. CASE e.offset > 0
  BY <1>1 DEF Entered, BufferOK
<1>2. CASE e.offset = 0
  <2> DEFINE used == IF e.opcode = "text" THEN 0 ELSE rx.used
             entered == [rx EXCEPT !.used = used, !.active = TRUE, !.start = used,
                                   !.received = 0, !.length = e.length]
  <2>1. rx \in Buffer /\ used \in Index
    BY IndexOK DEF BufferOK, Buffer
  <2>2. Entered(rx, e) = entered
    BY <1>2 DEF Entered
  <2> HIDE DEF used
  <2>3. entered \in Buffer
    BY <2>1 DEF Buffer
  <2>4. entered.used = used /\ entered.start = used /\ entered.received = 0
        /\ entered.bytes = rx.bytes
    BY <2>1 DEF Buffer
  <2>5. used = used + 0
    BY <2>1 DEF Index
  <2> QED BY <2>2, <2>3, <2>4, <2>5
<1> QED BY <1>1, <1>2

\* A chunk that fits lands behind what is there, with room for the NUL behind it.
LEMMA CopiedOK ==
  ASSUME NEW b \in Buffer, NEW e, e.count \in Nat, e.offset \in Nat,
         e.data \in [0..(e.count - 1) -> Byte],
         b.active => b.used = b.start + b.received, Fits(b, e)
  PROVE  /\ BufferOK(Copied(b, e)) /\ BufferOK(Terminated(Copied(b, e)))
         /\ ~Terminated(Copied(b, e)).active
         /\ Copied(b, e).active /\ Copied(b, e).used = b.used + e.count
         /\ Copied(b, e).start = b.start /\ Copied(b, e).length = b.length
         /\ Copied(b, e).received = b.received + e.count
         /\ \A i \in 0..(b.used - 1) : Copied(b, e).bytes[i] = b.bytes[i]
         /\ \A k \in 0..(e.count - 1) : Copied(b, e).bytes[b.used + k] = e.data[k]
         /\ Text(Copied(b, e)) \in [0..(Copied(b, e).used - 1) -> Byte]
<1> DEFINE c == Copied(b, e)
<1>1. b.used + e.count \in Index /\ b.start + b.length < Capacity
      /\ b.received + e.count <= b.length /\ b.active
  <2>1. b.active /\ e.offset = b.received /\ e.count <= b.length - e.offset
        /\ b.length < Capacity - b.start /\ b.used = b.start + b.received
    BY DEF Fits
  <2> QED BY <2>1, BufferFields, CapacityAssumption DEF Index
<1>2. \A i \in Index : i \in b.used..(b.used + e.count - 1) => e.data[i - b.used] \in Byte
  <2> SUFFICES ASSUME NEW i \in b.used..(b.used + e.count - 1) PROVE e.data[i - b.used] \in Byte
    OBVIOUS
  <2>1. i - b.used \in 0..(e.count - 1)
    BY BufferFields
  <2> QED BY <2>1
<1>3. c.bytes = [i \in Index |-> IF i \in b.used..(b.used + e.count - 1)
                                 THEN e.data[i - b.used] ELSE b.bytes[i]]
  BY DEF Copied, Buffer
<1> HIDE DEF c
<1>4. c.bytes \in [Index -> Byte]
  BY <1>2, <1>3 DEF Buffer
<1>5. b.received + e.count \in Nat
  BY BufferFields
<1>6. c \in Buffer /\ c.active /\ c.used = b.used + e.count /\ c.start = b.start
      /\ c.length = b.length /\ c.received = b.received + e.count
  <2>1. c = [b EXCEPT !.bytes = c.bytes, !.used = b.used + e.count,
                      !.received = b.received + e.count]
    BY <1>3 DEF c, Copied
  <2>2. PICK bytes \in [Index -> Byte] : bytes = c.bytes
    BY <1>4
  <2>3. PICK used \in Index : used = b.used + e.count
    BY <1>1
  <2>4. PICK received \in Nat : received = b.received + e.count
    BY <1>5
  <2>5. c = [b EXCEPT !.bytes = bytes, !.used = used, !.received = received]
    BY <2>1, <2>2, <2>3, <2>4
  <2>6. c \in Buffer /\ c.active = b.active /\ c.used = used
        /\ c.start = b.start /\ c.length = b.length /\ c.received = received
    BY <2>5 DEF Buffer
  <2> QED BY <1>1, <2>3, <2>4, <2>6
<1>7. BufferOK(c)
  BY <1>1, <1>6, IndexOK DEF BufferOK, Buffer
<1>8. BufferOK(Terminated(c)) /\ ~Terminated(c).active
  BY <1>6, IndexOK DEF BufferOK, Buffer, Terminated, NUL, Byte
<1>9. \A i \in 0..(b.used - 1) : c.bytes[i] = b.bytes[i]
  BY <1>1, <1>3, BufferFields, CapacityAssumption DEF Index
<1>10. \A k \in 0..(e.count - 1) : c.bytes[b.used + k] = e.data[k]
  <2> SUFFICES ASSUME NEW k \in 0..(e.count - 1) PROVE c.bytes[b.used + k] = e.data[k]
    OBVIOUS
  <2>1. b.used + k \in Index /\ b.used + k \in b.used..(b.used + e.count - 1)
        /\ (b.used + k) - b.used = k
    <3>1. k \in Nat /\ k < e.count
      OBVIOUS
    <3>2. b.used \in Nat /\ b.used + e.count \in Nat /\ b.used + e.count < Capacity
      BY <1>1, BufferFields, IndexOK
    <3> QED BY <3>1, <3>2, CapacityAssumption DEF Index
  <2> QED BY <1>3, <2>1
<1>11. Text(c) \in [0..(c.used - 1) -> Byte]
  <2>1. \A i \in 0..(c.used - 1) : c.bytes[i] \in Byte
    BY <1>1, <1>4, <1>6, BufferFields, CapacityAssumption DEF Index
  <2> QED BY <2>1 DEF Text
<1> QED BY <1>6, <1>7, <1>8, <1>9, <1>10, <1>11 DEF c

\* Whatever events the library delivers, in whatever order and with whatever lengths
\* and offsets, shu1_ws_accumulate stays within the buffer.
THEOREM AnyEventInBounds ==
  ASSUME BufferOK(rx), NEW e \in Event, e.data \in [0..(e.count - 1) -> Byte], Accumulate(e)
  PROVE  BufferOK(rx') /\ HandedOK'
<1>1. CASE rx' = rx /\ handed' = {}
  BY <1>1 DEF HandedOK, BufferOK
<1>2. CASE rx' = Rejected(rx) /\ handed' = {}
  BY <1>2, RejectedOK DEF HandedOK, BufferOK
<1>3. ASSUME NEW b, b = Entered(rx, e), ~Fits(b, e), rx' = Rejected(b), handed' = {}
      PROVE  BufferOK(rx') /\ HandedOK'
  <2>1. b \in Buffer
    BY <1>3, EnteredOK DEF Event
  <2> QED BY <1>3, <2>1, RejectedOK DEF HandedOK, BufferOK
<1>4. ASSUME NEW b, b = Entered(rx, e), Fits(b, e), Store(b, e)
      PROVE  BufferOK(rx') /\ HandedOK'
  <2>1. b \in Buffer /\ (b.active => b.used = b.start + b.received)
    BY <1>4, EnteredOK DEF Event
  <2>2. BufferOK(Copied(b, e)) /\ BufferOK(Terminated(Copied(b, e)))
        /\ Copied(b, e).used = b.used + e.count
        /\ Text(Copied(b, e)) \in [0..(Copied(b, e).used - 1) -> Byte]
    BY <1>4, <2>1, CopiedOK DEF Event
  <2>3. Copied(b, e).used \in Index
    BY <2>2 DEF BufferOK, Buffer
  <2>4. CASE rx' = Terminated(Copied(b, e)) /\ handed' = {Text(Copied(b, e))}
    <3>1. \A m \in handed' : m \in [0..(Copied(b, e).used - 1) -> Byte]
      BY <2>2, <2>4
    <3>2. \A m \in handed' : \E n \in Index : m \in [0..(n - 1) -> Byte]
      <4> TAKE m \in handed'
      <4> WITNESS Copied(b, e).used \in Index
      <4> QED BY <3>1
    <3>3. HandedOK'
      BY <3>2 DEF HandedOK
    <3> QED BY <2>2, <2>4, <3>3
  <2>5. CASE rx' = Copied(b, e) /\ handed' = {}
    BY <2>2, <2>5 DEF HandedOK
  <2> QED BY <1>4, <2>4, <2>5 DEF Store
<1> QED BY <1>1, <1>2, <1>3, <1>4 DEF Accumulate

--------------------------------------------------------------------------------

\* The event that Receive(count) hands to the buffer.
Chunk(count) ==
  [opcode |-> IF peer.text THEN "text" ELSE "continuation", fin |-> peer.fin,
   length |-> peer.length, offset |-> peer.got, count |-> count,
   data |-> [k \in 0..(count - 1) |-> <<peer.msg, peer.sent + peer.got + k>>]]

LEMMA ChunkOK ==
  ASSUME peer \in Peer, NEW count \in Nat
  PROVE  /\ Chunk(count) \in Event /\ ~Control(Chunk(count))
         /\ Chunk(count).data \in [0..(count - 1) -> Byte]
<1>1. \A k \in 0..(count - 1) : <<peer.msg, peer.sent + peer.got + k>> \in Byte
  BY DEF Peer, Byte
<1>2. Chunk(count).data \in [0..(count - 1) -> Byte]
  BY <1>1 DEF Chunk
<1>3. Chunk(count).data \in UNION {[0..(n - 1) -> Byte] : n \in Nat}
  BY <1>2
<1>4. Chunk(count) \in Event /\ ~Control(Chunk(count))
  BY <1>3 DEF Chunk, Event, Peer, Control
<1> QED BY <1>2, <1>4

\* A chunk of a message that fits is stored behind the earlier ones.
LEMMA FittingChunk ==
  ASSUME RxIInv, NEW count \in Nat, Receive(count), Total < Capacity
  PROVE  LET b == Entered(rx, Chunk(count)) IN
         /\ Fits(b, Chunk(count)) /\ Store(b, Chunk(count))
         /\ b.active /\ b.used = peer.sent + peer.got
         /\ b.start = peer.sent /\ b.received = peer.got /\ b.length = peer.length
         /\ \A i \in 0..((peer.sent + peer.got) - 1) : b.bytes[i] = <<peer.msg, i>>
<1> DEFINE e == Chunk(count)
           b == Entered(rx, e)
<1> USE DEF RxIInv
<1>1. /\ peer.at = "frame" /\ peer.sent \in Nat /\ peer.length \in Nat /\ peer.got \in Nat
      /\ peer.got <= peer.length /\ count <= peer.length - peer.got
      /\ peer.text => peer.sent = 0
  BY DEF Receive, Peer, PeerOK
<1>2. e.offset = peer.got /\ e.length = peer.length /\ e.count = count
      /\ (e.opcode = "text" <=> peer.text) /\ e.opcode # "control"
  BY DEF Chunk, Peer
<1>3. Accumulate(e)
  BY DEF Receive, Chunk
<1>4. rx \in Buffer
  BY DEF BufferOK
<1>5. CASE peer.got > 0
  <2>1. rx.active /\ rx.used = peer.sent + peer.got /\ rx.start = peer.sent
        /\ rx.received = peer.got /\ rx.length = peer.length
        /\ \A i \in 0..((peer.sent + peer.got) - 1) : rx.bytes[i] = <<peer.msg, i>>
    BY <1>1, <1>5 DEF Collects, Started, Fitting, Arrived
  <2>2. b = rx /\ Continues(rx, e)
    BY <1>2, <1>5 DEF Entered, Continues
  <2>3. Fits(b, e)
    BY <1>1, <1>2, <2>1, <2>2, CapacityAssumption DEF Fits, Total
  <2> QED BY <1>2, <1>3, <2>1, <2>2, <2>3 DEF Accumulate, Control
<1>6. CASE peer.got = 0
  <2> DEFINE used == IF e.opcode = "text" THEN 0 ELSE rx.used
  <2>1. ~peer.text => rx.active /\ rx.used = peer.sent /\ rx.received = rx.length
    BY <1>1, <1>6, CapacityAssumption DEF Collects, Started, Fitting, Arrived, Total
  <2>2. used = peer.sent /\ used \in Index
    BY <1>1, <1>2, <1>4, <2>1, IndexOK DEF Buffer
  <2>3. b = [rx EXCEPT !.used = used, !.active = TRUE, !.start = used, !.received = 0,
                       !.length = e.length]
    BY <1>2, <1>6 DEF Entered
  <2>4. b.active /\ b.used = peer.sent /\ b.start = peer.sent /\ b.received = 0
        /\ b.length = peer.length /\ b.bytes = rx.bytes
    BY <1>2, <1>4, <2>2, <2>3 DEF Buffer
  <2>5. \A i \in 0..(peer.sent - 1) : rx.bytes[i] = <<peer.msg, i>>
    BY <1>1, <1>6, <2>1 DEF Collects, Arrived
  <2>6. Continues(rx, e)
    BY <1>2, <2>1 DEF Continues
  <2>7. Fits(b, e)
    BY <1>1, <1>2, <1>6, <2>4, CapacityAssumption DEF Fits, Total
  <2> HIDE DEF b
  <2>8. Store(b, e)
    BY <1>2, <1>3, <2>6, <2>7 DEF Accumulate, Control, b
  <2> QED BY <1>1, <1>6, <2>4, <2>5, <2>7, <2>8 DEF b
<1> QED BY <1>1, <1>5, <1>6

\* A chunk of a message that does not fit leaves the buffer without one.
LEMMA LargeChunk ==
  ASSUME RxIInv, NEW count \in Nat, Receive(count), Total >= Capacity
  PROVE  ~rx'.active /\ handed' = {}
<1> DEFINE e == Chunk(count)
           b == Entered(rx, e)
<1> USE DEF RxIInv
<1>1. /\ peer.at = "frame" /\ peer.sent \in Nat /\ peer.length \in Nat /\ peer.got \in Nat
      /\ peer.got <= peer.length /\ (peer.text => peer.sent = 0)
  BY DEF Receive, Peer, PeerOK
<1>2. e.offset = peer.got /\ e.length = peer.length /\ e.count = count
      /\ (e.opcode = "text" <=> peer.text) /\ e.opcode # "control"
  BY DEF Chunk, Peer
<1>3. Accumulate(e) /\ e \in Event
  BY ChunkOK DEF Receive, Chunk
<1>4. rx \in Buffer /\ b \in Buffer
  BY <1>3, EnteredOK DEF BufferOK, Event
<1>5. Continues(rx, e) => ~Fits(b, e)
  <2>1. CASE peer.got > 0
    <3>1. ~rx.active
      BY <1>1, <2>1, CapacityAssumption DEF Collects, Fitting, Total
    <3> QED BY <1>2, <2>1, <3>1 DEF Entered, Fits
  <2>2. CASE peer.got = 0 /\ (peer.text \/ rx.active)
    <3> DEFINE used == IF e.opcode = "text" THEN 0 ELSE rx.used
    <3>1. ~peer.text => rx.used = peer.sent
      BY <1>1, <2>2 DEF Collects, Arrived
    <3>2. used = peer.sent /\ used \in Index
      BY <1>1, <1>2, <1>4, <3>1, IndexOK DEF Buffer
    <3>3. b = [rx EXCEPT !.used = used, !.active = TRUE, !.start = used, !.received = 0,
                         !.length = e.length]
      BY <1>2, <2>2 DEF Entered
    <3>4. b.start = peer.sent /\ b.length = peer.length
      BY <1>2, <1>4, <3>2, <3>3 DEF Buffer
    <3> QED BY <1>1, <3>4, CapacityAssumption DEF Fits, Total
  <2>3. CASE peer.got = 0 /\ ~peer.text /\ ~rx.active
    BY <1>2, <2>3 DEF Continues
  <2> QED BY <1>1, <2>1, <2>2, <2>3
<1>6. CASE rx' = Rejected(rx) /\ handed' = {}
  BY <1>4, <1>6, RejectedOK
<1>7. CASE rx' = Rejected(b) /\ handed' = {}
  BY <1>4, <1>7, RejectedOK
<1> QED BY <1>2, <1>3, <1>5, <1>6, <1>7 DEF Accumulate, Control

\* What the parser gets is the message as it was sent, if it fits and ends here.
LEMMA ReceiveKeeps ==
  ASSUME RxIInv, NEW count \in Nat, Receive(count)
  PROVE  /\ RxIInv'
         /\ handed' = IF Ends /\ Total < Capacity THEN {Message(peer.msg, Total)} ELSE {}
<1> DEFINE e == Chunk(count)
           b == Entered(rx, e)
           end == peer.got + count = peer.length
<1>1. /\ peer \in Peer /\ peer.at = "frame" /\ peer.sent \in Nat /\ peer.length \in Nat
      /\ peer.got \in Nat /\ peer.got + count <= peer.length /\ (peer.text => peer.sent = 0)
      /\ peer.got + count \in Nat /\ peer.msg \in Nat /\ (peer.got + count = 0 => end)
  BY DEF RxIInv, Receive, Peer, PeerOK
<1>2. BufferOK(rx') /\ HandedOK'
  BY <1>1, ChunkOK, AnyEventInBounds DEF RxIInv, Receive, Chunk
<1>3. /\ ~end => peer' = [peer EXCEPT !.got = peer.got + count]
      /\ end => peer' = [peer EXCEPT !.at = IF peer.fin THEN "idle" ELSE "open",
                                     !.sent = peer.sent + peer.length]
  BY <1>1 DEF Receive
<1>4. ~end => /\ peer' \in Peer /\ peer'.at = "frame" /\ peer'.got = peer.got + count
              /\ peer'.sent = peer.sent /\ peer'.length = peer.length /\ peer'.msg = peer.msg
              /\ peer'.text = peer.text /\ ~Ends
  BY <1>1, <1>3 DEF Peer, Ends
<1>5. end => /\ peer' \in Peer /\ peer'.at = (IF peer.fin THEN "idle" ELSE "open")
             /\ peer'.sent = Total /\ peer'.msg = peer.msg /\ (Ends <=> peer.fin)
  <2>1. PICK at \in {"idle", "open"} : at = (IF peer.fin THEN "idle" ELSE "open")
    OBVIOUS
  <2>2. PICK sent \in Nat : sent = peer.sent + peer.length
    BY <1>1
  <2>3. end => peer' = [peer EXCEPT !.at = at, !.sent = sent]
    BY <1>3, <2>1, <2>2
  <2>4. end => /\ peer' \in Peer /\ peer'.at = at /\ peer'.sent = Total /\ peer'.msg = peer.msg
    BY <1>1, <2>2, <2>3 DEF Peer, Total
  <2> QED BY <1>1, <2>1, <2>4 DEF Ends
<1>6. peer' \in Peer /\ PeerOK'
  BY <1>1, <1>4, <1>5 DEF PeerOK
<1>7. CASE Total >= Capacity
  <2>1. ~rx'.active /\ handed' = {}
    BY <1>7, LargeChunk
  <2>2. Collects'
    <3>1. CASE end
      BY <1>1, <1>5, <1>7, <2>1, <3>1, CapacityAssumption DEF Collects, Started, Fitting, Total
    <3>2. CASE ~end
      BY <1>1, <1>4, <1>7, <2>1, <3>2, CapacityAssumption DEF Collects, Started, Fitting, Total
    <3> QED BY <3>1, <3>2
  <2> QED BY <1>1, <1>2, <1>6, <1>7, <2>1, <2>2, CapacityAssumption DEF RxIInv, Total
<1>8. CASE Total < Capacity
  <2> DEFINE c == Copied(b, e)
             next == (peer.sent + peer.got) + count
  <2>1. /\ Fits(b, e) /\ Store(b, e) /\ b.active /\ b.used = peer.sent + peer.got
        /\ b.start = peer.sent /\ b.received = peer.got /\ b.length = peer.length
        /\ \A i \in 0..((peer.sent + peer.got) - 1) : b.bytes[i] = <<peer.msg, i>>
    BY <1>8, FittingChunk
  <2>2. e \in Event /\ e.count = count /\ e.offset = peer.got /\ e.length = peer.length
        /\ e.fin = peer.fin /\ e.data \in [0..(e.count - 1) -> Byte]
        /\ \A k \in 0..(count - 1) : e.data[k] = <<peer.msg, peer.sent + peer.got + k>>
    BY <1>1, ChunkOK DEF Chunk
  <2>3. b \in Buffer
    BY <2>2, EnteredOK DEF RxIInv, Event
  <2> HIDE DEF b, e
  <2>4. /\ c.active /\ c.used = b.used + e.count /\ c.used = next
        /\ c.start = peer.sent /\ c.length = peer.length
        /\ c.received = peer.got + count /\ ~Terminated(c).active
        /\ \A i \in 0..(b.used - 1) : c.bytes[i] = b.bytes[i]
        /\ \A k \in 0..(e.count - 1) : c.bytes[b.used + k] = e.data[k]
    <3>1. e.count \in Nat /\ e.offset \in Nat /\ b.used = b.start + b.received
      BY <1>1, <2>1, <2>2
    <3>2. /\ c.active /\ c.used = b.used + e.count /\ c.start = b.start
          /\ c.length = b.length /\ c.received = b.received + e.count
          /\ ~Terminated(c).active
          /\ \A i \in 0..(b.used - 1) : c.bytes[i] = b.bytes[i]
          /\ \A k \in 0..(e.count - 1) : c.bytes[b.used + k] = e.data[k]
      BY <2>1, <2>2, <2>3, <3>1, CopiedOK
    <3> QED BY <1>1, <2>1, <2>2, <3>2
  <2>5. \A i \in 0..(next - 1) : c.bytes[i] = <<peer.msg, i>>
    <3> SUFFICES ASSUME NEW i \in 0..(next - 1) PROVE c.bytes[i] = <<peer.msg, i>>
      OBVIOUS
    <3>1. CASE i < peer.sent + peer.got
      BY <1>1, <2>1, <2>4, <3>1
    <3>2. CASE i >= peer.sent + peer.got
      <4> DEFINE k == i - (peer.sent + peer.got)
      <4>1. k \in 0..(count - 1) /\ (peer.sent + peer.got) + k = i
        BY <1>1, <3>2
      <4>2. c.bytes[(peer.sent + peer.got) + k] = <<peer.msg, (peer.sent + peer.got) + k>>
        BY <2>1, <2>2, <2>4, <4>1
      <4> QED BY <4>1, <4>2
    <3> QED BY <1>1, <3>1, <3>2
  <2> HIDE DEF c
  <2>6. CASE end /\ peer.fin
    <3>1. rx' = Terminated(c) /\ handed' = {Text(c)}
      BY <2>1, <2>2, <2>6 DEF Store, c
    <3>2. next = Total
      BY <1>1, <2>6 DEF Total
    <3>3. Text(c) = Message(peer.msg, Total)
      BY <2>4, <2>5, <3>2 DEF Text, Message
    <3>4. Collects'
      BY <1>5, <2>4, <2>6, <3>1 DEF Collects, Started
    <3> QED BY <1>2, <1>5, <1>6, <1>8, <2>6, <3>1, <3>3, <3>4 DEF RxIInv
  <2>7. CASE ~(end /\ peer.fin)
    <3>1. rx' = c /\ handed' = {} /\ ~Ends
      BY <1>4, <1>5, <2>1, <2>2, <2>7 DEF Store, c
    <3>2. Collects'
      <4>1. CASE end
        <5>1. next = Total /\ peer'.at = "open"
          BY <1>1, <1>5, <2>7, <4>1 DEF Total
        <5> QED BY <1>1, <1>5, <1>8, <2>4, <2>5, <3>1, <4>1, <5>1
            DEF Collects, Started, Fitting, Arrived
      <4>2. CASE ~end
        <5>1. peer'.got > 0 /\ Total' = Total
          BY <1>1, <1>4, <4>2 DEF Total
        <5> QED BY <1>1, <1>4, <1>8, <2>4, <2>5, <3>1, <4>2, <5>1
            DEF Collects, Started, Fitting, Arrived
      <4> QED BY <4>1, <4>2
    <3> QED BY <1>2, <1>6, <3>1, <3>2 DEF RxIInv
  <2> QED BY <2>6, <2>7
<1> QED BY <1>1, <1>7, <1>8, CapacityAssumption DEF Total

\* A frame of which nothing has arrived yet adds nothing to what was collected.
LEMMA FrameKeeps ==
  ASSUME RxIInv, NEW length \in Nat, NEW fin \in BOOLEAN, StartFrame(length, fin)
  PROVE  RxIInv' /\ handed' = {} /\ ~Ends
<1>1. PICK msg \in Nat, sent \in Nat, new \in BOOLEAN :
        /\ new <=> peer.at = "idle"
        /\ sent = IF new THEN 0 ELSE peer.sent
        /\ ~new => msg = peer.msg
        /\ peer' = [at |-> "frame", msg |-> msg, sent |-> sent, length |-> length, got |-> 0,
                    text |-> new, fin |-> fin]
  <2>1. peer.msg \in Nat /\ peer.sent \in Nat
    BY DEF RxIInv, Peer
  <2>2. CASE peer.at = "idle"
    <3>1. PICK next \in Nat : next = peer.msg + 1
      BY <2>1
    <3>2. peer' = [at |-> "frame", msg |-> next, sent |-> 0, length |-> length, got |-> 0,
                   text |-> TRUE, fin |-> fin]
      BY <2>2, <3>1 DEF StartFrame
    <3>3. 0 \in Nat /\ TRUE \in BOOLEAN
      OBVIOUS
    <3> QED BY <2>2, <3>1, <3>2, <3>3, Zenon
  <2>3. CASE peer.at # "idle"
    BY <2>1, <2>3 DEF StartFrame
  <2> QED BY <2>2, <2>3
<1>2. rx' = rx /\ handed' = {} /\ peer.at \in {"idle", "open"}
  BY DEF StartFrame
<1>3. peer' \in Peer /\ PeerOK' /\ ~Ends /\ HandedOK'
  BY <1>1, <1>2 DEF Peer, PeerOK, Ends, HandedOK
<1>4. Collects'
  <2>1. CASE peer.at = "idle"
    BY <1>1, <1>2, <2>1 DEF RxIInv, Collects, Started
  <2>2. CASE peer.at = "open"
    BY <1>1, <1>2, <2>2 DEF RxIInv, Peer, Collects, Started, Fitting, Arrived
  <2> QED BY <1>2, <2>1, <2>2
<1> QED BY <1>2, <1>3, <1>4 DEF RxIInv, BufferOK

\* A ping in the middle of a message is not taken for a part of it.
LEMMA ControlKeeps ==
  ASSUME RxIInv, NEW length \in Nat, ReceiveControl(length)
  PROVE  RxIInv' /\ handed' = {} /\ ~Ends
<1>1. rx' = rx /\ handed' = {} /\ peer' = peer /\ peer.at # "frame"
  BY DEF ReceiveControl, Accumulate, Control
<1> QED BY <1>1 DEF RxIInv, BufferOK, HandedOK, PeerOK, Collects, Started, Fitting, Arrived,
                    Total, Ends

\* After a loss nothing of the old connection is continued.
LEMMA ConnectionKeeps ==
  ASSUME RxIInv, LoseConnection \/ OpenConnection
  PROVE  RxIInv' /\ handed' = {} /\ ~Ends
<1>1. CASE LoseConnection
  <2>1. peer' \in Peer /\ peer'.at = "closed" /\ handed' = {} /\ (rx' = rx \/ rx' = Cleared)
    BY <1>1 DEF LoseConnection, RxIInv, Peer
  <2> QED BY <2>1, ClearedOK DEF RxIInv, BufferOK, HandedOK, PeerOK, Collects, Ends
<1>2. CASE OpenConnection
  <2>1. peer' \in Peer /\ peer'.at = "idle" /\ peer.at = "closed" /\ handed' = {} /\ rx' = Cleared
    BY <1>2 DEF OpenConnection, RxIInv, Peer
  <2> QED BY <2>1, ClearedOK DEF RxIInv, BufferOK, HandedOK, PeerOK, Collects, Started, Ends
<1> QED BY <1>1, <1>2

\* One step, whichever it is.
LEMMA RxStep ==
  ASSUME RxIInv, RxNext
  PROVE  /\ RxIInv'
         /\ handed' = IF Ends /\ Total < Capacity THEN {Message(peer.msg, Total)} ELSE {}
<1>1. 0..MaxLength \subseteq Nat
  BY MessagesAssumption
<1> QED BY <1>1, ReceiveKeeps, FrameKeeps, ControlKeeps, ConnectionKeeps DEF RxNext

\* The buffer collects exactly the messages that fit, at every point of a message.
THEOREM RxInvariance == RxSpec => []RxIInv
<1>1. RxInit => RxIInv
  BY ClearedOK DEF RxInit, RxIInv, Peer, HandedOK, PeerOK, Collects
<1>2. RxIInv /\ [RxNext]_rxVars => RxIInv'
  <2>1. CASE RxNext
    BY <2>1, RxStep
  <2>2. CASE UNCHANGED rxVars
    BY <2>2 DEF rxVars, RxIInv, BufferOK, HandedOK, PeerOK, Collects, Started, Fitting,
                Arrived, Total
  <2> QED BY <2>1, <2>2
<1> QED BY <1>1, <1>2, PTL DEF RxSpec

\* No message, however long or fragmented, fills the byte that is left for the NUL.
THEOREM BufferInBounds == RxSpec => []RxTypeOK
<1>1. RxIInv => RxTypeOK
  BY DEF RxIInv, RxTypeOK, BufferOK, HandedOK
<1> QED BY <1>1, RxInvariance, PTL

\* Every message that fits is handed over whole, once and at its end, and no other.
THEOREM MessagesAreWhole == RxSpec => DeliversExactly
<1>1. RxIInv /\ [RxNext]_rxVars =>
        [handed' = IF Ends /\ Total < Capacity THEN {Message(peer.msg, Total)} ELSE {}]_rxVars
  BY RxStep
<1> QED BY <1>1, RxInvariance, PTL DEF RxSpec, DeliversExactly
===============================================================================
