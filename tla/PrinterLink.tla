------------------------------ MODULE PrinterLink ------------------------------
(***************************************************************************)
(* The connection to the printer (moonraker_client.c): the worker task     *)
(* that owns the client, and the websocket task that runs its event        *)
(* handler, share the printer state and a few flags.  A printer setup      *)
(* borrows the worker: it probes a candidate, moves the connection to it   *)
(* and saves it only when the new connection has proven itself.            *)
(*                                                                         *)
(* A handler is one step, except the autodetection, whose copy of the      *)
(* printer state is held across others.  Ages count ticks.  The network,   *)
(* Moonraker and Klippy are the environment.                               *)
(***************************************************************************)
EXTENDS Naturals

CONSTANTS
  Printers,
  WsStale,       \* SHU1_MOONRAKER_WS_STALE_MS, in ticks
  PrinterStale,  \* SHU1_PRINTER_STALE_MS, in ticks
  MaxSetups      \* bound on the number of printer setups

ASSUME StaleAssumption == WsStale \in Nat /\ PrinterStale \in Nat /\ WsStale <= PrinterStale
ASSUME SetupsAssumption == MaxSetups \in Nat
ASSUME PrintersAssumption == Printers # {}

VARIABLES
  conf, saved,           \* g_devcfg and its record mk_config in flash
  client,                \* g_client: none, idle (created or stopped) or started
  link,                  \* its socket; dead: the peer is gone, nobody noticed
  asked, notice,         \* requests the peer has not answered, a Klippy event on its way
  pending, autodetect,   \* g_subscribe_pending, g_autodetect_pending
  wsValid,               \* g_setup_ws_valid
  pr,                    \* the printer state
  pc, copy,              \* the worker: where it is, its copy of the printer state
  passed,                \* the worker has run since the last tick
  setup, candidate, old, \* the setup, the printer it tries and the one before
  setups, inhibited,
  reach, klippy,         \* environment: the printer is reachable, Klippy is ready
  heard,                 \* history: age of the last snapshot of the configured printer
  proof                  \* history: what this client has seen of its printer

flags   == <<pending, autodetect, wsValid>>
socket  == <<client, link, asked, notice>>
config  == <<conf, saved, candidate, old>>
setupVars == <<setup, setups, inhibited, config>>
env     == <<reach, klippy>>
history == <<heard, proof>>
vars == <<flags, socket, pr, pc, copy, passed, setupVars, env, history>>

\* Ages of last_update_ms, of which only those that can be fresh are told apart:
\* Never is a timestamp of 0, or one that is too old for ever.
Never == PrinterStale + 1
Age   == 0..Never
\* Ages of last_ws_message_ms; a timestamp of 0 is no old message.
Unheard    == WsStale + 2
MessageAge == 0..Unheard
PrinterState ==
  [connected: BOOLEAN, ready: BOOLEAN, subscribed: BOOLEAN, message: MessageAge, update: Age]

SetupSteps == {"probe", "switch", "verify", "save", "unsave", "rollback", "finish"}

TypeOK ==
  /\ conf \in Printers /\ saved \in Printers /\ candidate \in Printers /\ old \in Printers
  /\ client \in {"none", "idle", "started"} /\ link \in {"down", "opening", "open", "dead"}
  /\ link # "down" => client = "started"
  /\ asked \subseteq {"info", "subscribe", "query"} /\ notice \in {"none", "ready", "down"}
  /\ pending \in BOOLEAN /\ autodetect \in BOOLEAN /\ wsValid \in BOOLEAN
  /\ pr \in PrinterState /\ copy \in PrinterState
  /\ pc \in {"loop", "fetch", "merge"} \cup SetupSteps
  /\ setup \in {"idle", "queued", "running"} /\ (setup = "running" <=> pc \in SetupSteps)
  /\ setups \in 0..MaxSetups
  /\ passed \in BOOLEAN /\ inhibited \in BOOLEAN /\ reach \in BOOLEAN /\ klippy \in BOOLEAN
  /\ heard \in Age /\ proof \subseteq {"subscribed", "valid"}

(***************************************************************************)
(* The printer state                                                       *)
(***************************************************************************)
NoPrinter == [connected |-> FALSE, ready |-> FALSE, subscribed |-> FALSE,
              message |-> Unheard, update |-> Never]

\* mark_online
Online(p)  == [p EXCEPT !.connected = TRUE]
Offline(p) == [p EXCEPT !.connected = FALSE, !.subscribed = FALSE, !.ready = FALSE,
                        !.update = Never]

\* What a status message holds: the complete control subset, or some of it.
Status == {"complete", "partial"}

\* Mutant: any status message proves fresh control data.
ProvesFreshAny(status) == status \in Status

\* Delta notifications are not proof of fresh control data.
ProvesFresh(status) == status = "complete"

\* parse_object_update and the mark_online that follows it.
Updated(p, status) ==
  [p EXCEPT !.connected = TRUE, !.message = 0,
            !.update = IF ProvesFresh(status) THEN 0 ELSE @]

\* printer_data_fresh, on which AUTO relies.
Fresh(p) == p.connected /\ p.update <= PrinterStale

\* esp_websocket_client_is_connected: a dead connection still looks like one.
Connected == link # "down"

(***************************************************************************)
(* Sending: a request on a dead connection is lost.                        *)
(***************************************************************************)
Sent(requests) == IF link \in {"opening", "open"} THEN asked \cup requests ELSE asked

CloseSocket == link' = "down" /\ asked' = {} /\ notice' = "none"

-------------------------------------------------------------------------------
Init ==
  /\ conf \in Printers /\ saved = conf /\ candidate = conf /\ old = conf
  /\ client = "none" /\ link = "down" /\ asked = {} /\ notice = "none"
  /\ pending = FALSE /\ autodetect = FALSE /\ wsValid = FALSE
  /\ pr = NoPrinter /\ copy = NoPrinter /\ pc = "loop" /\ passed = FALSE
  /\ setup = "idle" /\ setups = 0 /\ inhibited = FALSE
  /\ reach = FALSE /\ klippy = FALSE
  /\ heard = Never /\ proof = {}

(***************************************************************************)
(* The websocket task: the library's events and the answers it delivers    *)
(***************************************************************************)

\* The socket is up; its handler has not run yet.
Connect ==
  /\ client = "started" /\ link = "down" /\ reach
  /\ link' = "opening" /\ asked' = {} /\ notice' = "none"
  /\ UNCHANGED <<client, flags, pr, pc, copy, passed, setupVars, env, history>>

OnConnected ==
  /\ link = "opening" /\ link' = "open"
  /\ pending' = FALSE /\ autodetect' = FALSE
  /\ pr' = [Offline(pr) EXCEPT !.connected = TRUE, !.message = 0]
  /\ asked' = asked \cup {"info"}
  /\ UNCHANGED <<client, notice, wsValid, pc, copy, passed, setupVars, env, history>>

OnDisconnected ==
  /\ link = "dead" \/ (link = "open" /\ ~reach)
  /\ CloseSocket
  /\ pending' = FALSE /\ autodetect' = FALSE
  /\ pr' = Offline(pr)
  /\ UNCHANGED <<client, wsValid, pc, copy, passed, setupVars, env, history>>

\* A failed attempt to connect, or an error on the way to a disconnect.
OnError ==
  /\ client = "started" /\ ~reach /\ link # "opening"
  /\ pr' = Offline(pr)
  /\ UNCHANGED <<socket, flags, pc, copy, passed, setupVars, env, history>>

Receiving == link = "open" /\ reach

\* Bookkeeping of what a setup is about.
Witnessed(facts) == proof' = IF setup = "running" THEN proof \cup facts ELSE proof

\* server.info with id 100; the answers to later ones are not looked at.
OnInfo ==
  /\ Receiving /\ "info" \in asked /\ asked' = asked \ {"info"}
  /\ pr' = [pr EXCEPT !.ready = klippy, !.message = 0]
  /\ autodetect' = klippy
  /\ UNCHANGED <<client, link, notice, pending, wsValid, pc, copy, passed, setupVars, env,
                 history>>

\* Ids 101 and 102, with a first status.
OnSubscribed ==
  /\ Receiving /\ "subscribe" \in asked /\ asked' = asked \ {"subscribe"}
  /\ pending' = FALSE
  /\ \E status \in Status :
       /\ pr' = Updated([pr EXCEPT !.subscribed = TRUE], status)
       /\ heard' = IF status = "complete" THEN 0 ELSE heard
  /\ Witnessed({"subscribed"})
  /\ UNCHANGED <<client, link, notice, autodetect, wsValid, pc, copy, passed, setupVars, env>>

\* Id 103.  The state of webhooks is present, but "ready" only when Klippy is.
OnQuery ==
  /\ Receiving /\ "query" \in asked /\ asked' = asked \ {"query"}
  /\ wsValid' = (wsValid \/ klippy)
  /\ pr' = Updated(pr, "complete") /\ heard' = 0
  /\ Witnessed(IF klippy THEN {"valid"} ELSE {})
  /\ UNCHANGED <<client, link, notice, pending, autodetect, pc, copy, passed, setupVars, env>>

\* Without Klippy, Moonraker answers requests for objects with an error, which
\* no handler looks for.
OnRefused ==
  /\ Receiving /\ ~klippy
  /\ \E request \in asked \cap {"subscribe", "query"} : asked' = asked \ {request}
  /\ UNCHANGED <<client, link, notice, flags, pr, pc, copy, passed, setupVars, env, history>>

\* notify_status_update
OnStatus ==
  /\ Receiving /\ klippy
  /\ \E status \in Status :
       /\ pr' = Updated(pr, status)
       /\ heard' = IF status = "complete" THEN 0 ELSE heard
  /\ UNCHANGED <<socket, flags, pc, copy, passed, setupVars, env, proof>>

\* notify_proc_stat_update: the connection lives.
OnProcStat ==
  /\ Receiving
  /\ pr' = [Online(pr) EXCEPT !.message = 0]
  /\ UNCHANGED <<socket, flags, pc, copy, passed, setupVars, env, history>>

OnKlippyReady ==
  /\ Receiving /\ notice = "ready" /\ notice' = "none"
  /\ pr' = [pr EXCEPT !.ready = TRUE, !.message = 0]
  /\ autodetect' = TRUE
  /\ UNCHANGED <<client, link, asked, pending, wsValid, pc, copy, passed, setupVars, env,
                 history>>

\* notify_klippy_shutdown or notify_klippy_disconnected
OnKlippyDown ==
  /\ Receiving /\ notice = "down" /\ notice' = "none"
  /\ pr' = [pr EXCEPT !.ready = FALSE, !.subscribed = FALSE]
  /\ pending' = FALSE /\ autodetect' = FALSE
  /\ UNCHANGED <<client, link, asked, wsValid, pc, copy, passed, setupVars, env, history>>

WebsocketTask ==
  \/ Connect \/ OnConnected \/ OnDisconnected \/ OnError
  \/ OnInfo \/ OnSubscribed \/ OnQuery \/ OnRefused \/ OnStatus
  \/ OnProcStat \/ OnKlippyReady \/ OnKlippyDown

(***************************************************************************)
(* The worker: moonraker_task                                              *)
(***************************************************************************)
Looping == pc = "loop" /\ setup # "queued"

CreateClient ==
  /\ Looping /\ client = "none" /\ client' = "idle" /\ passed' = TRUE
  /\ UNCHANGED <<link, asked, notice, flags, pr, pc, copy, setupVars, env, history>>

StartClient ==
  /\ Looping /\ client = "idle" /\ client' = "started" /\ passed' = TRUE
  /\ UNCHANGED <<link, asked, notice, flags, pr, pc, copy, setupVars, env, history>>

\* The client is started and goes on trying by itself.
WaitForSocket ==
  /\ Looping /\ client = "started" /\ ~Connected /\ passed' = TRUE
  /\ UNCHANGED <<socket, flags, pr, pc, copy, setupVars, env, history>>

\* Mutant: a connection that looks open is never given up.
SilentNever == pr.message > Unheard

\* Technically connected, but no useful message for the stale window.
Silent == pr.message = WsStale + 1

StopSilent ==
  /\ Looping /\ Connected /\ Silent
  /\ client' = "idle" /\ CloseSocket
  /\ pr' = Offline(pr) /\ passed' = TRUE
  /\ UNCHANGED <<flags, pc, copy, setupVars, env, history>>

\* One pass over a connection that talks: subscribe if nobody has, and ask for
\* the complete control subset.  A due autodetection waits for its retry time.
Pass ==
  /\ Looping /\ Connected /\ ~Silent
  /\ LET subscribe == ~pr.subscribed /\ ~pending /\ ~autodetect IN
       /\ asked' = Sent({"query"} \cup IF subscribe THEN {"subscribe"} ELSE {})
       /\ pending' = (pending \/ subscribe)
  /\ passed' = TRUE
  /\ UNCHANGED <<client, link, notice, autodetect, wsValid, pr, pc, copy, setupVars, env,
                 history>>

Autodetect ==
  /\ Looping /\ Connected /\ ~Silent /\ autodetect /\ ~pending
  /\ pc' = "fetch" /\ passed' = TRUE
  /\ UNCHANGED <<socket, flags, pr, copy, setupVars, env, history>>

\* No object list: the basic subscription, and the control query of the pass.
FetchFails ==
  /\ pc = "fetch" /\ pc' = "loop"
  /\ asked' = Sent({"query"} \cup IF pending THEN {} ELSE {"subscribe"})
  /\ pending' = TRUE
  /\ UNCHANGED <<client, link, notice, autodetect, wsValid, pr, copy, passed, setupVars, env,
                 history>>

\* autodetect_from_object_array reads the printer state ...
FetchDone ==
  /\ pc = "fetch" /\ reach /\ pc' = "merge" /\ copy' = pr
  /\ UNCHANGED <<socket, flags, pr, passed, setupVars, env, history>>

\* ... and writes all of it back with the objects it has found.
Merge ==
  /\ pc = "merge" /\ pc' = "loop"
  /\ pr' = copy /\ copy' = NoPrinter
  /\ autodetect' = FALSE /\ pending' = TRUE
  /\ asked' = Sent({"query", "subscribe"})
  /\ UNCHANGED <<client, link, notice, wsValid, passed, setupVars, env, history>>

(***************************************************************************)
(* A printer setup: apply_setup                                            *)
(***************************************************************************)

\* Host, port and key: one that equals the present configuration changes nothing.
RequestSetup ==
  /\ setup = "idle" /\ setups < MaxSetups
  /\ setup' = "queued" /\ setups' = setups + 1
  /\ candidate' \in Printers \ {conf}
  /\ UNCHANGED <<flags, socket, pr, pc, copy, passed, conf, saved, old, inhibited, env, history>>

TakeSetup ==
  /\ pc = "loop" /\ setup = "queued" /\ setup' = "running" /\ pc' = "probe"
  /\ old' = conf
  /\ UNCHANGED <<flags, socket, pr, copy, passed, conf, saved, candidate, setups, inhibited,
                 env, history>>

\* Two HTTP requests, before anything of the old connection is touched.
Probe ==
  /\ pc = "probe"
  /\ \/ reach /\ klippy /\ pc' = "switch"
     \/ pc' = "finish"
  /\ UNCHANGED <<flags, socket, pr, copy, passed, setupVars, env, history>>

\* clear_printer_context; nothing heard so far was from the printer to come.
ClearedState == pr' = NoPrinter /\ heard' = Never

\* stop_client waits for the websocket task, destroys the client and clears what
\* is known; then the configuration is p and its client is made.
MoveTo(p) ==
  /\ conf' = p /\ CloseSocket
  /\ ClearedState
  /\ pending' = FALSE /\ autodetect' = FALSE /\ wsValid' = FALSE
  /\ proof' = {}

\* The client could not be destroyed; it is stopped.
StopFails ==
  /\ client' = (IF client = "none" THEN "none" ELSE "idle") /\ CloseSocket
  /\ client # "none" /\ inhibited' = TRUE
  /\ UNCHANGED <<flags, pr, conf, history>>

Switch ==
  /\ pc = "switch"
  /\ \/ /\ MoveTo(candidate) /\ UNCHANGED inhibited
        /\ \/ client' = "started" /\ pc' = "verify"
           \/ client' \in {"none", "idle"} /\ pc' = "rollback"
     \/ StopFails /\ pc' = "finish"
  /\ UNCHANGED <<copy, passed, saved, candidate, old, setup, setups, env>>

VerifyPass ==
  /\ pc = "verify" /\ Connected
  /\ LET subscribe == pr.ready /\ ~pr.subscribed /\ ~pending IN
       /\ asked' = Sent({"query"} \cup IF subscribe THEN {"subscribe"} ELSE {})
       /\ pending' = (pending \/ subscribe)
  /\ UNCHANGED <<client, link, notice, autodetect, wsValid, pr, pc, copy, passed, setupVars,
                 env, history>>

\* Mutant: the state of the printer is believed, whatever the query has shown.
ProvenByState == Connected /\ pr.ready /\ pr.subscribed /\ pr.update = 0

\* Subscribed, and fresh complete data on the new socket.
Proven == Connected /\ pr.ready /\ pr.subscribed /\ wsValid /\ pr.update = 0

\* The printer is proven, or 20 s have passed.
VerifyEnds ==
  /\ pc = "verify"
  /\ pc' = IF Proven THEN "save" ELSE "rollback"
  /\ UNCHANGED <<flags, socket, pr, copy, passed, setupVars, env, history>>

\* save_moonraker: a write that fails may have changed the flash.
Save ==
  /\ pc = "save"
  /\ \/ saved' = candidate /\ pc' = "finish"
     \/ saved' \in {saved, candidate} /\ pc' = "unsave"
  /\ UNCHANGED <<flags, socket, pr, copy, passed, conf, candidate, old, setup, setups,
                 inhibited, env, history>>

\* Mutant: a failed save is left as it is.
RestoredIgnoring == saved' = saved /\ UNCHANGED inhibited

\* Write the old record again, or inhibit.
Restored ==
  \/ saved' = old /\ UNCHANGED inhibited
  \/ saved' \in {saved, old} /\ inhibited' = TRUE

Unsave ==
  /\ pc = "unsave" /\ pc' = "rollback"
  /\ Restored
  /\ UNCHANGED <<flags, socket, pr, copy, passed, conf, candidate, old, setup, setups, env,
                 history>>

Rollback ==
  /\ pc = "rollback" /\ pc' = "finish"
  /\ \/ MoveTo(old) /\ client' \in {"none", "idle"} /\ UNCHANGED inhibited
     \/ StopFails
  /\ UNCHANGED <<copy, passed, saved, candidate, old, setup, setups, env>>

Finish ==
  /\ pc = "finish" /\ pc' = "loop" /\ setup' = "idle"
  /\ candidate' = conf /\ old' = conf /\ proof' = {}  \* the request is wiped
  /\ UNCHANGED <<flags, socket, pr, copy, passed, conf, saved, setups, inhibited, env, heard>>

MoonrakerTask ==
  \/ CreateClient \/ StartClient \/ WaitForSocket \/ StopSilent \/ Pass \/ Autodetect
  \/ FetchFails \/ FetchDone \/ Merge
  \/ TakeSetup \/ Probe \/ Switch \/ VerifyPass \/ VerifyEnds \/ Save \/ Unsave \/ Rollback
  \/ Finish

(***************************************************************************)
(* Environment                                                             *)
(***************************************************************************)
NetworkChanges ==
  /\ reach' = ~reach
  /\ UNCHANGED <<flags, socket, pr, pc, copy, passed, setupVars, klippy, history>>

\* The peer forgets the connection while it cannot be reached.
PeerForgets ==
  /\ link = "open" /\ ~reach /\ link' = "dead" /\ asked' = {} /\ notice' = "none"
  /\ UNCHANGED <<client, flags, pr, pc, copy, passed, setupVars, env, history>>

\* Klippy starts or stops, one event at a time; Moonraker tells its clients.
KlippyChanges ==
  /\ notice = "none" /\ klippy' = ~klippy
  /\ notice' = IF link \notin {"opening", "open"} THEN "none"
               ELSE IF klippy THEN "down" ELSE "ready"
  /\ UNCHANGED <<client, link, asked, flags, pr, pc, copy, passed, setupVars, reach, history>>

Older(a) == IF a = Never THEN a ELSE a + 1
OlderState(p) == [p EXCEPT !.message = IF @ > WsStale THEN @ ELSE @ + 1, !.update = Older(@)]

\* A reachable printer answers within a tick, and the worker runs once in each,
\* unless a setup keeps it; the HTTP request of an autodetection is shorter.
Tick ==
  /\ (pc = "loop" /\ passed) \/ setup = "running"
  /\ Receiving => asked = {} /\ notice = "none"
  /\ link # "opening"
  /\ pr' = OlderState(pr) /\ heard' = Older(heard)
  /\ passed' = FALSE
  /\ UNCHANGED <<flags, socket, pc, copy, setupVars, env, proof>>

Next == WebsocketTask \/ MoonrakerTask \/ RequestSetup \/ NetworkChanges \/ PeerForgets
        \/ KlippyChanges \/ Tick
Spec == Init /\ [][Next]_vars

\* The tasks run, the retry time of the autodetection comes, time passes, and a
\* reachable printer accepts connections and answers.  OnConnected follows its
\* Connect within the same task, while the worker, which could stop the client
\* in between, sleeps.
Fairness ==
  /\ WF_vars(MoonrakerTask) /\ WF_vars(Autodetect) /\ WF_vars(VerifyEnds)
  /\ WF_vars(Tick)
  /\ WF_vars(Connect) /\ SF_vars(OnConnected)
  /\ WF_vars(OnInfo) /\ WF_vars(OnSubscribed) /\ WF_vars(OnQuery)
  /\ WF_vars(OnKlippyReady \/ OnKlippyDown)
FairSpec == Spec /\ Fairness

(***************************************************************************)
(* Properties                                                              *)
(***************************************************************************)

\* Printer data that AUTO takes for fresh was reported completely by the printer
\* that is configured now, and no earlier than the state says: no answer of an
\* older connection, partial message or written-back copy makes it younger.
FreshIsRecent == Fresh(pr) => heard <= pr.update

\* Between setups the running configuration is the durable one, or heating is
\* inhibited: a failed setup restores both or neither goes unnoticed.
ConfigIsDurable == setup # "running" => conf = saved \/ inhibited

\* Only a printer that was subscribed to and gave valid complete data over the
\* new client gets into flash; anything else that is written is the old record.
SavedIsProven ==
  [][saved' # saved => \/ saved' = candidate /\ proof = {"subscribed", "valid"}
                       \/ saved' = old /\ pc = "unsave"]_vars

\* The printer stays reachable with Klippy ready, and nobody sets up another.
Stable == reach /\ klippy /\ setup = "idle"

\* Fresh data returns after any outage, a connection that died unnoticed included.
DataReturns == <>[]Stable => []<>Fresh(pr)
===============================================================================
