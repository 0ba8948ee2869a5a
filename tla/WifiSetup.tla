------------------------------- MODULE WifiSetup -------------------------------
(***************************************************************************)
(* The station of wifi_sta.c.  A setup stops Wi-Fi, tries a candidate      *)
(* network for fifteen seconds and either saves it or returns to the one   *)
(* before; the event handler and a second worker keep the network of the   *)
(* moment connected.  Storage composes this with the other users of the    *)
(* flash and of the maintenance reservation.                               *)
(*                                                                         *)
(* The driver, its events and the access points are the environment.  The  *)
(* task of the event handler precedes the workers: an event that is out is *)
(* handled before a worker goes on.  A network stands for its name and its *)
(* password.                                                               *)
(***************************************************************************)
EXTENDS Naturals

CONSTANTS
  Networks,
  NoNetwork,   \* an empty name
  MaxRetries   \* the 10 of event_handler

ASSUME NetworksAssumption == NoNetwork \notin Networks
ASSUME RetriesAssumption == MaxRetries \in Nat

VARIABLES
  record, legacy,   \* flash: wifi_config, and the key ssid of older firmware
  cfg,              \* the driver's configuration, in RAM
  sta, on,          \* the driver: its state, the network it tries or is linked to
  late,             \* an address event that STA_STOP has overtaken
  bits,             \* the event group, without STOPPED, which only stop_wifi uses
  testing, busy, connected, retries,
  pc, err,          \* setup_worker: where it is, a call has failed
  request, previous,\* the candidate, the configuration before it
  renewing,         \* reconnect_worker: between its checks and its connect
  maint,            \* the maintenance reservation
  steady,           \* environment: the device is left alone, networks stay
  got,              \* history: networks that gave an address since this setup began
  flaw              \* history: a failed call has left cfg or the station other than the flash says

flash   == <<record, legacy>>
driver  == <<cfg, sta, on, late>>
flags   == <<bits, testing, connected, retries>>
worker  == <<pc, err, request, previous>>
wifiVars == <<flash, driver, flags, busy, worker, renewing, got, flaw>>

Network == Networks \cup {NoNetwork}
Unread  == "unread"   \* esp_wifi_get_config has failed
Steps   == {"loop", "scan", "begin", "stop", "clear", "start", "connect", "wait", "save",
            "restore", "reconfigure", "restart", "accept", "finish"}

WifiTypeOK ==
  /\ record \in Network /\ legacy \in Network /\ cfg \in Network
  /\ sta \in {"stopped", "idle", "trying", "linked", "up"} /\ on \in Network
  /\ late \in BOOLEAN /\ bits \subseteq {"CONNECTED", "FAILED"}
  /\ testing \in BOOLEAN /\ connected \in BOOLEAN
  /\ retries \in 0..MaxRetries /\ pc \in Steps /\ err \in BOOLEAN
  /\ busy = (pc # "loop") /\ (busy => maint)
  /\ testing => pc \in Steps \ {"loop", "scan", "begin", "restart", "finish"}
  /\ request \in Network /\ previous \in Network \cup {Unread}
  /\ renewing \in BOOLEAN /\ steady \in BOOLEAN
  /\ got \subseteq Networks /\ flaw \in BOOLEAN

\* shu1_settings_store_load_device_config: what a boot makes the configuration.
Stored == IF record # NoNetwork THEN record ELSE legacy

\* esp_wifi_connect refuses an empty name.
Connecting(n) == IF n = NoNetwork THEN "idle" ELSE "trying"

\* shu1_wifi_start, with the connect of its STA_START.
WifiBoot(n) ==
  /\ cfg' = n /\ sta' = Connecting(n) /\ on' = n /\ late' = FALSE
  /\ bits' = {} /\ testing' = FALSE /\ connected' = FALSE /\ retries' = 0
  /\ busy' = FALSE /\ pc' = "loop" /\ err' = FALSE
  /\ request' = NoNetwork /\ previous' = NoNetwork
  /\ renewing' = FALSE /\ got' = {} /\ flaw' = FALSE

WifiInit ==
  /\ record \in Network /\ legacy \in Network
  /\ cfg = Stored /\ sta = Connecting(Stored) /\ on = Stored /\ late = FALSE
  /\ bits = {} /\ testing = FALSE /\ connected = FALSE /\ retries = 0
  /\ busy = FALSE /\ pc = "loop" /\ err = FALSE
  /\ request = NoNetwork /\ previous = NoNetwork
  /\ renewing = FALSE /\ got = {} /\ flaw = FALSE

(***************************************************************************)
(* The driver and the event handler                                        *)
(***************************************************************************)
Join ==
  /\ sta = "trying" /\ sta' = "linked"
  /\ UNCHANGED <<flash, cfg, on, late, flags, busy, worker, renewing, maint, got, flaw>>

OnAddress ==
  /\ connected' = TRUE /\ bits' = bits \cup {"CONNECTED"} /\ retries' = 0
  /\ UNCHANGED <<flash, cfg, on, testing, busy, worker, renewing, maint,
                 flaw>>

GetAddress ==
  /\ sta = "linked" /\ sta' = "up"
  /\ got' = got \cup {on}
  /\ OnAddress /\ UNCHANGED late

LateAddress == late /\ late' = FALSE /\ OnAddress /\ UNCHANGED <<sta, got>>

\* An attempt fails, or a network goes away; outside a setup the handler retries.
OnDisconnected ==
  /\ sta = "trying" \/ (sta \in {"linked", "up"} /\ ~steady)
  /\ connected' = FALSE
  /\ LET retry == ~testing /\ retries < MaxRetries IN
       /\ bits' = (bits \ {"CONNECTED"}) \cup IF retry THEN {} ELSE {"FAILED"}
       /\ retries' = IF retry THEN retries + 1 ELSE retries
       /\ sta' = IF retry THEN Connecting(cfg) ELSE "idle"
       /\ on' = IF retry THEN cfg ELSE on
  /\ UNCHANGED <<flash, cfg, late, testing, busy, worker, renewing, maint, got, flaw>>

\* esp_wifi_connect
CanConnect == sta = "idle" /\ cfg # NoNetwork
ConnectCall == sta' = "trying" /\ on' = cfg

\* STA_DISCONNECTED, where there was a connection or an attempt, and STA_STOP.
\* An address that has just been assigned may be reported after them.
Stopping ==
  /\ sta' = "stopped"
  /\ connected' = FALSE
  /\ bits' = IF sta \in {"stopped", "idle"} THEN bits
             ELSE (bits \ {"CONNECTED"}) \cup {"FAILED"}
  /\ late' \in {FALSE, sta = "linked"}

(***************************************************************************)
(* reconnect_worker                                                        *)
(***************************************************************************)

\* Mutant: a network whose retries are used up is left alone.
RenewalDueOnce == ~busy /\ ~testing /\ ~connected /\ retries < MaxRetries

RenewalDue == ~busy /\ ~testing /\ ~connected

RenewCheck ==
  /\ ~renewing /\ RenewalDue /\ renewing' = TRUE
  /\ UNCHANGED <<flash, driver, flags, busy, worker, maint, got, flaw>>

RenewConnect ==
  /\ renewing /\ renewing' = FALSE
  /\ IF CanConnect THEN ConnectCall ELSE UNCHANGED <<sta, on>>
  /\ UNCHANGED <<flash, cfg, late, flags, busy, worker, maint, got, flaw>>

(***************************************************************************)
(* A setup: shu1_wifi_setup_request and setup_worker                       *)
(***************************************************************************)
\* Mutant: only the setup's own flag is looked at.
SetupAllowedUnlessBusy == ~busy

\* No reservation; what job, outputs and temperatures must be is in HeatSession,
\* here a reservation that is allowed may also be refused.
SetupAllowed == ~maint

RequestSetup ==
  /\ ~steady /\ ~busy /\ SetupAllowed
  /\ busy' = TRUE /\ maint' = TRUE
  /\ \/ pc' = "scan" /\ UNCHANGED request
     \/ pc' = "begin" /\ request' \in Networks
  /\ UNCHANGED <<flash, driver, flags, err, previous, renewing, got, flaw>>

At(step) == pc = step /\ ~late
GoTo(step) == pc' = step /\ UNCHANGED <<busy, renewing, maint>>

Scan ==
  /\ At("scan") /\ GoTo("finish")
  /\ UNCHANGED <<flash, driver, flags, err, request, previous, got, flaw>>

Begin ==
  /\ At("begin") /\ GoTo("stop")
  /\ previous' \in {cfg, Unread}
  /\ testing' = TRUE /\ err' = FALSE /\ got' = {}
  /\ UNCHANGED <<flash, driver, bits, connected, retries, request, flaw>>

StopPrevious ==
  /\ At("stop") /\ GoTo("clear")
  /\ \/ Stopping /\ err' \in BOOLEAN  \* stopped, or not within two seconds
     \/ err' = TRUE /\ UNCHANGED <<sta, connected, bits, late>>
  /\ UNCHANGED <<flash, cfg, on, testing, retries, request, previous, got, flaw>>

\* Mutant: the bits are left as the stop has set them.
ClearedNothing == bits' = bits

\* What the previous network still reported must not count for the candidate.
Cleared == bits' = {}

Clear ==
  /\ At("clear") /\ Cleared
  /\ GoTo(IF err THEN "restore" ELSE "start")
  /\ UNCHANGED <<flash, driver, testing, connected, retries, err, request, previous, got, flaw>>

\* Set and start; during a setup STA_START does not connect.
StartCandidate ==
  /\ At("start")
  /\ \/ GoTo("connect") /\ cfg' = request /\ sta' = "idle"
     \/ GoTo("restore") /\ cfg' \in {cfg, request} /\ UNCHANGED sta
  /\ UNCHANGED <<flash, on, late, flags, err, request, previous, got, flaw>>

ConnectCandidate ==
  /\ At("connect")
  /\ \/ GoTo("wait") /\ CanConnect /\ ConnectCall
     \/ GoTo("restore") /\ UNCHANGED <<sta, on>>
  /\ UNCHANGED <<flash, cfg, late, flags, err, request, previous, got, flaw>>

\* The candidate has an address and has not lost it again.
Succeeded == "CONNECTED" \in bits /\ connected

\* A bit is set, or the time is up.
Wait ==
  /\ At("wait")
  /\ GoTo(IF Succeeded THEN "save" ELSE "restore")
  /\ UNCHANGED <<flash, driver, flags, err, request, previous, got, flaw>>

\* One record; a write that fails may have changed it, and then contradicts the
\* network that is restored.  Without the other settings nothing is written.
SaveCandidate ==
  /\ At("save")
  /\ \/ GoTo("accept") /\ record' = request /\ UNCHANGED flaw
     \/ GoTo("restore") /\ record' \in {record, request}
        /\ flaw' = (flaw \/ record' # record)
  /\ UNCHANGED <<legacy, driver, flags, err, request, previous, got>>

Accept ==
  /\ At("accept") /\ GoTo("finish") /\ testing' = FALSE /\ flaw' = FALSE
  /\ UNCHANGED <<flash, driver, bits, connected, retries, err, request, previous, got>>

Restore ==
  /\ At("restore")
  /\ \/ /\ previous = Unread /\ GoTo("finish") /\ testing' = FALSE /\ flaw' = TRUE
        /\ UNCHANGED <<sta, connected, bits, late>>
     \/ /\ previous # Unread /\ GoTo("reconfigure") /\ UNCHANGED testing
        /\ \/ Stopping /\ UNCHANGED flaw
           \/ flaw' = TRUE /\ UNCHANGED <<sta, connected, bits, late>>
  /\ UNCHANGED <<flash, cfg, on, retries, err, request, previous, got>>

\* The previous network comes back, unless the driver refuses it.
RestoredConfig ==
  \/ cfg' = previous /\ UNCHANGED flaw
  \/ cfg' = cfg /\ flaw' = TRUE

Reconfigure ==
  /\ At("reconfigure") /\ GoTo("restart")
  /\ RestoredConfig
  /\ bits' = {} /\ retries' = 0 /\ testing' = FALSE
  /\ UNCHANGED <<flash, sta, on, late, connected, err, request, previous, got>>

\* STA_START connects now; a station that could not be stopped stays as it is.
RestartStation ==
  /\ At("restart") /\ GoTo("finish")
  /\ \/ /\ sta = "stopped"
        /\ sta' = Connecting(cfg) /\ on' = cfg /\ UNCHANGED flaw
     \/ flaw' = TRUE /\ UNCHANGED <<sta, on>>
  /\ UNCHANGED <<flash, cfg, late, flags, err, request, previous, got>>

\* The request is wiped, the reservation given back.
Finish ==
  /\ At("finish") /\ pc' = "loop" /\ busy' = FALSE /\ maint' = FALSE
  /\ request' = NoNetwork /\ previous' = NoNetwork /\ err' = FALSE /\ got' = {}
  /\ UNCHANGED <<flash, driver, flags, renewing, flaw>>

SetupWorker ==
  \/ Scan \/ Begin \/ StopPrevious \/ Clear \/ StartCandidate \/ ConnectCandidate \/ Wait
  \/ SaveCandidate \/ Accept \/ Restore \/ Reconfigure \/ RestartStation \/ Finish
ReconnectWorker == RenewCheck \/ RenewConnect
WifiDriver == Join \/ GetAddress \/ LateAddress \/ OnDisconnected
WifiNext == RequestSetup \/ SetupWorker \/ ReconnectWorker \/ WifiDriver
===============================================================================
