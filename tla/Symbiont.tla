------------------------------- MODULE Symbiont -------------------------------
(***************************************************************************)
(* Ventilation by the fans of the printer (symbiont_engine.h, polled by    *)
(* symbiont_poll of moonraker_client.c): an auxiliary fan, and the exhaust *)
(* of a top cover that may be taken off.  The worker queries, writes and   *)
(* reads back over a connection on which the printer answers in order but  *)
(* as late as it likes, and notifies of changes that it or a slicer made.  *)
(*                                                                         *)
(* Request ids are unique: a message is live as long as its id is the one  *)
(* the engine waits for, and of a reply that is not nothing else matters.  *)
(* Speeds stand for ranges wider than the tolerance.                       *)
(***************************************************************************)
EXTENDS Naturals, Sequences

CONSTANTS
  Speeds,      \* of a fan, and of the demand
  MaxInFlight  \* bound on the messages under way, at which nobody starts another

ASSUME SpeedsAssumption == Speeds # {}
ASSUME FlightAssumption == MaxInFlight \in Nat \ {0}

Fans == {"aux", "top"}

VARIABLES
  s,           \* g_symbiont, without its status text
  old,         \* two seconds have passed since sent_ms
  waiting,     \* now < due_ms
  act, demand, \* symbiont_poll's active, rt.symbiont_fan_percent
  conn, known, \* connected, ready and subscribed; g_symbiont_aux
  wire, reply, \* requests and messages under way
  fan, cover, fit,  \* the printer: speeds, top cover present, ready without alarm
  quiet,       \* environment: nothing changes any more but fans outside this set
  basis        \* history: fans a still valid observation showed to differ

engine  == <<s, old, waiting>>
job     == <<act, demand>>
link    == <<conn, known>>
printer == <<fan, cover, fit>>
vars == <<engine, job, link, wire, reply, printer, quiet, basis>>

\* valid is history: the observation still describes the printer.
Query  == [kind: {"query"}, live: BOOLEAN, valid: BOOLEAN]
Write  == [kind: Fans, speed: Speeds, live: BOOLEAN]
Status == [kind: {"status"}, live: {TRUE}, valid: BOOLEAN,
           fan: [Fans -> Speeds], cover: BOOLEAN, fit: BOOLEAN]
Result == [kind: {"done", "error"}, live: BOOLEAN]
Note   == [kind |-> "note", live |-> FALSE]
Late   == [kind |-> "status", live |-> FALSE]
Request == Query \cup Write
Message == Status \cup Result \cup {Note, Late}

TypeOK ==
  /\ s \in [active: BOOLEAN, pending: BOOLEAN, phase: {"query"} \cup Fans, demand: Speeds,
            last: {"none"} \cup Fans, required: BOOLEAN]
  /\ (s.pending \/ s.phase # "query") => s.active
  /\ old \in BOOLEAN /\ waiting \in BOOLEAN /\ act \in BOOLEAN /\ demand \in Speeds
  /\ conn \in BOOLEAN /\ known \in BOOLEAN
  /\ wire \in Seq(Request) /\ reply \in Seq(Message)
  /\ fan \in [Fans -> Speeds] /\ cover \in BOOLEAN /\ fit \in BOOLEAN
  /\ quiet \subseteq Fans /\ basis \subseteq Fans

Calm == quiet # {}

Room == Len(wire) + Len(reply) < MaxInFlight

\* No message under way has the id that is waited for.
DeadRequest(m) == IF m.kind = "query" THEN [m EXCEPT !.live = FALSE, !.valid = FALSE]
                  ELSE [m EXCEPT !.live = FALSE]
DeadReply(m)   == IF m.kind = "status" THEN Late ELSE [m EXCEPT !.live = FALSE]
DeadRequests   == [i \in DOMAIN wire |-> DeadRequest(wire[i])]
DeadReplies    == [i \in DOMAIN reply |-> DeadReply(reply[i])]

\* History: what is under way says nothing of the printer any more.
Outdated(msgs) ==
  [i \in DOMAIN msgs |->
     IF msgs[i].kind = "query" \/ (msgs[i].kind = "status" /\ msgs[i].live)
     THEN [msgs[i] EXCEPT !.valid = FALSE] ELSE msgs[i]]

Init ==
  /\ demand \in Speeds
  /\ s = [active |-> FALSE, pending |-> FALSE, phase |-> "query", demand |-> demand,
          last |-> "none", required |-> FALSE]
  /\ old = FALSE /\ waiting = FALSE /\ act = FALSE
  /\ conn = FALSE /\ known = FALSE /\ wire = <<>> /\ reply = <<>>
  /\ fan \in [Fans -> Speeds] /\ cover = TRUE /\ fit = TRUE
  /\ quiet = {} /\ basis = {}

(***************************************************************************)
(* The worker: shu1_symbiont_next                                          *)
(***************************************************************************)
Available == act /\ conn /\ known

Disengaged ==
  [s EXCEPT !.active = FALSE, !.pending = FALSE, !.phase = "query", !.required = FALSE]

Disengage ==
  /\ ~Available
  /\ s' = Disengaged
  /\ waiting' = FALSE /\ old' = FALSE /\ basis' = {}
  /\ wire' = DeadRequests /\ reply' = DeadReplies
  /\ UNCHANGED <<job, link, printer, quiet>>

\* An activation, or a changed demand, starts again with a query.
Restarted == ~s.active \/ s.demand # demand

TimedOut == s.pending /\ old

GiveUp ==
  /\ Available /\ ~Restarted /\ TimedOut
  /\ s' = [s EXCEPT !.pending = FALSE, !.phase = "query"]
  /\ waiting' = TRUE /\ old' = FALSE /\ basis' = {}
  /\ wire' = DeadRequests /\ reply' = DeadReplies
  /\ UNCHANGED <<job, link, printer, quiet>>

\* Mutant: an observation authorises a write however late the worker comes.
DuePhaseStale == IF Restarted THEN "query" ELSE s.phase

\* A stale observation must not authorise a write after a stalled worker.
DuePhase == IF Restarted \/ old THEN "query" ELSE s.phase

\* The next request; it is lost when the socket does not take it.
Ask(kind) ==
  /\ Available /\ (Restarted \/ (~s.pending /\ ~waiting))
  /\ kind = DuePhase /\ Room
  /\ s' = [s EXCEPT !.active = TRUE, !.demand = demand, !.phase = kind, !.pending = TRUE,
                    !.last = IF kind = "query" THEN @ ELSE kind]
  /\ old' = FALSE /\ waiting' = FALSE
  /\ wire' \in {Append(DeadRequests,
                     IF kind = "query" THEN [kind |-> kind, live |-> TRUE, valid |-> TRUE]
                     ELSE [kind |-> kind, speed |-> demand, live |-> TRUE])}
                \cup (IF Calm THEN {} ELSE {DeadRequests})
  /\ reply' = DeadReplies
  /\ basis' = {}
  /\ UNCHANGED <<job, link, printer, quiet>>

\* The autodetection finds the fans again.
Discover ==
  /\ conn /\ ~known /\ known' = TRUE
  /\ UNCHANGED <<engine, job, conn, wire, reply, printer, quiet, basis>>

Time ==
  \/ /\ waiting /\ waiting' = FALSE
     /\ UNCHANGED <<s, old, job, link, wire, reply, printer, quiet, basis>>
  \/ \* In the end a connection is fast: only a request that was lost gets old.
     /\ ~old /\ (s.pending \/ s.phase # "query")
     /\ Calm => s.pending /\ wire = <<>> /\ reply = <<>>
     /\ old' = TRUE
     /\ basis' = {} /\ wire' = Outdated(wire) /\ reply' = Outdated(reply)
     /\ UNCHANGED <<s, waiting, job, link, printer, quiet>>

(***************************************************************************)
(* The websocket task: shu1_symbiont_notify and shu1_symbiont_response     *)
(***************************************************************************)
Received(kind) == reply # <<>> /\ Head(reply).kind = kind

Answers(m) == s.active /\ s.pending /\ m.live

\* Partial notifications are hints: they only ask for a new observation.
OnNote ==
  /\ Received("note")
  /\ IF s.active
     THEN /\ s' = [s EXCEPT !.pending = FALSE, !.phase = "query"]
          /\ waiting' = FALSE /\ old' = FALSE
     ELSE UNCHANGED engine
  /\ basis' = {} /\ wire' = DeadRequests /\ reply' = Tail(DeadReplies)
  /\ UNCHANGED <<job, link, printer, quiet>>

OnIgnored ==
  /\ reply # <<>> /\ Head(reply).kind # "note" /\ ~Answers(Head(reply))
  /\ reply' = Tail(reply)
  /\ UNCHANGED <<engine, job, link, wire, printer, quiet, basis>>

\* The answer to a write: read back before anything else.
OnDone ==
  /\ Received("done") /\ Answers(Head(reply)) /\ reply' = Tail(reply)
  /\ s' = [s EXCEPT !.pending = FALSE, !.phase = "query"]
  /\ waiting' = FALSE /\ old' = FALSE
  /\ UNCHANGED <<job, link, wire, printer, quiet, basis>>

OnFailed ==
  /\ Received("error") /\ Answers(Head(reply)) /\ reply' = Tail(reply)
  /\ s' = [s EXCEPT !.pending = FALSE, !.phase = "query"]
  /\ waiting' = TRUE /\ old' = FALSE
  /\ UNCHANGED <<job, link, wire, printer, quiet, basis>>

\* A ready printer without alarm, and no cover that was there is missing.
Trusted(m) == m.fit /\ (m.cover \/ ~s.required)

Differ(m) == {f \in Fans : (f = "top" => m.cover) /\ m.fan[f] # s.demand}

\* Mutant: the auxiliary fan is always corrected first.
CorrectionAuxFirst(m) ==
  IF "aux" \in Differ(m) THEN "aux" ELSE IF "top" \in Differ(m) THEN "top" ELSE "query"

\* The fan to correct: they alternate when both differ.
Correction(m) ==
  IF "top" \in Differ(m) /\ ("aux" \notin Differ(m) \/ s.last = "aux") THEN "top"
  ELSE IF "aux" \in Differ(m) THEN "aux" ELSE "query"

OnObserved ==
  /\ Received("status") /\ Answers(Head(reply)) /\ reply' = Tail(reply)
  /\ LET m == Head(reply)
         phase == IF Trusted(m) THEN Correction(m) ELSE "query" IN
       /\ \E looked \in {TRUE, m.fit} :  \* at the cover, before an alarm is found
            s' = [s EXCEPT !.pending = FALSE, !.phase = phase,
                           !.required = @ \/ (looked /\ m.cover)]
       /\ waiting' = (phase = "query") /\ old' = (old /\ phase # "query")
       /\ basis' = IF m.valid /\ m.fit THEN Differ(m) ELSE {}
  /\ UNCHANGED <<job, link, wire, printer, quiet>>

(***************************************************************************)
(* The printer                                                             *)
(***************************************************************************)
Observation(query) ==
  IF query.live THEN [kind |-> "status", live |-> TRUE, valid |-> query.valid,
                      fan |-> fan, cover |-> cover, fit |-> fit]
  ELSE Late
ResultOf(kind) == [kind |-> kind, live |-> Head(wire).live]

AnswerQuery ==
  /\ wire # <<>> /\ Head(wire).kind = "query"
  /\ wire' = Tail(wire) /\ reply' = Append(reply, Observation(Head(wire)))
  /\ UNCHANGED <<engine, job, link, printer, quiet, basis>>

\* A change is notified before or after the result of the write.
AnswerWrite ==
  /\ wire # <<>> /\ Head(wire).kind \in Fans
  /\ wire' = Tail(wire)
  /\ LET f    == Head(wire).kind
         done == ResultOf("done") IN
       IF f = "top" => cover
       THEN /\ fan' = [fan EXCEPT ![f] = Head(wire).speed]
            /\ reply' \in IF fan' = fan THEN {Append(reply, done)}
                          ELSE {reply \o <<Note, done>>, reply \o <<done, Note>>}
       ELSE fan' = fan /\ reply' = Append(reply, ResultOf("error"))
  /\ UNCHANGED <<engine, job, link, cover, fit, quiet, basis>>

RefuseWrite ==
  /\ ~Calm
  /\ wire # <<>> /\ Head(wire).kind \in Fans
  /\ wire' = Tail(wire) /\ reply' = Append(reply, ResultOf("error"))
  /\ UNCHANGED <<engine, job, link, printer, quiet, basis>>

Idle == ~s.pending /\ s.phase = "query" /\ wire = <<>> /\ reply = <<>>

\* The printer, or a slicer, changes a fan; the notification may be missing.
\* In the end it leaves the quiet fans alone, and does so only between corrections:
\* a storm of notifications, each of which cancels a query, could go on for ever.
Override ==
  /\ Room /\ (Calm => Idle)
  /\ \E f \in Fans \ quiet, speed \in Speeds :
       /\ fan' = [fan EXCEPT ![f] = speed]
       /\ reply' \in {reply} \cup IF Calm /\ ~waiting THEN {} ELSE {Append(reply, Note)}
  /\ UNCHANGED <<engine, job, link, wire, cover, fit, quiet, basis>>

\* An alarm, a restart of Klippy, the cover taken off or put on.
ConditionChanges ==
  /\ ~Calm /\ Room
  /\ \/ cover' = ~cover /\ UNCHANGED fit
     \/ fit' = ~fit /\ UNCHANGED cover
  /\ reply' \in {reply, Append(reply, Note)}
  /\ UNCHANGED <<engine, job, link, wire, fan, quiet, basis>>

(***************************************************************************)
(* The connection and the job                                              *)
(***************************************************************************)
Disconnect ==
  /\ ~Calm /\ conn /\ conn' = FALSE /\ wire' = <<>> /\ reply' = <<>> /\ basis' = {}
  /\ UNCHANGED <<engine, job, known, printer, quiet>>

\* The library waits five seconds before it connects again.
Reconnect ==
  /\ ~conn /\ conn' = TRUE /\ known' = FALSE
  /\ old' = (s.pending \/ s.phase # "query")
  /\ UNCHANGED <<s, waiting, job, wire, reply, printer, quiet, basis>>

\* A job starts, ends, pauses or faults; the demand follows the temperatures.
JobChanges ==
  /\ ~Calm
  /\ \/ act' = ~act /\ UNCHANGED demand
     \/ demand' \in Speeds /\ UNCHANGED act
  /\ UNCHANGED <<engine, link, wire, reply, printer, quiet, basis>>

\* From now on the job, the connection and the printer stay as they are.
Settle ==
  /\ ~Calm /\ act /\ conn /\ fit
  /\ quiet' \in SUBSET Fans \ {{}}
  /\ UNCHANGED <<engine, job, link, wire, reply, printer, basis>>

Worker == Disengage \/ GiveUp \/ (\E kind \in {"query"} \cup Fans : Ask(kind))
Handler == OnNote \/ OnIgnored \/ OnDone \/ OnFailed \/ OnObserved
Printer == AnswerQuery \/ AnswerWrite \/ RefuseWrite
Next ==
  \/ Worker \/ Discover \/ Time \/ Handler \/ Printer \/ Override \/ ConditionChanges
  \/ Disconnect \/ Reconnect \/ JobChanges \/ Settle
Spec == Init /\ [][Next]_vars

FairSpec ==
  /\ Spec
  /\ WF_vars(Worker) /\ WF_vars(Discover) /\ WF_vars(Time) /\ WF_vars(Handler)
  /\ WF_vars(Printer)

(***************************************************************************)
(* Properties                                                              *)
(***************************************************************************)

\* A fan is written only on the strength of a complete observation that showed it
\* to differ from the present demand and no alarm, was asked for after the last
\* write and less than two seconds ago, on this connection, with no notification
\* since: no late, foreign or superseded reply authorises a write.
WriteIsJustified ==
  [][\A f \in Fans : Ask(f) => f \in basis /\ s.demand = demand]_vars

\* Once the job and the printer are steady, a fan that the printer leaves alone
\* gets the demanded speed and keeps it, also while the other is overridden again
\* and again; lost requests and late replies do not stop the engine.  A top cover
\* that is missing where one was seen suppresses writes.
CorrectionConverges ==
  \A f \in Fans :
    <>[](f \in quiet) =>
      <>[](fan[f] = demand \/ (~cover /\ (s.required \/ f = "top")))
===============================================================================
