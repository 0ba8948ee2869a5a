------------------------------ MODULE ControlLease ------------------------------
(***************************************************************************)
(* Who may command the heater: ownership, lease and revision               *)
(* (control_lease.c) as the REST and BLE handlers, the panel and the       *)
(* control task use them.  Commands are built from a status the client     *)
(* read, arrive late, in any order and more than once.  Handlers hold the  *)
(* policy guard and are one step; the control pass holds it too but reads  *)
(* the clock twice, and REST heartbeats do not take it.                    *)
(*                                                                         *)
(* The revision is a 32 bit counter; its wrap is beyond every bound here.  *)
(***************************************************************************)
EXTENDS Naturals, Sequences, FiniteSets

CONSTANTS
  Timeout,      \* SHU1_LEASE_TIMEOUT_MS in ticks
  MaxCommands,  \* bound: different commands sent
  MaxPresses    \* bound: steps that need no revision (panel, stop, OFF)

ASSUME BoundsAssumption == Timeout \in Nat /\ MaxCommands \in Nat /\ MaxPresses \in Nat

Remote == {"REST", "BLE"}
Source == Remote \cup {"NONE", "PHYSICAL", "LOCAL_JOB"}
Kind   == {"start", "schedule", "adjust", "config", "end", "clear", "setup"}
Job    == SUBSET {"work", "scheduled"}

VARIABLES
  ctl,       \* owner, lease (0 is none), age since the last renewal, revision
  issuedTo,  \* the source each lease was issued to
  job,       \* work_on, scheduled_preheat_enabled
  latched, setup,  \* what keeps a start from being admitted
  guard,     \* free, or between the two halves of a control pass
  net,       \* commands sent; delivery does not remove them
  accepted,  \* history: commands a claim or an authorization let through
  presses    \* bounded by MaxPresses

vars == <<ctl, issuedTo, job, latched, setup, guard, net, accepted, presses>>

Command == [from : Remote, kind : Kind, takeover : BOOLEAN, rev : Nat, lease : Nat, view : Source]

TypeOK ==
  /\ ctl \in [owner : Source, lease : 0..Len(issuedTo), age : 0..(Timeout + 1), revision : Nat]
  /\ issuedTo \in Seq(Remote)
  /\ job \in Job /\ latched \in BOOLEAN /\ setup \in BOOLEAN
  /\ guard \in {"free", "control"}
  /\ net \subseteq Command /\ accepted \subseteq net
  /\ presses \in 0..MaxPresses
  /\ ctl.owner \in Remote <=> ctl.lease # 0
  /\ ctl.lease # 0 => issuedTo[ctl.lease] = ctl.owner

(***************************************************************************)
(* control_lease.c                                                         *)
(***************************************************************************)
LeaseActive(c) == c.owner \in Remote /\ c.lease # 0
Expired(c)     == LeaseActive(c) /\ c.age > Timeout

\* Mutant: giving the session up does not make older commands stale.
ReleasedQuietly(c) == [owner |-> "NONE", lease |-> 0, age |-> 0, revision |-> c.revision]

Released(c) == [owner |-> "NONE", lease |-> 0, age |-> 0, revision |-> c.revision + 1]

\* Mutant: the owner's next command gets a lease back that had expired.
KeepsLeaseExpired(c, s) == c.owner = s /\ LeaseActive(c)

KeepsLease(c, s) == c.owner = s /\ LeaseActive(c) /\ ~Expired(c)

Claimable(c, s, takeover, rev) ==
  /\ rev = c.revision
  /\ c.owner \in {"NONE", s} \/ takeover

\* A successful claim by s: a new lease for a remote source that has none alive.
Claim(s) ==
  IF KeepsLease(ctl, s) THEN
    ctl' = [ctl EXCEPT !.revision = @ + 1] /\ UNCHANGED issuedTo
  ELSE
    /\ issuedTo' = IF s \in Remote THEN Append(issuedTo, s) ELSE issuedTo
    /\ ctl' = [owner |-> s, lease |-> IF s \in Remote THEN Len(issuedTo) + 1 ELSE 0,
               age |-> 0, revision |-> ctl.revision + 1]

Authorized(c, s, lease, rev) ==
  /\ rev = c.revision /\ c.owner = s
  /\ LeaseActive(c) /\ lease = c.lease /\ ~Expired(c)

\* Mutant: an authorized command can be replayed.
AuthorizeQuietly == UNCHANGED <<ctl, issuedTo>>

Authorize == ctl' = [ctl EXCEPT !.revision = @ + 1] /\ UNCHANGED issuedTo

\* Mutant: a heartbeat renews an expired lease.
RenewableLate(s, lease) == ctl.owner = s /\ LeaseActive(ctl) /\ lease = ctl.lease

Renewable(s, lease) ==
  ctl.owner = s /\ LeaseActive(ctl) /\ lease = ctl.lease /\ ~Expired(ctl)

Init ==
  /\ ctl = [owner |-> "NONE", lease |-> 0, age |-> 0, revision |-> 0]
  /\ issuedTo = <<>> /\ job = {} /\ latched = FALSE /\ setup = FALSE
  /\ guard = "free" /\ net = {} /\ accepted = {} /\ presses = 0

(***************************************************************************)
(* The clients and the clock                                               *)
(***************************************************************************)
IdsOf(s) == {0} \cup {i \in 1..Len(issuedTo) : issuedTo[i] = s}

\* A client reads the status and builds a command with a lease it was given.
Send(s) ==
  /\ Cardinality(net) < MaxCommands
  /\ \E kind \in Kind, takeover \in BOOLEAN, lease \in IdsOf(s) :
       net' = net \cup {[from |-> s, kind |-> kind, takeover |-> takeover, lease |-> lease,
                         rev |-> ctl.revision, view |-> ctl.owner]}
  /\ UNCHANGED <<ctl, issuedTo, job, latched, setup, guard, accepted, presses>>

\* REST heartbeats run beside a control pass, BLE ones wait for the guard.
Heartbeat(s) ==
  /\ s = "BLE" => guard = "free"
  /\ \E lease \in IdsOf(s) : Renewable(s, lease)
  /\ ctl' = [ctl EXCEPT !.age = 0]
  /\ UNCHANGED <<issuedTo, job, latched, setup, guard, net, accepted, presses>>

Tick ==
  /\ LeaseActive(ctl) /\ ~Expired(ctl)
  /\ ctl' = [ctl EXCEPT !.age = @ + 1]
  /\ UNCHANGED <<issuedTo, job, latched, setup, guard, net, accepted, presses>>

(***************************************************************************)
(* The command handlers (api_server.c, ble_control.c)                      *)
(***************************************************************************)
StartAllowed == ~latched /\ ~setup

\* What the session can be after a command of each kind.  A complete start
\* replaces the job, the others add to it or end a part of it.
JobsAfter(kind) ==
  CASE kind = "start"    -> {{"work"}, job \cup {"work"}}
    [] kind = "schedule" -> {job \cup {"scheduled"}}
    [] kind = "end"      -> {job \ {"work"}, job \ {"scheduled"}}
    [] OTHER             -> {job}

\* The check a mutation of the session has to pass, and what it does to ctl.
Admit(m) ==
  IF "work" \notin job \/ ctl.owner = "NONE"
    THEN Claimable(ctl, m.from, m.takeover \/ "work" \notin job, m.rev) /\ Claim(m.from)
  ELSE IF ctl.owner = m.from
    THEN Authorized(ctl, m.from, m.lease, m.rev) /\ Authorize
  ELSE m.takeover /\ Claimable(ctl, m.from, TRUE, m.rev) /\ Claim(m.from)

\* A command that leaves the heater on, or finds the session owned.
Mutate(m) ==
  /\ m.kind \in {"start", "schedule", "adjust", "config", "end"} /\ ~setup
  /\ job' \in JobsAfter(m.kind)
  /\ IF job' # {} THEN StartAllowed ELSE m.kind = "config" /\ ctl.owner # "NONE"
  /\ Admit(m)
  /\ accepted' = accepted \cup {m}
  /\ UNCHANGED <<latched, setup, presses>>

\* A command about heating that leaves it off is accepted from everyone.
TurnOff(m) ==
  /\ m.kind \in {"adjust", "end"} /\ ~setup
  /\ {} \in JobsAfter(m.kind) /\ job' = {}
  /\ presses < MaxPresses /\ presses' = presses + 1
  /\ ctl' = Released(ctl)
  /\ UNCHANGED <<issuedTo, latched, setup, accepted>>

\* A fault clear stops the job and is carried out later (FaultLatch).
ClearCommand(m) ==
  /\ m.kind = "clear" /\ ~setup /\ m.rev = ctl.revision
  /\ ctl' = Released(ctl) /\ job' = {} /\ accepted' = accepted \cup {m}
  /\ UNCHANGED <<issuedTo, latched, setup, presses>>

\* Printer or Wi-Fi setup: idle only, and under the maintenance reservation.
SetupCommand(m) ==
  /\ m.kind = "setup" /\ ~setup /\ job = {} /\ m.rev = ctl.revision
  /\ ctl' = Released(ctl) /\ setup' = TRUE /\ accepted' = accepted \cup {m}
  /\ UNCHANGED <<issuedTo, job, latched, presses>>

Deliver(m) ==
  /\ guard = "free"
  /\ Mutate(m) \/ TurnOff(m) \/ ClearCommand(m) \/ SetupCommand(m)
  /\ UNCHANGED <<guard, net>>

\* safe_stop, emergency_stop (which latches) or work_on false, from anyone.
Stop ==
  /\ guard = "free" /\ presses < MaxPresses /\ presses' = presses + 1
  /\ ctl' = Released(ctl) /\ job' = {} /\ latched' \in {latched, TRUE}
  /\ UNCHANGED <<issuedTo, setup, guard, net, accepted>>

\* The printer setup releases again, the Wi-Fi worker does not.
SetupEnds ==
  /\ guard = "free" /\ setup
  /\ setup' = FALSE /\ ctl' \in {ctl, Released(ctl)}
  /\ UNCHANGED <<issuedTo, job, latched, guard, net, accepted, presses>>

LatchCleared ==
  /\ guard = "free" /\ latched /\ job = {} /\ latched' = FALSE
  /\ UNCHANGED <<ctl, issuedTo, job, setup, guard, net, accepted, presses>>

(***************************************************************************)
(* The panel: every press releases the session first.                      *)
(***************************************************************************)
Press(panelCtl, panelJob) ==
  /\ guard = "free" /\ presses < MaxPresses /\ presses' = presses + 1
  /\ ctl' = panelCtl /\ job' = panelJob
  /\ UNCHANGED <<issuedTo, setup, guard, net, accepted>>

\* The release and the claim move the revision twice.
PressStart ==
  /\ StartAllowed /\ UNCHANGED latched
  /\ Press([owner |-> "PHYSICAL", lease |-> 0, age |-> 0, revision |-> ctl.revision + 2], {"work"})

PressOff == latched' \in {latched, TRUE} /\ Press(Released(ctl), {})

\* The acknowledge button, or a start that is blocked.
PressAcknowledge == UNCHANGED latched /\ Press(Released(ctl), job)

Panel == PressStart \/ PressOff \/ PressAcknowledge

(***************************************************************************)
(* The control pass                                                        *)
(***************************************************************************)

\* The claim reads the revision under the guard, after which it cannot fail: the
\* stop and the inhibit that the code keeps for its failure are left out.

\* Mutant: an expired lease is given up with the job still on.
HandOverNothing == IF Expired(ctl) THEN ctl' = Released(ctl) /\ UNCHANGED issuedTo
                                   ELSE UNCHANGED <<ctl, issuedTo>>

HandOver ==
  IF ~Expired(ctl) THEN UNCHANGED <<ctl, issuedTo>>
  ELSE IF job # {} THEN Claim("LOCAL_JOB")
  ELSE ctl' = Released(ctl) /\ UNCHANGED issuedTo

ControlBegin ==
  /\ guard = "free" /\ guard' = "control"
  /\ HandOver
  /\ UNCHANGED <<job, latched, setup, net, accepted, presses>>

ScheduleAllowed ==
  StartAllowed /\ (ctl.owner = "LOCAL_JOB" \/ (LeaseActive(ctl) /\ ~Expired(ctl)))

\* What the workflow may make of the job: an unlawful schedule stops all, a due
\* one starts work, work may end, a paused job is left alone, and a dry-out that
\* was left running turns the work on (no setup is begun beside one).
WorkflowJob(j) ==
  \/ j = job
  \/ "scheduled" \in job /\ ~ScheduleAllowed /\ j = {}
  \/ "scheduled" \in job /\ ScheduleAllowed /\ j \subseteq {"work"}
  \/ j = job \ {"work"}
  \/ StartAllowed /\ j = job \cup {"work"}

\* Mutant: an idle owner is kept.
ReleaseIdleNever(j) == UNCHANGED ctl

ReleaseIdle(j) == ctl' = IF j = {} /\ ctl.owner # "NONE" THEN Released(ctl) ELSE ctl

ControlEnd ==
  /\ guard = "control" /\ guard' = "free"
  /\ latched' \in {latched, TRUE}
  /\ \E j \in Job : /\ IF latched' THEN j = {} ELSE WorkflowJob(j)
                    /\ job' = j /\ ReleaseIdle(j)
  /\ UNCHANGED <<issuedTo, setup, net, accepted, presses>>

Next ==
  \/ \E s \in Remote : Send(s) \/ Heartbeat(s)
  \/ \E m \in net : Deliver(m)
  \/ Tick \/ Stop \/ SetupEnds \/ LatchCleared
  \/ Panel
  \/ ControlBegin \/ ControlEnd

Spec == Init /\ [][Next]_vars

\* The control task is periodic, and a pass that has begun ends.
FairSpec == Spec /\ WF_vars(ControlBegin) /\ WF_vars(ControlEnd)

(***************************************************************************)
(* Properties                                                              *)
(***************************************************************************)

\* A command whose revision is still the current one was built by a client that
\* saw the present owner: no change of hands, by whatever path (a claim, a
\* takeover, the panel, an expiry, an OFF, a setup), leaves the revision alone.
RevisionNamesOwner == \A m \in net : m.rev = ctl.revision => m.view = ctl.owner

\* What was accepted once is stale from then on, so a duplicate or a retry of a
\* command that did arrive changes nothing, whoever owns the session by then.
AcceptedOnce == \A m \in accepted : m.rev < ctl.revision

\* A lease that was superseded or has run out stays dead: no late heartbeat,
\* replayed command or change of hands gives it authority again.
Dead(i) == i # ctl.lease \/ Expired(ctl)
LeaseNeverRevives == [][\A i \in 1..Len(issuedTo) : Dead(i) => Dead(i)']_vars

\* A client whose command about the session was accepted owns the session with a
\* lease that is alive, whether it claimed, took over or showed its lease, and
\* also when its former lease ran out just before.
AcceptedMeansLease ==
  [][\A m \in accepted' \ accepted :
       m.kind \notin {"clear", "setup"} =>
         ctl'.owner = m.from /\ LeaseActive(ctl') /\ ~Expired(ctl')]_vars

\* A job that goes on keeps somebody responsible for it, across expiry, takeover
\* and the end of its parts; only a press at the panel leaves it to nobody.
JobKeepsAnOwner ==
  [][job' # {} /\ ctl.owner # "NONE" /\ ctl'.owner = "NONE" => presses' # presses]_vars

\* Who owns the session changes nothing of the contract of job and latch.
Contract == INSTANCE JobContract WITH heating <- FALSE, boots <- 0
JobImplemented == Contract!Spec

\* The owner of a finished job is released, so that the next client can start
\* without a takeover.
IdleIsReleased == (job = {} /\ ctl.owner # "NONE") ~> (job # {} \/ ctl.owner = "NONE")
===============================================================================
