-------------------------- MODULE ControlLease_proofs --------------------------
(***************************************************************************)
(* Proofs about ControlLease for every lease timeout and every number of   *)
(* commands and presses.  Each operation of control_lease.c gets one lemma *)
(* that says what it does to the owner, the revision and the leases; the   *)
(* handlers, the panel and the control pass only combine them.             *)
(***************************************************************************)
EXTENDS ControlLease, TLAPS

\* The part of TypeOK that is about control_lease.c.
CtlOK ==
  /\ ctl \in [owner : Source, lease : 0..Len(issuedTo), age : 0..(Timeout + 1), revision : Nat]
  /\ issuedTo \in Seq(Remote)
  /\ ctl.owner \in Remote <=> ctl.lease # 0
  /\ ctl.lease # 0 => issuedTo[ctl.lease] = ctl.owner

\* What clients can know: nothing newer than the present revision.
NothingFromTheFuture == \A m \in net : m.rev <= ctl.revision

\* A setup is begun idle and keeps starts out.
SetupIsIdle == setup => job = {}

IInv == TypeOK /\ SetupIsIdle /\ NothingFromTheFuture /\ RevisionNamesOwner /\ AcceptedOnce

\* The two things a step can do to the revision.
Holds    == ctl'.owner = ctl.owner /\ ctl'.revision = ctl.revision
Advances == ctl'.revision > ctl.revision
StayDead == \A i \in 1..Len(issuedTo) : Dead(i) => Dead(i)'

\* What every operation of control_lease.c keeps.
Moves == CtlOK' /\ StayDead /\ (Holds \/ Advances)

-------------------------------------------------------------------------------
\* Releasing the session moves the revision on and kills the lease.
LEMMA ReleaseMoves ==
  ASSUME CtlOK, ctl' = Released(ctl), UNCHANGED issuedTo
  PROVE  CtlOK' /\ StayDead /\ Advances /\ ctl'.owner = "NONE"
<1> USE BoundsAssumption
<1>1. ctl' = [owner |-> "NONE", lease |-> 0, age |-> 0, revision |-> ctl.revision + 1]
  BY DEF Released
<1>2. CtlOK' /\ Advances /\ ctl'.owner = "NONE"
  BY <1>1 DEF CtlOK, Advances, Source, Remote
<1>3. StayDead
  BY <1>1 DEF StayDead, Dead
<1> QED
  BY <1>2, <1>3

\* A claim moves the revision on; a remote claimant gets a live lease, and no
\* lease that was dead comes back.
LEMMA ClaimMoves ==
  ASSUME CtlOK, NEW s \in Source \ {"NONE"}, Claim(s)
  PROVE  /\ CtlOK' /\ StayDead /\ Advances /\ ctl'.owner = s
         /\ s \in Remote => LeaseActive(ctl') /\ ~Expired(ctl')
<1> USE BoundsAssumption
<1>1. CASE KeepsLease(ctl, s)
  <2>1. /\ UNCHANGED issuedTo
        /\ ctl' = [owner |-> ctl.owner, lease |-> ctl.lease, age |-> ctl.age,
                   revision |-> ctl.revision + 1]
    BY <1>1 DEF Claim, CtlOK
  <2>2. ctl.owner = s /\ ctl.lease # 0 /\ s \in Remote /\ ~(ctl.age > Timeout)
    BY <1>1 DEF KeepsLease, LeaseActive, Expired
  <2>3. CtlOK' /\ Advances /\ ctl'.owner = s
    BY <2>1, <2>2 DEF CtlOK, Advances
  <2>4. StayDead
    BY <2>1, <2>2 DEF StayDead, Dead, Expired, LeaseActive
  <2>5. LeaseActive(ctl') /\ ~Expired(ctl')
    BY <2>1, <2>2 DEF Expired, LeaseActive
  <2> QED
    BY <2>3, <2>4, <2>5
<1>2. CASE ~KeepsLease(ctl, s) /\ s \in Remote
  <2>1. /\ issuedTo' = Append(issuedTo, s)
        /\ ctl' = [owner |-> s, lease |-> Len(issuedTo) + 1, age |-> 0,
                   revision |-> ctl.revision + 1]
    BY <1>2 DEF Claim
  <2>2. /\ issuedTo' \in Seq(Remote) /\ Len(issuedTo') = Len(issuedTo) + 1
        /\ issuedTo'[Len(issuedTo) + 1] = s /\ Len(issuedTo) \in Nat
    BY <1>2, <2>1 DEF CtlOK
  <2>3. CtlOK' /\ Advances /\ ctl'.owner = s
    BY <1>2, <2>1, <2>2 DEF CtlOK, Advances
  <2>4. StayDead
    BY <2>1, <2>2 DEF StayDead, Dead
  <2>5. LeaseActive(ctl') /\ ~Expired(ctl')
    BY <1>2, <2>1, <2>2 DEF Expired, LeaseActive
  <2> QED
    BY <2>3, <2>4, <2>5
<1>3. CASE ~KeepsLease(ctl, s) /\ s \notin Remote
  <2>1. /\ UNCHANGED issuedTo
        /\ ctl' = [owner |-> s, lease |-> 0, age |-> 0, revision |-> ctl.revision + 1]
    BY <1>3 DEF Claim
  <2>2. CtlOK' /\ Advances /\ ctl'.owner = s
    BY <1>3, <2>1 DEF CtlOK, Advances
  <2>3. StayDead
    BY <2>1 DEF StayDead, Dead
  <2> QED
    BY <1>3, <2>2, <2>3
<1> QED
  BY <1>1, <1>2, <1>3

\* An authorized command moves the revision on and leaves the lease as it is.
LEMMA AuthorizeMoves ==
  ASSUME CtlOK, NEW s \in Remote, NEW lease, NEW rev, Authorized(ctl, s, lease, rev), Authorize
  PROVE  CtlOK' /\ StayDead /\ Advances /\ ctl'.owner = s /\ LeaseActive(ctl') /\ ~Expired(ctl')
<1>1. /\ UNCHANGED issuedTo
      /\ ctl' = [owner |-> ctl.owner, lease |-> ctl.lease, age |-> ctl.age,
                 revision |-> ctl.revision + 1]
  BY DEF Authorize, CtlOK
<1>2. ctl.owner = s /\ ctl.lease # 0 /\ ~(ctl.age > Timeout)
  BY DEF Authorized, LeaseActive, Expired
<1>3. CtlOK' /\ Advances /\ ctl'.owner = s
  BY <1>1, <1>2 DEF CtlOK, Advances
<1>4. StayDead
  BY <1>1, <1>2 DEF StayDead, Dead, Expired, LeaseActive
<1>5. LeaseActive(ctl') /\ ~Expired(ctl')
  BY <1>1, <1>2 DEF Expired, LeaseActive
<1> QED
  BY <1>3, <1>4, <1>5

\* A step that leaves control_lease.c alone.
LEMMA IdleMoves ==
  ASSUME CtlOK, UNCHANGED <<ctl, issuedTo>>
  PROVE  CtlOK' /\ StayDead /\ Holds
<1>1. CtlOK' /\ Holds
  BY DEF CtlOK, Holds
<1>2. StayDead
  BY DEF StayDead, Dead, Expired, LeaseActive
<1> QED
  BY <1>1, <1>2

\* Time kills leases, it does not raise them.
LEMMA TickMoves ==
  ASSUME CtlOK, Tick
  PROVE  CtlOK' /\ StayDead /\ Holds
<1> USE BoundsAssumption
<1>1. /\ UNCHANGED issuedTo
      /\ ctl' = [owner |-> ctl.owner, lease |-> ctl.lease, age |-> ctl.age + 1,
                 revision |-> ctl.revision]
  BY DEF Tick, CtlOK
<1>2. ctl.owner \in Remote /\ ctl.lease # 0 /\ ~(ctl.age > Timeout)
  BY DEF Tick, LeaseActive, Expired
<1>3. CtlOK' /\ Holds
  BY <1>1, <1>2 DEF CtlOK, Holds
<1>4. StayDead
  BY <1>1, <1>2 DEF StayDead, Dead, Expired, LeaseActive
<1> QED
  BY <1>3, <1>4

\* A heartbeat renews the lease that is alive and no other.
LEMMA HeartbeatMoves ==
  ASSUME CtlOK, NEW s \in Remote, Heartbeat(s)
  PROVE  CtlOK' /\ StayDead /\ Holds
<1> USE BoundsAssumption
<1>1. /\ UNCHANGED issuedTo
      /\ ctl' = [owner |-> ctl.owner, lease |-> ctl.lease, age |-> 0, revision |-> ctl.revision]
  BY DEF Heartbeat, CtlOK
<1>2. ctl.owner = s /\ ctl.lease # 0 /\ ~(ctl.age > Timeout)
  BY DEF Heartbeat, Renewable, LeaseActive, Expired
<1>3. CtlOK' /\ Holds
  BY <1>1, <1>2 DEF CtlOK, Holds
<1>4. StayDead
  BY <1>1, <1>2 DEF StayDead, Dead, Expired, LeaseActive
<1> QED
  BY <1>3, <1>4

-------------------------------------------------------------------------------
\* What a step does beside control_lease.c: messages stay, and at most one that
\* was built on the present revision is accepted, by a step that moves it on.
Lives(m) == ctl'.owner = m.from /\ LeaseActive(ctl') /\ ~Expired(ctl')

Accepts(m) ==
  /\ m.rev = ctl.revision /\ Advances /\ accepted' = accepted \cup {m}
  /\ m.kind \notin {"clear", "setup"} => Lives(m)

Books == net' = net /\ (accepted' = accepted \/ \E m \in net : Accepts(m))

OwnedStill ==
  job' # {} /\ ctl.owner # "NONE" /\ ctl'.owner = "NONE" => presses' # presses

Good == TypeOK' /\ Moves /\ Books /\ OwnedStill

\* TypeOK is CtlOK and the types of the rest.
LEMMA TypeParts ==
  TypeOK <=> /\ CtlOK
             /\ job \in Job /\ latched \in BOOLEAN /\ setup \in BOOLEAN
             /\ guard \in {"free", "control"}
             /\ net \subseteq Command /\ accepted \subseteq net
             /\ presses \in 0..MaxPresses
BY DEF TypeOK, CtlOK

LEMMA TypePartsNext ==
  TypeOK' <=> /\ CtlOK'
              /\ job' \in Job /\ latched' \in BOOLEAN /\ setup' \in BOOLEAN
              /\ guard' \in {"free", "control"}
              /\ net' \subseteq Command /\ accepted' \subseteq net'
              /\ presses' \in 0..MaxPresses
BY DEF TypeOK, CtlOK

\* Whatever a command makes of a job is a job.
LEMMA JobsAreJobs ==
  ASSUME job \in Job, NEW kind
  PROVE  JobsAfter(kind) \subseteq Job
BY DEF JobsAfter, Job

\* Passing the check of a session command means owning the session by a lease.
LEMMA AdmitMoves ==
  ASSUME CtlOK, NEW m \in Command, Admit(m)
  PROVE  m.rev = ctl.revision /\ CtlOK' /\ StayDead /\ Advances /\ Lives(m)
<1>1. m.from \in Remote /\ m.from \in Source \ {"NONE"}
  BY DEF Command, Remote, Source
<1>2. CASE Authorized(ctl, m.from, m.lease, m.rev) /\ Authorize
  <2>1. m.rev = ctl.revision
    BY <1>2 DEF Authorized
  <2> QED
    BY <1>1, <1>2, <2>1, AuthorizeMoves DEF Lives
<1>3. CASE Claim(m.from) /\ m.rev = ctl.revision
  BY <1>1, <1>3, ClaimMoves DEF Lives
<1> QED
  BY <1>2, <1>3 DEF Admit, Claimable

\* Session commands.
LEMMA MutateGood ==
  ASSUME TypeOK, NEW m \in net, Mutate(m), UNCHANGED <<guard, net>>
  PROVE  Good
<1>1. m \in Command /\ CtlOK /\ job \in Job /\ m.kind \notin {"clear", "setup"}
  BY TypeParts DEF Mutate
<1>2. m.rev = ctl.revision /\ CtlOK' /\ StayDead /\ Advances /\ Lives(m)
  BY <1>1, AdmitMoves DEF Mutate
<1>3. job' \in Job
  BY <1>1, JobsAreJobs DEF Mutate
<1>4. accepted' = accepted \cup {m} /\ UNCHANGED <<latched, setup, presses>>
  BY DEF Mutate
<1>5. TypeOK'
  BY <1>2, <1>3, <1>4, TypeParts, TypePartsNext
<1>6. Books
  BY <1>2, <1>4 DEF Books, Accepts
<1>7. ctl'.owner # "NONE"
  BY <1>1, <1>2 DEF Lives, Command, Remote
<1> QED
  BY <1>2, <1>5, <1>6, <1>7 DEF Good, Moves, OwnedStill

\* An OFF leaves no job to be owned.
LEMMA TurnOffGood ==
  ASSUME TypeOK, NEW m \in net, TurnOff(m), UNCHANGED <<guard, net>>
  PROVE  Good
<1>1. CtlOK' /\ StayDead /\ Advances
  BY TypeParts, ReleaseMoves DEF TurnOff
<1>2. /\ job' = {} /\ UNCHANGED <<latched, setup, accepted>>
      /\ presses' = presses + 1 /\ presses < MaxPresses
  BY DEF TurnOff
<1>3. TypeOK'
  BY <1>1, <1>2, TypeParts, TypePartsNext, BoundsAssumption DEF Job
<1>4. Books /\ OwnedStill
  BY <1>2 DEF Books, OwnedStill
<1> QED
  BY <1>1, <1>3, <1>4 DEF Good, Moves

\* A fault clear stops the job.
LEMMA ClearCommandGood ==
  ASSUME TypeOK, NEW m \in net, ClearCommand(m), UNCHANGED <<guard, net>>
  PROVE  Good
<1>1. CtlOK' /\ StayDead /\ Advances
  BY TypeParts, ReleaseMoves DEF ClearCommand
<1>2. /\ job' = {} /\ UNCHANGED <<latched, setup, presses>>
      /\ accepted' = accepted \cup {m} /\ m.rev = ctl.revision /\ m.kind = "clear"
  BY DEF ClearCommand
<1>3. TypeOK'
  BY <1>1, <1>2, TypeParts, TypePartsNext DEF Job
<1>4. Books /\ OwnedStill
  BY <1>1, <1>2 DEF Books, Accepts, OwnedStill
<1> QED
  BY <1>1, <1>3, <1>4 DEF Good, Moves

\* A setup starts from an idle controller.
LEMMA SetupCommandGood ==
  ASSUME TypeOK, NEW m \in net, SetupCommand(m), UNCHANGED <<guard, net>>
  PROVE  Good
<1>1. CtlOK' /\ StayDead /\ Advances
  BY TypeParts, ReleaseMoves DEF SetupCommand
<1>2. /\ job' = {} /\ setup' = TRUE /\ UNCHANGED <<latched, presses>>
      /\ accepted' = accepted \cup {m} /\ m.rev = ctl.revision /\ m.kind = "setup"
  BY DEF SetupCommand
<1>3. TypeOK'
  BY <1>1, <1>2, TypeParts, TypePartsNext DEF Job
<1>4. Books /\ OwnedStill
  BY <1>1, <1>2 DEF Books, Accepts, OwnedStill
<1> QED
  BY <1>1, <1>3, <1>4 DEF Good, Moves

\* Stops are counted and leave no job.
LEMMA StopGood ==
  ASSUME TypeOK, Stop
  PROVE  Good
<1>1. CtlOK' /\ StayDead /\ Advances
  BY TypeParts, ReleaseMoves DEF Stop
<1>2. /\ job' = {} /\ UNCHANGED <<setup, guard, net, accepted>>
      /\ presses' = presses + 1 /\ presses < MaxPresses
  BY DEF Stop
<1>3. latched' \in BOOLEAN
  BY DEF Stop, TypeOK
<1>4. TypeOK'
  BY <1>1, <1>2, <1>3, TypeParts, TypePartsNext, BoundsAssumption DEF Job
<1>5. Books /\ OwnedStill
  BY <1>2 DEF Books, OwnedStill
<1> QED
  BY <1>1, <1>4, <1>5 DEF Good, Moves

\* A panel start releases and claims at one go: the revision moves twice.
LEMMA PhysicalMoves ==
  ASSUME CtlOK, UNCHANGED issuedTo,
         ctl' = [owner |-> "PHYSICAL", lease |-> 0, age |-> 0, revision |-> ctl.revision + 2]
  PROVE  CtlOK' /\ StayDead /\ Advances /\ ctl'.owner = "PHYSICAL"
<1> USE BoundsAssumption
<1>1. CtlOK' /\ Advances /\ ctl'.owner = "PHYSICAL"
  BY DEF CtlOK, Advances, Source, Remote
<1>2. StayDead
  BY DEF StayDead, Dead
<1> QED
  BY <1>1, <1>2

\* Every press is counted, whatever it makes of session and job.
LEMMA PressGood ==
  ASSUME TypeOK, NEW c, NEW j \in Job, Press(c, j), latched' \in BOOLEAN,
         CtlOK' /\ StayDead /\ Advances
  PROVE  Good
<1>1. /\ job' = j /\ UNCHANGED <<setup, guard, net, accepted>>
      /\ presses' = presses + 1 /\ presses < MaxPresses
  BY DEF Press, TypeOK
<1>2. presses' \in 0..MaxPresses /\ presses' # presses
  BY <1>1, BoundsAssumption DEF TypeOK
<1>3. TypeOK'
  BY <1>1, <1>2, TypeParts, TypePartsNext
<1>4. Books /\ OwnedStill
  BY <1>1, <1>2 DEF Books, OwnedStill
<1> QED
  BY <1>3, <1>4 DEF Good, Moves

LEMMA PanelGood ==
  ASSUME TypeOK, Panel
  PROVE  Good
<1>0. CtlOK /\ job \in Job /\ {} \in Job /\ {"work"} \in Job
  BY TypeParts DEF Job
<1>1. CASE PressStart
  <2> DEFINE c == [owner |-> "PHYSICAL", lease |-> 0, age |-> 0, revision |-> ctl.revision + 2]
  <2>1. Press(c, {"work"}) /\ latched' \in BOOLEAN
    BY <1>1 DEF PressStart, TypeOK
  <2>2. CtlOK' /\ StayDead /\ Advances
    BY <1>0, <2>1, PhysicalMoves DEF Press
  <2> QED
    BY <1>0, <2>1, <2>2, PressGood
<1>2. CASE PressOff
  <2>1. Press(Released(ctl), {}) /\ latched' \in BOOLEAN
    BY <1>2 DEF PressOff, TypeOK
  <2>2. CtlOK' /\ StayDead /\ Advances
    BY <1>0, <2>1, ReleaseMoves DEF Press
  <2> QED
    BY <1>0, <2>1, <2>2, PressGood
<1>3. CASE PressAcknowledge
  <2>1. Press(Released(ctl), job) /\ latched' \in BOOLEAN
    BY <1>3 DEF PressAcknowledge, TypeOK
  <2>2. CtlOK' /\ StayDead /\ Advances
    BY <1>0, <2>1, ReleaseMoves DEF Press
  <2> QED
    BY <1>0, <2>1, <2>2, PressGood
<1> QED
  BY <1>1, <1>2, <1>3 DEF Panel

\* The end of a setup releases the session or leaves it.
LEMMA SetupEndsGood ==
  ASSUME TypeOK, SetupEnds, job = {}
  PROVE  Good
<1>1. CtlOK' /\ StayDead /\ (Holds \/ Advances)
  BY TypeParts, ReleaseMoves, IdleMoves DEF SetupEnds
<1>2. setup' = FALSE /\ UNCHANGED <<job, latched, guard, net, accepted, presses>>
  BY DEF SetupEnds
<1>3. TypeOK'
  BY <1>1, <1>2, TypeParts, TypePartsNext
<1>4. Books /\ OwnedStill
  BY <1>2 DEF Books, OwnedStill
<1> QED
  BY <1>1, <1>3, <1>4 DEF Good, Moves

\* Steps that leave owner, lease and commands alone.
LEMMA LatchClearedGood ==
  ASSUME TypeOK, LatchCleared
  PROVE  Good
<1>1. CtlOK' /\ StayDead /\ Holds
  BY TypeParts, IdleMoves DEF LatchCleared
<1>2. latched' = FALSE /\ UNCHANGED <<ctl, job, setup, guard, net, accepted, presses>>
  BY DEF LatchCleared
<1>3. TypeOK'
  BY <1>1, <1>2, TypeParts, TypePartsNext
<1>4. Books /\ OwnedStill
  BY <1>2 DEF Books, OwnedStill
<1> QED
  BY <1>1, <1>3, <1>4 DEF Good, Moves

LEMMA ClockGood ==
  ASSUME TypeOK, Tick \/ \E s \in Remote : Heartbeat(s)
  PROVE  Good
<1>1. CtlOK' /\ StayDead /\ Holds
  BY TypeParts, TickMoves, HeartbeatMoves
<1>2. UNCHANGED <<job, latched, setup, guard, net, accepted, presses>>
  BY DEF Tick, Heartbeat
<1>3. TypeOK'
  BY <1>1, <1>2, TypeParts, TypePartsNext
<1>4. Books /\ OwnedStill
  BY <1>1, <1>2 DEF Books, OwnedStill, Holds
<1> QED
  BY <1>1, <1>3, <1>4 DEF Good, Moves

LEMMA StutterGood ==
  ASSUME TypeOK, UNCHANGED vars
  PROVE  Good
<1>1. CtlOK' /\ StayDead /\ Holds
  BY TypeParts, IdleMoves DEF vars
<1>2. UNCHANGED <<ctl, job, latched, setup, guard, net, accepted, presses>>
  BY DEF vars
<1>3. TypeOK'
  BY <1>1, <1>2, TypeParts, TypePartsNext
<1>4. Books /\ OwnedStill
  BY <1>2 DEF Books, OwnedStill
<1> QED
  BY <1>1, <1>3, <1>4 DEF Good, Moves

\* An expired lease passes its job on or, without one, releases the session.
LEMMA ControlBeginGood ==
  ASSUME TypeOK, ControlBegin
  PROVE  Good
<1>0. CtlOK /\ "LOCAL_JOB" \in Source \ {"NONE"}
  BY TypeParts DEF Source
<1>1. guard' = "control" /\ UNCHANGED <<job, latched, setup, net, accepted, presses>>
  BY DEF ControlBegin
<1>2. CtlOK' /\ StayDead /\ (Holds \/ Advances) /\ OwnedStill
  <2>1. CASE UNCHANGED <<ctl, issuedTo>>
    BY <1>0, <2>1, IdleMoves DEF OwnedStill
  <2>2. CASE Claim("LOCAL_JOB")
    BY <1>0, <2>2, ClaimMoves DEF OwnedStill
  <2>3. CASE job = {} /\ ctl' = Released(ctl) /\ UNCHANGED issuedTo
    BY <1>0, <1>1, <2>3, ReleaseMoves DEF OwnedStill
  <2> QED
    BY <2>1, <2>2, <2>3 DEF ControlBegin, HandOver
<1>3. TypeOK'
  BY <1>1, <1>2, TypeParts, TypePartsNext
<1>4. Books
  BY <1>1 DEF Books
<1> QED
  BY <1>2, <1>3, <1>4 DEF Good, Moves

\* The end of a pass releases the owner of a job that is over, and only it.
LEMMA ControlEndGood ==
  ASSUME TypeOK, ControlEnd
  PROVE  Good
<1>1. /\ guard' = "free" /\ UNCHANGED <<issuedTo, setup, net, accepted, presses>>
      /\ job' \in Job /\ ReleaseIdle(job')
  BY DEF ControlEnd
<1>2. latched' \in BOOLEAN
  BY DEF ControlEnd, TypeOK
<1>3. CtlOK' /\ StayDead /\ (Holds \/ Advances) /\ OwnedStill
  <2>1. CASE job' = {} /\ ctl' = Released(ctl)
    BY <1>1, <2>1, TypeParts, ReleaseMoves DEF OwnedStill
  <2>2. CASE ctl' = ctl
    BY <1>1, <2>2, TypeParts, IdleMoves DEF OwnedStill
  <2> QED
    BY <1>1, <2>1, <2>2 DEF ReleaseIdle
<1>4. TypeOK'
  BY <1>1, <1>2, <1>3, TypeParts, TypePartsNext
<1>5. Books
  BY <1>1 DEF Books
<1> QED
  BY <1>3, <1>4, <1>5 DEF Good, Moves

\* A setup stays idle: every way to a job asks for no setup, and a setup is
\* begun without one.
LEMMA SetupStaysIdle ==
  ASSUME TypeOK, SetupIsIdle, [Next]_vars
  PROVE  SetupIsIdle'
<1> USE DEF SetupIsIdle
<1>1. CASE \E m \in net : Deliver(m)
  BY <1>1 DEF Deliver, Mutate, TurnOff, ClearCommand, SetupCommand
<1>2. CASE Panel
  BY <1>2 DEF Panel, PressStart, PressOff, PressAcknowledge, Press, StartAllowed
<1>3. CASE ControlEnd
  BY <1>3 DEF ControlEnd, WorkflowJob, ScheduleAllowed, StartAllowed
<1>4. CASE Stop \/ SetupEnds \/ LatchCleared \/ Tick \/ ControlBegin
  BY <1>4 DEF Stop, SetupEnds, LatchCleared, Tick, ControlBegin
<1>5. CASE (\E s \in Remote : Send(s) \/ Heartbeat(s)) \/ UNCHANGED vars
  BY <1>5 DEF Send, Heartbeat, vars
<1> QED
  BY <1>1, <1>2, <1>3, <1>4, <1>5 DEF Next

\* Every step but a client's reading of the status.
LEMMA NextGood ==
  ASSUME TypeOK, SetupIsIdle, [Next]_vars, \A s \in Remote : ~Send(s)
  PROVE  Good
<1>1. CASE \E m \in net : Deliver(m)
  <2>1. PICK m \in net : Deliver(m)
    BY <1>1
  <2> QED
    BY <2>1, MutateGood, TurnOffGood, ClearCommandGood, SetupCommandGood DEF Deliver
<1>2. CASE SetupEnds
  BY <1>2, SetupEndsGood DEF SetupEnds, SetupIsIdle
<1>3. CASE Tick \/ \E s \in Remote : Heartbeat(s)
  BY <1>3, ClockGood
<1>4. CASE Stop \/ LatchCleared \/ Panel
  BY <1>4, StopGood, LatchClearedGood, PanelGood
<1>5. CASE ControlBegin \/ ControlEnd
  BY <1>5, ControlBeginGood, ControlEndGood
<1>6. CASE UNCHANGED vars
  BY <1>6, StutterGood
<1> QED
  BY <1>1, <1>2, <1>3, <1>4, <1>5, <1>6 DEF Next

\* A client's message carries the revision and the owner of the moment.
LEMMA SendStep ==
  ASSUME TypeOK, NEW s \in Remote, Send(s)
  PROVE  /\ TypeOK' /\ StayDead
         /\ UNCHANGED <<ctl, job, accepted, presses>>
         /\ \A m \in net' \ net : m.rev = ctl.revision /\ m.view = ctl.owner
<1>1. PICK kind \in Kind, takeover \in BOOLEAN, lease \in IdsOf(s) :
        net' = net \cup {[from |-> s, kind |-> kind, takeover |-> takeover, lease |-> lease,
                          rev |-> ctl.revision, view |-> ctl.owner]}
  BY DEF Send
<1>2. UNCHANGED <<ctl, issuedTo, job, latched, setup, guard, accepted, presses>>
  BY DEF Send
<1>3. lease \in Nat
  BY TypeParts DEF IdsOf, CtlOK
<1>4. ctl.revision \in Nat /\ ctl.owner \in Source
  BY DEF TypeOK
<1>5. net' \subseteq Command /\ accepted' \subseteq net'
  BY <1>1, <1>2, <1>3, <1>4, TypeParts DEF Command
<1>6. CtlOK' /\ StayDead
  BY <1>2, TypeParts, IdleMoves
<1>7. TypeOK'
  BY <1>2, <1>5, <1>6, TypeParts, TypePartsNext
<1> QED
  BY <1>1, <1>2, <1>6, <1>7

-------------------------------------------------------------------------------
LEMMA InitIInv == Init => IInv
<1> SUFFICES ASSUME Init PROVE IInv
  OBVIOUS
<1>1. CtlOK
  BY BoundsAssumption DEF Init, CtlOK, Source, Remote
<1>2. TypeOK
  <2>1. job \in Job /\ net \subseteq Command /\ accepted \subseteq net
    BY DEF Init, Job
  <2>2. presses \in 0..MaxPresses
    BY BoundsAssumption DEF Init
  <2>3. latched \in BOOLEAN /\ setup \in BOOLEAN /\ guard \in {"free", "control"}
    BY DEF Init
  <2> QED
    BY <1>1, <2>1, <2>2, <2>3, TypeParts
<1> QED
  BY <1>2 DEF Init, IInv, SetupIsIdle, NothingFromTheFuture, RevisionNamesOwner, AcceptedOnce

\* What is known of messages survives a step that moves the revision on, or
\* neither moves it nor changes the owner.
LEMMA NextIInv == IInv /\ [Next]_vars => IInv'
<1> SUFFICES ASSUME IInv, [Next]_vars PROVE IInv'
  OBVIOUS
<1>0. TypeOK /\ SetupIsIdle /\ SetupIsIdle'
  BY SetupStaysIdle DEF IInv
<1>1. ctl.revision \in Nat /\ \A m \in net : m.rev \in Nat
  BY <1>0 DEF TypeOK, Command
<1>2. CASE \E s \in Remote : Send(s)
  <2>1. /\ TypeOK' /\ UNCHANGED <<ctl, accepted>>
        /\ \A m \in net' \ net : m.rev = ctl.revision /\ m.view = ctl.owner
    BY <1>0, <1>2, SendStep
  <2>2. NothingFromTheFuture' /\ RevisionNamesOwner'
    BY <1>1, <2>1 DEF IInv, NothingFromTheFuture, RevisionNamesOwner
  <2>3. AcceptedOnce'
    BY <2>1 DEF IInv, AcceptedOnce
  <2> QED
    BY <1>0, <2>1, <2>2, <2>3 DEF IInv
<1>3. CASE ~\E s \in Remote : Send(s)
  <2>1. TypeOK' /\ (Holds \/ Advances) /\ Books /\ accepted \subseteq net
    BY <1>0, <1>3, NextGood DEF Good, Moves, TypeOK
  <2>2. ctl'.revision \in Nat
    BY <2>1 DEF TypeOK
  <2>3. NothingFromTheFuture' /\ RevisionNamesOwner'
    BY <1>1, <2>1, <2>2 DEF IInv, NothingFromTheFuture, RevisionNamesOwner, Books, Holds, Advances
  <2>4. AcceptedOnce'
    BY <1>1, <2>1, <2>2 DEF IInv, AcceptedOnce, Books, Accepts, Holds, Advances
  <2> QED
    BY <1>0, <2>1, <2>3, <2>4 DEF IInv
<1> QED
  BY <1>2, <1>3

\* The inductive invariant.
THEOREM Invariance == Spec => []IInv
BY InitIInv, NextIInv, PTL DEF Spec

\* Types, and that a lease exists exactly while a remote source owns the session.
THEOREM TypeCorrect == Spec => []TypeOK
BY Invariance, PTL DEF IInv

\* No path to another owner leaves the revision alone.
THEOREM RevisionIsTheOwners == Spec => []RevisionNamesOwner
BY Invariance, PTL DEF IInv

\* Accepted commands cannot be replayed.
THEOREM ReplaysAreStale == Spec => []AcceptedOnce
BY Invariance, PTL DEF IInv

\* Dead leases stay dead, whatever steps follow.
THEOREM DeadStaysDead == Spec => LeaseNeverRevives
<1>1. IInv /\ [Next]_vars => [\A i \in 1..Len(issuedTo) : Dead(i) => Dead(i)']_vars
  <2> SUFFICES ASSUME IInv, [Next]_vars PROVE StayDead
    BY DEF StayDead
  <2>1. TypeOK /\ SetupIsIdle
    BY DEF IInv
  <2>2. CASE \E s \in Remote : Send(s)
    BY <2>1, <2>2, SendStep
  <2>3. CASE ~\E s \in Remote : Send(s)
    BY <2>1, <2>3, NextGood DEF Good, Moves
  <2> QED
    BY <2>2, <2>3
<1> QED
  BY <1>1, Invariance, PTL DEF Spec, LeaseNeverRevives

\* Acceptance comes with a live lease.
THEOREM AcceptanceIsOwnership == Spec => AcceptedMeansLease
<1> DEFINE A == \A m \in accepted' \ accepted :
                  m.kind \notin {"clear", "setup"} =>
                    ctl'.owner = m.from /\ LeaseActive(ctl') /\ ~Expired(ctl')
<1>1. IInv /\ [Next]_vars => [A]_vars
  <2> SUFFICES ASSUME IInv, [Next]_vars PROVE A
    OBVIOUS
  <2>1. TypeOK /\ SetupIsIdle
    BY DEF IInv
  <2>2. CASE \E s \in Remote : Send(s)
    BY <2>1, <2>2, SendStep
  <2>3. CASE ~\E s \in Remote : Send(s)
    BY <2>1, <2>3, NextGood DEF Good, Books, Accepts, Lives
  <2> QED
    BY <2>2, <2>3
<1> QED
  BY <1>1, Invariance, PTL DEF Spec, AcceptedMeansLease

\* Only the panel leaves a job without an owner.
THEOREM JobsAreOwned == Spec => JobKeepsAnOwner
<1> DEFINE A == job' # {} /\ ctl.owner # "NONE" /\ ctl'.owner = "NONE" => presses' # presses
<1>1. IInv /\ [Next]_vars => [A]_vars
  <2> SUFFICES ASSUME IInv, [Next]_vars PROVE A
    OBVIOUS
  <2>1. TypeOK /\ SetupIsIdle
    BY DEF IInv
  <2>2. CASE \E s \in Remote : Send(s)
    BY <2>1, <2>2, SendStep
  <2>3. CASE ~\E s \in Remote : Send(s)
    BY <2>1, <2>3, NextGood DEF Good, OwnedStill
  <2> QED
    BY <2>2, <2>3
<1> QED
  BY <1>1, Invariance, PTL DEF Spec, JobKeepsAnOwner

-------------------------------------------------------------------------------
\* A command that leaves anything on needs an open latch, the others only take
\* from the job.
LEMMA DeliverKeepsContract ==
  ASSUME IInv, NEW m \in net, Deliver(m)
  PROVE  Contract!Request \/ Contract!Withdraw
<1>1. job \in Job /\ latched' = latched
  BY DEF IInv, TypeOK, Deliver, Mutate, TurnOff, ClearCommand, SetupCommand
<1>2. CASE job' # {} /\ Mutate(m)
  <2>1. ~latched
    BY <1>2 DEF Mutate, StartAllowed
  <2>2. job' \in Job
    BY <1>1, <1>2, JobsAreJobs DEF Mutate
  <2> QED
    BY <1>1, <2>1, <2>2 DEF Contract!Request, Contract!Part, Job
<1>3. CASE job' \subseteq job
  BY <1>1, <1>3 DEF Contract!Withdraw
<1>4. TurnOff(m) \/ ClearCommand(m) \/ SetupCommand(m) => job' \subseteq job
  BY DEF TurnOff, ClearCommand, SetupCommand
<1> QED
  BY <1>2, <1>3, <1>4 DEF Deliver

\* One step of the ownership protocol is a step of the contract or a stutter.
LEMMA StepKeepsContract == IInv /\ [Next]_vars => [Contract!Next]_(Contract!vars)
<1> SUFFICES ASSUME IInv, [Next]_vars PROVE [Contract!Next]_(Contract!vars)
  OBVIOUS
<1> USE DEF Contract!Next, Contract!vars
<1>1. CASE UNCHANGED <<job, latched>>
  BY <1>1
<1>2. ASSUME NEW s \in Remote, Send(s) \/ Heartbeat(s) PROVE UNCHANGED <<job, latched>>
  BY <1>2 DEF Send, Heartbeat
<1>3. CASE Tick \/ SetupEnds \/ ControlBegin \/ UNCHANGED vars
  BY <1>1, <1>3 DEF Tick, SetupEnds, ControlBegin, vars
<1>4. CASE Stop
  BY <1>4 DEF Stop, Contract!Withdraw
<1>5. CASE LatchCleared
  BY <1>5 DEF LatchCleared, Contract!Clear
<1>6. CASE Panel
  <2>1. CASE PressStart
    BY <2>1 DEF PressStart, Press, StartAllowed, Contract!Request, Contract!Part
  <2>2. CASE PressOff
    BY <2>2 DEF PressOff, Press, Contract!Withdraw
  <2>3. CASE PressAcknowledge
    BY <2>3, <1>1 DEF PressAcknowledge, Press
  <2> QED
    BY <1>6, <2>1, <2>2, <2>3 DEF Panel
<1>7. CASE ControlEnd
  <2>1. PICK j \in Job : (IF latched' THEN j = {} ELSE WorkflowJob(j)) /\ job' = j
    BY <1>7 DEF ControlEnd
  <2>2. latched' \in {latched, TRUE}
    BY <1>7 DEF ControlEnd
  <2>3. "scheduled" \in job' => "scheduled" \in job
    BY <2>1 DEF WorkflowJob
  <2> QED
    BY <2>1, <2>2, <2>3 DEF Contract!Pass, Contract!Part, Job
<1> QED
  BY <1>1, <1>2, <1>3, <1>4, <1>5, <1>6, <1>7, DeliverKeepsContract DEF Next

\* However the session changes hands, nothing starts under a latch and a pass
\* under it ends the job (the handlers' start checks and the control pass).
THEOREM OwnershipImplementsJobContract == Spec => JobImplemented
<1>1. Init => Contract!Init
  BY DEF Init, Contract!Init
<1> QED
  BY <1>1, StepKeepsContract, Invariance, PTL DEF Spec, JobImplemented, Contract!Spec
===============================================================================
