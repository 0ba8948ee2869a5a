----------------------------- MODULE Symbiont_proofs -----------------------------
(***************************************************************************)
(* Proofs about Symbiont for every set of speeds and every number of       *)
(* messages under way.  The engine waits for at most one message (OneLive),*)
(* what that message says is still true unless the request is old (Valid), *)
(* and a correction that is due was observed (Based).                      *)
(***************************************************************************)
EXTENDS Symbiont, SequenceTheorems, TLAPS

\* The messages with the id that is waited for.
LiveIn(msgs) == {i \in DOMAIN msgs : msgs[i].live}
NoneLive     == LiveIn(wire) = {} /\ LiveIn(reply) = {}
AtMostOne(set) == \A i, j \in set : i = j

OneLive ==
  /\ AtMostOne(LiveIn(wire)) /\ AtMostOne(LiveIn(reply))
  /\ LiveIn(wire) = {} \/ LiveIn(reply) = {}
  /\ ~s.pending => NoneLive

Valid ==
  ~old => /\ \A i \in LiveIn(wire) : wire[i].kind = "query" => wire[i].valid
          /\ \A i \in LiveIn(reply) : reply[i].kind = "status" => reply[i].valid

Based == conn /\ ~old /\ ~s.pending /\ s.phase # "query" => s.phase \in basis

\* TypeOK in parts.
EngineOK ==
  /\ s \in [active: BOOLEAN, pending: BOOLEAN, phase: {"query"} \cup Fans, demand: Speeds,
            last: {"none"} \cup Fans, required: BOOLEAN]
  /\ (s.pending \/ s.phase # "query") => s.active
  /\ old \in BOOLEAN /\ waiting \in BOOLEAN
WorldOK ==
  /\ act \in BOOLEAN /\ demand \in Speeds /\ conn \in BOOLEAN /\ known \in BOOLEAN
  /\ fan \in [Fans -> Speeds] /\ cover \in BOOLEAN /\ fit \in BOOLEAN
  /\ quiet \subseteq Fans /\ basis \subseteq Fans
WireOK  == wire \in Seq(Request)
ReplyOK == reply \in Seq(Message)

IInv == EngineOK /\ WorldOK /\ WireOK /\ ReplyOK /\ OneLive /\ Valid /\ Based

-------------------------------------------------------------------------------
(***************************************************************************)
(* Messages and sequences of messages                                      *)
(***************************************************************************)
LEMMA RequestFacts ==
  ASSUME NEW m \in Request
  PROVE  /\ m.live \in BOOLEAN /\ m.kind \in {"query"} \cup Fans
         /\ DeadRequest(m) \in Request /\ DeadRequest(m).live = FALSE
         /\ m.kind = "query" => m \in Query
         /\ m.kind \in Fans => m \in Write
BY DEF Request, Query, Write, Fans, DeadRequest

LEMMA MessageFacts ==
  ASSUME NEW m \in Message
  PROVE  /\ m.live \in BOOLEAN
         /\ DeadReply(m) \in Message /\ DeadReply(m).live = FALSE
         /\ m.kind = "status" /\ m.live => m \in Status
<1>1. CASE m \in Status
  BY <1>1 DEF Message, Status, Late, DeadReply
<1>2. CASE m \in Result
  BY <1>2 DEF Message, Result, DeadReply
<1>3. CASE m = Note
  <2>1. Note.live = FALSE /\ Note = [x \in {"kind", "live"} |-> Note[x]]
    BY DEF Note
  <2>2. [Note EXCEPT !.live = FALSE] = [x \in {"kind", "live"} |-> Note[x]]
    BY <2>1
  <2>3. [Note EXCEPT !.live = FALSE] = Note
    BY <2>1, <2>2
  <2> QED
    BY <1>3, <2>3 DEF Message, Note, DeadReply
<1>4. CASE m = Late
  BY <1>4 DEF Message, Late, DeadReply
<1> QED
  BY <1>1, <1>2, <1>3, <1>4 DEF Message

LEMMA MapSeq ==
  ASSUME NEW S, NEW T, NEW q \in Seq(S), NEW g, g = [i \in DOMAIN q |-> g[i]],
         \A i \in DOMAIN q : g[i] \in T
  PROVE  g \in Seq(T) /\ DOMAIN g = DOMAIN q
<1>1. DOMAIN q = 1..Len(q) /\ Len(q) \in Nat
  OBVIOUS
<1>2. g \in [1..Len(q) -> T]
  BY <1>1
<1> QED
  BY <1>1, <1>2

\* What is dead is a message, and nobody waits for it.
LEMMA DeadIsDead ==
  ASSUME WireOK, ReplyOK
  PROVE  /\ DeadRequests \in Seq(Request) /\ LiveIn(DeadRequests) = {}
         /\ DeadReplies \in Seq(Message) /\ LiveIn(DeadReplies) = {}
         /\ DOMAIN DeadReplies = DOMAIN reply
<1>1. \A i \in DOMAIN wire : wire[i] \in Request
  BY DEF WireOK
<1>2. \A i \in DOMAIN reply : reply[i] \in Message
  BY DEF ReplyOK
<1>3. DeadRequests \in Seq(Request) /\ DOMAIN DeadRequests = DOMAIN wire
  <2> DEFINE g == DeadRequests
  <2>1. g = [i \in DOMAIN wire |-> g[i]] /\ \A i \in DOMAIN wire : g[i] \in Request
    BY <1>1, RequestFacts DEF DeadRequests
  <2> HIDE DEF g
  <2>2. g \in Seq(Request) /\ DOMAIN g = DOMAIN wire
    BY <2>1, MapSeq DEF WireOK
  <2> QED
    BY <2>2 DEF g
<1>4. DeadReplies \in Seq(Message) /\ DOMAIN DeadReplies = DOMAIN reply
  <2> DEFINE g == DeadReplies
  <2>1. g = [i \in DOMAIN reply |-> g[i]] /\ \A i \in DOMAIN reply : g[i] \in Message
    BY <1>2, MessageFacts DEF DeadReplies
  <2> HIDE DEF g
  <2>2. g \in Seq(Message) /\ DOMAIN g = DOMAIN reply
    BY <2>1, MapSeq DEF ReplyOK
  <2> QED
    BY <2>2 DEF g
<1>5. LiveIn(DeadRequests) = {} /\ LiveIn(DeadReplies) = {}
  BY <1>1, <1>2, RequestFacts, MessageFacts DEF DeadRequests, DeadReplies, LiveIn
<1> QED
  BY <1>3, <1>4, <1>5

\* What is live behind the head was live before, one place further back.
LEMMA TailLive ==
  ASSUME NEW S, NEW q \in Seq(S), q # <<>>
  PROVE  /\ Head(q) = q[1] /\ Head(q) \in S /\ 1 \in DOMAIN q /\ Tail(q) \in Seq(S)
         /\ \A i \in LiveIn(Tail(q)) :
              i \in Nat /\ i # 0 /\ i + 1 \in LiveIn(q) /\ Tail(q)[i] = q[i + 1]
<1>1. /\ Head(q) \in S /\ Tail(q) \in Seq(S) /\ Len(Tail(q)) = Len(q) - 1
      /\ \A i \in 1..Len(Tail(q)) : Tail(q)[i] = q[i + 1]
  BY HeadTailProperties
<1>2. Len(q) \in Nat \ {0} /\ DOMAIN q = 1..Len(q) /\ Head(q) = q[1]
  BY EmptySeq
<1>3. DOMAIN Tail(q) = 1..Len(Tail(q))
  BY <1>1
<1> QED
  BY <1>1, <1>2, <1>3 DEF LiveIn

\* What is live in a longer sequence was live before, or is the new message.
Grown(p, q, m, place) ==
  \A i \in LiveIn(p) : \/ i \in LiveIn(q) /\ p[i] = q[i]
                       \/ m.live /\ i = place /\ p[i] = m

LEMMA AppendLive ==
  ASSUME NEW S, NEW q \in Seq(S), NEW m \in S
  PROVE  Append(q, m) \in Seq(S) /\ Grown(Append(q, m), q, m, Len(q) + 1)
<1>1. /\ Len(q) \in Nat /\ DOMAIN q = 1..Len(q) /\ Append(q, m) \in Seq(S)
      /\ Len(Append(q, m)) = Len(q) + 1 /\ DOMAIN Append(q, m) = 1..(Len(q) + 1)
      /\ \A i \in 1..Len(q) : Append(q, m)[i] = q[i]
      /\ Append(q, m)[Len(q) + 1] = m
  OBVIOUS
<1> QED
  BY <1>1 DEF LiveIn, Grown

-------------------------------------------------------------------------------
\* When nothing is waited for, nothing needs to be true.
LEMMA QuietsKeeps ==
  ASSUME wire' \in Seq(Request), reply' \in Seq(Message), LiveIn(wire') = {}, LiveIn(reply') = {}
  PROVE  WireOK' /\ ReplyOK' /\ OneLive' /\ Valid'
BY DEF WireOK, ReplyOK, OneLive, Valid, NoneLive, AtMostOne, LiveIn

\* The message that is waited for has come: nothing else is live.
LEMMA ConsumeQuiets ==
  ASSUME IInv, reply # <<>>, Head(reply).live
  PROVE  /\ Tail(reply) \in Seq(Message) /\ LiveIn(Tail(reply)) = {} /\ LiveIn(wire) = {}
         /\ 1 \in LiveIn(reply) /\ Head(reply) = reply[1] /\ Head(reply) \in Message
<1>1. /\ Head(reply) = reply[1] /\ Head(reply) \in Message /\ 1 \in DOMAIN reply
      /\ Tail(reply) \in Seq(Message)
      /\ \A i \in LiveIn(Tail(reply)) : i \in Nat /\ i # 0 /\ i + 1 \in LiveIn(reply)
  BY TailLive DEF IInv, ReplyOK
<1>2. 1 \in LiveIn(reply)
  BY <1>1 DEF LiveIn
<1>3. LiveIn(wire) = {} /\ AtMostOne(LiveIn(reply))
  BY <1>2 DEF IInv, OneLive
<1>4. LiveIn(Tail(reply)) = {}
  <2> SUFFICES ASSUME NEW i \in LiveIn(Tail(reply)) PROVE FALSE
    OBVIOUS
  <2>1. i \in Nat /\ i # 0 /\ i + 1 = 1
    BY <1>1, <1>2, <1>3 DEF AtMostOne
  <2> QED
    BY <2>1
<1> QED
  BY <1>1, <1>2, <1>3, <1>4

\* A message that is not waited for is added.
LEMMA ExtraKeeps ==
  ASSUME IInv, NEW m \in Message, ~m.live, reply' = Append(reply, m), wire' = wire,
         UNCHANGED <<s, old>>
  PROVE  WireOK' /\ ReplyOK' /\ OneLive' /\ Valid'
<1>1. reply' \in Seq(Message) /\ Grown(reply', reply, m, Len(reply) + 1)
  BY AppendLive DEF IInv, ReplyOK
<1>2. \A i \in LiveIn(reply') : i \in LiveIn(reply) /\ reply'[i] = reply[i]
  BY <1>1 DEF Grown
<1> QED
  BY <1>1, <1>2 DEF IInv, WireOK, ReplyOK, OneLive, Valid, NoneLive, AtMostOne

-------------------------------------------------------------------------------
(***************************************************************************)
(* The steps                                                               *)
(***************************************************************************)
LEMMA WorkerKeeps == ASSUME IInv, Worker PROVE IInv'
<1>1. /\ DeadRequests \in Seq(Request) /\ LiveIn(DeadRequests) = {}
      /\ DeadReplies \in Seq(Message) /\ LiveIn(DeadReplies) = {}
  BY DeadIsDead DEF IInv
<1>2. WorldOK' /\ UNCHANGED conn
  BY DEF Worker, Disengage, GiveUp, Ask, IInv, WorldOK, job, link, printer
<1>3. CASE Disengage
  <2>1. WireOK' /\ ReplyOK' /\ OneLive' /\ Valid'
    BY <1>1, <1>3, QuietsKeeps DEF Disengage
  <2>2. EngineOK' /\ Based'
    BY <1>3 DEF Disengage, Disengaged, IInv, EngineOK, Based
  <2> QED
    BY <1>2, <2>1, <2>2 DEF IInv
<1>4. CASE GiveUp
  <2>1. WireOK' /\ ReplyOK' /\ OneLive' /\ Valid'
    BY <1>1, <1>4, QuietsKeeps DEF GiveUp
  <2>2. EngineOK' /\ Based'
    BY <1>4 DEF GiveUp, IInv, EngineOK, Based
  <2> QED
    BY <1>2, <2>1, <2>2 DEF IInv
<1>5. ASSUME NEW kind \in {"query"} \cup Fans, Ask(kind) PROVE IInv'
  <2>1. s' = [s EXCEPT !.active = TRUE, !.demand = demand, !.phase = kind, !.pending = TRUE,
                       !.last = IF kind = "query" THEN @ ELSE kind]
        /\ old' = FALSE /\ waiting' = FALSE
    BY <1>5 DEF Ask
  <2>2. s'.pending /\ EngineOK'
    BY <2>1 DEF IInv, EngineOK, WorldOK
  <2> DEFINE m == IF kind = "query" THEN [kind |-> kind, live |-> TRUE, valid |-> TRUE]
                  ELSE [kind |-> kind, speed |-> demand, live |-> TRUE]
  <2>3. m \in Request /\ m.live /\ (m.kind = "query" => m.valid)
    BY DEF Request, Query, Write, IInv, WorldOK, Fans
  <2>4. wire' \in {Append(DeadRequests, m), DeadRequests} /\ reply' = DeadReplies
    BY <1>5 DEF Ask
  <2> HIDE DEF m
  <2>5. WireOK' /\ ReplyOK' /\ OneLive' /\ Valid'
    <3>1. CASE wire' = DeadRequests
      BY <1>1, <2>4, <3>1, QuietsKeeps
    <3>2. CASE wire' = Append(DeadRequests, m)
      <4>0. wire' \in Seq(Request) /\ Grown(wire', DeadRequests, m, Len(DeadRequests) + 1)
        BY <1>1, <2>3, <3>2, AppendLive
      <4>1. \A i \in LiveIn(wire') : i = Len(DeadRequests) + 1 /\ wire'[i] = m
        BY <1>1, <4>0 DEF Grown
      <4>2. reply' \in Seq(Message) /\ LiveIn(reply') = {}
        BY <1>1, <2>4
      <4> QED
        BY <2>2, <2>3, <4>0, <4>1, <4>2 DEF WireOK, ReplyOK, OneLive, Valid, NoneLive, AtMostOne
    <3> QED
      BY <2>4, <3>1, <3>2
  <2> QED
    BY <1>2, <2>2, <2>5 DEF IInv, Based
<1> QED
  BY <1>3, <1>4, <1>5 DEF Worker

\* The answers, whether waited for or not, and the notifications.
LEMMA HandlerKeeps == ASSUME IInv, Handler PROVE IInv'
<1>1. WorldOK' /\ UNCHANGED conn
  <2>1. UNCHANGED <<job, link, printer, quiet>> /\ basis' \subseteq Fans
    BY DEF Handler, OnNote, OnIgnored, OnDone, OnFailed, OnObserved, IInv, WorldOK, Differ
  <2> QED
    BY <2>1 DEF IInv, WorldOK, job, link, printer
<1>2. CASE OnNote
  <2>1. /\ DeadRequests \in Seq(Request) /\ LiveIn(DeadRequests) = {}
        /\ DeadReplies \in Seq(Message) /\ LiveIn(DeadReplies) = {}
        /\ DeadReplies # <<>>
    <3>1. reply # <<>> /\ DOMAIN DeadReplies = DOMAIN reply
      BY <1>2, DeadIsDead DEF OnNote, Received, IInv
    <3>2. 1 \in DOMAIN reply
      BY <3>1, TailLive DEF IInv, ReplyOK
    <3>3. DeadReplies # <<>>
      BY <3>1, <3>2
    <3> QED
      BY <3>3, DeadIsDead DEF IInv
  <2>2. Tail(DeadReplies) \in Seq(Message) /\ LiveIn(Tail(DeadReplies)) = {}
    BY <2>1, TailLive
  <2>3. WireOK' /\ ReplyOK' /\ OneLive' /\ Valid'
    BY <1>2, <2>1, <2>2, QuietsKeeps DEF OnNote
  <2>4. EngineOK' /\ Based'
    BY <1>2 DEF OnNote, engine, IInv, EngineOK, Based
  <2> QED
    BY <1>1, <2>3, <2>4 DEF IInv
<1>3. CASE OnIgnored
  <2>1. /\ reply' \in Seq(Message) /\ wire' = wire /\ UNCHANGED <<s, old, waiting, basis>>
        /\ \A i \in LiveIn(reply') :
             i \in Nat /\ i + 1 \in LiveIn(reply) /\ reply'[i] = reply[i + 1]
    BY <1>3, TailLive DEF OnIgnored, IInv, ReplyOK, engine
  <2>2. WireOK' /\ ReplyOK' /\ Valid'
    BY <2>1 DEF IInv, WireOK, ReplyOK, Valid
  <2>3. OneLive'
    <3>1. ASSUME NEW i \in LiveIn(reply'), NEW j \in LiveIn(reply') PROVE i = j
      <4>1. i \in Nat /\ j \in Nat /\ i + 1 = j + 1
        BY <2>1, <3>1 DEF IInv, OneLive, AtMostOne
      <4> QED
        BY <4>1
    <3> QED
      BY <2>1, <3>1 DEF IInv, OneLive, NoneLive, AtMostOne
  <2>4. EngineOK' /\ Based'
    BY <1>1, <2>1 DEF IInv, EngineOK, Based
  <2> QED
    BY <1>1, <2>2, <2>3, <2>4 DEF IInv
<1>4. CASE OnDone \/ OnFailed \/ OnObserved
  <2>1. reply # <<>> /\ Head(reply).live /\ reply' = Tail(reply) /\ wire' = wire
    BY <1>4 DEF OnDone, OnFailed, OnObserved, Received, Answers
  <2>2. /\ Tail(reply) \in Seq(Message) /\ LiveIn(Tail(reply)) = {} /\ LiveIn(wire) = {}
        /\ 1 \in LiveIn(reply) /\ Head(reply) = reply[1] /\ Head(reply) \in Message
    BY <2>1, ConsumeQuiets
  <2>3. WireOK' /\ ReplyOK' /\ OneLive' /\ Valid'
    BY <2>1, <2>2, QuietsKeeps DEF IInv, WireOK
  <2>4. CASE OnDone \/ OnFailed
    <3>1. EngineOK' /\ Based'
      BY <2>4 DEF OnDone, OnFailed, IInv, EngineOK, Based
    <3> QED
      BY <1>1, <2>3, <3>1 DEF IInv
  <2>5. CASE OnObserved
    <3> DEFINE m     == Head(reply)
               phase == IF Trusted(m) THEN Correction(m) ELSE "query"
    <3>1. m \in Status /\ s.active
      BY <2>1, <2>2, <2>5, MessageFacts DEF OnObserved, Received, Answers
    <3>2. /\ phase \in {"query"} \cup Fans
          /\ phase # "query" => m.fit /\ phase \in Differ(m)
      BY DEF Correction, Trusted, Fans
    <3>3. ~old => m.valid
      BY <2>2, <2>5 DEF IInv, Valid, OnObserved, Received
    <3>4. /\ \E looked \in {TRUE, m.fit} :
               s' = [s EXCEPT !.pending = FALSE, !.phase = phase,
                              !.required = @ \/ (looked /\ m.cover)]
          /\ waiting' = (phase = "query") /\ old' = (old /\ phase # "query")
          /\ basis' = IF m.valid /\ m.fit THEN Differ(m) ELSE {}
      BY <2>5 DEF OnObserved
    <3>5. m.cover \in BOOLEAN /\ m.fit \in BOOLEAN
      BY <3>1 DEF Status
    <3> HIDE DEF m, phase
    <3>6. PICK looked \in {TRUE, m.fit} :
            s' = [s EXCEPT !.pending = FALSE, !.phase = phase,
                           !.required = @ \/ (looked /\ m.cover)]
      BY <3>4
    <3>7. (s.required \/ (looked /\ m.cover)) \in BOOLEAN
      OBVIOUS
    <3>8. EngineOK' /\ s'.phase = phase
      BY <3>1, <3>2, <3>4, <3>6, <3>7 DEF IInv, EngineOK
    <3>9. Based'
      BY <3>2, <3>3, <3>4, <3>8 DEF Based, IInv, EngineOK
    <3> QED
      BY <1>1, <2>3, <3>8, <3>9 DEF IInv
  <2> QED
    BY <1>4, <2>4, <2>5
<1> QED
  BY <1>2, <1>3, <1>4 DEF Handler

LEMMA ResultFacts ==
  ASSUME NEW kind \in {"done", "error"}, NEW live \in BOOLEAN
  PROVE  [kind |-> kind, live |-> live] \in Message
BY DEF Message, Result

\* An answer is live when its request was.
LEMMA AnswerKeeps ==
  ASSUME IInv, wire # <<>>, NEW m \in Message, m.live => Head(wire).live,
         m.kind = "status" => Head(wire).kind = "query" /\ (m.live => m.valid = Head(wire).valid),
         wire' = Tail(wire),
         \/ reply' = Append(reply, m)
         \/ reply' = Append(Append(reply, Note), m)
         \/ reply' = Append(Append(reply, m), Note),
         UNCHANGED <<s, old>>
  PROVE  WireOK' /\ ReplyOK' /\ OneLive' /\ Valid'
<1>1. Note \in Message /\ ~Note.live
  BY DEF Message, Note
<1>2. reply' \in Seq(Message) /\ \E place \in Nat \ DOMAIN reply : Grown(reply', reply, m, place)
  <2>1. reply \in Seq(Message) /\ Len(reply) \in Nat /\ DOMAIN reply = 1..Len(reply)
    BY DEF IInv, ReplyOK
  <2>2. Len(reply) + 1 \in Nat \ DOMAIN reply /\ Len(reply) + 2 \in Nat \ DOMAIN reply
    BY <2>1
  <2>3. CASE reply' = Append(reply, m)
    <3>1. reply' \in Seq(Message) /\ Grown(reply', reply, m, Len(reply) + 1)
      BY <2>1, <2>3, AppendLive
    <3> QED
      BY <2>2, <3>1
  <2>4. CASE reply' = Append(Append(reply, Note), m)
    <3> DEFINE q == Append(reply, Note)
    <3>1. /\ q \in Seq(Message) /\ Grown(q, reply, Note, Len(reply) + 1)
          /\ Len(q) + 1 = Len(reply) + 2
      BY <1>1, <2>1, AppendLive
    <3> HIDE DEF q
    <3>2. reply' = Append(q, m)
      BY <2>4 DEF q
    <3>3. reply' \in Seq(Message) /\ Grown(reply', q, m, Len(q) + 1)
      BY <3>1, <3>2, AppendLive
    <3>4. Grown(reply', reply, m, Len(reply) + 2)
      BY <1>1, <3>1, <3>3 DEF Grown
    <3> QED
      BY <2>2, <3>3, <3>4
  <2>5. CASE reply' = Append(Append(reply, m), Note)
    <3> DEFINE q == Append(reply, m)
    <3>1. q \in Seq(Message) /\ Grown(q, reply, m, Len(reply) + 1)
      BY <2>1, AppendLive
    <3> HIDE DEF q
    <3>2. reply' = Append(q, Note)
      BY <2>5 DEF q
    <3>3. reply' \in Seq(Message) /\ Grown(reply', q, Note, Len(q) + 1)
      BY <1>1, <3>1, <3>2, AppendLive
    <3>4. Grown(reply', reply, m, Len(reply) + 1)
      BY <1>1, <3>1, <3>3 DEF Grown
    <3> QED
      BY <2>2, <3>3, <3>4
  <2> QED
    BY <2>3, <2>4, <2>5
<1>3. /\ Head(wire) = wire[1] /\ 1 \in DOMAIN wire /\ Tail(wire) \in Seq(Request)
      /\ \A i \in LiveIn(Tail(wire)) :
           i \in Nat /\ i # 0 /\ i + 1 \in LiveIn(wire) /\ Tail(wire)[i] = wire[i + 1]
  BY TailLive DEF IInv, WireOK
<1>9. PICK place \in Nat \ DOMAIN reply : Grown(reply', reply, m, place)
  BY <1>2
<1>4. CASE Head(wire).live
  <2>1. 1 \in LiveIn(wire)
    BY <1>3, <1>4 DEF LiveIn
  <2>2. LiveIn(reply) = {} /\ s.pending /\ AtMostOne(LiveIn(wire))
    BY <2>1 DEF IInv, OneLive, NoneLive
  <2>3. LiveIn(wire') = {}
    <3> SUFFICES ASSUME NEW i \in LiveIn(Tail(wire)) PROVE FALSE
      OBVIOUS
    <3>1. i \in Nat /\ i # 0 /\ i + 1 = 1
      BY <1>3, <2>1, <2>2 DEF AtMostOne
    <3> QED
      BY <3>1
  <2>4. OneLive'
    BY <1>9, <2>2, <2>3 DEF Grown, OneLive, NoneLive, AtMostOne
  <2>5. ~old /\ Head(wire).kind = "query" => Head(wire).valid
    BY <1>3, <2>1 DEF IInv, Valid
  <2>6. Valid'
    BY <1>9, <2>2, <2>3, <2>5 DEF Grown, Valid
  <2> QED
    BY <1>2, <1>3, <2>4, <2>6 DEF WireOK, ReplyOK
<1>5. CASE ~Head(wire).live
  <2>1. \A i \in LiveIn(reply') : i \in LiveIn(reply) /\ reply'[i] = reply[i]
    BY <1>5, <1>9 DEF Grown
  <2>2. \A i, j \in LiveIn(wire') : i = j
    <3> SUFFICES ASSUME NEW i \in LiveIn(Tail(wire)), NEW j \in LiveIn(Tail(wire)) PROVE i = j
      OBVIOUS
    <3>1. i \in Nat /\ j \in Nat /\ i + 1 = j + 1
      BY <1>3 DEF IInv, OneLive, AtMostOne
    <3> QED
      BY <3>1
  <2>3. OneLive'
    BY <1>3, <2>1, <2>2 DEF IInv, OneLive, NoneLive, AtMostOne
  <2>4. \A i \in LiveIn(wire') : i + 1 \in LiveIn(wire) /\ wire'[i] = wire[i + 1]
    BY <1>3
  <2>5. ~old => \A i \in LiveIn(wire') : wire'[i].kind = "query" => wire'[i].valid
    BY <2>4 DEF IInv, Valid
  <2>6. ~old => \A i \in LiveIn(reply') : reply'[i].kind = "status" => reply'[i].valid
    BY <2>1 DEF IInv, Valid
  <2>7. Valid'
    BY <2>5, <2>6 DEF Valid
  <2> QED
    BY <1>2, <1>3, <2>3, <2>7 DEF WireOK, ReplyOK
<1> QED
  BY <1>4, <1>5, RequestFacts

LEMMA TwoAppended ==
  ASSUME NEW S, NEW q \in Seq(S), NEW a \in S, NEW b \in S
  PROVE  q \o <<a, b>> = Append(Append(q, a), b)
<1>1. <<a>> \in Seq(S) /\ <<b>> \in Seq(S) /\ <<a>> \o <<b>> = <<a, b>>
  <2>1. <<a>> \in Seq(S) /\ <<b>> \in Seq(S) /\ <<a, b>> \in Seq(S)
    OBVIOUS
  <2>2. Len(<<a>>) = 1 /\ Len(<<b>>) = 1 /\ Len(<<a, b>>) = 2
    OBVIOUS
  <2>3. <<a>>[1] = a /\ <<b>>[1] = b /\ <<a, b>>[1] = a /\ <<a, b>>[2] = b
    OBVIOUS
  <2> DEFINE x == <<a>>
             y == <<b>>
             z == <<a, b>>
  <2> HIDE DEF x, y, z
  <2>4. /\ x \o y \in Seq(S) /\ Len(x \o y) = 2
        /\ \A i \in 1..2 : (x \o y)[i] = IF i <= 1 THEN x[i] ELSE y[i - 1]
    <3>1. x \in Seq(S) /\ y \in Seq(S) /\ Len(x) = 1 /\ Len(y) = 1
      BY <2>1, <2>2 DEF x, y
    <3>2. /\ x \o y \in Seq(S) /\ Len(x \o y) = Len(x) + Len(y)
          /\ \A i \in 1..Len(x) + Len(y) :
               (x \o y)[i] = IF i <= Len(x) THEN x[i] ELSE y[i - Len(x)]
      BY <3>1, ConcatProperties, Zenon
    <3> QED
      BY <3>1, <3>2
  <2>5. z \in Seq(S) /\ Len(z) = 2 /\ \A i \in 1..2 : z[i] = IF i <= 1 THEN x[i] ELSE y[i - 1]
    BY <2>1, <2>2, <2>3 DEF x, y, z
  <2>6. Len(x \o y) = Len(z) /\ \A i \in 1..Len(x \o y) : (x \o y)[i] = z[i]
    BY <2>4, <2>5
  <2>7. x \o y = z
    BY <2>4, <2>5, <2>6, SeqEqual
  <2> QED
    BY <2>1, <2>7 DEF x, y, z
<1>2. Append(q, a) \in Seq(S) /\ Append(q, a) = q \o <<a>>
  BY AppendProperties, AppendIsConcat
<1>3. Append(Append(q, a), b) = Append(q, a) \o <<b>>
  BY <1>2, AppendIsConcat
<1>4. (q \o <<a>>) \o <<b>> = q \o (<<a>> \o <<b>>)
  BY <1>1, ConcatAssociative
<1> QED
  BY <1>1, <1>2, <1>3, <1>4

LEMMA PrinterKeeps == ASSUME IInv, Printer PROVE IInv'
<1>1. /\ wire # <<>> /\ wire' = Tail(wire) /\ UNCHANGED <<s, old, waiting>>
      /\ Head(wire) \in Request /\ reply \in Seq(Message)
  BY TailLive DEF Printer, AnswerQuery, AnswerWrite, RefuseWrite, engine, IInv, WireOK, ReplyOK
<1>2. Head(wire).live \in BOOLEAN /\ Head(wire).kind \in {"query"} \cup Fans
  BY <1>1, RequestFacts
<1>3. UNCHANGED conn /\ EngineOK' /\ Based'
  BY <1>1 DEF Printer, AnswerQuery, AnswerWrite, RefuseWrite, link, IInv, EngineOK, Based
<1>4. WorldOK' /\ WireOK' /\ ReplyOK' /\ OneLive' /\ Valid'
  <2>1. CASE AnswerQuery
    <3> DEFINE m == Observation(Head(wire))
    <3>1. Head(wire).kind = "query" /\ reply' = Append(reply, m) /\ WorldOK'
      BY <2>1 DEF AnswerQuery, IInv, WorldOK, job, link, printer
    <3>2. Head(wire).valid \in BOOLEAN
      BY <1>1, <3>1, RequestFacts DEF Query
    <3>3. CASE Head(wire).live
      <4>1. m = [kind |-> "status", live |-> TRUE, valid |-> Head(wire).valid,
                 fan |-> fan, cover |-> cover, fit |-> fit]
        BY <3>3 DEF Observation
      <4>2. fan \in [Fans -> Speeds] /\ cover \in BOOLEAN /\ fit \in BOOLEAN
        BY DEF IInv, WorldOK
      <4> HIDE DEF m
      <4>3. m \in Status /\ m.valid = Head(wire).valid
        BY <3>2, <4>1, <4>2 DEF Status
      <4> QED
        BY <1>1, <3>1, <3>3, <4>3, AnswerKeeps DEF Message
    <3>4. CASE ~Head(wire).live
      <4>1. m \in Message /\ m.live = FALSE
        BY <3>4 DEF Observation, Message, Late
      <4> QED
        BY <1>1, <3>1, <4>1, AnswerKeeps
    <3> QED
      BY <3>3, <3>4
  <2>2. CASE AnswerWrite
    <3> DEFINE done   == ResultOf("done")
               failed == ResultOf("error")
    <3>1. /\ done \in Message /\ done.kind # "status" /\ done.live = Head(wire).live
          /\ failed \in Message /\ failed.kind # "status" /\ failed.live = Head(wire).live
      BY <1>2, ResultFacts DEF ResultOf
    <3>2. /\ \/ reply' = Append(reply, done) \/ reply' = Append(reply, failed)
             \/ reply' = reply \o <<Note, done>> \/ reply' = reply \o <<done, Note>>
          /\ UNCHANGED <<act, demand, conn, known, cover, fit, quiet, basis>>
          /\ fan' = fan \/ fan' = [fan EXCEPT ![Head(wire).kind] = Head(wire).speed]
      BY <2>2 DEF AnswerWrite, job, link
    <3>3. Head(wire).kind \in Fans /\ Head(wire).speed \in Speeds
      BY <1>1, <2>2, RequestFacts DEF AnswerWrite, Write
    <3>4. WorldOK'
      BY <3>2, <3>3 DEF IInv, WorldOK
    <3> HIDE DEF done, failed
    <3>5. /\ reply \o <<Note, done>> = Append(Append(reply, Note), done)
          /\ reply \o <<done, Note>> = Append(Append(reply, done), Note)
      <4>1. Note \in Message
        BY DEF Message
      <4> QED
        BY <1>1, <3>1, <4>1, TwoAppended
    <3>6. CASE reply' = Append(reply, failed)
      BY <1>1, <3>1, <3>4, <3>6, AnswerKeeps
    <3>7. CASE reply' = Append(reply, done)
      BY <1>1, <3>1, <3>4, <3>7, AnswerKeeps
    <3>8. CASE reply' = Append(Append(reply, Note), done)
      BY <1>1, <3>1, <3>4, <3>8, AnswerKeeps
    <3>9. CASE reply' = Append(Append(reply, done), Note)
      BY <1>1, <3>1, <3>4, <3>9, AnswerKeeps
    <3> QED
      BY <3>2, <3>5, <3>6, <3>7, <3>8, <3>9
  <2>3. CASE RefuseWrite
    <3> DEFINE failed == ResultOf("error")
    <3>1. failed \in Message /\ failed.kind # "status" /\ failed.live = Head(wire).live
      BY <1>2, ResultFacts DEF ResultOf
    <3>2. reply' = Append(reply, failed) /\ WorldOK'
      BY <2>3 DEF RefuseWrite, IInv, WorldOK, job, link, printer
    <3> HIDE DEF failed
    <3> QED
      BY <1>1, <3>1, <3>2, AnswerKeeps
  <2> QED
    BY <2>1, <2>2, <2>3 DEF Printer
<1> QED
  BY <1>3, <1>4 DEF IInv

\* A notification without an answer, or none.
LEMMA NoteKeeps ==
  ASSUME IInv, reply' \in {reply, Append(reply, Note)}, UNCHANGED <<engine, wire>>
  PROVE  EngineOK' /\ WireOK' /\ ReplyOK' /\ OneLive' /\ Valid'
<1>1. EngineOK' /\ UNCHANGED <<s, old>>
  BY DEF engine, IInv, EngineOK
<1>2. Note \in Message /\ ~Note.live
  BY DEF Message, Note
<1>3. CASE reply' = reply
  BY <1>1, <1>3 DEF IInv, WireOK, ReplyOK, OneLive, Valid, NoneLive
<1>4. CASE reply' = Append(reply, Note)
  BY <1>1, <1>2, <1>4, ExtraKeeps
<1> QED
  BY <1>3, <1>4

LEMMA EnvironmentKeeps ==
  ASSUME IInv, Discover \/ Override \/ ConditionChanges \/ Disconnect \/ Reconnect
               \/ JobChanges \/ Settle
  PROVE  IInv'
<1>1. CASE Discover \/ Override \/ ConditionChanges \/ JobChanges \/ Settle
  <2>1. /\ reply' \in {reply, Append(reply, Note)} /\ UNCHANGED <<engine, wire>>
        /\ UNCHANGED <<conn, basis>>
    BY <1>1 DEF Discover, Override, ConditionChanges, JobChanges, Settle, link
  <2>2. EngineOK' /\ WireOK' /\ ReplyOK' /\ OneLive' /\ Valid'
    BY <2>1, NoteKeeps
  <2>3. Based'
    BY <2>1 DEF IInv, Based, engine
  <2>4. WorldOK'
    BY <1>1 DEF Discover, Override, ConditionChanges, JobChanges, Settle, IInv, WorldOK,
       job, link, printer
  <2> QED
    BY <2>2, <2>3, <2>4 DEF IInv
<1>2. CASE Disconnect
  <2>1. wire' \in Seq(Request) /\ LiveIn(wire') = {} /\ reply' \in Seq(Message)
        /\ LiveIn(reply') = {}
    BY <1>2 DEF Disconnect, LiveIn
  <2>2. WireOK' /\ ReplyOK' /\ OneLive' /\ Valid'
    BY <2>1, QuietsKeeps
  <2>3. EngineOK' /\ WorldOK' /\ Based'
    BY <1>2 DEF Disconnect, engine, job, printer, IInv, EngineOK, WorldOK, Based
  <2> QED
    BY <2>2, <2>3 DEF IInv
<1>3. CASE Reconnect
  <2>1. /\ UNCHANGED <<s, wire, reply>> /\ old' = (s.pending \/ s.phase # "query")
        /\ s.pending \in BOOLEAN
    BY <1>3 DEF Reconnect, IInv, EngineOK
  <2>2. EngineOK' /\ WorldOK' /\ WireOK' /\ ReplyOK' /\ OneLive'
    BY <1>3, <2>1 DEF Reconnect, job, printer, IInv, EngineOK, WorldOK, WireOK, ReplyOK,
       OneLive, NoneLive
  <2>3. Valid' /\ Based'
    BY <2>1 DEF IInv, OneLive, NoneLive, Valid, Based
  <2> QED
    BY <2>2, <2>3 DEF IInv
<1> QED
  BY <1>1, <1>2, <1>3

\* What became untrue is still waited for.
LEMMA OutdatedKeeps ==
  ASSUME WireOK, ReplyOK
  PROVE  /\ Outdated(wire) \in Seq(Request) /\ LiveIn(Outdated(wire)) = LiveIn(wire)
         /\ Outdated(reply) \in Seq(Message) /\ LiveIn(Outdated(reply)) = LiveIn(reply)
<1> DEFINE w == Outdated(wire)
           r == Outdated(reply)
<1>1. /\ w = [i \in DOMAIN wire |-> w[i]]
      /\ \A i \in DOMAIN wire : w[i] \in Request /\ w[i].live = wire[i].live
  <2>1. \A i \in DOMAIN wire : wire[i] \in Request
    BY DEF WireOK
  <2>2. \A m \in Request : /\ m.kind = "query" => [m EXCEPT !.valid = FALSE] \in Request
                                                  /\ [m EXCEPT !.valid = FALSE].live = m.live
                           /\ m.kind # "status"
    BY DEF Request, Query, Write, Fans
  <2> QED
    BY <2>1, <2>2 DEF Outdated
<1>2. /\ r = [i \in DOMAIN reply |-> r[i]]
      /\ \A i \in DOMAIN reply : r[i] \in Message /\ r[i].live = reply[i].live
  <2>1. \A i \in DOMAIN reply : reply[i] \in Message
    BY DEF ReplyOK
  <2>2. \A m \in Message : m.kind # "query"
    <3>1. Note.kind = "note" /\ Late.kind = "status"
      BY DEF Note, Late
    <3>2. \A m \in Status \cup Result : m.kind # "query"
      BY DEF Status, Result
    <3> QED
      BY <3>1, <3>2 DEF Message
  <2>3. \A m \in Status : [m EXCEPT !.valid = FALSE] \in Message
                          /\ [m EXCEPT !.valid = FALSE].live = m.live
    BY DEF Message, Status
  <2> QED
    BY <2>1, <2>2, <2>3, MessageFacts DEF Outdated
<1> HIDE DEF w, r
<1>3. w \in Seq(Request) /\ DOMAIN w = DOMAIN wire
  BY <1>1, MapSeq DEF WireOK
<1>4. r \in Seq(Message) /\ DOMAIN r = DOMAIN reply
  BY <1>2, MapSeq DEF ReplyOK
<1>5. LiveIn(w) = LiveIn(wire) /\ LiveIn(r) = LiveIn(reply)
  BY <1>1, <1>2, <1>3, <1>4 DEF LiveIn
<1> QED
  BY <1>3, <1>4, <1>5 DEF w, r

LEMMA TimeKeeps == ASSUME IInv, Time PROVE IInv'
<1> DEFINE
  Due  == waiting' = FALSE /\ UNCHANGED <<s, old, job, link, wire, reply, printer, quiet, basis>>
  Aged == /\ old' = TRUE /\ basis' = {}
          /\ wire' = Outdated(wire) /\ reply' = Outdated(reply)
          /\ UNCHANGED <<s, waiting, job, link, printer, quiet>>
<1>1. Due \/ Aged
  BY Zenon DEF Time
<1>2. ASSUME Due PROVE IInv'
  <2>1. EngineOK' /\ WorldOK'
    BY <1>2 DEF IInv, EngineOK, WorldOK, job, link, printer
  <2>2. WireOK' /\ ReplyOK' /\ OneLive'
    BY <1>2 DEF IInv, WireOK, ReplyOK, OneLive, NoneLive
  <2>3. Valid' /\ Based'
    BY <1>2 DEF IInv, Valid, Based, link
  <2> QED
    BY <2>1, <2>2, <2>3 DEF IInv
<1>3. ASSUME Aged PROVE IInv'
  <2>1. /\ wire' \in Seq(Request) /\ LiveIn(wire') = LiveIn(wire)
        /\ reply' \in Seq(Message) /\ LiveIn(reply') = LiveIn(reply)
    BY <1>3, OutdatedKeeps DEF IInv
  <2>2. WireOK' /\ ReplyOK' /\ OneLive' /\ Valid' /\ Based'
    BY <1>3, <2>1 DEF IInv, WireOK, ReplyOK, OneLive, NoneLive, Valid, Based
  <2>3. EngineOK' /\ WorldOK'
    BY <1>3 DEF IInv, EngineOK, WorldOK, job, link, printer
  <2> QED
    BY <2>2, <2>3 DEF IInv
<1> HIDE DEF Due, Aged
<1> QED
  BY <1>1, <1>2, <1>3

LEMMA InitIInv == Init => IInv
<1> SUFFICES ASSUME Init PROVE IInv
  OBVIOUS
<1>1. wire = <<>> /\ reply = <<>> /\ LiveIn(wire) = {} /\ LiveIn(reply) = {}
  BY DEF Init, LiveIn
<1>2. WireOK /\ ReplyOK /\ OneLive /\ Valid
  BY <1>1 DEF WireOK, ReplyOK, OneLive, NoneLive, AtMostOne, Valid
<1>3. EngineOK /\ WorldOK /\ Based
  BY DEF Init, EngineOK, WorldOK, Based
<1> QED
  BY <1>2, <1>3 DEF IInv

LEMMA StepKeeps == IInv /\ [Next]_vars => IInv'
<1> SUFFICES ASSUME IInv, [Next]_vars PROVE IInv'
  OBVIOUS
<1>1. CASE UNCHANGED vars
  BY <1>1 DEF vars, engine, job, link, printer, IInv, EngineOK, WorldOK, WireOK, ReplyOK,
     OneLive, NoneLive, Valid, Based
<1> QED
  BY <1>1, WorkerKeeps, HandlerKeeps, PrinterKeeps, TimeKeeps, EnvironmentKeeps DEF Next

\* Every reachable state satisfies the strengthened invariant.
THEOREM Invariance == Spec => []IInv
<1> QED
  BY InitIInv, StepKeeps, PTL DEF Spec

\* g_symbiont and the messages of symbiont_engine.h keep their types.
THEOREM TypeCorrect == Spec => []TypeOK
<1>1. IInv => TypeOK
  BY DEF IInv, EngineOK, WorldOK, WireOK, ReplyOK, TypeOK
<1> QED
  BY <1>1, Invariance, PTL

\* shu1_symbiont_next writes a fan only on the strength of a valid observation.
THEOREM WritesAreJustified == Spec => WriteIsJustified
<1>1. ASSUME IInv, NEW f \in Fans, Ask(f) PROVE f \in basis /\ s.demand = demand
  <2>1. f # "query" /\ s.pending \in BOOLEAN
    BY <1>1 DEF Fans, IInv, EngineOK
  <2>2. conn /\ f = DuePhase /\ (Restarted \/ ~s.pending)
    BY <1>1 DEF Ask, Available
  <2>3. ~Restarted /\ ~old /\ s.phase = f
    BY <2>1, <2>2 DEF DuePhase
  <2> QED
    BY <1>1, <2>1, <2>2, <2>3 DEF IInv, Based, Restarted
<1>2. IInv /\ [Next]_vars => [\A f \in Fans : Ask(f) => f \in basis /\ s.demand = demand]_vars
  BY <1>1
<1> QED
  BY <1>2, Invariance, PTL DEF Spec, WriteIsJustified
===============================================================================
