---------------------------- MODULE MessageBuffer ----------------------------
(***************************************************************************)
(* How the printer client assembles a message of Moonraker from the events *)
(* of the websocket library (ws_message_buffer.h): a message is a text     *)
(* frame and its continuation frames, control frames come in between, a    *)
(* frame that is larger than the library's buffer arrives in chunks, and   *)
(* the buffer holds Capacity bytes with the NUL behind the text.           *)
(*                                                                         *)
(* The peer and the library are the environment: frames in the order of    *)
(* the protocol, their chunks in order and complete, a connection that may *)
(* be lost at any of them.  A byte is <<its message, its place in it>>.    *)
(* PrinterLink takes it from here with whole messages.                     *)
(***************************************************************************)
EXTENDS Naturals

CONSTANTS
  Capacity,     \* sizeof(bytes)
  MaxLength,    \* bound on the length of a message
  MaxMessages   \* bound on the number of messages

ASSUME CapacityAssumption == Capacity \in Nat \ {0}
ASSUME MessagesAssumption == MaxLength \in Nat /\ MaxMessages \in Nat

VARIABLES
  rx,      \* g_rx
  peer,    \* what the peer is sending, and how much of it has arrived
  handed   \* the messages that the last event handed to the parser

rxVars == <<rx, peer, handed>>

Index == 0..(Capacity - 1)
Byte == Nat \X Nat
NUL == <<0, 0>>

Buffer == [bytes: [Index -> Byte], used: Index, start: Index,
           received: Nat, length: Nat, active: BOOLEAN]

\* sent: bytes of the message in the frames before this one; got: of this frame.
Peer == [at: {"closed", "idle", "open", "frame"}, msg: Nat, sent: Nat,
         length: Nat, got: Nat, text: BOOLEAN, fin: BOOLEAN]

\* The buffer never fills up: its last byte is left to the NUL, and the room behind
\* the start of a frame does not wrap around (ws_message_buffer.h:30).
RxTypeOK ==
  /\ rx \in Buffer /\ peer \in Peer
  /\ \A m \in handed : \E n \in Index : m \in [0..(n - 1) -> Byte]

Cleared == [bytes |-> [i \in Index |-> NUL], used |-> 0, start |-> 0,
            received |-> 0, length |-> 0, active |-> FALSE]

RxInit ==
  /\ rx = Cleared
  /\ peer = [at |-> "closed", msg |-> 0, sent |-> 0, length |-> 0, got |-> 0,
             text |-> FALSE, fin |-> FALSE]
  /\ handed = {}

(***************************************************************************)
(* shu1_ws_accumulate.  An event e has the opcode, the fin bit and the     *)
(* length of its frame, the offset of its chunk and the chunk's data.      *)
(***************************************************************************)

\* Mutant: a ping is taken for a continuation.
ControlNever(e) == FALSE

Control(e) == e.opcode = "control"

\* A continuation needs a message that is open and a frame before it that is complete.
Continues(b, e) ==
  e.offset > 0 \/ e.opcode = "text" \/ (b.active /\ b.received = b.length)

Entered(b, e) ==
  IF e.offset > 0 THEN b
  ELSE LET used == IF e.opcode = "text" THEN 0 ELSE b.used
       IN [b EXCEPT !.used = used, !.active = TRUE, !.start = used, !.received = 0,
                    !.length = e.length]

\* Mutant: the byte for the NUL is forgotten.
FitsWithoutNul(b, e) ==
  /\ b.active /\ e.offset = b.received /\ e.length = b.length
  /\ e.count <= b.length - e.offset /\ b.length <= Capacity - b.start

Fits(b, e) ==
  /\ b.active /\ e.offset = b.received /\ e.length = b.length
  /\ e.count <= b.length - e.offset /\ b.length < Capacity - b.start

Rejected(b) == [b EXCEPT !.active = FALSE, !.used = 0]

Copied(b, e) ==
  [b EXCEPT !.bytes = [i \in Index |-> IF i \in b.used..(b.used + e.count - 1)
                                       THEN e.data[i - b.used] ELSE b.bytes[i]],
            !.used = b.used + e.count, !.received = b.received + e.count]

Terminated(b) == [b EXCEPT !.bytes[b.used] = NUL, !.active = FALSE]

Text(b) == [i \in 0..(b.used - 1) |-> b.bytes[i]]

\* A chunk that fits; the last one of the last frame hands the message over.
Store(b, e) ==
  IF e.fin /\ b.received + e.count = b.length
  THEN rx' = Terminated(Copied(b, e)) /\ handed' = {Text(Copied(b, e))}
  ELSE rx' = Copied(b, e) /\ handed' = {}

Accumulate(e) ==
  \/ Control(e) /\ rx' = rx /\ handed' = {}
  \/ ~Control(e) /\ ~Continues(rx, e) /\ rx' = Rejected(rx) /\ handed' = {}
  \/ ~Control(e) /\ Continues(rx, e)
     /\ \E b \in {Entered(rx, e)} :
          \/ ~Fits(b, e) /\ rx' = Rejected(b) /\ handed' = {}
          \/ Fits(b, e) /\ Store(b, e)

(***************************************************************************)
(* The peer, and the handler of its events (moonraker_client.c).           *)
(***************************************************************************)

\* A new message begins with a text frame, an open one goes on.
StartFrame(length, fin) ==
  LET new == peer.at = "idle"
      sent == IF new THEN 0 ELSE peer.sent
  IN
  /\ peer.at \in {"idle", "open"} /\ sent + length <= MaxLength
  /\ new => peer.msg < MaxMessages
  /\ peer' = [at |-> "frame", msg |-> IF new THEN peer.msg + 1 ELSE peer.msg, sent |-> sent,
              length |-> length, got |-> 0, text |-> new, fin |-> fin]
  /\ handed' = {} /\ UNCHANGED rx

\* The library never splits off an empty chunk.
Receive(count) ==
  /\ peer.at = "frame" /\ count <= peer.length - peer.got
  /\ count = 0 => peer.length = 0
  /\ Accumulate([opcode |-> IF peer.text THEN "text" ELSE "continuation", fin |-> peer.fin,
                 length |-> peer.length, offset |-> peer.got, count |-> count,
                 data |-> [k \in 0..(count - 1) |-> <<peer.msg, peer.sent + peer.got + k>>]])
  /\ peer' = IF peer.got + count < peer.length THEN [peer EXCEPT !.got = @ + count]
             ELSE [peer EXCEPT !.at = IF peer.fin THEN "idle" ELSE "open",
                               !.sent = @ + peer.length]

\* Pings, pongs and closes come between the frames of a message.
ReceiveControl(length) ==
  /\ peer.at \in {"idle", "open"}
  /\ Accumulate([opcode |-> "control", fin |-> TRUE, length |-> length, offset |-> 0,
                 count |-> length, data |-> [k \in 0..(length - 1) |-> NUL]])
  /\ UNCHANGED peer

\* The library reports a disconnect, which clears the buffer, or an error.
LoseConnection ==
  /\ peer.at # "closed" /\ peer' = [peer EXCEPT !.at = "closed"]
  /\ rx' \in {rx, Cleared} /\ handed' = {}

OpenConnection ==
  /\ peer.at = "closed" /\ peer' = [peer EXCEPT !.at = "idle"]
  /\ rx' = Cleared /\ handed' = {}

RxNext ==
  \/ \E length \in 0..MaxLength, fin \in BOOLEAN : StartFrame(length, fin)
  \/ \E count \in 0..MaxLength : Receive(count) \/ ReceiveControl(count)
  \/ LoseConnection \/ OpenConnection

RxSpec == RxInit /\ [][RxNext]_rxVars

(***************************************************************************)
(* Properties.                                                             *)
(***************************************************************************)

\* The parser gets every message that fits into the buffer, at its last chunk, byte by
\* byte and once, however it was cut into frames and chunks and whatever came before
\* it; one that does not fit is dropped as a whole, and nothing else is handed over.
Message(m, n) == [i \in 0..(n - 1) |-> <<m, i>>]
Total == peer.sent + peer.length
Ends == peer.at = "frame" /\ peer'.at = "idle"
DeliversExactly ==
  [][handed' = IF Ends /\ Total < Capacity THEN {Message(peer.msg, Total)} ELSE {}]_rxVars
=============================================================================
