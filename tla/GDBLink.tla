------------------------------- MODULE GDBLink --------------------------------
(***************************************************************************)
(* GDBServer::update, byte by byte, and GDB at the other end of the USB    *)
(* serial line: framing, checksums, escapes, acknowledgements, the bytes   *)
(* that arrive while a reply goes out, the stop report, Ctrl-C, and the    *)
(* line closing. One action is one turn of the main loop in one state of   *)
(* the machine: at most one byte in, at most one byte out. A buffer the    *)
(* code will not read again before it overwrites it is shown as empty.     *)
(*                                                                         *)
(* A request is damaged at most Faults times on its way, and sent again    *)
(* after a timeout at most Retries times; what GDB is sent arrives whole   *)
(* (NackSpec: or is refused).                                              *)
(***************************************************************************)
EXTENDS Integers, Sequences, SequencesExt

CONSTANTS
  Request,    \* request bodies, sequences of bytes
  Continue,   \* the one of them that resumes
  Kill,       \* the one that is not answered
  AnswerOf,   \* [Request -> answer body]
  Stopped,    \* the stop report, "T05"
  Wrong,      \* the bytes a damaged one may turn into
  Faults, Retries

Dollar == 36
Hash == 35
Escape == 125
Plus == 43
Minus == 45
Break == 3
Star == 42       \* '*', which announces a repetition

Byte == 0..255
ASSUME GDBLinkAssumption ==
  /\ Request \subseteq Seq(Byte) /\ Continue \in Request /\ Kill \in Request /\ Continue # Kill
  /\ AnswerOf \in [Request -> Seq(Byte)] /\ Stopped \in Seq(Byte)
  /\ Wrong \subseteq Byte /\ Faults \in Nat /\ Retries \in Nat

\* None of the replies holds a byte that would have to be escaped.
ASSUME RepliesArePlain ==
  /\ \A i \in 1..Len(Stopped) : Stopped[i] \notin {Dollar, Hash, Escape, Star}
  /\ \A r \in Request : \A i \in 1..Len(AnswerOf[r]) :
       AnswerOf[r][i] \notin {Dollar, Hash, Escape, Star}

\* Discipline: where requests are damaged or repeated, nothing GDB sends holds a '-',
\* which a machine that waits for its acknowledgement would take for a refusal, and
\* not answer as one (NackSpec). On a clean line a request may hold anything.
CleanLine == Faults = 0 /\ Retries = 0
NothingRefused == Minus \notin Wrong /\ \A r \in Request : \A i \in 1..Len(r) : r[i] # Minus
ASSUME NoRefusal == CleanLine \/ NothingRefused

VARIABLES
  state,
  recv, checksum, expected_checksum,
  send, cursor,        \* the reply, and how much of it is out
  toPico, toHost,      \* bytes on the line
  host,                \* "closed" "ready" "sent" "acked"
  request, answer,     \* GDB: the request last sent, the answer last taken
  broke, retries,      \* GDB: Ctrl-C sent; resends of this request
  faults,
  handled              \* bodies handle_packet has seen since GDB's request

picoVars == <<state, recv, checksum, expected_checksum, send, cursor, handled>>
hostVars == <<host, request, answer, broke, retries, faults>>
vars == <<picoVars, toPico, toHost, hostVars>>

State == {"DISCONNECTED", "RUNNING", "KILLED", "IDLE", "RECV_PACKET", "RECV_PACKET_ESCAPE",
          "RECV_SUFFIX1", "RECV_SUFFIX2", "SEND_PREFIX", "SEND_PACKET", "SEND_SUFFIX1",
          "SEND_SUFFIX2", "SEND_SUFFIX3", "RECV_ACK"}

Init ==
  /\ state = "DISCONNECTED"
  /\ recv = <<>> /\ checksum = 0 /\ expected_checksum = 0
  /\ send = <<>> /\ cursor = 0
  /\ toPico = <<>> /\ toHost = <<>>
  /\ host = "closed" /\ request \in Request /\ answer = <<>>
  /\ broke = FALSE /\ retries = 0 /\ faults = 0 /\ handled = <<>>

-----------------------------------------------------------------------------
(* Bytes and packets *)

ToHex(x) == IF x < 10 THEN 48 + x ELSE 55 + x
\* -1 for what is no digit; or'ed into a byte, that is 0xFF.
FromHex(c) == IF c \in 48..57 THEN c - 48 ELSE IF c \in 97..102 THEN c - 87
              ELSE IF c \in 65..70 THEN c - 55 ELSE -1
Digit(sum, c) == IF FromHex(c) = -1 THEN 255 ELSE ((sum * 16) % 256) + FromHex(c)

Xor20(c) == IF (c \div 32) % 2 = 1 THEN c - 32 ELSE c + 32
Sum(bytes) ==
  LET sum[n \in 0..Len(bytes)] == IF n = 0 THEN 0 ELSE (sum[n - 1] + bytes[n]) % 256
  IN  sum[Len(bytes)]

\* What GDB puts on the line for a body, and what damage makes of it.
Escaped(body) ==
  FlattenSeq([i \in 1..Len(body) |->
    IF body[i] \in {Dollar, Hash, Escape} THEN <<Escape, Xor20(body[i])>> ELSE <<body[i]>>])
Framed(body) ==
  LET text == Escaped(body)
  IN  <<Dollar>> \o text \o <<Hash, ToHex(Sum(text) \div 16), ToHex(Sum(text) % 16)>>
Damaged(packet) ==
  {RemoveAt(packet, i) : i \in 1..Len(packet)}
    \cup {ReplaceAt(packet, i, c) : i \in 1..Len(packet), c \in Wrong}

-----------------------------------------------------------------------------
(* GDBServer *)

Connected == host # "closed"

\* A new connection is noticed at the top of update, before the byte is looked at.
Current == IF state = "DISCONNECTED" THEN "IDLE" ELSE state

\* A turn that reads a byte; and one that does not look at it, if there is one.
Receive(c) == toPico # <<>> /\ c = Head(toPico) /\ toPico' = Tail(toPico)
Overlook == toPico' \in {toPico} \cup {Tail(t) : t \in {toPico} \ {<<>>}}
Put(c) == toHost' = Append(toHost, c)
Forget(buffer, number) == buffer = <<>> /\ number = 0

Connect ==
  /\ Connected /\ state = "DISCONNECTED"
  /\ state' = "IDLE"
  /\ UNCHANGED <<recv, checksum, expected_checksum, send, cursor, handled, toPico, toHost, hostVars>>

\* The line is found closed; a byte that is still there is read and lost.
Disconnected ==
  /\ ~Connected /\ state' = "DISCONNECTED" /\ Overlook
  /\ Forget(recv', expected_checksum') /\ Forget(send', checksum') /\ cursor' = 0
  /\ UNCHANGED <<handled, toHost, hostVars>>

Idle ==
  /\ Connected /\ Current = "IDLE"
  /\ \E c \in Byte :
       /\ Receive(c)
       /\ state' = IF c = Dollar THEN "RECV_PACKET" ELSE "IDLE"
       /\ recv' = IF c = Dollar THEN <<>> ELSE recv
       /\ checksum' = IF c = Dollar THEN 0 ELSE checksum
  /\ UNCHANGED <<expected_checksum, send, cursor, handled, toHost, hostVars>>

RecvPacket ==
  /\ Connected /\ state = "RECV_PACKET"
  /\ \E c \in Byte :
       /\ Receive(c)
       /\ state' = IF c = Hash THEN "RECV_SUFFIX1"
                   ELSE IF c = Escape THEN "RECV_PACKET_ESCAPE" ELSE "RECV_PACKET"
       /\ expected_checksum' = IF c = Hash THEN 0 ELSE expected_checksum
       /\ checksum' = IF c = Hash THEN checksum ELSE (checksum + c) % 256
       /\ recv' = IF c \in {Hash, Escape} THEN recv ELSE Append(recv, c)
  /\ UNCHANGED <<send, cursor, handled, toHost, hostVars>>

RecvPacketEscape ==
  /\ Connected /\ state = "RECV_PACKET_ESCAPE"
  /\ \E c \in Byte :
       /\ Receive(c)
       /\ checksum' = (checksum + c) % 256
       /\ recv' = Append(recv, Xor20(c))
  /\ state' = "RECV_PACKET"
  /\ UNCHANGED <<expected_checksum, send, cursor, handled, toHost, hostVars>>

RecvSuffix1 ==
  /\ Connected /\ state = "RECV_SUFFIX1"
  /\ \E c \in Byte : Receive(c) /\ expected_checksum' = Digit(expected_checksum, c)
  /\ state' = "RECV_SUFFIX2"
  /\ UNCHANGED <<recv, checksum, send, cursor, handled, toHost, hostVars>>

\* Every handler sets a reply but c, once the hart runs, and k; a body no handler
\* knows is answered with nothing in it.
handle_packet ==
  /\ handled' = Append(handled, recv)
  /\ \/ recv = Continue /\ state' = "RUNNING" /\ send' = <<>>
     \/ recv = Continue /\ state' = "SEND_PREFIX" /\ send' = Stopped
     \/ recv = Kill /\ state' = "KILLED" /\ send' = <<>>
     \/ /\ recv \notin {Continue, Kill}
        /\ state' = "SEND_PREFIX"
        /\ send' = IF recv \in Request THEN AnswerOf[recv] ELSE <<>>
  /\ cursor' = 0

\* Mutant: after a bad checksum the machine stays in the packet.
RecvSuffix2Stay ==
  /\ Connected /\ state = "RECV_SUFFIX2"
  /\ \E c \in Byte :
       /\ Receive(c)
       /\ IF checksum = Digit(expected_checksum, c)
          THEN Put(Plus) /\ handle_packet
          ELSE Put(Minus) /\ state' = "RECV_PACKET" /\ UNCHANGED <<send, cursor, handled>>
  /\ Forget(recv', expected_checksum') /\ checksum' = 0
  /\ UNCHANGED hostVars
RecvSuffix2 ==
  /\ Connected /\ state = "RECV_SUFFIX2"
  /\ \E c \in Byte :
       /\ Receive(c)
       /\ IF checksum = Digit(expected_checksum, c)
          THEN Put(Plus) /\ handle_packet
          ELSE Put(Minus) /\ state' = "IDLE" /\ UNCHANGED <<send, cursor, handled>>
  /\ Forget(recv', expected_checksum') /\ checksum' = 0
  /\ UNCHANGED hostVars

SendPrefix ==
  /\ Connected /\ state = "SEND_PREFIX" /\ Overlook
  /\ Put(Dollar)
  /\ checksum' = 0 /\ cursor' = 0
  /\ state' = IF send = <<>> THEN "SEND_SUFFIX1" ELSE "SEND_PACKET"
  /\ UNCHANGED <<recv, expected_checksum, send, handled, hostVars>>

\* Mutant: the end of the reply is tested before the cursor moves.
SendPacketLate ==
  /\ Connected /\ state = "SEND_PACKET" /\ Overlook
  /\ LET c == IF cursor < Len(send) THEN send[cursor + 1] ELSE 0
     IN  Put(c) /\ checksum' = (checksum + c) % 256
  /\ cursor' = cursor + 1
  /\ state' = IF cursor = Len(send) THEN "SEND_SUFFIX1" ELSE "SEND_PACKET"
  /\ UNCHANGED <<recv, expected_checksum, send, handled, hostVars>>
\* The buffer is cleared before a reply is put in it: what follows it is 0. No byte
\* is escaped (RepliesArePlain).
SendPacket ==
  /\ Connected /\ state = "SEND_PACKET" /\ Overlook
  /\ LET c == IF cursor < Len(send) THEN send[cursor + 1] ELSE 0
     IN  Put(c) /\ checksum' = (checksum + c) % 256
  /\ cursor' = cursor + 1
  /\ state' = IF cursor' = Len(send) THEN "SEND_SUFFIX1" ELSE "SEND_PACKET"
  /\ UNCHANGED <<recv, expected_checksum, send, handled, hostVars>>

SendStep(from, c, to) ==
  /\ Connected /\ state = from /\ Overlook
  /\ Put(c) /\ state' = to
  /\ UNCHANGED <<recv, checksum, expected_checksum, send, cursor, handled, hostVars>>
SendSuffix1 == SendStep("SEND_SUFFIX1", Hash, "SEND_SUFFIX2")
SendSuffix2 == SendStep("SEND_SUFFIX2", ToHex(checksum \div 16), "SEND_SUFFIX3")
\* Mutant: the acknowledgement is not waited for.
SendSuffix3NoAck == SendStep("SEND_SUFFIX3", ToHex(checksum % 16), "IDLE")
SendSuffix3 == SendStep("SEND_SUFFIX3", ToHex(checksum % 16), "RECV_ACK")

\* Mutant: only a NACK ends the wait.
RecvAckNever ==
  /\ Connected /\ state = "RECV_ACK"
  /\ \E c \in Byte :
       /\ Receive(c)
       /\ state' = IF c = Minus THEN "SEND_PACKET" ELSE "RECV_ACK"
       /\ UNCHANGED <<send, checksum, cursor>>
  /\ UNCHANGED <<recv, expected_checksum, handled, toHost, hostVars>>
\* Anything else than an acknowledgement is skipped.
RecvAck ==
  /\ Connected /\ state = "RECV_ACK"
  /\ \E c \in Byte :
       /\ Receive(c)
       /\ state' = IF c = Plus THEN "IDLE" ELSE IF c = Minus THEN "SEND_PACKET" ELSE "RECV_ACK"
       /\ IF c = Plus THEN Forget(send', checksum') /\ cursor' = 0
          ELSE UNCHANGED <<send, checksum, cursor>>
  /\ UNCHANGED <<recv, expected_checksum, handled, toHost, hostVars>>

\* Mutant: the report goes out without its '$'.
ReportStopBare == send' = Stopped /\ cursor' = 0 /\ state' = "SEND_PACKET"
\* set_packet("T05")
ReportStop == send' = Stopped /\ cursor' = 0 /\ state' = "SEND_PREFIX"

\* Mutant: Ctrl-C is ignored.
RunningBreakSilent ==
  /\ Connected /\ state = "RUNNING"
  /\ \E c \in Byte : Receive(c) /\ UNCHANGED <<state, send, cursor>>
  /\ UNCHANGED <<recv, checksum, expected_checksum, handled, toHost, hostVars>>
RunningByte ==
  /\ Connected /\ state = "RUNNING"
  /\ \E c \in Byte :
       /\ Receive(c)
       /\ IF c = Break THEN ReportStop ELSE UNCHANGED <<state, send, cursor>>
  /\ UNCHANGED <<recv, checksum, expected_checksum, handled, toHost, hostVars>>

\* The poll finds the hart halted.
RunningPoll ==
  /\ Connected /\ state = "RUNNING" /\ Overlook
  /\ toPico # toPico' => Head(toPico) # Break
  /\ ReportStop
  /\ UNCHANGED <<recv, checksum, expected_checksum, handled, toHost, hostVars>>

Killed ==
  /\ Connected /\ state = "KILLED"
  /\ \E c \in Byte : Receive(c)
  /\ UNCHANGED <<picoVars, toHost, hostVars>>

Update ==
  \/ Connect \/ Disconnected \/ Idle
  \/ RecvPacket \/ RecvPacketEscape \/ RecvSuffix1 \/ RecvSuffix2
  \/ SendPrefix \/ SendPacket \/ SendSuffix1 \/ SendSuffix2 \/ SendSuffix3
  \/ RecvAck \/ RunningByte \/ RunningPoll \/ Killed

-----------------------------------------------------------------------------
(* GDB *)

Transmit(body) ==
  \/ toPico' = toPico \o Framed(body) /\ UNCHANGED faults
  \/ /\ faults < Faults /\ faults' = faults + 1
     /\ \E packet \in Damaged(Framed(body)) : toPico' = toPico \o packet

\* The old session's bytes are gone, and the Pico has seen the line close.
Open ==
  /\ host = "closed" /\ state = "DISCONNECTED" /\ toPico = <<>>
  /\ host' = "ready" /\ toHost' = <<>>
  /\ UNCHANGED <<picoVars, toPico, request, answer, broke, retries, faults>>

Close ==
  /\ host # "closed"
  /\ host' = "closed" /\ toHost' = <<>>
  /\ answer' = <<>> /\ handled' = <<>> /\ broke' = FALSE /\ retries' = 0
  /\ UNCHANGED <<state, recv, checksum, expected_checksum, send, cursor, toPico, request, faults>>

Ask(body) ==
  /\ host = "ready"
  /\ host' = "sent" /\ request' = body /\ answer' = <<>>
  /\ broke' = FALSE /\ retries' = 0 /\ handled' = <<>>
  /\ Transmit(body)
  /\ UNCHANGED <<state, recv, checksum, expected_checksum, send, cursor, toHost>>

Timeout ==
  /\ host = "sent" /\ retries < Retries
  /\ retries' = retries + 1
  /\ Transmit(request)
  /\ UNCHANGED <<picoVars, toHost, host, request, answer, broke>>

Heard(c) == toHost # <<>> /\ Head(toHost) = c /\ toHost' = Tail(toHost)

ReadNack ==
  /\ host = "sent" /\ Heard(Minus)
  /\ Transmit(request)
  /\ UNCHANGED <<picoVars, host, request, answer, broke, retries>>
ReadAck ==
  /\ host = "sent" /\ Heard(Plus)
  /\ host' = "acked"
  /\ UNCHANGED <<picoVars, toPico, request, answer, broke, retries, faults>>

\* A whole reply with the right checksum.
Replies == {n \in 4..Len(toHost) : toHost[1] = Dollar /\ toHost[n - 2] = Hash
                                   /\ \A i \in 1..(n - 3) : toHost[i] # Hash}
TakeReply ==
  /\ host = "acked"
  /\ \E n \in Replies :
       LET body == SubSeq(toHost, 2, n - 3)
       IN  /\ FromHex(toHost[n - 1]) * 16 + FromHex(toHost[n]) = Sum(body)
           /\ answer' = body
           /\ toHost' = SubSeq(toHost, n + 1, Len(toHost))
  /\ host' = "ready" /\ toPico' = Append(toPico, Plus)
  /\ UNCHANGED <<picoVars, request, broke, retries, faults>>

CtrlC ==
  /\ host = "acked" /\ request = Continue /\ ~broke
  /\ broke' = TRUE /\ toPico' = Append(toPico, Break)
  /\ UNCHANGED <<picoVars, toHost, host, request, answer, retries, faults>>

Next ==
  \/ Update
  \/ Open \/ Close \/ Timeout \/ ReadNack \/ ReadAck \/ TakeReply \/ CtrlC
  \/ \E body \in Request : Ask(body)

Spec == Init /\ [][Next]_vars

\* The main loop turns and USB delivers; GDB reads what it is sent and resends
\* what is not answered. Nothing makes a user press Ctrl-C, ask or close, and
\* nothing makes the hart stop.
FairSpec ==
  /\ Spec
  /\ WF_vars(Connect \/ Disconnected \/ Idle \/ RecvPacket \/ RecvPacketEscape \/ RecvSuffix1
               \/ RecvSuffix2 \/ SendPrefix \/ SendPacket \/ SendSuffix1 \/ SendSuffix2
               \/ SendSuffix3 \/ RecvAck \/ RunningByte \/ Killed)
  /\ WF_vars(Timeout) /\ WF_vars(ReadNack) /\ WF_vars(ReadAck) /\ WF_vars(TakeReply)

\* A reply is damaged on its way, and GDB asks for it again, once.
Refuse ==
  /\ host = "acked" /\ ~broke /\ broke' = TRUE
  /\ \E n \in Replies : toHost' = SubSeq(toHost, n + 1, Len(toHost))
  /\ toPico' = Append(toPico, Minus)
  /\ UNCHANGED <<picoVars, host, request, answer, retries, faults>>
\* The repeated reply is watched up to one byte past its end.
NackNext == (Next \/ Refuse) /\ cursor' <= Len(send') + 1
NackSpec == Init /\ [][NackNext]_vars

-----------------------------------------------------------------------------
TypeOK ==
  /\ state \in State
  /\ recv \in Seq(Byte) /\ checksum \in Byte /\ expected_checksum \in Byte
  /\ send \in {AnswerOf[r] : r \in Request} \cup {Stopped, <<>>} /\ cursor \in 0..Len(send)
  /\ toPico \in Seq(Byte) /\ toHost \in Seq(Byte)
  /\ host \in {"closed", "ready", "sent", "acked"}
  /\ request \in Request /\ answer \in Seq(Byte)
  /\ broke \in BOOLEAN /\ retries \in 0..Retries /\ faults \in 0..Faults
  /\ handled \in Seq(Seq(Byte))

\* Where GDB looks for an acknowledgement or a packet, it finds one: what comes
\* out of the machine is '+', '-' and whole "$body#cs".
RepliesFramed == toHost # <<>> => Head(toHost) \in {Plus, Minus, Dollar}

\* When GDB has its answer and the line is quiet the machine waits for a packet,
\* or for the rest of one, whatever was resent, damaged or dropped on the way.
Listening == {"IDLE", "RECV_PACKET", "RECV_PACKET_ESCAPE", "RECV_SUFFIX1", "RECV_SUFFIX2"}
EndsAgree == host = "ready" /\ toPico = <<>> /\ toHost = <<>> => Current \in Listening

\* A request is answered, however it was damaged, and however the resent one meets
\* the first one's reply.
Waiting == host \in {"sent", "acked"}
RequestAnswered ==
  Waiting /\ request \notin {Continue, Kill} ~> ~Waiting

\* Ctrl-C is answered by a stop report, even one that is dropped because the report
\* of a breakpoint is on its way out.
BreakAnswered == Waiting /\ broke ~> ~Waiting

\* The link is one exchange after another to GDB.
Phase ==
  IF host = "closed" THEN "closed"
  ELSE IF handled \notin {<<>>, <<request>>} THEN "astray"
  ELSE IF host = "ready" THEN "ready"
  ELSE IF handled = <<>> THEN "asked"
  ELSE IF state = "RUNNING" THEN "running"
  ELSE IF state = "KILLED" THEN "killed" ELSE "answered"
Contract == INSTANCE LinkContract WITH
  phase <- Phase, asked <- request, Answer <- LAMBDA r : AnswerOf[r], Nothing <- <<>>
ImplementsContract == Contract!ContractSpec
=============================================================================
