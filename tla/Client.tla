------------------------------- MODULE Client -------------------------------
(***************************************************************************)
(* One session of the Windows client, Client/client.cpp: a send thread     *)
(* that drains send_queue, a receive thread that handles datagrams, and a  *)
(* delay thread that queues one probe per second.                          *)
(*                                                                         *)
(* A step of a thread is one access to what the threads share: c_id,       *)
(* send_queue, delay_thread.  seq_num and the packet being sent belong to  *)
(* the send thread alone, so popping a job, building its packet, sendto    *)
(* and the callback are one step.                                          *)
(*                                                                         *)
(* The network may lose, duplicate and reorder: whatever a server could    *)
(* have answered to what was sent may arrive, any number of times.         *)
(*                                                                         *)
(* Bounds: MaxTicks probes are queued, MaxReceives calls of recvfrom       *)
(* return a datagram, MaxRecvFailures return SOCKET_ERROR and              *)
(* MaxSendFailures calls of sendto fail.                                   *)
(***************************************************************************)
EXTENDS Integers, Sequences

CONSTANTS
    Id,         \* the client_ids a server may grant
    NoId,       \* c_id(-1): no id yet
    SizeRange,  \* how many values a size_t has
    Junk,       \* what recv_buffer, never initialised, may hold at first
    MaxTicks, MaxReceives, MaxRecvFailures, MaxSendFailures

Message ==
    [type: {"welcome"}, id: Id] \union [type: {"echo"}, seq: Nat] \union [type: {"other"}]

ASSUME ClientAssumption ==
    /\ Id # {} /\ NoId \notin Id
    /\ SizeRange \in Nat /\ SizeRange > 48
    /\ Junk # {} /\ Junk \subseteq Message
    /\ MaxTicks \in Nat /\ MaxReceives \in Nat
    /\ MaxRecvFailures \in Nat /\ MaxSendFailures \in Nat

VARIABLES
    c_id, seq_num,
    send_queue,
    recv_buffer, recv_len,
    recv_pc,        \* where _recv_loop is: in recvfrom, or in handle_packet
    delaying,       \* delay_thread is joinable: _delay_loop runs
    alive,          \* FALSE once std::terminate was called
    tries,          \* the packets handed to sendto, and whether it took them
    welcomed,       \* how many packet_1 have been handled
    ticks, receives, recvFailures, sendFailures

sessionVars == <<c_id, seq_num, delaying, alive, welcomed>>
recvVars    == <<recv_buffer, recv_len, recv_pc>>
countVars   == <<ticks, receives, recvFailures, sendFailures>>
vars == <<sessionVars, send_queue, recvVars, tries, countVars>>

-----------------------------------------------------------------------------
(* Packets and lengths.                                                    *)

Packet == [kind: {"hello", "ack", "probe", "report"}, id: Id \union {NoId}, seq: Nat]

\* A job is the closure of send_queue.  It has captured its fields, except
\* that a probe reads c_id and seq_num when it is popped.
Hello     == [kind |-> "hello",  id |-> NoId, seq |-> 0]
Ack(i)    == [kind |-> "ack",    id |-> i,    seq |-> 0]
Probe     == [kind |-> "probe",  id |-> NoId, seq |-> 0]
Report(i, s) == [kind |-> "report", id |-> i, seq |-> s]

\* packet_func()
Build(job) ==
    IF job.kind = "probe" THEN [job EXCEPT !.id = c_id, !.seq = seq_num] ELSE job

\* What recvfrom returns for a whole packet_1, a packet_3 or a bare type.
Size(m) == CASE m.type = "welcome" -> 8
             [] m.type = "echo"    -> 48
             [] m.type = "other"   -> 2

\* recv_len < sizeof(uint16): the int is converted to size_t first.
TooShort(len) == len % SizeRange < 2

\* What the server may have sent to this session by now.
Receivable ==
    {m \in {[type |-> "welcome", id |-> i] : i \in Id} :
        \E n \in 1 .. Len(tries) : tries[n].packet.kind = "hello" /\ tries[n].ok}
    \union
    {[type |-> "echo", seq |-> tries[n].packet.seq] :
        n \in {k \in 1 .. Len(tries) : tries[k].packet.kind = "probe" /\ tries[k].ok}}
    \union
    {[type |-> "other"]}

-----------------------------------------------------------------------------
\* Mutant: the delay thread is started together with the other two.
InitDelaying ==
    /\ c_id = NoId /\ seq_num = 0
    /\ send_queue = <<Hello>>
    /\ recv_buffer \in Junk /\ recv_len = 0 /\ recv_pc = "recvfrom"
    /\ delaying = TRUE /\ alive = TRUE
    /\ tries = <<>> /\ welcomed = 0
    /\ ticks = 0 /\ receives = 0 /\ recvFailures = 0 /\ sendFailures = 0

\* client::run queues the packet_0, then starts the send and receive threads.
Init ==
    /\ c_id = NoId /\ seq_num = 0
    /\ send_queue = <<Hello>>
    /\ recv_buffer \in Junk /\ recv_len = 0 /\ recv_pc = "recvfrom"
    /\ delaying = FALSE /\ alive = TRUE
    /\ tries = <<>> /\ welcomed = 0
    /\ ticks = 0 /\ receives = 0 /\ recvFailures = 0 /\ sendFailures = 0

-----------------------------------------------------------------------------
(* _send_loop.                                                             *)

\* Mutant: every packet has the callback of a probe.
SendOneCountsAll(ok) ==
    /\ alive /\ send_queue # <<>>
    /\ ok \/ sendFailures < MaxSendFailures
    /\ tries' = Append(tries, [packet |-> Build(Head(send_queue)), ok |-> ok])
    /\ send_queue' = Tail(send_queue)
    /\ seq_num' = seq_num + 1
    /\ sendFailures' = IF ok THEN sendFailures ELSE sendFailures + 1
    /\ UNCHANGED <<c_id, delaying, alive, welcomed, recvVars, ticks, receives, recvFailures>>

\* Mutant: the callback decrements seq_num.
SendOneCountsDown(ok) ==
    /\ alive /\ send_queue # <<>>
    /\ ok \/ sendFailures < MaxSendFailures
    /\ tries' = Append(tries, [packet |-> Build(Head(send_queue)), ok |-> ok])
    /\ send_queue' = Tail(send_queue)
    /\ seq_num' = IF Head(send_queue).kind = "probe" THEN seq_num - 1 ELSE seq_num
    /\ sendFailures' = IF ok THEN sendFailures ELSE sendFailures + 1
    /\ UNCHANGED <<c_id, delaying, alive, welcomed, recvVars, ticks, receives, recvFailures>>

\* Pop a job, build its packet, send it; the callback of a probe increments
\* seq_num whether or not sendto failed.
SendOne(ok) ==
    /\ alive /\ send_queue # <<>>
    /\ ok \/ sendFailures < MaxSendFailures
    /\ tries' = Append(tries, [packet |-> Build(Head(send_queue)), ok |-> ok])
    /\ send_queue' = Tail(send_queue)
    /\ seq_num' = IF Head(send_queue).kind = "probe" THEN seq_num + 1 ELSE seq_num
    /\ sendFailures' = IF ok THEN sendFailures ELSE sendFailures + 1
    /\ UNCHANGED <<c_id, delaying, alive, welcomed, recvVars, ticks, receives, recvFailures>>

-----------------------------------------------------------------------------
(* _recv_loop and handle_packet.                                           *)

Receive(m) ==
    /\ alive /\ recv_pc = "recvfrom" /\ receives < MaxReceives
    /\ recv_buffer' = m /\ recv_len' = Size(m)
    /\ recv_pc' = "handle"
    /\ receives' = receives + 1
    /\ UNCHANGED <<sessionVars, send_queue, tries, ticks, recvFailures, sendFailures>>

\* A datagram without bytes.
ReceiveEmpty ==
    /\ alive /\ recv_pc = "recvfrom" /\ receives < MaxReceives
    /\ recv_len' = 0
    /\ recv_pc' = "handle"
    /\ receives' = receives + 1
    /\ UNCHANGED <<sessionVars, send_queue, recv_buffer, tries, ticks, recvFailures, sendFailures>>

\* recvfrom returns SOCKET_ERROR; the buffer still holds the last datagram.
ReceiveFails ==
    /\ alive /\ recv_pc = "recvfrom" /\ recvFailures < MaxRecvFailures
    /\ recv_len' = -1
    /\ recv_pc' = "handle"
    /\ recvFailures' = recvFailures + 1
    /\ UNCHANGED <<sessionVars, send_queue, recv_buffer, tries, ticks, receives, sendFailures>>

\* "invalid packet", or a type without a case.
HandleNothing ==
    /\ alive /\ recv_pc = "handle"
    /\ TooShort(recv_len) \/ recv_buffer.type = "other"
    /\ recv_pc' = "recvfrom"
    /\ UNCHANGED <<sessionVars, send_queue, recv_buffer, recv_len, tries, countVars>>

\* Mutant: no packet_2.
HandleWelcomeNoAck ==
    /\ alive /\ recv_pc = "handle"
    /\ ~TooShort(recv_len) /\ recv_buffer.type = "welcome"
    /\ c_id' = recv_buffer.id
    /\ welcomed' = welcomed + 1
    /\ recv_pc' = "spawn"
    /\ UNCHANGED <<seq_num, delaying, alive, send_queue, recv_buffer, recv_len, tries, countVars>>

\* case 1: c_id = p_packet->client_id
HandleWelcome ==
    /\ alive /\ recv_pc = "handle"
    /\ ~TooShort(recv_len) /\ recv_buffer.type = "welcome"
    /\ c_id' = recv_buffer.id
    /\ welcomed' = welcomed + 1
    /\ recv_pc' = "ack"
    /\ UNCHANGED <<seq_num, delaying, alive, send_queue, recv_buffer, recv_len, tries, countVars>>

\* Mutant: the delay thread is not started.
PushAckNoSpawn ==
    /\ alive /\ recv_pc = "ack"
    /\ send_queue' = Append(send_queue, Ack(c_id))
    /\ recv_pc' = "recvfrom"
    /\ UNCHANGED <<sessionVars, recv_buffer, recv_len, tries, countVars>>

\* case 1: send_queue.push(packet_2)
PushAck ==
    /\ alive /\ recv_pc = "ack"
    /\ send_queue' = Append(send_queue, Ack(c_id))
    /\ recv_pc' = "spawn"
    /\ UNCHANGED <<sessionVars, recv_buffer, recv_len, tries, countVars>>

\* case 1: delay_thread = std::thread(...).  Assigning to a joinable
\* std::thread calls std::terminate.
Spawn ==
    /\ alive /\ recv_pc = "spawn"
    /\ alive' = ~delaying
    /\ delaying' = TRUE
    /\ recv_pc' = "recvfrom"
    /\ UNCHANGED <<c_id, seq_num, welcomed, send_queue, recv_buffer, recv_len, tries, countVars>>

\* Mutant: the packet_6 carries the sequence number of the next probe.
HandleEchoNextSeq ==
    /\ alive /\ recv_pc = "handle"
    /\ ~TooShort(recv_len) /\ recv_buffer.type = "echo"
    /\ send_queue' = Append(send_queue, Report(c_id, seq_num))
    /\ recv_pc' = "recvfrom"
    /\ UNCHANGED <<sessionVars, recv_buffer, recv_len, tries, countVars>>

\* Mutant: a packet_3 that is not the answer to the last probe is dropped.
HandleEchoLastOnly ==
    /\ alive /\ recv_pc = "handle"
    /\ ~TooShort(recv_len) /\ recv_buffer.type = "echo"
    /\ send_queue' = IF recv_buffer.seq + 1 = seq_num
                     THEN Append(send_queue, Report(c_id, recv_buffer.seq)) ELSE send_queue
    /\ recv_pc' = "recvfrom"
    /\ UNCHANGED <<sessionVars, recv_buffer, recv_len, tries, countVars>>

\* Mutant: every packet_3 starts a delay thread.
HandleEchoSpawns ==
    /\ alive /\ recv_pc = "handle"
    /\ ~TooShort(recv_len) /\ recv_buffer.type = "echo"
    /\ send_queue' = Append(send_queue, Report(c_id, recv_buffer.seq))
    /\ recv_pc' = "spawn"
    /\ UNCHANGED <<sessionVars, recv_buffer, recv_len, tries, countVars>>

\* case 3: compute the delay and queue the packet_6.
HandleEcho ==
    /\ alive /\ recv_pc = "handle"
    /\ ~TooShort(recv_len) /\ recv_buffer.type = "echo"
    /\ send_queue' = Append(send_queue, Report(c_id, recv_buffer.seq))
    /\ recv_pc' = "recvfrom"
    /\ UNCHANGED <<sessionVars, recv_buffer, recv_len, tries, countVars>>

-----------------------------------------------------------------------------
\* _delay_loop: queue a packet_3, then sleep for a second.
Tick ==
    /\ alive /\ delaying /\ ticks < MaxTicks
    /\ send_queue' = Append(send_queue, Probe)
    /\ ticks' = ticks + 1
    /\ UNCHANGED <<sessionVars, recvVars, tries, receives, recvFailures, sendFailures>>

-----------------------------------------------------------------------------
RecvThread == HandleNothing \/ HandleWelcome \/ PushAck \/ Spawn \/ HandleEcho

Next ==
    \/ \E ok \in BOOLEAN : SendOne(ok)
    \/ \E m \in Receivable : Receive(m)
    \/ ReceiveEmpty
    \/ ReceiveFails
    \/ RecvThread
    \/ Tick

Spec == Init /\ [][Next]_vars

\* The threads of the session keep running; nothing is assumed of the network.
FairSpec ==
    /\ Spec
    /\ WF_vars(\E ok \in BOOLEAN : SendOne(ok))
    /\ WF_vars(RecvThread)

-----------------------------------------------------------------------------
(* Properties.                                                             *)

TypeOK ==
    /\ c_id \in Id \union {NoId} /\ seq_num \in Nat
    /\ send_queue \in Seq(Packet)
    /\ recv_buffer \in Message /\ recv_len \in Int
    /\ recv_pc \in {"recvfrom", "handle", "ack", "spawn"}
    /\ delaying \in BOOLEAN /\ alive \in BOOLEAN
    /\ tries \in Seq([packet: Packet, ok: BOOLEAN])
    /\ welcomed \in Nat
    /\ ticks \in Nat /\ receives \in Nat /\ recvFailures \in Nat /\ sendFailures \in Nat

ProbeAt(n) == tries[n].packet.kind = "probe"

\* The probes handed to sendto are numbered 0, 1, 2, ... without a gap or a
\* repetition, however many the delay thread has queued ahead of the send
\* thread and whatever is sent between them.
SeqNumbersConsecutive ==
    \A n \in 1 .. Len(tries) : ProbeAt(n) =>
        LET before == {k \in 1 .. n - 1 : ProbeAt(k)} IN
        /\ before = {} => tries[n].packet.seq = 0
        /\ before # {} => \E k \in before : tries[n].packet.seq = tries[k].packet.seq + 1
        /\ \A k \in before : tries[k].packet.seq < tries[n].packet.seq

\* A probe reads c_id when it is sent, not when it is queued: it never carries
\* c_id(-1), which the server would use as an index of its table.
ProbesCarryGrantedId ==
    \A n \in 1 .. Len(tries) : ProbeAt(n) => tries[n].packet.id \in Id

\* The server learns that a session is connected before it gets a probe of it,
\* as far as the order of sending goes.
AckBeforeProbe ==
    \A n \in 1 .. Len(tries) : ProbeAt(n) =>
        \E k \in 1 .. n - 1 : tries[k].packet.kind = "ack"

\* As long as recvfrom does not fail, every packet_6 reports on a probe that
\* was sent before it.
ReportsMatchProbe ==
    recvFailures = 0 =>
    \A n \in 1 .. Len(tries) : tries[n].packet.kind = "report" =>
        \E k \in 1 .. n - 1 : ProbeAt(k) /\ tries[k].ok
                              /\ tries[k].packet.seq = tries[n].packet.seq

\* The client ends by std::terminate only when it handles a second packet_1:
\* a duplicated one, or the same one again after recvfrom failed.
DiesOnlyOfSecondWelcome == ~alive => welcomed > 1 /\ (receives > 1 \/ recvFailures > 0)

\* A packet_3 in the hands of the receive thread is reported, however late it
\* is, unless the process dies first.
EchoIsReported ==
    \A s \in 0 .. MaxTicks :
        recv_pc = "handle" /\ recv_len = 48 /\ recv_buffer.type = "echo" /\ recv_buffer.seq = s
        ~> ~alive \/ \E n \in 1 .. Len(tries) :
                        tries[n].packet.kind = "report" /\ tries[n].packet.seq = s

\* handle_packet returns on an invalid packet, one whose recv_len is below
\* sizeof(uint16), and changes nothing.
InvalidPacketIsDropped ==
    [][recv_pc = "handle" /\ recv_len < 2 /\ recv_pc' # recv_pc
       => UNCHANGED <<sessionVars, send_queue>> /\ recv_pc' = "recvfrom"]_vars
=============================================================================
