---------------------------- MODULE ClientProofs ----------------------------
(***************************************************************************)
(* Proofs about Client for any number of probes, datagrams and failures,   *)
(* and for any set of client_ids.                                          *)
(***************************************************************************)
EXTENDS Client, TLAPS

\* A queue with an element less or more is still a queue.
LEMMA QueueType ==
    ASSUME NEW S, NEW q \in Seq(S)
    PROVE  /\ q # <<>> => Head(q) \in S /\ Tail(q) \in Seq(S)
           /\ \A e \in S : Append(q, e) \in Seq(S)
  OBVIOUS

\* An element of a sequence.
LEMMA ElementType ==
    ASSUME NEW S, NEW q \in Seq(S), NEW n \in 1 .. Len(q)
    PROVE  q[n] \in S
  OBVIOUS

\* packet_func() builds a packet of the kind of its job; only a probe gets its
\* fields when it is built.
LEMMA BuildType ==
    ASSUME TypeOK, NEW job \in Packet
    PROVE  /\ Build(job) \in Packet
           /\ Build(job).kind = job.kind
           /\ job.kind = "probe" => Build(job).id = c_id /\ Build(job).seq = seq_num
           /\ job.kind # "probe" => Build(job) = job
<1>1. CASE job.kind = "probe"
  <2>1. Build(job) = [kind |-> job.kind, id |-> c_id, seq |-> seq_num]
    BY <1>1 DEF Build, Packet
  <2> QED
    BY <1>1, <2>1 DEF TypeOK, Packet
<1>2. CASE job.kind # "probe"
  BY <1>2 DEF Build
<1> QED
  BY <1>1, <1>2

\* A datagram of the network is a message.
LEMMA ReceivableType ==
    ASSUME TypeOK, NEW m \in Receivable
    PROVE  m \in Message /\ Size(m) \in Int
<1>1. \A n \in 1 .. Len(tries) : tries[n].packet.seq \in Nat
  <2> SUFFICES ASSUME NEW n \in 1 .. Len(tries) PROVE tries[n].packet.seq \in Nat
    OBVIOUS
  <2>1. tries \in Seq([packet: Packet, ok: BOOLEAN])
    BY DEF TypeOK
  <2>2. tries[n] \in [packet: Packet, ok: BOOLEAN]
    BY <2>1, ElementType
  <2> QED
    BY <2>2 DEF Packet
<1>2. m \in Message
  BY <1>1 DEF Receivable, Message
<1> QED
  BY <1>2 DEF Message, Size

\* Every variable keeps its type in every step of the three threads.
THEOREM TypeCorrect == Spec => []TypeOK
<1>1. Init => TypeOK
  <2> SUFFICES ASSUME Init PROVE TypeOK
    OBVIOUS
  <2>1. Hello \in Packet
    BY DEF Hello, Packet
  <2>2. send_queue \in Seq(Packet) /\ tries \in Seq([packet: Packet, ok: BOOLEAN])
    BY <2>1 DEF Init
  <2>3. delaying \in BOOLEAN /\ alive \in BOOLEAN
    BY DEF Init
  <2> QED
    BY <2>2, <2>3, ClientAssumption DEF Init, TypeOK
<1>2. TypeOK /\ [Next]_vars => TypeOK'
  <2> SUFFICES ASSUME TypeOK, [Next]_vars PROVE TypeOK'
    OBVIOUS
  <2>1. ASSUME NEW ok \in BOOLEAN, SendOne(ok) PROVE TypeOK'
    <3>1. Head(send_queue) \in Packet /\ send_queue' \in Seq(Packet)
      BY <2>1, QueueType DEF TypeOK, SendOne
    <3>2. [packet |-> Build(Head(send_queue)), ok |-> ok] \in [packet: Packet, ok: BOOLEAN]
      BY <3>1, BuildType
    <3>3. tries' \in Seq([packet: Packet, ok: BOOLEAN])
      BY <2>1, <3>2, QueueType DEF TypeOK, SendOne
    <3>4. seq_num' \in Nat /\ sendFailures' \in Nat
      BY <2>1 DEF TypeOK, SendOne
    <3> QED
      BY <2>1, <3>1, <3>3, <3>4 DEF TypeOK, SendOne, recvVars
  <2>2. ASSUME NEW m \in Receivable, Receive(m) PROVE TypeOK'
    BY <2>2, ReceivableType DEF TypeOK, Receive, sessionVars
  <2>3. CASE ReceiveEmpty
    BY <2>3 DEF TypeOK, ReceiveEmpty, sessionVars
  <2>4. CASE ReceiveFails
    BY <2>4 DEF TypeOK, ReceiveFails, sessionVars
  <2>5. CASE HandleNothing
    BY <2>5 DEF TypeOK, HandleNothing, sessionVars, countVars
  <2>6. CASE HandleWelcome
    BY <2>6 DEF TypeOK, HandleWelcome, Message, countVars
  <2>7. CASE PushAck
    <3>1. Ack(c_id) \in Packet
      BY DEF Ack, Packet, TypeOK
    <3> QED
      BY <2>7, <3>1, QueueType DEF TypeOK, PushAck, sessionVars, countVars
  <2>8. CASE Spawn
    BY <2>8 DEF TypeOK, Spawn, countVars
  <2>9. CASE HandleEcho
    <3>1. Report(c_id, recv_buffer.seq) \in Packet
      BY <2>9 DEF HandleEcho, Report, Packet, TypeOK, Message
    <3> QED
      BY <2>9, <3>1, QueueType DEF TypeOK, HandleEcho, sessionVars, countVars
  <2>10. CASE Tick
    <3>1. Probe \in Packet
      BY DEF Probe, Packet
    <3> QED
      BY <2>10, <3>1, QueueType DEF TypeOK, Tick, sessionVars, recvVars
  <2>11. CASE UNCHANGED vars
    BY <2>11 DEF TypeOK, vars, sessionVars, recvVars, countVars
  <2> QED
    BY <2>1, <2>2, <2>3, <2>4, <2>5, <2>6, <2>7, <2>8, <2>9, <2>10, <2>11 DEF Next, RecvThread
<1> QED
  BY <1>1, <1>2, PTL DEF Spec

-----------------------------------------------------------------------------
(* The history of the send thread.                                         *)

\* Only the send thread calls sendto and counts probes.
LEMMA OnlySendOne ==
    ASSUME [Next]_vars
    PROVE  (\E ok \in BOOLEAN : SendOne(ok)) \/ UNCHANGED <<tries, seq_num>>
  BY DEF Next, RecvThread, Receive, ReceiveEmpty, ReceiveFails, HandleNothing, HandleWelcome,
         PushAck, Spawn, HandleEcho, Tick, vars, sessionVars, recvVars, countVars

\* SendOne pops the first job and adds its packet to the history.
LEMMA SendOneEffect ==
    ASSUME TypeOK, NEW ok \in BOOLEAN, SendOne(ok)
    PROVE  /\ Len(send_queue) \in Nat /\ Len(send_queue) > 0
           /\ Head(send_queue) = send_queue[1] /\ send_queue[1] \in Packet
           /\ Len(send_queue') = Len(send_queue) - 1
           /\ \A m \in 1 .. Len(send_queue') : send_queue'[m] = send_queue[m + 1]
           /\ Len(tries) \in Nat /\ Len(tries') = Len(tries) + 1
           /\ \A n \in 1 .. Len(tries) : tries'[n] = tries[n]
           /\ tries'[Len(tries) + 1].packet = Build(send_queue[1])
           /\ tries'[Len(tries) + 1].ok = ok
<1> DEFINE new == [packet |-> Build(Head(send_queue)), ok |-> ok]
<1>1. send_queue \in Seq(Packet) /\ send_queue # <<>> /\ tries \in Seq([packet: Packet, ok: BOOLEAN])
  BY DEF TypeOK, SendOne
<1>2. send_queue' = Tail(send_queue) /\ tries' = Append(tries, new)
  BY DEF SendOne
<1>3. Head(send_queue) = send_queue[1] /\ send_queue[1] \in Packet
  BY <1>1
<1>4. /\ Len(send_queue) \in Nat /\ Len(send_queue) > 0
      /\ Len(send_queue') = Len(send_queue) - 1
      /\ \A m \in 1 .. Len(send_queue') : send_queue'[m] = send_queue[m + 1]
  BY <1>1, <1>2
<1>5. /\ Len(tries) \in Nat /\ Len(tries') = Len(tries) + 1
      /\ \A n \in 1 .. Len(tries) : tries'[n] = tries[n]
      /\ tries'[Len(tries) + 1] = new
  <2> HIDE DEF new
  <2> QED
    BY <1>1, <1>2
<1> QED
  BY <1>3, <1>4, <1>5

\* A packet of the history is a packet.
LEMMA TriedType ==
    ASSUME TypeOK, NEW n \in 1 .. Len(tries)
    PROVE  tries[n].packet \in Packet /\ tries[n].packet.seq \in Nat
<1>1. tries \in Seq([packet: Packet, ok: BOOLEAN])
  BY DEF TypeOK
<1>2. tries[n] \in [packet: Packet, ok: BOOLEAN]
  BY <1>1, ElementType
<1> QED
  BY <1>2 DEF Packet

\* What seq_num counts: every probe of the history has a smaller number, and
\* the last one has the number before it.
Counted ==
    /\ \A n \in 1 .. Len(tries) : ProbeAt(n) => tries[n].packet.seq < seq_num
    /\ seq_num > 0 => \E n \in 1 .. Len(tries) : ProbeAt(n) /\ tries[n].packet.seq = seq_num - 1

SeqInv == Counted /\ SeqNumbersConsecutive

\* The packet SendOne adds keeps the numbering; the packets before it are as
\* they were.
LEMMA SeqInductive ==
    ASSUME TypeOK, SeqInv, [Next]_vars
    PROVE  SeqInv'
<1>1. CASE UNCHANGED <<tries, seq_num>>
  BY <1>1 DEF SeqInv, Counted, SeqNumbersConsecutive, ProbeAt
<1>2. ASSUME NEW ok \in BOOLEAN, SendOne(ok) PROVE SeqInv'
  <2> DEFINE L == Len(tries)
             old == {k \in 1 .. L : ProbeAt(k)}
  <2>1. /\ L \in Nat /\ Len(tries') = L + 1
        /\ \A n \in 1 .. L : tries'[n] = tries[n]
        /\ send_queue[1] \in Packet
        /\ tries'[L + 1].packet = Build(send_queue[1])
    BY <1>2, SendOneEffect
  <2>2. \A n \in 1 .. L : ProbeAt(n)' <=> ProbeAt(n)
    BY <2>1 DEF ProbeAt
  <2>3. \A n \in 1 .. L : {k \in 1 .. n - 1 : ProbeAt(k)}' = {k \in 1 .. n - 1 : ProbeAt(k)}
    BY <2>1, <2>2
  <2>4. seq_num \in Nat /\ \A n \in 1 .. L : tries[n].packet.seq \in Nat
    BY TriedType DEF TypeOK
  <2>5. CASE send_queue[1].kind = "probe"
    <3>1. /\ tries'[L + 1].packet.kind = "probe" /\ tries'[L + 1].packet.seq = seq_num
          /\ seq_num' = seq_num + 1
      BY <1>2, <2>1, <2>5, BuildType, SendOneEffect DEF SendOne
    <3>2. Counted'
      <4>1. \A n \in 1 .. L : ProbeAt(n)' => tries'[n].packet.seq < seq_num'
        BY <2>1, <2>2, <2>4, <3>1 DEF Counted, SeqInv
      <4>2. /\ \A n \in 1 .. Len(tries') : n \in 1 .. L \/ n = L + 1
            /\ L + 1 \in 1 .. Len(tries')
        BY <2>1
      <4>3. tries'[L + 1].packet.seq = seq_num' - 1 /\ tries'[L + 1].packet.seq < seq_num'
        BY <2>4, <3>1
      <4> QED
        BY <3>1, <4>1, <4>2, <4>3 DEF Counted, ProbeAt
    <3>3. \A n : n = L + 1 => {k \in 1 .. n - 1 : ProbeAt(k)}' = old
      BY <2>1, <2>2
    <3>4. /\ old = {} => seq_num = 0
          /\ old # {} => \E k \in old : seq_num = tries[k].packet.seq + 1
          /\ \A k \in old : tries[k].packet.seq < seq_num
      <4>1. \A k \in old : tries[k].packet.seq < seq_num
        BY DEF Counted, SeqInv
      <4>2. seq_num > 0 => \E k \in old : tries[k].packet.seq = seq_num - 1
        BY DEF Counted, SeqInv
      <4>3. \A k \in old : tries[k].packet.seq \in Nat
        BY <2>4
      <4> HIDE DEF old
      <4>4. old # {} => seq_num > 0
        BY <2>4, <4>1, <4>3
      <4>5. old # {} => \E k \in old : seq_num = tries[k].packet.seq + 1
        BY <2>4, <4>2, <4>3, <4>4
      <4>6. old = {} => seq_num = 0
        BY <2>4, <4>2
      <4> QED
        BY <4>1, <4>5, <4>6
    <3>5. SeqNumbersConsecutive'
      <4> SUFFICES ASSUME NEW n \in 1 .. L + 1, ProbeAt(n)'
                   PROVE  LET before == {k \in 1 .. n - 1 : ProbeAt(k)}' IN
                          /\ before = {} => tries'[n].packet.seq = 0
                          /\ before # {} => \E k \in before : tries'[n].packet.seq = tries'[k].packet.seq + 1
                          /\ \A k \in before : tries'[k].packet.seq < tries'[n].packet.seq
        BY <2>1 DEF SeqNumbersConsecutive
      <4>1. CASE n \in 1 .. L
        <5> DEFINE before == {k \in 1 .. n - 1 : ProbeAt(k)}
        <5>1. ProbeAt(n)
          BY <2>2, <4>1
        <5>2. /\ before = {} => tries[n].packet.seq = 0
              /\ before # {} => \E k \in before : tries[n].packet.seq = tries[k].packet.seq + 1
              /\ \A k \in before : tries[k].packet.seq < tries[n].packet.seq
          BY <4>1, <5>1 DEF SeqInv, SeqNumbersConsecutive
        <5>3. tries'[n] = tries[n] /\ \A k \in before : tries'[k] = tries[k]
          BY <2>1, <4>1
        <5>4. {k \in 1 .. n - 1 : ProbeAt(k)}' = before
          BY <2>3, <4>1
        <5> HIDE DEF before
        <5> QED
          BY <5>2, <5>3, <5>4
      <4>2. CASE n = L + 1
        BY <2>1, <3>1, <3>3, <3>4, <4>2
      <4> QED
        BY <2>1, <4>1, <4>2
    <3> QED
      BY <3>2, <3>5 DEF SeqInv
  <2>6. CASE send_queue[1].kind # "probe"
    <3>1. tries'[L + 1].packet.kind # "probe" /\ seq_num' = seq_num
      BY <1>2, <2>1, <2>6, BuildType, SendOneEffect DEF SendOne
    <3>2. Counted'
      BY <2>1, <3>1 DEF Counted, SeqInv, ProbeAt
    <3>3. \A n \in 1 .. Len(tries') : ProbeAt(n)' => n \in 1 .. L
      BY <2>1, <3>1 DEF ProbeAt
    <3>4. SeqNumbersConsecutive'
      <4> SUFFICES ASSUME NEW n \in 1 .. L, ProbeAt(n)
                   PROVE  LET before == {k \in 1 .. n - 1 : ProbeAt(k)}' IN
                          /\ before = {} => tries'[n].packet.seq = 0
                          /\ before # {} => \E k \in before : tries'[n].packet.seq = tries'[k].packet.seq + 1
                          /\ \A k \in before : tries'[k].packet.seq < tries'[n].packet.seq
        BY <2>2, <3>3 DEF SeqNumbersConsecutive
      <4> DEFINE before == {k \in 1 .. n - 1 : ProbeAt(k)}
      <4>1. /\ before = {} => tries[n].packet.seq = 0
            /\ before # {} => \E k \in before : tries[n].packet.seq = tries[k].packet.seq + 1
            /\ \A k \in before : tries[k].packet.seq < tries[n].packet.seq
        BY DEF SeqInv, SeqNumbersConsecutive
      <4>2. tries'[n] = tries[n] /\ \A k \in before : tries'[k] = tries[k]
        BY <2>1
      <4>3. {k \in 1 .. n - 1 : ProbeAt(k)}' = before
        BY <2>3
      <4> HIDE DEF before
      <4> QED
        BY <4>1, <4>2, <4>3
    <3> QED
      BY <3>2, <3>4 DEF SeqInv
  <2> QED
    BY <2>5, <2>6
<1> QED
  BY <1>1, <1>2, OnlySendOne

\* The probes of a session are numbered 0, 1, 2, ... in the order they are
\* handed to sendto: _send_loop alone reads and increments seq_num.
THEOREM ProbesNumbered == Spec => []SeqNumbersConsecutive
<1>1. Init => SeqInv
  BY DEF Init, SeqInv, Counted, SeqNumbersConsecutive
<1>2. TypeOK /\ SeqInv /\ [Next]_vars => SeqInv'
  BY SeqInductive
<1>3. SeqInv => SeqNumbersConsecutive
  BY DEF SeqInv
<1> QED
  BY <1>1, <1>2, <1>3, TypeCorrect, PTL DEF Spec

-----------------------------------------------------------------------------
(* What has been pushed, and what has been sent of it.                     *)

\* push() adds one job behind the others.
LEMMA PushEffect ==
    ASSUME TypeOK, NEW job, send_queue' = Append(send_queue, job)
    PROVE  /\ Len(send_queue) \in Nat /\ Len(send_queue') = Len(send_queue) + 1
           /\ \A m \in 1 .. Len(send_queue) : send_queue'[m] = send_queue[m]
           /\ send_queue'[Len(send_queue) + 1] = job
<1>1. send_queue \in Seq(Packet)
  BY DEF TypeOK
<1> QED
  BY <1>1

\* c_id is a granted id from the moment handle_packet has stored one, which is
\* before anything that leads to a probe.
Granted ==
    \/ c_id \in Id
    \/ /\ ~delaying /\ recv_pc \notin {"ack", "spawn"}
       /\ \A m \in 1 .. Len(send_queue) : send_queue[m].kind # "probe"

GrantInv == Granted /\ ProbesCarryGrantedId

\* c_id only changes from one granted id to another; without one there is no
\* delay thread, and no probe is queued.
LEMMA GrantInductive ==
    ASSUME TypeOK, GrantInv, [Next]_vars
    PROVE  GrantInv'
<1>1. ASSUME NEW ok \in BOOLEAN, SendOne(ok) PROVE GrantInv'
  <2>1. send_queue[1].kind = "probe" => c_id \in Id
    BY <1>1, SendOneEffect DEF GrantInv, Granted
  <2>2. Granted'
    BY <1>1, SendOneEffect DEF GrantInv, Granted, SendOne, recvVars
  <2>3. ProbesCarryGrantedId'
    BY <1>1, <2>1, SendOneEffect, BuildType DEF GrantInv, ProbesCarryGrantedId, ProbeAt
  <2> QED
    BY <2>2, <2>3 DEF GrantInv
<1>2. ASSUME NEW m \in Receivable, Receive(m) PROVE GrantInv'
  BY <1>2 DEF Receive, GrantInv, Granted, ProbesCarryGrantedId, ProbeAt, sessionVars
<1>3. CASE ReceiveEmpty
  BY <1>3 DEF ReceiveEmpty, GrantInv, Granted, ProbesCarryGrantedId, ProbeAt, sessionVars
<1>4. CASE ReceiveFails
  BY <1>4 DEF ReceiveFails, GrantInv, Granted, ProbesCarryGrantedId, ProbeAt, sessionVars
<1>5. CASE HandleNothing
  BY <1>5 DEF HandleNothing, GrantInv, Granted, ProbesCarryGrantedId, ProbeAt, sessionVars
<1>6. CASE HandleWelcome
  BY <1>6 DEF HandleWelcome, GrantInv, Granted, ProbesCarryGrantedId, ProbeAt, TypeOK, Message
<1>7. CASE PushAck
  BY <1>7 DEF PushAck, GrantInv, Granted, ProbesCarryGrantedId, ProbeAt, sessionVars
<1>8. CASE Spawn
  BY <1>8 DEF Spawn, GrantInv, Granted, ProbesCarryGrantedId, ProbeAt
<1>9. CASE HandleEcho
  <2>1. send_queue' = Append(send_queue, Report(c_id, recv_buffer.seq))
    BY <1>9 DEF HandleEcho
  <2>2. Granted'
    BY <1>9, <2>1, PushEffect DEF HandleEcho, GrantInv, Granted, Report, sessionVars
  <2> QED
    BY <1>9, <2>2 DEF HandleEcho, GrantInv, ProbesCarryGrantedId, ProbeAt
<1>10. CASE Tick
  BY <1>10 DEF Tick, GrantInv, Granted, ProbesCarryGrantedId, ProbeAt, sessionVars
<1>11. CASE UNCHANGED vars
  BY <1>11 DEF vars, GrantInv, Granted, ProbesCarryGrantedId, ProbeAt, sessionVars, recvVars
<1> QED
  BY <1>1, <1>2, <1>3, <1>4, <1>5, <1>6, <1>7, <1>8, <1>9, <1>10, <1>11 DEF Next, RecvThread

\* No probe carries c_id(-1), in any interleaving of the three threads.
THEOREM ProbesGranted == Spec => []ProbesCarryGrantedId
<1>1. Init => GrantInv
  BY DEF Init, GrantInv, Granted, ProbesCarryGrantedId, Hello
<1>2. TypeOK /\ GrantInv /\ [Next]_vars => GrantInv'
  BY GrantInductive
<1>3. GrantInv => ProbesCarryGrantedId
  BY DEF GrantInv
<1> QED
  BY <1>1, <1>2, <1>3, TypeCorrect, PTL DEF Spec

-----------------------------------------------------------------------------
(* The order of the first packet_2 and the first packet_3.                 *)

\* A packet_2 was handed to sendto.
Acked == \E n \in 1 .. Len(tries) : tries[n].packet.kind = "ack"

\* A packet_2 is among the first n - 1 jobs.
AckAhead(n) == \E k \in 1 .. n - 1 : send_queue[k].kind = "ack"

\* The queue is first in first out: each probe in it has a packet_2 ahead of
\* it, or there is none ahead because it was sent already.
AckFirst ==
    /\ \A n \in 1 .. Len(send_queue) : send_queue[n].kind = "probe" => Acked \/ AckAhead(n)
    /\ delaying \/ recv_pc = "spawn" =>
          Acked \/ \E k \in 1 .. Len(send_queue) : send_queue[k].kind = "ack"

AckInv == AckFirst /\ AckBeforeProbe

\* A push keeps the order: a packet_2 is pushed before the delay thread that
\* pushes the probes is started.
LEMMA AckPushed ==
    ASSUME TypeOK, AckInv, NEW job, send_queue' = Append(send_queue, job), tries' = tries,
           job.kind = "probe" => delaying,
           delaying' => delaying,
           recv_pc' = "spawn" => recv_pc = "spawn" \/ job.kind = "ack"
    PROVE  AckInv'
<1>1. Acked' <=> Acked
  BY DEF Acked
<1>2. \A n \in 1 .. Len(send_queue) : send_queue'[n] = send_queue[n] /\ (AckAhead(n) => AckAhead(n)')
  BY PushEffect DEF AckAhead
<1>3. ASSUME NEW n \in 1 .. Len(send_queue'), send_queue'[n].kind = "probe"
      PROVE  Acked' \/ AckAhead(n)'
  <2>1. CASE n \in 1 .. Len(send_queue)
    BY <1>1, <1>2, <1>3, <2>1 DEF AckInv, AckFirst
  <2>2. CASE n = Len(send_queue) + 1
    <3>1. Acked \/ \E k \in 1 .. Len(send_queue) : send_queue[k].kind = "ack"
      BY <1>3, <2>2, PushEffect DEF AckInv, AckFirst
    <3> QED
      BY <1>1, <2>2, <3>1, PushEffect DEF AckAhead
  <2> QED
    BY <2>1, <2>2, PushEffect
<1>4. delaying' \/ recv_pc' = "spawn" =>
         Acked' \/ \E k \in 1 .. Len(send_queue') : send_queue'[k].kind = "ack"
  BY <1>1, PushEffect DEF AckInv, AckFirst
<1>5. AckBeforeProbe'
  BY DEF AckInv, AckBeforeProbe, ProbeAt
<1> QED
  BY <1>3, <1>4, <1>5 DEF AckInv, AckFirst

\* Popping the first job keeps the order: if it is a packet_2 it is sent now,
\* and otherwise a packet_2 ahead of a probe in the queue is still ahead of it.
LEMMA AckPopped ==
    ASSUME TypeOK, AckInv, NEW ok \in BOOLEAN, SendOne(ok)
    PROVE  AckInv'
<1> DEFINE L == Len(tries)
<1>1. /\ L \in Nat /\ Len(tries') = L + 1
      /\ \A n \in 1 .. L : tries'[n] = tries[n]
      /\ tries'[L + 1].packet.kind = send_queue[1].kind
  BY SendOneEffect, BuildType
<1>2. Acked' <=> Acked \/ send_queue[1].kind = "ack"
  BY <1>1 DEF Acked
<1>3. Len(send_queue) \in Nat /\ Len(send_queue) > 0
      /\ Len(send_queue') = Len(send_queue) - 1
      /\ \A m \in 1 .. Len(send_queue') : send_queue'[m] = send_queue[m + 1]
  BY SendOneEffect
<1>4. ASSUME NEW n \in 1 .. Len(send_queue'), send_queue'[n].kind = "probe"
      PROVE  Acked' \/ AckAhead(n)'
  <2>1. Acked \/ AckAhead(n + 1)
    BY <1>3, <1>4 DEF AckInv, AckFirst
  <2>2. ASSUME NEW k \in 1 .. n, send_queue[k].kind = "ack"
        PROVE  send_queue[1].kind = "ack" \/ AckAhead(n)'
    <3>1. CASE k = 1
      BY <2>2, <3>1
    <3>2. CASE k # 1
      <4>1. k - 1 \in 1 .. n - 1 /\ k - 1 \in 1 .. Len(send_queue') /\ (k - 1) + 1 = k
        BY <1>3, <3>2
      <4>2. send_queue'[k - 1].kind = "ack"
        BY <1>3, <2>2, <4>1
      <4> QED
        BY <4>1, <4>2 DEF AckAhead
    <3> QED
      BY <3>1, <3>2
  <2> QED
    BY <1>2, <2>1, <2>2 DEF AckAhead
<1>5. delaying' \/ recv_pc' = "spawn" =>
         Acked' \/ \E k \in 1 .. Len(send_queue') : send_queue'[k].kind = "ack"
  <2> SUFFICES ASSUME delaying' \/ recv_pc' = "spawn", ~Acked'
               PROVE  \E k \in 1 .. Len(send_queue') : send_queue'[k].kind = "ack"
    OBVIOUS
  <2>1. delaying \/ recv_pc = "spawn"
    BY DEF SendOne, recvVars
  <2>2. PICK k \in 1 .. Len(send_queue) : send_queue[k].kind = "ack"
    BY <1>2, <2>1 DEF AckInv, AckFirst
  <2>3. k - 1 \in 1 .. Len(send_queue') /\ (k - 1) + 1 = k
    BY <1>2, <1>3, <2>2
  <2>4. send_queue'[k - 1].kind = "ack"
    BY <1>3, <2>2, <2>3
  <2> QED
    BY <2>3, <2>4
<1>6. AckBeforeProbe'
  <2>1. send_queue[1].kind = "probe" => Acked
    BY <1>3 DEF AckInv, AckFirst, AckAhead
  <2> SUFFICES ASSUME NEW n \in 1 .. L + 1, tries'[n].packet.kind = "probe"
               PROVE  \E k \in 1 .. n - 1 : tries'[k].packet.kind = "ack"
    BY <1>1 DEF AckBeforeProbe, ProbeAt
  <2>2. CASE n \in 1 .. L
    <3>1. PICK k \in 1 .. n - 1 : tries[k].packet.kind = "ack"
      BY <1>1, <2>2 DEF AckInv, AckBeforeProbe, ProbeAt
    <3> QED
      BY <1>1, <2>2, <3>1
  <2>3. CASE n = L + 1
    <3>1. PICK k \in 1 .. L : tries[k].packet.kind = "ack"
      BY <1>1, <2>1, <2>3 DEF Acked
    <3> QED
      BY <1>1, <2>3, <3>1
  <2> QED
    BY <1>1, <2>2, <2>3
<1> QED
  BY <1>4, <1>5, <1>6 DEF AckInv, AckFirst

\* The other steps neither push nor pop; only Spawn starts the delay thread.
LEMMA AckInductive ==
    ASSUME TypeOK, AckInv, [Next]_vars
    PROVE  AckInv'
<1>1. ASSUME NEW ok \in BOOLEAN, SendOne(ok) PROVE AckInv'
  BY <1>1, AckPopped
<1>2. CASE PushAck
  <2>1. Ack(c_id).kind = "ack"
    BY DEF Ack
  <2> QED
    BY <1>2, <2>1, AckPushed DEF PushAck, sessionVars
<1>3. CASE HandleEcho
  <2>1. Report(c_id, recv_buffer.seq).kind = "report"
    BY DEF Report
  <2> QED
    BY <1>3, <2>1, AckPushed DEF HandleEcho, sessionVars
<1>4. CASE Tick
  BY <1>4, AckPushed DEF Tick, sessionVars, recvVars
<1>5. ASSUME UNCHANGED <<send_queue, tries>>,
             delaying' \/ recv_pc' = "spawn" => delaying \/ recv_pc = "spawn"
      PROVE  AckInv'
  BY <1>5 DEF AckInv, AckFirst, AckAhead, Acked, AckBeforeProbe, ProbeAt
<1>6. CASE UNCHANGED vars
  BY <1>5, <1>6 DEF vars, sessionVars, recvVars
<1> QED
  BY <1>1, <1>2, <1>3, <1>4, <1>5, <1>6
     DEF Next, RecvThread, Receive, ReceiveEmpty, ReceiveFails, HandleNothing, HandleWelcome,
         Spawn, sessionVars

\* The client acknowledges its id before it sends a probe, in any interleaving
\* of the three threads.
THEOREM AcknowledgesFirst == Spec => []AckBeforeProbe
<1>1. Init => AckInv
  BY DEF Init, AckInv, AckFirst, AckBeforeProbe, Hello
<1>2. TypeOK /\ AckInv /\ [Next]_vars => AckInv'
  BY AckInductive
<1>3. AckInv => AckBeforeProbe
  BY DEF AckInv
<1> QED
  BY <1>1, <1>2, <1>3, TypeCorrect, PTL DEF Spec

-----------------------------------------------------------------------------
(* Reports.                                                                *)

\* sendto took a probe numbered s.
Probed(s) == \E k \in 1 .. Len(tries) : ProbeAt(k) /\ tries[k].ok /\ tries[k].packet.seq = s

\* Unless recvfrom failed, the number of a packet_3 in the hands of the receive
\* thread, and of a packet_6 in the queue, is that of a probe that was sent.
ReportInv ==
    /\ recvFailures = 0 =>
          /\ recv_pc = "handle" /\ ~TooShort(recv_len) /\ recv_buffer.type = "echo"
                => Probed(recv_buffer.seq)
          /\ \A m \in 1 .. Len(send_queue) : send_queue[m].kind = "report" => Probed(send_queue[m].seq)
    /\ ReportsMatchProbe

\* A datagram without bytes is too short.
LEMMA EmptyTooShort == TooShort(0)
  BY ClientAssumption DEF TooShort

\* Sending a packet forgets no probe, and a packet_6 was queued with the number
\* of one.
LEMMA ReportSent ==
    ASSUME TypeOK, ReportInv, NEW ok \in BOOLEAN, SendOne(ok)
    PROVE  ReportInv'
<1> DEFINE L == Len(tries)
<1>1. /\ L \in Nat /\ Len(tries') = L + 1
      /\ \A n \in 1 .. L : tries'[n] = tries[n]
      /\ tries'[L + 1].packet.kind = send_queue[1].kind
      /\ send_queue[1].kind = "report" => tries'[L + 1].packet.seq = send_queue[1].seq
  BY SendOneEffect, BuildType
<1>2. \A s : Probed(s) => Probed(s)'
  BY <1>1 DEF Probed, ProbeAt
<1>3. UNCHANGED <<recvFailures, recv_pc, recv_buffer, recv_len>>
  BY DEF SendOne, recvVars
<1>4. recvFailures = 0 /\ recv_pc = "handle" /\ ~TooShort(recv_len) /\ recv_buffer.type = "echo"
         => \A s : s = recv_buffer.seq => Probed(s)'
  BY <1>2 DEF ReportInv
<1>5. recvFailures = 0 => \A m \in 1 .. Len(send_queue') :
         send_queue'[m].kind = "report" => \A s : s = send_queue'[m].seq => Probed(s)'
  BY <1>2, SendOneEffect DEF ReportInv
<1>6. ReportsMatchProbe'
  <2> SUFFICES ASSUME recvFailures = 0, NEW n \in 1 .. L + 1, tries'[n].packet.kind = "report"
               PROVE  \E k \in 1 .. n - 1 : /\ tries'[k].packet.kind = "probe" /\ tries'[k].ok
                                            /\ tries'[k].packet.seq = tries'[n].packet.seq
    BY <1>1, <1>3 DEF ReportsMatchProbe, ProbeAt
  <2>1. CASE n \in 1 .. L
    <3>1. PICK k \in 1 .. n - 1 : /\ tries[k].packet.kind = "probe" /\ tries[k].ok
                                  /\ tries[k].packet.seq = tries[n].packet.seq
      BY <1>1, <2>1 DEF ReportInv, ReportsMatchProbe, ProbeAt
    <3> QED
      BY <1>1, <2>1, <3>1
  <2>2. CASE n = L + 1
    <3>1. Probed(send_queue[1].seq)
      BY <1>1, <2>2, SendOneEffect DEF ReportInv
    <3>2. PICK k \in 1 .. L : /\ tries[k].packet.kind = "probe" /\ tries[k].ok
                              /\ tries[k].packet.seq = send_queue[1].seq
      BY <3>1 DEF Probed, ProbeAt
    <3> QED
      BY <1>1, <2>2, <3>2
  <2> QED
    BY <1>1, <2>1, <2>2
<1>7. ReportInv'
  BY <1>3, <1>4, <1>5, <1>6 DEF ReportInv, TooShort, Probed, ProbeAt
<1> QED
  BY <1>7

\* The other steps send nothing; an echo comes from a probe that was sent.
LEMMA ReportInductive ==
    ASSUME TypeOK, ReportInv, [Next]_vars
    PROVE  ReportInv'
<1>1. ASSUME NEW ok \in BOOLEAN, SendOne(ok) PROVE ReportInv'
  BY <1>1, ReportSent
<1>2. ASSUME NEW m \in Receivable, Receive(m) PROVE ReportInv'
  <2>1. m.type = "echo" => Probed(m.seq)
    BY DEF Receivable, Probed, ProbeAt
  <2> QED
    BY <1>2, <2>1 DEF Receive, ReportInv, ReportsMatchProbe, Probed, ProbeAt
<1>3. CASE ReceiveEmpty
  BY <1>3, EmptyTooShort DEF ReceiveEmpty, ReportInv, ReportsMatchProbe, Probed, ProbeAt, TooShort
<1>4. CASE ReceiveFails
  BY <1>4 DEF ReceiveFails, ReportInv, ReportsMatchProbe, TypeOK
<1>5. CASE HandleNothing
  BY <1>5 DEF HandleNothing, ReportInv, ReportsMatchProbe, Probed, ProbeAt, countVars
<1>6. CASE HandleWelcome
  BY <1>6 DEF HandleWelcome, ReportInv, ReportsMatchProbe, Probed, ProbeAt, countVars
<1>7. ASSUME NEW job, send_queue' = Append(send_queue, job),
             UNCHANGED <<tries, recvFailures, recv_buffer, recv_len>>,
             recv_pc' = "handle" => recv_pc = "handle",
             recvFailures = 0 /\ job.kind = "report" => Probed(job.seq)
      PROVE  ReportInv'
  BY <1>7, PushEffect DEF ReportInv, ReportsMatchProbe, Probed, ProbeAt, TooShort
<1>8. CASE PushAck
  <2>1. Ack(c_id).kind = "ack"
    BY DEF Ack
  <2> QED
    BY <1>7, <1>8, <2>1 DEF PushAck, countVars
<1>9. CASE Spawn
  BY <1>9 DEF Spawn, ReportInv, ReportsMatchProbe, Probed, ProbeAt, countVars
<1>10. CASE HandleEcho
  <2> DEFINE job == Report(c_id, recv_buffer.seq)
  <2>1. job.seq = recv_buffer.seq /\ send_queue' = Append(send_queue, job)
    BY <1>10 DEF HandleEcho, Report
  <2>2. recvFailures = 0 => Probed(recv_buffer.seq)
    BY <1>10 DEF HandleEcho, ReportInv
  <2> HIDE DEF job
  <2> QED
    BY <1>7, <1>10, <2>1, <2>2 DEF HandleEcho, countVars
<1>11. CASE Tick
  <2>1. Probe.kind = "probe"
    BY DEF Probe
  <2> QED
    BY <1>7, <1>11, <2>1 DEF Tick, recvVars
<1>12. CASE UNCHANGED vars
  BY <1>12 DEF vars, recvVars, countVars, ReportInv, ReportsMatchProbe, Probed, ProbeAt
<1> QED
  BY <1>1, <1>2, <1>3, <1>4, <1>5, <1>6, <1>8, <1>9, <1>10, <1>11, <1>12 DEF Next, RecvThread

\* While recvfrom has not failed, a packet_6 only reports on a probe that was
\* sent before it, however echoes are duplicated and reordered.
THEOREM ReportsHaveProbes == Spec => []ReportsMatchProbe
<1>1. Init => ReportInv
  BY DEF Init, ReportInv, ReportsMatchProbe, Hello
<1>2. TypeOK /\ ReportInv /\ [Next]_vars => ReportInv'
  BY ReportInductive
<1>3. ReportInv => ReportsMatchProbe
  BY DEF ReportInv
<1> QED
  BY <1>1, <1>2, <1>3, TypeCorrect, PTL DEF Spec

-----------------------------------------------------------------------------
(* The end of the process.                                                 *)

Acknowledging == recv_pc \in {"ack", "spawn"}

\* A packet_1 is counted when it is handled, before its delay thread runs; a
\* datagram is counted before it is handled.
DeathInv ==
    /\ delaying \/ Acknowledging => welcomed > 0
    /\ delaying /\ Acknowledging => welcomed > 1
    /\ recvFailures = 0 => welcomed <= receives /\ (recv_pc = "handle" => welcomed < receives)
    /\ ~alive => welcomed > 1

\* std::terminate is only reached through a second packet_1: the delay thread
\* is not assigned anywhere else.
THEOREM DiesOfWelcomes == Spec => []DiesOnlyOfSecondWelcome
<1>1. Init => DeathInv
  BY DEF Init, DeathInv, Acknowledging
<1>2. TypeOK /\ DeathInv /\ [Next]_vars => DeathInv'
  <2> SUFFICES ASSUME TypeOK, DeathInv, [Next]_vars PROVE DeathInv'
    OBVIOUS
  <2>1. /\ welcomed \in Nat /\ receives \in Nat /\ recvFailures \in Nat
        /\ delaying \in BOOLEAN /\ alive \in BOOLEAN
    BY DEF TypeOK
  <2>2. CASE \E ok \in BOOLEAN : SendOne(ok)
    BY <2>2 DEF SendOne, DeathInv, Acknowledging, recvVars
  <2>3. CASE \E m \in Receivable : Receive(m)
    BY <2>1, <2>3 DEF Receive, DeathInv, Acknowledging, sessionVars
  <2>4. CASE ReceiveEmpty
    BY <2>1, <2>4 DEF ReceiveEmpty, DeathInv, Acknowledging, sessionVars
  <2>5. CASE ReceiveFails
    BY <2>1, <2>5 DEF ReceiveFails, DeathInv, Acknowledging, sessionVars
  <2>6. CASE HandleNothing
    BY <2>6 DEF HandleNothing, DeathInv, Acknowledging, sessionVars, countVars
  <2>7. CASE HandleWelcome
    BY <2>1, <2>7 DEF HandleWelcome, DeathInv, Acknowledging, countVars
  <2>8. CASE PushAck
    BY <2>8 DEF PushAck, DeathInv, Acknowledging, sessionVars, countVars
  <2>9. CASE Spawn
    BY <2>9 DEF Spawn, DeathInv, Acknowledging, countVars
  <2>10. CASE HandleEcho
    BY <2>10 DEF HandleEcho, DeathInv, Acknowledging, sessionVars, countVars
  <2>11. CASE Tick
    BY <2>11 DEF Tick, DeathInv, Acknowledging, sessionVars, recvVars
  <2>12. CASE UNCHANGED vars
    BY <2>12 DEF vars, sessionVars, recvVars, countVars, DeathInv, Acknowledging
  <2> QED
    BY <2>2, <2>3, <2>4, <2>5, <2>6, <2>7, <2>8, <2>9, <2>10, <2>11, <2>12 DEF Next, RecvThread
<1>3. TypeOK /\ DeathInv => DiesOnlyOfSecondWelcome
  BY DEF TypeOK, DeathInv, DiesOnlyOfSecondWelcome
<1> QED
  BY <1>1, <1>2, <1>3, TypeCorrect, PTL DEF Spec
=============================================================================
